----------------------------- MODULE MCAiDigest -----------------------------
(* TLC instance of AiDigest: the digests of one user, two workers, and room *)
(* for one unit in the month.                                               *)
EXTENDS AiDigest, TLC

CONSTANTS u1, a, b, w1, w2

MCUserOf == [k \in Keys |-> u1]

MCLimit == [u \in Users |-> 1]

MCPeriodStart == [t \in 0 .. MaxClock |-> 0]

DigestSymmetry == Permutations(Workers) \cup Permutations(Keys)
=============================================================================
