---------------------------- MODULE MCAiSummary ----------------------------
(* TLC instance of AiSummary: two users ask for a result they share, one    *)
(* unit each and month, two requests at a time.                             *)
EXTENDS AiSummary, TLC

CONSTANTS u1, u2, a, b, w1, w2, r1

MCUserOf == (a :> u1) @@ (b :> u2)

MCLimit == (u1 :> 1) @@ (u2 :> 1)

MCPeriodStart == [t \in 0 .. MaxClock |-> 2 * (t \div 2)]

MCResultOf == (a :> r1) @@ (b :> r1)
===========================================================================
