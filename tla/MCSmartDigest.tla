---------------------------- MODULE MCSmartDigest ----------------------------
(* TLC instance of SmartDigest. *)
EXTENDS SmartDigest, TLC

CONSTANTS w1, w2, a1, a2

\* The second article carries the older publication date.
PublishedAt == [a \in Articles |-> IF a = a1 THEN 1 ELSE 0]
=============================================================================
