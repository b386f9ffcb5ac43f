--------------------------- MODULE MCMobileSession ---------------------------
(* TLC instance of MobileSession: two server calls at a time.               *)
EXTENDS MobileSession, TLC

CONSTANTS c1, c2

CallSymmetry == Permutations(Calls)
=============================================================================
