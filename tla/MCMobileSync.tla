---------------------------- MODULE MCMobileSync ----------------------------
(* TLC instance of MobileSync: two writers, two cache keys, two events.    *)
EXTENDS MobileSync, TLC

CONSTANTS w1, w2, k1, k2
=============================================================================
