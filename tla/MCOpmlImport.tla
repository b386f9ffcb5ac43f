---------------------------- MODULE MCOpmlImport ----------------------------
(* TLC instance of OpmlImport. *)
EXTENDS OpmlImport, TLC

CONSTANTS w1, w2, v1, v2, s1, s2
=============================================================================
