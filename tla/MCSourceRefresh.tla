-------------------------- MODULE MCSourceRefresh --------------------------
(* TLC instance of SourceRefresh: the second document changes item a and   *)
(* adds item b.                                                            *)
EXTENDS SourceRefresh, TLC

CONSTANTS w1, w2, a, b

MCDoc == << (a :> 1), (a :> 2) @@ (b :> 1) >>
=============================================================================
