---------------------------- MODULE MCDigestEmail ----------------------------
(* TLC instance of DigestEmail. *)
EXTENDS DigestEmail, TLC

CONSTANTS w1, w2
=============================================================================
