---------------------------- MODULE MCChatOutbox ----------------------------
(* TLC instance of ChatOutbox: two events, two workers with one owner name  *)
(* or two.                                                                  *)
EXTENDS ChatOutbox, TLC

CONSTANTS w1, w2, n1, n2
=============================================================================
