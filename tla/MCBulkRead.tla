----------------------------- MODULE MCBulkRead -----------------------------
(* TLC instance of BulkRead: two requests, two workers, three articles.     *)
EXTENDS BulkRead, TLC

CONSTANTS r1, r2, w1, w2
=============================================================================
