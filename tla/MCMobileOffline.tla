--------------------------- MODULE MCMobileOffline ---------------------------
(* TLC instance of MobileOffline: the user marks the article unread, archives *)
(* it and stars it; two requests at a time.                                 *)
EXTENDS MobileOffline, TLC

MCInput == << [isRead |-> FALSE], [isArchived |-> TRUE], [isStarred |-> TRUE] >>
=============================================================================
