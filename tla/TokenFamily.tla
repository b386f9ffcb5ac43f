----------------------------- MODULE TokenFamily -----------------------------
(***************************************************************************)
(* What a device sign-in promises, whatever the server does inside: each   *)
(* family of credentials has at most one that the API accepts, the         *)
(* accepted one only ever moves on to a later one, and a family that has    *)
(* ended (revoked, or left behind by an account change) never has an       *)
(* accepted credential again.                                              *)
(***************************************************************************)
EXTENDS Naturals

CONSTANTS
  Families,   \* one for each device sign-in
  Tokens      \* credentials, numbered from 1 in the order they are made

VARIABLES
  accepted,   \* the credentials of each family the API accepts
  ended       \* the families that have ended

familyVars == <<accepted, ended>>

FamilyInit ==
  /\ accepted = [f \in Families |-> {}]
  /\ ended = {}

\* A sign-in issues the first credential of a family.
Issue(f, t) ==
  /\ accepted[f] = {}
  /\ f \notin ended
  /\ accepted' = [accepted EXCEPT ![f] = {t}]
  /\ UNCHANGED ended

\* A refresh replaces the accepted credential by a later one.
Rotate(f, t) ==
  /\ accepted[f] # {}
  /\ \A u \in accepted[f] : u < t
  /\ accepted' = [accepted EXCEPT ![f] = {t}]
  /\ UNCHANGED ended

\* Families end together: one device, all devices, or the whole account.
End(F) ==
  /\ ended' = ended \cup F
  /\ accepted' = [f \in Families |-> IF f \in F THEN {} ELSE accepted[f]]

FamilyNext ==
  \/ \E f \in Families, t \in Tokens : Issue(f, t) \/ Rotate(f, t)
  \/ \E F \in SUBSET Families : End(F)

FamilySpec == FamilyInit /\ [][FamilyNext]_familyVars
=============================================================================
