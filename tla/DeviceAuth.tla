----------------------------- MODULE DeviceAuth -----------------------------
(***************************************************************************)
(* The server side of mobile sign-in, src/lib/mobile-auth.ts, for one      *)
(* account: authorization requests approved or cancelled in the browser,   *)
(* codes exchanged for a device and its first session, refresh tokens      *)
(* rotated, families revoked.  Every handler is a call that takes several   *)
(* database steps, and calls interleave between them.  The database is at   *)
(* READ COMMITTED: an UPDATE sees the rows committed when it starts, waits  *)
(* for rows another transaction has written, and looks at them again.      *)
(*                                                                         *)
(* A refresh token and the access token made with it stand for their       *)
(* DeviceSession row, numbered in the order the rows are made; a family is  *)
(* its MobileDevice row.  Expiry is left out: every check of expiresAt      *)
(* stands beside one of revokedAt, usedAt or status that is kept.           *)
(***************************************************************************)
EXTENDS Naturals, Sequences, FiniteSets

CONSTANTS
  Calls,         \* requests the server works on at the same time
  MaxRequests,   \* bound: authorization requests made
  MaxSessions,   \* bound: DeviceSession rows made
  MaxDevices,    \* MAX_MOBILE_DEVICE_SESSIONS_PER_USER
  MaxEvents      \* bound: failures, revocations, account changes and the like

ASSUME AuthAssumption ==
  /\ {MaxRequests, MaxSessions, MaxEvents} \subseteq Nat
  /\ MaxDevices \in Nat \ {0}

VARIABLES
  version,   \* User.authVersion; disabling the account also increments it
  request,   \* MobileAuthorizationRequest rows, each with its code once approved
  device,    \* MobileDevice rows
  session,   \* DeviceSession rows
  call,      \* the state of each call
  events     \* how many bounded events happened

authVars == <<version, request, device, session, call, events>>

Event == events < MaxEvents /\ events' = events + 1

Request == [status : {"pending", "approved", "cancelled"}, version : Nat, used : BOOLEAN]

Device == [version : Nat, request : 1 .. MaxRequests, revoked : BOOLEAN, reused : BOOLEAN]

Session == [family : 1 .. MaxSessions, version : Nat, replaced : BOOLEAN, revoked : BOOLEAN]

Stages == {"idle", "approve", "approving", "cancel", "cancelling",
           "exchange", "lock", "count", "claim",
           "refresh", "reread", "consume", "commit", "revoke", "apply", "answered"}

\* A call has an argument (a request, session or family; 0 for all families),
\* the rows its UPDATE saw, whether it marks reuse, and its answer.
Call == [pc     : Stages,
         arg    : Nat,
         seen   : SUBSET (1 .. MaxSessions),
         reuse  : BOOLEAN,
         answer : {"none", "ok", "invalid", "error"},
         token  : Nat]

NoCall == [pc |-> "idle", arg |-> 0, seen |-> {}, reuse |-> FALSE, answer |-> "none", token |-> 0]

\* The call c starts at stage pc.
Place(c, pc, arg) ==
  /\ call[c] = NoCall
  /\ call' = [call EXCEPT ![c] = [NoCall EXCEPT !.pc = pc, !.arg = arg, !.answer = "ok"]]

At(c, pc) == call[c].pc = pc

GoTo(c, pc) == call' = [call EXCEPT ![c].pc = pc]

\* The call answers, with the token it made if it made one.
Answer(c, answer, token) ==
  call' = [call EXCEPT ![c] = [NoCall EXCEPT !.pc = "answered", !.answer = answer, !.token = token]]

\* revokeMobileDeviceFamily follows, and the call then refuses the token.
GoRevoke(c, family, reuse) ==
  call' = [call EXCEPT ![c] = [NoCall EXCEPT !.pc = "revoke", !.arg = family,
                                             !.reuse = reuse, !.answer = "invalid"]]

-----------------------------------------------------------------------------
(* Authorization in the browser                                              *)

\* createMobileAuthorizationRequest: the signed-in browser opens the page.
CreateRequest ==
  /\ Len(request) < MaxRequests
  /\ request' = Append(request, [status |-> "pending", version |-> version, used |-> FALSE])

\* getPendingMobileAuthorizationRequest, outside the transaction.
ReadPending(c) ==
  /\ At(c, "approve") \/ At(c, "cancel")
  /\ IF request[call[c].arg].status = "pending"
     THEN GoTo(c, IF At(c, "approve") THEN "approving" ELSE "cancelling")
     ELSE Answer(c, "invalid", 0)
  /\ UNCHANGED <<version, request, device, session, events>>

\* The transaction of the call holds the user row.
HoldsUser(c) == call[c].pc \in {"count", "claim"}

\* A transaction of another call holds the user row.
UserLocked(c) == \E d \in Calls \ {c} : HoldsUser(d)

\* approveMobileAuthorizationRequest: the request is approved and its code
\* made, if the account and the request are still as they were read.
ApproveTx(c) ==
  LET r == call[c].arg IN
  /\ At(c, "approving")
  /\ ~UserLocked(c)
  /\ IF request[r].version = version /\ request[r].status = "pending"
     THEN /\ request' = [request EXCEPT ![r].status = "approved"]
          /\ Answer(c, "ok", 0)
     ELSE /\ Answer(c, "invalid", 0)
          /\ UNCHANGED request
  /\ UNCHANGED <<version, device, session, events>>

\* cancelMobileAuthorizationRequest.
CancelTx(c) ==
  LET r == call[c].arg IN
  /\ At(c, "cancelling")
  /\ IF request[r].status = "pending"
     THEN /\ request' = [request EXCEPT ![r].status = "cancelled"]
          /\ Answer(c, "ok", 0)
     ELSE /\ Answer(c, "invalid", 0)
          /\ UNCHANGED request
  /\ UNCHANGED <<version, device, session, events>>

-----------------------------------------------------------------------------
(* exchangeDeviceAuthorizationCode                                           *)

\* The code is read and checked outside the transaction.
ExchangeRead(c) ==
  LET r == request[call[c].arg] IN
  /\ At(c, "exchange")
  /\ IF r.status = "approved" /\ ~r.used /\ r.version = version
     THEN GoTo(c, "lock")
     ELSE Answer(c, "invalid", 0)
  /\ UNCHANGED <<version, request, device, session, events>>

\* Mutant: the transaction does not update the user row first.
LockUserNot(c) ==
  /\ At(c, "lock")
  /\ IF request[call[c].arg].version = version
     THEN GoTo(c, "count")
     ELSE Answer(c, "invalid", 0)
  /\ UNCHANGED <<version, request, device, session, events>>

\* Updating the user row takes its lock until the transaction ends.
LockUser(c) ==
  /\ At(c, "lock")
  /\ ~UserLocked(c)
  /\ IF request[call[c].arg].version = version
     THEN GoTo(c, "count")
     ELSE Answer(c, "invalid", 0)
  /\ UNCHANGED <<version, request, device, session, events>>

ActiveDevices == {f \in DOMAIN device : ~device[f].revoked}

\* The devices are counted; a full account answers "device-limit".
CountDevices(c) ==
  /\ At(c, "count")
  /\ IF Cardinality(ActiveDevices) < MaxDevices
     THEN GoTo(c, "claim")
     ELSE Answer(c, "invalid", 0)
  /\ UNCHANGED <<version, request, device, session, events>>

\* The code is claimed, device and first session are made, and the
\* transaction commits.
ClaimCode(c) ==
  LET r == call[c].arg IN
  /\ At(c, "claim")
  /\ Len(session) < MaxSessions
  /\ IF request[r].used
     THEN /\ Answer(c, "invalid", 0)
          /\ UNCHANGED <<request, device, session>>
     ELSE /\ request' = [request EXCEPT ![r].used = TRUE]
          /\ device' = Append(device, [version |-> request[r].version, request |-> r,
                                       revoked |-> FALSE, reused |-> FALSE])
          /\ session' = Append(session, [family |-> Len(device) + 1,
                                         version |-> request[r].version,
                                         replaced |-> FALSE, revoked |-> FALSE])
          /\ Answer(c, "ok", Len(session) + 1)
  /\ UNCHANGED <<version, events>>

-----------------------------------------------------------------------------
(* refreshMobileDeviceSession                                                *)

Stale(s) == session[s].version # version

\* The row is read outside the transaction: a stale account revokes the
\* family, a revoked row is refused, a replaced row is a reuse.
RefreshRead(c) ==
  LET s == call[c].arg IN
  /\ At(c, "refresh")
  /\ IF Stale(s) THEN GoRevoke(c, session[s].family, FALSE)
     ELSE IF session[s].revoked THEN Answer(c, "invalid", 0)
     ELSE IF session[s].replaced THEN GoRevoke(c, session[s].family, TRUE)
     ELSE GoTo(c, "reread")
  /\ UNCHANGED <<version, request, device, session, events>>

\* The row is read again inside the transaction, and checked again.
RefreshReread(c) ==
  LET s == call[c].arg IN
  /\ At(c, "reread")
  /\ IF session[s].revoked THEN Answer(c, "invalid", 0)
     ELSE IF session[s].replaced THEN GoRevoke(c, session[s].family, TRUE)
     ELSE IF Stale(s) THEN GoRevoke(c, session[s].family, FALSE)
     ELSE GoTo(c, "consume")
  /\ UNCHANGED <<version, request, device, session, events>>

\* The row is written by a refresh that has not committed yet.
RowLocked(s, c) == \E d \in Calls \ {c} : call[d].pc = "commit" /\ call[d].arg = s

\* Mutant: the row is consumed as it was read, without the conditions.
ConsumeUnchecked(c) ==
  /\ At(c, "consume")
  /\ ~RowLocked(call[c].arg, c)
  /\ GoTo(c, "commit")
  /\ UNCHANGED <<version, request, device, session, events>>

\* The replacement is created and the row consumed; no row to consume means
\* that another refresh or a revocation was first.
Consume(c) ==
  LET s == call[c].arg IN
  /\ At(c, "consume")
  /\ ~RowLocked(s, c)
  /\ IF session[s].replaced \/ session[s].revoked
     THEN GoRevoke(c, session[s].family, TRUE)
     ELSE GoTo(c, "commit")
  /\ UNCHANGED <<version, request, device, session, events>>

\* The rotation becomes visible.
Rotated(s) ==
  session' = Append([session EXCEPT ![s].replaced = TRUE],
                    [family |-> session[s].family, version |-> session[s].version,
                     replaced |-> FALSE, revoked |-> FALSE])

\* The transaction commits and the new tokens are the answer.
CommitRotation(c) ==
  /\ At(c, "commit")
  /\ Len(session) < MaxSessions
  /\ Rotated(call[c].arg)
  /\ Answer(c, "ok", Len(session) + 1)
  /\ UNCHANGED <<version, request, device, events>>

\* The transaction commits but the server does not learn it: the connection
\* fails, and the answer is an internal error that may be retried.
CommitUnknown(c) ==
  /\ Event
  /\ At(c, "commit")
  /\ Len(session) < MaxSessions
  /\ Rotated(call[c].arg)
  /\ Answer(c, "error", 0)
  /\ UNCHANGED <<version, request, device>>

-----------------------------------------------------------------------------
(* Revocation                                                                *)

RowsOf(F) == {s \in DOMAIN session : session[s].family \in F /\ ~session[s].revoked}

FamiliesOf(c) == IF call[c].arg = 0 THEN DOMAIN device ELSE {call[c].arg}

\* revokeMobileDeviceFamily and revokeAllMobileDeviceSessions: the UPDATE of
\* the session rows starts and sees the rows committed by now.
RevokeStart(c) ==
  /\ At(c, "revoke")
  /\ call' = [call EXCEPT ![c].pc = "apply", ![c].seen = RowsOf(FamiliesOf(c))]
  /\ UNCHANGED <<version, request, device, session, events>>

\* The rows it saw are revoked once no refresh holds them, then the device
\* rows, and the transaction commits.
RevokeApply(c) ==
  /\ At(c, "apply")
  /\ \A s \in call[c].seen : ~RowLocked(s, c)
  /\ session' = [s \in DOMAIN session |->
                   IF s \in call[c].seen THEN [session[s] EXCEPT !.revoked = TRUE] ELSE session[s]]
  /\ device' = [f \in DOMAIN device |->
                  IF f \in FamiliesOf(c) /\ ~device[f].revoked
                  THEN [device[f] EXCEPT !.revoked = TRUE, !.reused = call[c].reuse]
                  ELSE device[f]]
  /\ Answer(c, call[c].answer, 0)
  /\ UNCHANGED <<version, request, events>>

\* The authentication version is incremented: password reset, disablement,
\* "sign out everywhere".  It waits for an exchange that holds the user row.
ChangeAccount ==
  /\ Event
  /\ \A c \in Calls : ~HoldsUser(c)
  /\ version' = version + 1
  /\ UNCHANGED <<request, device, session, call>>

\* A call fails before it commits, or is refused by a rate limit: its
\* transaction rolls back and the answer may be retried.
ServerFails(c) ==
  /\ Event
  /\ call[c].pc \notin {"idle", "answered"}
  /\ Answer(c, "error", 0)
  /\ UNCHANGED <<version, request, device, session>>

AuthStep ==
  \/ \E c \in Calls :
       \/ ReadPending(c) \/ ApproveTx(c) \/ CancelTx(c)
       \/ ExchangeRead(c) \/ LockUser(c) \/ CountDevices(c) \/ ClaimCode(c)
       \/ RefreshRead(c) \/ RefreshReread(c) \/ Consume(c)
       \/ CommitRotation(c) \/ CommitUnknown(c)
       \/ RevokeStart(c) \/ RevokeApply(c) \/ ServerFails(c)
  \/ ChangeAccount

AuthInit ==
  /\ version = 0
  /\ request = <<>>
  /\ device = <<>>
  /\ session = <<>>
  /\ call = [c \in Calls |-> NoCall]
  /\ events = 0

-----------------------------------------------------------------------------
(* Properties                                                                *)

AuthTypeOK ==
  /\ version \in Nat
  /\ request \in Seq(Request) /\ Len(request) <= MaxRequests
  /\ device \in Seq(Device)
  /\ session \in Seq(Session) /\ Len(session) <= MaxSessions
  /\ call \in [Calls -> Call]
  /\ events \in 0 .. MaxEvents

\* authenticateMobileAccessToken: the session whose access token is accepted.
Accepted(s) ==
  /\ ~session[s].replaced /\ ~session[s].revoked
  /\ ~device[session[s].family].revoked
  /\ ~Stale(s)

\* The families that have ended: the device is revoked or of an old version.
Ended == {f \in DOMAIN device : device[f].revoked \/ device[f].version # version}

AcceptedOf(f) == {s \in DOMAIN session : session[s].family = f /\ Accepted(s)}

Family == INSTANCE TokenFamily WITH
            Families <- 1 .. MaxSessions,
            Tokens   <- 1 .. MaxSessions,
            accepted <- [f \in 1 .. MaxSessions |-> AcceptedOf(f)],
            ended    <- Ended

\* However refreshes, reuse detection, revocations and account changes
\* interleave, a device has at most one accepted token at a time, it only moves
\* to a later one, and a revoked or outdated device never has one again.
ImplementsTokenFamily == Family!FamilySpec

\* Concurrent exchanges never leave an account with more devices than the
\* limit, and one authorization makes at most one device.
DeviceLimit ==
  /\ Cardinality(ActiveDevices) <= MaxDevices
  /\ \A f, g \in DOMAIN device : device[f].request = device[g].request => f = g
=============================================================================
