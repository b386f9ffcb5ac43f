------------------------ MODULE MobileSessionProofs ------------------------
(***************************************************************************)
(* Proofs about mobile sign-in.  The server keeps AuthInv under the app's  *)
(* steps as well as its own, and implements TokenFamily; the app keeps     *)
(* AppInv, which relates its queue of storage operations to its memory, its*)
(* disk and to who waits for them; and until something tears the app's copy*)
(* from the server's row, each token has one place and one reader          *)
(* (TokensInv), so that none is presented twice.                           *)
(***************************************************************************)
EXTENDS MobileSession, FiniteSetTheorems, SequenceTheorems, TLAPS

-----------------------------------------------------------------------------
(* The server's inductive invariant                                          *)

RequestStages == {"approve", "approving", "cancel", "cancelling", "exchange", "lock",
                  "count", "claim"}
Locking == {"count", "claim"}
Refreshing == {"refresh", "reread", "consume", "commit"}
Revoking == {"revoke", "apply"}

\* What the rows have in common: a device has a session, its sessions carry
\* its version and are revoked only with it, and all but one are replaced; a
\* device was made by a request of its own, which is used up.
RowsInv ==
  /\ Len(device) <= Len(session)
  /\ \A s \in DOMAIN session :
       /\ session[s].family \in DOMAIN device
       /\ session[s].version = device[session[s].family].version
       /\ session[s].revoked => device[session[s].family].revoked
  /\ \A s, t \in DOMAIN session :
       session[s].family = session[t].family /\ ~session[s].replaced /\ ~session[t].replaced => s = t
  /\ \A f \in DOMAIN device :
       /\ device[f].version <= version
       /\ device[f].request \in DOMAIN request
       /\ request[device[f].request].used
  /\ \A f, g \in DOMAIN device : device[f].request = device[g].request => f = g
  /\ \A r \in DOMAIN request : request[r].version <= version

\* The families a revocation with argument a is about.
FamiliesAt(a) == IF a = 0 THEN DOMAIN device ELSE {a}

\* A call is about an existing row.  A transaction that holds the user row has
\* the account as it read it and, once it counted, room for a device; a
\* rotation about to commit still has its row as it found it; a revocation saw
\* rows of its own families only.
CallOK(x) ==
  /\ x.pc \in RequestStages => x.arg \in DOMAIN request
  /\ x.pc \in Locking => request[x.arg].version = version
  /\ x.pc = "claim" => Cardinality(ActiveDevices) < MaxDevices
  /\ x.pc \in Refreshing => x.arg \in DOMAIN session
  /\ x.pc = "commit" => ~session[x.arg].replaced /\ ~session[x.arg].revoked
  /\ x.pc \in Revoking => x.arg \in {0} \cup DOMAIN device
  /\ x.pc = "apply" => \A s \in x.seen : s \in DOMAIN session /\ session[s].family \in FamiliesAt(x.arg)
  /\ x.pc = "answered" => x.token \in {0} \cup DOMAIN session

\* One transaction holds the user row, and one rotation a session row.
Exclusive ==
  \A c, d \in Calls : c # d =>
    /\ ~(call[c].pc \in Locking /\ call[d].pc \in Locking)
    /\ ~(call[c].pc = "commit" /\ call[d].pc = "commit" /\ call[c].arg = call[d].arg)

CallsInv == \A c \in Calls : CallOK(call[c])

AuthInv == AuthTypeOK /\ RowsInv /\ CallsInv /\ Exclusive /\ Cardinality(ActiveDevices) <= MaxDevices

-----------------------------------------------------------------------------
(* Rows in sequences                                                         *)

\* What a sequence of rows looks like after a row was appended.
LEMMA AppendRow ==
  ASSUME NEW S, NEW q \in Seq(S), NEW e \in S
  PROVE  /\ Append(q, e) \in Seq(S) /\ Len(q) \in Nat
         /\ DOMAIN q = 1 .. Len(q)
         /\ Len(Append(q, e)) = Len(q) + 1 /\ Len(q) + 1 \notin DOMAIN q
         /\ DOMAIN Append(q, e) = DOMAIN q \cup {Len(q) + 1}
         /\ \A i \in DOMAIN q : Append(q, e)[i] = q[i]
         /\ Append(q, e)[Len(q) + 1] = e
<1>1. /\ Append(q, e) \in Seq(S) /\ Len(Append(q, e)) = Len(q) + 1
      /\ \A i \in 1 .. Len(q) : Append(q, e)[i] = q[i]
      /\ Append(q, e)[Len(q) + 1] = e
  BY AppendProperties
<1>2. /\ Len(q) \in Nat /\ DOMAIN q = 1 .. Len(q)
      /\ DOMAIN Append(q, e) = 1 .. Len(q) + 1
  BY <1>1, LenProperties
<1>3. 1 .. Len(q) + 1 = (1 .. Len(q)) \cup {Len(q) + 1} /\ Len(q) + 1 \notin 1 .. Len(q)
  BY <1>2
<1> QED BY <1>1, <1>2, <1>3

\* What it looks like after one row was replaced.
LEMMA ReplaceRow ==
  ASSUME NEW S, NEW q \in Seq(S), NEW i \in DOMAIN q, NEW e \in S
  PROVE  /\ [q EXCEPT ![i] = e] \in Seq(S)
         /\ Len([q EXCEPT ![i] = e]) = Len(q)
         /\ DOMAIN [q EXCEPT ![i] = e] = DOMAIN q
         /\ \A j \in DOMAIN q : [q EXCEPT ![i] = e][j] = IF j = i THEN e ELSE q[j]
<1>1. DOMAIN q = 1 .. Len(q) BY LenProperties
<1> QED BY <1>1, ExceptSeq

\* A function on 1 .. n is a sequence.
LEMMA RowsOfFunction ==
  ASSUME NEW S, NEW q \in Seq(S), NEW f \in [DOMAIN q -> S]
  PROVE  f \in Seq(S) /\ Len(f) = Len(q)
<1>1. DOMAIN q = 1 .. Len(q) /\ Len(q) \in Nat BY LenProperties
<1>2. f \in [1 .. Len(q) -> S] BY <1>1
<1>3. f \in Seq(S) BY <1>1, <1>2, SeqDef
<1>4. DOMAIN f = 1 .. Len(f) /\ Len(f) \in Nat BY <1>3, LenProperties
<1>5. 1 .. Len(f) = 1 .. Len(q) BY <1>2, <1>4
<1> QED BY <1>1, <1>3, <1>4, <1>5

\* A row of a sequence.
LEMMA RowOf ==
  ASSUME NEW S, NEW q \in Seq(S)
  PROVE  /\ DOMAIN q = 1 .. Len(q) /\ Len(q) \in Nat
         /\ \A i \in DOMAIN q : q[i] \in S
BY LenProperties, ElementOfSeq

-----------------------------------------------------------------------------
(* Calls                                                                     *)

\* A call by its fields.
CallRec(pc, arg, seen, reuse, answer, token) ==
  [pc |-> pc, arg |-> arg, seen |-> seen, reuse |-> reuse, answer |-> answer, token |-> token]

LEMMA CallFields ==
  ASSUME NEW x \in Call
  PROVE  /\ x = CallRec(x.pc, x.arg, x.seen, x.reuse, x.answer, x.token)
         /\ x.pc \in Stages /\ x.arg \in Nat /\ x.seen \in SUBSET (1 .. MaxSessions)
         /\ x.reuse \in BOOLEAN /\ x.answer \in {"none", "ok", "invalid", "error"}
         /\ x.token \in Nat
BY DEF Call, CallRec

LEMMA NoCallFields ==
  NoCall = CallRec("idle", 0, {}, FALSE, "none", 0) /\ NoCall \in Call
BY DEF NoCall, CallRec, Call, Stages

\* The call c becomes x and no other call changes.
Becomes(c, x) == call' = [call EXCEPT ![c] = x]

LEMMA BecomesFields ==
  ASSUME call \in [Calls -> Call], NEW c \in Calls, NEW x \in Call, Becomes(c, x)
  PROVE  /\ call' \in [Calls -> Call]
         /\ call'[c] = x
         /\ \A d \in Calls \ {c} : call'[d] = call[d]
BY DEF Becomes

LEMMA GoToBecomes ==
  ASSUME call \in [Calls -> Call], NEW c \in Calls, NEW pc \in Stages, GoTo(c, pc)
  PROVE  \E x \in Call : /\ Becomes(c, x)
                         /\ x = CallRec(pc, call[c].arg, call[c].seen, call[c].reuse,
                                        call[c].answer, call[c].token)
<1> DEFINE x == CallRec(pc, call[c].arg, call[c].seen, call[c].reuse, call[c].answer, call[c].token)
<1>1. x \in Call BY DEF Call, CallRec
<1>2. [call[c] EXCEPT !.pc = pc] = x BY DEF Call, CallRec
<1>3. call' = [call EXCEPT ![c] = [call[c] EXCEPT !.pc = pc]] BY DEF GoTo
<1> QED BY <1>1, <1>2, <1>3 DEF Becomes

LEMMA PlaceBecomes ==
  ASSUME call \in [Calls -> Call], NEW c \in Calls, NEW pc \in Stages, NEW arg \in Nat,
         Place(c, pc, arg)
  PROVE  /\ call[c] = NoCall
         /\ \E x \in Call : Becomes(c, x) /\ x = CallRec(pc, arg, {}, FALSE, "ok", 0)
<1>1. ASSUME NEW q, q = [NoCall EXCEPT !.pc = pc, !.arg = arg, !.answer = "ok"]
      PROVE  q = CallRec(pc, arg, {}, FALSE, "ok", 0)
  BY <1>1 DEF NoCall, CallRec
<1>2. CallRec(pc, arg, {}, FALSE, "ok", 0) \in Call BY DEF CallRec, Call
<1> QED BY <1>1, <1>2 DEF Place, Becomes

LEMMA AnswerBecomes ==
  ASSUME call \in [Calls -> Call], NEW c \in Calls, NEW token \in Nat,
         NEW answer \in {"none", "ok", "invalid", "error"}, Answer(c, answer, token)
  PROVE  \E x \in Call : Becomes(c, x) /\ x = CallRec("answered", 0, {}, FALSE, answer, token)
<1>1. ASSUME NEW q, q = [NoCall EXCEPT !.pc = "answered", !.answer = answer, !.token = token]
      PROVE  q = CallRec("answered", 0, {}, FALSE, answer, token)
  BY <1>1 DEF NoCall, CallRec
<1>2. CallRec("answered", 0, {}, FALSE, answer, token) \in Call BY DEF CallRec, Call, Stages
<1> QED BY <1>1, <1>2 DEF Answer, Becomes

LEMMA GoRevokeBecomes ==
  ASSUME call \in [Calls -> Call], NEW c \in Calls, NEW family \in Nat, NEW reuse \in BOOLEAN,
         GoRevoke(c, family, reuse)
  PROVE  \E x \in Call : Becomes(c, x) /\ x = CallRec("revoke", family, {}, reuse, "invalid", 0)
<1>1. ASSUME NEW q, q = [NoCall EXCEPT !.pc = "revoke", !.arg = family,
                                       !.reuse = reuse, !.answer = "invalid"]
      PROVE  q = CallRec("revoke", family, {}, reuse, "invalid", 0)
  BY <1>1 DEF NoCall, CallRec
<1>2. CallRec("revoke", family, {}, reuse, "invalid", 0) \in Call BY DEF CallRec, Call, Stages
<1> QED BY <1>1, <1>2 DEF GoRevoke, Becomes

-----------------------------------------------------------------------------
(* The server keeps AuthInv                                                  *)

\* The types of the rows and of the calls.
LEMMA AuthTypes ==
  ASSUME AuthTypeOK
  PROVE  /\ version \in Nat /\ events \in 0 .. MaxEvents /\ call \in [Calls -> Call]
         /\ \A r \in DOMAIN request : request[r] \in Request
         /\ \A f \in DOMAIN device : device[f] \in Device
         /\ \A s \in DOMAIN session : session[s] \in Session
         /\ DOMAIN request = 1 .. Len(request) /\ Len(request) \in Nat
         /\ DOMAIN device = 1 .. Len(device) /\ Len(device) \in Nat
         /\ DOMAIN session = 1 .. Len(session) /\ Len(session) \in Nat
         /\ MaxSessions \in Nat /\ MaxRequests \in Nat /\ MaxEvents \in Nat /\ MaxDevices \in Nat
BY RowOf, AuthAssumption DEF AuthTypeOK

\* The event counter keeps its type.
LEMMA EventsKeepType ==
  ASSUME AuthTypeOK, Event \/ events' = events
  PROVE  events' \in 0 .. MaxEvents
BY AuthTypes DEF Event

\* When requests are added or decided and the other rows stay, what is known
\* of the rows and of the calls stays.
LEMMA KeepRows ==
  ASSUME AuthTypeOK, RowsInv, UNCHANGED <<version, device, session>>,
         DOMAIN request \subseteq DOMAIN request',
         \A r \in DOMAIN request : /\ request'[r].version = request[r].version
                                   /\ request[r].used => request'[r].used,
         \A r \in DOMAIN request' : request'[r].version <= version
  PROVE  /\ RowsInv' /\ ActiveDevices' = ActiveDevices
         /\ \A x \in Call : CallOK(x) => CallOK(x)'
<1>1. RowsInv' BY DEF RowsInv
<1>2. ActiveDevices' = ActiveDevices BY DEF ActiveDevices
<1>3. ASSUME NEW x \in Call, CallOK(x) PROVE CallOK(x)'
  <2>1. x.pc \in Locking => x.pc \in RequestStages BY DEF Locking, RequestStages
  <2>2. x.pc \in RequestStages => x.arg \in DOMAIN request /\ x.arg \in DOMAIN request'
    BY <1>3 DEF CallOK
  <2>3. x.pc \in Locking => request'[x.arg].version = version'
    BY <1>3, <2>1, <2>2 DEF CallOK
  <2> QED BY <1>2, <1>3, <2>2, <2>3 DEF CallOK, FamiliesAt
<1> QED BY <1>1, <1>2, <1>3

\* One call moves on.
LEMMA CallMoves ==
  ASSUME AuthTypeOK, Exclusive, NEW c \in Calls, NEW x \in Call, Becomes(c, x), CallOK(x)',
         \A d \in Calls \ {c} : \A y \in Call : y = call[d] => CallOK(y)',
         x.pc \in Locking => \A d \in Calls \ {c} : call[d].pc \notin Locking,
         x.pc = "commit" => \A d \in Calls \ {c} : ~(call[d].pc = "commit" /\ call[d].arg = x.arg)
  PROVE  CallsInv' /\ Exclusive' /\ call' \in [Calls -> Call]
<1>1. call \in [Calls -> Call] BY AuthTypes
<1>2. call' \in [Calls -> Call] /\ call'[c] = x /\ \A d \in Calls \ {c} : call'[d] = call[d]
  BY <1>1, BecomesFields
<1>3. ASSUME NEW d \in Calls PROVE CallOK(call[d])' 
  <2>1. CASE d = c BY <1>2, <2>1 DEF CallOK, ActiveDevices, FamiliesAt
  <2>2. CASE d # c
    <3>1. call[d] \in Call BY <1>1
    <3>2. PICK y \in Call : y = call[d] BY <3>1
    <3>3. CallOK(y)' BY <2>2, <3>2
    <3>4. call'[d] = y BY <1>2, <2>2, <3>2
    <3> QED BY <3>3, <3>4 DEF CallOK, ActiveDevices, FamiliesAt
  <2> QED BY <2>1, <2>2
<1>4. Exclusive' BY <1>2 DEF Exclusive
<1> QED BY <1>2, <1>3, <1>4 DEF CallsInv

\* A call moves on and no row changes.
LEMMA OnlyCallMoves ==
  ASSUME AuthInv, UNCHANGED <<version, request, device, session>>, Event \/ events' = events,
         NEW c \in Calls, NEW x \in Call, Becomes(c, x), CallOK(x),
         x.pc \in Locking => \A d \in Calls \ {c} : call[d].pc \notin Locking,
         x.pc = "commit" => \A d \in Calls \ {c} : ~(call[d].pc = "commit" /\ call[d].arg = x.arg)
  PROVE  AuthInv'
<1>1. AuthTypeOK /\ RowsInv /\ CallsInv /\ Exclusive BY DEF AuthInv
<1>2. /\ RowsInv' /\ ActiveDevices' = ActiveDevices
      /\ \A y \in Call : CallOK(y) => CallOK(y)'
  <2>1. \A r \in DOMAIN request' : request'[r].version <= version BY <1>1 DEF RowsInv
  <2> QED BY <1>1, <2>1, KeepRows
<1>3. CallsInv' /\ Exclusive' /\ call' \in [Calls -> Call]
  <2>1. CallOK(x)' BY <1>2
  <2>2. \A d \in Calls \ {c} : \A y \in Call : y = call[d] => CallOK(y)'
    BY <1>1, <1>2 DEF CallsInv
  <2> QED BY <1>1, <2>1, <2>2, CallMoves
<1>4. AuthTypeOK' BY <1>1, <1>3, EventsKeepType DEF AuthTypeOK
<1> QED BY <1>2, <1>3, <1>4 DEF AuthInv

\* No row and no call changes.
LEMMA NothingMoves ==
  ASSUME AuthInv, UNCHANGED <<version, request, device, session, call>>, Event \/ events' = events
  PROVE  AuthInv'
<1>1. AuthTypeOK' BY EventsKeepType DEF AuthInv, AuthTypeOK
<1> QED BY <1>1 DEF AuthInv, RowsInv, CallsInv, CallOK, Exclusive, ActiveDevices, FamiliesAt

\* A call that answers without a new token is harmless.
LEMMA AnswerKeeps ==
  ASSUME AuthInv, UNCHANGED <<version, request, device, session>>, Event \/ events' = events,
         NEW c \in Calls, NEW answer \in {"none", "ok", "invalid", "error"}, Answer(c, answer, 0)
  PROVE  AuthInv'
<1>1. PICK x \in Call : Becomes(c, x) /\ x = CallRec("answered", 0, {}, FALSE, answer, 0)
  BY AnswerBecomes, AuthTypes DEF AuthInv
<1>2. CallOK(x) /\ x.pc \notin Locking /\ x.pc # "commit"
  BY <1>1 DEF CallOK, CallRec, RequestStages, Locking, Refreshing, Revoking
<1> QED BY <1>1, <1>2, OnlyCallMoves

\* So is a call that goes on to revoke a family it knows.
LEMMA GoRevokeKeeps ==
  ASSUME AuthInv, UNCHANGED <<version, request, device, session>>, events' = events,
         NEW c \in Calls, NEW reuse \in BOOLEAN, NEW f \in DOMAIN device, GoRevoke(c, f, reuse)
  PROVE  AuthInv'
<1>1. f \in Nat BY AuthTypes DEF AuthInv
<1>2. PICK x \in Call : Becomes(c, x) /\ x = CallRec("revoke", f, {}, reuse, "invalid", 0)
  BY <1>1, GoRevokeBecomes, AuthTypes DEF AuthInv
<1>3. CallOK(x) /\ x.pc \notin Locking /\ x.pc # "commit"
  BY <1>2 DEF CallOK, CallRec, RequestStages, Locking, Refreshing, Revoking
<1> QED BY <1>2, <1>3, OnlyCallMoves

\* A call that goes on with what it is about.
LEMMA GoToKeeps ==
  ASSUME AuthInv, UNCHANGED <<version, request, device, session>>, events' = events,
         NEW c \in Calls, NEW pc \in Stages \ {"answered", "apply"}, GoTo(c, pc),
         pc \in RequestStages => call[c].pc \in RequestStages,
         pc \in Locking => /\ request[call[c].arg].version = version
                           /\ \A d \in Calls \ {c} : call[d].pc \notin Locking,
         pc = "claim" => Cardinality(ActiveDevices) < MaxDevices,
         pc \in Refreshing => call[c].pc \in Refreshing,
         pc = "commit" => /\ ~session[call[c].arg].replaced /\ ~session[call[c].arg].revoked
                          /\ ~RowLocked(call[c].arg, c),
         pc \notin Revoking
  PROVE  AuthInv'
<1>1. PICK x \in Call : /\ Becomes(c, x)
                        /\ x = CallRec(pc, call[c].arg, call[c].seen, call[c].reuse,
                                       call[c].answer, call[c].token)
  BY GoToBecomes, AuthTypes DEF AuthInv
<1>2. x.pc = pc /\ x.arg = call[c].arg BY <1>1 DEF CallRec
<1>3. CallOK(call[c]) BY DEF AuthInv, CallsInv
<1>4. CallOK(x) BY <1>2, <1>3 DEF CallOK
<1>5. x.pc = "commit" => \A d \in Calls \ {c} : ~(call[d].pc = "commit" /\ call[d].arg = x.arg)
  BY <1>2 DEF RowLocked
<1> QED BY <1>1, <1>2, <1>4, <1>5, OnlyCallMoves

\* A request is decided.
LEMMA DecideKeeps ==
  ASSUME AuthInv, NEW c \in Calls, call[c].pc \in RequestStages,
         NEW status \in {"approved", "cancelled"},
         request' = [request EXCEPT ![call[c].arg].status = status],
         Answer(c, "ok", 0), UNCHANGED <<version, device, session, events>>
  PROVE  AuthInv'
<1> DEFINE r == call[c].arg
<1>1. AuthTypeOK /\ RowsInv /\ CallsInv /\ Exclusive /\ r \in DOMAIN request
  BY DEF AuthInv, CallsInv, CallOK
<1>2. /\ request[r] \in Request
      /\ [request[r] EXCEPT !.status = status] \in Request
      /\ [request[r] EXCEPT !.status = status].version = request[r].version
      /\ [request[r] EXCEPT !.status = status].used = request[r].used
  BY <1>1, AuthTypes DEF Request
<1>3. request' = [request EXCEPT ![r] = [request[r] EXCEPT !.status = status]]
  OBVIOUS
<1>4. /\ request' \in Seq(Request) /\ Len(request') = Len(request)
      /\ DOMAIN request' = DOMAIN request
      /\ \A q \in DOMAIN request : request'[q].version = request[q].version
                                   /\ request'[q].used = request[q].used
  <2> DEFINE e == [request[r] EXCEPT !.status = status]
  <2>1. request \in Seq(Request) BY <1>1 DEF AuthTypeOK
  <2>2. e \in Request /\ e.version = request[r].version /\ e.used = request[r].used BY <1>2
  <2>3. request' = [request EXCEPT ![r] = e] BY <1>3
  <2> HIDE DEF e
  <2> QED BY <1>1, <2>1, <2>2, <2>3, ReplaceRow
<1>5. /\ RowsInv' /\ ActiveDevices' = ActiveDevices
      /\ \A y \in Call : CallOK(y) => CallOK(y)'
  <2>1. \A q \in DOMAIN request' : request'[q].version <= version
    BY <1>1, <1>4 DEF RowsInv
  <2> QED BY <1>1, <1>4, <2>1, KeepRows
<1>6. PICK x \in Call : Becomes(c, x) /\ x = CallRec("answered", 0, {}, FALSE, "ok", 0)
  BY <1>1, AnswerBecomes, AuthTypes
<1>7. CallOK(x)' /\ x.pc \notin Locking /\ x.pc # "commit"
  BY <1>6 DEF CallOK, CallRec, RequestStages, Locking, Refreshing, Revoking
<1>8. CallsInv' /\ Exclusive' /\ call' \in [Calls -> Call]
  <2>1. \A d \in Calls \ {c} : \A y \in Call : y = call[d] => CallOK(y)'
    BY <1>1, <1>5 DEF CallsInv
  <2> QED BY <1>1, <1>6, <1>7, <2>1, CallMoves
<1>9. AuthTypeOK' BY <1>1, <1>4, <1>8 DEF AuthTypeOK
<1> QED BY <1>5, <1>8, <1>9 DEF AuthInv

\* A request is made.
LEMMA CreateKeeps ==
  ASSUME AuthInv, CreateRequest, UNCHANGED <<version, device, session, call, events>>
  PROVE  AuthInv'
<1> DEFINE e == [status |-> "pending", version |-> version, used |-> FALSE]
<1>1. AuthTypeOK /\ RowsInv /\ CallsInv /\ Exclusive BY DEF AuthInv
<1>2. e \in Request BY <1>1, AuthTypes DEF Request
<1>3. request' = Append(request, e) /\ Len(request) < MaxRequests BY DEF CreateRequest
<1>4. e.version = version OBVIOUS
<1> HIDE DEF e
<1>5. /\ request' \in Seq(Request) /\ Len(request') = Len(request) + 1
      /\ DOMAIN request' = DOMAIN request \cup {Len(request) + 1}
      /\ \A r \in DOMAIN request : request'[r] = request[r]
      /\ request'[Len(request) + 1] = e
  BY <1>1, <1>2, <1>3, AppendRow DEF AuthTypeOK
<1>6. /\ RowsInv' /\ ActiveDevices' = ActiveDevices
      /\ \A y \in Call : CallOK(y) => CallOK(y)'
  <2>1. \A q \in DOMAIN request' : request'[q].version <= version
    BY <1>1, <1>4, <1>5, AuthTypes DEF RowsInv
  <2> QED BY <1>1, <1>5, <2>1, KeepRows
<1>7. CallsInv'
  <2>1. ASSUME NEW d \in Calls PROVE CallOK(call[d])'
    <3>1. call[d] \in Call /\ CallOK(call[d]) BY <1>1, AuthTypes DEF CallsInv
    <3>2. PICK y \in Call : y = call[d] BY <3>1
    <3>3. CallOK(y)' BY <1>6, <3>1, <3>2
    <3> QED BY <3>2, <3>3 DEF CallOK, ActiveDevices, FamiliesAt
  <2> QED BY <2>1 DEF CallsInv
<1>8. Exclusive' BY <1>1 DEF Exclusive
<1>9. AuthTypeOK'
  <2>1. Len(request') <= MaxRequests BY <1>1, <1>3, <1>5, AuthTypes
  <2> QED BY <1>1, <1>5, <2>1 DEF AuthTypeOK
<1> QED BY <1>6, <1>7, <1>8, <1>9 DEF AuthInv

\* The account changes while no transaction holds the user row.
LEMMA ChangeAccountKeeps ==
  ASSUME AuthInv, ChangeAccount
  PROVE  AuthInv'
<1>1. AuthTypeOK /\ RowsInv /\ CallsInv /\ Exclusive /\ AuthTypeOK'
  BY AuthTypes, EventsKeepType DEF AuthInv, ChangeAccount, AuthTypeOK
<1>2. /\ version' = version + 1 /\ version \in Nat
      /\ UNCHANGED <<request, device, session, call>>
  BY <1>1, AuthTypes DEF ChangeAccount
<1>3. RowsInv'
  <2>1. \A f \in DOMAIN device : device[f].version \in Nat
    BY <1>1, AuthTypes DEF Device
  <2>2. \A r \in DOMAIN request : request[r].version \in Nat
    BY <1>1, AuthTypes DEF Request
  <2>3. /\ \A f \in DOMAIN device : device[f].version <= version'
        /\ \A r \in DOMAIN request : request[r].version <= version'
    BY <1>1, <1>2, <2>1, <2>2 DEF RowsInv
  <2> QED BY <1>1, <1>2, <2>3 DEF RowsInv
<1>4. \A c \in Calls : call[c].pc \notin Locking
  BY DEF ChangeAccount, HoldsUser, Locking
<1> QED BY <1>1, <1>2, <1>3, <1>4 DEF AuthInv, CallsInv, CallOK, Exclusive, ActiveDevices, FamiliesAt

\* The devices that count are finitely many.
LEMMA ActiveFinite ==
  ASSUME AuthTypeOK
  PROVE  IsFiniteSet(ActiveDevices) /\ Cardinality(ActiveDevices) \in Nat
<1>1. IsFiniteSet(1 .. Len(device)) BY AuthTypes, FS_Interval
<1>2. ActiveDevices \subseteq 1 .. Len(device) BY AuthTypes DEF ActiveDevices
<1>3. IsFiniteSet(ActiveDevices) BY <1>1, <1>2, FS_Subset
<1> QED BY <1>3, FS_CardinalityType

\* The rows that a claimed code makes.
ClaimedRows(c) ==
  LET r == call[c].arg IN
  /\ request' = [request EXCEPT ![r].used = TRUE]
  /\ device' = Append(device, [version |-> request[r].version, request |-> r,
                               revoked |-> FALSE, reused |-> FALSE])
  /\ session' = Append(session, [family |-> Len(device) + 1, version |-> request[r].version,
                                 replaced |-> FALSE, revoked |-> FALSE])

\* What they are.
LEMMA ClaimedFacts ==
  ASSUME AuthInv, NEW c \in Calls, At(c, "claim"), Len(session) < MaxSessions, ClaimedRows(c)
  PROVE  LET r == call[c].arg
             f == Len(device) + 1
             s == Len(session) + 1
         IN /\ r \in DOMAIN request /\ request[r].version = version
            /\ request' \in Seq(Request) /\ Len(request') = Len(request)
            /\ DOMAIN request' = DOMAIN request
            /\ request'[r].used
            /\ \A q \in DOMAIN request : /\ request'[q].version = request[q].version
                                         /\ request[q].used => request'[q].used
            /\ device' \in Seq(Device) /\ Len(device') = Len(device) + 1
            /\ DOMAIN device' = DOMAIN device \cup {f} /\ f \notin DOMAIN device
            /\ \A g \in DOMAIN device : device'[g] = device[g]
            /\ device'[f].version = version /\ device'[f].request = r
            /\ ~device'[f].revoked /\ ~device'[f].reused
            /\ session' \in Seq(Session) /\ Len(session') = Len(session) + 1
            /\ DOMAIN session' = DOMAIN session \cup {s} /\ s \notin DOMAIN session
            /\ \A t \in DOMAIN session : session'[t] = session[t]
            /\ session'[s].family = f /\ session'[s].version = version
            /\ ~session'[s].replaced /\ ~session'[s].revoked
            /\ f \in 1 .. MaxSessions /\ s \in 1 .. MaxSessions
<1> DEFINE r == call[c].arg
           f == Len(device) + 1
           s == Len(session) + 1
           d == [version |-> request[r].version, request |-> r, revoked |-> FALSE, reused |-> FALSE]
           e == [family |-> f, version |-> request[r].version, replaced |-> FALSE, revoked |-> FALSE]
           q == [request[r] EXCEPT !.used = TRUE]
<1>1. AuthTypeOK /\ RowsInv /\ CallOK(call[c]) BY DEF AuthInv, CallsInv
<1>2. r \in DOMAIN request /\ request[r].version = version
  BY <1>1 DEF CallOK, At, RequestStages, Locking
<1>3. /\ request[r] \in Request /\ r \in 1 .. MaxRequests
      /\ Len(session) + 1 \in 1 .. MaxSessions /\ f \in 1 .. MaxSessions
      /\ request \in Seq(Request) /\ device \in Seq(Device) /\ session \in Seq(Session)
      /\ version \in Nat
  <2>1. /\ request[r] \in Request /\ Len(request) <= MaxRequests
        /\ Len(device) <= Len(session)
    BY <1>1, <1>2, AuthTypes DEF AuthTypeOK, RowsInv
  <2> QED BY <1>1, <1>2, <2>1, AuthTypes DEF AuthTypeOK
<1>4. q \in Request /\ q.version = request[r].version /\ q.used
  BY <1>3 DEF Request
<1>5. d \in Device /\ d.version = version /\ d.request = r /\ ~d.revoked /\ ~d.reused
  BY <1>2, <1>3 DEF Device
<1>6. e \in Session /\ e.family = f /\ e.version = version /\ ~e.replaced /\ ~e.revoked
  BY <1>2, <1>3 DEF Session
<1>7. /\ request' = [request EXCEPT ![r] = q] /\ device' = Append(device, d)
      /\ session' = Append(session, e)
  BY DEF ClaimedRows
<1> HIDE DEF q, d, e
<1>8. /\ request' \in Seq(Request) /\ Len(request') = Len(request)
      /\ DOMAIN request' = DOMAIN request
      /\ request'[r] = q /\ \A j \in DOMAIN request \ {r} : request'[j] = request[j]
  BY <1>2, <1>3, <1>4, <1>7, ReplaceRow
<1>9. /\ device' \in Seq(Device) /\ Len(device') = Len(device) + 1
      /\ DOMAIN device' = DOMAIN device \cup {f} /\ f \notin DOMAIN device
      /\ \A g \in DOMAIN device : device'[g] = device[g]
      /\ device'[f] = d
  BY <1>3, <1>5, <1>7, AppendRow
<1>10. /\ session' \in Seq(Session) /\ Len(session') = Len(session) + 1
       /\ DOMAIN session' = DOMAIN session \cup {s} /\ s \notin DOMAIN session
       /\ \A t \in DOMAIN session : session'[t] = session[t]
       /\ session'[s] = e
  BY <1>3, <1>6, <1>7, AppendRow
<1> QED BY <1>2, <1>3, <1>4, <1>5, <1>6, <1>8, <1>9, <1>10

\* The exchange makes a device and its first session.
LEMMA ClaimKeeps ==
  ASSUME AuthInv, NEW c \in Calls, At(c, "claim"), Len(session) < MaxSessions, ClaimedRows(c),
         ~request[call[c].arg].used, Answer(c, "ok", Len(session) + 1), UNCHANGED <<version, events>>
  PROVE  AuthInv'
<1> DEFINE r == call[c].arg
           f == Len(device) + 1
           s == Len(session) + 1
<1>1. AuthTypeOK /\ RowsInv /\ CallsInv /\ Exclusive BY DEF AuthInv
<1>2. /\ r \in DOMAIN request /\ request[r].version = version
      /\ request' \in Seq(Request) /\ Len(request') = Len(request)
      /\ DOMAIN request' = DOMAIN request /\ request'[r].used
      /\ \A q \in DOMAIN request : /\ request'[q].version = request[q].version
                                   /\ request[q].used => request'[q].used
  BY ClaimedFacts
<1>3. /\ device' \in Seq(Device) /\ Len(device') = Len(device) + 1
      /\ DOMAIN device' = DOMAIN device \cup {f} /\ f \notin DOMAIN device
      /\ \A g \in DOMAIN device : device'[g] = device[g]
      /\ device'[f].version = version /\ device'[f].request = r
      /\ ~device'[f].revoked
  BY ClaimedFacts
<1>4. /\ session' \in Seq(Session) /\ Len(session') = Len(session) + 1
      /\ DOMAIN session' = DOMAIN session \cup {s} /\ s \notin DOMAIN session
      /\ \A t \in DOMAIN session : session'[t] = session[t]
      /\ session'[s].family = f /\ session'[s].version = version
      /\ ~session'[s].replaced /\ ~session'[s].revoked
      /\ s \in 1 .. MaxSessions
  BY ClaimedFacts
<1> HIDE DEF f, s, r
<1>5. RowsInv'
  <2>1. Len(device') <= Len(session') BY <1>1, <1>3, <1>4, AuthTypes DEF RowsInv
  <2>2. \A t \in DOMAIN session' :
          /\ session'[t].family \in DOMAIN device'
          /\ session'[t].version = device'[session'[t].family].version
          /\ session'[t].revoked => device'[session'[t].family].revoked
    BY <1>1, <1>3, <1>4 DEF RowsInv
  <2>3. \A t, u \in DOMAIN session' :
          session'[t].family = session'[u].family /\ ~session'[t].replaced /\ ~session'[u].replaced
            => t = u
    BY <1>1, <1>3, <1>4 DEF RowsInv
  <2>4. \A g \in DOMAIN device' : /\ device'[g].version <= version'
                                  /\ device'[g].request \in DOMAIN request'
                                  /\ request'[device'[g].request].used
    <3>1. ASSUME NEW g \in DOMAIN device
          PROVE  /\ device'[g].version <= version' /\ device'[g].request \in DOMAIN request'
                 /\ request'[device'[g].request].used
      <4>1. device'[g] = device[g] BY <1>3
      <4>2. /\ device[g].version <= version /\ device[g].request \in DOMAIN request
            /\ request[device[g].request].used
        BY <1>1 DEF RowsInv
      <4> QED BY <1>2, <4>1, <4>2
    <3>2. version \in Nat BY <1>1, AuthTypes
    <3>3. /\ device'[f].version <= version' /\ device'[f].request \in DOMAIN request'
          /\ request'[device'[f].request].used
      BY <1>2, <1>3, <3>2
    <3> QED BY <1>3, <3>1, <3>3
  <2>5. \A g, h \in DOMAIN device' : device'[g].request = device'[h].request => g = h
    <3>1. \A g \in DOMAIN device : device[g].request # r BY <1>1 DEF RowsInv, r
    <3> QED BY <1>1, <1>3, <3>1 DEF RowsInv
  <2>6. \A q \in DOMAIN request' : request'[q].version <= version' BY <1>1, <1>2 DEF RowsInv
  <2> QED BY <2>1, <2>2, <2>3, <2>4, <2>5, <2>6 DEF RowsInv
<1>6. Cardinality(ActiveDevices') <= MaxDevices
  <2>1. ActiveDevices' = ActiveDevices \cup {f} /\ f \notin ActiveDevices
    BY <1>3 DEF ActiveDevices
  <2>2. Cardinality(ActiveDevices') = Cardinality(ActiveDevices) + 1
    BY <1>1, <2>1, ActiveFinite, FS_AddElement
  <2>3. Cardinality(ActiveDevices) < MaxDevices BY <1>1 DEF CallsInv, CallOK, At
  <2> QED BY <1>1, <2>2, <2>3, ActiveFinite, AuthTypes
<1>7. ASSUME NEW d \in Calls \ {c}, NEW y \in Call, y = call[d] PROVE CallOK(y)'
  <2>1. CallOK(y) /\ y.pc \notin Locking /\ y.pc # "claim"
    BY <1>1, <1>7 DEF CallsInv, Exclusive, At, Locking
  <2>2. y.pc \in Refreshing => y.arg \in DOMAIN session' /\ session'[y.arg] = session[y.arg]
    BY <1>4, <2>1 DEF CallOK
  <2>3. y.pc = "commit" => ~session'[y.arg].replaced /\ ~session'[y.arg].revoked
    BY <2>1, <2>2 DEF CallOK, Refreshing
  <2>4. ASSUME y.pc = "apply", NEW t \in y.seen
        PROVE  t \in DOMAIN session' /\ session'[t].family \in FamiliesAt(y.arg)'
    <3>1. t \in DOMAIN session /\ session[t].family \in FamiliesAt(y.arg) BY <2>1, <2>4 DEF CallOK
    <3> QED BY <1>3, <1>4, <3>1 DEF FamiliesAt
  <2>5. y.pc \in Revoking => y.arg \in {0} \cup DOMAIN device' BY <1>3, <2>1 DEF CallOK
  <2>6. y.pc = "answered" => y.token \in {0} \cup DOMAIN session' BY <1>4, <2>1 DEF CallOK
  <2>7. y.pc \in RequestStages => y.arg \in DOMAIN request' BY <1>2, <2>1 DEF CallOK
  <2> QED BY <2>1, <2>2, <2>3, <2>4, <2>5, <2>6, <2>7 DEF CallOK
<1>8. PICK x \in Call : Becomes(c, x) /\ x = CallRec("answered", 0, {}, FALSE, "ok", s)
  <2>1. Answer(c, "ok", s) BY DEF s
  <2>2. s \in Nat BY <1>4
  <2> QED BY <1>1, <2>1, <2>2, AnswerBecomes, AuthTypes
<1>9. CallOK(x)' /\ x.pc \notin Locking /\ x.pc # "commit"
  BY <1>4, <1>8 DEF CallOK, CallRec, RequestStages, Locking, Refreshing, Revoking
<1>10. CallsInv' /\ Exclusive' /\ call' \in [Calls -> Call]
  BY <1>1, <1>7, <1>8, <1>9, CallMoves
<1>11. AuthTypeOK'
  <2>1. Len(session') <= MaxSessions BY <1>1, <1>4, AuthTypes
  <2> QED BY <1>1, <1>2, <1>3, <1>4, <1>10, <2>1 DEF AuthTypeOK
<1> QED BY <1>5, <1>6, <1>10, <1>11 DEF AuthInv

\* What the rows are after a rotation of row s.
LEMMA RotatedFacts ==
  ASSUME AuthTypeOK, NEW s \in DOMAIN session, Len(session) < MaxSessions, Rotated(s)
  PROVE  LET n == Len(session) + 1 IN
         /\ session' \in Seq(Session) /\ Len(session') = Len(session) + 1
         /\ DOMAIN session' = DOMAIN session \cup {n} /\ n \notin DOMAIN session
         /\ n \in 1 .. MaxSessions
         /\ \A t \in DOMAIN session : /\ session'[t].family = session[t].family
                                      /\ session'[t].version = session[t].version
                                      /\ session'[t].revoked = session[t].revoked
         /\ \A t \in DOMAIN session : t # s => session'[t] = session[t]
         /\ session'[s].replaced
         /\ session'[n].family = session[s].family /\ session'[n].version = session[s].version
         /\ ~session'[n].replaced /\ ~session'[n].revoked
<1> DEFINE n == Len(session) + 1
           e == [family |-> session[s].family, version |-> session[s].version,
                 replaced |-> FALSE, revoked |-> FALSE]
           q == [session[s] EXCEPT !.replaced = TRUE]
           old == [session EXCEPT ![s] = q]
<1>1. session \in Seq(Session) /\ session[s] \in Session /\ n \in 1 .. MaxSessions
  BY AuthTypes DEF AuthTypeOK
<1>2. /\ q \in Session /\ q.family = session[s].family /\ q.version = session[s].version
      /\ q.revoked = session[s].revoked /\ q.replaced
  BY <1>1 DEF Session
<1>3. /\ e \in Session /\ e.family = session[s].family /\ e.version = session[s].version
      /\ ~e.replaced /\ ~e.revoked
  BY <1>1 DEF Session
<1>4. session' = Append(old, e) BY DEF Rotated
<1> HIDE DEF q, e
<1>5. /\ old \in Seq(Session) /\ Len(old) = Len(session) /\ DOMAIN old = DOMAIN session
      /\ \A t \in DOMAIN session : old[t] = IF t = s THEN q ELSE session[t]
  BY <1>1, <1>2, ReplaceRow
<1> HIDE DEF old
<1>6. /\ session' \in Seq(Session) /\ Len(session') = Len(session) + 1
      /\ DOMAIN session' = DOMAIN session \cup {n} /\ n \notin DOMAIN session
      /\ \A t \in DOMAIN session : session'[t] = old[t]
      /\ session'[n] = e
  <2>1. /\ Append(old, e) \in Seq(Session) /\ Len(Append(old, e)) = Len(old) + 1
        /\ Len(old) + 1 \notin DOMAIN old
        /\ DOMAIN Append(old, e) = DOMAIN old \cup {Len(old) + 1}
        /\ \A i \in DOMAIN old : Append(old, e)[i] = old[i]
        /\ Append(old, e)[Len(old) + 1] = e
    BY <1>3, <1>5, AppendRow
  <2> QED BY <1>4, <1>5, <2>1
<1> HIDE DEF n
<1>7. \A t \in DOMAIN session : session'[t] = IF t = s THEN q ELSE session[t]
  BY <1>5, <1>6
<1> QED BY <1>1, <1>2, <1>3, <1>6, <1>7 DEF n

\* A rotation commits, whether or not the server learns it.
LEMMA RotationKeeps ==
  ASSUME AuthInv, NEW c \in Calls, At(c, "commit"), Len(session) < MaxSessions,
         Rotated(call[c].arg), NEW answer \in {"ok", "error"}, NEW token \in {0, Len(session) + 1},
         Answer(c, answer, token), UNCHANGED <<version, request, device>>,
         Event \/ events' = events
  PROVE  AuthInv'
<1> DEFINE s == call[c].arg
           n == Len(session) + 1
<1>1. AuthTypeOK /\ RowsInv /\ CallsInv /\ Exclusive BY DEF AuthInv
<1>2. s \in DOMAIN session /\ ~session[s].replaced /\ ~session[s].revoked
  BY <1>1 DEF CallsInv, CallOK, At, Refreshing
<1>3. /\ session' \in Seq(Session) /\ Len(session') = Len(session) + 1
      /\ DOMAIN session' = DOMAIN session \cup {n} /\ n \notin DOMAIN session
      /\ n \in 1 .. MaxSessions
      /\ \A t \in DOMAIN session : /\ session'[t].family = session[t].family
                                   /\ session'[t].version = session[t].version
                                   /\ session'[t].revoked = session[t].revoked
      /\ \A t \in DOMAIN session : t # s => session'[t] = session[t]
      /\ session'[s].replaced
      /\ session'[n].family = session[s].family /\ session'[n].version = session[s].version
      /\ ~session'[n].replaced /\ ~session'[n].revoked
  BY <1>1, <1>2, RotatedFacts
<1>4. token \in Nat /\ token \in {0} \cup DOMAIN session' BY <1>3
<1>5. PICK x \in Call : Becomes(c, x) /\ x = CallRec("answered", 0, {}, FALSE, answer, token)
  BY <1>1, <1>4, AnswerBecomes, AuthTypes
<1> HIDE DEF n
<1>6. CallOK(x)' /\ x.pc \notin Locking /\ x.pc # "commit"
  BY <1>4, <1>5 DEF CallOK, CallRec, RequestStages, Locking, Refreshing, Revoking
<1>7. RowsInv'
  <2>1. Len(device') <= Len(session') BY <1>1, <1>3, AuthTypes DEF RowsInv
  <2>2. \A t \in DOMAIN session' :
          /\ session'[t].family \in DOMAIN device'
          /\ session'[t].version = device'[session'[t].family].version
          /\ session'[t].revoked => device'[session'[t].family].revoked
    <3>1. ASSUME NEW t \in DOMAIN session
          PROVE  /\ session'[t].family \in DOMAIN device
                 /\ session'[t].version = device[session'[t].family].version
                 /\ session'[t].revoked => device[session'[t].family].revoked
      <4>1. /\ session'[t].family = session[t].family /\ session'[t].version = session[t].version
            /\ session'[t].revoked = session[t].revoked
        BY <1>3
      <4>2. /\ session[t].family \in DOMAIN device
            /\ session[t].version = device[session[t].family].version
            /\ session[t].revoked => device[session[t].family].revoked
        BY <1>1 DEF RowsInv
      <4> QED BY <4>1, <4>2
    <3>2. /\ session'[n].family \in DOMAIN device
          /\ session'[n].version = device[session'[n].family].version
          /\ ~session'[n].revoked
      BY <1>1, <1>2, <1>3 DEF RowsInv
    <3> QED BY <1>3, <3>1, <3>2
  <2>3. \A t, u \in DOMAIN session' :
          session'[t].family = session'[u].family /\ ~session'[t].replaced /\ ~session'[u].replaced
            => t = u
    <3>1. ASSUME NEW t \in DOMAIN session, session[t].family = session[s].family, t # s
          PROVE  session'[t].replaced
      BY <1>1, <1>2, <1>3, <3>1 DEF RowsInv
    <3>2. ASSUME NEW t \in DOMAIN session', session'[t].family = session[s].family,
                 ~session'[t].replaced
          PROVE  t = n
      BY <1>3, <3>1, <3>2
    <3>3. ASSUME NEW t \in DOMAIN session', session'[t].family # session[s].family
          PROVE  t \in DOMAIN session /\ session'[t] = session[t]
      BY <1>3, <3>3
    <3>4. ASSUME NEW t \in DOMAIN session', NEW u \in DOMAIN session',
                 session'[t].family = session'[u].family, ~session'[t].replaced, ~session'[u].replaced
          PROVE  t = u
      <4>1. CASE session'[t].family = session[s].family BY <3>2, <3>4, <4>1
      <4>2. CASE session'[t].family # session[s].family
        <5>1. /\ t \in DOMAIN session /\ session'[t] = session[t]
              /\ u \in DOMAIN session /\ session'[u] = session[u]
          BY <3>3, <3>4, <4>2
        <5> QED BY <1>1, <3>4, <5>1 DEF RowsInv
      <4> QED BY <4>1, <4>2
    <3> QED BY <3>4
  <2> QED BY <1>1, <2>1, <2>2, <2>3 DEF RowsInv
<1>8. ActiveDevices' = ActiveDevices BY DEF ActiveDevices
<1>9. ASSUME NEW d \in Calls \ {c}, NEW y \in Call, y = call[d] PROVE CallOK(y)'
  <2>1. CallOK(y) /\ (y.pc = "commit" => y.arg # s)
    BY <1>1, <1>9 DEF CallsInv, Exclusive, At
  <2>2. y.pc = "commit" => ~session'[y.arg].replaced /\ ~session'[y.arg].revoked
    BY <1>3, <2>1 DEF CallOK, Refreshing
  <2>3. ASSUME y.pc = "apply", NEW t \in y.seen
        PROVE  t \in DOMAIN session' /\ session'[t].family \in FamiliesAt(y.arg)'
    BY <1>3, <2>1, <2>3 DEF CallOK, FamiliesAt
  <2>4. y.pc \in Refreshing => y.arg \in DOMAIN session' BY <1>3, <2>1 DEF CallOK
  <2>5. y.pc = "answered" => y.token \in {0} \cup DOMAIN session' BY <1>3, <2>1 DEF CallOK
  <2> QED BY <1>8, <2>1, <2>2, <2>3, <2>4, <2>5 DEF CallOK
<1>10. CallsInv' /\ Exclusive' /\ call' \in [Calls -> Call]
  BY <1>1, <1>5, <1>6, <1>9, CallMoves
<1>11. AuthTypeOK'
  <2>1. Len(session') <= MaxSessions BY <1>1, <1>3, AuthTypes
  <2> QED BY <1>1, <1>3, <1>10, <2>1, EventsKeepType DEF AuthTypeOK
<1> QED BY <1>7, <1>8, <1>10, <1>11 DEF AuthInv

\* A revocation sees rows of its families.
LEMMA RevokeStartKeeps ==
  ASSUME AuthInv, NEW c \in Calls, RevokeStart(c)
  PROVE  AuthInv'
<1>1. AuthTypeOK /\ CallOK(call[c]) /\ At(c, "revoke") BY DEF AuthInv, CallsInv, RevokeStart
<1> DEFINE seen == RowsOf(FamiliesOf(c))
           x == CallRec("apply", call[c].arg, seen, call[c].reuse, call[c].answer, call[c].token)
<1>2. seen \in SUBSET (1 .. MaxSessions) BY <1>1, AuthTypes DEF RowsOf, AuthTypeOK
<1>3. \A s \in seen : s \in DOMAIN session /\ session[s].family \in FamiliesAt(call[c].arg)
  BY DEF RowsOf, FamiliesOf, FamiliesAt
<1>4. call[c] \in Call BY <1>1, AuthTypes
<1> HIDE DEF seen
<1>5. x \in Call BY <1>2, <1>4 DEF Call, CallRec, Stages
<1>6. ASSUME NEW q, q = [call[c] EXCEPT !.pc = "apply", !.seen = seen] PROVE q = x
  BY <1>4, <1>6 DEF Call, CallRec
<1>7. Becomes(c, x)
  <2>1. call' = [call EXCEPT ![c] = [call[c] EXCEPT !.pc = "apply", !.seen = seen]]
    BY <1>1, AuthTypes DEF RevokeStart, seen
  <2> QED BY <1>6, <2>1 DEF Becomes
<1>8. /\ x.pc = "apply" /\ x.arg = call[c].arg /\ x.seen = seen BY DEF CallRec
<1> HIDE DEF x
<1>9. CallOK(x) /\ x.pc \notin Locking /\ x.pc # "commit"
  BY <1>1, <1>3, <1>8 DEF CallOK, At, RequestStages, Locking, Refreshing, Revoking
<1> QED BY <1>5, <1>7, <1>9, OnlyCallMoves DEF RevokeStart

\* What the rows are after a revocation.
LEMMA RevokedFacts ==
  ASSUME AuthTypeOK, NEW c \in Calls, RevokeApply(c)
  PROVE  /\ session' \in Seq(Session) /\ Len(session') = Len(session)
         /\ DOMAIN session' = DOMAIN session
         /\ \A s \in DOMAIN session : /\ session'[s].family = session[s].family
                                      /\ session'[s].version = session[s].version
                                      /\ session'[s].replaced = session[s].replaced
                                      /\ session'[s].revoked = (session[s].revoked \/ s \in call[c].seen)
         /\ device' \in Seq(Device) /\ Len(device') = Len(device)
         /\ DOMAIN device' = DOMAIN device
         /\ \A f \in DOMAIN device :
              /\ device'[f].version = device[f].version
              /\ device'[f].request = device[f].request
              /\ device'[f].revoked = (device[f].revoked \/ f \in FamiliesOf(c))
              /\ device'[f].reused = IF f \in FamiliesOf(c) /\ ~device[f].revoked
                                     THEN call[c].reuse ELSE device[f].reused
<1>1. session \in Seq(Session) /\ device \in Seq(Device) /\ call[c].reuse \in BOOLEAN
  BY AuthTypes, CallFields DEF AuthTypeOK
<1>2. \A s \in DOMAIN session :
        /\ session'[s] \in Session
        /\ session'[s].family = session[s].family
        /\ session'[s].version = session[s].version
        /\ session'[s].replaced = session[s].replaced
        /\ session'[s].revoked = (session[s].revoked \/ s \in call[c].seen)
  <2> SUFFICES ASSUME NEW s \in DOMAIN session
               PROVE  /\ session'[s] \in Session
                      /\ session'[s].family = session[s].family
                      /\ session'[s].version = session[s].version
                      /\ session'[s].replaced = session[s].replaced
                      /\ session'[s].revoked = (session[s].revoked \/ s \in call[c].seen)
    OBVIOUS
  <2>1. session[s] \in Session /\ session[s].revoked \in BOOLEAN BY AuthTypes DEF Session
  <2>2. session'[s] = IF s \in call[c].seen THEN [session[s] EXCEPT !.revoked = TRUE] ELSE session[s]
    BY DEF RevokeApply
  <2>3. CASE s \in call[c].seen
    <3>1. session'[s] = [session[s] EXCEPT !.revoked = TRUE] BY <2>2, <2>3
    <3> QED BY <2>1, <2>3, <3>1 DEF Session
  <2>4. CASE s \notin call[c].seen BY <2>1, <2>2, <2>4
  <2> QED BY <2>3, <2>4
<1>3. \A f \in DOMAIN device :
        /\ device'[f] \in Device
        /\ device'[f].version = device[f].version
        /\ device'[f].request = device[f].request
        /\ device'[f].revoked = (device[f].revoked \/ f \in FamiliesOf(c))
        /\ device'[f].reused = IF f \in FamiliesOf(c) /\ ~device[f].revoked
                               THEN call[c].reuse ELSE device[f].reused
  <2> SUFFICES ASSUME NEW f \in DOMAIN device
               PROVE  /\ device'[f] \in Device
                      /\ device'[f].version = device[f].version
                      /\ device'[f].request = device[f].request
                      /\ device'[f].revoked = (device[f].revoked \/ f \in FamiliesOf(c))
                      /\ device'[f].reused = IF f \in FamiliesOf(c) /\ ~device[f].revoked
                                             THEN call[c].reuse ELSE device[f].reused
    OBVIOUS
  <2>1. device[f] \in Device /\ device[f].revoked \in BOOLEAN BY AuthTypes DEF Device
  <2>2. device'[f] = IF f \in FamiliesOf(c) /\ ~device[f].revoked
                     THEN [device[f] EXCEPT !.revoked = TRUE, !.reused = call[c].reuse]
                     ELSE device[f]
    BY DEF RevokeApply
  <2>3. CASE f \in FamiliesOf(c) /\ ~device[f].revoked
    <3> DEFINE d == [version |-> device[f].version, request |-> device[f].request,
                     revoked |-> TRUE, reused |-> call[c].reuse]
    <3>1. ASSUME NEW p, p = [device[f] EXCEPT !.revoked = TRUE, !.reused = call[c].reuse]
          PROVE  p = d
      BY <2>1, <3>1 DEF Device
    <3>2. device'[f] = d BY <2>2, <2>3, <3>1
    <3>3. /\ d \in Device /\ d.version = device[f].version /\ d.request = device[f].request
          /\ d.revoked = TRUE /\ d.reused = call[c].reuse
      BY <1>1, <2>1 DEF Device
    <3> QED BY <2>3, <3>2, <3>3
  <2>4. CASE ~(f \in FamiliesOf(c) /\ ~device[f].revoked)
    <3>1. device'[f] = device[f] BY <2>2, <2>4
    <3> QED BY <2>1, <2>4, <3>1
  <2> QED BY <2>3, <2>4
<1>4. session' \in [DOMAIN session -> Session] /\ device' \in [DOMAIN device -> Device]
  BY <1>2, <1>3 DEF RevokeApply
<1>5. /\ session' \in Seq(Session) /\ Len(session') = Len(session)
      /\ device' \in Seq(Device) /\ Len(device') = Len(device)
  BY <1>1, <1>4, RowsOfFunction
<1> QED BY <1>2, <1>3, <1>4, <1>5

\* A revocation ends its families.
LEMMA RevokeApplyKeeps ==
  ASSUME AuthInv, NEW c \in Calls, RevokeApply(c)
  PROVE  AuthInv'
<1>1. AuthTypeOK /\ RowsInv /\ CallsInv /\ Exclusive BY DEF AuthInv
<1>2. /\ session' \in Seq(Session) /\ Len(session') = Len(session)
      /\ DOMAIN session' = DOMAIN session
      /\ \A s \in DOMAIN session : /\ session'[s].family = session[s].family
                                   /\ session'[s].version = session[s].version
                                   /\ session'[s].replaced = session[s].replaced
                                   /\ session'[s].revoked = (session[s].revoked \/ s \in call[c].seen)
      /\ device' \in Seq(Device) /\ Len(device') = Len(device)
      /\ DOMAIN device' = DOMAIN device
      /\ \A f \in DOMAIN device :
           /\ device'[f].version = device[f].version
           /\ device'[f].request = device[f].request
           /\ device'[f].revoked = (device[f].revoked \/ f \in FamiliesOf(c))
  BY <1>1, RevokedFacts
<1>3. /\ At(c, "apply") /\ Answer(c, call[c].answer, 0) /\ UNCHANGED <<version, request, events>>
      /\ \A s \in call[c].seen : ~RowLocked(s, c)
  BY DEF RevokeApply
<1>4. CallOK(call[c]) BY <1>1 DEF CallsInv
<1>5. RowsInv'
  <2>1. \A s \in DOMAIN session :
          /\ session'[s].family \in DOMAIN device'
          /\ session'[s].version = device'[session'[s].family].version
    BY <1>1, <1>2 DEF RowsInv
  <2>2. ASSUME NEW s \in DOMAIN session, session'[s].revoked
        PROVE  device'[session'[s].family].revoked
    <3>1. session[s].revoked \/ s \in call[c].seen BY <1>2, <2>2
    <3>2. session[s].family \in DOMAIN device /\ session'[s].family = session[s].family
      BY <1>1, <1>2 DEF RowsInv
    <3>3. CASE session[s].revoked BY <1>1, <1>2, <3>2, <3>3 DEF RowsInv
    <3>4. CASE s \in call[c].seen
      <4>1. session[s].family \in FamiliesOf(c) BY <1>3, <1>4, <3>4 DEF CallOK, At, FamiliesAt, FamiliesOf
      <4> QED BY <1>2, <3>2, <4>1
    <3> QED BY <3>1, <3>3, <3>4
  <2>3. \A s, t \in DOMAIN session' :
          session'[s].family = session'[t].family /\ ~session'[s].replaced /\ ~session'[t].replaced
            => s = t
    BY <1>1, <1>2 DEF RowsInv
  <2>4. \A f \in DOMAIN device' : /\ device'[f].version <= version'
                                  /\ device'[f].request \in DOMAIN request'
                                  /\ request'[device'[f].request].used
    <3>1. ASSUME NEW f \in DOMAIN device
          PROVE  /\ device'[f].version <= version /\ device'[f].request \in DOMAIN request
                 /\ request[device'[f].request].used
      BY <1>1, <1>2 DEF RowsInv
    <3> QED BY <1>2, <1>3, <3>1
  <2>5. \A f, g \in DOMAIN device' : device'[f].request = device'[g].request => f = g
    BY <1>1, <1>2 DEF RowsInv
  <2>6. \A r \in DOMAIN request' : request'[r].version <= version' BY <1>1, <1>3 DEF RowsInv
  <2>7. Len(device') <= Len(session') BY <1>1, <1>2 DEF RowsInv
  <2>8. \A s \in DOMAIN session' : /\ session'[s].family \in DOMAIN device'
                                   /\ session'[s].version = device'[session'[s].family].version
                                   /\ session'[s].revoked => device'[session'[s].family].revoked
    BY <1>2, <2>1, <2>2
  <2> QED BY <2>3, <2>4, <2>5, <2>6, <2>7, <2>8 DEF RowsInv
<1>6. /\ Cardinality(ActiveDevices') \in Nat
      /\ Cardinality(ActiveDevices') <= Cardinality(ActiveDevices)
  <2>1. ActiveDevices' \subseteq ActiveDevices BY <1>2 DEF ActiveDevices
  <2>2. IsFiniteSet(ActiveDevices) BY <1>1, ActiveFinite
  <2> QED BY <2>1, <2>2, FS_Subset, FS_CardinalityType
<1>7. ASSUME NEW d \in Calls \ {c}, NEW y \in Call, y = call[d] PROVE CallOK(y)'
  <2>1. CallOK(y) BY <1>1, <1>7 DEF CallsInv
  <2>2. y.pc = "commit" => ~session'[y.arg].replaced /\ ~session'[y.arg].revoked
    <3>1. y.pc = "commit" => y.arg \notin call[c].seen BY <1>3, <1>7 DEF RowLocked
    <3>2. y.pc = "commit" =>
            y.arg \in DOMAIN session /\ ~session[y.arg].replaced /\ ~session[y.arg].revoked
      BY <2>1 DEF CallOK, Refreshing
    <3> QED BY <1>2, <3>1, <3>2
  <2>3. ASSUME y.pc = "apply", NEW t \in y.seen
        PROVE  t \in DOMAIN session' /\ session'[t].family \in FamiliesAt(y.arg)'
    <3>1. t \in DOMAIN session /\ session[t].family \in FamiliesAt(y.arg) BY <2>1, <2>3 DEF CallOK
    <3> QED BY <1>2, <3>1 DEF FamiliesAt
  <2>4. y.pc = "claim" => Cardinality(ActiveDevices') < MaxDevices
    BY <1>1, <1>6, <2>1, ActiveFinite, AuthTypes DEF CallOK
  <2> QED BY <1>2, <1>3, <2>1, <2>2, <2>3, <2>4 DEF CallOK
<1>8. PICK x \in Call : Becomes(c, x) /\ x = CallRec("answered", 0, {}, FALSE, call[c].answer, 0)
  <2>1. call[c] \in Call BY <1>1, AuthTypes
  <2>2. call[c].answer \in {"none", "ok", "invalid", "error"} BY <2>1 DEF Call
  <2> QED BY <1>1, <1>3, <2>2, AnswerBecomes, AuthTypes
<1>9. CallOK(x)' /\ x.pc \notin Locking /\ x.pc # "commit"
  BY <1>8 DEF CallOK, CallRec, RequestStages, Locking, Refreshing, Revoking
<1>10. CallsInv' /\ Exclusive' /\ call' \in [Calls -> Call]
  BY <1>1, <1>7, <1>8, <1>9, CallMoves
<1>11. AuthTypeOK'
  BY <1>1, <1>2, <1>3, <1>10, EventsKeepType DEF AuthTypeOK
<1>12. Cardinality(ActiveDevices') <= MaxDevices
  BY <1>1, <1>6, ActiveFinite, AuthTypes DEF AuthInv
<1> QED BY <1>5, <1>10, <1>11, <1>12 DEF AuthInv

\* Every step of the server keeps the invariant.
LEMMA AuthStepKeeps ==
  ASSUME AuthInv, AuthStep
  PROVE  AuthInv'
<1>1. AuthTypeOK /\ RowsInv /\ CallsInv /\ Exclusive BY DEF AuthInv
<1>2. ASSUME NEW c \in Calls, ReadPending(c) PROVE AuthInv'
  <2>1. call[c].pc \in RequestStages BY <1>2 DEF ReadPending, At, RequestStages
  <2>2. CASE Answer(c, "invalid", 0) BY <1>2, <2>2, AnswerKeeps DEF ReadPending
  <2>3. ASSUME NEW pc \in {"approving", "cancelling"}, GoTo(c, pc) PROVE AuthInv'
    <3>1. pc \in Stages \ {"answered", "apply"} /\ pc \in RequestStages /\ pc \notin Locking
          /\ pc \notin Refreshing /\ pc \notin Revoking /\ pc # "claim" /\ pc # "commit"
      BY DEF Stages, RequestStages, Locking, Refreshing, Revoking
    <3> QED BY <1>2, <2>1, <2>3, <3>1, GoToKeeps DEF ReadPending
  <2> QED BY <1>2, <2>2, <2>3 DEF ReadPending
<1>3. ASSUME NEW c \in Calls, ApproveTx(c) PROVE AuthInv'
  <2>1. call[c].pc \in RequestStages BY <1>3 DEF ApproveTx, At, RequestStages
  <2>2. CASE request[call[c].arg].version = version /\ request[call[c].arg].status = "pending"
    BY <1>3, <2>1, <2>2, DecideKeeps DEF ApproveTx
  <2>3. CASE ~(request[call[c].arg].version = version /\ request[call[c].arg].status = "pending")
    BY <1>3, <2>3, AnswerKeeps DEF ApproveTx
  <2> QED BY <2>2, <2>3
<1>4. ASSUME NEW c \in Calls, CancelTx(c) PROVE AuthInv'
  <2>1. call[c].pc \in RequestStages BY <1>4 DEF CancelTx, At, RequestStages
  <2>2. CASE request[call[c].arg].status = "pending"
    BY <1>4, <2>1, <2>2, DecideKeeps DEF CancelTx
  <2>3. CASE ~(request[call[c].arg].status = "pending")
    BY <1>4, <2>3, AnswerKeeps DEF CancelTx
  <2> QED BY <2>2, <2>3
<1>5. ASSUME NEW c \in Calls, ExchangeRead(c) PROVE AuthInv'
  <2>1. call[c].pc \in RequestStages BY <1>5 DEF ExchangeRead, At, RequestStages
  <2>2. CASE Answer(c, "invalid", 0) BY <1>5, <2>2, AnswerKeeps DEF ExchangeRead
  <2>3. CASE GoTo(c, "lock")
    <3>1. "lock" \in Stages \ {"answered", "apply"} /\ "lock" \notin Locking
          /\ "lock" \notin Refreshing /\ "lock" \notin Revoking
      BY DEF Stages, Locking, Refreshing, Revoking
    <3> QED BY <1>5, <2>1, <2>3, <3>1, GoToKeeps DEF ExchangeRead
  <2> QED BY <1>5, <2>2, <2>3 DEF ExchangeRead
<1>6. ASSUME NEW c \in Calls, LockUser(c) PROVE AuthInv'
  <2>1. call[c].pc \in RequestStages BY <1>6 DEF LockUser, At, RequestStages
  <2>2. CASE ~(request[call[c].arg].version = version) BY <1>6, <2>2, AnswerKeeps DEF LockUser
  <2>3. CASE request[call[c].arg].version = version
    <3>1. "count" \in Stages \ {"answered", "apply"} /\ "count" \notin Refreshing /\ "count" \notin Revoking
      BY DEF Stages, Refreshing, Revoking
    <3>2. \A d \in Calls \ {c} : call[d].pc \notin Locking
      BY <1>6 DEF LockUser, UserLocked, HoldsUser, Locking
    <3> QED BY <1>6, <2>1, <2>3, <3>1, <3>2, GoToKeeps DEF LockUser
  <2> QED BY <2>2, <2>3
<1>7. ASSUME NEW c \in Calls, CountDevices(c) PROVE AuthInv'
  <2>1. call[c].pc \in RequestStages /\ call[c].pc \in Locking
    BY <1>7 DEF CountDevices, At, RequestStages, Locking
  <2>2. CASE ~(Cardinality(ActiveDevices) < MaxDevices) BY <1>7, <2>2, AnswerKeeps DEF CountDevices
  <2>3. CASE Cardinality(ActiveDevices) < MaxDevices
    <3>1. "claim" \in Stages \ {"answered", "apply"} /\ "claim" \notin Refreshing /\ "claim" \notin Revoking
      BY DEF Stages, Refreshing, Revoking
    <3>2. \A d \in Calls \ {c} : call[d].pc \notin Locking BY <1>1, <2>1 DEF Exclusive
    <3>3. request[call[c].arg].version = version BY <1>1, <2>1 DEF CallsInv, CallOK
    <3> QED BY <1>7, <2>1, <2>3, <3>1, <3>2, <3>3, GoToKeeps DEF CountDevices
  <2> QED BY <2>2, <2>3
<1>8. ASSUME NEW c \in Calls, ClaimCode(c) PROVE AuthInv'
  <2>1. CASE request[call[c].arg].used BY <1>8, <2>1, AnswerKeeps DEF ClaimCode
  <2>2. CASE ~request[call[c].arg].used BY <1>8, <2>2, ClaimKeeps DEF ClaimCode, ClaimedRows
  <2> QED BY <2>1, <2>2
<1>9. ASSUME NEW c \in Calls, call[c].pc \in Refreshing
      PROVE  call[c].arg \in DOMAIN session /\ session[call[c].arg].family \in DOMAIN device
  BY <1>1, <1>9 DEF CallsInv, CallOK, RowsInv
<1>10. ASSUME NEW c \in Calls, RefreshRead(c) PROVE AuthInv'
  <2>1. call[c].pc \in Refreshing BY <1>10 DEF RefreshRead, At, Refreshing
  <2>2. session[call[c].arg].family \in DOMAIN device BY <1>9, <2>1
  <2>3. CASE Answer(c, "invalid", 0) BY <1>10, <2>3, AnswerKeeps DEF RefreshRead
  <2>4. CASE GoRevoke(c, session[call[c].arg].family, FALSE)
    BY <1>10, <2>2, <2>4, GoRevokeKeeps DEF RefreshRead
  <2>5. CASE GoRevoke(c, session[call[c].arg].family, TRUE)
    BY <1>10, <2>2, <2>5, GoRevokeKeeps DEF RefreshRead
  <2>6. CASE GoTo(c, "reread")
    <3>1. "reread" \in Stages \ {"answered", "apply"} /\ "reread" \notin RequestStages
          /\ "reread" \notin Locking /\ "reread" \notin Revoking
      BY DEF Stages, RequestStages, Locking, Revoking
    <3> QED BY <1>10, <2>1, <2>6, <3>1, GoToKeeps DEF RefreshRead
  <2> QED BY <1>10, <2>3, <2>4, <2>5, <2>6 DEF RefreshRead
<1>11. ASSUME NEW c \in Calls, RefreshReread(c) PROVE AuthInv'
  <2>1. call[c].pc \in Refreshing BY <1>11 DEF RefreshReread, At, Refreshing
  <2>2. session[call[c].arg].family \in DOMAIN device BY <1>9, <2>1
  <2>3. CASE Answer(c, "invalid", 0) BY <1>11, <2>3, AnswerKeeps DEF RefreshReread
  <2>4. CASE GoRevoke(c, session[call[c].arg].family, FALSE)
    BY <1>11, <2>2, <2>4, GoRevokeKeeps DEF RefreshReread
  <2>5. CASE GoRevoke(c, session[call[c].arg].family, TRUE)
    BY <1>11, <2>2, <2>5, GoRevokeKeeps DEF RefreshReread
  <2>6. CASE GoTo(c, "consume")
    <3>1. "consume" \in Stages \ {"answered", "apply"} /\ "consume" \notin RequestStages
          /\ "consume" \notin Locking /\ "consume" \notin Revoking
      BY DEF Stages, RequestStages, Locking, Revoking
    <3> QED BY <1>11, <2>1, <2>6, <3>1, GoToKeeps DEF RefreshReread
  <2> QED BY <1>11, <2>3, <2>4, <2>5, <2>6 DEF RefreshReread
<1>12. ASSUME NEW c \in Calls, Consume(c) PROVE AuthInv'
  <2>1. call[c].pc \in Refreshing BY <1>12 DEF Consume, At, Refreshing
  <2>2. session[call[c].arg].family \in DOMAIN device BY <1>9, <2>1
  <2>3. CASE session[call[c].arg].replaced \/ session[call[c].arg].revoked
    BY <1>12, <2>2, <2>3, GoRevokeKeeps DEF Consume
  <2>4. CASE ~(session[call[c].arg].replaced \/ session[call[c].arg].revoked)
    <3>1. "commit" \in Stages \ {"answered", "apply"} /\ "commit" \notin RequestStages
          /\ "commit" \notin Locking /\ "commit" \notin Revoking
      BY DEF Stages, RequestStages, Locking, Revoking
    <3> QED BY <1>12, <2>1, <2>4, <3>1, GoToKeeps DEF Consume
  <2> QED BY <2>3, <2>4
<1>13. ASSUME NEW c \in Calls, CommitRotation(c) PROVE AuthInv'
  <2>1. Len(session) + 1 \in {0, Len(session) + 1} OBVIOUS
  <2> QED BY <1>13, <2>1, RotationKeeps DEF CommitRotation
<1>14. ASSUME NEW c \in Calls, CommitUnknown(c) PROVE AuthInv'
  BY <1>14, RotationKeeps DEF CommitUnknown
<1>15. ASSUME NEW c \in Calls, ServerFails(c) PROVE AuthInv'
  BY <1>15, AnswerKeeps DEF ServerFails
<1> QED BY <1>2, <1>3, <1>4, <1>5, <1>6, <1>7, <1>8, <1>10, <1>11, <1>12, <1>13, <1>14, <1>15,
           RevokeStartKeeps, RevokeApplyKeeps, ChangeAccountKeeps DEF AuthStep

-----------------------------------------------------------------------------
(* The server implements TokenFamily                                         *)

\* What a step of the server may do to the account, the devices and the
\* sessions.
RowsChange ==
  \/ UNCHANGED <<version, device, session>>
  \/ \E c \in Calls : /\ At(c, "claim") /\ Len(session) < MaxSessions
                      /\ ClaimedRows(c) /\ UNCHANGED version
  \/ \E c \in Calls : /\ At(c, "commit") /\ Len(session) < MaxSessions
                      /\ Rotated(call[c].arg) /\ UNCHANGED <<version, device>>
  \/ \E c \in Calls : RevokeApply(c)
  \/ ChangeAccount

LEMMA AuthStepRows == AuthStep => RowsChange
BY DEF AuthStep, RowsChange, ReadPending, ApproveTx, CancelTx, ExchangeRead, LockUser, CountDevices,
       ClaimCode, ClaimedRows, RefreshRead, RefreshReread, Consume, CommitRotation, CommitUnknown,
       RevokeStart, ServerFails

\* A sign-in issues the first token of a family.
LEMMA ClaimIssues ==
  ASSUME AuthInv, NEW c \in Calls, At(c, "claim"), Len(session) < MaxSessions, ClaimedRows(c),
         UNCHANGED version
  PROVE  Family!Issue(Len(device) + 1, Len(session) + 1)
         /\ Len(device) + 1 \in 1 .. MaxSessions /\ Len(session) + 1 \in 1 .. MaxSessions
<1>0. PICK f, s : f = Len(device) + 1 /\ s = Len(session) + 1 OBVIOUS
<1>1. AuthTypeOK /\ RowsInv BY DEF AuthInv
<1>2. /\ DOMAIN device' = DOMAIN device \cup {f} /\ f \notin DOMAIN device
      /\ \A g \in DOMAIN device : device'[g] = device[g]
      /\ device'[f].version = version /\ ~device'[f].revoked
      /\ DOMAIN session' = DOMAIN session \cup {s} /\ s \notin DOMAIN session
      /\ \A t \in DOMAIN session : session'[t] = session[t]
      /\ session'[s].family = f /\ session'[s].version = version
      /\ ~session'[s].replaced /\ ~session'[s].revoked
      /\ f \in 1 .. MaxSessions /\ s \in 1 .. MaxSessions
  BY <1>0, ClaimedFacts
<1>3. \A t \in DOMAIN session : session[t].family \in DOMAIN device BY <1>1 DEF RowsInv
<1>4. AcceptedOf(f) = {} BY <1>2, <1>3 DEF AcceptedOf
<1>5. AcceptedOf(f)' = {s}
  <2>1. \A t \in DOMAIN session : session'[t].family # f BY <1>2, <1>3
  <2>2. Accepted(s)' BY <1>2 DEF Accepted, Stale
  <2>3. \A t : t \in AcceptedOf(f)' <=> t = s BY <1>2, <2>1, <2>2 DEF AcceptedOf
  <2> QED BY <2>3
<1>6. ASSUME NEW g \in 1 .. MaxSessions, g # f PROVE AcceptedOf(g)' = AcceptedOf(g)
  <2>1. \A t \in DOMAIN session : Accepted(t)' <=> Accepted(t)
    BY <1>2, <1>3 DEF Accepted, Stale
  <2> QED BY <1>2, <1>6, <2>1 DEF AcceptedOf
<1>7. f \notin Ended /\ Ended' = Ended BY <1>2 DEF Ended
<1>8. [g \in 1 .. MaxSessions |-> AcceptedOf(g)']
        = [[g \in 1 .. MaxSessions |-> AcceptedOf(g)] EXCEPT ![f] = {s}]
  BY <1>2, <1>5, <1>6
<1>9. Family!Issue(f, s) BY <1>2, <1>4, <1>7, <1>8 DEF Family!Issue
<1> QED BY <1>0, <1>2, <1>9

\* A refresh moves the accepted token on, or is of a family that has ended.
LEMMA RotationRotates ==
  ASSUME AuthInv, NEW c \in Calls, At(c, "commit"), Len(session) < MaxSessions,
         Rotated(call[c].arg), UNCHANGED <<version, device>>
  PROVE  \/ /\ Family!Rotate(session[call[c].arg].family, Len(session) + 1)
            /\ session[call[c].arg].family \in 1 .. MaxSessions
            /\ Len(session) + 1 \in 1 .. MaxSessions
         \/ UNCHANGED Family!familyVars
<1>0. PICK s, f, n : s = call[c].arg /\ f = session[s].family /\ n = Len(session) + 1 OBVIOUS
<1>1. AuthTypeOK /\ RowsInv /\ CallsInv BY DEF AuthInv
<1>2. s \in DOMAIN session /\ ~session[s].replaced /\ ~session[s].revoked
  BY <1>0, <1>1 DEF CallsInv, CallOK, At, Refreshing
<1>3. /\ DOMAIN session' = DOMAIN session \cup {n} /\ n \notin DOMAIN session
      /\ n \in 1 .. MaxSessions
      /\ \A t \in DOMAIN session : /\ session'[t].family = session[t].family
                                   /\ session'[t].version = session[t].version
                                   /\ session'[t].revoked = session[t].revoked
      /\ \A t \in DOMAIN session : t # s => session'[t] = session[t]
      /\ session'[s].replaced
      /\ session'[n].family = f /\ session'[n].version = session[s].version
      /\ ~session'[n].replaced /\ ~session'[n].revoked
  BY <1>0, <1>1, <1>2, RotatedFacts
<1>4. f \in 1 .. MaxSessions /\ \A t \in DOMAIN session : t < n
  BY <1>0, <1>1, <1>2, AuthTypes DEF Session
<1>5. \A t \in DOMAIN session : session[t].family = f /\ t # s => session[t].replaced
  BY <1>0, <1>1, <1>2 DEF RowsInv
<1>6. AcceptedOf(f) = IF Accepted(s) THEN {s} ELSE {}
  BY <1>0, <1>2, <1>5 DEF AcceptedOf, Accepted
<1>7. AcceptedOf(f)' = IF Accepted(s) THEN {n} ELSE {}
  <2>1. \A t \in DOMAIN session : session'[t].family = f => session'[t].replaced
    BY <1>3, <1>5
  <2>2. Accepted(n)' <=> Accepted(s)
    <3>1. Accepted(n)' <=> ~device[f].revoked /\ session[s].version = version
      BY <1>3 DEF Accepted, Stale
    <3>2. Accepted(s) <=> ~device[f].revoked /\ session[s].version = version
      BY <1>0, <1>2 DEF Accepted, Stale
    <3> QED BY <3>1, <3>2
  <2>3. \A t \in DOMAIN session : ~(session'[t].family = f /\ Accepted(t)')
    BY <2>1 DEF Accepted
  <2>4. \A t : t \in AcceptedOf(f)' <=> t = n /\ Accepted(s)
    BY <1>3, <2>2, <2>3 DEF AcceptedOf
  <2> QED BY <2>4
<1>8. ASSUME NEW g, g # f PROVE AcceptedOf(g)' = AcceptedOf(g)
  <2>1. \A t \in DOMAIN session : session[t].family # f => (Accepted(t)' <=> Accepted(t))
    BY <1>0, <1>3 DEF Accepted, Stale
  <2>2. \A t \in DOMAIN session' : session'[t].family = g => t \in DOMAIN session
    BY <1>3, <1>8
  <2>3. \A t : t \in AcceptedOf(g)' <=> t \in AcceptedOf(g)
    BY <1>3, <1>8, <2>1, <2>2 DEF AcceptedOf
  <2> QED BY <2>3
<1>9. Ended' = Ended BY DEF Ended
<1>10. CASE Accepted(s)
  <2>1. [g \in 1 .. MaxSessions |-> AcceptedOf(g)']
          = [[g \in 1 .. MaxSessions |-> AcceptedOf(g)] EXCEPT ![f] = {n}]
    BY <1>7, <1>8, <1>10
  <2>2. AcceptedOf(f) # {} /\ \A u \in AcceptedOf(f) : u < n BY <1>2, <1>4, <1>6, <1>10
  <2>3. Family!Rotate(f, n) BY <1>4, <1>9, <2>1, <2>2 DEF Family!Rotate
  <2> QED BY <1>0, <1>3, <1>4, <2>3
<1>11. CASE ~Accepted(s)
  <2>1. \A g \in 1 .. MaxSessions : AcceptedOf(g)' = AcceptedOf(g)
    <3>1. ASSUME NEW g \in 1 .. MaxSessions PROVE AcceptedOf(g)' = AcceptedOf(g)
      <4>1. CASE g = f
        <5>1. AcceptedOf(f)' = AcceptedOf(f) BY <1>6, <1>7, <1>11
        <5> QED BY <4>1, <5>1
      <4>2. CASE g # f BY <1>8, <4>2
      <4> QED BY <4>1, <4>2
    <3> QED BY <3>1
  <2> QED BY <1>9, <2>1 DEF Family!familyVars
<1> QED BY <1>10, <1>11

\* A revocation ends its families.
LEMMA RevocationEnds ==
  ASSUME AuthInv, NEW c \in Calls, RevokeApply(c)
  PROVE  Family!End(FamiliesOf(c)) /\ FamiliesOf(c) \subseteq 1 .. MaxSessions
<1>1. AuthTypeOK /\ RowsInv /\ CallOK(call[c]) BY DEF AuthInv, CallsInv
<1>2. /\ DOMAIN session' = DOMAIN session
      /\ \A s \in DOMAIN session : /\ session'[s].family = session[s].family
                                   /\ session'[s].version = session[s].version
                                   /\ session'[s].replaced = session[s].replaced
                                   /\ session'[s].revoked = (session[s].revoked \/ s \in call[c].seen)
      /\ DOMAIN device' = DOMAIN device
      /\ \A f \in DOMAIN device :
           /\ device'[f].version = device[f].version
           /\ device'[f].revoked = (device[f].revoked \/ f \in FamiliesOf(c))
      /\ version' = version
  BY <1>1, RevokedFacts DEF RevokeApply
<1>3. call[c].arg \in {0} \cup DOMAIN device /\ \A s \in call[c].seen : session[s].family \in FamiliesOf(c)
  BY <1>1 DEF CallOK, At, RevokeApply, Revoking, FamiliesAt, FamiliesOf
<1>4. FamiliesOf(c) \subseteq DOMAIN device BY <1>3 DEF FamiliesOf
<1>5. DOMAIN device \subseteq 1 .. MaxSessions BY <1>1, AuthTypes DEF AuthTypeOK, RowsInv
<1>6. Ended' = Ended \cup FamiliesOf(c) BY <1>2, <1>4 DEF Ended
<1>7. \A s \in DOMAIN session : session[s].family \in DOMAIN device BY <1>1 DEF RowsInv
<1>8. ASSUME NEW f \in 1 .. MaxSessions, f \in FamiliesOf(c) PROVE AcceptedOf(f)' = {}
  BY <1>2, <1>4, <1>8 DEF AcceptedOf, Accepted
<1>9. ASSUME NEW f \in 1 .. MaxSessions, f \notin FamiliesOf(c)
      PROVE  AcceptedOf(f)' = AcceptedOf(f)
  <2>1. \A s \in DOMAIN session : session[s].family = f =>
          /\ session'[s].family = f /\ session'[s].version = session[s].version
          /\ session'[s].replaced = session[s].replaced
          /\ session'[s].revoked <=> session[s].revoked
    BY <1>2, <1>3, <1>9
  <2>2. f \in DOMAIN device => /\ device'[f].version = device[f].version
                               /\ device'[f].revoked <=> device[f].revoked
    BY <1>2, <1>9
  <2>3. \A s : s \in AcceptedOf(f)' <=> s \in AcceptedOf(f)
    BY <1>2, <1>7, <2>1, <2>2 DEF AcceptedOf, Accepted, Stale
  <2> QED BY <2>3
<1> QED BY <1>4, <1>5, <1>6, <1>8, <1>9 DEF Family!End

\* A change of the account ends every family there is.
LEMMA ChangeEnds ==
  ASSUME AuthInv, ChangeAccount
  PROVE  Family!End(DOMAIN device) /\ DOMAIN device \subseteq 1 .. MaxSessions
<1>1. AuthTypeOK /\ RowsInv BY DEF AuthInv
<1>2. version' = version + 1 /\ version \in Nat /\ UNCHANGED <<device, session>>
  BY <1>1, AuthTypes DEF ChangeAccount
<1>3. DOMAIN device \subseteq 1 .. MaxSessions BY <1>1, AuthTypes DEF AuthTypeOK, RowsInv
<1>4. \A f \in DOMAIN device : device[f].version # version'
  <2>1. \A f \in DOMAIN device : device[f].version \in Nat BY <1>1, AuthTypes DEF Device
  <2>2. \A f \in DOMAIN device : device[f].version <= version BY <1>1 DEF RowsInv
  <2> QED BY <1>2, <2>1, <2>2
<1>5. \A s \in DOMAIN session : session[s].family \in DOMAIN device /\ session[s].version # version'
  BY <1>1, <1>4 DEF RowsInv
<1>6. \A f : AcceptedOf(f)' = {} BY <1>2, <1>5 DEF AcceptedOf, Accepted, Stale
<1>7. Ended' = Ended \cup DOMAIN device BY <1>2, <1>4 DEF Ended
<1>8. \A f : f \notin DOMAIN device => AcceptedOf(f) = {} BY <1>5 DEF AcceptedOf
<1> QED BY <1>3, <1>6, <1>7, <1>8 DEF Family!End

\* Every step of the server is a step of a token family, or none.
LEMMA RowsChangeRefines ==
  ASSUME AuthInv, RowsChange
  PROVE  Family!FamilyNext \/ UNCHANGED Family!familyVars
<1>1. CASE UNCHANGED <<version, device, session>>
  <2>1. Ended' = Ended BY <1>1 DEF Ended
  <2>2. \A f : AcceptedOf(f)' = AcceptedOf(f) BY <1>1 DEF AcceptedOf, Accepted, Stale
  <2> QED BY <2>1, <2>2 DEF Family!familyVars
<1>2. ASSUME NEW c \in Calls, At(c, "claim"), Len(session) < MaxSessions, ClaimedRows(c),
             UNCHANGED version
      PROVE  Family!FamilyNext
  BY <1>2, ClaimIssues DEF Family!FamilyNext
<1>3. ASSUME NEW c \in Calls, At(c, "commit"), Len(session) < MaxSessions,
             Rotated(call[c].arg), UNCHANGED <<version, device>>
      PROVE  Family!FamilyNext \/ UNCHANGED Family!familyVars
  BY <1>3, RotationRotates DEF Family!FamilyNext
<1>4. ASSUME NEW c \in Calls, RevokeApply(c) PROVE Family!FamilyNext
  BY <1>4, RevocationEnds DEF Family!FamilyNext
<1>5. CASE ChangeAccount BY <1>5, ChangeEnds DEF Family!FamilyNext
<1> QED BY <1>1, <1>2, <1>3, <1>4, <1>5 DEF RowsChange

-----------------------------------------------------------------------------
(* The app only holds what there is                                          *)

\* The operations of q are about the sessions S.
Existing(q, S) == q \in Seq(Operation) /\ \A i \in DOMAIN q : q[i].token \in {0} \cup S

\* The bundles the app holds have a session each, and its sign-in a request.
HandsInv ==
  /\ mem \in {0} \cup DOMAIN session /\ disk \in {0} \cup DOMAIN session
  /\ Existing(queue, DOMAIN session)
  /\ login.stage # "none" => login.request \in DOMAIN request

SafeInv == AuthInv /\ SessionTypeOK /\ HandsInv

UiStates == {"signed-in", "signing-out", "signed-out-clean", "signed-out-cleanup-required"}

LEMMA ExistingTail ==
  ASSUME NEW S, NEW q, Existing(q, S), q # <<>>
  PROVE  /\ Existing(Tail(q), S) /\ Head(q) \in Operation /\ Head(q).token \in {0} \cup S
         /\ Head(q) = q[1]
<1>1. /\ q \in Seq(Operation) /\ DOMAIN q = 1 .. Len(q) /\ Len(q) \in Nat \ {0}
  BY RowOf, EmptySeq DEF Existing
<1>2. /\ Tail(q) \in Seq(Operation) /\ Len(Tail(q)) = Len(q) - 1
      /\ \A i \in 1 .. Len(Tail(q)) : Tail(q)[i] = q[i + 1]
      /\ Head(q) \in Operation /\ Head(q) = q[1]
  BY <1>1, HeadTailProperties
<1>3. DOMAIN Tail(q) = 1 .. Len(q) - 1 BY <1>2, LenProperties
<1>4. \A i \in DOMAIN Tail(q) : Tail(q)[i].token \in {0} \cup S
  <2>1. ASSUME NEW i \in DOMAIN Tail(q) PROVE Tail(q)[i].token \in {0} \cup S
    <3>1. i + 1 \in DOMAIN q /\ Tail(q)[i] = q[i + 1] BY <1>1, <1>2, <1>3
    <3> QED BY <3>1 DEF Existing
  <2> QED BY <2>1
<1> QED BY <1>1, <1>2, <1>4 DEF Existing

LEMMA ExistingAppend ==
  ASSUME NEW S, NEW q, Existing(q, S), NEW e \in Operation, e.token \in {0} \cup S
  PROVE  Existing(Append(q, e), S)
BY AppendRow DEF Existing

LEMMA ExistingOutdated ==
  ASSUME NEW S, NEW q, Existing(q, S)
  PROVE  /\ Existing(Outdated(q), S) /\ DOMAIN Outdated(q) = DOMAIN q /\ Len(Outdated(q)) = Len(q)
         /\ \A i \in DOMAIN q :
              /\ Outdated(q)[i].kind = q[i].kind /\ Outdated(q)[i].token = q[i].token
              /\ Outdated(q)[i].expect = q[i].expect /\ Outdated(q)[i].written = q[i].written
              /\ Outdated(q)[i].by = q[i].by /\ ~Outdated(q)[i].current
<1>1. q \in Seq(Operation) /\ \A i \in DOMAIN q : q[i] \in Operation
  BY RowOf DEF Existing
<1>2. \A i \in DOMAIN q :
        /\ Outdated(q)[i] \in Operation
        /\ Outdated(q)[i].kind = q[i].kind /\ Outdated(q)[i].token = q[i].token
        /\ Outdated(q)[i].expect = q[i].expect /\ Outdated(q)[i].written = q[i].written
        /\ Outdated(q)[i].by = q[i].by /\ ~Outdated(q)[i].current
  BY <1>1 DEF Operation, Outdated
<1>3. Outdated(q) \in [DOMAIN q -> Operation] BY <1>2 DEF Outdated
<1>4. Outdated(q) \in Seq(Operation) /\ Len(Outdated(q)) = Len(q) BY <1>1, <1>3, RowsOfFunction
<1> QED BY <1>2, <1>3, <1>4 DEF Existing

\* A bundle is on the disk: the write that runs is marked.
Marked(q, p) == p = [q EXCEPT ![1] = [q[1] EXCEPT !.written = TRUE]]

LEMMA ExistingWritten ==
  ASSUME NEW S, NEW q, Existing(q, S), q # <<>>, NEW p, Marked(q, p)
  PROVE  /\ Existing(p, S) /\ DOMAIN p = DOMAIN q /\ Len(p) = Len(q)
         /\ \A i \in DOMAIN q :
              /\ p[i].kind = q[i].kind /\ p[i].token = q[i].token /\ p[i].expect = q[i].expect
              /\ p[i].by = q[i].by /\ p[i].current = q[i].current
              /\ p[i].written = (q[i].written \/ i = 1)
<1>1. /\ q \in Seq(Operation) /\ DOMAIN q = 1 .. Len(q) /\ Len(q) \in Nat \ {0}
      /\ \A i \in DOMAIN q : q[i] \in Operation
  BY RowOf, EmptySeq DEF Existing
<1> DEFINE e == [q[1] EXCEPT !.written = TRUE]
<1>2. /\ 1 \in DOMAIN q /\ e \in Operation /\ e.kind = q[1].kind /\ e.token = q[1].token
      /\ e.expect = q[1].expect /\ e.by = q[1].by /\ e.current = q[1].current /\ e.written = TRUE
  <2>1. 1 \in DOMAIN q /\ q[1] \in Operation BY <1>1
  <2> QED BY <2>1 DEF Operation
<1>3. p = [q EXCEPT ![1] = e] BY DEF Marked
<1> HIDE DEF e
<1>4. /\ p \in Seq(Operation) /\ Len(p) = Len(q) /\ DOMAIN p = DOMAIN q
      /\ \A j \in DOMAIN q : p[j] = IF j = 1 THEN e ELSE q[j]
  <2>1. /\ [q EXCEPT ![1] = e] \in Seq(Operation) /\ Len([q EXCEPT ![1] = e]) = Len(q)
        /\ DOMAIN [q EXCEPT ![1] = e] = DOMAIN q
        /\ \A j \in DOMAIN q : [q EXCEPT ![1] = e][j] = IF j = 1 THEN e ELSE q[j]
    BY <1>1, <1>2, ReplaceRow
  <2> QED BY <1>3, <2>1
<1>5. \A j \in DOMAIN q : q[j].written \in BOOLEAN BY <1>1 DEF Operation
<1>6. \A i \in DOMAIN q :
        /\ p[i].kind = q[i].kind /\ p[i].token = q[i].token /\ p[i].expect = q[i].expect
        /\ p[i].by = q[i].by /\ p[i].current = q[i].current
        /\ p[i].written = (q[i].written \/ i = 1)
  <2> SUFFICES ASSUME NEW i \in DOMAIN q
               PROVE  /\ p[i].kind = q[i].kind /\ p[i].token = q[i].token
                      /\ p[i].expect = q[i].expect /\ p[i].by = q[i].by
                      /\ p[i].current = q[i].current /\ p[i].written = (q[i].written \/ i = 1)
    OBVIOUS
  <2>1. CASE i = 1
    <3>1. p[i] = e /\ q[i] = q[1] BY <1>2, <1>4, <2>1
    <3>2. p[i].written = TRUE /\ (q[i].written \/ i = 1) = TRUE BY <1>2, <2>1, <3>1
    <3> QED BY <1>2, <3>1, <3>2
  <2>2. CASE i # 1 BY <1>4, <1>5, <2>2
  <2> QED BY <2>1, <2>2
<1>7. \A i \in DOMAIN p : p[i].token \in {0} \cup S BY <1>4, <1>6 DEF Existing
<1> QED BY <1>4, <1>6, <1>7 DEF Existing

\* The operations that are queued.
LEMMA Operations ==
  ASSUME AuthTypeOK
  PROVE  /\ \A by \in {"refresh", "cleanup"} :
              ClearOp(by) \in Operation /\ ClearOp(by).token = 0
         /\ \A token \in {0} \cup DOMAIN session, expect \in Tokens, current \in BOOLEAN,
               by \in {"refresh", "login"} :
              /\ WriteOp(token, expect, current, by) \in Operation
              /\ WriteOp(token, expect, current, by).token = token
<1>1. MaxSessions \in Nat /\ DOMAIN session \subseteq Tokens
  BY AuthTypes DEF AuthTypeOK, Tokens
<1> QED BY <1>1 DEF ClearOp, WriteOp, Operation, Tokens

\* Clearing the session clears memory and queues a deletion.
LEMMA ClearHolds ==
  ASSUME AuthTypeOK, NEW q, Existing(q, DOMAIN session), NEW by \in {"refresh", "cleanup"}, Clear(q, by)
  PROVE  mem' = 0 /\ Existing(queue', DOMAIN session)
<1>1. Existing(Outdated(q), DOMAIN session) BY ExistingOutdated
<1>2. ClearOp(by) \in Operation /\ ClearOp(by).token = 0 BY Operations
<1>3. Existing(Append(Outdated(q), ClearOp(by)), DOMAIN session) BY <1>1, <1>2, ExistingAppend
<1> QED BY <1>3 DEF Clear

\* A call that is made about a row there is.
LEMMA PlaceKeeps ==
  ASSUME AuthInv, UNCHANGED <<version, request, device, session>>, Event \/ events' = events,
         NEW c \in Calls, NEW pc \in {"approve", "cancel", "exchange", "refresh", "revoke"}, NEW arg,
         pc \in {"approve", "cancel", "exchange"} => arg \in DOMAIN request,
         pc = "refresh" => arg \in DOMAIN session,
         pc = "revoke" => arg \in {0} \cup DOMAIN device,
         Place(c, pc, arg)
  PROVE  AuthInv'
<1>1. arg \in Nat /\ pc \in Stages /\ call \in [Calls -> Call] BY AuthTypes DEF AuthInv, Stages
<1>2. PICK x \in Call : Becomes(c, x) /\ x = CallRec(pc, arg, {}, FALSE, "ok", 0)
  BY <1>1, PlaceBecomes
<1>3. x.pc = pc /\ x.arg = arg BY <1>2 DEF CallRec
<1>4. CallOK(x) /\ x.pc \notin Locking /\ x.pc # "commit"
  BY <1>3 DEF CallOK, RequestStages, Locking, Refreshing, Revoking
<1> QED BY <1>2, <1>4, OnlyCallMoves

\* A call whose answer was received, or lost.
LEMMA DropKeeps ==
  ASSUME AuthInv, UNCHANGED <<version, request, device, session>>, Event \/ events' = events,
         NEW c, call' = [call EXCEPT ![c] = NoCall]
  PROVE  AuthInv'
<1>1. CASE c \in Calls
  <2>1. PICK x \in Call : x = NoCall BY NoCallFields
  <2>2. x.pc = "idle" BY <2>1, NoCallFields DEF CallRec
  <2>3. CallOK(x) /\ x.pc \notin Locking /\ x.pc # "commit"
    BY <2>2 DEF CallOK, RequestStages, Locking, Refreshing, Revoking
  <2> QED BY <1>1, <2>1, <2>3, OnlyCallMoves DEF Becomes
<1>2. CASE c \notin Calls
  <2>1. call' = call BY <1>2, AuthTypes DEF AuthInv
  <2> QED BY <2>1, NothingMoves
<1> QED BY <1>1, <1>2

\* The app's records by their fields.
FlightRec(stage, c, token, current) ==
  [stage |-> stage, call |-> c, token |-> token, current |-> current]
LoginRec(stage, r, c) == [stage |-> stage, request |-> r, call |-> c]

LEMMA FlightFields ==
  ASSUME flight \in Flight
  PROVE  /\ flight.stage \in {"none", "calling", "persisting", "clearing"}
         /\ flight.call \in Calls \cup {NoOne} /\ flight.token \in Tokens /\ flight.current \in BOOLEAN
         /\ flight = FlightRec(flight.stage, flight.call, flight.token, flight.current)
         /\ [flight EXCEPT !.current = FALSE] = FlightRec(flight.stage, flight.call, flight.token, FALSE)
         /\ [flight EXCEPT !.stage = "persisting", !.call = NoOne]
              = FlightRec("persisting", NoOne, flight.token, flight.current)
<1>1. ASSUME NEW q, q = [flight EXCEPT !.stage = "persisting", !.call = NoOne]
      PROVE  q = FlightRec("persisting", NoOne, flight.token, flight.current)
  BY <1>1 DEF Flight, FlightRec
<1>2. ASSUME NEW q, q = [flight EXCEPT !.current = FALSE]
      PROVE  q = FlightRec(flight.stage, flight.call, flight.token, FALSE)
  BY <1>2 DEF Flight, FlightRec
<1>3. /\ flight.stage \in {"none", "calling", "persisting", "clearing"}
      /\ flight.call \in Calls \cup {NoOne} /\ flight.token \in Tokens /\ flight.current \in BOOLEAN
      /\ flight = FlightRec(flight.stage, flight.call, flight.token, flight.current)
  BY DEF Flight, FlightRec
<1> QED BY <1>1, <1>2, <1>3

LEMMA NoFlightFields ==
  /\ NoFlight = FlightRec("none", NoOne, 0, FALSE)
  /\ [NoFlight EXCEPT !.stage = "clearing"] = FlightRec("clearing", NoOne, 0, FALSE)
<1>1. ASSUME NEW q, q = [NoFlight EXCEPT !.stage = "clearing"]
      PROVE  q = FlightRec("clearing", NoOne, 0, FALSE)
  BY <1>1 DEF NoFlight, FlightRec
<1> QED BY <1>1 DEF NoFlight, FlightRec

LEMMA LoginFields ==
  ASSUME login \in Login
  PROVE  /\ login.stage \in {"none", "browser", "exchange", "persist"}
         /\ login.request \in 0 .. MaxRequests /\ login.call \in Calls \cup {NoOne}
         /\ \A c : [login EXCEPT !.stage = "exchange", !.call = c] = LoginRec("exchange", login.request, c)
         /\ [login EXCEPT !.stage = "persist", !.call = NoOne] = LoginRec("persist", login.request, NoOne)
<1>1. ASSUME NEW q, NEW c, q = [login EXCEPT !.stage = "exchange", !.call = c]
      PROVE  q = LoginRec("exchange", login.request, c)
  BY <1>1 DEF Login, LoginRec
<1>2. ASSUME NEW q, q = [login EXCEPT !.stage = "persist", !.call = NoOne]
      PROVE  q = LoginRec("persist", login.request, NoOne)
  BY <1>2 DEF Login, LoginRec
<1>3. /\ login.stage \in {"none", "browser", "exchange", "persist"}
      /\ login.request \in 0 .. MaxRequests /\ login.call \in Calls \cup {NoOne}
  BY DEF Login
<1> QED BY <1>1, <1>2, <1>3

LEMMA NoLoginFields ==
  /\ NoLogin = LoginRec("none", 0, NoOne)
  /\ \A r : [NoLogin EXCEPT !.stage = "browser", !.request = r] = LoginRec("browser", r, NoOne)
<1>1. ASSUME NEW q, NEW r, q = [NoLogin EXCEPT !.stage = "browser", !.request = r]
      PROVE  q = LoginRec("browser", r, NoOne)
  BY <1>1 DEF NoLogin, LoginRec
<1> QED BY <1>1 DEF NoLogin, LoginRec

\* The records the app sets fit.
LEMMA AppRecords ==
  ASSUME SafeInv
  PROVE  /\ NoFlight \in Flight /\ NoFlight.stage = "none"
         /\ [NoFlight EXCEPT !.stage = "clearing"] \in Flight
         /\ [flight EXCEPT !.current = FALSE] \in Flight
         /\ [flight EXCEPT !.stage = "persisting", !.call = NoOne] \in Flight
         /\ NoLogin \in Login /\ NoLogin.stage = "none"
<1>1. flight \in Flight /\ MaxSessions \in Nat /\ MaxRequests \in Nat /\ 0 \in Tokens
  BY AuthTypes DEF SafeInv, SessionTypeOK, Tokens
<1>2. NoLogin \in Login /\ NoLogin.stage = "none" BY <1>1 DEF NoLogin, Login
<1>3. /\ NoFlight \in Flight /\ NoFlight.stage = "none"
      /\ FlightRec("clearing", NoOne, 0, FALSE) \in Flight
  BY <1>1 DEF NoFlight, Flight, FlightRec
<1>4. /\ FlightRec(flight.stage, flight.call, flight.token, FALSE) \in Flight
      /\ FlightRec("persisting", NoOne, flight.token, flight.current) \in Flight
  BY <1>1 DEF Flight, FlightRec
<1>5. [NoFlight EXCEPT !.stage = "clearing"] \in Flight BY <1>3, NoFlightFields, Zenon
<1>6. [flight EXCEPT !.current = FALSE] \in Flight BY <1>1, <1>4, FlightFields, Zenon
<1>7. [flight EXCEPT !.stage = "persisting", !.call = NoOne] \in Flight
  BY <1>1, <1>4, FlightFields, Zenon
<1> QED BY <1>2, <1>3, <1>5, <1>6, <1>7, Zenon

\* What a step of the app has to keep, when the server's rows stay.
LEMMA AppStep ==
  ASSUME SafeInv, AuthInv', UNCHANGED <<request, session>>,
         mem' \in {0} \cup DOMAIN session, disk' \in {0} \cup DOMAIN session,
         Existing(queue', DOMAIN session), flight' \in Flight, ui' \in UiStates, login' \in Login,
         login'.stage # "none" => login'.request \in DOMAIN request,
         leaving' \in Calls \cup {NoOne}, torn' \in BOOLEAN
  PROVE  SafeInv'
<1>1. DOMAIN session \subseteq 1 .. MaxSessions /\ MaxSessions \in Nat
  BY AuthTypes DEF SafeInv, AuthInv, AuthTypeOK
<1>2. mem' \in Tokens /\ disk' \in Tokens BY <1>1 DEF Tokens
<1> QED BY <1>2 DEF SafeInv, SessionTypeOK, HandsInv, UiStates, Existing, AuthInv

\* The types of what the app holds.
LEMMA AppTypes ==
  ASSUME SafeInv
  PROVE  /\ AuthInv /\ AuthTypeOK
         /\ mem \in {0} \cup DOMAIN session /\ disk \in {0} \cup DOMAIN session
         /\ Existing(queue, DOMAIN session) /\ queue \in Seq(Operation)
         /\ flight \in Flight /\ ui \in UiStates /\ login \in Login
         /\ login.stage # "none" => login.request \in DOMAIN request
         /\ leaving \in Calls \cup {NoOne} /\ torn \in BOOLEAN
BY DEF SafeInv, AuthInv, SessionTypeOK, HandsInv, UiStates

\* Clearing the local session, by a refresh or by the provider.
LEMMA ClearsHold ==
  ASSUME SafeInv, NEW q, Existing(q, DOMAIN session), RefreshClears(q) \/ ClearLocalSession(q)
  PROVE  /\ mem' = 0 /\ Existing(queue', DOMAIN session) /\ flight' \in Flight
         /\ ClearLocalSession(q) => ui' \in UiStates
<1>1. CASE RefreshClears(q)
  BY <1>1, AppTypes, AppRecords, ClearHolds DEF RefreshClears, ClearLocalSession, UiStates
<1>2. CASE ClearLocalSession(q)
  BY <1>2, AppTypes, AppRecords, ClearHolds DEF ClearLocalSession, UiStates
<1> QED BY <1>1, <1>2

\* A write that was rejected or superseded.
LEMMA WriteEnds ==
  ASSUME SafeInv, queue # <<>>, WriteRejected \/ WriteSuperseded
  PROVE  /\ mem' \in {0} \cup DOMAIN session /\ Existing(queue', DOMAIN session)
         /\ flight' \in Flight /\ ui' \in UiStates /\ login' \in Login
         /\ login'.stage # "none" => login'.request \in DOMAIN request
<1>1. Existing(Tail(queue), DOMAIN session) BY AppTypes, ExistingTail
<1>2. CASE RefreshClears(Tail(queue)) /\ UNCHANGED <<ui, login>>
  BY <1>1, <1>2, AppTypes, ClearsHold
<1>3. CASE ClearLocalSession(Tail(queue)) /\ login' = NoLogin
  BY <1>1, <1>3, AppTypes, AppRecords, ClearsHold
<1>4. CASE queue' = Tail(queue) /\ flight' = NoFlight /\ UNCHANGED <<mem, ui, login>>
  BY <1>1, <1>4, AppTypes, AppRecords
<1> QED BY <1>2, <1>3, <1>4 DEF WriteRejected, WriteSuperseded

\* The server only adds sessions and never a request.
LEMMA AuthStepGrows ==
  ASSUME AuthInv, AuthStep
  PROVE  DOMAIN session \subseteq DOMAIN session' /\ DOMAIN request' = DOMAIN request
<1>1. AuthTypeOK /\ CallsInv BY DEF AuthInv
<1>2. DOMAIN request' = DOMAIN request
  BY DEF AuthStep, ReadPending, ApproveTx, CancelTx, ExchangeRead, LockUser, CountDevices,
         ClaimCode, RefreshRead, RefreshReread, Consume, CommitRotation, CommitUnknown,
         RevokeStart, RevokeApply, ServerFails, ChangeAccount
<1>3. ASSUME NEW c \in Calls, At(c, "claim"), Len(session) < MaxSessions, ClaimedRows(c)
      PROVE  DOMAIN session \subseteq DOMAIN session'
  BY <1>3, ClaimedFacts
<1>4. ASSUME NEW c \in Calls, At(c, "commit"), Len(session) < MaxSessions, Rotated(call[c].arg)
      PROVE  DOMAIN session \subseteq DOMAIN session'
  <2>1. call[c].arg \in DOMAIN session BY <1>1, <1>4 DEF CallsInv, CallOK, At, Refreshing
  <2> QED BY <1>1, <1>4, <2>1, RotatedFacts
<1>5. ASSUME NEW c \in Calls, RevokeApply(c) PROVE DOMAIN session \subseteq DOMAIN session'
  BY <1>1, <1>5, RevokedFacts
<1>6. CASE ChangeAccount BY <1>6 DEF ChangeAccount
<1> QED BY <1>2, <1>3, <1>4, <1>5, <1>6, AuthStepRows DEF RowsChange

\* Steps of the server, and of the browser.
LEMMA ServerSafe ==
  ASSUME SafeInv, ServerStep
  PROVE  SafeInv'
<1>1. AuthInv' BY AppTypes, AuthStepKeeps DEF ServerStep
<1>2. DOMAIN session \subseteq DOMAIN session' /\ DOMAIN request' = DOMAIN request
  BY AppTypes, AuthStepGrows DEF ServerStep
<1>3. UNCHANGED <<mem, disk, flight, queue, ui, login, leaving>> /\ torn' \in BOOLEAN
  BY AppTypes DEF ServerStep
<1>4. HandsInv' BY <1>2, <1>3 DEF SafeInv, HandsInv, Existing
<1>5. SessionTypeOK' BY <1>1, <1>3 DEF SafeInv, SessionTypeOK, AuthInv
<1> QED BY <1>1, <1>4, <1>5 DEF SafeInv

LEMMA SignInSafe ==
  ASSUME SafeInv, SignIn
  PROVE  SafeInv'
<1>1. AuthInv' BY AppTypes, CreateKeeps DEF SignIn
<1> DEFINE e == [status |-> "pending", version |-> version, used |-> FALSE]
<1>2. request \in Seq(Request) /\ e \in Request BY AppTypes, AuthTypes DEF Request, AuthTypeOK
<1>3. request' = Append(request, e) /\ Len(request) < MaxRequests BY DEF SignIn, CreateRequest
<1> HIDE DEF e
<1>4. DOMAIN request' = DOMAIN request \cup {Len(request) + 1} /\ Len(request) + 1 \in 1 .. MaxRequests
  BY <1>2, <1>3, AppTypes, AuthTypes, AppendRow
<1>5. login' = LoginRec("browser", Len(request) + 1, NoOne)
  BY NoLoginFields, Zenon DEF SignIn
<1>6. login' \in Login /\ login'.request \in DOMAIN request'
  BY <1>4, <1>5 DEF LoginRec, Login
<1>7. UNCHANGED <<session, mem, disk, flight, queue, ui, leaving, torn>> BY DEF SignIn
<1>8. HandsInv' BY <1>4, <1>6, <1>7 DEF SafeInv, HandsInv, Existing
<1>9. SessionTypeOK' BY <1>1, <1>6, <1>7 DEF SafeInv, SessionTypeOK, AuthInv
<1> QED BY <1>1, <1>8, <1>9 DEF SafeInv

\* Steps of the app that make a call, and lost answers.
LEMMA CallSafe ==
  ASSUME SafeInv, NEW c \in Calls,
         \/ StartRefresh(c) \/ ExchangeCode(c) \/ SignOut(c) \/ AnswerLost(c)
         \/ \E decision \in {"approve", "cancel"} : BrowserSubmits(c, decision)
         \/ \E f \in {0} \cup DOMAIN device : RevokeFromWeb(c, f)
  PROVE  SafeInv'
<1>1. CASE StartRefresh(c)
  <2>1. mem \in DOMAIN session BY <1>1, AppTypes DEF StartRefresh
  <2>2. AuthInv' BY <1>1, <2>1, AppTypes, PlaceKeeps DEF StartRefresh
  <2>3. flight' \in Flight
    <3>1. mem \in Tokens BY DEF SafeInv, SessionTypeOK
    <3> QED BY <1>1, <3>1 DEF StartRefresh, Flight
  <2> QED BY <1>1, <2>2, <2>3, AppTypes, AppStep DEF StartRefresh
<1>2. CASE ExchangeCode(c)
  <2>1. login.request \in DOMAIN request BY <1>2, AppTypes DEF ExchangeCode
  <2>2. AuthInv' BY <1>2, <2>1, AppTypes, PlaceKeeps DEF ExchangeCode
  <2>3. login' = LoginRec("exchange", login.request, c)
    BY <1>2, AppTypes, LoginFields, Zenon DEF ExchangeCode
  <2>4. login' \in Login /\ login'.request = login.request
    BY <2>3, AppTypes, LoginFields DEF LoginRec, Login
  <2> QED BY <1>2, <2>1, <2>2, <2>4, AppTypes, AppStep DEF ExchangeCode
<1>3. CASE SignOut(c)
  <2>1. mem \in DOMAIN session /\ session[mem].family \in DOMAIN device
    BY <1>3, AppTypes DEF SignOut, AuthInv, RowsInv
  <2>2. AuthInv' BY <1>3, <2>1, AppTypes, PlaceKeeps DEF SignOut
  <2> QED BY <1>3, <2>2, AppTypes, AppStep DEF SignOut
<1>4. CASE AnswerLost(c)
  <2>1. AuthInv' BY <1>4, AppTypes, DropKeeps DEF AnswerLost, Received
  <2> QED BY <1>4, <2>1, AppTypes, AppStep DEF AnswerLost, Received, clientVars
<1>5. ASSUME NEW decision \in {"approve", "cancel"}, BrowserSubmits(c, decision) PROVE SafeInv'
  <2>1. login.request \in DOMAIN request BY <1>5, AppTypes DEF BrowserSubmits
  <2>2. AuthInv' BY <1>5, <2>1, AppTypes, PlaceKeeps DEF BrowserSubmits
  <2> QED BY <1>5, <2>2, AppTypes, AppStep DEF BrowserSubmits, clientVars
<1>6. ASSUME NEW f \in {0} \cup DOMAIN device, RevokeFromWeb(c, f) PROVE SafeInv'
  <2>1. AuthInv' BY <1>6, AppTypes, PlaceKeeps DEF RevokeFromWeb
  <2> QED BY <1>6, <2>1, AppTypes, AppStep DEF RevokeFromWeb, clientVars
<1> QED BY <1>1, <1>2, <1>3, <1>4, <1>5, <1>6

\* Steps of a refresh.
LEMMA RefreshSafe ==
  ASSUME SafeInv, RefreshOk \/ RefreshRetryable \/ RefreshUnreadable \/ RefreshFails
  PROVE  SafeInv'
<1>1. CASE RefreshOk
  <2> DEFINE c == flight.call
             e == WriteOp(call[c].token, flight.token, flight.current, "refresh")
  <2>1. c \in Calls /\ At(c, "answered") BY <1>1, AppTypes, FlightFields DEF RefreshOk, Received
  <2>2. call[c].token \in {0} \cup DOMAIN session
    BY <2>1, AppTypes DEF AuthInv, CallsInv, CallOK, At
  <2>3. e \in Operation /\ e.token \in {0} \cup DOMAIN session
    <3>1. flight.token \in Tokens /\ flight.current \in BOOLEAN BY AppTypes DEF Flight
    <3> QED BY <2>2, <3>1, AppTypes, Operations
  <2>4. queue' = Append(queue, e) BY <1>1 DEF RefreshOk
  <2> HIDE DEF e
  <2>5. Existing(queue', DOMAIN session) BY <2>3, <2>4, AppTypes, ExistingAppend
  <2>6. AuthInv' BY <1>1, AppTypes, DropKeeps DEF RefreshOk, Received
  <2>7. flight' \in Flight BY <1>1, AppRecords, Zenon DEF RefreshOk
  <2> QED BY <1>1, <2>5, <2>6, <2>7, AppTypes, AppStep DEF RefreshOk, Received
<1>2. CASE RefreshRetryable
  <2>1. AuthInv' BY <1>2, AppTypes, DropKeeps DEF RefreshRetryable, Received
  <2> QED BY <1>2, <2>1, AppTypes, AppRecords, AppStep DEF RefreshRetryable, Received
<1>3. CASE RefreshUnreadable
  <2>1. AuthInv' BY <1>3, AppTypes, DropKeeps DEF RefreshUnreadable
  <2> QED BY <1>3, <2>1, AppTypes, AppRecords, AppStep DEF RefreshUnreadable
<1>4. CASE RefreshFails
  <2>1. AuthInv' /\ UNCHANGED <<request, session>>
    BY <1>4, AppTypes, DropKeeps, NothingMoves DEF RefreshFails, Received, NetworkFails
  <2>2. mem' = 0 /\ Existing(queue', DOMAIN session) /\ flight' \in Flight
    BY <1>4, AppTypes, ClearsHold DEF RefreshFails
  <2> QED BY <1>4, <2>1, <2>2, AppTypes, AppStep DEF RefreshFails
<1> QED BY <1>1, <1>2, <1>3, <1>4

\* Steps of the storage queue.
LEMMA StorageSafe ==
  ASSUME SafeInv, WriteRuns \/ Publish \/ ClearOk \/ ClearFails
  PROVE  SafeInv'
<1>1. queue # <<>> BY DEF WriteRuns, Publish, ClearOk, ClearFails, Running
<1>2. /\ Existing(Tail(queue), DOMAIN session)
      /\ Head(queue).token \in {0} \cup DOMAIN session
  BY <1>1, AppTypes, ExistingTail
<1>3. AuthInv' /\ UNCHANGED <<request, session>>
  BY AppTypes, NothingMoves DEF WriteRuns, Publish, LoginStored, ClearOk, ClearFails, ClearEnds
<1>4. CASE WriteRuns
  <2>1. CASE (WriteRejected \/ WriteSuperseded) /\ UNCHANGED disk
    BY <1>1, <1>3, <1>4, <2>1, AppTypes, WriteEnds, AppStep DEF WriteRuns
  <2>2. CASE /\ disk' = Head(queue).token
             /\ queue' = [queue EXCEPT ![1].written = TRUE]
             /\ UNCHANGED <<mem, flight, ui, login, events>>
    <3>1. PICK p : p = queue' OBVIOUS
    <3>2. Marked(queue, p) BY <2>2, <3>1 DEF Marked
    <3>3. Existing(queue', DOMAIN session) BY <1>1, <3>1, <3>2, AppTypes, ExistingWritten
    <3> QED BY <1>2, <1>3, <1>4, <2>2, <3>3, AppTypes, AppStep DEF WriteRuns
  <2> QED BY <1>4, <2>1, <2>2 DEF WriteRuns
<1>5. CASE Publish
  <2>0. UNCHANGED <<disk, leaving, torn>> BY <1>5 DEF Publish
  <2>1. CASE WriteSuperseded
    BY <1>1, <1>3, <2>0, <2>1, AppTypes, WriteEnds, AppStep
  <2>2. CASE LoginStored
    <3>1. CASE ui' = "signed-in" /\ login' = NoLogin /\ mem' = Head(queue).token
               /\ queue' = Tail(queue) /\ UNCHANGED <<flight, events>>
      BY <1>2, <1>3, <2>0, <3>1, AppTypes, AppRecords, AppStep DEF UiStates
    <3>2. CASE ClearLocalSession(Tail(queue)) /\ login' = NoLogin
      BY <1>2, <1>3, <2>0, <3>2, AppTypes, AppRecords, ClearsHold, AppStep
    <3> QED BY <2>2, <3>1, <3>2 DEF LoginStored
  <2>3. CASE mem' = Head(queue).token /\ queue' = Tail(queue) /\ flight' = NoFlight
             /\ UNCHANGED <<ui, login, events>>
    BY <1>2, <1>3, <2>0, <2>3, AppTypes, AppRecords, AppStep
  <2> QED BY <1>5, <2>1, <2>2, <2>3 DEF Publish
<1>6. ASSUME NEW outcome \in UiStates, ClearEnds(outcome), disk' \in {0, disk}, torn' \in BOOLEAN
      PROVE  SafeInv'
  <2>1. flight' \in Flight /\ ui' \in UiStates BY <1>6, AppTypes, AppRecords DEF ClearEnds
  <2> QED BY <1>2, <1>3, <1>6, <2>1, AppTypes, AppStep DEF ClearEnds
<1>7. CASE ClearOk BY <1>6, <1>7, AppTypes DEF ClearOk, UiStates
<1>8. CASE ClearFails BY <1>6, <1>8, AppTypes DEF ClearFails, UiStates
<1> QED BY <1>4, <1>5, <1>7, <1>8

\* Steps of the provider.
LEMMA ProviderSafe ==
  ASSUME SafeInv, \/ LoginTokens \/ LoginFails \/ SignOutLocally \/ SyncFails \/ RetryCleanup \/ Restart
  PROVE  SafeInv'
<1>1. CASE LoginTokens
  <2> DEFINE c == login.call
             e == WriteOp(call[c].token, 0, TRUE, "login")
  <2>1. c \in Calls /\ At(c, "answered") BY <1>1, AppTypes, LoginFields DEF LoginTokens, Received
  <2>2. call[c].token \in {0} \cup DOMAIN session /\ 0 \in Tokens
    BY <2>1, AppTypes, AuthTypes DEF AuthInv, CallsInv, CallOK, At, Tokens
  <2>3. e \in Operation /\ e.token \in {0} \cup DOMAIN session BY <2>2, AppTypes, Operations
  <2>4. queue' = Append(Outdated(queue), e) BY <1>1 DEF LoginTokens
  <2> HIDE DEF e
  <2>5. Existing(queue', DOMAIN session)
    BY <2>3, <2>4, AppTypes, ExistingOutdated, ExistingAppend
  <2>6. AuthInv' BY <1>1, AppTypes, DropKeeps DEF LoginTokens, Received
  <2>7. flight' \in Flight BY <1>1, AppRecords DEF LoginTokens
  <2>8. login' = LoginRec("persist", login.request, NoOne)
    BY <1>1, AppTypes, LoginFields, Zenon DEF LoginTokens
  <2>9. login' \in Login /\ login'.request \in DOMAIN request
    BY <1>1, <2>8, AppTypes, LoginFields DEF LoginRec, Login, LoginTokens
  <2> QED BY <1>1, <2>5, <2>6, <2>7, <2>9, AppTypes, AppStep DEF LoginTokens, Received
<1>2. CASE LoginFails
  <2>1. AuthInv' /\ UNCHANGED <<request, session>>
    BY <1>2, AppTypes, DropKeeps, NothingMoves DEF LoginFails, Received, NetworkFails, authVars
  <2> QED BY <1>2, <2>1, AppTypes, AppRecords, AppStep DEF LoginFails
<1>3. CASE SignOutLocally
  <2>1. AuthInv' /\ UNCHANGED <<request, session>>
    BY <1>3, AppTypes, DropKeeps, NothingMoves DEF SignOutLocally, Received, NetworkFails
  <2> QED BY <1>3, <2>1, AppTypes, ClearsHold, AppStep DEF SignOutLocally
<1>4. CASE SyncFails \/ RetryCleanup
  <2>1. AuthInv' /\ UNCHANGED <<request, session>>
    BY <1>4, AppTypes, NothingMoves DEF SyncFails, RetryCleanup, authVars
  <2> QED BY <1>4, <2>1, AppTypes, ClearsHold, AppStep DEF SyncFails, RetryCleanup
<1>5. CASE Restart
  <2>1. AuthInv' BY <1>5, AppTypes, NothingMoves DEF Restart
  <2>2. Existing(queue', DOMAIN session)
    <3>1. Existing(<<>>, DOMAIN session)
      BY EmptySeq DEF Existing
    <3>2. Existing(<<ClearOp("cleanup")>>, DOMAIN session)
      <4>1. ClearOp("cleanup") \in Operation /\ ClearOp("cleanup").token = 0
        BY AppTypes, Operations
      <4>2. <<ClearOp("cleanup")>> = Append(<<>>, ClearOp("cleanup")) OBVIOUS
      <4> QED BY <3>1, <4>1, <4>2, ExistingAppend
    <3> QED BY <1>5, <3>1, <3>2 DEF Restart
  <2>3. torn' \in BOOLEAN BY <1>5 DEF Restart
  <2> QED BY <1>5, <2>1, <2>2, <2>3, AppTypes, AppRecords, AppStep DEF Restart, UiStates
<1> QED BY <1>1, <1>2, <1>3, <1>4, <1>5

LEMMA InitSafe == Init => SafeInv
<1> SUFFICES ASSUME Init PROVE SafeInv OBVIOUS
<1>1. \A S : <<>> \in Seq(S) /\ Len(<<>>) = 0 BY EmptySeq
<1>2. DOMAIN request = {} /\ DOMAIN device = {} /\ DOMAIN session = {} /\ DOMAIN queue = {}
  BY DEF Init, AuthInit
<1>3. AuthTypeOK
  <2>1. [c \in Calls |-> NoCall] \in [Calls -> Call] BY NoCallFields
  <2> QED BY <1>1, <2>1, AuthAssumption DEF Init, AuthInit, AuthTypeOK
<1>4. RowsInv BY <1>1, <1>2 DEF RowsInv, Init, AuthInit
<1>5. \A c \in Calls : call[c].pc = "idle" BY NoCallFields DEF Init, AuthInit, NoCall
<1>6. CallsInv /\ Exclusive
  BY <1>5 DEF CallsInv, CallOK, Exclusive, RequestStages, Locking, Refreshing, Revoking
<1>7. ActiveDevices = {} BY <1>2 DEF ActiveDevices
<1>8. Cardinality(ActiveDevices) <= MaxDevices
  BY <1>7, FS_EmptySet, AuthAssumption
<1>9. NoFlight \in Flight /\ NoLogin \in Login /\ NoLogin.stage = "none" /\ 0 \in Tokens
  BY AuthAssumption DEF NoFlight, Flight, NoLogin, Login, Tokens
<1>10. SessionTypeOK BY <1>1, <1>3, <1>9 DEF Init, SessionTypeOK
<1>11. HandsInv BY <1>1, <1>2, <1>9 DEF Init, HandsInv, Existing
<1> QED BY <1>3, <1>4, <1>6, <1>8, <1>10, <1>11 DEF SafeInv, AuthInv

LEMMA NextSafe == SafeInv /\ [Next]_vars => SafeInv'
<1> SUFFICES ASSUME SafeInv, [Next]_vars PROVE SafeInv' OBVIOUS
<1>1. CASE UNCHANGED vars
  <2>1. AuthInv' BY <1>1, AppTypes, NothingMoves DEF vars
  <2> QED BY <1>1, <2>1, AppTypes, AppStep DEF vars
<1> QED BY <1>1, ServerSafe, SignInSafe, CallSafe, RefreshSafe, StorageSafe, ProviderSafe DEF Next

LEMMA SafeInvariant == Spec => []SafeInv
BY InitSafe, NextSafe, PTL DEF Spec

\* The types of the server's rows and of the app's state.
THEOREM SessionTypes == Spec => []SessionTypeOK
<1>1. SafeInv => SessionTypeOK BY DEF SafeInv
<1> QED BY <1>1, SafeInvariant, PTL

\* However exchanges, approvals and revocations interleave, an account has at
\* most MaxDevices active devices, and an authorization at most one device.
THEOREM SessionDeviceLimit == Spec => []DeviceLimit
<1>1. SafeInv => DeviceLimit BY DEF SafeInv, AuthInv, RowsInv, DeviceLimit
<1> QED BY <1>1, SafeInvariant, PTL

\* The server implements TokenFamily: each device has at most one accepted
\* token, which only moves on to a later one, and none once it has ended.
THEOREM SessionImplementsTokenFamily == Spec => ImplementsTokenFamily
<1>1. Init => Family!FamilyInit
  <2> SUFFICES ASSUME Init PROVE Family!FamilyInit OBVIOUS
  <2>1. DOMAIN device = {} /\ DOMAIN session = {} BY DEF Init, AuthInit
  <2>2. Ended = {} /\ \A f : AcceptedOf(f) = {} BY <2>1 DEF Ended, AcceptedOf
  <2> QED BY <2>2 DEF Family!FamilyInit
<1>2. SafeInv /\ [Next]_vars => [Family!FamilyNext]_(Family!familyVars)
  <2> SUFFICES ASSUME SafeInv, [Next]_vars
               PROVE  Family!FamilyNext \/ UNCHANGED Family!familyVars
    OBVIOUS
  <2>1. RowsChange
    <3>1. CASE ServerStep BY <3>1, AuthStepRows DEF ServerStep
    <3>2. CASE UNCHANGED vars BY <3>2 DEF vars, RowsChange
    <3>3. CASE Next /\ ~ServerStep
      BY <3>3 DEF Next, RowsChange, StartRefresh, ExchangeCode, SignOut, AnswerLost, BrowserSubmits,
                  RevokeFromWeb, RefreshOk, RefreshRetryable, RefreshUnreadable, RefreshFails,
                  WriteRuns, Publish, ClearOk, ClearFails, ClearEnds, SignIn, LoginTokens, LoginFails,
                  SignOutLocally, SyncFails, RetryCleanup, Restart, Received, NetworkFails, authVars
    <3> QED BY <3>1, <3>2, <3>3
  <2> QED BY <2>1, RowsChangeRefines DEF SafeInv
<1> QED BY <1>1, <1>2, SafeInvariant, PTL DEF Spec, ImplementsTokenFamily, Family!FamilySpec

-----------------------------------------------------------------------------
(* The disk and the memory of the app                                        *)

Ops == DOMAIN queue

\* A storage operation belongs to who waits for it: a refresh fl that persists
\* to a write of its token, one that clears to a deletion, and a sign-in lg
\* that persists to its write.
OpOK(op, fl, lg) ==
  /\ op.kind = "write" => op.by \in {"refresh", "login"}
  /\ op.kind = "clear" => op.by \in {"refresh", "cleanup"} /\ ~op.current /\ ~op.written
  /\ op.by = "refresh" /\ op.kind = "write" =>
       fl.stage = "persisting" /\ op.expect = fl.token /\ op.current = fl.current
  /\ op.by = "refresh" /\ op.kind = "clear" => fl.stage = "clearing"
  /\ op.by = "login" => lg.stage = "persist" /\ op.expect = 0

\* Each operation has an owner of its own; only the one that runs may have been
\* stored.
OwnersInv ==
  /\ \A i \in Ops : OpOK(queue[i], flight, login) /\ (queue[i].written => i = 1)
  /\ \A i, j \in Ops : queue[i].by = queue[j].by /\ queue[i].by # "cleanup" => i = j
  /\ flight.stage \in {"none", "clearing"} => flight.token = 0 /\ ~flight.current

\* Memory holds a bundle only when signed in, and nothing that is pending then
\* clears it; a refresh that is current refreshes the bundle in memory.
MemoryInv ==
  /\ mem # 0 => ui = "signed-in"
  /\ ui = "signed-in" => login = NoLogin
  /\ flight.current => mem # 0 /\ mem = flight.token
  /\ \A i \in Ops : queue[i].kind = "clear" =>
       /\ mem = 0
       /\ queue[i].by = "cleanup" => ui # "signed-in"
       /\ \A j \in Ops : j < i => ~queue[j].current
  /\ ui = "signing-out" => \E i \in Ops : queue[i].kind = "clear" /\ queue[i].by = "cleanup"

\* A stored write is on the disk.  The disk holds what is in memory but for a
\* stored write that is about to be published, and a superseded one is stored
\* only when memory is clear; a clean sign-out leaves what a sign-in stored.
DiskInv ==
  /\ \A i \in Ops : queue[i].written =>
       /\ disk = queue[i].token
       /\ ~queue[i].current => mem = 0
  /\ mem # 0 /\ disk # mem => \E i \in Ops : queue[i].written
  /\ ui = "signed-out-clean" /\ disk # 0 => \E i \in Ops : queue[i].written /\ queue[i].by = "login"

AppInv == OwnersInv /\ MemoryInv /\ DiskInv

\* The operations q are those of the queue from the one after k on.
Rest(q, k) ==
  /\ q \in Seq(Operation)
  /\ \A i \in DOMAIN q : i + k \in Ops /\ q[i] = queue[i + k]
  /\ \A i \in Ops : i > k => i - k \in DOMAIN q /\ q[i - k] = queue[i]

LEMMA RestOfQueue ==
  ASSUME queue \in Seq(Operation)
  PROVE  /\ Rest(queue, 0)
         /\ queue # <<>> => Rest(Tail(queue), 1) /\ 1 \in Ops /\ Head(queue) = queue[1]
         /\ Ops = 1 .. Len(queue) /\ Len(queue) \in Nat
         /\ \A i \in Ops : i \in Nat /\ queue[i] \in Operation
<1>1. /\ Ops = 1 .. Len(queue) /\ Len(queue) \in Nat
      /\ \A i \in Ops : i \in Nat /\ queue[i] \in Operation
  BY RowOf DEF Ops
<1>2. ASSUME queue # <<>>
      PROVE  Rest(Tail(queue), 1) /\ 1 \in Ops /\ Head(queue) = queue[1]
  <2>1. /\ Tail(queue) \in Seq(Operation) /\ Len(Tail(queue)) = Len(queue) - 1
        /\ \A i \in 1 .. Len(Tail(queue)) : Tail(queue)[i] = queue[i + 1]
        /\ Head(queue) = queue[1]
    BY <1>2, HeadTailProperties
  <2>2. Len(queue) \in Nat \ {0} BY <1>2, EmptySeq
  <2>3. DOMAIN Tail(queue) = 1 .. Len(queue) - 1 BY <2>1, LenProperties
  <2>4. /\ \A i \in DOMAIN Tail(queue) : i + 1 \in Ops /\ Tail(queue)[i] = queue[i + 1]
        /\ 1 \in Ops
    BY <1>1, <2>1, <2>2, <2>3
  <2>5. ASSUME NEW i \in Ops, i > 1
        PROVE  i - 1 \in DOMAIN Tail(queue) /\ Tail(queue)[i - 1] = queue[i]
    <3>1. i - 1 \in DOMAIN Tail(queue) /\ (i - 1) + 1 = i BY <1>1, <2>3, <2>5
    <3> QED BY <2>4, <3>1
  <2> QED BY <2>1, <2>4, <2>5 DEF Rest
<1>3. Rest(queue, 0)
  <2>1. \A i \in Ops : i + 0 = i /\ i - 0 = i BY <1>1
  <2> QED BY <2>1 DEF Rest, Ops
<1> QED BY <1>1, <1>2, <1>3

\* What the operations q are when nothing of them is current any more.
LEMMA OutdatedQueue ==
  ASSUME NEW q \in Seq(Operation)
  PROVE  /\ Outdated(q) \in Seq(Operation) /\ DOMAIN Outdated(q) = DOMAIN q
         /\ Len(Outdated(q)) = Len(q)
         /\ \A i \in DOMAIN q :
              /\ Outdated(q)[i].kind = q[i].kind /\ Outdated(q)[i].token = q[i].token
              /\ Outdated(q)[i].expect = q[i].expect /\ Outdated(q)[i].written = q[i].written
              /\ Outdated(q)[i].by = q[i].by /\ Outdated(q)[i].current = FALSE
<1>1. PICK S : Existing(q, S)
  <2>1. \A i \in DOMAIN q : q[i] \in Operation BY RowOf
  <2>2. Existing(q, Tokens) BY <2>1 DEF Existing, Operation
  <2> QED BY <2>2
<1>2. /\ Outdated(q) \in Seq(Operation) /\ DOMAIN Outdated(q) = DOMAIN q
      /\ Len(Outdated(q)) = Len(q)
      /\ \A i \in DOMAIN q :
           /\ Outdated(q)[i].kind = q[i].kind /\ Outdated(q)[i].token = q[i].token
           /\ Outdated(q)[i].expect = q[i].expect /\ Outdated(q)[i].written = q[i].written
           /\ Outdated(q)[i].by = q[i].by /\ ~Outdated(q)[i].current
  BY <1>1, ExistingOutdated DEF Existing
<1>3. \A i \in DOMAIN q : Outdated(q)[i].current = FALSE
  <2>1. \A i \in DOMAIN q : Outdated(q)[i] \in Operation BY <1>2, RowOf
  <2>2. \A i \in DOMAIN q : Outdated(q)[i].current \in BOOLEAN BY <2>1 DEF Operation
  <2> QED BY <1>2, <2>2
<1> QED BY <1>2, <1>3

\* What the queue is when a deletion was added after q.
LEMMA ClearedQueue ==
  ASSUME NEW q \in Seq(Operation), NEW by \in {"refresh", "cleanup"}, Clear(q, by), AuthTypeOK
  PROVE  /\ mem' = 0 /\ queue' \in Seq(Operation)
         /\ DOMAIN q = 1 .. Len(q) /\ Len(q) \in Nat
         /\ Ops' = DOMAIN q \cup {Len(q) + 1}
         /\ \A i \in DOMAIN q :
              /\ queue'[i].kind = q[i].kind /\ queue'[i].token = q[i].token
              /\ queue'[i].expect = q[i].expect /\ queue'[i].written = q[i].written
              /\ queue'[i].by = q[i].by /\ ~queue'[i].current
         /\ queue'[Len(q) + 1].kind = "clear" /\ queue'[Len(q) + 1].by = by
         /\ ~queue'[Len(q) + 1].current /\ ~queue'[Len(q) + 1].written
         /\ queue'[Len(q) + 1].token = 0
<1>2. /\ Outdated(q) \in Seq(Operation) /\ DOMAIN Outdated(q) = DOMAIN q
      /\ Len(Outdated(q)) = Len(q)
      /\ \A i \in DOMAIN q :
           /\ Outdated(q)[i].kind = q[i].kind /\ Outdated(q)[i].token = q[i].token
           /\ Outdated(q)[i].expect = q[i].expect /\ Outdated(q)[i].written = q[i].written
           /\ Outdated(q)[i].by = q[i].by /\ ~Outdated(q)[i].current
  BY OutdatedQueue
<1> DEFINE e == ClearOp(by)
<1>3. e \in Operation BY Operations
<1>4. e.kind = "clear" /\ e.by = by /\ ~e.current /\ ~e.written /\ e.token = 0 BY DEF ClearOp
<1>5. queue' = Append(Outdated(q), e) /\ mem' = 0 BY DEF Clear
<1> HIDE DEF e
<1>6. /\ queue' \in Seq(Operation)
      /\ DOMAIN queue' = DOMAIN Outdated(q) \cup {Len(Outdated(q)) + 1}
      /\ \A i \in DOMAIN Outdated(q) : queue'[i] = Outdated(q)[i]
      /\ queue'[Len(Outdated(q)) + 1] = e
  BY <1>2, <1>3, <1>5, AppendRow
<1>7. DOMAIN q = 1 .. Len(q) /\ Len(q) \in Nat BY LenProperties
<1> QED BY <1>2, <1>4, <1>5, <1>6, <1>7 DEF Ops

\* The provider clears the session: memory is empty, and what is left of the
\* queue ends with a deletion.
LEMMA ProviderClears ==
  ASSUME SafeInv, AppInv, NEW q, NEW k \in {0, 1}, Rest(q, k), ClearLocalSession(q),
         disk' = disk,
         \/ login' = login
         \/ login' = NoLogin /\ \A i \in DOMAIN q : q[i].by # "login"
  PROVE  AppInv'
<1>1. /\ AuthTypeOK /\ queue \in Seq(Operation) /\ flight \in Flight BY AppTypes
<1>2. q \in Seq(Operation) /\ Clear(q, "cleanup") BY DEF Rest, ClearLocalSession
<1>3. /\ mem' = 0 /\ queue' \in Seq(Operation)
      /\ DOMAIN q = 1 .. Len(q) /\ Len(q) \in Nat
      /\ Ops' = DOMAIN q \cup {Len(q) + 1}
      /\ \A i \in DOMAIN q :
           /\ queue'[i].kind = q[i].kind /\ queue'[i].token = q[i].token
           /\ queue'[i].expect = q[i].expect /\ queue'[i].written = q[i].written
           /\ queue'[i].by = q[i].by /\ ~queue'[i].current
      /\ queue'[Len(q) + 1].kind = "clear" /\ queue'[Len(q) + 1].by = "cleanup"
      /\ ~queue'[Len(q) + 1].current /\ ~queue'[Len(q) + 1].written
  BY <1>1, <1>2, ClearedQueue
<1>4. /\ flight'.stage = flight.stage /\ flight'.token = flight.token /\ flight'.current = FALSE
      /\ ui' = "signing-out"
  BY <1>1 DEF ClearLocalSession, Flight
<1>5. \A i \in DOMAIN q : i + k \in Ops /\ q[i] = queue[i + k] /\ i \in Nat /\ i >= 1
  BY <1>3 DEF Rest
<1>6. OwnersInv'
  <2>1. ASSUME NEW i \in DOMAIN q
        PROVE  OpOK(queue'[i], flight', login') /\ (queue'[i].written => i = 1)
    <3>1. OpOK(q[i], flight, login) /\ (q[i].written => i + k = 1)
      BY <1>5 DEF AppInv, OwnersInv
    <3>2. q[i] \in Operation /\ queue'[i] \in Operation
      BY <1>2, <1>3, RowOf DEF Ops
    <3>3. queue'[i].current = FALSE /\ (q[i].written => i = 1)
      BY <1>3, <1>5, <3>1, <3>2 DEF Operation
    <3>4. login' = login \/ q[i].by # "login" OBVIOUS
    <3> QED BY <1>3, <1>4, <3>1, <3>3, <3>4 DEF OpOK
  <2>2. \A i, j \in DOMAIN q : queue'[i].by = queue'[j].by /\ queue'[i].by # "cleanup" => i = j
    BY <1>3, <1>5 DEF AppInv, OwnersInv
  <2>3. \A i, j \in Ops' : queue'[i].by = queue'[j].by /\ queue'[i].by # "cleanup" => i = j
    BY <1>3, <2>2
  <2>4. flight'.stage \in {"none", "clearing"} => flight'.token = 0 /\ ~flight'.current
    BY <1>4 DEF AppInv, OwnersInv
  <2>5. OpOK(queue'[Len(q) + 1], flight', login') /\ ~queue'[Len(q) + 1].written
    BY <1>3 DEF OpOK
  <2>6. \A i \in Ops' : OpOK(queue'[i], flight', login') /\ (queue'[i].written => i = 1)
    BY <1>3, <2>1, <2>5
  <2> QED BY <2>3, <2>4, <2>6 DEF OwnersInv
<1>7. MemoryInv'
  <2>1. \A i \in Ops' : ~queue'[i].current BY <1>3
  <2>2. Len(q) + 1 \in Ops' BY <1>3
  <2> QED BY <1>3, <1>4, <2>1, <2>2 DEF MemoryInv
<1>8. DiskInv'
  <2>1. \A i \in Ops' : queue'[i].written => disk' = queue'[i].token
    BY <1>3, <1>5 DEF AppInv, DiskInv
  <2> QED BY <1>3, <1>4, <2>1 DEF DiskInv
<1> QED BY <1>6, <1>7, <1>8 DEF AppInv

\* A refresh clears the session: the same, and the refresh waits for the disk.
LEMMA RefreshClearsKeeps ==
  ASSUME SafeInv, AppInv, NEW q, NEW k \in {0, 1}, Rest(q, k), RefreshClears(q),
         UNCHANGED <<disk, ui, login>>,
         \A i \in DOMAIN q : q[i].by # "refresh",
         k = 1 => queue[1].kind = "write" /\ \A i \in Ops : ~queue[i].written
  PROVE  AppInv'
<1>1. AuthTypeOK BY AppTypes
<1>2. q \in Seq(Operation) /\ Clear(q, "refresh") BY DEF Rest, RefreshClears
<1>3. /\ mem' = 0 /\ queue' \in Seq(Operation)
      /\ DOMAIN q = 1 .. Len(q) /\ Len(q) \in Nat
      /\ Ops' = DOMAIN q \cup {Len(q) + 1}
      /\ \A i \in DOMAIN q :
           /\ queue'[i].kind = q[i].kind /\ queue'[i].token = q[i].token
           /\ queue'[i].expect = q[i].expect /\ queue'[i].written = q[i].written
           /\ queue'[i].by = q[i].by /\ ~queue'[i].current
      /\ queue'[Len(q) + 1].kind = "clear" /\ queue'[Len(q) + 1].by = "refresh"
      /\ ~queue'[Len(q) + 1].current /\ ~queue'[Len(q) + 1].written
  BY <1>1, <1>2, ClearedQueue
<1>4. flight' = FlightRec("clearing", NoOne, 0, FALSE) BY NoFlightFields, Zenon DEF RefreshClears
<1>5. flight'.stage = "clearing" /\ flight'.token = 0 /\ flight'.current = FALSE
  BY <1>4 DEF FlightRec
<1>6. \A i \in DOMAIN q : i + k \in Ops /\ q[i] = queue[i + k] /\ i \in Nat /\ i >= 1
  BY <1>3 DEF Rest
<1>7. OwnersInv'
  <2>1. ASSUME NEW i \in DOMAIN q
        PROVE  OpOK(queue'[i], flight', login') /\ (queue'[i].written => i = 1)
    <3>1. OpOK(q[i], flight, login) /\ (q[i].written => i + k = 1)
      BY <1>6 DEF AppInv, OwnersInv
    <3>2. q[i].written => i = 1 BY <1>6, <3>1
    <3> QED BY <1>3, <3>1, <3>2 DEF OpOK
  <2>2. \A i, j \in DOMAIN q : queue'[i].by = queue'[j].by /\ queue'[i].by # "cleanup" => i = j
    BY <1>3, <1>6 DEF AppInv, OwnersInv
  <2>3. \A i, j \in Ops' : queue'[i].by = queue'[j].by /\ queue'[i].by # "cleanup" => i = j
    BY <1>3, <2>2
  <2>4. OpOK(queue'[Len(q) + 1], flight', login') /\ ~queue'[Len(q) + 1].written
    BY <1>3, <1>5 DEF OpOK
  <2>5. \A i \in Ops' : OpOK(queue'[i], flight', login') /\ (queue'[i].written => i = 1)
    BY <1>3, <2>1, <2>4
  <2> QED BY <1>5, <2>3, <2>5 DEF OwnersInv
<1>8. MemoryInv'
  <2>1. \A i \in Ops' : ~queue'[i].current BY <1>3
  <2>2. \A i \in Ops' : queue'[i].kind = "clear" /\ queue'[i].by = "cleanup" => ui # "signed-in"
    BY <1>3, <1>6 DEF AppInv, MemoryInv
  <2>3. ASSUME ui = "signing-out"
        PROVE  \E i \in Ops' : queue'[i].kind = "clear" /\ queue'[i].by = "cleanup"
    <3>1. PICK i \in Ops : queue[i].kind = "clear" /\ queue[i].by = "cleanup"
      BY <2>3 DEF AppInv, MemoryInv
    <3>2. i - k \in DOMAIN q /\ q[i - k] = queue[i]
      <4>1. i \in Nat /\ i >= 1 BY AppTypes, RestOfQueue
      <4>2. i > k BY <3>1, <4>1
      <4> QED BY <4>2 DEF Rest
    <3> QED BY <1>3, <3>1, <3>2
  <2>4. ui = "signed-in" => login = NoLogin BY DEF AppInv, MemoryInv
  <2> QED BY <1>3, <1>5, <2>1, <2>2, <2>3, <2>4 DEF MemoryInv
<1>9. DiskInv'
  <2>1. \A i \in Ops' : queue'[i].written => disk' = queue'[i].token
    BY <1>3, <1>6 DEF AppInv, DiskInv
  <2>2. ASSUME ui = "signed-out-clean", disk # 0
        PROVE  \E i \in Ops' : queue'[i].written /\ queue'[i].by = "login"
    <3>1. PICK i \in Ops : queue[i].written /\ queue[i].by = "login"
      BY <2>2 DEF AppInv, DiskInv
    <3>2. k = 0 BY <3>1
    <3>3. i \in DOMAIN q /\ q[i] = queue[i]
      <4>1. i \in Nat /\ i >= 1 BY AppTypes, RestOfQueue
      <4>2. i > k /\ i - k = i BY <3>2, <4>1
      <4> QED BY <4>2 DEF Rest
    <3> QED BY <1>3, <3>1, <3>3
  <2> QED BY <1>3, <2>1, <2>2 DEF DiskInv
<1> QED BY <1>7, <1>8, <1>9 DEF AppInv

\* The operation that ran leaves the queue, and its owner with it.
LEMMA PopOwners ==
  ASSUME SafeInv, AppInv, queue # <<>>, queue' = Tail(queue),
         flight' = IF queue[1].by = "refresh" THEN NoFlight ELSE flight,
         login' = IF queue[1].by = "login" THEN NoLogin ELSE login
  PROVE  /\ OwnersInv'
         /\ \A i \in Ops' : i + 1 \in Ops /\ queue'[i] = queue[i + 1] /\ ~queue'[i].written
         /\ \A i \in Ops : i # 1 => i - 1 \in Ops' /\ queue'[i - 1] = queue[i]
         /\ \A i \in Ops' : queue'[i].kind = "clear" =>
              /\ mem = 0 /\ ~queue[1].current
              /\ queue'[i].by = "cleanup" => ui # "signed-in"
              /\ \A j \in Ops' : j < i => ~queue'[j].current
<1>1. queue \in Seq(Operation) BY AppTypes
<1>2. /\ Rest(Tail(queue), 1) /\ 1 \in Ops
      /\ \A i \in Ops : i \in Nat /\ i >= 1
  BY <1>1, RestOfQueue
<1>3. Ops' = DOMAIN Tail(queue) /\ \A i \in Ops' : i \in Nat /\ i >= 1
  BY <1>2, RowOf DEF Ops, Rest
<1>4. \A i \in Ops' : i + 1 \in Ops /\ queue'[i] = queue[i + 1] /\ i + 1 # 1
  BY <1>2, <1>3 DEF Rest
<1>5. \A i \in Ops : i # 1 => i - 1 \in Ops' /\ queue'[i - 1] = queue[i]
  BY <1>2, <1>3 DEF Rest
<1>6. \A i \in Ops' : ~queue'[i].written BY <1>4 DEF AppInv, OwnersInv
<1>7. ASSUME NEW i \in Ops' PROVE OpOK(queue'[i], flight', login')
  <2>1. OpOK(queue[i + 1], flight, login) BY <1>4 DEF AppInv, OwnersInv
  <2>2. queue[i + 1].by = queue[1].by => queue[i + 1].by = "cleanup"
    BY <1>2, <1>4 DEF AppInv, OwnersInv
  <2>3. queue[i + 1].by = "refresh" => flight' = flight BY <2>2
  <2>4. queue[i + 1].by = "login" => login' = login BY <2>2
  <2> QED BY <1>4, <2>1, <2>3, <2>4 DEF OpOK
<1>8. \A i, j \in Ops' : queue'[i].by = queue'[j].by /\ queue'[i].by # "cleanup" => i = j
  <2>1. \A i, j \in Ops' : queue'[i].by = queue'[j].by /\ queue'[i].by # "cleanup" => i + 1 = j + 1
    BY <1>4 DEF AppInv, OwnersInv
  <2> QED BY <1>3, <2>1
<1>9. NoFlight.token = 0 /\ ~NoFlight.current BY NoFlightFields DEF FlightRec
<1>10. flight'.stage \in {"none", "clearing"} => flight'.token = 0 /\ ~flight'.current
  BY <1>9 DEF AppInv, OwnersInv
<1>11. ASSUME NEW i \in Ops', queue'[i].kind = "clear"
       PROVE  /\ mem = 0 /\ ~queue[1].current
              /\ queue'[i].by = "cleanup" => ui # "signed-in"
              /\ \A j \in Ops' : j < i => ~queue'[j].current
  <2>1. /\ i + 1 \in Ops /\ queue[i + 1].kind = "clear" /\ queue'[i] = queue[i + 1]
        /\ 1 \in Ops /\ 1 < i + 1
    BY <1>2, <1>3, <1>4, <1>11
  <2>2. /\ mem = 0 /\ (queue[i + 1].by = "cleanup" => ui # "signed-in")
        /\ \A j \in Ops : j < i + 1 => ~queue[j].current
    BY <2>1 DEF AppInv, MemoryInv
  <2>3. \A j \in Ops' : j < i => j + 1 \in Ops /\ j + 1 < i + 1 /\ queue'[j] = queue[j + 1]
    BY <1>3, <1>4
  <2> QED BY <2>1, <2>2, <2>3
<1> QED BY <1>4, <1>5, <1>6, <1>7, <1>8, <1>10, <1>11 DEF OwnersInv

\* A superseded write leaves everything else alone, or the sign-in it was part
\* of cleans up.
LEMMA SupersededKeeps ==
  ASSUME SafeInv, AppInv, queue # <<>>, queue[1].kind = "write", WriteSuperseded, disk' = disk,
         queue[1].written => ~queue[1].current
  PROVE  AppInv'
<1>1. /\ queue \in Seq(Operation) /\ Rest(Tail(queue), 1) /\ 1 \in Ops /\ Head(queue) = queue[1]
      /\ \A i \in Ops : i \in Nat /\ i >= 1
  BY AppTypes, RestOfQueue
<1>2. OpOK(queue[1], flight, login) BY <1>1 DEF AppInv, OwnersInv
<1>3. CASE queue[1].by # "refresh"
  <2>1. ClearLocalSession(Tail(queue)) /\ login' = NoLogin BY <1>1, <1>3 DEF WriteSuperseded
  <2>2. \A i \in DOMAIN Tail(queue) : Tail(queue)[i].by # "login"
    <3>1. queue[1].by = "login" BY <1>2, <1>3 DEF OpOK
    <3>2. \A i \in DOMAIN Tail(queue) : i + 1 \in Ops /\ Tail(queue)[i] = queue[i + 1] /\ i + 1 # 1
      BY <1>1, RowOf DEF Rest
    <3> QED BY <1>1, <3>1, <3>2 DEF AppInv, OwnersInv
  <2> QED BY <1>1, <2>1, <2>2, ProviderClears
<1>4. CASE queue[1].by = "refresh"
  <2>1. queue' = Tail(queue) /\ flight' = NoFlight /\ UNCHANGED <<mem, ui, login>>
    BY <1>1, <1>4 DEF WriteSuperseded
  <2>2. /\ OwnersInv'
        /\ \A i \in Ops' : i + 1 \in Ops /\ queue'[i] = queue[i + 1] /\ ~queue'[i].written
        /\ \A i \in Ops : i # 1 => i - 1 \in Ops' /\ queue'[i - 1] = queue[i]
        /\ \A i \in Ops' : queue'[i].kind = "clear" =>
             /\ mem = 0 /\ (queue'[i].by = "cleanup" => ui # "signed-in")
             /\ \A j \in Ops' : j < i => ~queue'[j].current
    BY <1>4, <2>1, PopOwners
  <2>3. ~flight'.current BY <2>1, NoFlightFields DEF FlightRec
  <2>4. MemoryInv'
    <3>2. ui = "signing-out" => \E i \in Ops' : queue'[i].kind = "clear" /\ queue'[i].by = "cleanup"
      BY <1>4, <2>2 DEF AppInv, MemoryInv
    <3> QED BY <2>1, <2>2, <2>3, <3>2 DEF AppInv, MemoryInv
  <2>5. DiskInv'
    <3>1. mem # 0 => disk = mem BY <1>1 DEF AppInv, DiskInv, OwnersInv
    <3>2. ui = "signed-out-clean" => disk = 0
      BY <1>1, <1>4 DEF AppInv, DiskInv, OwnersInv
    <3> QED BY <2>1, <2>2, <3>1, <3>2 DEF DiskInv
  <2> QED BY <2>2, <2>4, <2>5 DEF AppInv
<1> QED BY <1>3, <1>4

\* The queue stays, and so does what is known of it as long as a refresh or a
\* sign-in that changes owned no operation.
LEMMA QueueKept ==
  ASSUME AppInv, queue' = queue,
         flight' = flight \/ \A i \in Ops : queue[i].by # "refresh",
         login' = login \/ \A i \in Ops : queue[i].by # "login",
         flight'.stage \in {"none", "clearing"} => flight'.token = 0 /\ ~flight'.current
  PROVE  OwnersInv' /\ Ops' = Ops
<1>1. Ops' = Ops BY DEF Ops
<1>2. \A i \in Ops : OpOK(queue[i], flight', login') BY DEF AppInv, OwnersInv, OpOK
<1> QED BY <1>1, <1>2 DEF AppInv, OwnersInv

\* A refresh or a sign-in that does not wait for the disk owns no operation.
LEMMA NoOperations ==
  ASSUME SafeInv, AppInv
  PROVE  /\ flight.stage \in {"none", "calling"} => \A i \in Ops : queue[i].by # "refresh"
         /\ login.stage # "persist" => \A i \in Ops : queue[i].by # "login"
<1>1. \A i \in Ops : queue[i].kind \in {"write", "clear"}
  <2>1. \A i \in Ops : queue[i] \in Operation BY AppTypes, RestOfQueue
  <2> QED BY <2>1 DEF Operation
<1> QED BY <1>1 DEF AppInv, OwnersInv, OpOK

\* Steps of the app that leave the queue alone.
LEMMA CallKeeps ==
  ASSUME SafeInv, AppInv, NEW c \in Calls,
         \/ StartRefresh(c) \/ ExchangeCode(c) \/ SignOut(c) \/ AnswerLost(c)
         \/ \E decision \in {"approve", "cancel"} : BrowserSubmits(c, decision)
         \/ \E f \in {0} \cup DOMAIN device : RevokeFromWeb(c, f)
  PROVE  AppInv'
<1>1. CASE StartRefresh(c)
  <2>1. /\ flight.stage = "none" /\ mem # 0 /\ queue' = queue /\ flight'.stage = "calling"
        /\ flight'.token = mem /\ flight'.current
        /\ UNCHANGED <<mem, disk, ui, login>>
    BY <1>1, NoFlightFields DEF StartRefresh, FlightRec
  <2>2. \A i \in Ops : queue[i].by # "refresh" BY <2>1, NoOperations
  <2>3. OwnersInv' /\ Ops' = Ops BY <2>1, <2>2, QueueKept
  <2> QED BY <2>1, <2>3 DEF AppInv, MemoryInv, DiskInv
<1>2. CASE ExchangeCode(c)
  <2>1. login' = LoginRec("exchange", login.request, c)
    BY <1>2, AppTypes, LoginFields, Zenon DEF ExchangeCode
  <2>2. /\ login.stage = "browser" /\ queue' = queue
        /\ UNCHANGED <<mem, disk, flight, ui>>
    BY <1>2 DEF ExchangeCode
  <2>3. \A i \in Ops : queue[i].by # "login" BY <2>2, NoOperations
  <2>4. OwnersInv' /\ Ops' = Ops BY <2>2, <2>3, QueueKept DEF AppInv, OwnersInv
  <2>5. ui # "signed-in" BY <2>2 DEF AppInv, MemoryInv, NoLogin
  <2> QED BY <2>2, <2>4, <2>5 DEF AppInv, MemoryInv, DiskInv
<1>3. CASE UNCHANGED <<mem, disk, flight, queue, ui, login>>
  BY <1>3 DEF AppInv, OwnersInv, MemoryInv, DiskInv, Ops
<1> QED BY <1>1, <1>2, <1>3 DEF SignOut, AnswerLost, BrowserSubmits, RevokeFromWeb, clientVars

\* Steps of a refresh.
LEMMA RefreshKeeps ==
  ASSUME SafeInv, AppInv, RefreshOk \/ RefreshRetryable \/ RefreshUnreadable \/ RefreshFails
  PROVE  AppInv'
<1>1. flight.stage = "calling" /\ UNCHANGED <<disk, ui, login>>
  BY DEF RefreshOk, RefreshRetryable, RefreshUnreadable, RefreshFails
<1>2. \A i \in Ops : queue[i].by # "refresh" BY <1>1, NoOperations
<1>3. AuthTypeOK /\ queue \in Seq(Operation) /\ flight \in Flight BY AppTypes
<1>4. CASE RefreshOk
  <2> DEFINE n == Len(queue) + 1
             t == call[flight.call].token
             e == WriteOp(t, flight.token, flight.current, "refresh")
  <2>1. t \in {0} \cup DOMAIN session /\ queue' = Append(queue, e)
    <3>1. flight.call \in Calls /\ call[flight.call].pc = "answered"
      BY <1>4, <1>3 DEF RefreshOk, Received, At, Flight
    <3>2. call[flight.call].token \in {0} \cup DOMAIN session
      BY <3>1, AppTypes DEF AuthInv, CallsInv, CallOK
    <3> QED BY <1>4, <3>2 DEF RefreshOk
  <2>2. flight.token \in Tokens /\ flight.current \in BOOLEAN BY <1>3 DEF Flight
  <2>3. /\ Ops = 1 .. Len(queue) /\ Len(queue) \in Nat /\ Ops' = Ops \cup {n}
        /\ \A i \in Ops : queue'[i] = queue[i]
        /\ queue'[n].kind = "write" /\ queue'[n].by = "refresh"
        /\ queue'[n].expect = flight.token /\ queue'[n].current = flight.current
        /\ ~queue'[n].written
    <3>1. e \in Operation BY <1>3, <2>1, <2>2, Operations
    <3>2. /\ e.kind = "write" /\ e.by = "refresh" /\ e.expect = flight.token
          /\ e.current = flight.current /\ ~e.written
      BY DEF WriteOp
    <3>3. queue' = Append(queue, e) BY <2>1
    <3> HIDE DEF e
    <3> QED BY <1>3, <3>1, <3>2, <3>3, AppendRow DEF Ops
  <2>4. flight' = FlightRec("persisting", NoOne, flight.token, flight.current)
    BY <1>3, <1>4, FlightFields, Zenon DEF RefreshOk
  <2>5. /\ flight'.stage = "persisting" /\ flight'.token = flight.token
        /\ flight'.current = flight.current /\ UNCHANGED <<mem, disk, ui, login>>
    BY <1>4, <2>4 DEF FlightRec, RefreshOk
  <2> HIDE DEF n
  <2>6. n \notin Ops /\ \A i \in Ops : i < n BY <2>3 DEF n
  <2>7. OwnersInv'
    <3>1. \A i \in Ops : OpOK(queue'[i], flight', login')
      BY <1>2, <2>3, <2>5 DEF AppInv, OwnersInv, OpOK
    <3>2. OpOK(queue'[n], flight', login') BY <2>3, <2>5 DEF OpOK
    <3>3. \A i, j \in Ops' : queue'[i].by = queue'[j].by /\ queue'[i].by # "cleanup" => i = j
      BY <1>2, <2>3 DEF AppInv, OwnersInv
    <3> QED BY <2>3, <2>5, <3>1, <3>2, <3>3 DEF AppInv, OwnersInv
  <2>8. MemoryInv'
    <3>1. ASSUME NEW i \in Ops', queue'[i].kind = "clear"
          PROVE  /\ mem' = 0 /\ (queue'[i].by = "cleanup" => ui' # "signed-in")
                 /\ \A j \in Ops' : j < i => ~queue'[j].current
      <4>1. i \in Ops /\ queue[i].kind = "clear" /\ i \in Nat BY <2>3, <3>1
      <4>2. \A j \in Ops' : j < i => j \in Ops
        <5>1. n \in Nat /\ i < n BY <2>3, <2>6, <4>1 DEF n
        <5>2. ~(n < i) BY <4>1, <5>1
        <5> QED BY <2>3, <5>2
      <4> QED BY <2>3, <2>5, <4>1, <4>2 DEF AppInv, MemoryInv
    <3>2. ui = "signing-out" => \E i \in Ops' : queue'[i].kind = "clear" /\ queue'[i].by = "cleanup"
      BY <2>3 DEF AppInv, MemoryInv
    <3> QED BY <2>5, <3>1, <3>2 DEF AppInv, MemoryInv
  <2>9. DiskInv' BY <2>3, <2>5 DEF AppInv, DiskInv
  <2> QED BY <2>7, <2>8, <2>9 DEF AppInv
<1>5. CASE RefreshRetryable \/ RefreshUnreadable
  <2>1. flight' = NoFlight /\ UNCHANGED <<mem, queue>>
    BY <1>5 DEF RefreshRetryable, RefreshUnreadable
  <2>2. NoFlight.token = 0 /\ ~NoFlight.current BY NoFlightFields DEF FlightRec
  <2>3. OwnersInv' /\ Ops' = Ops BY <1>1, <1>2, <2>1, <2>2, QueueKept
  <2> QED BY <1>1, <2>1, <2>2, <2>3 DEF AppInv, MemoryInv, DiskInv
<1>6. CASE RefreshFails
  <2>1. RefreshClears(queue) BY <1>6 DEF RefreshFails
  <2>2. Rest(queue, 0) BY <1>3, RestOfQueue
  <2> QED BY <1>1, <1>2, <2>1, <2>2, RefreshClearsKeeps DEF Ops
<1> QED BY <1>4, <1>5, <1>6

\* A write runs, and fails or is on the disk.
LEMMA WriteKeeps ==
  ASSUME SafeInv, AppInv, WriteRuns
  PROVE  AppInv'
<1>1. queue # <<>> /\ queue \in Seq(Operation) BY AppTypes DEF WriteRuns, Running
<1>2. /\ Rest(Tail(queue), 1) /\ 1 \in Ops /\ Head(queue) = queue[1]
      /\ \A i \in Ops : i \in Nat /\ i >= 1 /\ queue[i] \in Operation
  BY <1>1, RestOfQueue
<1>3. queue[1].kind = "write" /\ ~queue[1].written BY <1>2 DEF WriteRuns, Running
<1>4. OpOK(queue[1], flight, login) /\ \A i \in Ops : ~queue[i].written
  BY <1>2, <1>3 DEF AppInv, OwnersInv
<1>5. \A i \in DOMAIN Tail(queue) : i + 1 \in Ops /\ Tail(queue)[i] = queue[i + 1] /\ i + 1 # 1
  BY <1>2, RowOf DEF Rest
<1>6. \A i \in DOMAIN Tail(queue) :
        Tail(queue)[i].by = queue[1].by => Tail(queue)[i].by = "cleanup"
  BY <1>2, <1>5 DEF AppInv, OwnersInv
<1>7. CASE WriteSuperseded /\ UNCHANGED disk
  BY <1>1, <1>3, <1>7, SupersededKeeps
<1>8. CASE WriteRejected /\ UNCHANGED disk
  <2>1. CASE queue[1].by = "refresh"
    <3>1. RefreshClears(Tail(queue)) /\ UNCHANGED <<ui, login>>
      BY <1>2, <1>8, <2>1 DEF WriteRejected
    <3>2. \A i \in DOMAIN Tail(queue) : Tail(queue)[i].by # "refresh" BY <1>6, <2>1
    <3> QED BY <1>2, <1>3, <1>4, <1>8, <3>1, <3>2, RefreshClearsKeeps
  <2>2. CASE queue[1].by # "refresh"
    <3>1. ClearLocalSession(Tail(queue)) /\ login' = NoLogin
      BY <1>2, <1>8, <2>2 DEF WriteRejected
    <3>2. queue[1].by = "login" BY <1>3, <1>4, <2>2 DEF OpOK
    <3>3. \A i \in DOMAIN Tail(queue) : Tail(queue)[i].by # "login" BY <1>6, <3>2
    <3> QED BY <1>2, <1>8, <3>1, <3>3, ProviderClears
  <2> QED BY <2>1, <2>2
<1>9. CASE /\ ~(~queue[1].current \/ (queue[1].expect # 0 /\ mem # queue[1].expect))
           /\ disk' = queue[1].token
           /\ queue' = [queue EXCEPT ![1].written = TRUE]
           /\ UNCHANGED <<mem, flight, ui, login>>
  <2>1. /\ Ops' = Ops
        /\ \A i \in Ops :
             /\ queue'[i].kind = queue[i].kind /\ queue'[i].token = queue[i].token
             /\ queue'[i].expect = queue[i].expect /\ queue'[i].by = queue[i].by
             /\ queue'[i].current = queue[i].current
             /\ queue'[i].written = (queue[i].written \/ i = 1)
    <3>1. Existing(queue, DOMAIN session) BY AppTypes
    <3>2. PICK p : p = queue' OBVIOUS
    <3>3. Marked(queue, p) BY <1>9, <3>2 DEF Marked
    <3>4. /\ DOMAIN p = DOMAIN queue
          /\ \A i \in DOMAIN queue :
               /\ p[i].kind = queue[i].kind /\ p[i].token = queue[i].token
               /\ p[i].expect = queue[i].expect /\ p[i].by = queue[i].by
               /\ p[i].current = queue[i].current
               /\ p[i].written = (queue[i].written \/ i = 1)
      BY <1>1, <3>1, <3>3, ExistingWritten
    <3> QED BY <3>2, <3>4 DEF Ops
  <2>2. \A i \in Ops : queue'[i].written <=> i = 1 BY <1>4, <2>1
  <2>3. OwnersInv'
    <3>1. \A i \in Ops : OpOK(queue'[i], flight', login')
      <4>1. \A i \in Ops : i = 1 => queue[i].kind # "clear" BY <1>3
      <4> QED BY <1>9, <2>1, <2>2, <4>1 DEF AppInv, OwnersInv, OpOK
    <3>2. \A i, j \in Ops : queue'[i].by = queue'[j].by /\ queue'[i].by # "cleanup" => i = j
      BY <2>1 DEF AppInv, OwnersInv
    <3>3. flight'.stage \in {"none", "clearing"} => flight'.token = 0 /\ ~flight'.current
      BY <1>9 DEF AppInv, OwnersInv
    <3> QED BY <2>1, <2>2, <3>1, <3>2, <3>3 DEF OwnersInv
  <2>4. MemoryInv' BY <1>9, <2>1 DEF AppInv, MemoryInv
  <2>5. DiskInv'
    <3>1. ui = "signed-out-clean" => queue[1].by = "login"
      BY <1>3, <1>4, <1>9 DEF AppInv, MemoryInv, OpOK
    <3> QED BY <1>2, <1>9, <2>1, <2>2, <3>1 DEF DiskInv
  <2> QED BY <2>3, <2>4, <2>5 DEF AppInv
<1> QED BY <1>2, <1>7, <1>8, <1>9 DEF WriteRuns

\* What was stored is published, or superseded.
LEMMA PublishKeeps ==
  ASSUME SafeInv, AppInv, Publish
  PROVE  AppInv'
<1>1. queue # <<>> /\ queue \in Seq(Operation) /\ disk' = disk
  BY AppTypes DEF Publish, Running
<1>2. /\ Rest(Tail(queue), 1) /\ 1 \in Ops /\ Head(queue) = queue[1]
      /\ \A i \in Ops : i \in Nat /\ i >= 1 /\ queue[i] \in Operation
  BY <1>1, RestOfQueue
<1>3. queue[1].kind = "write" /\ queue[1].written BY <1>2 DEF Publish, Running
<1>4. OpOK(queue[1], flight, login) /\ disk = queue[1].token
  BY <1>2, <1>3 DEF AppInv, OwnersInv, DiskInv
<1>5. CASE ~queue[1].current /\ WriteSuperseded
  BY <1>1, <1>3, <1>5, SupersededKeeps
<1>6. CASE queue[1].current /\ queue[1].by = "login" /\ LoginStored
  <2>1. login.stage = "persist" BY <1>4, <1>6 DEF OpOK
  <2>2. ui # "signed-in" /\ mem = 0 /\ ~flight.current
    <3>1. login # NoLogin BY <2>1 DEF NoLogin
    <3> QED BY <3>1 DEF AppInv, MemoryInv
  <2>3. CASE /\ ui' = "signed-in" /\ login' = NoLogin /\ mem' = queue[1].token
             /\ queue' = Tail(queue) /\ flight' = flight
    <3>1. /\ OwnersInv'
          /\ \A i \in Ops' : queue'[i].kind # "clear" /\ ~queue'[i].written
      BY <1>1, <1>6, <2>3, PopOwners
    <3>2. MemoryInv' BY <2>2, <2>3, <3>1 DEF MemoryInv
    <3>3. DiskInv' BY <1>1, <1>4, <2>3, <3>1 DEF DiskInv
    <3> QED BY <3>1, <3>2, <3>3 DEF AppInv
  <2>4. CASE ClearLocalSession(Tail(queue)) /\ login' = NoLogin
    <3>1. \A i \in DOMAIN Tail(queue) : i + 1 \in Ops /\ Tail(queue)[i] = queue[i + 1] /\ i + 1 # 1
      BY <1>2, RowOf DEF Rest
    <3>2. \A i \in DOMAIN Tail(queue) : Tail(queue)[i].by # "login"
      BY <1>2, <1>6, <3>1 DEF AppInv, OwnersInv
    <3> QED BY <1>1, <1>2, <2>4, <3>2, ProviderClears
  <2> QED BY <1>2, <1>6, <2>3, <2>4 DEF LoginStored
<1>7. CASE /\ queue[1].current /\ queue[1].by # "login"
           /\ mem' = queue[1].token /\ queue' = Tail(queue) /\ flight' = NoFlight
           /\ UNCHANGED <<ui, login>>
  <2>1. queue[1].by = "refresh" BY <1>3, <1>4, <1>7 DEF OpOK
  <2>2. flight.current BY <1>3, <1>4, <1>7, <2>1 DEF OpOK
  <2>3. ui = "signed-in" /\ login = NoLogin BY <2>2 DEF AppInv, MemoryInv
  <2>4. /\ OwnersInv'
        /\ \A i \in Ops' : queue'[i].kind # "clear" /\ ~queue'[i].written
    BY <1>1, <1>7, <2>1, PopOwners
  <2>5. ~flight'.current BY <1>7, NoFlightFields DEF FlightRec
  <2>6. MemoryInv' BY <1>7, <2>3, <2>4, <2>5 DEF MemoryInv
  <2>7. DiskInv' BY <1>1, <1>4, <1>7, <2>3, <2>4 DEF DiskInv
  <2> QED BY <2>4, <2>6, <2>7 DEF AppInv
<1> QED BY <1>2, <1>5, <1>6, <1>7 DEF Publish

\* A deletion ends.
LEMMA ClearKeeps ==
  ASSUME SafeInv, AppInv, ClearOk \/ ClearFails
  PROVE  AppInv'
<1>1. /\ queue # <<>> /\ queue \in Seq(Operation) /\ disk' \in {0, disk}
      /\ mem' = mem /\ login' = login /\ queue' = Tail(queue)
  BY AppTypes DEF ClearOk, ClearFails, ClearEnds, Running
<1>2. /\ Rest(Tail(queue), 1) /\ 1 \in Ops /\ Head(queue) = queue[1]
      /\ \A i \in Ops : i \in Nat /\ i >= 1 /\ queue[i] \in Operation
  BY <1>1, RestOfQueue
<1>3. queue[1].kind = "clear" BY <1>2 DEF ClearOk, ClearFails, Running
<1>4. queue[1].by \in {"refresh", "cleanup"} /\ mem = 0 /\ ~flight.current
  BY <1>2, <1>3 DEF AppInv, OwnersInv, MemoryInv, OpOK
<1>5. PICK outcome \in {"signed-out-clean", "signed-out-cleanup-required"} :
        /\ outcome = "signed-out-clean" => disk' = 0
        /\ IF queue[1].by = "refresh" THEN flight' = NoFlight /\ ui' = ui
           ELSE ui' = outcome /\ flight' = flight
  BY <1>2 DEF ClearOk, ClearFails, ClearEnds
<1>6. /\ OwnersInv'
      /\ \A i \in Ops' : ~queue'[i].written
      /\ \A i \in Ops : i # 1 => i - 1 \in Ops' /\ queue'[i - 1] = queue[i]
      /\ \A i \in Ops' : queue'[i].kind = "clear" =>
           /\ queue'[i].by = "cleanup" => ui # "signed-in"
           /\ \A j \in Ops' : j < i => ~queue'[j].current
  BY <1>1, <1>4, <1>5, PopOwners
<1>7. ~flight'.current BY <1>4, <1>5, NoFlightFields DEF FlightRec
<1>8. MemoryInv'
  <2>1. ui' = "signed-in" => ui = "signed-in" /\ login = NoLogin
    BY <1>5 DEF AppInv, MemoryInv
  <2>2. ASSUME ui' = "signing-out"
        PROVE  \E i \in Ops' : queue'[i].kind = "clear" /\ queue'[i].by = "cleanup"
    <3>1. ui = "signing-out" /\ queue[1].by = "refresh" BY <1>4, <1>5, <2>2
    <3>2. PICK i \in Ops : queue[i].kind = "clear" /\ queue[i].by = "cleanup"
      BY <3>1 DEF AppInv, MemoryInv
    <3> QED BY <1>6, <3>1, <3>2
  <2> QED BY <1>1, <1>4, <1>6, <1>7, <2>1, <2>2 DEF MemoryInv
<1>9. DiskInv'
  <2>1. ui' = "signed-out-clean" => disk' = 0
    BY <1>1, <1>2, <1>4, <1>5 DEF AppInv, DiskInv, OwnersInv
  <2> QED BY <1>1, <1>4, <1>6, <2>1 DEF DiskInv
<1> QED BY <1>6, <1>8, <1>9 DEF AppInv

\* A sign-in starts, and ends before anything is stored.
LEMMA LoginKeeps ==
  ASSUME SafeInv, AppInv, SignIn \/ LoginFails
  PROVE  AppInv'
<1>1. UNCHANGED <<mem, disk, flight, queue, ui>> BY DEF SignIn, LoginFails
<1>2. login.stage # "persist" /\ (login' = NoLogin \/ ui # "signed-in")
  <2>1. CASE SignIn
    <3>1. login = NoLogin /\ ui = "signed-out-clean" BY <2>1 DEF SignIn
    <3>2. login.stage # "persist" BY <3>1 DEF NoLogin
    <3> QED BY <3>1, <3>2
  <2>2. CASE LoginFails BY <2>2 DEF LoginFails
  <2> QED BY <2>1, <2>2
<1>3. \A i \in Ops : queue[i].by # "login" BY <1>2, NoOperations
<1>4. OwnersInv' /\ Ops' = Ops BY <1>1, <1>3, QueueKept DEF AppInv, OwnersInv
<1> QED BY <1>1, <1>2, <1>4 DEF AppInv, MemoryInv, DiskInv

\* The tokens of a sign-in supersede everything in progress.
LEMMA TokensKeep ==
  ASSUME SafeInv, AppInv, LoginTokens
  PROVE  AppInv'
<1>1. login.stage = "exchange" /\ UNCHANGED <<mem, disk, ui>> BY DEF LoginTokens
<1>2. \A i \in Ops : queue[i].by # "login" BY <1>1, NoOperations
<1>3. ui # "signed-in" /\ mem = 0
  <2>1. login # NoLogin BY <1>1 DEF NoLogin
  <2> QED BY <2>1 DEF AppInv, MemoryInv
<1>4. AuthTypeOK /\ queue \in Seq(Operation) /\ flight \in Flight /\ Existing(queue, DOMAIN session)
  BY AppTypes
<1>5. flight'.stage = flight.stage /\ flight'.token = flight.token /\ flight'.current = FALSE
  BY <1>4 DEF LoginTokens, Flight
<1>6. login'.stage = "persist"
  <2>1. login' = LoginRec("persist", login.request, NoOne)
    BY AppTypes, LoginFields, Zenon DEF LoginTokens
  <2> QED BY <2>1 DEF LoginRec
<1> DEFINE n == Len(queue) + 1
           c == login.call
           e == WriteOp(call[c].token, 0, TRUE, "login")
<1>7. /\ Ops = 1 .. Len(queue) /\ Len(queue) \in Nat /\ Ops' = Ops \cup {n}
      /\ \A i \in Ops :
           /\ queue'[i].kind = queue[i].kind /\ queue'[i].token = queue[i].token
           /\ queue'[i].expect = queue[i].expect /\ queue'[i].written = queue[i].written
           /\ queue'[i].by = queue[i].by /\ queue'[i].current = FALSE
      /\ queue'[n].kind = "write" /\ queue'[n].by = "login" /\ queue'[n].expect = 0
      /\ ~queue'[n].written
  <2>1. e \in Operation
    <3>1. c \in Calls /\ call[c].pc = "answered"
      BY AppTypes, LoginFields DEF LoginTokens, Received, At
    <3>2. call[c].token \in {0} \cup DOMAIN session /\ 0 \in Tokens
      BY <3>1, AppTypes, AuthTypes DEF AuthInv, CallsInv, CallOK, Tokens
    <3> QED BY <1>4, <3>2, Operations
  <2>2. e.kind = "write" /\ e.by = "login" /\ e.expect = 0 /\ ~e.written BY DEF WriteOp
  <2>3. queue' = Append(Outdated(queue), e) BY DEF LoginTokens
  <2> HIDE DEF e
  <2>4. /\ Outdated(queue) \in Seq(Operation) /\ Len(Outdated(queue)) = Len(queue)
        /\ DOMAIN Outdated(queue) = Ops
        /\ \A i \in Ops :
             /\ Outdated(queue)[i].kind = queue[i].kind /\ Outdated(queue)[i].token = queue[i].token
             /\ Outdated(queue)[i].expect = queue[i].expect
             /\ Outdated(queue)[i].written = queue[i].written
             /\ Outdated(queue)[i].by = queue[i].by /\ Outdated(queue)[i].current = FALSE
    <3>1. PICK q \in Seq(Operation) : q = queue BY <1>4
    <3>2. /\ Outdated(q) \in Seq(Operation) /\ DOMAIN Outdated(q) = DOMAIN q
          /\ Len(Outdated(q)) = Len(q)
          /\ \A i \in DOMAIN q :
               /\ Outdated(q)[i].kind = q[i].kind /\ Outdated(q)[i].token = q[i].token
               /\ Outdated(q)[i].expect = q[i].expect /\ Outdated(q)[i].written = q[i].written
               /\ Outdated(q)[i].by = q[i].by /\ Outdated(q)[i].current = FALSE
      BY OutdatedQueue
    <3> QED BY <3>1, <3>2, Zenon DEF Ops
  <2>5. Ops = 1 .. Len(queue) /\ Len(queue) \in Nat BY <1>4, RestOfQueue
  <2>6. /\ Ops' = Ops \cup {n} /\ \A i \in Ops : queue'[i] = Outdated(queue)[i]
        /\ queue'[n] = e
    BY <2>1, <2>3, <2>4, AppendRow DEF Ops
  <2> QED BY <2>2, <2>4, <2>5, <2>6
<1> HIDE DEF n, e
<1>8. n \notin Ops /\ n \in Nat /\ \A i \in Ops : i < n BY <1>7 DEF n
<1>9. OwnersInv'
  <2>1. ASSUME NEW i \in Ops
        PROVE  OpOK(queue'[i], flight', login') /\ (queue'[i].written => i = 1)
    <3>1. OpOK(queue[i], flight, login) /\ (queue[i].written => i = 1) /\ queue[i].by # "login"
      BY <1>2 DEF AppInv, OwnersInv
    <3> QED BY <1>5, <1>7, <3>1 DEF OpOK
  <2>2. OpOK(queue'[n], flight', login') BY <1>6, <1>7 DEF OpOK
  <2>3. \A i, j \in Ops' : queue'[i].by = queue'[j].by /\ queue'[i].by # "cleanup" => i = j
    BY <1>2, <1>7 DEF AppInv, OwnersInv
  <2>4. flight'.stage \in {"none", "clearing"} => flight'.token = 0 /\ ~flight'.current
    BY <1>5 DEF AppInv, OwnersInv
  <2> QED BY <1>7, <2>1, <2>2, <2>3, <2>4 DEF OwnersInv
<1>10. MemoryInv'
  <2>1. ASSUME NEW i \in Ops', queue'[i].kind = "clear"
        PROVE  \A j \in Ops' : j < i => ~queue'[j].current
    <3>1. i \in Ops /\ i \in Nat /\ i < n BY <1>7, <1>8, <2>1
    <3>2. ~(n < i) BY <1>8, <3>1
    <3> QED BY <1>7, <3>2
  <2>2. ui = "signing-out" => \E i \in Ops' : queue'[i].kind = "clear" /\ queue'[i].by = "cleanup"
    BY <1>7 DEF AppInv, MemoryInv
  <2> QED BY <1>1, <1>3, <1>5, <2>1, <2>2 DEF MemoryInv
<1>11. DiskInv' BY <1>1, <1>3, <1>7 DEF AppInv, DiskInv
<1> QED BY <1>9, <1>10, <1>11 DEF AppInv

\* The app stops and starts again.
LEMMA RestartKeeps ==
  ASSUME SafeInv, AppInv, Restart
  PROVE  AppInv'
<1>1. NoFlight.token = 0 /\ ~NoFlight.current BY NoFlightFields DEF FlightRec
<1>2. mem' = disk /\ disk' = disk /\ flight' = NoFlight /\ login' = NoLogin BY DEF Restart
<1>3. CASE disk = 0
  <2>1. queue' = <<ClearOp("cleanup")>> /\ ui' = "signing-out" BY <1>3 DEF Restart
  <2>2. /\ Ops' = {1} /\ queue'[1].kind = "clear" /\ queue'[1].by = "cleanup"
        /\ ~queue'[1].current /\ ~queue'[1].written
    BY <2>1 DEF ClearOp, Ops
  <2>3. OwnersInv' BY <1>1, <1>2, <2>2 DEF OwnersInv, OpOK
  <2>4. MemoryInv' BY <1>1, <1>2, <1>3, <2>1, <2>2 DEF MemoryInv
  <2>5. DiskInv' BY <1>2, <1>3, <2>1, <2>2 DEF DiskInv
  <2> QED BY <2>3, <2>4, <2>5 DEF AppInv
<1>4. CASE disk # 0
  <2>1. queue' = <<>> /\ ui' = "signed-in" BY <1>4 DEF Restart
  <2>2. Ops' = {} BY <2>1, EmptySeq DEF Ops
  <2> QED BY <1>1, <1>2, <2>1, <2>2 DEF AppInv, OwnersInv, MemoryInv, DiskInv
<1> QED BY <1>3, <1>4

LEMMA InitApp == Init => AppInv
<1> SUFFICES ASSUME Init PROVE AppInv OBVIOUS
<1>1. NoFlight.token = 0 /\ ~NoFlight.current BY NoFlightFields DEF FlightRec
<1>2. Ops = {} BY EmptySeq DEF Ops, Init
<1> QED BY <1>1, <1>2 DEF Init, AppInv, OwnersInv, MemoryInv, DiskInv

LEMMA NextApp == SafeInv /\ AppInv /\ [Next]_vars => AppInv'
<1> SUFFICES ASSUME SafeInv, AppInv, [Next]_vars PROVE AppInv' OBVIOUS
<1>1. CASE UNCHANGED <<mem, disk, flight, queue, ui, login>>
  BY <1>1 DEF AppInv, OwnersInv, MemoryInv, DiskInv, Ops
<1>2. CASE ServerStep \/ UNCHANGED vars BY <1>1, <1>2 DEF ServerStep, vars
<1>3. CASE SignOutLocally \/ SyncFails \/ RetryCleanup
  <2>1. ClearLocalSession(queue) /\ disk' = disk /\ login' = login
    BY <1>3 DEF SignOutLocally, SyncFails, RetryCleanup
  <2>2. Rest(queue, 0) BY AppTypes, RestOfQueue
  <2> QED BY <2>1, <2>2, ProviderClears
<1> QED BY <1>2, <1>3, CallKeeps, RefreshKeeps, WriteKeeps, PublishKeeps, ClearKeeps, LoginKeeps,
           TokensKeep, RestartKeeps DEF Next

LEMMA AppInvariant == Spec => []AppInv
BY InitSafe, InitApp, NextSafe, NextApp, PTL DEF Spec

\* Once nothing is pending on the disk, it holds what is in memory, and after a
\* clean sign-out both are empty, in every interleaving of refreshes, sign-ins,
\* sign-outs and restarts.
THEOREM SessionLocalStateAgrees == Spec => []LocalStateAgrees
<1>1. AppInv => LocalStateAgrees
  <2>1. queue = <<>> => Ops = {} BY EmptySeq DEF Ops
  <2> QED BY <2>1 DEF AppInv, MemoryInv, DiskInv, LocalStateAgrees
<1> QED BY <1>1, AppInvariant, PTL

-----------------------------------------------------------------------------
(* Tokens that were used                                                     *)

\* The call c is a refresh with the token t.
Reads(c, t) == call[c].pc \in Refreshing /\ call[c].arg = t

\* Nobody has the token t in use: it is on its way into memory.
Unused(t) == t # mem /\ ~session[t].replaced /\ \A c \in Calls : ~Reads(c, t)

\* No device was taken for reused, and a revocation that would take it so comes
\* too late: the device has been revoked.
ReuseInv ==
  /\ \A f \in DOMAIN device : ~device[f].reused
  /\ \A c \in Calls : call[c].pc \in Revoking /\ call[c].reuse =>
       call[c].arg \in DOMAIN device /\ device[call[c].arg].revoked

\* Two refreshes have different tokens, and none was replaced.
ReadersInv ==
  /\ \A c \in Calls : call[c].pc \in Refreshing => ~session[call[c].arg].replaced
  /\ \A c, d \in Calls : c # d /\ call[c].pc \in Refreshing => ~Reads(d, call[c].arg)

\* New tokens in an answer and in the queue are unused, and stand in one place.
AnswersInv ==
  \A c \in Calls : call[c].pc = "answered" /\ call[c].token # 0 =>
    /\ Unused(call[c].token)
    /\ \A d \in Calls : call[d].pc = "answered" /\ call[d].token = call[c].token => d = c
    /\ \A i \in Ops : queue[i].token # call[c].token

StoresInv ==
  \A i \in Ops : queue[i].token # 0 =>
    /\ Unused(queue[i].token)
    /\ \A j \in Ops : queue[j].token = queue[i].token => j = i

\* The token in memory is used by the refresh in flight alone; it was replaced
\* only if the new tokens are in that refresh's answer or on their way to the
\* disk.
HeldInv ==
  mem # 0 =>
    /\ session[mem].replaced =>
         /\ flight.current
         /\ \/ flight.stage = "persisting"
            \/ /\ flight.stage = "calling" /\ flight.call \in Calls
               /\ call[flight.call].pc = "answered" /\ call[flight.call].answer = "ok"
    /\ \A c \in Calls : Reads(c, mem) =>
         flight.current /\ flight.stage = "calling" /\ flight.call = c

TokensInv == ReuseInv /\ ReadersInv /\ AnswersInv /\ StoresInv /\ HeldInv

\* As long as the app was never stopped with its disk behind, and the like, the
\* tokens are used one after the other.
UntornInv == torn \/ TokensInv

\* What the tokens of calls and operations are.
LEMMA TokenTypes ==
  ASSUME SafeInv
  PROVE  /\ call \in [Calls -> Call] /\ mem \in {0} \cup DOMAIN session /\ 0 \notin DOMAIN session
         /\ \A i \in Ops : queue[i].token \in {0} \cup DOMAIN session
         /\ \A c \in Calls :
              /\ call[c].pc = "answered" => call[c].token \in {0} \cup DOMAIN session
              /\ call[c].pc \in Refreshing => call[c].arg \in DOMAIN session
<1>1. /\ AuthInv /\ AuthTypeOK /\ mem \in {0} \cup DOMAIN session
      /\ Existing(queue, DOMAIN session)
  BY AppTypes
<1>2. call \in [Calls -> Call] /\ DOMAIN session = 1 .. Len(session) /\ Len(session) \in Nat
  BY <1>1, AuthTypes
<1> QED BY <1>1, <1>2 DEF Existing, Ops, AuthInv, CallsInv, CallOK

\* A call of the server moves on, and may make a session with a token of its
\* own for it, which replaces the one it was asked to refresh.
LEMMA ServerMoves ==
  ASSUME SafeInv, TokensInv, UNCHANGED <<mem, flight, queue>>,
         NEW c \in Calls, NEW x \in Call, Becomes(c, x), call[c].pc # "answered",
         DOMAIN session \subseteq DOMAIN session',
         \A s \in DOMAIN session : session'[s].replaced =>
           session[s].replaced \/ (x.pc = "answered" /\ x.answer = "ok" /\ Reads(c, s)),
         \A f \in DOMAIN device : f \in DOMAIN device' /\ (device[f].revoked => device'[f].revoked),
         \A f \in DOMAIN device' : ~device'[f].reused,
         x.pc \in Refreshing => Reads(c, x.arg),
         x.pc \in Revoking /\ x.reuse => x.arg \in DOMAIN device /\ device[x.arg].revoked,
         x.pc = "answered" /\ x.token # 0 =>
           x.token \in DOMAIN session' \ DOMAIN session /\ ~session'[x.token].replaced
  PROVE  TokensInv'
<1>1. /\ mem \in {0} \cup DOMAIN session /\ 0 \notin DOMAIN session
      /\ \A i \in Ops : queue[i].token \in {0} \cup DOMAIN session
      /\ \A d \in Calls :
           /\ call[d].pc = "answered" => call[d].token \in {0} \cup DOMAIN session
           /\ call[d].pc \in Refreshing => call[d].arg \in DOMAIN session
  BY TokenTypes
<1>2. call'[c] = x /\ \A d \in Calls \ {c} : call'[d] = call[d] BY TokenTypes, BecomesFields
<1>3. /\ ReuseInv /\ ReadersInv /\ AnswersInv /\ StoresInv /\ HeldInv BY DEF TokensInv
<1>4. Ops' = Ops BY DEF Ops
<1>5. \A d \in Calls : call'[d].pc \in Refreshing =>
        call[d].pc \in Refreshing /\ call'[d].arg = call[d].arg
  BY <1>2 DEF Reads
<1>6. ASSUME NEW d \in Calls, NEW t, Reads(d, t)' PROVE Reads(d, t)
  BY <1>5, <1>6 DEF Reads
<1>7. "answered" \notin Refreshing \cup Revoking BY DEF Refreshing, Revoking
<1>8. ASSUME NEW t \in DOMAIN session, Unused(t) PROVE Unused(t)'
  <2>1. ~session'[t].replaced BY <1>8 DEF Unused
  <2> QED BY <1>6, <1>8, <2>1 DEF Unused
<1>9. ASSUME x.pc = "answered", x.token # 0 PROVE Unused(x.token)'
  <2>1. \A d \in Calls : ~Reads(d, x.token)'
    <3>1. \A d \in Calls : ~Reads(d, x.token) BY <1>1, <1>9 DEF Reads
    <3> QED BY <1>6, <3>1
  <2> QED BY <1>1, <1>9, <2>1 DEF Unused
<1>10. ReuseInv' BY <1>2, <1>3 DEF ReuseInv
<1>11. ReadersInv'
  <2>1. ASSUME NEW d \in Calls, call'[d].pc \in Refreshing
        PROVE  ~session'[call'[d].arg].replaced
    <3>1. /\ call[d].pc \in Refreshing /\ call'[d].arg = call[d].arg
          /\ call[d].arg \in DOMAIN session /\ ~session[call[d].arg].replaced
      BY <1>1, <1>3, <1>5, <2>1 DEF ReadersInv
    <3>2. x.pc = "answered" => d # c BY <1>2, <1>7, <2>1
    <3>3. x.pc = "answered" => ~Reads(c, call[d].arg) BY <1>3, <3>1, <3>2 DEF ReadersInv
    <3> QED BY <3>1, <3>3
  <2>2. \A d, e \in Calls : d # e /\ call'[d].pc \in Refreshing => ~Reads(e, call[d].arg)
    BY <1>3, <1>5 DEF ReadersInv
  <2>3. \A d, e \in Calls : d # e /\ call'[d].pc \in Refreshing =>
          ~(call'[e].pc \in Refreshing /\ call'[e].arg = call'[d].arg)
    BY <1>5, <2>2 DEF Reads
  <2> QED BY <2>1, <2>3 DEF ReadersInv, Reads
<1>12. AnswersInv'
  <2>1. ASSUME NEW d \in Calls, NEW t, call'[d].pc = "answered", t = call'[d].token, t # 0
        PROVE  /\ Unused(t)'
               /\ \A e \in Calls : call'[e].pc = "answered" /\ call'[e].token = t => e = d
               /\ \A i \in Ops : queue[i].token # t
    <3>1. CASE d = c
      <4>1. t = x.token /\ x.pc = "answered" /\ t \notin DOMAIN session
        BY <1>2, <2>1, <3>1
      <4>2. \A e \in Calls \ {c} : call'[e].pc = "answered" => call'[e].token # t
        BY <1>1, <1>2, <2>1, <4>1
      <4>3. Unused(t)' BY <1>9, <2>1, <4>1
      <4> QED BY <1>1, <2>1, <3>1, <4>1, <4>2, <4>3
    <3>2. CASE d # c
      <4>1. call[d].pc = "answered" /\ t = call[d].token BY <1>2, <2>1, <3>2
      <4>2. /\ t \in DOMAIN session /\ Unused(t)
            /\ \A e \in Calls : call[e].pc = "answered" /\ call[e].token = t => e = d
            /\ \A i \in Ops : queue[i].token # t
        BY <1>1, <1>3, <2>1, <4>1 DEF AnswersInv
      <4>3. x.pc = "answered" => x.token # t BY <2>1, <4>2
      <4>4. \A e \in Calls : call'[e].pc = "answered" /\ call'[e].token = t => e = d
        BY <1>2, <4>2, <4>3
      <4>5. Unused(t)' BY <1>8, <4>2
      <4> QED BY <4>2, <4>4, <4>5
    <3> QED BY <3>1, <3>2
  <2>2. \A t : \A d \in Calls : call'[d].pc = "answered" /\ t = call'[d].token /\ t # 0 =>
          /\ t # mem' /\ ~session'[t].replaced /\ \A e \in Calls : ~Reads(e, t)'
          /\ \A e \in Calls : call'[e].pc = "answered" /\ call'[e].token = t => e = d
          /\ \A i \in Ops : queue[i].token # t
    BY <2>1 DEF Unused
  <2> QED BY <1>4, <2>2 DEF AnswersInv, Unused, Reads
<1>13. StoresInv'
  <2>1. ASSUME NEW i \in Ops, NEW t, t = queue[i].token, t # 0
        PROVE  Unused(t)' /\ \A j \in Ops : queue[j].token = t => j = i
    <3>1. Unused(t) /\ t \in DOMAIN session /\ \A j \in Ops : queue[j].token = t => j = i
      BY <1>1, <1>3, <2>1 DEF StoresInv
    <3> QED BY <1>8, <3>1
  <2>2. \A t : \A i \in Ops : t = queue[i].token /\ t # 0 =>
          /\ t # mem' /\ ~session'[t].replaced /\ \A e \in Calls : ~Reads(e, t)'
          /\ \A j \in Ops : queue[j].token = t => j = i
    BY <2>1 DEF Unused
  <2> QED BY <1>4, <2>2 DEF StoresInv, Unused, Reads
<1>14. HeldInv'
  <2> SUFFICES ASSUME mem # 0 PROVE HeldInv' BY DEF HeldInv
  <2>1. mem \in DOMAIN session BY <1>1
  <2>2. \A d \in Calls : Reads(d, mem)' => flight.current /\ flight.stage = "calling" /\ flight.call = d
    BY <1>3, <1>6 DEF HeldInv
  <2>3. ASSUME session'[mem].replaced
        PROVE  /\ flight.current
               /\ \/ flight.stage = "persisting"
                  \/ /\ flight.stage = "calling" /\ flight.call \in Calls
                     /\ call'[flight.call].pc = "answered" /\ call'[flight.call].answer = "ok"
    <3>1. CASE session[mem].replaced BY <1>2, <1>3, <3>1 DEF HeldInv
    <3>2. CASE x.pc = "answered" /\ x.answer = "ok" /\ Reads(c, mem)
      BY <1>2, <1>3, <3>2 DEF HeldInv
    <3> QED BY <2>1, <2>3, <3>1, <3>2
  <2> QED BY <2>2, <2>3 DEF HeldInv, Reads
<1> QED BY <1>10, <1>11, <1>12, <1>13, <1>14 DEF TokensInv

\* A call of the server moves on and no row is written.
LEMMA CallTokens ==
  ASSUME SafeInv, TokensInv, UNCHANGED <<mem, flight, queue, device, session>>,
         NEW c \in Calls, NEW x \in Call, Becomes(c, x), call[c].pc # "answered",
         x.pc \in Refreshing => Reads(c, x.arg),
         x.pc \in Revoking /\ x.reuse => x.arg \in DOMAIN device /\ device[x.arg].revoked,
         x.pc = "answered" => x.token = 0
  PROVE  TokensInv'
<1>1. \A f \in DOMAIN device : ~device[f].reused BY DEF TokensInv, ReuseInv
<1> QED BY <1>1, ServerMoves

\* A call answers without a token.
LEMMA AnswerTokens ==
  ASSUME SafeInv, TokensInv, UNCHANGED <<mem, flight, queue, device, session>>,
         NEW c \in Calls, call[c].pc # "answered",
         NEW answer \in {"none", "ok", "invalid", "error"}, Answer(c, answer, 0)
  PROVE  TokensInv'
<1>1. PICK x \in Call : Becomes(c, x) /\ x = CallRec("answered", 0, {}, FALSE, answer, 0)
  BY TokenTypes, AnswerBecomes
<1>2. x.pc = "answered" /\ x.token = 0 BY <1>1 DEF CallRec
<1>3. x.pc \notin Refreshing \cup Revoking BY <1>2 DEF Refreshing, Revoking
<1> QED BY <1>1, <1>2, <1>3, CallTokens

\* A call goes on, a refresh with its token.
LEMMA GoToTokens ==
  ASSUME SafeInv, TokensInv, UNCHANGED <<mem, flight, queue, device, session>>,
         NEW c \in Calls, call[c].pc # "answered",
         NEW pc \in Stages, GoTo(c, pc), pc # "answered", pc \notin Revoking,
         pc \in Refreshing => call[c].pc \in Refreshing
  PROVE  TokensInv'
<1>1. PICK x \in Call : /\ Becomes(c, x)
                        /\ x = CallRec(pc, call[c].arg, call[c].seen, call[c].reuse,
                                       call[c].answer, call[c].token)
  BY TokenTypes, GoToBecomes
<1>2. x.pc = pc /\ x.arg = call[c].arg BY <1>1 DEF CallRec
<1>3. x.pc \in Refreshing => Reads(c, x.arg) BY <1>2 DEF Reads
<1> QED BY <1>1, <1>2, <1>3, CallTokens

\* A refusal revokes the device, as a reused one only if it is revoked.
LEMMA GoRevokeTokens ==
  ASSUME SafeInv, TokensInv, UNCHANGED <<mem, flight, queue, device, session>>,
         NEW c \in Calls, call[c].pc # "answered", NEW f \in DOMAIN device, NEW reuse \in BOOLEAN,
         GoRevoke(c, f, reuse), reuse => device[f].revoked
  PROVE  TokensInv'
<1>1. f \in Nat BY AppTypes, AuthTypes
<1>2. PICK x \in Call : Becomes(c, x) /\ x = CallRec("revoke", f, {}, reuse, "invalid", 0)
  BY <1>1, TokenTypes, GoRevokeBecomes
<1>3. x.pc = "revoke" /\ x.arg = f /\ x.reuse = reuse BY <1>2 DEF CallRec
<1>4. x.pc \notin Refreshing /\ x.pc # "answered" BY <1>3 DEF Refreshing
<1> QED BY <1>2, <1>3, <1>4, CallTokens

\* A device and its first session are made.
LEMMA ClaimTokens ==
  ASSUME SafeInv, TokensInv, UNCHANGED <<mem, flight, queue>>, NEW c \in Calls, ClaimCode(c)
  PROVE  TokensInv'
<1>1. AuthInv /\ AuthTypeOK BY AppTypes
<1>2. At(c, "claim") /\ call[c].pc # "answered" BY DEF ClaimCode, At
<1>3. CASE request[call[c].arg].used BY <1>2, <1>3, AnswerTokens DEF ClaimCode
<1>4. CASE ~request[call[c].arg].used
  <2> DEFINE s == Len(session) + 1
             f == Len(device) + 1
  <2>1. /\ DOMAIN device' = DOMAIN device \cup {f} /\ \A g \in DOMAIN device : device'[g] = device[g]
        /\ ~device'[f].reused
        /\ DOMAIN session' = DOMAIN session \cup {s} /\ s \notin DOMAIN session
        /\ \A t \in DOMAIN session : session'[t] = session[t]
        /\ ~session'[s].replaced /\ s \in 1 .. MaxSessions
    BY <1>1, <1>4, ClaimedFacts DEF ClaimCode, ClaimedRows
  <2> HIDE DEF s, f
  <2>2. s \in Nat BY <1>1, AuthTypes DEF s
  <2>3. Answer(c, "ok", s) BY <1>4 DEF ClaimCode, s
  <2>4. PICK x \in Call : Becomes(c, x) /\ x = CallRec("answered", 0, {}, FALSE, "ok", s)
    BY <2>2, <2>3, TokenTypes, AnswerBecomes
  <2>5. x.pc = "answered" /\ x.token = s BY <2>4 DEF CallRec
  <2>6. x.pc \notin Refreshing \cup Revoking BY <2>5 DEF Refreshing, Revoking
  <2>7. \A g \in DOMAIN device' : ~device'[g].reused BY <2>1 DEF TokensInv, ReuseInv
  <2> QED BY <1>2, <2>1, <2>4, <2>5, <2>6, <2>7, ServerMoves
<1> QED BY <1>3, <1>4

\* A token is replaced by the one of a new session, which is the answer.
LEMMA RotationTokens ==
  ASSUME SafeInv, TokensInv, UNCHANGED <<mem, flight, queue>>, NEW c \in Calls, CommitRotation(c)
  PROVE  TokensInv'
<1>1. AuthInv /\ AuthTypeOK BY AppTypes
<1>2. /\ call[c].pc = "commit" /\ Len(session) < MaxSessions /\ Rotated(call[c].arg)
      /\ UNCHANGED device
  BY DEF CommitRotation, At
<1>3. call[c].pc \in Refreshing /\ call[c].pc # "answered" BY <1>2 DEF Refreshing
<1>4. call[c].arg \in DOMAIN session BY <1>3, TokenTypes
<1> DEFINE n == Len(session) + 1
<1>5. /\ DOMAIN session' = DOMAIN session \cup {n} /\ n \notin DOMAIN session
      /\ n \in 1 .. MaxSessions
      /\ \A t \in DOMAIN session : t # call[c].arg => session'[t] = session[t]
      /\ ~session'[n].replaced
  BY <1>1, <1>2, <1>4, RotatedFacts
<1> HIDE DEF n
<1>6. n \in Nat BY <1>1, AuthTypes DEF n
<1>7. Answer(c, "ok", n) BY DEF CommitRotation, n
<1>8. PICK x \in Call : Becomes(c, x) /\ x = CallRec("answered", 0, {}, FALSE, "ok", n)
  BY <1>6, <1>7, TokenTypes, AnswerBecomes
<1>9. x.pc = "answered" /\ x.token = n /\ x.answer = "ok" BY <1>8 DEF CallRec
<1>10. x.pc \notin Refreshing \cup Revoking BY <1>9 DEF Refreshing, Revoking
<1>11. Reads(c, call[c].arg) BY <1>3 DEF Reads
<1>12. \A g \in DOMAIN device' : ~device'[g].reused BY <1>2 DEF TokensInv, ReuseInv
<1> QED BY <1>2, <1>3, <1>5, <1>8, <1>9, <1>10, <1>11, <1>12, ServerMoves

\* The rows of a family are revoked.
LEMMA RevocationTokens ==
  ASSUME SafeInv, TokensInv, UNCHANGED <<mem, flight, queue>>, NEW c \in Calls,
         RevokeStart(c) \/ RevokeApply(c)
  PROVE  TokensInv'
<1>1. AuthInv /\ AuthTypeOK BY AppTypes
<1>2. call[c] \in Call BY TokenTypes
<1>3. ReuseInv BY DEF TokensInv
<1>4. CASE RevokeStart(c)
  <2>1. At(c, "revoke") /\ UNCHANGED <<device, session>> BY <1>4 DEF RevokeStart
  <2> DEFINE seen == RowsOf(FamiliesOf(c))
             x == CallRec("apply", call[c].arg, seen, call[c].reuse, call[c].answer, call[c].token)
  <2>2. seen \in SUBSET (1 .. MaxSessions) BY <1>1, AuthTypes DEF RowsOf, AuthTypeOK
  <2> HIDE DEF seen
  <2>3. x \in Call BY <1>2, <2>2 DEF Call, CallRec, Stages
  <2>4. ASSUME NEW q, q = [call[c] EXCEPT !.pc = "apply", !.seen = seen] PROVE q = x
    BY <1>2, <2>4 DEF Call, CallRec
  <2>5. Becomes(c, x)
    <3>1. call' = [call EXCEPT ![c] = [call[c] EXCEPT !.pc = "apply", !.seen = seen]]
      BY <1>4, TokenTypes DEF RevokeStart, seen
    <3> QED BY <2>4, <3>1 DEF Becomes
  <2>6. x.pc = "apply" /\ x.arg = call[c].arg /\ x.reuse = call[c].reuse BY DEF CallRec
  <2> HIDE DEF x
  <2>7. call[c].pc \in Revoking /\ call[c].pc # "answered" BY <2>1 DEF At, Revoking
  <2>8. x.pc \notin Refreshing /\ x.pc # "answered" BY <2>6 DEF Refreshing
  <2>9. x.reuse => x.arg \in DOMAIN device /\ device[x.arg].revoked
    BY <1>3, <2>6, <2>7 DEF ReuseInv
  <2> QED BY <2>1, <2>3, <2>5, <2>7, <2>8, <2>9, CallTokens
<1>5. CASE RevokeApply(c)
  <2>1. /\ DOMAIN session' = DOMAIN session /\ DOMAIN device' = DOMAIN device
        /\ \A s \in DOMAIN session : session'[s].replaced = session[s].replaced
        /\ \A f \in DOMAIN device :
             /\ device'[f].revoked = (device[f].revoked \/ f \in FamiliesOf(c))
             /\ device'[f].reused = IF f \in FamiliesOf(c) /\ ~device[f].revoked
                                    THEN call[c].reuse ELSE device[f].reused
    BY <1>1, <1>5, RevokedFacts
  <2>2. /\ call[c].pc = "apply" /\ Answer(c, call[c].answer, 0)
        /\ call[c].answer \in {"none", "ok", "invalid", "error"}
    BY <1>2, <1>5, CallFields DEF RevokeApply, At
  <2>3. PICK x \in Call : Becomes(c, x) /\ x = CallRec("answered", 0, {}, FALSE, call[c].answer, 0)
    BY <2>2, TokenTypes, AnswerBecomes
  <2>4. x.pc = "answered" /\ x.token = 0 BY <2>3 DEF CallRec
  <2>5. x.pc \notin Refreshing \cup Revoking BY <2>4 DEF Refreshing, Revoking
  <2>6. call[c].reuse => \A f \in FamiliesOf(c) : device[f].revoked
    <3>1. ASSUME call[c].reuse PROVE call[c].arg \in DOMAIN device /\ device[call[c].arg].revoked
      BY <1>3, <2>2, <3>1 DEF ReuseInv, Revoking
    <3>2. 0 \notin DOMAIN device BY <1>1, AuthTypes
    <3> QED BY <3>1, <3>2 DEF FamiliesOf
  <2>7. \A f \in DOMAIN device' : ~device'[f].reused
    <3>1. ASSUME NEW f \in DOMAIN device PROVE ~device'[f].reused
      <4>1. CASE f \in FamiliesOf(c) /\ ~device[f].revoked BY <2>1, <2>6, <4>1
      <4>2. CASE ~(f \in FamiliesOf(c) /\ ~device[f].revoked) BY <1>3, <2>1, <4>2 DEF ReuseInv
      <4> QED BY <4>1, <4>2
    <3> QED BY <2>1, <3>1
  <2> QED BY <2>1, <2>2, <2>3, <2>4, <2>5, <2>7, ServerMoves
<1> QED BY <1>4, <1>5

\* Every step of the server, but for a rotation whose answer is an error.
LEMMA ServerTokens ==
  ASSUME SafeInv, TokensInv, ServerStep, ~torn'
  PROVE  TokensInv'
<1>1. /\ UNCHANGED <<mem, flight, queue>> /\ AuthStep /\ \A c \in Calls : ~CommitUnknown(c)
  BY DEF ServerStep
<1>2. AuthInv /\ ReadersInv BY AppTypes DEF TokensInv
<1>3. ASSUME NEW c \in Calls, ReadPending(c) \/ ExchangeRead(c) \/ LockUser(c) \/ CountDevices(c)
      PROVE  TokensInv'
  <2>1. call[c].pc # "answered" /\ UNCHANGED <<device, session>>
    BY <1>3 DEF ReadPending, ExchangeRead, LockUser, CountDevices, At
  <2>2. CASE Answer(c, "invalid", 0) BY <1>1, <2>1, <2>2, AnswerTokens
  <2>3. ASSUME NEW pc \in {"approving", "cancelling", "lock", "count", "claim"}, GoTo(c, pc)
        PROVE  TokensInv'
    <3>1. pc \in Stages /\ pc # "answered" /\ pc \notin Revoking /\ pc \notin Refreshing
      BY DEF Stages, Revoking, Refreshing
    <3> QED BY <1>1, <2>1, <2>3, <3>1, GoToTokens
  <2> QED BY <1>3, <2>2, <2>3 DEF ReadPending, ExchangeRead, LockUser, CountDevices
<1>4. ASSUME NEW c \in Calls, ApproveTx(c) \/ CancelTx(c) \/ ServerFails(c) PROVE TokensInv'
  <2>1. call[c].pc # "answered" /\ UNCHANGED <<device, session>>
    BY <1>4 DEF ApproveTx, CancelTx, ServerFails, At
  <2>2. \E answer \in {"none", "ok", "invalid", "error"} : Answer(c, answer, 0)
    BY <1>4 DEF ApproveTx, CancelTx, ServerFails
  <2> QED BY <1>1, <2>1, <2>2, AnswerTokens
<1>5. ASSUME NEW c \in Calls, RefreshRead(c) \/ RefreshReread(c) \/ Consume(c) PROVE TokensInv'
  <2>1. /\ call[c].pc \in Refreshing /\ call[c].pc # "answered" /\ UNCHANGED <<device, session>>
    BY <1>5 DEF RefreshRead, RefreshReread, Consume, At, Refreshing
  <2> DEFINE s == call[c].arg
             f == session[s].family
  <2>2. s \in DOMAIN session /\ ~session[s].replaced BY <1>2, <2>1, TokenTypes DEF ReadersInv
  <2>3. f \in DOMAIN device /\ (session[s].revoked => device[f].revoked)
    BY <1>2, <2>2 DEF AuthInv, RowsInv
  <2>4. CASE Answer(c, "invalid", 0) BY <1>1, <2>1, <2>4, AnswerTokens
  <2>5. CASE GoRevoke(c, f, FALSE) BY <1>1, <2>1, <2>3, <2>5, GoRevokeTokens
  <2>6. CASE GoRevoke(c, f, TRUE) /\ session[s].revoked
    BY <1>1, <2>1, <2>3, <2>6, GoRevokeTokens
  <2>7. ASSUME NEW pc \in {"reread", "consume", "commit"}, GoTo(c, pc) PROVE TokensInv'
    <3>1. pc \in Stages /\ pc # "answered" /\ pc \notin Revoking BY DEF Stages, Revoking
    <3> QED BY <1>1, <2>1, <2>7, <3>1, GoToTokens
  <2> QED BY <1>5, <2>2, <2>4, <2>5, <2>6, <2>7 DEF RefreshRead, RefreshReread, Consume
<1>6. CASE ChangeAccount
  <2>1. UNCHANGED <<call, device, session>> BY <1>6 DEF ChangeAccount
  <2> QED BY <1>1, <2>1
      DEF TokensInv, ReuseInv, ReadersInv, AnswersInv, StoresInv, HeldInv, Unused, Reads, Ops
<1> QED BY <1>1, <1>3, <1>4, <1>5, <1>6, ClaimTokens, RotationTokens, RevocationTokens DEF AuthStep

\* No refresh starts and no answer comes: calls end, are started for another
\* purpose, or stay.
CallsQuiet ==
  \A c \in Calls : call'[c].pc \in Refreshing \cup Revoking \cup {"answered"} =>
    call'[c] = call[c] \/ (call'[c].pc = "revoke" /\ ~call'[c].reuse)

LEMMA QuietCalls ==
  ASSUME call \in [Calls -> Call], NEW c,
         \/ call' = call
         \/ call' = [call EXCEPT ![c] = NoCall]
         \/ /\ c \in Calls
            /\ \E pc \in {"approve", "cancel", "exchange", "revoke"}, arg \in Nat : Place(c, pc, arg)
  PROVE  /\ CallsQuiet
         /\ \A d \in Calls : d # c => call'[d] = call[d]
         /\ c \in Calls /\ call[c].pc = "answered" => call' = call \/ call'[c] = NoCall
<1>1. "idle" \notin Refreshing \cup Revoking \cup {"answered"} BY DEF Refreshing, Revoking
<1>2. NoCall.pc = "idle" BY NoCallFields DEF CallRec
<1>3. CASE call' = call BY <1>3 DEF CallsQuiet
<1>4. CASE call' = [call EXCEPT ![c] = NoCall] BY <1>1, <1>2, <1>4 DEF CallsQuiet
<1>5. ASSUME c \in Calls, NEW pc \in {"approve", "cancel", "exchange", "revoke"}, NEW arg \in Nat,
             Place(c, pc, arg)
      PROVE  CallsQuiet /\ call[c].pc = "idle" /\ \A d \in Calls : d # c => call'[d] = call[d]
  <2>1. pc \in Stages BY DEF Stages
  <2>2. /\ call[c] = NoCall
        /\ \E x \in Call : Becomes(c, x) /\ x = CallRec(pc, arg, {}, FALSE, "ok", 0)
    BY <1>5, <2>1, PlaceBecomes
  <2>3. PICK x \in Call : Becomes(c, x) /\ x = CallRec(pc, arg, {}, FALSE, "ok", 0) BY <2>2
  <2>4. x.pc = pc /\ x.reuse = FALSE BY <2>3 DEF CallRec
  <2>5. call'[c] = x /\ \A d \in Calls : d # c => call'[d] = call[d] BY <1>5, <2>3, BecomesFields
  <2>6. pc \in Refreshing \cup Revoking \cup {"answered"} => pc = "revoke"
    BY DEF Refreshing, Revoking
  <2> QED BY <1>2, <2>2, <2>4, <2>5, <2>6 DEF CallsQuiet
<1> QED BY <1>3, <1>4, <1>5

\* Whose token the operation i of the queue has: it was in the queue or in an
\* answer that was received.
From(i) ==
  \/ \E j \in Ops : queue[j].token = queue'[i].token
  \/ \E c \in Calls : /\ call[c].pc = "answered" /\ call'[c] = NoCall
                      /\ call[c].token = queue'[i].token

\* What memory holds after a step of the app: nothing, what it held, or a token
\* that leaves the queue.
MemoryMoves ==
  \/ mem' = 0
  \/ mem' = mem /\ HeldInv'
  \/ \E j \in Ops : queue[j].token = mem' /\ \A i \in Ops' : queue'[i].token # mem'

\* Tokens move from answers to the queue and from the queue to memory.
LEMMA AppMoves ==
  ASSUME SafeInv, TokensInv, UNCHANGED <<device, session>>, CallsQuiet, MemoryMoves,
         \A i \in Ops' : queue'[i].token # 0 => From(i),
         \A i, j \in Ops' : queue'[i].token # 0 /\ queue'[i].token = queue'[j].token => i = j
  PROVE  TokensInv'
<1>1. /\ mem \in {0} \cup DOMAIN session /\ 0 \notin DOMAIN session
      /\ \A i \in Ops : queue[i].token \in {0} \cup DOMAIN session
      /\ \A d \in Calls : call[d].pc = "answered" => call[d].token \in {0} \cup DOMAIN session
  BY TokenTypes
<1>2. /\ ReuseInv /\ ReadersInv /\ AnswersInv /\ StoresInv /\ HeldInv BY DEF TokensInv
<1>3. /\ "answered" \notin Refreshing \cup Revoking /\ "revoke" \notin Refreshing
      /\ Refreshing \cap Revoking = {} /\ NoCall.pc = "idle"
  BY NoCallFields DEF Refreshing, Revoking, CallRec
<1>4. \A c \in Calls : call'[c].pc \in Refreshing \cup {"answered"} => call'[c] = call[c]
  BY <1>3 DEF CallsQuiet
<1>5. ASSUME NEW c \in Calls, NEW t, Reads(c, t)' PROVE Reads(c, t)
  BY <1>4, <1>5 DEF Reads
<1>6. ASSUME NEW t, Unused(t), t # mem' PROVE Unused(t)'
  BY <1>5, <1>6 DEF Unused
<1>7. ReuseInv' BY <1>2 DEF ReuseInv, CallsQuiet
<1>8. ReadersInv' BY <1>2, <1>4 DEF ReadersInv, Reads
<1>9. ASSUME NEW c \in Calls, NEW t, call'[c].pc = "answered", t = call'[c].token, t # 0
      PROVE  /\ Unused(t)'
             /\ \A d \in Calls : call'[d].pc = "answered" /\ call'[d].token = t => d = c
             /\ \A i \in Ops' : queue'[i].token # t
  <2>1. /\ call[c].pc = "answered" /\ t = call[c].token /\ call'[c] # NoCall
    BY <1>3, <1>4, <1>9
  <2>2. /\ Unused(t)
        /\ \A d \in Calls : call[d].pc = "answered" /\ call[d].token = t => d = c
        /\ \A i \in Ops : queue[i].token # t
    BY <1>2, <1>9, <2>1 DEF AnswersInv
  <2>3. t # mem' BY <1>9, <2>2 DEF MemoryMoves, Unused
  <2>4. \A i \in Ops' : queue'[i].token # t BY <1>9, <2>1, <2>2 DEF From
  <2>5. \A d \in Calls : call'[d].pc = "answered" /\ call'[d].token = t => d = c
    BY <1>4, <2>2
  <2> QED BY <1>6, <2>2, <2>3, <2>4, <2>5
<1>10. AnswersInv'
  <2>1. \A t : \A c \in Calls : call'[c].pc = "answered" /\ t = call'[c].token /\ t # 0 =>
          /\ t # mem' /\ ~session'[t].replaced /\ \A e \in Calls : ~Reads(e, t)'
          /\ \A d \in Calls : call'[d].pc = "answered" /\ call'[d].token = t => d = c
          /\ \A i \in Ops' : queue'[i].token # t
    BY <1>9 DEF Unused
  <2> QED BY <2>1 DEF AnswersInv, Unused, Reads
<1>11. ASSUME NEW i \in Ops', NEW t, t = queue'[i].token, t # 0 PROVE Unused(t)'
  <2>1. Unused(t) BY <1>2, <1>11 DEF From, StoresInv, AnswersInv
  <2>2. t # mem' BY <1>11, <2>1 DEF MemoryMoves, Unused
  <2> QED BY <1>6, <2>1, <2>2
<1>12. StoresInv'
  <2>1. \A t : \A i \in Ops' : t = queue'[i].token /\ t # 0 =>
          t # mem' /\ ~session'[t].replaced /\ \A e \in Calls : ~Reads(e, t)'
    BY <1>11 DEF Unused
  <2> QED BY <2>1 DEF StoresInv, Unused, Reads
<1>13. HeldInv'
  <2>1. CASE mem' = 0 BY <2>1 DEF HeldInv
  <2>2. ASSUME mem' # 0, NEW j \in Ops, queue[j].token = mem' PROVE HeldInv'
    <3>1. PICK t : t = mem' OBVIOUS
    <3>2. ~session[t].replaced /\ \A c \in Calls : ~Reads(c, t)
      BY <1>2, <2>2, <3>1 DEF StoresInv, Unused
    <3>3. ~session'[t].replaced /\ \A c \in Calls : ~Reads(c, t)' BY <1>5, <3>2
    <3> QED BY <3>1, <3>3 DEF HeldInv, Reads
  <2> QED BY <2>1, <2>2 DEF MemoryMoves
<1> QED BY <1>7, <1>8, <1>10, <1>12, <1>13 DEF TokensInv

\* Memory and the refresh in flight stay, and so does the answer it waits for.
LEMMA HeldStays ==
  ASSUME SafeInv, TokensInv, UNCHANGED <<session, mem, flight>>, CallsQuiet,
         flight.stage = "calling" /\ flight.call \in Calls /\ call[flight.call].pc = "answered" =>
           call'[flight.call] = call[flight.call]
  PROVE  HeldInv'
<1>1. HeldInv BY DEF TokensInv
<1>2. "revoke" \notin Refreshing BY DEF Refreshing
<1>3. \A t : \A c \in Calls : (call'[c].pc \in Refreshing /\ call'[c].arg = t) => Reads(c, t)
  BY <1>2 DEF CallsQuiet, Reads
<1> QED BY <1>1, <1>3 DEF HeldInv, Reads

\* Memory stays and the refresh in flight ends, when it kept its token.
LEMMA HeldEnds ==
  ASSUME SafeInv, TokensInv, UNCHANGED <<session, mem>>, CallsQuiet,
         mem # 0 => ~session[mem].replaced,
         \/ flight.stage # "calling" \/ ~flight.current
         \/ call[flight.call].pc \notin Refreshing
  PROVE  HeldInv'
<1>1. HeldInv BY DEF TokensInv
<1>2. "revoke" \notin Refreshing BY DEF Refreshing
<1>3. \A t : \A c \in Calls : (call'[c].pc \in Refreshing /\ call'[c].arg = t) => Reads(c, t)
  BY <1>2 DEF CallsQuiet, Reads
<1>4. mem # 0 => \A c \in Calls : ~Reads(c, mem) BY <1>1 DEF HeldInv, Reads
<1> QED BY <1>3, <1>4 DEF HeldInv, Reads

\* The queue, from the operation after k on, perhaps with deletions after it.
LEMMA QueueTokens ==
  ASSUME SafeInv, TokensInv, NEW k \in {0, 1},
         \A i \in Ops' : queue'[i].token = 0 \/ (i + k \in Ops /\ queue'[i].token = queue[i + k].token),
         \A i \in Ops' : i \in Nat
  PROVE  /\ \A i \in Ops' : queue'[i].token # 0 => From(i)
         /\ \A i, j \in Ops' : queue'[i].token # 0 /\ queue'[i].token = queue'[j].token => i = j
<1>1. StoresInv BY DEF TokensInv
<1>2. \A i \in Ops' : queue'[i].token # 0 => From(i) BY DEF From
<1>3. ASSUME NEW i \in Ops', NEW j \in Ops', queue'[i].token # 0, queue'[i].token = queue'[j].token
      PROVE  i = j
  <2>1. i + k = j + k BY <1>1, <1>3 DEF StoresInv
  <2> QED BY <2>1
<1> QED BY <1>2, <1>3

\* What stands in the queue after a deletion was added to the rest q of it.
LEMMA ClearTokens ==
  ASSUME SafeInv, TokensInv, UNCHANGED <<device, session>>, CallsQuiet,
         NEW q, NEW k \in {0, 1}, Rest(q, k), NEW by \in {"refresh", "cleanup"}, Clear(q, by)
  PROVE  TokensInv'
<1>1. AuthTypeOK /\ q \in Seq(Operation) BY AppTypes DEF Rest
<1>2. /\ mem' = 0 /\ DOMAIN q = 1 .. Len(q) /\ Len(q) \in Nat
      /\ Ops' = DOMAIN q \cup {Len(q) + 1}
      /\ \A i \in DOMAIN q : queue'[i].token = q[i].token
      /\ queue'[Len(q) + 1].token = 0
  BY <1>1, ClearedQueue
<1>3. \A i \in Ops' : i \in Nat BY <1>2
<1>4. \A i \in DOMAIN q : i + k \in Ops /\ q[i] = queue[i + k] BY DEF Rest
<1>5. \A i \in Ops' : queue'[i].token = 0 \/ (i + k \in Ops /\ queue'[i].token = queue[i + k].token)
  BY <1>2, <1>4
<1>6. /\ \A i \in Ops' : queue'[i].token # 0 => From(i)
      /\ \A i, j \in Ops' : queue'[i].token # 0 /\ queue'[i].token = queue'[j].token => i = j
  BY <1>3, <1>5, QueueTokens
<1>7. MemoryMoves BY <1>2 DEF MemoryMoves
<1> QED BY <1>6, <1>7, AppMoves

\* The operation that runs leaves the queue.
LEMMA PopTokens ==
  ASSUME SafeInv, TokensInv, UNCHANGED <<device, session>>, CallsQuiet,
         queue # <<>>, queue' = Tail(queue),
         mem' = queue[1].token \/ (mem' = mem /\ HeldInv')
  PROVE  TokensInv'
<1>1. queue \in Seq(Operation) BY AppTypes
<1>2. Rest(Tail(queue), 1) /\ 1 \in Ops BY <1>1, RestOfQueue
<1>3. \A i \in Ops' : i \in Nat /\ i + 1 # 1 /\ i + 1 \in Ops /\ queue'[i] = queue[i + 1]
  <2>1. \A i \in Ops' : i \in Nat /\ i >= 1 BY <1>2, RowOf DEF Rest, Ops
  <2>2. \A i \in Ops' : i + 1 \in Ops /\ queue'[i] = queue[i + 1] BY <1>2 DEF Rest, Ops
  <2>3. ASSUME NEW i \in Ops'
        PROVE  i \in Nat /\ i + 1 # 1 /\ i + 1 \in Ops /\ queue'[i] = queue[i + 1]
    <3>1. i \in Nat /\ i >= 1 BY <2>1
    <3>2. i + 1 # 1 BY <3>1
    <3> QED BY <2>2, <3>1, <3>2
  <2> QED BY <2>3
<1>4. /\ \A i \in Ops' : queue'[i].token # 0 => From(i)
      /\ \A i, j \in Ops' : queue'[i].token # 0 /\ queue'[i].token = queue'[j].token => i = j
  <2>1. \A i \in Ops' : queue'[i].token = 0 \/ (i + 1 \in Ops /\ queue'[i].token = queue[i + 1].token)
    BY <1>3
  <2>2. \A i \in Ops' : i \in Nat BY <1>3
  <2> QED BY <2>1, <2>2, QueueTokens
<1>5. MemoryMoves
  <2>1. CASE mem' = queue[1].token /\ mem' # 0
    <3>1. \A j \in Ops : queue[j].token = queue[1].token => j = 1
      BY <1>2, <2>1 DEF TokensInv, StoresInv
    <3>2. \A i \in Ops' : queue'[i].token # mem' BY <1>3, <2>1, <3>1
    <3> QED BY <1>2, <2>1, <3>2 DEF MemoryMoves
  <2> QED BY <2>1 DEF MemoryMoves
<1> QED BY <1>4, <1>5, AppMoves

\* A received answer brings its token into the queue.
LEMMA PushTokens ==
  ASSUME SafeInv, TokensInv, UNCHANGED <<device, session>>, CallsQuiet,
         NEW q, q = queue \/ q = Outdated(queue), NEW e \in Operation, queue' = Append(q, e),
         NEW c \in Calls, call[c].pc = "answered", call'[c] = NoCall, e.token = call[c].token,
         mem' = 0 \/ (mem' = mem /\ HeldInv')
  PROVE  TokensInv'
<1> DEFINE n == Len(queue) + 1
<1>1. queue \in Seq(Operation) BY AppTypes
<1>2. Ops = 1 .. Len(queue) /\ Len(queue) \in Nat BY <1>1, RestOfQueue
<1>3. /\ q \in Seq(Operation) /\ DOMAIN q = Ops /\ Len(q) = Len(queue)
      /\ \A i \in Ops : q[i].token = queue[i].token
  <2>1. CASE q = queue BY <1>1, <2>1 DEF Ops
  <2>2. CASE q = Outdated(queue)
    <3>1. PICK p \in Seq(Operation) : p = queue BY <1>1
    <3>2. /\ Outdated(p) \in Seq(Operation) /\ DOMAIN Outdated(p) = DOMAIN p
          /\ Len(Outdated(p)) = Len(p)
          /\ \A i \in DOMAIN p : Outdated(p)[i].token = p[i].token
      BY OutdatedQueue
    <3> QED BY <2>2, <3>1, <3>2, Zenon DEF Ops
  <2> QED BY <2>1, <2>2
<1>4. Ops' = Ops \cup {n} /\ queue'[n] = e /\ \A i \in Ops : queue'[i] = q[i]
  BY <1>3, AppendRow DEF Ops
<1>5. n \notin Ops BY <1>2
<1> HIDE DEF n
<1>6. \A i \in Ops' : queue'[i].token # 0 => From(i)
  <2>1. \A i \in Ops : From(i) BY <1>3, <1>4 DEF From
  <2>2. From(n) BY <1>4 DEF From
  <2> QED BY <1>4, <2>1, <2>2
<1>7. ASSUME NEW i \in Ops', NEW j \in Ops', queue'[i].token # 0, queue'[i].token = queue'[j].token
      PROVE  i = j
  <2>1. call[c].token # 0 => \A m \in Ops : queue[m].token # call[c].token
    BY DEF TokensInv, AnswersInv
  <2>2. CASE i \in Ops /\ j \in Ops BY <1>3, <1>4, <1>7, <2>2 DEF TokensInv, StoresInv
  <2>3. CASE i = n \/ j = n BY <1>3, <1>4, <1>7, <2>1, <2>3
  <2> QED BY <1>4, <2>2, <2>3
<1>8. MemoryMoves BY DEF MemoryMoves
<1> QED BY <1>6, <1>7, <1>8, AppMoves

\* Tokens stay where they are.
LEMMA StayTokens ==
  ASSUME SafeInv, TokensInv, UNCHANGED <<device, session, mem>>, CallsQuiet,
         Ops' = Ops, \A i \in Ops : queue'[i].token = queue[i].token,
         mem = 0 \/ HeldInv'
  PROVE  TokensInv'
<1>1. queue \in Seq(Operation) BY AppTypes
<1>2. \A i \in Ops : i \in Nat /\ i + 0 = i BY <1>1, RestOfQueue
<1>3. /\ \A i \in Ops' : queue'[i].token # 0 => From(i)
      /\ \A i, j \in Ops' : queue'[i].token # 0 /\ queue'[i].token = queue'[j].token => i = j
  <2>1. \A i \in Ops' : queue'[i].token = 0 \/ (i + 0 \in Ops /\ queue'[i].token = queue[i + 0].token)
    BY <1>2
  <2>2. \A i \in Ops' : i \in Nat BY <1>2
  <2> QED BY <2>1, <2>2, QueueTokens
<1>4. MemoryMoves BY DEF MemoryMoves
<1> QED BY <1>3, <1>4, AppMoves

\* A refresh starts with the token in memory.
LEMMA StartTokens ==
  ASSUME SafeInv, TokensInv, NEW c \in Calls, StartRefresh(c)
  PROVE  TokensInv'
<1>1. /\ mem # 0 /\ flight.stage = "none" /\ Place(c, "refresh", mem)
      /\ UNCHANGED <<device, session, mem, queue>>
      /\ flight'.stage = "calling" /\ flight'.call = c /\ flight'.current
  BY NoFlightFields DEF StartRefresh, FlightRec
<1>2. /\ ReuseInv /\ ReadersInv /\ AnswersInv /\ StoresInv /\ HeldInv BY DEF TokensInv
<1>3. ~session[mem].replaced /\ \A d \in Calls : ~Reads(d, mem) BY <1>1, <1>2 DEF HeldInv
<1>4. mem \in Nat BY AppTypes, AuthTypes
<1>5. PICK x \in Call : Becomes(c, x) /\ x = CallRec("refresh", mem, {}, FALSE, "ok", 0)
  BY <1>1, <1>4, TokenTypes, PlaceBecomes DEF Stages
<1>6. x.pc = "refresh" /\ x.arg = mem BY <1>5 DEF CallRec
<1>7. call'[c] = x /\ \A d \in Calls \ {c} : call'[d] = call[d] BY <1>5, TokenTypes, BecomesFields
<1>8. x.pc \notin Revoking /\ x.pc # "answered" BY <1>6 DEF Revoking
<1>9. Ops' = Ops BY <1>1 DEF Ops
<1>10. ASSUME NEW t, Unused(t) PROVE Unused(t)'
  BY <1>1, <1>6, <1>7, <1>10 DEF Unused, Reads
<1>11. ReuseInv' BY <1>1, <1>2, <1>7, <1>8 DEF ReuseInv
<1>12. ReadersInv' BY <1>1, <1>2, <1>3, <1>6, <1>7 DEF ReadersInv, Reads
<1>13. AnswersInv'
  <2>1. ASSUME NEW d \in Calls, NEW t, call'[d].pc = "answered", t = call'[d].token, t # 0
        PROVE  /\ Unused(t)'
               /\ \A e \in Calls : call'[e].pc = "answered" /\ call'[e].token = t => e = d
               /\ \A i \in Ops : queue[i].token # t
    <3>1. call[d].pc = "answered" /\ t = call[d].token BY <1>7, <1>8, <2>1
    <3> QED BY <1>2, <1>7, <1>8, <1>10, <2>1, <3>1 DEF AnswersInv
  <2>2. \A t : \A d \in Calls : call'[d].pc = "answered" /\ t = call'[d].token /\ t # 0 =>
          /\ t # mem' /\ ~session'[t].replaced /\ \A e \in Calls : ~Reads(e, t)'
          /\ \A e \in Calls : call'[e].pc = "answered" /\ call'[e].token = t => e = d
          /\ \A i \in Ops : queue[i].token # t
    BY <2>1 DEF Unused
  <2> QED BY <1>1, <1>9, <2>2 DEF AnswersInv, Unused, Reads
<1>14. StoresInv'
  <2>1. \A t : \A i \in Ops : t = queue[i].token /\ t # 0 =>
          t # mem' /\ ~session'[t].replaced /\ \A e \in Calls : ~Reads(e, t)'
    BY <1>2, <1>10 DEF StoresInv, Unused
  <2> QED BY <1>1, <1>2, <1>9, <2>1 DEF StoresInv, Unused, Reads
<1>15. HeldInv' BY <1>1, <1>3, <1>7 DEF HeldInv, Reads
<1> QED BY <1>11, <1>12, <1>13, <1>14, <1>15 DEF TokensInv

\* Calls the app makes or loses, and a sign-in that starts or ends early.
LEMMA OutsideTokens ==
  ASSUME SafeInv, AppInv, TokensInv,
         \/ \E c \in Calls :
              \/ ExchangeCode(c) \/ SignOut(c) \/ AnswerLost(c)
              \/ \E decision \in {"approve", "cancel"} : BrowserSubmits(c, decision)
              \/ \E f \in {0} \cup DOMAIN device : RevokeFromWeb(c, f)
         \/ SignIn \/ LoginFails
  PROVE  TokensInv'
<1>1. UNCHANGED <<mem, flight, queue, device, session>>
  BY DEF ExchangeCode, SignOut, AnswerLost, BrowserSubmits, RevokeFromWeb, SignIn, LoginFails,
         Received, NetworkFails, authVars, clientVars
<1>2. Ops' = Ops /\ \A i \in Ops : queue'[i].token = queue[i].token BY <1>1 DEF Ops
<1>3. AuthInv /\ AuthTypeOK /\ login \in Login /\ mem \in {0} \cup DOMAIN session BY AppTypes
<1>4. call \in [Calls -> Call] BY <1>3, AuthTypes
<1>5. ASSUME NEW c \in Calls,
             \/ ExchangeCode(c) \/ SignOut(c)
             \/ \E decision \in {"approve", "cancel"} : BrowserSubmits(c, decision)
             \/ \E f \in {0} \cup DOMAIN device : RevokeFromWeb(c, f)
      PROVE  /\ call[c].pc = "idle"
             /\ \E pc \in {"approve", "cancel", "exchange", "revoke"}, arg \in Nat : Place(c, pc, arg)
  <2>1. login.request \in Nat
    <3>1. login.request \in 0 .. MaxRequests BY <1>3, LoginFields
    <3> QED BY <3>1
  <2>2. mem # 0 => session[mem].family \in Nat
    BY <1>3, AuthTypes DEF AuthInv, RowsInv
  <2>3. {0} \cup DOMAIN device \subseteq Nat BY <1>3, AuthTypes
  <2>4. \E pc \in {"approve", "cancel", "exchange", "revoke"}, arg \in Nat : Place(c, pc, arg)
    BY <1>5, <2>1, <2>2, <2>3 DEF ExchangeCode, SignOut, BrowserSubmits, RevokeFromWeb
  <2>5. NoCall.pc = "idle" BY NoCallFields DEF CallRec
  <2>6. call[c] = NoCall BY <2>4 DEF Place
  <2> QED BY <2>4, <2>5, <2>6
<1>6. ASSUME NEW c \in Calls,
             \/ ExchangeCode(c) \/ SignOut(c)
             \/ \E decision \in {"approve", "cancel"} : BrowserSubmits(c, decision)
             \/ \E f \in {0} \cup DOMAIN device : RevokeFromWeb(c, f)
      PROVE  TokensInv'
  <2>1. /\ call[c].pc = "idle"
        /\ \E pc \in {"approve", "cancel", "exchange", "revoke"}, arg \in Nat : Place(c, pc, arg)
    BY <1>5, <1>6
  <2>2. CallsQuiet /\ \A d \in Calls : d # c => call'[d] = call[d]
    BY <1>4, <2>1, QuietCalls
  <2>3. HeldInv' BY <1>1, <2>1, <2>2, HeldStays
  <2> QED BY <1>1, <1>2, <2>2, <2>3, StayTokens
<1>7. ASSUME NEW c \in Calls, AnswerLost(c) PROVE TokensInv'
  <2>1. c # flight.call /\ call' = [call EXCEPT ![c] = NoCall] BY <1>7 DEF AnswerLost, Received
  <2>2. CallsQuiet /\ \A d \in Calls : d # c => call'[d] = call[d] BY <1>4, <2>1, QuietCalls
  <2>3. HeldInv' BY <1>1, <2>1, <2>2, HeldStays
  <2> QED BY <1>1, <1>2, <2>2, <2>3, StayTokens
<1>8. CASE SignIn
  <2>1. call' = call BY <1>8 DEF SignIn
  <2>2. CallsQuiet BY <2>1 DEF CallsQuiet
  <2>3. HeldInv' BY <1>1, <2>1, <2>2, HeldStays
  <2> QED BY <1>1, <1>2, <2>2, <2>3, StayTokens
<1>9. CASE LoginFails
  <2>1. login.stage # "none" BY <1>9 DEF LoginFails
  <2>2. mem = 0
    <3>1. login # NoLogin BY <2>1 DEF NoLogin
    <3> QED BY <3>1 DEF AppInv, MemoryInv
  <2>3. call' = call \/ \E c : call' = [call EXCEPT ![c] = NoCall]
    BY <1>9 DEF LoginFails, Received, NetworkFails, authVars
  <2>4. CallsQuiet BY <1>4, <2>3, QuietCalls
  <2> QED BY <1>1, <1>2, <2>2, <2>4, StayTokens
<1> QED BY <1>6, <1>7, <1>8, <1>9

\* A refresh is answered, or not.
LEMMA RefreshTokens ==
  ASSUME SafeInv, AppInv, TokensInv, ~torn',
         RefreshOk \/ RefreshRetryable \/ RefreshUnreadable \/ RefreshFails
  PROVE  TokensInv'
<1>1. /\ AuthInv /\ AuthTypeOK /\ flight \in Flight /\ queue \in Seq(Operation)
      /\ call \in [Calls -> Call] /\ mem \in {0} \cup DOMAIN session
  BY AppTypes, TokenTypes
<1>2. HeldInv BY DEF TokensInv
<1>3. flight.stage = "calling" /\ UNCHANGED <<device, session>>
  BY DEF RefreshOk, RefreshRetryable, RefreshUnreadable, RefreshFails, Received, NetworkFails
<1> DEFINE c == flight.call
<1>4. ASSUME Received(c)
      PROVE  /\ c \in Calls /\ call[c].pc = "answered" /\ call'[c] = NoCall /\ CallsQuiet
             /\ \A d \in Calls : ~Reads(d, mem) \/ mem = 0
  <2>1. c \in Calls BY <1>1, <1>4, FlightFields DEF Received
  <2>2. call[c].pc = "answered" /\ call' = [call EXCEPT ![c] = NoCall] BY <1>4 DEF Received, At
  <2>3. call'[c] = NoCall /\ CallsQuiet BY <1>1, <2>1, <2>2, QuietCalls
  <2>4. \A d \in Calls : ~Reads(d, mem) \/ mem = 0
    BY <1>2, <2>2 DEF HeldInv, Reads, Refreshing
  <2> QED BY <2>1, <2>2, <2>3, <2>4
<1>5. CASE RefreshOk
  <2> DEFINE e == WriteOp(call[c].token, flight.token, flight.current, "refresh")
  <2>1. /\ Received(c) /\ mem' = mem /\ queue' = Append(queue, e)
        /\ flight' = [flight EXCEPT !.stage = "persisting", !.call = NoOne]
    BY <1>5 DEF RefreshOk
  <2>2. /\ c \in Calls /\ call[c].pc = "answered" /\ call'[c] = NoCall /\ CallsQuiet
        /\ \A d \in Calls : ~Reads(d, mem) \/ mem = 0
    BY <1>4, <2>1
  <2>3. e \in Operation /\ e.token = call[c].token
    <3>1. call[c].token \in {0} \cup DOMAIN session BY <2>2, TokenTypes
    <3>2. flight.token \in Tokens /\ flight.current \in BOOLEAN BY <1>1, FlightFields
    <3> QED BY <1>1, <3>1, <3>2, Operations DEF WriteOp
  <2> HIDE DEF e
  <2>4. flight'.stage = "persisting" /\ flight'.current = flight.current
    BY <1>1, <2>1 DEF Flight
  <2>5. HeldInv'
    <3>1. "revoke" \notin Refreshing BY DEF Refreshing
    <3>2. \A t : \A d \in Calls : (call'[d].pc \in Refreshing /\ call'[d].arg = t) => Reads(d, t)
      BY <2>2, <3>1 DEF CallsQuiet, Reads
    <3> QED BY <1>2, <1>3, <2>1, <2>2, <2>4, <3>2 DEF HeldInv, Reads
  <2> QED BY <1>3, <2>1, <2>2, <2>3, <2>5, PushTokens
<1>6. CASE RefreshRetryable
  <2>1. Received(c) /\ call[c].answer = "error" /\ UNCHANGED <<mem, queue>>
    BY <1>6 DEF RefreshRetryable
  <2>2. call[c].pc = "answered" /\ CallsQuiet BY <1>4, <2>1
  <2>3. mem # 0 => ~session[mem].replaced BY <1>2, <1>3, <2>1 DEF HeldInv
  <2>4. call[c].pc \notin Refreshing BY <2>2 DEF Refreshing
  <2>5. HeldInv' BY <1>3, <2>1, <2>2, <2>3, <2>4, HeldEnds
  <2>6. Ops' = Ops /\ \A i \in Ops : queue'[i].token = queue[i].token BY <2>1 DEF Ops
  <2> QED BY <1>3, <2>1, <2>2, <2>5, <2>6, StayTokens
<1>7. CASE RefreshUnreadable BY <1>7 DEF RefreshUnreadable
<1>8. CASE RefreshFails
  <2>1. CallsQuiet
    <3>1. CASE Received(c) BY <1>4, <3>1
    <3>2. CASE NetworkFails BY <3>2 DEF NetworkFails, CallsQuiet
    <3> QED BY <1>8, <3>1, <3>2 DEF RefreshFails
  <2>2. Clear(queue, "refresh") BY <1>8 DEF RefreshFails, RefreshClears
  <2>3. Rest(queue, 0) BY <1>1, RestOfQueue
  <2> QED BY <1>3, <2>1, <2>2, <2>3, ClearTokens
<1> QED BY <1>5, <1>6, <1>7, <1>8

\* A write runs or is published, a deletion ends.
LEMMA StorageTokens ==
  ASSUME SafeInv, AppInv, TokensInv, ~torn', WriteRuns \/ Publish \/ ClearOk \/ ClearFails
  PROVE  TokensInv'
<1>1. /\ queue # <<>> /\ queue \in Seq(Operation) /\ flight \in Flight
      /\ UNCHANGED <<device, session, call>>
  BY AppTypes DEF WriteRuns, Publish, ClearOk, ClearFails, ClearEnds, Running
<1>2. CallsQuiet BY <1>1 DEF CallsQuiet
<1>3. /\ Rest(Tail(queue), 1) /\ 1 \in Ops /\ Head(queue) = queue[1]
  BY <1>1, RestOfQueue
<1>4. OpOK(queue[1], flight, login) BY <1>3 DEF AppInv, OwnersInv
<1>5. HeldInv BY DEF TokensInv
<1>6. CASE ClearLocalSession(Tail(queue)) \/ RefreshClears(Tail(queue))
  <2>1. Clear(Tail(queue), "cleanup") \/ Clear(Tail(queue), "refresh")
    BY <1>6 DEF ClearLocalSession, RefreshClears
  <2> QED BY <1>1, <1>2, <1>3, <2>1, ClearTokens
<1>7. CASE WriteRejected BY <1>6, <1>7 DEF WriteRejected
<1>8. CASE /\ queue[1].kind = "write" /\ WriteSuperseded
           /\ ~queue[1].current \/ (queue[1].expect # 0 /\ mem # queue[1].expect)
  <2>1. CASE queue[1].by = "refresh"
    <3>1. queue' = Tail(queue) /\ mem' = mem BY <1>3, <1>8, <2>1 DEF WriteSuperseded
    <3>2. flight.stage = "persisting" /\ queue[1].expect = flight.token
          /\ queue[1].current = flight.current
      BY <1>4, <1>8, <2>1 DEF OpOK
    <3>3. flight.current => mem = flight.token BY DEF AppInv, MemoryInv
    <3>4. mem # 0 => ~session[mem].replaced BY <1>5, <1>8, <3>2, <3>3 DEF HeldInv
    <3>5. HeldInv' BY <1>1, <1>2, <3>1, <3>2, <3>4, HeldEnds
    <3> QED BY <1>1, <1>2, <3>1, <3>5, PopTokens
  <2>2. CASE queue[1].by # "refresh" BY <1>3, <1>6, <1>8, <2>2 DEF WriteSuperseded
  <2> QED BY <2>1, <2>2
<1>9. CASE WriteRuns
  <2>1. queue[1].kind = "write" BY <1>3, <1>9 DEF WriteRuns, Running
  <2>2. CASE queue' = [queue EXCEPT ![1].written = TRUE] /\ UNCHANGED <<mem, flight>>
    <3>1. Ops' = Ops /\ \A i \in Ops : queue'[i].token = queue[i].token
      <4>1. Existing(queue, DOMAIN session) BY AppTypes
      <4>2. PICK p : p = queue' OBVIOUS
      <4>3. Marked(queue, p) BY <2>2, <4>2 DEF Marked
      <4>4. DOMAIN p = DOMAIN queue /\ \A i \in DOMAIN queue : p[i].token = queue[i].token
        BY <1>1, <4>1, <4>3, ExistingWritten
      <4> QED BY <4>2, <4>4 DEF Ops
    <3>2. HeldInv' BY <1>1, <1>2, <2>2, HeldStays
    <3> QED BY <1>1, <1>2, <2>2, <3>1, <3>2, StayTokens
  <2> QED BY <1>3, <1>7, <1>8, <1>9, <2>1, <2>2 DEF WriteRuns
<1>10. CASE Publish
  <2>1. queue[1].kind = "write" BY <1>3, <1>10 DEF Publish, Running
  <2>2. CASE mem' = queue[1].token /\ queue' = Tail(queue) BY <1>1, <1>2, <2>2, PopTokens
  <2> QED BY <1>3, <1>6, <1>8, <1>10, <2>1, <2>2 DEF Publish, LoginStored
<1>11. CASE ClearOk
  <2>1. queue' = Tail(queue) /\ mem' = mem /\ queue[1].kind = "clear"
    BY <1>3, <1>11 DEF ClearOk, ClearEnds, Running
  <2>2. mem' = 0 BY <1>3, <2>1 DEF AppInv, MemoryInv
  <2>3. HeldInv' BY <2>2 DEF HeldInv
  <2> QED BY <1>1, <1>2, <2>1, <2>3, PopTokens
<1>12. CASE ClearFails BY <1>12 DEF ClearFails
<1> QED BY <1>9, <1>10, <1>11, <1>12

\* A sign-in brings new tokens; the provider clears the session; the app starts
\* again with what it had.
LEMMA ProviderTokens ==
  ASSUME SafeInv, AppInv, TokensInv, ~torn',
         LoginTokens \/ SignOutLocally \/ SyncFails \/ RetryCleanup \/ Restart
  PROVE  TokensInv'
<1>1. /\ AuthInv /\ AuthTypeOK /\ login \in Login /\ queue \in Seq(Operation)
      /\ call \in [Calls -> Call]
  BY AppTypes, TokenTypes
<1>2. UNCHANGED <<device, session>>
  BY DEF LoginTokens, SignOutLocally, SyncFails, RetryCleanup, Restart, Received, NetworkFails, authVars
<1>3. CASE LoginTokens
  <2> DEFINE c == login.call
             e == WriteOp(call[c].token, 0, TRUE, "login")
  <2>1. /\ login.stage = "exchange" /\ Received(c) /\ mem' = mem
        /\ queue' = Append(Outdated(queue), e)
    BY <1>3 DEF LoginTokens
  <2>2. c \in Calls BY <1>1, <2>1, LoginFields DEF Received
  <2>3. call[c].pc = "answered" /\ call' = [call EXCEPT ![c] = NoCall] BY <2>1 DEF Received, At
  <2>4. CallsQuiet /\ call'[c] = NoCall BY <1>1, <2>2, <2>3, QuietCalls
  <2>5. mem' = 0
    <3>1. login # NoLogin BY <2>1 DEF NoLogin
    <3> QED BY <2>1, <3>1 DEF AppInv, MemoryInv
  <2>6. e \in Operation /\ e.token = call[c].token
    <3>1. call[c].token \in {0} \cup DOMAIN session BY <2>2, <2>3, TokenTypes
    <3>2. 0 \in Tokens BY <1>1, AuthTypes DEF Tokens
    <3> QED BY <1>1, <3>1, <3>2, Operations DEF WriteOp
  <2> HIDE DEF e
  <2>7. PICK q : q = Outdated(queue) OBVIOUS
  <2>8. queue' = Append(q, e) BY <2>1, <2>7
  <2> QED BY <1>2, <2>2, <2>3, <2>4, <2>5, <2>6, <2>7, <2>8, PushTokens
<1>4. CASE SignOutLocally \/ SyncFails \/ RetryCleanup
  <2>1. Clear(queue, "cleanup")
    BY <1>4 DEF SignOutLocally, SyncFails, RetryCleanup, ClearLocalSession
  <2>2. call' = call \/ \E c : call' = [call EXCEPT ![c] = NoCall]
    BY <1>4 DEF SignOutLocally, SyncFails, RetryCleanup, Received, NetworkFails, authVars
  <2>3. CallsQuiet BY <1>1, <2>2, QuietCalls
  <2>4. Rest(queue, 0) BY <1>1, RestOfQueue
  <2> QED BY <1>2, <2>1, <2>3, <2>4, ClearTokens
<1>5. CASE Restart
  <2>1. flight' = flight /\ mem' = mem /\ call' = call BY <1>5 DEF Restart
  <2>2. CallsQuiet BY <2>1 DEF CallsQuiet
  <2>3. HeldInv' BY <1>2, <2>1, <2>2, HeldStays
  <2>4. MemoryMoves BY <2>1, <2>3 DEF MemoryMoves
  <2>5. \A i \in Ops' : queue'[i].token = 0
    <3>1. CASE queue' = <<>> BY <3>1, EmptySeq DEF Ops
    <3>2. CASE queue' = <<ClearOp("cleanup")>> BY <3>2 DEF Ops, ClearOp
    <3> QED BY <1>5, <3>1, <3>2 DEF Restart
  <2> QED BY <1>2, <2>2, <2>4, <2>5, AppMoves
<1> QED BY <1>3, <1>4, <1>5

LEMMA InitTokens == Init => TokensInv
<1> SUFFICES ASSUME Init PROVE TokensInv OBVIOUS
<1>1. DOMAIN device = {} /\ Ops = {} BY EmptySeq DEF Init, AuthInit, Ops
<1>2. \A c \in Calls : call[c].pc = "idle" BY NoCallFields DEF Init, AuthInit, CallRec
<1>3. "idle" \notin Refreshing \cup Revoking \cup {"answered"} BY DEF Refreshing, Revoking
<1> QED BY <1>1, <1>2, <1>3 DEF Init, TokensInv, ReuseInv, ReadersInv, AnswersInv, StoresInv, HeldInv

LEMMA NextTokens == SafeInv /\ AppInv /\ UntornInv /\ [Next]_vars => UntornInv'
<1> SUFFICES ASSUME SafeInv, AppInv, UntornInv, [Next]_vars, ~torn' PROVE TokensInv'
  BY DEF UntornInv
<1>1. ~torn
  BY DEF Next, vars, clientVars, ServerStep, StartRefresh, ExchangeCode, SignOut, AnswerLost,
         BrowserSubmits, RevokeFromWeb, RefreshOk, RefreshRetryable, RefreshUnreadable,
         RefreshFails, WriteRuns, Publish, ClearOk, ClearFails, SignIn, LoginTokens, LoginFails,
         SignOutLocally, SyncFails, RetryCleanup, Restart
<1>2. TokensInv BY <1>1 DEF UntornInv
<1>3. CASE UNCHANGED vars
  BY <1>2, <1>3
  DEF vars, TokensInv, ReuseInv, ReadersInv, AnswersInv, StoresInv, HeldInv, Unused, Reads, Ops
<1> QED BY <1>2, <1>3, ServerTokens, StartTokens, OutsideTokens, RefreshTokens, StorageTokens,
           ProviderTokens DEF Next

\* However refreshes, exchanges, revocations, sign-outs and restarts interleave:
\* the server ends a device for reuse only if the app was stopped with its disk
\* behind, could not delete its bundle, or never got an answer it could read to
\* a refresh that committed.  The app itself never sends a token twice.
THEOREM SessionReuseOnlyWhenTorn == Spec => []ReuseOnlyWhenTorn
<1>1. UntornInv => ReuseOnlyWhenTorn BY DEF UntornInv, TokensInv, ReuseInv, ReuseOnlyWhenTorn
<1>2. Spec => []UntornInv
  <2>1. Init => UntornInv BY InitTokens DEF UntornInv
  <2> QED BY <2>1, InitSafe, InitApp, NextSafe, NextApp, NextTokens, PTL DEF Spec
<1> QED BY <1>1, <1>2, PTL

=============================================================================
