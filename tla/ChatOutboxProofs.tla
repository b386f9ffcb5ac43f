-------------------------- MODULE ChatOutboxProofs --------------------------
(***************************************************************************)
(* Proofs about the chat event outbox: a claim holds until the pass that    *)
(* made it is late, and an event that was delivered or given up stays so.   *)
(***************************************************************************)
EXTENDS ChatOutbox, SequenceTheorems, TLAPS

-----------------------------------------------------------------------------
(* The inductive invariant                                                   *)

Working == {"publish", "delivered", "failed"}

\* A pass under way has a candidate.
PassOK(p) == p.pc # "idle" => p.batch # <<>>

BatchInv == \A w \in Workers : PassOK(pass[w])

\* Only an event that still waits has an owner.
OwnersInv == \A e \in Events : row[e].status # "open" => row[e].owner = NoOwner /\ row[e].holder = NoOwner

\* A worker in time holds the claim it made, with what is left of its lease.
ClaimsInv ==
  \A w \in Workers, e \in Events \ misfenced :
    WorksOn(w, e) /\ age[w] < Lease => row[e].holder = w /\ row[e].lease = Lease - age[w]

OutboxInv == OutboxTypeOK /\ BatchInv /\ OwnersInv /\ ClaimsInv

-----------------------------------------------------------------------------
(* Rows and passes by their fields                                           *)

RowRec(status, available, lease, owner, holder, attempts) ==
  [status |-> status, available |-> available, lease |-> lease, owner |-> owner,
   holder |-> holder, attempts |-> attempts]
PassRec(pc, batch) == [pc |-> pc, batch |-> batch]

Statuses == {"absent", "open", "delivered", "dead"}

LEMMA Numbers ==
  /\ MaxRows \in Nat /\ Lease \in Nat \ {0} /\ Backoff \in Nat /\ BatchSize \in Nat
  /\ MaxStall \in Nat /\ MaxFaults \in Nat /\ Lease <= MaxStall
  /\ NoOwner \notin Names /\ NoOwner \notin Workers
BY OutboxAssumption

LEMMA RowFields ==
  ASSUME NEW r \in Row
  PROVE  /\ r.status \in Statuses /\ r.available \in Times /\ r.lease \in Times
         /\ r.owner \in Names \cup {NoOwner} /\ r.holder \in Workers \cup {NoOwner}
         /\ r.attempts \in Nat
BY DEF Row, Statuses

LEMMA RowIsRow ==
  ASSUME NEW status \in Statuses, NEW available \in Times, NEW lease \in Times,
         NEW owner \in Names \cup {NoOwner}, NEW holder \in Workers \cup {NoOwner},
         NEW attempts \in Nat, NEW x, x = RowRec(status, available, lease, owner, holder, attempts)
  PROVE  /\ x \in Row /\ x.status = status /\ x.lease = lease /\ x.owner = owner
         /\ x.holder = holder
BY DEF RowRec, Row, Statuses

LEMMA SomeTimes ==
  /\ 0 \in Times /\ Long \in Times /\ Backoff \in Times
  /\ \A t \in Times : Sooner(t) \in Times
  /\ \A a \in 0 .. MaxStall : Lease - a \in Times
BY Numbers DEF Times, Long, Sooner

LEMMA NewRowFields ==
  /\ NewRow \in Row /\ NewRow.status = "open"
  /\ [NewRow EXCEPT !.status = "absent"] \in Row
  /\ [NewRow EXCEPT !.status = "absent"].owner = NoOwner
  /\ [NewRow EXCEPT !.status = "absent"].holder = NoOwner
BY SomeTimes DEF NewRow, Row

LEMMA PassFields ==
  /\ \A p \in Pass : p.pc \in {"idle", "claim"} \cup Working /\ p.batch \in Seq(Candidate)
  /\ \A pc \in {"idle", "claim"} \cup Working, b \in Seq(Candidate) :
       PassRec(pc, b) \in Pass /\ PassRec(pc, b).pc = pc /\ PassRec(pc, b).batch = b
  /\ NoPass \in Pass /\ NoPass.pc = "idle"
<1>1. <<>> \in Seq(Candidate) OBVIOUS
<1> QED BY <1>1 DEF Pass, PassRec, NoPass, Working

-----------------------------------------------------------------------------
(* What the parts of a step do                                               *)

LEMMA Types ==
  ASSUME OutboxTypeOK
  PROVE  /\ \A w \in Workers : ownerOf[w] \in Names /\ pass[w] \in Pass /\ age[w] \in 0 .. MaxStall
         /\ \A e \in Events : row[e] \in Row
         /\ pass \in [Workers -> Pass] /\ row \in [Events -> Row]
BY DEF OutboxTypeOK

LEMMA Candidates ==
  ASSUME OutboxTypeOK, BatchInv, NEW w \in Workers, pass[w].pc # "idle"
  PROVE  /\ pass[w].batch \in Seq(Candidate) /\ pass[w].batch # <<>>
         /\ Current(w) \in Candidate /\ Current(w).event \in Events
         /\ Tail(pass[w].batch) \in Seq(Candidate)
         /\ Len(pass[w].batch) # 1 => Tail(pass[w].batch) # <<>>
<1>1. pass[w].batch \in Seq(Candidate) /\ pass[w].batch # <<>>
  BY Types, PassFields DEF BatchInv, PassOK
<1>2. /\ Current(w) \in Candidate /\ Tail(pass[w].batch) \in Seq(Candidate)
      /\ Len(Tail(pass[w].batch)) = Len(pass[w].batch) - 1
  BY <1>1, HeadTailProperties DEF Current
<1>3. Len(pass[w].batch) # 1 => Tail(pass[w].batch) # <<>>
  <2>1. PICK n \in Nat : n = Len(pass[w].batch) BY <1>1, LenProperties
  <2>2. Tail(pass[w].batch) = <<>> => Len(Tail(pass[w].batch)) = 0 BY <1>2, EmptySeq
  <2>3. Tail(pass[w].batch) = <<>> => n - 1 = 0 BY <1>2, <2>1, <2>2
  <2> QED BY <2>1, <2>3
<1> QED BY <1>1, <1>2, <1>3 DEF Candidate

LEMMA NextPass ==
  ASSUME OutboxTypeOK, BatchInv, NEW w \in Workers, pass[w].pc # "idle", NextCandidate(w)
  PROVE  \E p \in Pass : pass' = [pass EXCEPT ![w] = p] /\ PassOK(p) /\ p.pc \notin Working
<1> DEFINE b == pass[w].batch
           p == IF Len(b) = 1 THEN NoPass ELSE PassRec("claim", Tail(b))
<1>1. pass' = [pass EXCEPT ![w] = p] BY DEF NextCandidate, PassRec
<1>2. CASE Len(b) = 1 BY <1>1, <1>2, PassFields DEF PassOK, Working
<1>3. CASE Len(b) # 1
  <2>1. p = PassRec("claim", Tail(b)) BY <1>3
  <2>2. b \in Seq(Candidate) /\ Tail(b) \in Seq(Candidate) BY Candidates
  <2> HIDE DEF b
  <2>4. p \in Pass /\ p.pc = "claim" /\ p.batch = Tail(b)
    <3> HIDE DEF p
    <3> QED BY <2>1, <2>2, PassFields
  <2>3. PassOK(p) /\ p.pc \notin Working BY <1>3, <2>4, Candidates DEF PassOK, Working, b
  <2> HIDE DEF p
  <2> QED BY <1>1, <2>4, <2>3
<1> QED BY <1>2, <1>3

LEMMA GoesTo ==
  ASSUME OutboxTypeOK, BatchInv, NEW w \in Workers, NEW pc \in Working, pass[w].pc # "idle",
         GoTo(w, pc)
  PROVE  \E p \in Pass : /\ pass' = [pass EXCEPT ![w] = p] /\ PassOK(p)
                         /\ p.pc = pc /\ p.batch = pass[w].batch
<1>1. PICK p : p = [pass[w] EXCEPT !.pc = pc] OBVIOUS
<1>2. p \in Pass /\ p.pc = pc /\ p.batch = pass[w].batch
  BY <1>1, Types DEF Pass, Working
<1>3. pass' = [pass EXCEPT ![w] = p] BY <1>1 DEF GoTo
<1>4. PassOK(p) BY <1>2, Candidates DEF PassOK
<1> QED BY <1>2, <1>3, <1>4

\* A step of the pass of w that leaves the rows alone and claims nothing.
LEMMA RowsStay ==
  ASSUME OutboxInv, UNCHANGED <<ownerOf, row, misfenced>>, faults' \in 0 .. MaxFaults,
         NEW w \in Workers, NEW p \in Pass, PassOK(p), pass' = [pass EXCEPT ![w] = p],
         p.pc \in Working => pass[w].pc \in Working /\ p.batch = pass[w].batch,
         age' = age \/ (age' = [age EXCEPT ![w] = 0] /\ p.pc \notin Working)
  PROVE  OutboxInv'
<1>1. pass \in [Workers -> Pass] /\ age \in [Workers -> 0 .. MaxStall] /\ 0 \in 0 .. MaxStall
  BY Types, Numbers DEF OutboxInv, OutboxTypeOK
<1>2. OutboxTypeOK' BY <1>1 DEF OutboxInv, OutboxTypeOK
<1>3. BatchInv' BY <1>1 DEF OutboxInv, BatchInv
<1>4. OwnersInv' BY DEF OutboxInv, OwnersInv
<1>5. \A v \in Workers, e \in Events : WorksOn(v, e)' => WorksOn(v, e) /\ age'[v] = age[v]
  BY <1>1 DEF WorksOn, Working, Current
<1>6. ClaimsInv' BY <1>5 DEF OutboxInv, ClaimsInv
<1> QED BY <1>2, <1>3, <1>4, <1>6 DEF OutboxInv

-----------------------------------------------------------------------------
(* Each action keeps the invariant                                           *)

LEMMA ClaimKeeps ==
  ASSUME OutboxInv, NEW w \in Workers, Claim(w), UNCHANGED ownerOf
  PROVE  OutboxInv'
<1> DEFINE e == Current(w).event
<1>1. OutboxTypeOK /\ BatchInv /\ pass[w].pc = "claim" /\ faults' = faults
      /\ age' = age /\ misfenced' = misfenced
  BY DEF OutboxInv, Claim
<1>2. e \in Events /\ row[e] \in Row /\ ownerOf[w] \in Names /\ age[w] \in 0 .. MaxStall
      /\ pass \in [Workers -> Pass] /\ row \in [Events -> Row]
  BY <1>1, Candidates, Types
<1>3. CASE NextCandidate(w) /\ row' = row
  <2>1. PICK p \in Pass : pass' = [pass EXCEPT ![w] = p] /\ PassOK(p) /\ p.pc \notin Working
    BY <1>1, <1>3, NextPass
  <2>2. faults' \in 0 .. MaxFaults BY <1>1 DEF OutboxTypeOK
  <2> QED BY <1>1, <1>3, <2>1, <2>2, RowsStay
<1>4. CASE /\ Claimable(e, age[w]) /\ GoTo(w, "publish")
           /\ row' = [row EXCEPT ![e] = [@ EXCEPT !.attempts = row[e].attempts + 1, !.lease = Lease - age[w],
                                                  !.owner = ownerOf[w], !.holder = w]]
  <2>1. PICK p \in Pass : /\ pass' = [pass EXCEPT ![w] = p] /\ PassOK(p)
                          /\ p.pc = "publish" /\ p.batch = pass[w].batch
    BY <1>1, <1>4, GoesTo DEF Working
  <2>2. row[e].status = "open" /\ row[e].lease <= -age[w] BY <1>4 DEF Claimable
  <2>3. PICK x : row' = [row EXCEPT ![e] = x]
                 /\ x = RowRec(row[e].status, row[e].available, Lease - age[w], ownerOf[w], w,
                               row[e].attempts + 1)
    <3>1. PICK x : x = [row[e] EXCEPT !.attempts = row[e].attempts + 1, !.lease = Lease - age[w],
                                      !.owner = ownerOf[w], !.holder = w]
      OBVIOUS
    <3>2. x = RowRec(row[e].status, row[e].available, Lease - age[w], ownerOf[w], w,
                     row[e].attempts + 1)
      BY <1>2, <3>1 DEF Row, RowRec
    <3>3. row' = [row EXCEPT ![e] = x] BY <1>4, <3>1, Zenon
    <3> QED BY <3>2, <3>3
  <2>4. x \in Row /\ x.status = "open" /\ x.lease = Lease - age[w] /\ x.holder = w
    <3>1. /\ row[e].status \in Statuses /\ row[e].available \in Times /\ row[e].attempts + 1 \in Nat
          /\ Lease - age[w] \in Times
      BY <1>2, RowFields, SomeTimes
    <3> QED BY <1>2, <2>2, <2>3, <3>1, RowIsRow
  <2>5. OutboxTypeOK' BY <1>1, <1>2, <2>1, <2>3, <2>4 DEF OutboxTypeOK
  <2>6. BatchInv' BY <1>1, <1>2, <2>1 DEF BatchInv
  <2>7. OwnersInv' BY <1>2, <2>2, <2>3, <2>4 DEF OutboxInv, OwnersInv
  <2>8. ClaimsInv'
    <3>1. SUFFICES ASSUME NEW v \in Workers, NEW d \in Events \ misfenced, WorksOn(v, d)', age[v] < Lease
                   PROVE  row'[d].holder = v /\ row'[d].lease = Lease - age[v]
      BY <1>1 DEF ClaimsInv
    <3>2. CASE v = w
      <4>1. d = e BY <1>2, <2>1, <3>1, <3>2 DEF WorksOn, Current
      <4> QED BY <1>2, <2>3, <2>4, <3>2, <4>1
    <3>3. CASE v # w
      <4>1. WorksOn(v, d) BY <1>2, <2>1, <3>1, <3>3 DEF WorksOn, Current
      <4>2. row[d].holder = v /\ row[d].lease = Lease - age[v]
        BY <3>1, <4>1 DEF OutboxInv, ClaimsInv
      <4>3. d # e
        <5>1. age[v] \in 0 .. MaxStall BY <1>1, Types
        <5> QED BY <1>2, <2>2, <3>1, <4>2, <5>1, Numbers
      <4> QED BY <1>2, <2>3, <4>2, <4>3
    <3> QED BY <3>2, <3>3
  <2> QED BY <2>5, <2>6, <2>7, <2>8 DEF OutboxInv
<1> QED BY <1>3, <1>4 DEF Claim

\* An outcome is recorded, by the worker that holds the claim or by a namesake.
LEMMA MarkKeeps ==
  ASSUME OutboxInv, UNCHANGED <<ownerOf, age>>, faults' \in 0 .. MaxFaults,
         NEW w \in Workers, pass[w].pc # "idle", NextCandidate(w),
         NEW status \in Statuses, NEW available \in Times, Mark(w, status, available)
  PROVE  OutboxInv'
<1> DEFINE e == Current(w).event
           x == RowRec(status, available, Long, NoOwner, NoOwner, row[e].attempts)
<1>1. OutboxTypeOK /\ BatchInv BY DEF OutboxInv
<1>2. e \in Events /\ row[e] \in Row /\ pass \in [Workers -> Pass] /\ row \in [Events -> Row]
  BY <1>1, Candidates, Types
<1>3. PICK p \in Pass : pass' = [pass EXCEPT ![w] = p] /\ PassOK(p) /\ p.pc \notin Working
  BY <1>1, NextPass
<1>4. row' = [row EXCEPT ![e] = x]
  <2>1. ASSUME NEW r \in Row, NEW y,
               y = [r EXCEPT !.status = status, !.available = available,
                             !.lease = Long, !.owner = NoOwner, !.holder = NoOwner]
        PROVE  y = RowRec(status, available, Long, NoOwner, NoOwner, r.attempts)
    BY <2>1 DEF Row, RowRec
  <2> QED BY <1>2, <2>1, Zenon DEF Mark
<1>5. x \in Row /\ x.owner = NoOwner /\ x.holder = NoOwner
  <2>1. PICK y : y = x OBVIOUS
  <2>2. row[e].attempts \in Nat /\ Long \in Times /\ NoOwner \in Names \cup {NoOwner}
        /\ NoOwner \in Workers \cup {NoOwner}
    BY <1>2, RowFields, SomeTimes
  <2>3. y \in Row /\ y.owner = NoOwner /\ y.holder = NoOwner
    BY <2>1, <2>2, RowIsRow
  <2> QED BY <2>1, <2>3
<1>6. /\ misfenced' \subseteq Events /\ misfenced \subseteq misfenced'
      /\ e \notin misfenced' => row[e].holder = w
  BY <1>1, <1>2 DEF Mark, OutboxTypeOK
<1> HIDE DEF x
<1>7. OutboxTypeOK' BY <1>1, <1>2, <1>3, <1>4, <1>5, <1>6 DEF OutboxTypeOK
<1>8. BatchInv' BY <1>1, <1>2, <1>3 DEF BatchInv
<1>9. OwnersInv' BY <1>2, <1>4, <1>5 DEF OutboxInv, OwnersInv
<1>10. ClaimsInv'
  <2>1. SUFFICES ASSUME NEW v \in Workers, NEW d \in Events \ misfenced', WorksOn(v, d)', age[v] < Lease
                 PROVE  row'[d].holder = v /\ row'[d].lease = Lease - age[v]
    BY DEF ClaimsInv
  <2>2. v # w /\ WorksOn(v, d) BY <1>2, <1>3, <2>1 DEF WorksOn, Current, Working
  <2>3. row[d].holder = v /\ row[d].lease = Lease - age[v]
    BY <1>6, <2>1, <2>2 DEF OutboxInv, ClaimsInv
  <2>4. d # e BY <1>6, <2>1, <2>2, <2>3
  <2> QED BY <1>2, <1>4, <2>3, <2>4
<1> QED BY <1>7, <1>8, <1>9, <1>10 DEF OutboxInv

LEMMA OutcomeKeeps ==
  ASSUME OutboxInv, NEW w \in Workers, MarkDelivered(w) \/ MarkFailed(w) \/ Publish(w) \/ Stop(w),
         UNCHANGED ownerOf
  PROVE  OutboxInv'
<1> DEFINE e == Current(w).event
<1>1. OutboxTypeOK /\ BatchInv /\ age' = age
  BY DEF OutboxInv, MarkDelivered, MarkFailed, Publish, Stop
<1>2. faults' \in 0 .. MaxFaults
  BY <1>1, Numbers DEF OutboxTypeOK, Fault, MarkDelivered, MarkFailed, Publish, Stop
<1>3. ASSUME pass[w].pc # "idle"
      PROVE  e \in Events /\ row[e].status \in Statuses /\ row[e].available \in Times
  BY <1>1, <1>3, Candidates, Types, RowFields
<1>4. "delivered" \in Statuses /\ "dead" \in Statuses /\ Backoff \in Times BY SomeTimes DEF Statuses
<1>5. CASE pass[w].pc # "idle" /\ row' = row /\ misfenced' = misfenced /\ NextCandidate(w)
  <2>1. PICK p \in Pass : pass' = [pass EXCEPT ![w] = p] /\ PassOK(p) /\ p.pc \notin Working
    BY <1>1, <1>5, NextPass
  <2> QED BY <1>1, <1>2, <1>5, <2>1, RowsStay
<1>6. ASSUME row' = row, misfenced' = misfenced, pass[w].pc \in Working,
             NEW pc \in Working, GoTo(w, pc)
      PROVE  OutboxInv'
  <2>1. PICK p \in Pass : /\ pass' = [pass EXCEPT ![w] = p] /\ PassOK(p)
                          /\ p.pc = pc /\ p.batch = pass[w].batch
    BY <1>1, <1>6, GoesTo DEF Working
  <2> QED BY <1>1, <1>2, <1>6, <2>1, RowsStay
<1>7. CASE row' = row /\ misfenced' = misfenced /\ pass' = [pass EXCEPT ![w] = NoPass]
  BY <1>1, <1>2, <1>7, PassFields, RowsStay DEF PassOK, Working
<1>8. CASE MarkDelivered(w)
  BY <1>1, <1>2, <1>3, <1>4, <1>5, <1>6, <1>8, MarkKeeps DEF MarkDelivered, Working
<1>9. CASE MarkFailed(w)
  BY <1>1, <1>2, <1>3, <1>4, <1>5, <1>7, <1>9, MarkKeeps DEF MarkFailed
<1>10. CASE Publish(w) BY <1>6, <1>10 DEF Publish, Working
<1>11. CASE Stop(w) BY <1>7, <1>11 DEF Stop
<1> QED BY <1>8, <1>9, <1>10, <1>11
LEMMA StartKeeps ==
  ASSUME OutboxInv, NEW w \in Workers, Start(w), UNCHANGED ownerOf
  PROVE  OutboxInv'
<1>1. OutboxTypeOK BY DEF OutboxInv
<1>2. PICK n \in 1 .. BatchSize : \E b \in [1 .. n -> Events] :
        pass' = [pass EXCEPT ![w] =
                  [pc    |-> "claim",
                   batch |-> [i \in 1 .. n |-> [event |-> b[i], attempts |-> row[b[i]].attempts]]]]
  BY DEF Start
<1>3. PICK b \in [1 .. n -> Events] :
        pass' = [pass EXCEPT ![w] =
                  [pc    |-> "claim",
                   batch |-> [i \in 1 .. n |-> [event |-> b[i], attempts |-> row[b[i]].attempts]]]]
  BY <1>2
<1> DEFINE q == [i \in 1 .. n |-> [event |-> b[i], attempts |-> row[b[i]].attempts]]
<1>4. q \in Seq(Candidate) /\ q # <<>>
  <2>1. n \in Nat \ {0} BY Numbers
  <2>2. \A i \in 1 .. n : [event |-> b[i], attempts |-> row[b[i]].attempts] \in Candidate
    <3>1. \A i \in 1 .. n : b[i] \in Events /\ row[b[i]].attempts \in Nat
      BY <1>1, Types, RowFields
    <3> QED BY <3>1 DEF Candidate
  <2>3. q \in [1 .. n -> Candidate] BY <2>2
  <2>4. q \in Seq(Candidate) /\ Len(q) = n BY <2>1, <2>3, LenProperties
  <2> HIDE DEF q
  <2> QED BY <2>1, <2>4, EmptySeq
<1>5. pass' = [pass EXCEPT ![w] = PassRec("claim", q)] BY <1>3 DEF PassRec
<1> HIDE DEF q
<1>6. PICK p \in Pass : p = PassRec("claim", q) /\ p.pc = "claim" /\ p.batch = q
  BY <1>4, PassFields
<1>7. PassOK(p) /\ p.pc \notin Working BY <1>4, <1>6 DEF PassOK, Working
<1>8. faults' \in 0 .. MaxFaults /\ age' = [age EXCEPT ![w] = 0] /\ row' = row
      /\ misfenced' = misfenced
  BY <1>1 DEF Start, OutboxTypeOK
<1> QED BY <1>5, <1>6, <1>7, <1>8, RowsStay

LEMMA EnqueueKeeps ==
  ASSUME OutboxInv, NEW e \in Events, Enqueue(e), UNCHANGED ownerOf
  PROVE  OutboxInv'
<1>1. row \in [Events -> Row] BY Types DEF OutboxInv
<1>2. OutboxTypeOK' BY <1>1, NewRowFields DEF OutboxInv, OutboxTypeOK, Enqueue
<1>3. BatchInv' BY DEF OutboxInv, BatchInv, Enqueue
<1>4. OwnersInv' BY <1>1, NewRowFields DEF OutboxInv, OwnersInv, Enqueue
<1>5. row[e].holder = NoOwner BY DEF OutboxInv, OwnersInv, Enqueue
<1>6. \A w \in Workers, d \in Events : WorksOn(w, d)' = WorksOn(w, d)
  BY DEF Enqueue, WorksOn, Current
<1>7. ClaimsInv'
  <2>1. SUFFICES ASSUME NEW w \in Workers, NEW d \in Events \ misfenced, WorksOn(w, d), age[w] < Lease
                 PROVE  row'[d].holder = w /\ row'[d].lease = Lease - age[w]
    BY <1>6 DEF Enqueue, ClaimsInv
  <2>2. row[d].holder = w /\ row[d].lease = Lease - age[w] BY <2>1 DEF OutboxInv, ClaimsInv
  <2>3. d # e BY <1>5, <2>2, Numbers
  <2> QED BY <1>1, <2>2, <2>3 DEF Enqueue
<1> QED BY <1>2, <1>3, <1>4, <1>7 DEF OutboxInv

\* Time passes for the leases and the passes alike.
LEMMA TimeKeeps ==
  ASSUME OutboxInv, Tick \/ Stall, UNCHANGED ownerOf
  PROVE  OutboxInv'
<1>1. OutboxTypeOK /\ faults' \in 0 .. MaxFaults /\ Elapse
  BY Numbers DEF OutboxInv, OutboxTypeOK, Tick, Stall, Fault
<1>2. \A w \in Workers : age[w] \in 0 .. MaxStall /\ (pass[w] # NoPass => age[w] + 1 <= MaxStall)
  BY <1>1, Types, Numbers DEF Tick, Stall
<1>3. \A w \in Workers : age'[w] = IF pass[w] = NoPass THEN 0 ELSE age[w] + 1
  BY <1>1 DEF Elapse
<1>4. age' \in [Workers -> 0 .. MaxStall]
  <2>1. \A w \in Workers : (IF pass[w] = NoPass THEN 0 ELSE age[w] + 1) \in 0 .. MaxStall
    BY <1>2, Numbers
  <2> QED BY <1>1, <2>1 DEF Elapse
<1>5. ASSUME NEW e \in Events
      PROVE  /\ row'[e] \in Row /\ row'[e].status = row[e].status /\ row'[e].owner = row[e].owner
             /\ row'[e].holder = row[e].holder /\ row'[e].lease = Sooner(row[e].lease)
  <2>1. row[e] \in Row BY <1>1, Types
  <2>2. PICK x : x = [row[e] EXCEPT !.available = Sooner(row[e].available),
                                    !.lease = Sooner(row[e].lease)]
    OBVIOUS
  <2>3. x = RowRec(row[e].status, Sooner(row[e].available), Sooner(row[e].lease), row[e].owner,
                   row[e].holder, row[e].attempts)
    BY <2>1, <2>2 DEF Row, RowRec
  <2>4. /\ row[e].status \in Statuses /\ Sooner(row[e].available) \in Times
        /\ Sooner(row[e].lease) \in Times /\ row[e].owner \in Names \cup {NoOwner}
        /\ row[e].holder \in Workers \cup {NoOwner} /\ row[e].attempts \in Nat
    BY <2>1, RowFields, SomeTimes
  <2>5. row'[e] = x BY <1>1, <2>2, Zenon DEF Elapse
  <2>6. /\ x \in Row /\ x.status = row[e].status /\ x.owner = row[e].owner
        /\ x.holder = row[e].holder /\ x.lease = Sooner(row[e].lease)
    BY <2>3, <2>4 DEF RowRec, Row, Statuses
  <2> QED BY <2>5, <2>6, Zenon
<1>6. row' \in [Events -> Row] BY <1>1, <1>5 DEF Elapse
<1>7. pass' = pass /\ misfenced' = misfenced BY <1>1 DEF Elapse
<1>8. OutboxTypeOK' BY <1>1, <1>4, <1>6, <1>7 DEF OutboxTypeOK
<1>9. BatchInv' BY <1>7 DEF OutboxInv, BatchInv
<1>10. OwnersInv' BY <1>5 DEF OutboxInv, OwnersInv
<1>11. ClaimsInv'
  <2>1. SUFFICES ASSUME NEW w \in Workers, NEW e \in Events \ misfenced, WorksOn(w, e), age'[w] < Lease
                 PROVE  row'[e].holder = w /\ row'[e].lease = Lease - age'[w]
    BY <1>7 DEF ClaimsInv, WorksOn, Current
  <2>2. pass[w] # NoPass BY <2>1, PassFields DEF WorksOn
  <2>3. age'[w] = age[w] + 1 /\ age[w] < Lease /\ age[w] \in Nat
    BY <1>2, <1>3, <2>1, <2>2, Numbers
  <2>4. row[e].holder = w /\ row[e].lease = Lease - age[w]
    BY <2>1, <2>3 DEF OutboxInv, ClaimsInv
  <2>5. Sooner(Lease - age[w]) = Lease - age'[w] BY <2>3, Numbers DEF Sooner, Long
  <2> QED BY <1>5, <2>4, <2>5
<1> QED BY <1>8, <1>9, <1>10, <1>11 DEF OutboxInv

LEMMA InitOutbox == Init => OutboxInv
<1> SUFFICES ASSUME Init PROVE OutboxInv OBVIOUS
<1>1. OutboxTypeOK
  <2>1. 0 \in 0 .. MaxStall /\ 0 \in 0 .. MaxFaults BY Numbers
  <2> QED BY <2>1, NewRowFields, PassFields DEF Init, OutboxTypeOK
<1>2. BatchInv BY PassFields DEF Init, BatchInv, PassOK
<1>3. OwnersInv BY NewRowFields DEF Init, OwnersInv
<1>4. ClaimsInv BY PassFields DEF Init, ClaimsInv, WorksOn
<1> QED BY <1>1, <1>2, <1>3, <1>4 DEF OutboxInv

LEMMA NextOutbox == OutboxInv /\ [Next]_vars => OutboxInv'
<1> SUFFICES ASSUME OutboxInv, [Next]_vars PROVE OutboxInv' OBVIOUS
<1>1. CASE UNCHANGED vars
  BY <1>1 DEF vars, OutboxInv, OutboxTypeOK, BatchInv, OwnersInv, ClaimsInv, WorksOn, Current
<1> QED BY <1>1, ClaimKeeps, OutcomeKeeps, StartKeeps, EnqueueKeeps, TimeKeeps DEF Next, Step

LEMMA OutboxInvariant == Spec => []OutboxInv
BY InitOutbox, NextOutbox, PTL DEF Spec

-----------------------------------------------------------------------------
(* Theorems                                                                  *)

\* Rows, passes and their ages keep their types.
THEOREM OutboxTypes == Spec => []OutboxTypeOK
<1>1. OutboxInv => OutboxTypeOK BY DEF OutboxInv
<1> QED BY <1>1, OutboxInvariant, PTL

\* For any number of workers, also of the same name, that stop, stall and fail:
\* two publish the same event at once only when one of them is late or a
\* namesake wrote over a claim.
THEOREM OutboxPublishersOverlapOnlyLate == Spec => []PublishersOverlapOnlyLate
<1>1. OutboxInv => PublishersOverlapOnlyLate
  <2>1. ASSUME OutboxInv, NEW e \in Events \ misfenced, NEW v \in Workers, NEW w \in Workers,
               v # w, WorksOn(v, e), WorksOn(w, e)
        PROVE  age[v] >= Lease \/ age[w] >= Lease
    <3>1. age[v] < Lease => row[e].holder = v BY <2>1 DEF OutboxInv, ClaimsInv
    <3>2. age[w] < Lease => row[e].holder = w BY <2>1 DEF OutboxInv, ClaimsInv
    <3>3. age[v] \in Nat /\ age[w] \in Nat BY <2>1, Types, Numbers DEF OutboxInv
    <3> QED BY <2>1, <3>1, <3>2, <3>3, Numbers
  <2> QED BY <2>1 DEF PublishersOverlapOnlyLate
<1> QED BY <1>1, OutboxInvariant, PTL

\* Nothing moves an event that was delivered or given up: the owner of such a
\* row is gone, and the outcome updates look for the worker's own name.
THEOREM OutboxSettledIsFinal == Spec => SettledIsFinal
<1>1. ASSUME OutboxInv, [Next]_vars, NEW e \in Events, row[e].status \in {"delivered", "dead"}
      PROVE  row'[e].status = row[e].status
  <2>1. OutboxTypeOK /\ BatchInv /\ row \in [Events -> Row] /\ row[e] \in Row
    BY <1>1, Types DEF OutboxInv
  <2>2. row[e].owner = NoOwner BY <1>1 DEF OutboxInv, OwnersInv
  <2>3. CASE row' = row BY <2>3
  <2>4. ASSUME NEW w \in Workers, Claim(w), row' # row PROVE row'[e] = row[e]
    BY <1>1, <2>1, <2>4 DEF Claim, Claimable
  <2>5. ASSUME NEW w \in Workers, Fenced(w), NEW status, NEW available, Mark(w, status, available)
        PROVE  row'[e] = row[e]
    <3>1. Current(w).event # e BY <2>1, <2>2, <2>5, Types, Numbers DEF Fenced
    <3> QED BY <2>1, <2>5, <3>1 DEF Mark
  <2>6. ASSUME NEW w \in Workers, MarkDelivered(w) \/ MarkFailed(w), row' # row
        PROVE  row'[e] = row[e]
    BY <2>5, <2>6 DEF MarkDelivered, MarkFailed
  <2>7. ASSUME NEW d \in Events, Enqueue(d) PROVE row'[e] = row[e]
    BY <1>1, <2>1, <2>7 DEF Enqueue
  <2>8. CASE Tick \/ Stall
    <3>1. row'[e] = [row[e] EXCEPT !.available = Sooner(row[e].available),
                                   !.lease = Sooner(row[e].lease)]
      BY <2>8, Zenon DEF Tick, Stall, Elapse
    <3>2. PICK x : x = [row[e] EXCEPT !.available = Sooner(row[e].available),
                                      !.lease = Sooner(row[e].lease)]
      OBVIOUS
    <3>3. x.status = row[e].status BY <2>1, <3>2 DEF Row
    <3> QED BY <3>1, <3>2, <3>3
  <2>9. \A w \in Workers : Start(w) \/ Publish(w) \/ Stop(w) => row' = row
    BY DEF Start, Publish, Stop
  <2> QED BY <1>1, <2>3, <2>4, <2>6, <2>7, <2>8, <2>9 DEF Next, Step, vars
<1>2. OutboxInv /\ [Next]_vars =>
        \A e \in Events : row[e].status \in {"delivered", "dead"} => row'[e].status = row[e].status
  BY <1>1
<1> QED BY <1>2, OutboxInvariant, PTL DEF Spec, SettledIsFinal
=============================================================================
