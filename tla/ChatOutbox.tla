----------------------------- MODULE ChatOutbox -----------------------------
(***************************************************************************)
(* The transactional outbox of chat room events, src/lib/chat/             *)
(* event-outbox.ts, and the publisher of every chat worker (worker/         *)
(* index.ts): a pass reads a batch of candidates, then for each claims the  *)
(* row, publishes the event and records the outcome.  Workers stop, stall   *)
(* past their lease and fail to write; the owner name is made from the      *)
(* process id, which containers share.                                     *)
(*                                                                         *)
(* Times are kept relative to now, so no clock is needed: age[w] is the     *)
(* time since pass w read startedAt, and a row's lease and available count  *)
(* down as time passes.  A time t is not after startedAt iff t <= -age.     *)
(***************************************************************************)
EXTENDS Integers, Sequences

CONSTANTS
  MaxRows,       \* bound: rows of ChatEventOutbox, numbered by createdAt
  Workers,       \* worker processes with the chat-events responsibility
  Names,         \* owner names, "chat-outbox:worker:" and the process id
  NoOwner,       \* leaseOwner null
  Lease,         \* CHAT_EVENT_OUTBOX_LEASE_MS
  Backoff,       \* retryDelayMs, taken to be the same for every attempt
  BatchSize,     \* CHAT_EVENT_OUTBOX_BATCH_SIZE
  MaxAttempts,   \* CHAT_EVENT_OUTBOX_MAX_ATTEMPTS
  MaxStall,      \* bound: the time one pass takes, long enough for its lease to lapse
  MaxFaults      \* bound: workers stopping, stalling past the lease, failed writes

ASSUME OutboxAssumption ==
  /\ {MaxRows, Lease, Backoff, BatchSize, MaxAttempts, MaxStall} \subseteq Nat \ {0}
  /\ MaxFaults \in Nat
  /\ Lease <= MaxStall
  /\ NoOwner \notin Names \cup Workers

Events == 1 .. MaxRows

VARIABLES
  ownerOf,    \* the owner name of each worker
  row,        \* the outbox row of each event
  pass,       \* the state of each worker's pass
  age,        \* the time since each pass began
  faults,     \* how many faults happened
  misfenced   \* events on which a worker wrote over the claim of a namesake (history)

vars == <<ownerOf, row, pass, age, faults, misfenced>>

Times == -MaxStall .. (Lease + Backoff)
Long == -MaxStall    \* long past; also leaseExpiresAt null

\* holder is the worker that made the last claim (history).
Row == [status    : {"absent", "open", "delivered", "dead"},
        available : Times,
        lease     : Times,
        owner     : Names \cup {NoOwner},
        holder    : Workers \cup {NoOwner},
        attempts  : Nat]

NewRow == [status |-> "open", available |-> 0, lease |-> Long, owner |-> NoOwner,
           holder |-> NoOwner, attempts |-> 0]

\* A candidate is remembered with the attempt count it was read with.
Candidate == [event : Events, attempts : Nat]

Pass == [pc : {"idle", "claim", "publish", "delivered", "failed"}, batch : Seq(Candidate)]

NoPass == [pc |-> "idle", batch |-> <<>>]

Fault == faults < MaxFaults /\ faults' = faults + 1

Current(w) == Head(pass[w].batch)

\* The loop goes on with the next candidate.
NextCandidate(w) ==
  pass' = [pass EXCEPT ![w] =
             IF Len(@.batch) = 1 THEN NoPass ELSE [pc |-> "claim", batch |-> Tail(@.batch)]]

GoTo(w, pc) == pass' = [pass EXCEPT ![w].pc = pc]

\* enqueueChatRoomEvent, in the transaction of the message or moderation act.
Enqueue(e) ==
  /\ row[e].status = "absent"
  /\ \A d \in 1 .. (e - 1) : row[d].status # "absent"
  /\ row' = [row EXCEPT ![e] = NewRow]
  /\ UNCHANGED <<pass, age, faults, misfenced>>

\* Mutant: a row with an owner is skipped, whether its lease lapsed or not.
ClaimableUnowned(e, since) ==
  /\ row[e].status = "open"
  /\ row[e].available <= -since
  /\ row[e].owner = NoOwner

\* The where clause of the query and of the claim, for a pass of age since.
Claimable(e, since) ==
  /\ row[e].status = "open"
  /\ row[e].available <= -since
  /\ row[e].lease <= -since

\* The oldest rows of C, as many as a batch takes, oldest first.
IsBatch(b, C) ==
  /\ \A i, j \in DOMAIN b : i < j => b[i] < b[j]
  /\ \A e \in C \ {b[i] : i \in DOMAIN b} :
       Len(b) = BatchSize /\ \A i \in DOMAIN b : b[i] < e

\* processChatEventOutbox starts, unless the pass before it still runs, and
\* reads its candidates.
Start(w) ==
  LET C == {e \in Events : Claimable(e, 0)} IN
  /\ pass[w] = NoPass
  /\ \E n \in 1 .. BatchSize : \E b \in [1 .. n -> C] :
       /\ IsBatch(b, C)
       /\ pass' = [pass EXCEPT ![w] =
                     [pc    |-> "claim",
                      batch |-> [i \in 1 .. n |-> [event |-> b[i], attempts |-> row[b[i]].attempts]]]]
  /\ age' = [age EXCEPT ![w] = 0]
  /\ UNCHANGED <<row, faults, misfenced>>

\* Mutant: the claim does not look at the lease again.
ClaimReadLease(w) ==
  LET e == Current(w).event IN
  /\ pass[w].pc = "claim"
  /\ IF row[e].status = "open" /\ row[e].available <= -age[w]
     THEN /\ row' = [row EXCEPT ![e] =
                            [@ EXCEPT !.attempts = row[e].attempts + 1, !.lease = Lease - age[w],
                                      !.owner = ownerOf[w], !.holder = w]]
          /\ GoTo(w, "publish")
     ELSE NextCandidate(w) /\ UNCHANGED row
  /\ UNCHANGED <<age, faults, misfenced>>

\* The row is claimed if it still is as the query wanted it; the lease counts
\* from the start of the pass.
Claim(w) ==
  LET e == Current(w).event IN
  /\ pass[w].pc = "claim"
  /\ IF Claimable(e, age[w])
     THEN /\ row' = [row EXCEPT ![e] =
                            [@ EXCEPT !.attempts = row[e].attempts + 1, !.lease = Lease - age[w],
                                      !.owner = ownerOf[w], !.holder = w]]
          /\ GoTo(w, "publish")
     ELSE NextCandidate(w) /\ UNCHANGED row
  /\ UNCHANGED <<age, faults, misfenced>>

\* publishChatRoomEvent succeeds, or throws: Redis is away or the stored
\* payload does not parse.
Publish(w) ==
  /\ pass[w].pc = "publish"
  /\ \E pc \in {"delivered", "failed"} : GoTo(w, pc)
  /\ UNCHANGED <<row, age, faults, misfenced>>

\* The where clause of both outcome updates.
Fenced(w) == row[Current(w).event].status # "delivered" /\ row[Current(w).event].owner = ownerOf[w]

Mark(w, status, available) ==
  LET e == Current(w).event IN
  /\ row' = [row EXCEPT ![e] = [@ EXCEPT !.status = status, !.available = available,
                                         !.lease = Long, !.owner = NoOwner, !.holder = NoOwner]]
  /\ misfenced' = IF row[e].holder = w THEN misfenced ELSE misfenced \cup {e}

\* The delivered update; when it throws, the catch block records a failure.
MarkDelivered(w) ==
  /\ pass[w].pc = "delivered"
  /\ \/ /\ Fenced(w)
        /\ Mark(w, "delivered", row[Current(w).event].available)
        /\ NextCandidate(w)
        /\ UNCHANGED faults
     \/ ~Fenced(w) /\ NextCandidate(w) /\ UNCHANGED <<row, faults, misfenced>>
     \/ Fault /\ GoTo(w, "failed") /\ UNCHANGED <<row, misfenced>>
  /\ UNCHANGED age

\* Mutant: a dead-lettered row keeps its owner.
MarkFailedKeepsOwner(w) ==
  LET e == Current(w).event IN
  /\ pass[w].pc = "failed"
  /\ \/ /\ Fenced(w)
        /\ IF Current(w).attempts + 1 >= MaxAttempts
           THEN /\ row' = [row EXCEPT ![e] = [@ EXCEPT !.status = "dead", !.lease = Long]]
                /\ UNCHANGED misfenced
           ELSE Mark(w, row[e].status, Backoff)
        /\ NextCandidate(w)
     \/ ~Fenced(w) /\ NextCandidate(w) /\ UNCHANGED <<row, misfenced>>
  /\ UNCHANGED <<age, faults>>

\* The catch block: the event waits, or is dead after its last attempt by the
\* count it was read with.  When this update throws too, the pass is given up.
MarkFailed(w) ==
  LET e == Current(w).event IN
  /\ pass[w].pc = "failed"
  /\ \/ /\ Fenced(w)
        /\ IF Current(w).attempts + 1 >= MaxAttempts
           THEN Mark(w, "dead", row[e].available)
           ELSE Mark(w, row[e].status, Backoff)
        /\ NextCandidate(w)
        /\ UNCHANGED faults
     \/ ~Fenced(w) /\ NextCandidate(w) /\ UNCHANGED <<row, faults, misfenced>>
     \/ Fault /\ pass' = [pass EXCEPT ![w] = NoPass] /\ UNCHANGED <<row, misfenced>>
  /\ UNCHANGED age

\* The worker stops; its claim stays until the lease lapses.
Stop(w) ==
  /\ Fault
  /\ pass[w] # NoPass
  /\ pass' = [pass EXCEPT ![w] = NoPass]
  /\ UNCHANGED <<row, age, misfenced>>

Sooner(t) == IF t > Long THEN t - 1 ELSE Long

Elapse ==
  /\ age' = [w \in Workers |-> IF pass[w] = NoPass THEN 0 ELSE age[w] + 1]
  /\ row' = [e \in Events |-> [row[e] EXCEPT !.available = Sooner(@), !.lease = Sooner(@)]]
  /\ UNCHANGED <<pass, misfenced>>

\* Time passes, and every pass under way stays within its lease.
Tick ==
  /\ \A w \in Workers : pass[w] # NoPass => age[w] + 1 < Lease
  /\ Elapse
  /\ UNCHANGED faults

\* Time passes, and some pass takes longer than its lease.
Stall ==
  /\ \E w \in Workers : pass[w] # NoPass /\ age[w] + 1 >= Lease
  /\ \A w \in Workers : pass[w] # NoPass => age[w] < MaxStall
  /\ Fault
  /\ Elapse

Init ==
  /\ ownerOf \in [Workers -> Names]
  /\ row = [e \in Events |-> [NewRow EXCEPT !.status = "absent"]]
  /\ pass = [w \in Workers |-> NoPass]
  /\ age = [w \in Workers |-> 0]
  /\ faults = 0
  /\ misfenced = {}

Step(w) == Claim(w) \/ Publish(w) \/ MarkDelivered(w) \/ MarkFailed(w)

Next ==
  /\ \/ \E e \in Events : Enqueue(e)
     \/ \E w \in Workers : Start(w) \/ Step(w) \/ Stop(w)
     \/ Tick \/ Stall
  /\ UNCHANGED ownerOf

\* The interval timer starts a pass when none runs, a pass goes on, and time
\* passes; a pass overstays its lease only so often.
Fairness ==
  /\ WF_vars(Tick /\ UNCHANGED ownerOf)
  /\ \A w \in Workers : WF_vars(Start(w) /\ UNCHANGED ownerOf) /\ WF_vars(Step(w) /\ UNCHANGED ownerOf)

Spec == Init /\ [][Next]_vars /\ Fairness

-----------------------------------------------------------------------------
(* Properties                                                                *)

OutboxTypeOK ==
  /\ ownerOf \in [Workers -> Names]
  /\ row \in [Events -> Row]
  /\ pass \in [Workers -> Pass]
  /\ age \in [Workers -> 0 .. MaxStall]
  /\ faults \in 0 .. MaxFaults
  /\ misfenced \subseteq Events

\* The worker has claimed e and has not recorded an outcome yet.
WorksOn(w, e) == pass[w].pc \in {"publish", "delivered", "failed"} /\ Current(w).event = e

\* Two workers publish the same event at the same time only when the lease of
\* one of them, which counts from the start of its pass, has lapsed, or when a
\* late worker has given away the claim of a worker of the same name.
PublishersOverlapOnlyLate ==
  \A e \in Events \ misfenced, v, w \in Workers :
    v # w /\ WorksOn(v, e) /\ WorksOn(w, e) => age[v] >= Lease \/ age[w] >= Lease

\* An event that was delivered or dead-lettered stays that way, whatever late
\* workers, also of the same name, still record.
SettledIsFinal ==
  [][\A e \in Events : row[e].status \in {"delivered", "dead"} => row'[e].status = row[e].status]_vars

\* Every event is delivered or dead-lettered in the end, although workers stop
\* with a claim, stall, and lose the outcome of a publication.
EventSettles ==
  \A e \in Events : row[e].status = "open" ~> row[e].status \in {"delivered", "dead"}
=============================================================================
