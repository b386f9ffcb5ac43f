---------------------------- MODULE MobileOffline ----------------------------
(***************************************************************************)
(* Changes made on a mobile device: the direct request, the offline queue   *)
(* in the device's database and its replay (apps/mobile, packages/          *)
(* mobile-client), and on the server the idempotent mutation with its       *)
(* receipt (mobile-sync.ts) and the receipts' retention                     *)
(* (auth-token-maintenance.ts).                                            *)
(*                                                                         *)
(* Every change names fields of the same article state; changes are         *)
(* numbered in the order the user makes them, and a field holds the number  *)
(* of the change that wrote it, 0 at first.  An answer may be lost while    *)
(* the request still runs on the server.                                   *)
(***************************************************************************)
EXTENDS Integers, FiniteSets, Sequences

CONSTANTS
  MaxChange,     \* bound: changes the user makes
  Input,         \* the fields that each change names, with their values
  MaxRequests,   \* bound: requests on their way or being served
  QueueLimit,    \* maximumPendingMutations
  MaxAttempts,   \* MAX_MOBILE_MUTATION_ATTEMPTS
  MaxFaults,     \* bound: lost answers, refusals, failed writes, the app stopping
  MaxEvents      \* bound: retries and discards by the user, receipts deleted

Changes == 1 .. MaxChange
Slots == 1 .. MaxRequests

\* The fields of an article state (articleStateMutationRequestSchema).
Fields == {"isRead", "isStarred", "isArchived"}

Inputs == UNION {[F -> BOOLEAN] : F \in SUBSET Fields \ {{}}}

ASSUME OfflineAssumption ==
  /\ {MaxChange, MaxRequests, QueueLimit, MaxAttempts} \subseteq Nat \ {0}
  /\ {MaxFaults, MaxEvents} \subseteq Nat
  /\ Input \in [Changes -> Inputs]

VARIABLES
  entry,      \* each change on the device
  queue,      \* the changes that were queued, by createdAt
  signedIn,   \* the store has an owner
  flushing,   \* the change that flushPendingMutations has sent, 0 when none
  slot,       \* requests
  value,      \* the article state on the server
  restored,   \* the fields whose value a request put back (history)
  receipts,   \* changes with a DeviceMutationReceipt
  applied,    \* how often each change was applied (history)
  forgotten,  \* changes whose receipt was deleted (history)
  faults,
  events

vars == <<entry, queue, signedIn, flushing, slot, value, restored, receipts, applied, forgotten, faults, events>>

Fault == faults < MaxFaults /\ faults' = faults + 1

Event == events < MaxEvents /\ events' = events + 1

-----------------------------------------------------------------------------
(* Requests                                                                  *)

\* known: the changes that were confirmed when the request was sent (history).
Slot == [pc     : {"free", "sent", "read", "answered"},
         change : 0 .. MaxChange,
         by     : {"direct", "flush", "nobody"},
         prev   : [Fields -> 0 .. MaxChange],
         answer : {"none", "ok", "gone", "refused", "retryable", "unauthorized"},
         known  : SUBSET Changes]

FreeSlot == [pc |-> "free", change |-> 0, by |-> "nobody", prev |-> [f \in Fields |-> 0],
             answer |-> "none", known |-> {}]

\* The device was told, or tells itself, that the change is applied.
Confirmed(c) == entry[c].state \in {"done", "COMPLETED", "reclaimed"}

Send(c, by) ==
  \E s \in Slots :
    /\ slot[s] = FreeSlot
    /\ \A r \in 1 .. (s - 1) : slot[r] # FreeSlot
    /\ slot' = [slot EXCEPT ![s] = [FreeSlot EXCEPT !.pc = "sent", !.change = c, !.by = by,
                                                   !.known = {d \in Changes : Confirmed(d)}]]

Answer(s, a) ==
  slot' = [slot EXCEPT ![s] = IF @.by = "nobody" THEN FreeSlot
                              ELSE [@ EXCEPT !.pc = "answered", !.answer = a]]

\* Mutant: the fields that the request leaves out start from their defaults.
ServeReadDefaults(s) ==
  /\ slot[s].pc = "sent"
  /\ \/ slot[s].change \in receipts /\ Answer(s, "ok")
     \/ slot[s].change \notin receipts /\ slot' = [slot EXCEPT ![s].pc = "read"]
  /\ UNCHANGED <<entry, queue, signedIn, flushing, value, restored, receipts, applied, forgotten, faults, events>>

\* runIdempotentMobileMutation up to the read of the previous state: the
\* receipt's result, no such resource, or the state that is read.
ServeRead(s) ==
  /\ slot[s].pc = "sent"
  /\ \/ slot[s].change \in receipts /\ Answer(s, "ok") /\ UNCHANGED faults
     \/ slot[s].change \notin receipts /\ Answer(s, "gone") /\ Fault
     \/ /\ slot[s].change \notin receipts
        /\ slot' = [slot EXCEPT ![s] = [@ EXCEPT !.pc = "read", !.prev = value]]
        /\ UNCHANGED faults
  /\ UNCHANGED <<entry, queue, signedIn, flushing, value, restored, receipts, applied, forgotten, events>>

Archives(c) == "isArchived" \in DOMAIN Input[c] /\ Input[c]["isArchived"]

\* An archive marks the article read as well.
Written(c) == DOMAIN Input[c] \cup (IF Archives(c) THEN {"isRead"} ELSE {})

\* The fields that the request leaves out are written as they were read.
WriteState(s) ==
  LET c == slot[s].change IN
  /\ value' = [f \in Fields |-> IF f \in Written(c) THEN c ELSE slot[s].prev[f]]
  /\ restored' = (restored \cup {f \in Fields : value'[f] # value[f]}) \ Written(c)

\* Mutant: the unique index on receipts does not exist.
ServeWriteAgain(s) ==
  LET c == slot[s].change IN
  /\ slot[s].pc = "read"
  /\ WriteState(s)
  /\ receipts' = receipts \cup {c}
  /\ applied' = [applied EXCEPT ![c] = @ + 1]
  /\ Answer(s, "ok")
  /\ UNCHANGED <<entry, queue, signedIn, flushing, forgotten, faults, events>>

\* All fields of the state and the receipt are written and committed; when a
\* request with the same key committed first, its receipt is the answer.
ServeWrite(s) ==
  LET c == slot[s].change IN
  /\ slot[s].pc = "read"
  /\ IF c \in receipts
     THEN UNCHANGED <<value, restored, receipts, applied>>
     ELSE /\ WriteState(s)
          /\ receipts' = receipts \cup {c}
          /\ applied' = [applied EXCEPT ![c] = @ + 1]
  /\ Answer(s, "ok")
  /\ UNCHANGED <<entry, queue, signedIn, flushing, forgotten, faults, events>>

\* The request never arrives, is refused or fails before it commits anything.
ServeFails(s) ==
  /\ Fault
  /\ slot[s].pc \in {"sent", "read"}
  /\ \E a \in {"refused", "retryable", "unauthorized"} : Answer(s, a)
  /\ UNCHANGED <<entry, queue, signedIn, flushing, value, restored, receipts, applied, forgotten, events>>

\* Receipts of 30 days ago are deleted; no request takes that long.
PruneReceipt(c) ==
  /\ Event
  /\ c \in receipts
  /\ \A s \in Slots : slot[s] = FreeSlot
  /\ receipts' = receipts \ {c}
  /\ forgotten' = forgotten \cup {c}
  /\ UNCHANGED <<entry, queue, signedIn, flushing, slot, value, restored, applied, faults>>

-----------------------------------------------------------------------------
(* The device                                                                *)

QueueStates == {"PENDING", "SENDING", "RETRYABLE_FAILURE", "CONFLICT", "PERMANENT_FAILURE"}

\* Besides the states of the queue: the change is being tried directly, was
\* done, refused to the user, cut off by the app stopping, reclaimed from the
\* queue, discarded by the user, or purged with the session.
Entry == [state    : QueueStates \cup {"none", "trying", "done", "refused", "cut off",
                                       "COMPLETED", "reclaimed", "discarded", "purged"},
          attempts : 0 .. MaxAttempts,
          ready    : BOOLEAN]  \* the retry delay is over, or the send lease has run out

NoEntry == [state |-> "none", attempts |-> 0, ready |-> FALSE]

InQueue(c) == entry[c].state \in QueueStates

SetState(c, state) == entry' = [entry EXCEPT ![c] = [@ EXCEPT !.state = state, !.ready = FALSE]]

\* The answer to the request of c is here, or is given up at the deadline.
Received(c, by, a) ==
  \E s \in Slots :
    /\ slot[s].change = c
    /\ slot[s].by = by
    /\ \/ /\ slot[s].pc = "answered"
          /\ slot[s].answer = a
          /\ slot' = [slot EXCEPT ![s] = FreeSlot]
          /\ UNCHANGED faults
       \/ /\ a = "retryable"
          /\ Fault
          /\ slot' = [slot EXCEPT ![s] = IF @.pc = "answered" THEN FreeSlot ELSE [@ EXCEPT !.by = "nobody"]]

\* submitMobileMutation tries the request at once.
Submit(c) ==
  /\ signedIn
  /\ entry[c] = NoEntry
  /\ \A d \in 1 .. (c - 1) : entry[d] # NoEntry
  /\ SetState(c, "trying")
  /\ Send(c, "direct")
  /\ UNCHANGED <<queue, signedIn, flushing, value, restored, receipts, applied, forgotten, faults, events>>

\* Mutant: room is also made by dropping entries that failed.
ReclaimedAll == {d \in Changes : entry[d].state \in {"COMPLETED", "CONFLICT", "PERMANENT_FAILURE"}}

\* The entries that queueMutation deletes first.
Reclaimed == {d \in Changes : entry[d].state = "COMPLETED"}

\* queueMutation; a full queue, or a store without an owner, is an error shown
\* to the user.
Enqueue(c) ==
  IF ~signedIn \/ Cardinality({d \in Changes : InQueue(d)}) >= QueueLimit
  THEN SetState(c, "refused") /\ UNCHANGED queue
  ELSE /\ queue' = Append(queue, c)
       /\ entry' = [d \in Changes |-> IF d = c THEN [NoEntry EXCEPT !.state = "PENDING"]
                                        ELSE IF d \in Reclaimed THEN [entry[d] EXCEPT !.state = "reclaimed"]
                                        ELSE entry[d]]

\* The direct request ends.
Submitted(c) ==
  /\ entry[c].state = "trying"
  /\ \/ Received(c, "direct", "ok") /\ SetState(c, "done") /\ UNCHANGED queue
     \/ Received(c, "direct", "retryable") /\ Enqueue(c)
     \/ \E a \in {"gone", "refused", "unauthorized"} :
          Received(c, "direct", a) /\ SetState(c, "refused") /\ UNCHANGED queue
  /\ UNCHANGED <<signedIn, flushing, value, restored, receipts, applied, forgotten, events>>

\* Mutant: an entry left in SENDING is not looked at again.
RecoverableNever(c) == FALSE

\* A send whose lease has run out.
Recoverable(c) == entry[c].state = "SENDING" /\ entry[c].ready

Replayable(c) ==
  entry[c].state = "PENDING" \/ (entry[c].state = "RETRYABLE_FAILURE" /\ entry[c].ready)

\* nextReplayableMutation: interrupted sends become retryable failures with a
\* delay, and the oldest replayable entry is sent, or given up at its limit.
FlushNext ==
  LET recovered == [c \in Changes |->
        IF Recoverable(c) THEN [entry[c] EXCEPT !.state = "RETRYABLE_FAILURE", !.ready = FALSE]
        ELSE entry[c]]
  IN
  /\ flushing = 0
  /\ \/ /\ \E c \in Changes : Recoverable(c)
        /\ \A c \in Changes : ~Replayable(c)
        /\ entry' = recovered
        /\ UNCHANGED <<flushing, slot>>
     \/ \E i \in DOMAIN queue :
          LET next == queue[i] IN
          /\ Replayable(next)
          /\ \A k \in 1 .. (i - 1) : ~Replayable(queue[k])
          /\ \/ /\ entry[next].attempts >= MaxAttempts
                /\ entry' = [recovered EXCEPT ![next] =
                               [entry[next] EXCEPT !.state = "PERMANENT_FAILURE", !.ready = FALSE]]
                /\ UNCHANGED <<flushing, slot>>
             \/ /\ entry[next].attempts < MaxAttempts
                /\ entry' = [recovered EXCEPT ![next] =
                               [entry[next] EXCEPT !.state = "SENDING", !.ready = FALSE,
                                                   !.attempts = entry[next].attempts + 1]]
                /\ flushing' = next
                /\ Send(next, "flush")
  /\ UNCHANGED <<queue, signedIn, value, restored, receipts, applied, forgotten, faults, events>>

\* flushPendingMutations goes on with the answer.  When the completion cannot
\* be written, the catch block records a permanent failure.
FlushAnswer ==
  /\ flushing # 0
  /\ flushing' = 0
  /\ \/ Received(flushing, "flush", "ok") /\ SetState(flushing, "COMPLETED")
     \/ Received(flushing, "flush", "retryable") /\ SetState(flushing, "RETRYABLE_FAILURE")
     \/ Received(flushing, "flush", "gone") /\ SetState(flushing, "CONFLICT")
     \/ Received(flushing, "flush", "refused") /\ SetState(flushing, "PERMANENT_FAILURE")
  /\ UNCHANGED <<queue, signedIn, value, restored, receipts, applied, forgotten, events>>

CompletionFails ==
  /\ Fault
  /\ flushing # 0
  /\ flushing' = 0
  /\ \E s \in Slots :
       /\ slot[s].change = flushing /\ slot[s].by = "flush"
       /\ slot[s].pc = "answered" /\ slot[s].answer = "ok"
       /\ slot' = [slot EXCEPT ![s] = FreeSlot]
  /\ SetState(flushing, "PERMANENT_FAILURE")
  /\ UNCHANGED <<queue, signedIn, value, restored, receipts, applied, forgotten, events>>

\* A replay is answered with 401: the failure is recorded, and syncNow then
\* clears the session and purges the device's data.
Unauthorized ==
  /\ flushing # 0
  /\ Received(flushing, "flush", "unauthorized")
  /\ flushing' = 0
  /\ signedIn' = FALSE
  /\ queue' = <<>>
  /\ entry' = [c \in Changes |-> IF InQueue(c) \/ entry[c].state = "COMPLETED"
                                 THEN [NoEntry EXCEPT !.state = "purged"] ELSE entry[c]]
  /\ UNCHANGED <<value, restored, receipts, applied, forgotten, events>>

\* The user looks at the changes that need attention.
Retry(c) ==
  /\ Event
  /\ entry[c].state \in {"CONFLICT", "PERMANENT_FAILURE"}
  /\ SetState(c, "PENDING")
  /\ UNCHANGED <<queue, signedIn, flushing, slot, value, restored, receipts, applied, forgotten, faults>>

Discard(c) ==
  /\ Event
  /\ entry[c].state \in {"CONFLICT", "PERMANENT_FAILURE"}
  /\ SetState(c, "discarded")
  /\ UNCHANGED <<queue, signedIn, flushing, slot, value, restored, receipts, applied, forgotten, faults>>

\* A retry delay or the lease of a send that nobody waits for runs out; a
\* request's deadline is shorter than the lease.
Wait(c) ==
  /\ entry[c].state \in {"SENDING", "RETRYABLE_FAILURE"}
  /\ ~entry[c].ready
  /\ flushing # c
  /\ entry' = [entry EXCEPT ![c].ready = TRUE]
  /\ UNCHANGED <<queue, signedIn, flushing, slot, value, restored, receipts, applied, forgotten, faults, events>>

\* The app is stopped and opened again; requests go on without it.
AppStops ==
  /\ Fault
  /\ flushing' = 0
  /\ entry' = [c \in Changes |-> IF entry[c].state = "trying" THEN [entry[c] EXCEPT !.state = "cut off"]
                                 ELSE entry[c]]
  /\ slot' = [s \in Slots |-> IF slot[s].pc = "answered" THEN FreeSlot ELSE [slot[s] EXCEPT !.by = "nobody"]]
  /\ UNCHANGED <<queue, signedIn, value, restored, receipts, applied, forgotten, events>>

Init ==
  /\ entry = [c \in Changes |-> NoEntry]
  /\ queue = <<>>
  /\ signedIn = TRUE
  /\ flushing = 0
  /\ slot = [s \in Slots |-> FreeSlot]
  /\ value = [f \in Fields |-> 0]
  /\ restored = {}
  /\ receipts = {}
  /\ applied = [c \in Changes |-> 0]
  /\ forgotten = {}
  /\ faults = 0
  /\ events = 0

Serve(s) == ServeRead(s) \/ ServeWrite(s)

Flush == FlushNext \/ FlushAnswer \/ Unauthorized

Next ==
  \/ \E s \in Slots : Serve(s) \/ ServeFails(s)
  \/ \E c \in Changes : Submit(c) \/ Submitted(c) \/ Retry(c) \/ Discard(c) \/ Wait(c) \/ PruneReceipt(c)
  \/ Flush \/ CompletionFails \/ AppStops

\* The server answers, the device takes the answers, time passes, and the user
\* opens the app often enough that the queue is replayed.
Fairness ==
  /\ WF_vars(\E s \in Slots : Serve(s))
  /\ WF_vars(\E c \in Changes : Submitted(c))
  /\ WF_vars(\E c \in Changes : Wait(c))
  /\ WF_vars(Flush)

Spec == Init /\ [][Next]_vars /\ Fairness

-----------------------------------------------------------------------------
(* Properties                                                                *)

OfflineTypeOK ==
  /\ entry \in [Changes -> Entry]
  /\ queue \in Seq(Changes)
  /\ signedIn \in BOOLEAN
  /\ flushing \in 0 .. MaxChange
  /\ slot \in [Slots -> Slot]
  /\ value \in [Fields -> 0 .. MaxChange]
  /\ restored \subseteq Fields
  /\ receipts \subseteq Changes
  /\ applied \in [Changes -> Nat]
  /\ forgotten \subseteq Changes
  /\ faults \in 0 .. MaxFaults
  /\ events \in 0 .. MaxEvents

\* However often a change is sent, with its direct request still running on the
\* server while the queue replays it, it is applied once; a replay after its
\* receipt was deleted is the exception.
AppliedOnce == \A c \in Changes : applied[c] > 1 => c \in forgotten

\* What the device reports as done, or drops from its queue as completed, has
\* been applied by the server.
ConfirmedIsApplied == \A c \in Changes : Confirmed(c) => applied[c] > 0

\* "Article state writes are explicit set operations; archive retains the server
\* rule that it also marks the article read" (mobile-offline-conflicts.md): the
\* fields whose old value a change may replace.
Replaces(c, f) == f \in DOMAIN Input[c] \/ (f = "isRead" /\ Archives(c))

\* A request writes back the fields that it is not about.  It may undo a change
\* that was on its way at the same time, or one that another request had put
\* back, but never a change that took its place by itself and that the device
\* knew to be applied when it sent the request: a star does not undo a
\* confirmed "mark unread", only a change of isRead does, or an archive.
ConfirmedStays ==
  [][\A s \in Slots :
       slot[s].pc = "read" /\ slot'[s].pc # "read" =>
         \A f \in Fields \ restored :
           value'[f] # value[f] /\ value[f] \in slot[s].known =>
             Replaces(slot[s].change, f)]_vars

\* Every queued change is settled: completed, shown to the user as failed, or
\* purged with the session, although sends are interrupted and answers lost.
QueueDrains ==
  \A c \in Changes :
    entry[c].state \in {"PENDING", "SENDING", "RETRYABLE_FAILURE"} ~>
      entry[c].state \notin {"PENDING", "SENDING", "RETRYABLE_FAILURE"}
=============================================================================
