----------------------------- MODULE OpmlImport -----------------------------
(***************************************************************************)
(* One OPML import of one user: src/lib/opml-import-jobs.ts, the leases of *)
(* src/lib/opml-import-leases.ts, the queue of src/lib/opml-import-queue.ts*)
(* and the worker of worker/index.ts.  The web process creates, cancels    *)
(* and retries the import; workers take queue deliveries, claim entries    *)
(* one by one under a fenced lease, subscribe to the feed and finalize the *)
(* entry together with the counters of the import.  A statement or a       *)
(* transaction is one step, except the retry transaction, which runs at    *)
(* READ COMMITTED and so reads its counts before others commit.            *)
(***************************************************************************)
EXTENDS Integers, FiniteSets

CONSTANTS
  Entries,       \* the sequence numbers of the feeds of the import
  NoEntry,
  Subscribed,    \* entries whose feed the user follows already
  Workers,       \* worker processes; also the lease owners
  NoOwner,       \* NULL in leaseOwner
  Sessions,      \* requests of the web process that may run at once
  Slots,         \* queue deliveries that may exist at once
  NoSlot,
  Lease,         \* OPML_IMPORT_ENTRY_LEASE_MS, in ticks
  Deadline,      \* OPML_IMPORT_OPERATION_DEADLINE_MS, in ticks
  BatchDeadline, \* OPML_IMPORT_BATCH_DEADLINE_MS, in ticks
  BatchSize,     \* OPML_IMPORT_BATCH_SIZE
  MaxAttempts,   \* attempts of a queue job
  MaxStalls,     \* redeliveries of a queue job whose lock lapsed
  MaxEvents      \* bound on requests, failures and lost locks in a behaviour

ASSUME OpmlAssumption ==
  /\ Entries \in SUBSET Nat /\ IsFiniteSet(Entries)
  /\ NoEntry \notin Entries
  /\ Subscribed \subseteq Entries
  /\ NoOwner \notin Workers
  /\ NoSlot \notin Slots
  /\ {Lease, Deadline, BatchDeadline, BatchSize, MaxAttempts} \subseteq Nat \ {0}
  /\ {MaxStalls, MaxEvents} \subseteq Nat

VARIABLES
  job,        \* the ImportJob row
  entry,      \* the ImportJobEntry rows
  subs,       \* entries whose feed the user has been subscribed to
  disabled,   \* User.disabledAt is set
  queue,      \* the queue jobs of this import
  wk,         \* the local state of each worker
  session,    \* the local state of each web request
  events      \* requests, failures and lost locks so far

vars == <<job, entry, subs, disabled, queue, wk, session, events>>

\* Dates are kept relative to the present: how long ago something started,
\* up to the deadline it is compared with, and how long a lease still runs
\* (0: it is NULL or has run out).
NoAge == -1

Ages(limit) == {NoAge} \cup 0 .. limit

Older(age, limit) == IF age \in 0 .. limit - 1 THEN age + 1 ELSE age

Active == {"PENDING", "PROCESSING"}

Terminal == {"CANCELED", "COMPLETED", "FAILED"}

\* status, cancelRequestedAt, the age of startedAt and the four counters.
ImportJob ==
  [status : {"NONE"} \cup Active \cup Terminal, cancel : BOOLEAN,
   age : Ages(Deadline),
   added : Nat, failed : Nat, skipped : Nat, processed : Nat]

Outcomes == {"ADDED", "FAILED", "SKIPPED"}

ImportJobEntry ==
  [status : Active \cup Outcomes, attempt : Nat,
   owner : Workers \cup {NoOwner}, left : 0 .. Lease]

QueueJob ==
  [state : {"none", "wait", "active"}, made : 0 .. MaxAttempts,
   stalls : 0 .. MaxStalls, holder : Workers \cup {NoOwner}]

NoDelivery == [state |-> "none", made |-> 0, stalls |-> 0, holder |-> NoOwner]

Stages == {"idle", "cancel", "expire", "begin", "loop", "claim", "import", "renew",
           "finalize", "check", "complete", "requeue", "fail"}

\* age is that of the startedAt it read, batch that of its batch; n counts
\* the entries of the batch and held is leaseHeld of the heartbeat.
WorkerState ==
  [pc : Stages, slot : Slots \cup {NoSlot},
   age : Ages(Deadline), batch : Ages(BatchDeadline), n : 0 .. BatchSize,
   entry : Entries \cup {NoEntry}, attempt : Nat,
   held : BOOLEAN, result : Outcomes \cup {"none"}]

Idle == [pc |-> "idle", slot |-> NoSlot, age |-> NoAge, batch |-> NoAge, n |-> 0,
         entry |-> NoEntry, attempt |-> 0, held |-> FALSE, result |-> "none"]

SessionState ==
  [pc : {"idle", "created", "retry", "locked", "enqueue"},
   locked : SUBSET Entries, added : Nat, skipped : Nat]

IdleSession == [pc |-> "idle", locked |-> {}, added |-> 0, skipped |-> 0]

\* One more of the events that nothing obliges to happen.
Event == events < MaxEvents /\ events' = events + 1

GoTo(w, stage) == wk' = [wk EXCEPT ![w].pc = stage]

With(status) == {e \in Entries : entry[e].status = status}

Unlocked(e) == \A v \in Sessions : e \notin session[v].locked

-----------------------------------------------------------------------------
(* The queue (external: BullMQ as opml-import-queue.ts configures it).     *)

FreeSlots == {s \in Slots : queue[s].state = "none"}

Fresh == [NoDelivery EXCEPT !.state = "wait"]

\* enqueueOpmlImportJob
Enqueue == \E s \in FreeSlots : queue' = [queue EXCEPT ![s] = Fresh]

Holds(w) == /\ wk[w].slot # NoSlot
            /\ queue[wk[w].slot].state = "active"
            /\ queue[wk[w].slot].holder = w

\* The worker function returned: the queue job is removed.
Done(w) ==
  /\ queue' = IF Holds(w) THEN [queue EXCEPT ![wk[w].slot] = NoDelivery] ELSE queue
  /\ wk' = [wk EXCEPT ![w] = Idle]

\* The holder of the queue job no longer runs it.
Abandoned(s) == queue[s].state = "active" /\ wk[queue[s].holder].slot # s

\* The lock of an active queue job lapsed: it is delivered again, or given up
\* (with attemptsMade below the limit of the failed handler).
Stalled(s) ==
  /\ queue[s].state = "active"
  /\ IF Abandoned(s) THEN UNCHANGED events ELSE Event
  /\ queue' = [queue EXCEPT ![s] =
                 IF queue[s].stalls < MaxStalls
                 THEN [@ EXCEPT !.state = "wait", !.stalls = queue[s].stalls + 1,
                                !.holder = NoOwner]
                 ELSE NoDelivery]
  /\ UNCHANGED <<job, entry, subs, disabled, wk, session>>

-----------------------------------------------------------------------------
(* The web process.                                                        *)

\* createOpmlImportJob: the import and its entries in one transaction.
CreateImport(v) ==
  /\ session[v].pc = "idle"
  /\ job.status = "NONE"
  /\ ~disabled
  /\ job' = [job EXCEPT !.status = "PENDING"]
  /\ session' = [session EXCEPT ![v].pc = "created"]
  /\ UNCHANGED <<entry, subs, disabled, queue, wk, events>>

\* Then the queue job is added; without the queue the import is FAILED, by
\* an update without a condition when it was just created.
StartQueue(v) ==
  /\ session[v].pc \in {"created", "enqueue"}
  /\ session' = [session EXCEPT ![v] = IdleSession]
  /\ \/ /\ Enqueue
        /\ UNCHANGED <<job, events>>
     \/ /\ Event
        /\ job' = IF session[v].pc = "created" \/ job.status \in Active
                  THEN [job EXCEPT !.status = "FAILED"] ELSE job
        /\ UNCHANGED queue
  /\ UNCHANGED <<entry, subs, disabled, wk>>

\* The web process stops between its transaction and the queue.
StopSession(v) ==
  /\ session[v].pc # "idle"
  /\ Event
  /\ session' = [session EXCEPT ![v] = IdleSession]
  /\ UNCHANGED <<job, entry, subs, disabled, queue, wk>>

\* cancelOpmlImportJob
CancelImport ==
  /\ job.status \in Active /\ ~job.cancel
  /\ Event
  /\ job' = [job EXCEPT !.cancel = TRUE]
  /\ UNCHANGED <<entry, subs, disabled, queue, wk, session>>

\* The part of disableUserAction that concerns imports.
DisableUser ==
  /\ ~disabled
  /\ Event
  /\ disabled' = TRUE
  /\ job' = [job EXCEPT !.cancel = @ \/ job.status \in Active]
  /\ UNCHANGED <<entry, subs, queue, wk, session>>

\* retryOpmlImportJob reads that the import has ended ...
RetryRead(v) ==
  /\ session[v].pc = "idle"
  /\ job.status \in Terminal
  /\ ~disabled
  /\ Event
  /\ session' = [session EXCEPT ![v].pc = "retry"]
  /\ UNCHANGED <<job, entry, subs, disabled, queue, wk>>

\* ... its transaction resets (and so locks) the entries that are not
\* finished and counts the finished ones ...
RetryReset(v) ==
  /\ session[v].pc = "retry"
  /\ \A x \in Sessions : session[x].pc # "locked"
  /\ session' = [session EXCEPT ![v] =
       [pc |-> "locked", locked |-> With("FAILED") \cup With("PROCESSING"),
        added |-> Cardinality(With("ADDED")), skipped |-> Cardinality(With("SKIPPED"))]]
  /\ UNCHANGED <<job, entry, subs, disabled, queue, wk, events>>

\* Mutant: the retry keeps counting from the old counters.
RetryWriteKeepsCounters(v) ==
  /\ session[v].pc = "locked"
  /\ entry' = [e \in Entries |->
       IF e \in session[v].locked
       THEN [status |-> "PENDING", attempt |-> entry[e].attempt,
             owner |-> NoOwner, left |-> 0]
       ELSE entry[e]]
  /\ job' = [job EXCEPT !.status = "PENDING", !.cancel = FALSE, !.age = NoAge]
  /\ session' = [session EXCEPT ![v] = [IdleSession EXCEPT !.pc = "enqueue"]]
  /\ UNCHANGED <<subs, disabled, queue, wk, events>>

\* ... and writes those counts to the import, whatever it is by then.
RetryWrite(v) ==
  /\ session[v].pc = "locked"
  /\ entry' = [e \in Entries |->
       IF e \in session[v].locked
       THEN [status |-> "PENDING", attempt |-> entry[e].attempt,
             owner |-> NoOwner, left |-> 0]
       ELSE entry[e]]
  /\ job' = [status |-> "PENDING", cancel |-> FALSE, age |-> NoAge,
             added |-> session[v].added, failed |-> 0, skipped |-> session[v].skipped,
             processed |-> session[v].added + session[v].skipped]
  /\ session' = [session EXCEPT ![v] = [IdleSession EXCEPT !.pc = "enqueue"]]
  /\ UNCHANGED <<subs, disabled, queue, wk, events>>

-----------------------------------------------------------------------------
(* processOpmlImportJob.                                                   *)

\* Mutant: a run does not look at the operation deadline.
StartIgnoresDeadline(w, s) ==
  /\ wk[w].pc = "idle"
  /\ queue[s].state = "wait"
  /\ LET next == CASE job.status \in Terminal -> "idle"
                   [] job.cancel \/ disabled -> "cancel"
                   [] OTHER -> "begin"
         age == IF job.age = NoAge THEN 0 ELSE job.age
     IN  IF next = "idle"
         THEN /\ queue' = [queue EXCEPT ![s] = NoDelivery]
              /\ UNCHANGED wk
         ELSE /\ queue' = [queue EXCEPT ![s].state = "active", ![s].holder = w]
              /\ wk' = [wk EXCEPT ![w] = [Idle EXCEPT
                          !.pc = next, !.slot = s, !.age = age]]
  /\ UNCHANGED <<job, entry, subs, disabled, session, events>>

\* A worker takes a delivery and reads the import.
Start(w, s) ==
  /\ wk[w].pc = "idle"
  /\ queue[s].state = "wait"
  /\ LET next == CASE job.status \in Terminal -> "idle"
                   [] job.cancel \/ disabled -> "cancel"
                   [] job.age = Deadline -> "expire"
                   [] OTHER -> "begin"
         age == IF job.age = NoAge THEN 0 ELSE job.age
     IN  IF next = "idle"
         THEN /\ queue' = [queue EXCEPT ![s] = NoDelivery]
              /\ UNCHANGED wk
         ELSE /\ queue' = [queue EXCEPT ![s].state = "active", ![s].holder = w]
              /\ wk' = [wk EXCEPT ![w] = [Idle EXCEPT
                          !.pc = next, !.slot = s, !.age = age]]
  /\ UNCHANGED <<job, entry, subs, disabled, session, events>>

\* markOpmlImportCanceled, markOpmlImportFailed and completeOpmlImportJob are
\* conditional updates of an active import.
MarkCanceled(w) ==
  /\ wk[w].pc = "cancel"
  /\ job' = IF job.status \in Active THEN [job EXCEPT !.status = "CANCELED"] ELSE job
  /\ Done(w)
  /\ UNCHANGED <<entry, subs, disabled, session, events>>

MarkExpired(w) ==
  /\ wk[w].pc = "expire"
  /\ job' = IF job.status \in Active THEN [job EXCEPT !.status = "FAILED"] ELSE job
  /\ Done(w)
  /\ UNCHANGED <<entry, subs, disabled, session, events>>

\* The import becomes PROCESSING, whatever became of it since it was read.
Begin(w) ==
  /\ wk[w].pc = "begin"
  /\ job' = [job EXCEPT !.status = "PROCESSING", !.age = wk[w].age]
  /\ wk' = [wk EXCEPT ![w].pc = "loop", ![w].age = NoAge, ![w].batch = 0]
  /\ UNCHANGED <<entry, subs, disabled, queue, session, events>>

\* One round of the batch: stop when canceled, at the batch size or at the
\* batch deadline.
Loop(w) ==
  /\ wk[w].pc = "loop"
  /\ \/ /\ wk[w].n = BatchSize
        /\ GoTo(w, "check")
     \/ /\ wk[w].n < BatchSize
        /\ job.cancel \/ job.status = "CANCELED" \/ disabled
        /\ GoTo(w, "cancel")
     \/ /\ wk[w].n < BatchSize
        /\ ~(job.cancel \/ job.status = "CANCELED" \/ disabled)
        /\ GoTo(w, IF wk[w].batch = BatchDeadline THEN "requeue" ELSE "claim")
  /\ UNCHANGED <<job, entry, subs, disabled, queue, session, events>>

Claimable(e) ==
  /\ Unlocked(e)
  /\ \/ entry[e].status = "PENDING"
     \/ /\ entry[e].status = "PROCESSING"
        /\ entry[e].left = 0

ImportOpen == job.status \in Active /\ ~job.cancel

\* claimOpmlImportEntry: the first claimable entry of an open import.
ClaimEntry(w) ==
  /\ wk[w].pc = "claim"
  /\ \/ \E e \in Entries :
          /\ ImportOpen
          /\ Claimable(e)
          /\ \A f \in Entries : Claimable(f) => e <= f
          /\ entry' = [entry EXCEPT ![e] =
               [status |-> "PROCESSING", attempt |-> entry[e].attempt + 1,
                owner |-> w, left |-> Lease]]
          /\ wk' = [wk EXCEPT ![w] = [@ EXCEPT !.pc = "import", !.entry = e,
                      !.attempt = entry[e].attempt + 1, !.held = TRUE, !.result = "none"]]
     \/ /\ ~(ImportOpen /\ \E e \in Entries : Claimable(e))
        /\ GoTo(w, "check")
        /\ UNCHANGED entry
  /\ UNCHANGED <<job, subs, disabled, queue, session, events>>

\* Mutant: the fence accepts an attempt that was overtaken.
LeaseOfAnyAttempt(w) == entry[wk[w].entry].attempt >= wk[w].attempt

\* The fence of renewal and finalization.
LeaseCurrent(w) ==
  LET e == wk[w].entry IN
  /\ entry[e].attempt = wk[w].attempt
  /\ entry[e].owner = w
  /\ entry[e].left > 0
  /\ entry[e].status = "PROCESSING"

Renewed(w) == [entry EXCEPT ![wk[w].entry].left = Lease]

\* The heartbeat of runWithOpmlImportEntryLeaseHeartbeat; the lease counts as
\* lost when the renewal matches no row and when it throws.
Heartbeat(w) ==
  /\ wk[w].pc = "import"
  /\ wk[w].held
  /\ Unlocked(wk[w].entry)
  /\ \/ /\ LeaseCurrent(w)
        /\ entry' = Renewed(w)
        /\ UNCHANGED wk
        /\ UNCHANGED events
     \/ /\ IF LeaseCurrent(w) THEN Event ELSE UNCHANGED events
        /\ wk' = [wk EXCEPT ![w].held = FALSE]
        /\ UNCHANGED entry
  /\ UNCHANGED <<job, subs, disabled, queue, session>>

\* importOpmlEntry: subscribe, find the subscription there, or fail.
ImportEntry(w) ==
  LET e == wk[w].entry IN
  /\ wk[w].pc = "import"
  /\ \E result \in {"FAILED", IF e \in subs THEN "SKIPPED" ELSE "ADDED"} :
       /\ subs' = IF result = "ADDED" THEN subs \cup {e} ELSE subs
       /\ wk' = [wk EXCEPT ![w].pc = "renew", ![w].result = result]
  /\ UNCHANGED <<job, entry, disabled, queue, session, events>>

\* The last renewal; without it the worker leaves the entry to others.
FinalRenew(w) ==
  /\ wk[w].pc = "renew"
  /\ Unlocked(wk[w].entry)
  /\ \/ /\ wk[w].held /\ LeaseCurrent(w)
        /\ entry' = Renewed(w)
        /\ GoTo(w, "finalize")
     \/ /\ ~(wk[w].held /\ LeaseCurrent(w))
        /\ GoTo(w, "requeue")
        /\ UNCHANGED entry
  /\ UNCHANGED <<job, subs, disabled, queue, session, events>>

CanFinalize(w) ==
  /\ LeaseCurrent(w)
  /\ ImportOpen
  /\ job.processed < Cardinality(Entries)

\* The counters after one more entry ended with `result`.
Counted(result) ==
  [job EXCEPT !.added = @ + (IF result = "ADDED" THEN 1 ELSE 0),
              !.failed = @ + (IF result = "FAILED" THEN 1 ELSE 0),
              !.skipped = @ + (IF result = "SKIPPED" THEN 1 ELSE 0),
              !.processed = @ + 1]

\* finalizeOpmlImportEntry: entry and counters in one fenced statement.
FinalizeEntry(w) ==
  /\ wk[w].pc = "finalize"
  /\ Unlocked(wk[w].entry)
  /\ \/ /\ CanFinalize(w)
        /\ entry' = [entry EXCEPT ![wk[w].entry] = [@ EXCEPT
                       !.status = wk[w].result, !.owner = NoOwner, !.left = 0]]
        /\ job' = Counted(wk[w].result)
        /\ wk' = [wk EXCEPT ![w] = [@ EXCEPT !.pc = "loop", !.n = wk[w].n + 1,
                    !.entry = NoEntry, !.attempt = 0, !.held = FALSE, !.result = "none"]]
     \/ /\ ~CanFinalize(w)
        /\ GoTo(w, "requeue")
        /\ UNCHANGED <<entry, job>>
  /\ UNCHANGED <<subs, disabled, queue, session, events>>

Unfinished == With("PENDING") \cup With("PROCESSING")

\* After the batch: continue in another queue job, or complete.
Check(w) ==
  /\ wk[w].pc = "check"
  /\ GoTo(w, IF Unfinished # {} THEN "requeue" ELSE "complete")
  /\ UNCHANGED <<job, entry, subs, disabled, queue, session, events>>

\* Mutant: completion trusts the earlier look at the entries.
CompleteTrustsCheck(w) ==
  /\ wk[w].pc = "complete"
  /\ job' = IF ImportOpen THEN [job EXCEPT !.status = "COMPLETED"] ELSE job
  /\ Done(w)
  /\ UNCHANGED <<entry, subs, disabled, session, events>>

Complete(w) ==
  /\ wk[w].pc = "complete"
  /\ job' = IF ImportOpen /\ Unfinished = {}
            THEN [job EXCEPT !.status = "COMPLETED"] ELSE job
  /\ Done(w)
  /\ UNCHANGED <<entry, subs, disabled, session, events>>

\* The worker adds the next run and its own queue job completes.  The id of
\* the next run may be taken already when this one was delivered twice.
Requeue(w) ==
  /\ wk[w].pc = "requeue"
  /\ \/ /\ Holds(w)
        /\ queue' = [queue EXCEPT ![wk[w].slot] = Fresh]
     \/ ~Holds(w) /\ Enqueue
     \/ ~Holds(w) /\ UNCHANGED queue
  /\ wk' = [wk EXCEPT ![w] = Idle]
  /\ UNCHANGED <<job, entry, subs, disabled, session, events>>

\* A call throws: the queue job waits for its next attempt; after the last
\* one the failed handler marks the import.
Throw(w) ==
  LET s == wk[w].slot
      last == queue[s].made + 1 >= MaxAttempts
  IN
  /\ wk[w].pc \notin {"idle", "fail"}
  /\ Event
  /\ \/ /\ Holds(w)
        /\ queue' = [queue EXCEPT ![s] =
                       IF last THEN NoDelivery
                       ELSE [@ EXCEPT !.state = "wait", !.made = queue[s].made + 1,
                                      !.holder = NoOwner]]
        /\ wk' = [wk EXCEPT ![w] = IF last THEN [Idle EXCEPT !.pc = "fail"] ELSE Idle]
     \/ /\ ~Holds(w)
        /\ wk' = [wk EXCEPT ![w] = Idle]
        /\ UNCHANGED queue
  /\ UNCHANGED <<job, entry, subs, disabled, session>>

\* failOpmlImportJob, called by the failed handler.
RecordFailure(w) ==
  /\ wk[w].pc = "fail"
  /\ job' = IF job.status \in Active THEN [job EXCEPT !.status = "FAILED"] ELSE job
  /\ wk' = [wk EXCEPT ![w] = Idle]
  /\ UNCHANGED <<entry, subs, disabled, queue, session, events>>

\* A worker process stops; what it holds lapses.
Crash(w) ==
  /\ wk[w].pc # "idle"
  /\ Event
  /\ wk' = [wk EXCEPT ![w] = Idle]
  /\ UNCHANGED <<job, entry, subs, disabled, queue, session>>

TimePasses ==
  /\ job' = [job EXCEPT !.age = Older(@, Deadline)]
  /\ entry' = [e \in Entries |-> [entry[e] EXCEPT !.left = IF @ > 0 THEN @ - 1 ELSE 0]]
  /\ wk' = [w \in Workers |-> [wk[w] EXCEPT !.age = Older(@, Deadline),
                                            !.batch = Older(@, BatchDeadline)]]
  /\ UNCHANGED <<subs, disabled, queue, session, events>>

-----------------------------------------------------------------------------
Init ==
  /\ job = [status |-> "NONE", cancel |-> FALSE, age |-> NoAge,
            added |-> 0, failed |-> 0, skipped |-> 0, processed |-> 0]
  /\ entry = [e \in Entries |-> [status |-> "PENDING", attempt |-> 0,
                                 owner |-> NoOwner, left |-> 0]]
  /\ subs = Subscribed
  /\ disabled = FALSE
  /\ queue = [s \in Slots |-> NoDelivery]
  /\ wk = [w \in Workers |-> Idle]
  /\ session = [v \in Sessions |-> IdleSession]
  /\ events = 0

Work(w) ==
  \/ MarkCanceled(w) \/ MarkExpired(w) \/ Begin(w) \/ Loop(w) \/ ClaimEntry(w)
  \/ ImportEntry(w) \/ FinalRenew(w) \/ FinalizeEntry(w) \/ Check(w) \/ Complete(w)
  \/ Requeue(w) \/ RecordFailure(w)

Web(v) ==
  CreateImport(v) \/ StartQueue(v) \/ RetryRead(v) \/ RetryReset(v) \/ RetryWrite(v)

Next ==
  \/ \E w \in Workers : Work(w) \/ Heartbeat(w) \/ Throw(w) \/ Crash(w)
  \/ \E s \in Slots : Stalled(s) \/ \E w \in Workers : Start(w, s)
  \/ \E v \in Sessions : Web(v) \/ StopSession(v)
  \/ CancelImport
  \/ DisableUser
  \/ TimePasses

Spec == Init /\ [][Next]_vars

\* Running code keeps running, waiting deliveries are taken, a queue job
\* whose worker is gone is delivered again, and time passes.
Fairness ==
  /\ \A w \in Workers : WF_vars(Work(w))
  /\ \A s \in Slots : WF_vars(\E w \in Workers : Start(w, s))
  /\ \A s \in Slots : WF_vars(Abandoned(s) /\ Stalled(s))
  /\ \A v \in Sessions : WF_vars(RetryWrite(v))
  /\ WF_vars(TimePasses)

FairSpec == Spec /\ Fairness

-----------------------------------------------------------------------------
\* The types of the import, its entries, the queue and the processes.
OpmlTypeOK ==
  /\ job \in ImportJob
  /\ entry \in [Entries -> ImportJobEntry]
  /\ subs \subseteq Entries
  /\ disabled \in BOOLEAN
  /\ queue \in [Slots -> QueueJob]
  /\ wk \in [Workers -> WorkerState]
  /\ session \in [Sessions -> SessionState]
  /\ events \in 0 .. MaxEvents

\* "Parent counters updated only by a successful fenced terminal transition"
\* (fifth-pass-capability-status.md): whatever is redelivered, taken over,
\* canceled or retried, no entry is counted twice or under an outcome it
\* does not have, and the progress shown never exceeds the feeds.
CountersBackedByEntries ==
  /\ job.added <= Cardinality(With("ADDED"))
  /\ job.skipped <= Cardinality(With("SKIPPED"))
  /\ job.failed <= Cardinality(With("FAILED"))
  /\ job.processed = job.added + job.skipped + job.failed

\* "Completion requires no pending or processing entries": a COMPLETED import
\* has an outcome for every feed, even when it was retried while a worker was
\* about to complete it.
CompletedMeansFinished == job.status = "COMPLETED" => Unfinished = {}

\* An outcome, once ADDED or SKIPPED, is never rewritten: not by a worker whose
\* entry was taken over, reset by a retry or finished by another worker.
OutcomeIsFinal ==
  [][\A e \in Entries :
       entry[e].status \in {"ADDED", "SKIPPED"} => entry'[e] = entry[e]]_vars

\* The work of an import comes to an end: no queue job is left.  In particular
\* a worker that meets the lease of a stopped one, and so adds another run of
\* the import at once, does not go round for ever.
QueuedImportEnds ==
  (\E s \in Slots : queue[s].state \in {"wait", "active"}) ~>
    (\A s \in Slots : queue[s].state = "none")
=============================================================================
