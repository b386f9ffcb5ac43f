------------------------------ MODULE AiDigest ------------------------------
(***************************************************************************)
(* The AI briefing: requestAiDigestWithClient and processAiDigestWithClient*)
(* of src/lib/ai-digests.ts, the ai-digest queue (src/lib/                 *)
(* ai-digest-queue.ts) and the account switch of src/app/admin/actions.ts. *)
(* A digest is requested by the web process, which then adds a queue job;  *)
(* workers take jobs, and a job whose worker lost its queue lock is        *)
(* delivered again, perhaps while the first worker is still running.  The  *)
(* allowance is the ledger of AiLedger; the idempotency key is the digest. *)
(***************************************************************************)
EXTENDS AiLedger

CONSTANTS
  NoKey,         \* no digest
  MaxAttempts,   \* attempts of a queue job
  MaxStalls      \* deliveries after a lost lock before the job is failed

ASSUME DigestAssumption ==
  /\ NoKey \notin Keys
  /\ MaxAttempts \in Nat \ {0}
  /\ MaxStalls \in Nat

Workers == Owners

VARIABLES
  digest,     \* AiDigest.status of each digest
  adding,     \* digests the web process created but has not enqueued yet
  job,        \* the queue job of each digest
  wk,         \* the local state of each worker
  log,        \* AiUsageLog rows written, by digest
  disabled    \* users whose account is disabled

digestVars == <<digest, adding, job, wk, log, disabled>>
vars == <<clock, op, period, digest, adding, job, wk, log, disabled>>

Active == {"PENDING", "PROCESSING"}

DigestStatuses == {"NONE", "PENDING", "PROCESSING", "COMPLETED", "FAILED", "CANCELED"}

\* made counts failed attempts, stalls redeliveries; holder has the lock.
Job == [state  : {"none", "wait", "active", "failed"},
        made   : 0 .. MaxAttempts,
        stalls : 0 .. MaxStalls + 1,
        holder : Workers \cup {NoOwner}]

NoJob == [state |-> "none", made |-> 0, stalls |-> 0, holder |-> NoOwner]

NoLease == [attempt |-> 0, owner |-> NoOwner]

Stages == {"idle", "eligible", "reserve", "claim", "reread", "start", "recheck",
           "canceling", "provider", "finalize", "failing", "markFailed"}

WorkerState == [pc    : Stages,
                key   : Keys \cup {NoKey},
                at    : Times \cup {NoTime},
                lease : Leases]

Idle == [pc |-> "idle", key |-> NoKey, at |-> NoTime, lease |-> NoLease]

GoTo(w, stage) == wk' = [wk EXCEPT ![w].pc = stage]

-----------------------------------------------------------------------------
(* The queue (external: BullMQ as ai-digest-queue.ts configures it).       *)

\* The worker function returned: the job is removed if the lock is still held.
JobCompleted(w) ==
  LET k == wk[w].key IN
  /\ job' = [job EXCEPT ![k] =
               IF @.state = "active" /\ @.holder = w THEN NoJob ELSE @]
  /\ wk' = [wk EXCEPT ![w] = Idle]

\* The worker function threw: the job waits for its next attempt or fails.
JobThrew(w) ==
  LET k == wk[w].key
      again == job[k].made + 1 < MaxAttempts
  IN
  /\ job' = [job EXCEPT ![k] =
               IF @.state = "active" /\ @.holder = w
               THEN [@ EXCEPT !.state = IF again THEN "wait" ELSE "failed",
                              !.made = job[k].made + 1, !.holder = NoOwner]
               ELSE @]
  /\ wk' = [wk EXCEPT ![w] = Idle]

\* The lock of an active job lapsed: deliver it again, or fail it.
Stalled(k) ==
  /\ job[k].state = "active"
  /\ job' = [job EXCEPT ![k] = [@ EXCEPT
               !.state = IF job[k].stalls < MaxStalls THEN "wait" ELSE "failed",
               !.stalls = job[k].stalls + 1, !.holder = NoOwner]]
  /\ UNCHANGED <<clock, op, period, digest, adding, wk, log, disabled>>

\* The holder of the job no longer runs it.
Abandoned(k) == job[k].state = "active" /\ wk[job[k].holder].key # k

-----------------------------------------------------------------------------
(* The web process.                                                        *)

NoActiveDigest(u) == \A j \in Keys : UserOf[j] = u => digest[j] \notin Active

\* requestAiDigestWithClient: with an active digest the request returns it
\* and nothing is enqueued.
RequestDigest(k) ==
  /\ digest[k] = "NONE"
  /\ UserOf[k] \notin disabled
  /\ NoActiveDigest(UserOf[k])
  /\ digest' = [digest EXCEPT ![k] = "PENDING"]
  /\ adding' = adding \cup {k}
  /\ UNCHANGED <<clock, op, period, job, wk, log, disabled>>

\* enqueueAiDigest, or the process stops or the queue refuses before it.
EnqueueDigest(k) ==
  /\ k \in adding
  /\ adding' = adding \ {k}
  /\ job' = [job EXCEPT ![k] = [NoJob EXCEPT !.state = "wait"]]
  /\ UNCHANGED <<clock, op, period, digest, wk, log, disabled>>

LoseEnqueue(k) ==
  /\ k \in adding
  /\ adding' = adding \ {k}
  /\ UNCHANGED <<clock, op, period, digest, job, wk, log, disabled>>

\* disableUserAction: the account and its open digests.
DisableUser(u) ==
  /\ u \notin disabled
  /\ disabled' = disabled \cup {u}
  /\ digest' = [k \in Keys |->
                  IF UserOf[k] = u /\ digest[k] \in {"PENDING", "PROCESSING", "FAILED"}
                  THEN "CANCELED" ELSE digest[k]]
  /\ UNCHANGED <<clock, op, period, adding, job, wk, log>>

-----------------------------------------------------------------------------
(* processAiDigestWithClient, one step per database call that matters.     *)

\* A worker takes the job and reads the digest; a finished one ends the job.
StartJob(w, k) ==
  /\ wk[w].pc = "idle"
  /\ job[k].state = "wait"
  /\ IF digest[k] \in {"COMPLETED", "CANCELED"}
     THEN /\ job' = [job EXCEPT ![k] = NoJob]
          /\ UNCHANGED wk
     ELSE /\ job' = [job EXCEPT ![k].state = "active", ![k].holder = w]
          /\ wk' = [wk EXCEPT ![w] = [Idle EXCEPT !.pc = "eligible", !.key = k, !.at = clock]]
  /\ UNCHANGED <<clock, op, period, digest, adding, log, disabled>>

\* The first eligibility check; cancelIneligibleAiDigest is unconditional.
CheckEligibility(w) ==
  LET k == wk[w].key IN
  /\ wk[w].pc = "eligible"
  /\ IF UserOf[k] \in disabled
     THEN /\ digest' = [digest EXCEPT ![k] = "CANCELED"]
          /\ JobCompleted(w)
     ELSE /\ GoTo(w, "reserve")
          /\ UNCHANGED <<digest, job>>
  /\ UNCHANGED <<clock, op, period, adding, log, disabled>>

\* reserveAiUsageOperation with the date captured when the job started.
ReserveStep(w) ==
  LET k == wk[w].key
      now == wk[w].at
  IN
  /\ wk[w].pc = "reserve"
  /\ \/ ReserveNew(k, now)
     \/ RetryReservation(k, now)
     \/ /\ op[k].status # "ABSENT"
        /\ ~Retryable(k, now)
        /\ UNCHANGED ledgerVars
  /\ \/ /\ op'[k].status = "FAILED"
        /\ wk' = [wk EXCEPT ![w].pc = "failing", ![w].at = NoTime]
        /\ UNCHANGED job
     \/ /\ op'[k].status = "COMPLETED"
        /\ JobCompleted(w)
     \/ /\ op'[k].status \in {"RESERVED", "PROCESSING"}
        /\ wk' = [wk EXCEPT ![w].pc = "claim", ![w].at = NoTime]
        /\ UNCHANGED job
  /\ UNCHANGED <<digest, adding, log, disabled>>

\* claimAiUsageOperation; a lease held elsewhere ends the job as a success.
ClaimStep(w) ==
  /\ wk[w].pc = "claim"
  /\ \/ /\ Claim(wk[w].key, w, clock)
        /\ GoTo(w, "reread")
        /\ UNCHANGED job
     \/ /\ ~LeaseClaimable(wk[w].key, clock)
        /\ JobCompleted(w)
        /\ UNCHANGED ledgerVars
  /\ UNCHANGED <<digest, adding, log, disabled>>

\* The claimed row is read back; with another owner by then the claim throws
\* and the failure path runs without a lease.
RereadStep(w) ==
  /\ wk[w].pc = "reread"
  /\ IF op[wk[w].key].owner = w
     THEN wk' = [wk EXCEPT ![w].pc = "start", ![w].lease = CurrentLease(wk[w].key)]
     ELSE GoTo(w, "failing")
  /\ UNCHANGED <<clock, op, period, digest, adding, job, log, disabled>>

\* The digest becomes PROCESSING, whatever it was; then the articles are
\* selected.  The index of one active digest per user may refuse it.
StartDigest(w) ==
  LET k == wk[w].key IN
  /\ wk[w].pc = "start"
  /\ \/ /\ \A j \in Keys \ {k} : UserOf[j] = UserOf[k] => digest[j] \notin Active
        /\ digest' = [digest EXCEPT ![k] = "PROCESSING"]
        /\ \E stage \in {"recheck", "failing"} : GoTo(w, stage)
     \/ /\ \E j \in Keys \ {k} : UserOf[j] = UserOf[k] /\ digest[j] \in Active
        /\ GoTo(w, "failing")
        /\ UNCHANGED digest
  /\ UNCHANGED <<clock, op, period, adding, job, log, disabled>>

\* The second eligibility check, before the provider is paid.
RecheckEligibility(w) ==
  LET k == wk[w].key IN
  /\ wk[w].pc = "recheck"
  /\ \/ /\ UserOf[k] \notin disabled
        /\ GoTo(w, "provider")
        /\ UNCHANGED <<ledgerVars, job>>
     \/ /\ UserOf[k] \in disabled
        /\ Owns(k, wk[w].lease)
        /\ Fail(k)
        /\ GoTo(w, "canceling")
        /\ UNCHANGED job
     \/ /\ UserOf[k] \in disabled
        /\ ~Owns(k, wk[w].lease)
        /\ JobCompleted(w)
        /\ UNCHANGED ledgerVars
  /\ UNCHANGED <<digest, adding, log, disabled>>

\* cancelIneligibleAiDigest after the unit was released.
CancelDigest(w) ==
  /\ wk[w].pc = "canceling"
  /\ digest' = [digest EXCEPT ![wk[w].key] = "CANCELED"]
  /\ JobCompleted(w)
  /\ UNCHANGED <<clock, op, period, adding, log, disabled>>

\* runWithAiOperationLeaseHeartbeat: a renewal while the provider works; one
\* sent before the answer may reach the database after it.
Heartbeat(w) ==
  /\ wk[w].pc \in {"provider", "finalize", "failing"}
  /\ Renew(wk[w].key, wk[w].lease, clock)
  /\ UNCHANGED digestVars

ProviderAnswers(w) ==
  /\ wk[w].pc = "provider"
  /\ \E stage \in {"finalize", "failing"} : GoTo(w, stage)
  /\ UNCHANGED <<clock, op, period, digest, adding, job, log, disabled>>

\* Mutant: the digest is completed before the fenced transaction.
FinalizeDigestFirst(w) ==
  LET k == wk[w].key IN
  /\ wk[w].pc = "finalize"
  /\ digest' = [digest EXCEPT ![k] = "COMPLETED"]
  /\ \/ /\ Complete(k, wk[w].lease, clock)
        /\ log' = [log EXCEPT ![k] = @ + 1]
        /\ JobCompleted(w)
     \/ /\ ~CanComplete(k, wk[w].lease, clock)
        /\ GoTo(w, "failing")
        /\ UNCHANGED <<ledgerVars, log, job>>
  /\ UNCHANGED <<adding, disabled>>

\* The final transaction: items, digest, usage log and completed operation.
Finalize(w) ==
  LET k == wk[w].key IN
  /\ wk[w].pc = "finalize"
  /\ \/ /\ Complete(k, wk[w].lease, clock)
        /\ digest' = [digest EXCEPT ![k] = "COMPLETED"]
        /\ log' = [log EXCEPT ![k] = @ + 1]
        /\ JobCompleted(w)
     \/ /\ ~CanComplete(k, wk[w].lease, clock)
        /\ GoTo(w, "failing")
        /\ UNCHANGED <<ledgerVars, digest, log, job>>
  /\ UNCHANGED <<adding, disabled>>

\* Mutant: the catch block does not pass the lease on.
FailOperationUnfenced(w) ==
  LET k == wk[w].key IN
  /\ wk[w].pc = "failing"
  /\ \/ Unfinished(k) /\ Fail(k)
     \/ ~Unfinished(k) /\ UNCHANGED ledgerVars
  /\ GoTo(w, "markFailed")
  /\ UNCHANGED <<digest, adding, job, log, disabled>>

\* The catch block releases the operation: with the lease as a fence when
\* there is one, and without any fence when the claim was never confirmed.
FailOperation(w) ==
  LET k == wk[w].key
      fenced == wk[w].lease # NoLease
  IN
  /\ wk[w].pc = "failing"
  /\ \/ /\ IF fenced THEN Owns(k, wk[w].lease) ELSE Unfinished(k)
        /\ Fail(k)
        /\ GoTo(w, "markFailed")
        /\ UNCHANGED job
     \/ /\ ~fenced /\ ~Unfinished(k)
        /\ GoTo(w, "markFailed")
        /\ UNCHANGED <<ledgerVars, job>>
     \/ /\ fenced /\ ~Owns(k, wk[w].lease)
        /\ JobCompleted(w)
        /\ UNCHANGED ledgerVars
  /\ UNCHANGED <<digest, adding, log, disabled>>

\* The digest becomes FAILED, whatever it was, and the job throws.
MarkDigestFailed(w) ==
  /\ wk[w].pc = "markFailed"
  /\ digest' = [digest EXCEPT ![wk[w].key] = "FAILED"]
  /\ JobThrew(w)
  /\ UNCHANGED <<clock, op, period, adding, log, disabled>>

\* What a worker does when a statement throws: in the try block the catch block
\* follows, which releases nothing before the reservation returned an operation;
\* outside of it, and in the catch block itself, the job function throws.
OnError(w) ==
  \/ /\ wk[w].pc \in {"eligible", "canceling", "failing", "markFailed"}
     /\ JobThrew(w)
  \/ /\ wk[w].pc = "reserve"
     /\ wk' = [wk EXCEPT ![w].pc = "markFailed", ![w].at = NoTime]
     /\ UNCHANGED job
  \/ /\ wk[w].pc \in {"claim", "reread", "start", "recheck", "finalize"}
     /\ GoTo(w, "failing")
     /\ UNCHANGED job

\* A statement fails without effect.
StatementFails(w) ==
  /\ OnError(w)
  /\ UNCHANGED <<clock, op, period, digest, adding, log, disabled>>

\* The database commits a call on the ledger and its answer is lost.
AnswerLost(w) ==
  LET k == wk[w].key IN
  /\ OnError(w)
  /\ \/ /\ wk[w].pc = "reserve"
        /\ ReserveNew(k, wk[w].at) \/ RetryReservation(k, wk[w].at)
        /\ UNCHANGED <<digest, log>>
     \/ /\ wk[w].pc = "claim"
        /\ Claim(k, w, clock)
        /\ UNCHANGED <<digest, log>>
     \/ /\ wk[w].pc = "finalize"
        /\ Complete(k, wk[w].lease, clock)
        /\ digest' = [digest EXCEPT ![k] = "COMPLETED"]
        /\ log' = [log EXCEPT ![k] = @ + 1]
     \/ /\ \/ wk[w].pc = "recheck" /\ UserOf[k] \in disabled /\ Owns(k, wk[w].lease)
           \/ wk[w].pc = "failing" /\ (wk[w].lease # NoLease => Owns(k, wk[w].lease))
        /\ Fail(k)
        /\ UNCHANGED <<digest, log>>
  /\ UNCHANGED <<adding, disabled>>

Crash(w) ==
  /\ wk[w].pc # "idle"
  /\ wk' = [wk EXCEPT ![w] = Idle]
  /\ UNCHANGED <<clock, op, period, digest, adding, job, log, disabled>>

RunReconciliation ==
  /\ \E S \in SUBSET Keys : Reconcile(S, clock)
  /\ UNCHANGED digestVars

TimePasses == Tick /\ UNCHANGED digestVars

-----------------------------------------------------------------------------
Init ==
  /\ LedgerInit
  /\ digest = [k \in Keys |-> "NONE"]
  /\ adding = {}
  /\ job = [k \in Keys |-> NoJob]
  /\ wk = [w \in Workers |-> Idle]
  /\ log = [k \in Keys |-> 0]
  /\ disabled = {}

\* The steps a running worker takes by itself.
Work(w) ==
  \/ CheckEligibility(w)
  \/ ReserveStep(w)
  \/ ClaimStep(w)
  \/ RereadStep(w)
  \/ StartDigest(w)
  \/ RecheckEligibility(w)
  \/ CancelDigest(w)
  \/ ProviderAnswers(w)
  \/ Finalize(w)
  \/ FailOperation(w)
  \/ MarkDigestFailed(w)

Next ==
  \/ \E k \in Keys :
       \/ RequestDigest(k)
       \/ EnqueueDigest(k)
       \/ LoseEnqueue(k)
       \/ Stalled(k)
       \/ \E w \in Workers : StartJob(w, k)
  \/ \E w \in Workers : \/ Work(w) \/ Heartbeat(w)
                        \/ StatementFails(w) \/ AnswerLost(w) \/ Crash(w)
  \/ \E u \in Users : DisableUser(u)
  \/ RunReconciliation
  \/ TimePasses

\* Workers keep working, jobs are taken, an abandoned job is delivered again
\* by the queue, the reconciler runs with every scheduler tick, and time
\* passes.  Errors, crashes, account changes and requests are never owed.
Fairness ==
  /\ \A w \in Workers : WF_vars(Work(w))
  /\ \A k \in Keys : WF_vars(\E w \in Workers : StartJob(w, k))
  /\ \A k \in Keys : WF_vars(Abandoned(k) /\ Stalled(k))
  /\ WF_vars(RunReconciliation)
  /\ WF_vars(TimePasses)

Spec == Init /\ [][Next]_vars /\ Fairness

-----------------------------------------------------------------------------
(* Properties that hold.                                                   *)

\* The types of the digest, queue and worker state.
DigestTypeOK ==
  /\ LedgerTypeOK
  /\ digest \in [Keys -> DigestStatuses]
  /\ adding \subseteq Keys
  /\ job \in [Keys -> Job]
  /\ wk \in [Workers -> WorkerState]
  /\ log \in [Keys -> Nat]
  /\ disabled \subseteq Users

\* Redelivered jobs, takeovers and crashes never charge a digest twice and
\* never deliver one that was not charged: one usage log row per charged
\* unit, and a COMPLETED digest has a COMPLETED operation.
DigestChargedOnce ==
  \A k \in Keys :
    /\ log[k] = op[k].consumed
    /\ digest[k] = "COMPLETED" => op[k].consumed = 1

\* The digest pipeline is a caller of the ledger, so the balance and the limit
\* proved there hold for it.  The ledger does not say who may release a unit.
DigestImplementsLedger == LedgerSpec

HoldsLiveLease(w) ==
  /\ wk[w].lease # NoLease
  /\ Owns(wk[w].key, wk[w].lease)
  /\ op[wk[w].key].expires > clock

\* The step of somebody else that takes the lease of w away.
LosesLease(w) ==
  LET k == wk[w].key IN
  /\ HoldsLiveLease(w)
  /\ wk'[w] = wk[w]
  /\ <<op'[k].status, op'[k].attempt, op'[k].owner>> # <<op[k].status, op[k].attempt, op[k].owner>>

\* v never learned of a lease of its own and releases the operation of k.
ReleasesUnfenced(v, k) ==
  /\ wk[v].key = k /\ wk[v].pc = "failing" /\ wk[v].lease = NoLease
  /\ wk'[v] # wk[v]

\* A worker that holds a lease which has not run out keeps its operation until
\* it gives it up itself: not an overtaken worker that wakes up, nor a second
\* delivery, nor the reconciler ends it.  The exception is a worker whose
\* reservation found the operation FAILED or whose claim was not confirmed: it
\* releases whatever is there by then.
HolderKeepsLiveLease ==
  [][\A w \in Workers :
       LosesLease(w) => \E v \in Workers : ReleasesUnfenced(v, wk[w].key)]_vars

-----------------------------------------------------------------------------
(* What the documentation says and the code does not do.                   *)

\* ai-operation-leases-runbook.md: "Only that lease owner can record completion
\* or release quota", and ai-usage.ts on claimAiUsageOperation: "so a superseded
\* worker cannot write".  The release of processAiDigestWithClient without a
\* lease does.
OnlyHolderReleases == [][\A w \in Workers : ~LosesLease(w)]_vars

\* ai-operation-leases-runbook.md: the reconciler marks expired reservations
\* retryable and "the next idempotent queue attempt can reserve the same
\* logical operation again": a digest whose operation was released comes to
\* an end.
ReleasedDigestIsRetried ==
  \A k \in Keys :
    (digest[k] = "PROCESSING" /\ Retryable(k, clock) /\ UserOf[k] \notin disabled)
      ~> (digest[k] \notin Active)
=============================================================================
