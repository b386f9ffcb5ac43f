---------------------------- MODULE SmartDigest ----------------------------
(***************************************************************************)
(* The generation of the daily digests of one Smart Digest rule:           *)
(* src/lib/smart-digest-processing.ts, the run leases of                   *)
(* smart-digest-run-leases.ts, the fixed-id queue of smart-digest-queue.ts *)
(* and the scheduler of worker/index.ts.  A run belongs to the instant it  *)
(* was scheduled for.  Articles arrive meanwhile; a digest takes those of  *)
(* its window that no digest of the rule has.  The email of a run is       *)
(* modelled here up to its queue job, and by DigestEmail from there.       *)
(* A statement or a transaction is one step.  Leases are kept as the time  *)
(* they still run; the clock stops at its bound, leases do not.            *)
(***************************************************************************)
EXTENDS Integers, FiniteSets

CONSTANTS
  Articles,
  Matching,        \* the articles the terms of the rule match
  Published,       \* publishedAt of each article
  Workers,
  NoOwner,
  Day,             \* the cadence, in ticks
  Lookback,        \* SMART_DIGEST_LATE_ARRIVAL_LOOKBACK_MS, in ticks
  IngestDelay,     \* how long an article may take from createdAt to its commit
  Lease,           \* SMART_DIGEST_PROCESSING_LEASE_MS, in ticks
  CandidateLimit,  \* take: 100
  ItemLimit,       \* slice(0, 50)
  EmailEnabled,
  MaxAttempts,     \* attempts of a queue job
  MaxStalls,
  MaxClock,
  MaxEvents        \* bound on failures, crashes, pauses and lost locks

ASSUME SmartAssumption ==
  /\ Matching \subseteq Articles /\ IsFiniteSet(Articles)
  /\ Published \in [Articles -> Nat]
  /\ NoOwner \notin Workers
  /\ {Day, Lease, CandidateLimit, ItemLimit, MaxAttempts} \subseteq Nat \ {0}
  /\ {Lookback, IngestDelay, MaxStalls, MaxClock, MaxEvents} \subseteq Nat
  /\ IngestDelay <= Lookback
  /\ EmailEnabled \in BOOLEAN

VARIABLES
  now,       \* the clock
  rule,      \* the SmartDigestRule row
  runs,      \* the DigestRun rows with their digests, by scheduledFor
  created,   \* createdAt of the articles that are visible
  disabled,  \* User.disabledAt is set
  queue,     \* the queue jobs, by scheduledFor
  mails,     \* runs whose email job was added
  wk,        \* the local state of each worker
  events

vars == <<now, rule, runs, created, disabled, queue, mails, wk, events>>

None == -1

Times == 0 .. MaxClock

\* The instants a run can be due at, and those nextRunAt can name.
Instants == {t \in 1 .. MaxClock : t % Day = 0}

Upcoming == {t \in 1 .. MaxClock + Day : t % Day = 0}

Statuses == {"none", "PENDING", "PROCESSING", "COMPLETED", "FAILED", "CANCELED"}

Rule == [enabled : BOOLEAN, next : Upcoming \cup {None}, watermark : Times \cup {None}]

\* from and upto are watermarkFrom and watermarkTo; digest tells that digestId
\* is set and items are the articles of that digest.
DigestRun ==
  [status : Statuses, attempt : Nat, owner : Workers \cup {NoOwner}, left : 0 .. Lease,
   digest : BOOLEAN, items : SUBSET Articles, email : {"NOT_REQUESTED", "PENDING"},
   from : Int, upto : Times \cup {None}]

NoRun == [status |-> "none", attempt |-> 0, owner |-> NoOwner, left |-> 0,
          digest |-> FALSE, items |-> {}, email |-> "NOT_REQUESTED",
          from |-> None, upto |-> None]

QueueJob ==
  [state : {"none", "wait", "active", "failed"}, made : 0 .. MaxAttempts - 1,
   stalls : 0 .. MaxStalls, holder : Workers \cup {NoOwner}]

NoJob == [state |-> "none", made |-> 0, stalls |-> 0, holder |-> NoOwner]

Stages == {"idle", "upsert", "claim", "query", "renew", "recheck", "commit",
           "email", "fail"}

\* now and watermark are what the worker read, pending tells that the run it
\* read waits for its email, items are the articles it found and held is
\* leaseHeld of the heartbeat.
WorkerState ==
  [pc : Stages, at : Instants \cup {None}, now : Times \cup {None},
   watermark : Times \cup {None}, pending : BOOLEAN, attempt : Nat,
   items : SUBSET Articles, held : BOOLEAN]

Idle == [pc |-> "idle", at |-> None, now |-> None, watermark |-> None,
         pending |-> FALSE, attempt |-> 0, items |-> {}, held |-> FALSE]

Event == events < MaxEvents /\ events' = events + 1

GoTo(w, stage) == wk' = [wk EXCEPT ![w].pc = stage]

Run(w) == runs[wk[w].at]

-----------------------------------------------------------------------------
(* The queue (external: BullMQ as smart-digest-queue.ts uses it).          *)

Holds(w) == /\ wk[w].at # None
            /\ queue[wk[w].at].state = "active"
            /\ queue[wk[w].at].holder = w

\* The worker function returned.
Done(w) ==
  /\ queue' = IF Holds(w) THEN [queue EXCEPT ![wk[w].at] = NoJob] ELSE queue
  /\ wk' = [wk EXCEPT ![w] = Idle]

\* The worker function threw: the next attempt waits, or the job stays failed.
Retried(j) == IF j.made + 1 < MaxAttempts
              THEN [j EXCEPT !.state = "wait", !.made = j.made + 1, !.holder = NoOwner]
              ELSE [j EXCEPT !.state = "failed", !.holder = NoOwner]

Threw(w) ==
  /\ queue' = IF Holds(w) THEN [queue EXCEPT ![wk[w].at] = Retried(queue[wk[w].at])]
              ELSE queue
  /\ wk' = [wk EXCEPT ![w] = Idle]

Abandoned(i) == queue[i].state = "active" /\ wk[queue[i].holder].at # i

\* The lock of an active job lapsed: it is delivered again, or failed.
Stalled(i) ==
  /\ queue[i].state = "active"
  /\ IF Abandoned(i) THEN UNCHANGED events ELSE Event
  /\ queue' = [queue EXCEPT ![i] =
       IF queue[i].stalls < MaxStalls
       THEN [@ EXCEPT !.state = "wait", !.stalls = queue[i].stalls + 1, !.holder = NoOwner]
       ELSE [@ EXCEPT !.state = "failed", !.holder = NoOwner]]
  /\ UNCHANGED <<now, rule, runs, created, disabled, mails, wk>>

\* removeOnFail: a failed job is dropped after its day.
Retire(i) ==
  /\ queue[i].state = "failed"
  /\ queue' = [queue EXCEPT ![i] = NoJob]
  /\ UNCHANGED <<now, rule, runs, created, disabled, mails, wk, events>>

\* enqueueDueSmartDigests: the job of nextRunAt, unless its id is in use.
EnqueueDue ==
  /\ rule.enabled /\ ~disabled
  /\ rule.next \in Instants /\ rule.next <= now
  /\ queue[rule.next].state = "none"
  /\ queue' = [queue EXCEPT ![rule.next] = [NoJob EXCEPT !.state = "wait"]]
  /\ UNCHANGED <<now, rule, runs, created, disabled, mails, wk, events>>

\* Mutant: only the email of a run that is still processing counts as pending.
EmailPendingWhileProcessing(r) == r.email = "PENDING" /\ r.status = "PROCESSING"

\* A run whose email is still to be sent.
EmailPending(r) == r.email = "PENDING"

\* enqueueSmartDigestEmail: the job id is the run's, so a second add is ignored.
WithEmailJob(i) == mails \cup {i}

\* enqueuePendingSmartDigestEmails
EnqueuePendingEmail(i) ==
  /\ EmailPending(runs[i]) /\ ~disabled
  /\ mails' = WithEmailJob(i)
  /\ UNCHANGED <<now, rule, runs, created, disabled, queue, wk, events>>

-----------------------------------------------------------------------------
(* processSmartDigestRule.                                                 *)

\* A worker takes a job and reads the rule and the account.
Start(w, i) ==
  /\ wk[w].pc = "idle"
  /\ queue[i].state = "wait"
  /\ \/ /\ rule.enabled /\ ~disabled
        /\ queue' = [queue EXCEPT ![i].state = "active", ![i].holder = w]
        /\ wk' = [wk EXCEPT ![w] = [Idle EXCEPT !.pc = "upsert", !.at = i, !.now = now,
                                                !.watermark = rule.watermark]]
     \/ /\ ~(rule.enabled /\ ~disabled)
        /\ queue' = [queue EXCEPT ![i] = NoJob]
        /\ UNCHANGED wk
  /\ UNCHANGED <<now, rule, runs, created, disabled, mails, events>>

\* One run per rule and instant.
Upsert(w) ==
  /\ wk[w].pc = "upsert"
  /\ runs' = IF Run(w).status = "none"
             THEN [runs EXCEPT ![wk[w].at] = [NoRun EXCEPT !.status = "PENDING"]]
             ELSE runs
  /\ wk' = [wk EXCEPT ![w].pc = "claim",
                      ![w].pending = Run(w).digest /\ EmailPending(Run(w))]
  /\ UNCHANGED <<now, rule, created, disabled, queue, mails, events>>

\* Mutant: a run whose worker stopped is not taken over.
ClaimableIgnoresExpired(r) == r.status \in {"PENDING", "FAILED"}

Claimable(r) ==
  \/ r.status \in {"PENDING", "FAILED"}
  \/ r.status = "PROCESSING" /\ r.left = 0

\* claimSmartDigestRun.  A run with a digest is only completed; without the
\* lease the worker at most queues the email of the run it read.
Claim(w) ==
  /\ wk[w].pc = "claim"
  /\ \/ /\ Claimable(Run(w)) /\ ~Run(w).digest
        /\ runs' = [runs EXCEPT ![wk[w].at] =
             [@ EXCEPT !.status = "PROCESSING", !.attempt = Run(w).attempt + 1,
                       !.owner = w, !.left = Lease]]
        /\ wk' = [wk EXCEPT ![w] = [@ EXCEPT !.pc = "query", !.held = TRUE,
                                             !.attempt = Run(w).attempt + 1]]
     \/ /\ ~(Claimable(Run(w)) /\ ~Run(w).digest)
        /\ runs' = IF Claimable(Run(w))
                   THEN [runs EXCEPT ![wk[w].at] =
                          [@ EXCEPT !.status = "COMPLETED", !.attempt = Run(w).attempt + 1]]
                   ELSE runs
        /\ GoTo(w, "email")
  /\ UNCHANGED <<now, rule, created, disabled, queue, mails, events>>

\* smartDigestRunLeaseWhere
LeaseCurrent(w) ==
  /\ Run(w).status = "PROCESSING"
  /\ Run(w).attempt = wk[w].attempt
  /\ Run(w).owner = w
  /\ Run(w).left > 0

Renewed(w) == [runs EXCEPT ![wk[w].at].left = Lease]

\* The heartbeat while candidates are selected: the lease counts as lost when
\* the renewal matches no row and when it throws.
Heartbeat(w) ==
  /\ wk[w].pc = "query"
  /\ wk[w].held
  /\ \/ /\ LeaseCurrent(w)
        /\ runs' = Renewed(w)
        /\ UNCHANGED <<wk, events>>
     \/ /\ IF LeaseCurrent(w) THEN Event ELSE UNCHANGED events
        /\ wk' = [wk EXCEPT ![w].held = FALSE]
        /\ UNCHANGED runs
  /\ UNCHANGED <<now, rule, created, disabled, queue, mails>>

Included == UNION {runs[i].items : i \in Instants}

\* Mutant: the window starts at the watermark itself.
WatermarkFromExact(watermark, time) ==
  IF watermark = None THEN time - Day - Lookback ELSE watermark

\* digestWatermarkFrom; FIRST_RUN_LOOKBACK_MS is one day.
WatermarkFrom(watermark, time) ==
  (IF watermark = None THEN time - Day ELSE watermark) - Lookback

\* Mutant: only the watermark keeps articles from being repeated.
CandidatesByTime(from, upto) ==
  {a \in DOMAIN created :
     Published[a] \in from .. upto \/ created[a] \in from .. upto}

\* smartDigestWindowWhere
Candidates(from, upto) ==
  {a \in DOMAIN created :
     /\ Published[a] \in from .. upto \/ created[a] \in from .. upto
     /\ a \notin Included}

\* The n newest of a set of articles, by publishedAt and then createdAt.
Newest(S, n) ==
  LET newer(a, b) == \/ Published[a] > Published[b]
                     \/ Published[a] = Published[b] /\ created[a] > created[b]
  IN  {T \in SUBSET S :
         /\ Cardinality(T) = IF Cardinality(S) < n THEN Cardinality(S) ELSE n
         /\ \A a \in T, b \in S \ T : ~newer(b, a)}

\* The candidates are read and matched.
Query(w) ==
  /\ wk[w].pc = "query"
  /\ \E C \in Newest(Candidates(WatermarkFrom(wk[w].watermark, wk[w].now), wk[w].now),
                     CandidateLimit) :
     \E items \in Newest(C \cap Matching, ItemLimit) :
       wk' = [wk EXCEPT ![w].pc = "renew", ![w].items = items]
  /\ UNCHANGED <<now, rule, runs, created, disabled, queue, mails, events>>

\* The last renewal; without the lease the job ends.
FinalRenew(w) ==
  /\ wk[w].pc = "renew"
  /\ \/ /\ wk[w].held /\ LeaseCurrent(w)
        /\ runs' = Renewed(w)
        /\ GoTo(w, "recheck")
        /\ UNCHANGED queue
     \/ /\ ~(wk[w].held /\ LeaseCurrent(w))
        /\ Done(w)
        /\ UNCHANGED runs
  /\ UNCHANGED <<now, rule, created, disabled, mails, events>>

\* failDigestRun
Failed(w) ==
  IF LeaseCurrent(w)
  THEN [runs EXCEPT ![wk[w].at] = [@ EXCEPT !.status = "FAILED", !.owner = NoOwner, !.left = 0]]
  ELSE runs

\* Mutant: the account is not looked at again.
RecheckSkipped(w) ==
  /\ wk[w].pc = "recheck"
  /\ GoTo(w, "commit")
  /\ UNCHANGED <<now, rule, runs, created, disabled, queue, mails, events>>

\* The account is looked at again before anything is written.
Recheck(w) ==
  /\ wk[w].pc = "recheck"
  /\ \/ /\ ~disabled
        /\ GoTo(w, "commit")
        /\ UNCHANGED <<runs, queue>>
     \/ /\ disabled
        /\ runs' = Failed(w)
        /\ Done(w)
  /\ UNCHANGED <<now, rule, created, disabled, mails, events>>

\* scheduleNextSmartDigestRun: the first scheduled instant after the run began.
NextRun(time) == CHOOSE t \in Upcoming : t > time /\ t <= time + Day

\* The fenced transaction: the digest, the schedule and watermark of the rule
\* and the completion of the run.
Commit(w) ==
  /\ wk[w].pc = "commit"
  /\ \/ /\ LeaseCurrent(w)
        /\ LET email == IF EmailEnabled /\ wk[w].items # {} THEN "PENDING" ELSE "NOT_REQUESTED"
           IN  /\ runs' = [runs EXCEPT ![wk[w].at] =
                    [status |-> "COMPLETED", attempt |-> wk[w].attempt, owner |-> NoOwner,
                     left |-> 0, digest |-> TRUE, items |-> wk[w].items, email |-> email,
                     from |-> WatermarkFrom(wk[w].watermark, wk[w].now), upto |-> wk[w].now]]
               /\ wk' = [wk EXCEPT ![w].pc = "email", ![w].pending = (email = "PENDING")]
        /\ rule' = [rule EXCEPT !.watermark = wk[w].now, !.next = NextRun(wk[w].now)]
        /\ UNCHANGED queue
     \/ /\ ~LeaseCurrent(w)
        /\ Done(w)
        /\ UNCHANGED <<runs, rule>>
  /\ UNCHANGED <<now, created, disabled, mails, events>>

\* enqueueEmail, after the commit or for a run found complete.
EnqueueEmail(w) ==
  /\ wk[w].pc = "email"
  /\ mails' = IF wk[w].pending THEN WithEmailJob(wk[w].at) ELSE mails
  /\ Done(w)
  /\ UNCHANGED <<now, rule, runs, created, disabled, events>>

\* A call throws: inside the try block the run is marked first.
Throw(w) ==
  /\ wk[w].pc \notin {"idle", "fail"}
  /\ Event
  /\ \/ /\ wk[w].pc \in {"query", "renew", "recheck", "commit"}
        /\ GoTo(w, "fail")
        /\ UNCHANGED queue
     \/ /\ wk[w].pc \in {"upsert", "claim", "email"}
        /\ Threw(w)
  /\ UNCHANGED <<now, rule, runs, created, disabled, mails>>

\* failDigestRun of the catch block, unless it throws too.
FailRun(w) ==
  /\ wk[w].pc = "fail"
  /\ \/ /\ runs' = Failed(w)
        /\ UNCHANGED events
     \/ /\ Event
        /\ UNCHANGED runs
  /\ Threw(w)
  /\ UNCHANGED <<now, rule, created, disabled, mails>>

\* A worker process stops.
Crash(w) ==
  /\ wk[w].pc # "idle"
  /\ Event
  /\ wk' = [wk EXCEPT ![w] = Idle]
  /\ UNCHANGED <<now, rule, runs, created, disabled, queue, mails>>

-----------------------------------------------------------------------------
\* An article becomes visible some time after its createdAt.
Ingest(a) ==
  /\ a \notin DOMAIN created
  /\ \E delay \in 0 .. IngestDelay :
       /\ delay <= now
       /\ created' = [b \in DOMAIN created \cup {a} |->
                        IF b = a THEN now - delay ELSE created[b]]
  /\ UNCHANGED <<now, rule, runs, disabled, queue, mails, wk, events>>

\* The part of disableUserAction that concerns Smart Digests.
DisableUser ==
  /\ ~disabled
  /\ Event
  /\ disabled' = TRUE
  /\ rule' = [rule EXCEPT !.enabled = FALSE, !.next = None]
  /\ runs' = [i \in Instants |->
       IF runs[i].status \in {"PENDING", "PROCESSING", "FAILED"}
       THEN [runs[i] EXCEPT !.status = "CANCELED", !.owner = NoOwner, !.left = 0,
                            !.email = "NOT_REQUESTED"]
       ELSE [runs[i] EXCEPT !.email = "NOT_REQUESTED"]]
  /\ UNCHANGED <<now, created, queue, mails, wk>>

\* Workers that would lose their lease if a tick passed: the heartbeat and the
\* short statements after it make that an event, not the rule.
Lapsing == {w \in Workers : wk[w].at # None /\ LeaseCurrent(w) /\ Run(w).left = 1}

TimePasses ==
  /\ now' = IF now < MaxClock THEN now + 1 ELSE now
  /\ runs' = [i \in Instants |->
                [runs[i] EXCEPT !.left = IF @ > 0 THEN @ - 1 ELSE 0]]
  /\ IF Lapsing # {} THEN Event ELSE UNCHANGED events
  /\ UNCHANGED <<rule, created, disabled, queue, mails, wk>>

-----------------------------------------------------------------------------
Init ==
  /\ now = 0
  /\ rule = [enabled |-> TRUE, next |-> Day, watermark |-> None]
  /\ runs = [i \in Instants |-> NoRun]
  /\ created = [a \in {} |-> 0]
  /\ disabled = FALSE
  /\ queue = [i \in Instants |-> NoJob]
  /\ mails = {}
  /\ wk = [w \in Workers |-> Idle]
  /\ events = 0

Work(w) ==
  \/ Upsert(w) \/ Claim(w) \/ Query(w) \/ FinalRenew(w) \/ Recheck(w) \/ Commit(w)
  \/ EnqueueEmail(w) \/ FailRun(w)

Next ==
  \/ \E w \in Workers : Work(w) \/ Heartbeat(w) \/ Throw(w) \/ Crash(w)
  \/ \E i \in Instants : Stalled(i) \/ Retire(i) \/ EnqueuePendingEmail(i)
  \/ \E w \in Workers, i \in Instants : Start(w, i)
  \/ EnqueueDue
  \/ \E a \in Articles : Ingest(a)
  \/ DisableUser
  \/ TimePasses

Spec == Init /\ [][Next]_vars

\* Workers take waiting jobs and run on, lost locks are found, failed jobs are
\* dropped in the end, the scheduler ticks and time passes.
Fairness ==
  /\ \A w \in Workers : WF_vars(Work(w))
  /\ \A i \in Instants :
       /\ WF_vars(\E w \in Workers : Start(w, i))
       /\ WF_vars(Abandoned(i) /\ Stalled(i))
       /\ WF_vars(Retire(i))
       /\ WF_vars(EnqueuePendingEmail(i))
  /\ WF_vars(EnqueueDue)
  /\ WF_vars(TimePasses)

FairSpec == Spec /\ Fairness

-----------------------------------------------------------------------------
\* The types of the rows, the queue and the workers.
SmartTypeOK ==
  /\ now \in Times
  /\ rule \in Rule
  /\ runs \in [Instants -> DigestRun]
  /\ DOMAIN created \subseteq Articles
  /\ \A a \in DOMAIN created : created[a] \in Times
  /\ disabled \in BOOLEAN
  /\ queue \in [Instants -> QueueJob]
  /\ mails \subseteq Instants
  /\ wk \in [Workers -> WorkerState]
  /\ events \in 0 .. MaxEvents

\* "Keeps a small late-arrival window without repeating an article for a rule"
\* (smart-digest-processing.ts:556): the windows of two runs overlap, and the
\* filter reads the digests long before its own digest is written, yet no
\* article is in two digests of the rule.
NoArticleRepeated ==
  \A i, j \in Instants : i # j => runs[i].items \cap runs[j].items = {}

\* "Load candidate articles published or created since the previous run
\* window": a matching article that became visible in time is in a digest once
\* the watermark has passed it by more than the lookback.  This is so while a
\* window holds no more articles than CandidateLimit and ItemLimit let through;
\* the older ones of a larger window are never looked at again.
NoMatchingArticleLost ==
  \A a \in DOMAIN created \cap Matching :
    (/\ \E i \in Instants : runs[i].digest /\ runs[i].from <= created[a]
     /\ created[a] < rule.watermark - Lookback) => a \in Included

\* "Disablement cancels in-progress runs" (fifth-pass-capability-status.md):
\* once the account is disabled no digest is written and the rule does not get
\* a next run, whatever a worker had already read or claimed.
NothingAfterDisable ==
  [][disabled => /\ \A i \in Instants : runs'[i].digest = runs[i].digest
                 /\ rule' = rule]_vars

\* A due rule runs: its next run moves on unless the account is disabled, also
\* after crashes, lost locks, lost leases and jobs that failed for good.
DueRuleRuns ==
  \A i \in Instants :
    (rule.next = i /\ i <= now) ~> (rule.next # i)

\* A pending email gets its queue job, also when the worker stopped between
\* the commit and the queue.
PendingEmailQueued ==
  \A i \in Instants :
    (runs[i].email = "PENDING") ~> (i \in mails \/ disabled)
=============================================================================
