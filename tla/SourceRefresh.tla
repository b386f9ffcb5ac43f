--------------------------- MODULE SourceRefresh ---------------------------
(***************************************************************************)
(* Refresh of one feed: the lease of src/lib/source-refresh-leases.ts, the *)
(* worker function of feed-refresh.ts with the batches of                  *)
(* refresh-write-batch.ts, the queue of feed-refresh-queue.ts and the      *)
(* scheduler of refresh-scheduler.ts.  A refresh is generation-fenced:     *)
(* every claim increments refreshGeneration, outcomes are written only by  *)
(* the current generation, and items carry the generation that wrote them. *)
(* Every statement is a step.  Time is abstract: a lease is live or not,   *)
(* and nextFetchAt is due, claimed by the scheduler, or later.             *)
(***************************************************************************)
EXTENDS Integers, FiniteSets

CONSTANTS
  Workers,     \* concurrent refreshes of the worker processes
  NoOwner,
  Items,       \* externalIds of the feed's items
  Versions,    \* the publisher's documents are 1 .. Versions
  Doc,         \* the items of a version with their fingerprints
  BatchSize,   \* REFRESH_WRITE_BATCH_SIZE
  MaxAttempts, \* attempts of a queue job
  MaxStalls,   \* redeliveries of a queue job whose lock lapsed
  MaxGen,      \* bound on claims
  MaxEvents    \* bound on failures, crashes, lapses and pauses

ASSUME RefreshAssumption ==
  /\ NoOwner \notin Workers
  /\ {Versions, BatchSize, MaxAttempts} \subseteq Nat \ {0}
  /\ {MaxStalls, MaxGen, MaxEvents} \subseteq Nat
  /\ \A v \in 1 .. Versions : DOMAIN Doc[v] \subseteq Items

VARIABLES
  feed,       \* the Feed row
  stored,     \* the Article rows of the feed
  job,        \* the refresh job of the feed
  worker,     \* where each worker is in refreshFeedWithClient
  scheduler,  \* whether the scheduler is about to enqueue the feed
  wanted,     \* some subscription of the feed is not paused
  published,  \* the version the publisher serves
  chat,       \* how often each item was given to the chat integration
  history,    \* who recorded last, and whether a late insert happened
  events

vars == <<feed, stored, job, worker, scheduler, wanted, published, chat, history, events>>

\* nextFetchAt is next; refreshGeneration, refreshOwner and the expiry are gen,
\* owner and live; etag and lastModified are the version they stand for.
Feed ==
  [gen : 0 .. MaxGen, owner : Workers \cup {NoOwner}, live : BOOLEAN,
   etag : 0 .. Versions, failures : 0 .. MaxEvents, next : {"due", "claimed", "later"}]

\* from = 0: there is no such article; gen = 0: sourceGeneration is null.
Article == [gen : 0 .. MaxGen, from : 0 .. Versions]

QueueJob ==
  [state : {"none", "wait", "active"}, made : 0 .. MaxAttempts - 1,
   stalls : 0 .. MaxStalls, holder : Workers \cup {NoOwner}]

NoJob == [state |-> "none", made |-> 0, stalls |-> 0, holder |-> NoOwner]

Fresh == [NoJob EXCEPT !.state = "wait"]

Stages == {"idle", "claimed", "read", "fetch", "answered", "hydrate", "existing",
           "create", "insert", "update", "write", "record", "fail", "release"}

\* What a refresh knows: its generation, what it read of the feed, the version
\* it fetched (0: not modified), the items it still writes, those it found
\* missing and those it inserted, and how it ends.
Refresh ==
  [at : Stages, gen : 0 .. MaxGen, failures : 0 .. MaxEvents, etag : 0 .. Versions,
   doc : 0 .. Versions, create : SUBSET Items, update : SUBSET Items,
   missing : SUBSET Items, mine : SUBSET Items, end : {"skipped", "success", "threw"}]

Idle == [at |-> "idle", gen |-> 0, failures |-> 0, etag |-> 0, doc |-> 0,
         create |-> {}, update |-> {}, missing |-> {}, mine |-> {}, end |-> "skipped"]

Event == events < MaxEvents /\ events' = events + 1

GoTo(w, stage) == worker' = [worker EXCEPT ![w].at = stage]

-----------------------------------------------------------------------------
(* The queue (external: BullMQ as feed-refresh-queue.ts uses it) and time. *)

\* enqueueFeedRefresh: one job per feed; a second add changes nothing.
Added == IF job.state = "none" THEN Fresh ELSE job

Holds(w) == job.state = "active" /\ job.holder = w

Done(w) ==
  /\ job' = IF Holds(w) THEN NoJob ELSE job
  /\ worker' = [worker EXCEPT ![w] = Idle]

\* removeOnFail: after its last attempt nothing is left of a job.
Retried ==
  IF job.made + 1 < MaxAttempts
  THEN [state |-> "wait", made |-> job.made + 1, stalls |-> job.stalls, holder |-> NoOwner]
  ELSE NoJob

Threw(w) ==
  /\ job' = IF Holds(w) THEN Retried ELSE job
  /\ worker' = [worker EXCEPT ![w] = Idle]

Abandoned == job.state = "active" /\ worker[job.holder].at = "idle"

Redelivered ==
  IF job.stalls < MaxStalls
  THEN [state |-> "wait", made |-> job.made, stalls |-> job.stalls + 1, holder |-> NoOwner]
  ELSE NoJob

Stalled ==
  /\ job.state = "active"
  /\ IF Abandoned THEN UNCHANGED events ELSE Event
  /\ job' = Redelivered
  /\ UNCHANGED <<feed, stored, worker, scheduler, wanted, published, chat, history>>

\* Whether the worker that owns the lease is at work for it.
LeaseAtWork == feed.owner # NoOwner /\ worker[feed.owner].at # "idle"

\* The lease runs out.  Heartbeats every five minutes keep it while its owner
\* is at work, so that it takes an event to lose it.
LeaseLapses ==
  /\ feed.live
  /\ IF LeaseAtWork THEN Event ELSE UNCHANGED events
  /\ feed' = [feed EXCEPT !.live = FALSE]
  /\ UNCHANGED <<stored, job, worker, scheduler, wanted, published, chat, history>>

\* nextFetchAt, or the scheduler's claim, is reached.
BecomesDue ==
  /\ feed.next # "due"
  /\ feed' = [feed EXCEPT !.next = "due"]
  /\ UNCHANGED <<stored, job, worker, scheduler, wanted, published, chat, history, events>>

-----------------------------------------------------------------------------
(* refresh-scheduler.ts and the users.                                     *)

\* enqueueDueRefreshes claims a due feed that somebody reads ...
ScheduleDue ==
  /\ scheduler = "idle"
  /\ feed.next = "due" /\ wanted
  /\ feed' = [feed EXCEPT !.next = "claimed"]
  /\ scheduler' = "enqueue"
  /\ UNCHANGED <<stored, job, worker, wanted, published, chat, history, events>>

\* ... and adds its job.  enqueueFeedRefresh swallows queue errors; when the
\* maintenance lease is gone the claim is taken back, unless it was replaced;
\* a scheduler that stops leaves it.
EnqueueDue ==
  /\ scheduler = "enqueue"
  /\ scheduler' = "idle"
  /\ \/ /\ job' = Added
        /\ UNCHANGED <<feed, events>>
     \/ /\ Event
        /\ UNCHANGED <<feed, job>>
     \/ /\ Event
        /\ feed' = [feed EXCEPT !.next = IF @ = "claimed" THEN "due" ELSE @]
        /\ UNCHANGED job
  /\ UNCHANGED <<stored, worker, wanted, published, chat, history>>

\* refreshFeedAction: a user asks for a refresh of a feed that is not paused.
ManualRefresh ==
  /\ wanted
  /\ Event
  /\ job' = Added
  /\ UNCHANGED <<feed, stored, worker, scheduler, wanted, published, chat, history>>

\* The subscriptions of the feed are paused, or one is resumed.
TogglePause ==
  /\ Event
  /\ wanted' = ~wanted
  /\ UNCHANGED <<feed, stored, job, worker, scheduler, published, chat, history>>

Publish ==
  /\ published < Versions
  /\ published' = published + 1
  /\ UNCHANGED <<feed, stored, job, worker, scheduler, wanted, chat, history, events>>

-----------------------------------------------------------------------------
(* source-refresh-leases.ts.                                               *)

\* sourceRefreshLeaseWhere
LeaseHeld(w) == feed.live /\ feed.owner = w /\ feed.gen = worker[w].gen

\* Mutant: only a released lease can be claimed.
ClaimOnlyReleased(w) ==
  /\ worker[w].at = "idle" /\ job.state = "wait"
  /\ feed.gen < MaxGen
  /\ \/ /\ ~feed.live /\ feed.owner = NoOwner
        /\ feed' = [feed EXCEPT !.gen = @ + 1, !.owner = w, !.live = TRUE]
        /\ job' = [job EXCEPT !.state = "active", !.holder = w]
        /\ GoTo(w, "claimed")
     \/ /\ feed.live \/ feed.owner # NoOwner
        /\ job' = NoJob
        /\ UNCHANGED <<feed, worker>>
  /\ UNCHANGED <<stored, scheduler, wanted, published, chat, history, events>>

\* A worker takes the job; claimSourceRefreshLease, or the refresh is skipped.
Claim(w) ==
  /\ worker[w].at = "idle" /\ job.state = "wait"
  /\ feed.gen < MaxGen
  /\ \/ /\ ~feed.live
        /\ feed' = [feed EXCEPT !.gen = @ + 1, !.owner = w, !.live = TRUE]
        /\ job' = [job EXCEPT !.state = "active", !.holder = w]
        /\ GoTo(w, "claimed")
     \/ /\ feed.live
        /\ job' = NoJob
        /\ UNCHANGED <<feed, worker>>
  /\ UNCHANGED <<stored, scheduler, wanted, published, chat, history, events>>

\* findCurrent: the claim is confirmed and its generation read.
ConfirmClaim(w) ==
  /\ worker[w].at = "claimed"
  /\ \/ /\ feed.owner = w
        /\ worker' = [worker EXCEPT ![w].at = "read", ![w].gen = feed.gen]
        /\ UNCHANGED job
     \/ /\ feed.owner # w
        /\ Done(w)
  /\ UNCHANGED <<feed, stored, scheduler, wanted, published, chat, history, events>>

\* renewSourceRefreshLease: go on, or end the refresh as skipped.
RenewAnd(w, stage) ==
  IF LeaseHeld(w) THEN GoTo(w, stage)
  ELSE worker' = [worker EXCEPT ![w].at = "release", ![w].end = "skipped"]

-----------------------------------------------------------------------------
(* refreshFeedWithClient.                                                  *)

ReadFeed(w) ==
  /\ worker[w].at = "read"
  /\ worker' = [worker EXCEPT ![w].at = "fetch", ![w].failures = feed.failures,
                              ![w].etag = feed.etag]
  /\ UNCHANGED <<feed, stored, job, scheduler, wanted, published, chat, history, events>>

\* The publisher answers: not modified for the current validators (which it
\* may ignore), the document, or an error.
Fetch(w) ==
  /\ worker[w].at = "fetch"
  /\ \/ /\ worker[w].etag = published
        /\ worker' = [worker EXCEPT ![w].at = "answered", ![w].doc = 0]
        /\ UNCHANGED events
     \/ /\ worker' = [worker EXCEPT ![w].at = "answered", ![w].doc = published]
        /\ UNCHANGED events
     \/ /\ Event
        /\ GoTo(w, "fail")
  /\ UNCHANGED <<feed, stored, job, scheduler, wanted, published, chat, history>>

\* Mutant: the validators are stored with the response, before its items.
AnsweredStoresValidators(w) ==
  /\ worker[w].at = "answered"
  /\ RenewAnd(w, IF worker[w].doc = 0 THEN "record" ELSE "hydrate")
  /\ feed' = IF LeaseHeld(w) /\ worker[w].doc # 0 THEN [feed EXCEPT !.etag = worker[w].doc]
             ELSE feed
  /\ UNCHANGED <<stored, job, scheduler, wanted, published, chat, history, events>>

\* The renewal after the request.
Answered(w) ==
  /\ worker[w].at = "answered"
  /\ RenewAnd(w, IF worker[w].doc = 0 THEN "record" ELSE "hydrate")
  /\ UNCHANGED <<feed, stored, job, scheduler, wanted, published, chat, history, events>>

\* hydrateLinkedArticleContent writes nothing; the lease is renewed after it.
Hydrate(w) ==
  /\ worker[w].at = "hydrate"
  /\ RenewAnd(w, "existing")
  /\ UNCHANGED <<feed, stored, job, scheduler, wanted, published, chat, history, events>>

NextWrite(create, update) ==
  CASE create # {} -> "create"
    [] create = {} /\ update # {} -> "update"
    [] create = {} /\ update = {} -> "record"

Present == {i \in Items : stored[i].from # 0}

\* An item changes when its fingerprint does, or its generation is older.
Changed(w, i) ==
  \/ Doc[stored[i].from][i] # Doc[worker[w].doc][i]
  \/ stored[i].gen < worker[w].gen

\* writeFeedArticles reads the existing items once, before the batches.
ReadExisting(w) ==
  /\ worker[w].at = "existing"
  /\ LET items == DOMAIN Doc[worker[w].doc]
         missing == items \ Present
         changed == {i \in items \cap Present : Changed(w, i)}
     IN worker' = [worker EXCEPT ![w].at = NextWrite(missing, changed),
                                 ![w].create = missing, ![w].missing = missing,
                                 ![w].update = changed]
  /\ UNCHANGED <<feed, stored, job, scheduler, wanted, published, chat, history, events>>

\* beforeWriteBatch
RenewForBatch(w) ==
  /\ worker[w].at \in {"create", "update"}
  /\ RenewAnd(w, IF worker[w].at = "create" THEN "insert" ELSE "write")
  /\ UNCHANGED <<feed, stored, job, scheduler, wanted, published, chat, history, events>>

Batches(items) ==
  {b \in SUBSET items : Cardinality(b) = BatchSize \/ (b = items /\ Cardinality(b) < BatchSize)}

Written(w, items) ==
  [i \in Items |-> IF i \in items THEN [gen |-> worker[w].gen, from |-> worker[w].doc]
                   ELSE stored[i]]

\* createMany with skipDuplicates
CreateBatch(w) ==
  /\ worker[w].at = "insert"
  /\ \E batch \in Batches(worker[w].create) :
       LET new == batch \ Present
           rest == worker[w].create \ batch
       IN /\ stored' = Written(w, new)
          /\ worker' = [worker EXCEPT ![w].at = NextWrite(rest, worker[w].update),
                                      ![w].create = rest, ![w].mine = @ \cup new]
          /\ history' = [history EXCEPT !.late = @ \/ (new # {} /\ feed.gen # worker[w].gen)]
  /\ UNCHANGED <<feed, job, scheduler, wanted, published, chat, events>>

\* Mutant: an update is not limited to older generations.
UpdateBatchUnfenced(w) ==
  /\ worker[w].at = "write"
  /\ \E batch \in Batches(worker[w].update) :
       LET rest == worker[w].update \ batch
       IN /\ stored' = Written(w, batch)
          /\ worker' = [worker EXCEPT ![w].at = NextWrite({}, rest), ![w].update = rest]
  /\ UNCHANGED <<feed, job, scheduler, wanted, published, chat, history, events>>

\* The updates of a batch are one transaction; each needs an older generation.
UpdateBatch(w) ==
  /\ worker[w].at = "write"
  /\ \E batch \in Batches(worker[w].update) :
       LET rest == worker[w].update \ batch
       IN /\ stored' = Written(w, {i \in batch : stored[i].gen < worker[w].gen})
          /\ worker' = [worker EXCEPT ![w].at = NextWrite({}, rest), ![w].update = rest]
  /\ UNCHANGED <<feed, job, scheduler, wanted, published, chat, history, events>>

\* responseValidators: a response without validators leaves the old ones.
Validators(w) == {feed.etag} \cup (IF worker[w].doc = 0 THEN {} ELSE {worker[w].doc})

\* recordSuccessfulFeedFetch
RecordSuccess(w) ==
  /\ worker[w].at = "record"
  /\ worker' = [worker EXCEPT ![w].at = "release",
                              ![w].end = IF LeaseHeld(w) THEN "success" ELSE "skipped"]
  /\ \/ /\ LeaseHeld(w)
        /\ \E tag \in Validators(w) :
             feed' = [feed EXCEPT !.etag = tag, !.failures = 0, !.next = "later"]
        /\ history' = [history EXCEPT !.by = worker[w].gen]
     \/ /\ ~LeaseHeld(w)
        /\ UNCHANGED <<feed, history>>
  /\ UNCHANGED <<stored, job, scheduler, wanted, published, chat, events>>

\* The catch block, fenced as well; its update may fail.
RecordFailure(w) ==
  /\ worker[w].at = "fail"
  /\ worker' = [worker EXCEPT ![w].at = "release", ![w].end = "threw"]
  /\ \/ /\ LeaseHeld(w)
        /\ feed' = [feed EXCEPT !.failures = worker[w].failures + 1, !.next = "later"]
        /\ history' = [history EXCEPT !.by = worker[w].gen]
        /\ UNCHANGED events
     \/ /\ ~LeaseHeld(w)
        /\ UNCHANGED <<feed, history, events>>
     \/ /\ Event
        /\ UNCHANGED <<feed, history>>
  /\ UNCHANGED <<stored, job, scheduler, wanted, published, chat>>

\* A statement inside the try block throws.
StatementFails(w) ==
  /\ worker[w].at \in {"answered", "hydrate", "existing", "create", "insert", "update",
                       "write", "record"}
  /\ Event
  /\ GoTo(w, "fail")
  /\ UNCHANGED <<feed, stored, job, scheduler, wanted, published, chat, history>>

\* Mutant: missing items count as new, whoever inserted them.
NewItemsMissing(w) == worker[w].missing

\* newArticleIds: only when this refresh inserted every item it found missing.
NewItems(w) == IF worker[w].mine = worker[w].missing THEN worker[w].mine ELSE {}

\* The finally block, then refreshFeedAndQueueChatIntegration: some of the new
\* items may not be queued.
Release(w) ==
  /\ worker[w].at = "release"
  /\ feed' = IF LeaseHeld(w) THEN [feed EXCEPT !.live = FALSE, !.owner = NoOwner] ELSE feed
  /\ \/ /\ worker[w].end = "success"
        /\ \E queued \in SUBSET NewItems(w) :
             /\ IF queued = NewItems(w) THEN UNCHANGED events ELSE Event
             /\ chat' = [i \in Items |-> IF i \in queued THEN chat[i] + 1 ELSE chat[i]]
        /\ Done(w)
     \/ /\ worker[w].end = "skipped"
        /\ Done(w)
        /\ UNCHANGED <<chat, events>>
     \/ /\ worker[w].end = "threw"
        /\ Threw(w)
        /\ UNCHANGED <<chat, events>>
  /\ UNCHANGED <<stored, scheduler, wanted, published, history>>

\* A statement outside the try block throws, the release included.
Throw(w) ==
  /\ worker[w].at \in {"claimed", "read", "release"}
  /\ Event
  /\ Threw(w)
  /\ UNCHANGED <<feed, stored, scheduler, wanted, published, chat, history>>

\* The worker process stops.
Crash(w) ==
  /\ worker[w].at # "idle"
  /\ Event
  /\ worker' = [worker EXCEPT ![w] = Idle]
  /\ UNCHANGED <<feed, stored, job, scheduler, wanted, published, chat, history>>

-----------------------------------------------------------------------------
\* Articles written before generations existed have none.
Init ==
  /\ feed = [gen |-> 0, owner |-> NoOwner, live |-> FALSE, etag |-> 0, failures |-> 0,
             next |-> "due"]
  /\ \E from \in {0, 1} :
       stored = [i \in Items |-> [gen |-> 0, from |-> IF i \in DOMAIN Doc[1] THEN from ELSE 0]]
  /\ job = NoJob
  /\ worker = [w \in Workers |-> Idle]
  /\ scheduler = "idle"
  /\ wanted = TRUE
  /\ published = 1
  /\ chat = [i \in Items |-> 0]
  /\ history = [by |-> 0, late |-> FALSE]
  /\ events = 0

Step(w) ==
  \/ ConfirmClaim(w) \/ ReadFeed(w) \/ Fetch(w) \/ Answered(w) \/ Hydrate(w)
  \/ ReadExisting(w) \/ RenewForBatch(w) \/ CreateBatch(w) \/ UpdateBatch(w)
  \/ RecordSuccess(w) \/ RecordFailure(w) \/ Release(w)

Next ==
  \/ \E w \in Workers : Claim(w) \/ Step(w) \/ StatementFails(w) \/ Throw(w) \/ Crash(w)
  \/ Stalled \/ LeaseLapses \/ BecomesDue
  \/ ScheduleDue \/ EnqueueDue \/ ManualRefresh \/ TogglePause
  \/ Publish

Spec == Init /\ [][Next]_vars

\* Workers take waiting jobs and run on, lost locks and leases of stopped
\* workers run out, claims of the scheduler run out and the scheduler ticks.
Fairness ==
  /\ WF_vars(\E w \in Workers : Claim(w))
  /\ \A w \in Workers : WF_vars(Step(w))
  /\ WF_vars(Abandoned /\ Stalled)
  /\ WF_vars(~LeaseAtWork /\ LeaseLapses)
  /\ WF_vars(feed.next = "claimed" /\ BecomesDue)
  /\ WF_vars(ScheduleDue)
  /\ WF_vars(EnqueueDue)

FairSpec == Spec /\ Fairness

-----------------------------------------------------------------------------
\* The types of the rows, the queue job and the refreshes.
RefreshTypeOK ==
  /\ feed \in Feed
  /\ stored \in [Items -> Article]
  /\ job \in QueueJob
  /\ worker \in [Workers -> Refresh]
  /\ scheduler \in {"idle", "enqueue"}
  /\ wanted \in BOOLEAN
  /\ published \in 1 .. Versions
  /\ chat \in [Items -> Nat]
  /\ history \in [by : 0 .. MaxGen, late : BOOLEAN]
  /\ events \in 0 .. MaxEvents

\* "Older source refreshes can overwrite newer results" no more
\* (fifth-pass-baseline.md:80): neither an item nor the feed's outcome goes
\* back to an older refresh.
NewerResultStays ==
  [][ /\ history.by <= history'.by
      /\ \A i \in Items : stored[i].gen <= stored'[i].gen ]_vars

\* "do not emit a possibly old item as a fresh chat event" (feed-refresh.ts:510):
\* however refreshes overlap, an item is given to the chat bot once, by the
\* refresh that inserted it.
OnlyInsertedAnnounced ==
  [][ \A i \in Items : chat'[i] # chat[i] =>
        chat[i] = 0 /\ \E w \in Workers : i \in worker[w].mine /\ worker'[w].at = "idle" ]_vars

\* The validators never claim more than the articles hold: once they stand for
\* a version, so that the publisher answers "not modified" from then on, every
\* item of that version is stored as of that version or a later one.
ValidatorsCoverItems ==
  feed.etag # 0 => \A i \in DOMAIN Doc[feed.etag] : stored[i].from >= feed.etag

\* ValidatorsCoverItems, unless a superseded refresh inserted an item.
ValidatorsCoverUnlessLate == ~history.late => ValidatorsCoverItems

\* A due feed that is read is fetched, whatever was lost on the way: claim,
\* queue job, lock, lease or worker.
DueFeedRefreshed ==
  (feed.next = "due" /\ wanted) ~> (feed.next = "later" \/ ~wanted \/ feed.gen = MaxGen)
=============================================================================
