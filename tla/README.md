# Verification of arctic-rss in TLA+

arctic-rss is a feed reader: a Next.js web application over PostgreSQL (Prisma),
BullMQ workers over Redis, a chat gateway and a mobile application.  Most of what
can go wrong in it is not in one function.  Work is handed from a web request to a
queue to one of several workers; a queue job may be delivered twice; a worker may
lose its queue lock or its database lease and go on; processes stop between two
statements.  The code answers with leases, fencing numbers, idempotency keys,
fixed job ids and reconcilers.  This directory models those protocols, checks them
with TLC and proves the central facts with TLAPS.

Paths below are relative to the repository; `lib/` is `src/lib/`.

## 1. Inventory

| Component | State | Operations | What is hard | What makes it correct |
| --- | --- | --- | --- | --- |
| AI usage ledger (`lib/ai-usage.ts`) | `AiOperation` rows by idempotency key: status, attempt, lease, units; `AiUsagePeriod` rows by user and month | reserve, retry, claim, read back, renew, complete, fail, reconcile | last unit taken twice; a month boundary between reserve and finish; late finishers; callers that stop | counters equal what operations hold; never over the limit; the attempt fences |
| Article summaries, story analysis (`lib/ai-summaries.ts`, `lib/story-cluster-analysis.ts`) | result rows, usage log, the ledger | one request: cache, reserve, claim, provider with heartbeat, store and charge | two requests for one result, lost leases, provider failures | one charge per operation, never without a result |
| On-demand AI digest (`lib/ai-digests.ts`, `lib/ai-digest-queue.ts`) | `AiDigest.status`, queue job, the ledger | request, enqueue, process, cancel, disable | redelivery while the first worker runs, unconditional writes, calls whose answer is lost | one charge per digest, a COMPLETED digest is charged, nobody releases the unit of a live lease |
| OPML import (`lib/opml-import-*.ts`) | `ImportJob` with counters, `ImportJobEntry` with leases, queue jobs | create, queue, claim entry, subscribe, finalize, complete, cancel, retry, fail | takeover, double retry, deadlines, batches that queue themselves again | counters backed by entries, outcomes final, the work ends |
| Smart Digest generation (`lib/smart-digest-processing.ts`, `-run-leases.ts`, `-queue.ts`) | rule with watermark and next run, runs with leases, digests | schedule, claim, query candidates, commit, fail, disable | query long before commit, overlapping windows, articles that arrive late | no article twice, none lost, nothing after disablement |
| Smart Digest email (`lib/smart-digest-delivery*.ts`, `lib/mail.ts`) | email status on run and digest, attempts, queue job | claim, send, acknowledge, operator confirmation, schedule pending | a send is not idempotent; deadline against late acceptance; failed acknowledgement | sent once, SENT means accepted, pending deliveries move |
| Feed refresh (`lib/feed-refresh.ts`, `source-refresh-leases.ts`, `refresh-*.ts`) | lease and generation of the feed, validators, failures, articles with generation | schedule, queue, claim, fetch, write batches, record, fail, release, chat hand-over | superseded refreshes that go on writing | no older result wins, validators cover the stored items, due feeds are read |
| Podcast refresh (`lib/podcast-refresh.ts`) | as feed refresh | as feed refresh, without hydration and chat | as feed refresh | as feed refresh |
| Worker process (`worker/index.ts`, `worker/maintenance-*.ts`) | maintenance lock in Redis, backoff, heartbeat | scheduler ticks, lock renewal, shutdown | a lock that expires while its holder runs | ticks are harmless twice |
| Bulk read (`lib/bulk-read-jobs.ts`, `article-read-batch.ts`, `bulk-read-queue.ts`) | job with status, cursor and counts; article states; queue job | find or create, queue, batch (insert, update, advance), complete, cancel, fail | unconditional progress writes, two starts, two deliveries of one job, a stop before the queue add, a failure that is not recorded | the cursor never passes an unmarked article; jobs end |
| Chat outbox (`lib/chat/event-outbox.ts`) | rows with owner, lease, attempts, delivered and dead marks | read candidates, claim, publish, mark delivered or failed | leases fixed at the start of a pass, owner names shared by containers, lost outcomes | publishers overlap only when late, outcomes are final, every event settles |
| Chat bot (`lib/chat/bot*.ts`) | deliveries by article and room | deliver, hourly limits | retries | one message per article and room |
| Chat rooms, moderation, gateway (`lib/chat/*`, `services/chat-gateway`) | rooms, messages, holds; presence, tokens | single transactions; websocket sessions | retention against holds; token replay | — |
| Mobile authorization (`lib/mobile-auth.ts`, `packages/mobile-client/src/session.ts`, `apps/mobile/src/auth`, `providers/mobile-app-provider.tsx`) | grants, devices, sessions (token families) on the server; bundle in memory and on disk, refresh in flight, persistence queue in the app | authorize, exchange, rotate, revoke, reuse detection, disable, password change; sign in, refresh, sign out, restore | two refreshes with one token, lost answers, an app that stops between rotation and disk, superseded refreshes | one accepted token per device, the device limit, no false reuse, disk agrees with memory |
| Mobile sync (`lib/mobile-sync*.ts`, `prisma/migrations`, `apps/mobile/src/sync`, `storage`, `hooks`) | `UserSyncEvent` journal, cursor floor; cursor, derived cache, coordinator | append (trigger), prune, list, bootstrap; request, page loop, invalidate, reset | commits out of sequence order, retention between two reads, requests during a pass | what the device shows is caught up or known to be old |
| Mobile offline changes (`lib/mobile-sync.ts`, `packages/mobile-client/src/offline.ts`, `apps/mobile/src/sync`) | receipts by device and key, resource rows; queue of changes with states | submit, queue, replay, recover, retry, discard; apply once | lost answers, interrupted sends, duplicate requests, read-modify-write | each change once, confirmed means applied, the queue drains |
| Accounts, admin, subscriptions, monitors, story clusters, rate limits, parsing, UI | rows of one user, counters, text | mostly one transaction each | — | — |

The components meet in five places: the two AI paths share the ledger; a Smart
Digest run hands a PENDING email to the delivery; a feed refresh hands new items to
the chat bot and (as articles) to digests; every change of a user's rows appends to
the sync journal; `disableUserAction` (`app/admin/actions.ts`)
cancels work of all of them.  `worker/index.ts` runs every queue and scheduler.

`PROJECT.json` lists every component with its status, the hazards with their lines,
the source lines of every definition, the runs and the theorems.

## 2. Modules

```
AiLedger <- AiSummary, AiDigest <- AiProofs
                                         (EXTENDS; LedgerSpec is the abstract specification)

TokenFamily <= DeviceAuth <- MobileSession <- MobileSessionProofs
                                         (<=: INSTANCE TokenFamily WITH ...)

SmartDigest <- SmartDigestProofs  ..>    DigestEmail <- DigestEmailProofs
                                         (..>: the email DigestEmail begins with)
OpmlImport <- OpmlImportProofs
SourceRefresh <- SourceRefreshProofs
ChatOutbox <- ChatOutboxProofs
BulkRead, MobileOffline, MobileSync <- ArticleStateProofs
```

Modules whose proofs stand together have names that do not clash: the actions and the
specification of BulkRead (`BulkInit`, `BulkNext`, `BulkSpec`), MobileSync (`SyncSpec`), AiSummary
(`SummarySpec`) and AiDigest carry the name of their component.

A statement or a database transaction is one step, a web request or a worker is a
process whose local state keeps what it has read.  The queue is BullMQ, which is
not part of the repository: its jobs wait, are active under a lock, are retried up
to `attempts`, are redelivered when the lock is lost (up to `maxStalledCount`), and
keep their id while they exist.  Failures, crashes and lost locks may happen between
any two steps; every module bounds their number with `MaxEvents` (or the clock) and
names each bound.

* **AiLedger** — every store function of `ai-usage.ts` is an action; the caller is
  arbitrary and may pass a `now` it captured up to `MaxSkew` ticks earlier.
  `LedgerSpec` is thus the contract on the allowance; who may release a unit is not part
  of it, since the lease of `failAiUsageOperation` is optional.  `op[k].attempt` is the fencing
  number, `period[u][s]` a row of `AiUsagePeriod`.
* **AiSummary** — requests step through `generateArticleSummaryWithClient` (the
  story analysis has the same control): `Begin`, `RequestReserves`, `RequestClaims`,
  `RequestRereads`, `RequestAnswered` with `RequestHeartbeat`, `RequestFinalizes`, `FailStep`; a
  request may stop anywhere (`RequestStops`), and `SummaryReconciliation` is the maintenance
  tick.
* **AiDigest** — the web process creates a digest and adds its job in two steps, and
  may stop between them; workers run `processAiDigestWithClient`, with its
  eligibility checks, the failure path that runs without a lease, and its
  unconditional status writes.  Any statement may throw without effect
  (`StatementFails`), and a call on the ledger may throw although the database
  committed it (`AnswerLost`): `OnError` is what the worker does then.
* **OpmlImport** — one import: web sessions create, cancel and retry (the retry
  transaction runs at READ COMMITTED, so its counts are read in an earlier step than
  its writes); workers run batches under entry leases.  Dates are ages.
* **SmartDigest** — one rule: scheduler, run lease, candidate query, commit with
  watermark and next run.  An article becomes visible up to `IngestDelay` after its
  `createdAt`, which is how a transaction commits.
* **DigestEmail** — one delivery: it begins where SmartDigest commits a PENDING
  email.  The mail server accepts, refuses, or is given up by the deadline of
  `sendMailWithDeadline` and may then still accept (`LateAnswer`).
* **SourceRefresh** — one feed: scheduler claim, queue job, leased refresh statement by
  statement, the write batches and the outcome.  Time is abstract: a lease is live or
  not, `nextFetchAt` is due, claimed by the scheduler, or later.  `history` and
  `chat` are what the properties compare the rows with; no guard reads them.

* **TokenFamily** — what the server promises about refresh tokens: in each family (the
  sessions of one device) at most the newest token is accepted, a token is exchanged for
  its successor once, and an ended family stays ended.
* **DeviceAuth** — `mobile-auth.ts` statement by statement: grants, exchange under the lock
  on the user row with the device limit, rotation by compare-and-set with reuse detection,
  revocation, disablement, password change.  `Family == INSTANCE TokenFamily WITH ...` maps
  a device's session rows to a family; `ImplementsTokenFamily` is the refinement.
* **MobileSession** — the app over that server: `MobileSessionManager` with its generation,
  its single refresh in flight and its persistence queue, browser sign-in, sign-out with
  purge, start of the app; answers get lost, the secure store fails, the app stops.
* **ChatOutbox** — passes of several workers over outbox rows; a pass's age is compared with
  its lease, a worker may stall past it, and workers may have the same name.
* **MobileSync** — transactions append to the journal (the trigger takes the sequence number
  before the commit), retention prunes and raises the floor in one transaction; the device
  loads screens into its cache and runs passes: `ReadFloor` and `ReadEvents` are two
  statements of one request, `CommitPage` deletes the entries of a page's events and stores
  the cursor.  `log` and `skipped` are history.
* **MobileOffline** — changes of one article, each with the fields it names and their values
  (`Input`): `Submit` tries directly and queues on a retryable failure, `FlushNext` and
  `FlushAnswer` replay; the server reads the row and the receipt (`ServeRead`) and writes both
  later (`ServeWrite`), so requests overlap.  `Written` is what `updateMobileArticleState` sets: the
  named fields and, for an archive, `isRead` as well; it writes the others back as it read them.
  The user retries or discards; receipts expire.  A field's value is the change that wrote it.
  `restored` is history: the fields that a request wrote back with an older value.
* **BulkRead** — web requests that find or create a job and add it to the queue in further
  steps, workers that run its batches, one action per statement.  The failed handler of the
  worker starts a write of FAILED and does not wait for it: `Throw` leaves the job in
  `recording`, and later `RecordFailure` writes, or `RecordingFails` (the write throws and is
  logged, or the worker stops).  The write of the request whose queue add failed can throw
  too, and an add can succeed although its answer is lost.

`MC*.tla` give the constants their values.

## 3. Runs

| Run | Checks | Shows |
| --- | --- | --- |
| `ai_summary` | `LedgerBalanced`, `ChargedOnceWithResult`, `OneHolderPerAttempt`, `ImplementsLedger`, `ExpiredLeaseReleased` | requests charge once and with a result, keep the month's counters exact, are callers the ledger allows, and expired units come back |
| `ai_digest` | `WithinLimit`, `DigestChargedOnce`, `AttemptFencesLease`, `HolderKeepsLiveLease` | redelivered jobs charge once and never over the limit, an overtaken worker is fenced, and nobody takes a live lease away except by the release without a lease (finding 5) |
| `opml_import` | `CountersBackedByEntries`, `CompletedMeansFinished`, `OutcomeIsFinal`, `QueuedImportEnds` | two workers and two web sessions with takeover, cancel, double retry and crashes never overcount or rewrite an outcome, and batches that queue themselves again come to an end |
| `digest_email` | `SentMeansAccepted`, `SentOnceUnlessLate`, `PendingDeliveryProceeds` | delivery is at most once except for a late acceptance or an operator's retry, and pending deliveries move |
| `smart_digest` | `NoArticleRepeated`, `NoMatchingArticleLost`, `NothingAfterDisable`, `DueRuleRuns`, `PendingEmailQueued` | overlapping windows repeat and lose nothing, nothing is written after disablement, a due rule runs, and its email reaches the queue |
| `source_refresh` | `ValidatorsCoverUnlessLate`, `NewerResultStays`, `OnlyInsertedAnnounced`, `DueFeedRefreshed` | superseded refreshes do no harm except by a late insert; due feeds are fetched |
| `mobile_session` | `DeviceLimit`, `LocalStateAgrees`, `ReuseOnlyWhenTorn`, `ImplementsTokenFamily` | the server implements the token family, concurrent exchanges respect the limit, the app's disk follows its memory, and the app causes no false reuse |
| `mobile_session_superseded` (violation) | `SupersededLeavesState` | finding 1 |
| `chat_outbox` | `PublishersOverlapOnlyLate`, `SettledIsFinal`, `EventSettles` | two passes publish one event at once only when one is past its lease, outcomes stay, every event settles |
| `mobile_sync` | `StaleIsCaught`, `RequestCatchesUp` | a cache entry that is behind is deleted by events to come or a resync, except for the gaps `KnownGap` names, each of which occurs; a requested sync catches up |
| `mobile_offline` | `AppliedOnce`, `ConfirmedIsApplied`, `ConfirmedStays`, `QueueDrains` | each change is applied once while its receipt exists, a confirmed change was applied and is replaced only by a change that names its field, by an archive if the field is `isRead`, by an overlapping request, or after one had put its value back; the queue drains |
| `bulk_read` | `CompletedMeansMarked`, `BulkJobEnds` | redelivery and late workers never let the cursor pass an unmarked article; jobs end, whatever overlaps, unless their outcome was abandoned in one of the ways `BulkJobEnds` names |

Run one with `tlc -config <cfg> <module>`.  Every property is also broken by a
deliberate fault in the model (the mutated definitions stand beside the originals,
and `PROJECT.json` pairs them with the properties), so none of them holds by the
shape of the model alone.

### Findings

1. **A superseded refresh clears the new sign-in** (`packages/mobile-client/src/session.ts:120`).
   The handler of a failed refresh clears the session for every error that is neither
   superseded nor retryable, without comparing the generation it captured: a refresh that
   began before a sign-out and fails after the next sign-in clears that sign-in from memory
   and disk.  The comment above it says that a sign-in that supersedes a refresh "owns its
   state".  Run `mobile_session_superseded`.

Four more properties are stated in the modules and violated by them; each can be seen
by naming it in the configuration of its module instead of the others.

2. **A released digest is not retried** (`lib/ai-digests.ts:617`;
   `ReleasedDigestIsRetried`, with `Lease = 1` and `MaxAttempts = 2`).  A worker that lost
   its lease returns PROCESSING, which completes the queue job; the reconciler releases the
   operation, but nobody adds a job, and a new request is answered with the digest that is
   still PROCESSING.  `docs/operations/ai-operation-leases-runbook.md:9` speaks of "the next
   idempotent queue attempt".
3. **A digest email can go out twice** (`lib/smart-digest-delivery.ts:181`; `DigestSentOnce`).
   The send deadline rejects without stopping the submission; the retry sends again.  The
   comment at line 83 says that a digest is sent once.  `SentOnceUnlessLate` shows that this
   and an operator's retry are the only ways.
4. **A superseded refresh can hide a newer item** (`lib/feed-refresh.ts:471`;
   `ValidatorsCoverItems`, with `MaxEvents = 3`).  Its insert lands between the read and the
   insert of its successor, which skips its own newer version as a duplicate and records
   the validators; the publisher answers 304 and the old item stays.
   `ValidatorsCoverUnlessLate` shows that this is the only way.
5. **A digest worker without a lease releases another one's unit** (`lib/ai-digests.ts:609`;
   `OnlyHolderReleases`, with the constants of `ai_digest`).  The catch block passes
   `operationLease ?? undefined`, so a delivery that threw before its claim was confirmed
   releases the operation without a fence, whoever holds it by then.  TLC's trace: a job whose
   lock lapsed is delivered again while the first worker holds a live lease; the
   second delivery's reservation finds the operation, its claim statement throws, and its catch
   block sets the operation to FAILED under the first worker, which can then neither complete nor
   be charged: the provider was paid, and the unit is free for another digest.
   `docs/operations/ai-operation-leases-runbook.md:5` says "Only that lease owner can record
   completion or release quota", and the comment at `lib/ai-usage.ts:281` that the fencing token
   is "used by renew, complete, and fail so a superseded worker cannot write".
   `HolderKeepsLiveLease` shows that this is the only way to lose a live lease; the counters
   stay exact all the same (`DigestImplementsLedger`).

Behaviour the models have, which no run is about or which a property names as its
exception:

* *AI digests, imports, Smart Digests.*  A digest worker that releases without a fence (finding 5)
  also writes FAILED over a digest the other worker completed and charged
  (`ai-digests.ts:625`); COMPLETED is written over a cancellation (`:558`).
  `DigestChargedOnce` looks at neither.  A window with more than 100 articles, or 50
  matches, loses the older ones, because the watermark passes them
  (`smart-digest-processing.ts:374`).  A digest or import whose web process stops before the
  queue add stays PENDING and blocks the next one.
* *Mobile session.*  A network or storage failure of a refresh clears the session, although
  `docs/audits/sixth-pass-phase-3-token-persistence.md:11` says that the prior bundle is
  retained; keeping it would be worse, as the mutant of `ReuseOnlyWhenTorn` shows: the next
  refresh would present a used token, and the server would end the device.  An answer that
  does not fit its schema counts as retryable and does leave the disk behind (`torn`).  Devices
  of an older `authVersion` count toward the limit until they are revoked.  A revocation that
  races a rotation may miss the new session row; the device row still refuses it.
* *Chat outbox.*  The owner name is made of the process id (`worker/index.ts:1463`), which
  containers share; a row whose owner was overtaken by one of the same name is fenced for
  neither (`misfenced`).
* *Mobile sync* (`KnownGap`).  An event that commits after a higher sequence number was read is
  never sent; events pruned between the read of the floor and the read of the page are
  missing from it; a device without a cursor is not compared with the floor; a screen may
  cache what it loaded before the pass that invalidated it.  `docs/mobile/mobile-sync-contract.md:25`
  says "Clients must not silently apply a partial delta".  A bootstrap may return a high-water
  cursor below the floor when retention, which goes by `occurredAt`, pruned a higher sequence
  number first: the pass fails until the older event is pruned too.
* *Offline changes.*  `updateMobileArticleState` writes all fields of the row it read, so an
  overlapping request for another field is undone; `docs/mobile/mobile-offline-conflicts.md:53` calls the
  changes "explicit set operations".  The same line says that an archive also marks the article
  read, so an archive sent after a confirmed "mark unread" replaces it, which `ConfirmedStays`
  allows and the run does.  A change that was queued may be replayed after a newer
  direct one and win.  A completion that cannot be stored becomes PERMANENT_FAILURE, where the
  same document says that unknown failures are retained as retryable.  A manual retry keeps
  `attemptCount`, so at the limit it fails at once.  Receipts expire after 30 days, and a
  replay after that applies the change again (`forgotten`).
* *Bulk read.*  Progress and completion are written over CANCELED; two starts at once create
  two jobs.  A job stays current and blocks later starts until it is cancelled
  (`abandoned`) when its queue add never happened; when a write of FAILED fails itself, that of
  the request (`bulk-read-jobs.ts:161`) or that of the failed handler, which only logs it
  (`worker/index.ts:464`), or the process stops before it; when its queue job lost its lock
  twice (the failed handler wants exhausted attempts); or when a late worker wrote PROCESSING
  over its outcome and stopped.

### Bounds, and why they are enough

Two workers suffice for every race between a holder and its successor, which is
what fencing is about; the third party (reconciler, scheduler, operator, web
session) is always there besides.  `MaxAttempts = 2` gives one retry and
exhaustion, `MaxStalls = 1` one redelivery and the failure by stalling.

| Run | Instance |
| --- | --- |
| `ai_summary` | 2 requests, 2 users sharing one result, clock to 3 with a month boundary at 2: expiry, takeover and release happen, in both months |
| `ai_digest` | 2 digests of one user with limit 1, one attempt and one redelivery; errors, lost answers and crashes are not bounded |
| `opml_import` | 2 feeds (one already followed), batches of one, 2 workers, 2 sessions, 2 events: two retries, or a retry and a cancel; batch and operation deadline are both one tick, so an import does not go on after a batch deadline |
| `digest_email` | 2 attempts, 5 events: two failures, a crash, an operator's retry and a late answer in one behaviour |
| `smart_digest` | 2 daily runs, a window that overlaps by a tick, an article that arrives late, one event (a crash, a lost lock, a failed job or the disablement), leases that lapse by time besides; one attempt, so that a failure leaves a failed job that keeps its id |
| `source_refresh` | 2 items in 2 versions, batches of one, 3 claims, 2 events |
| `mobile_session` | 2 calls under way on the server, 2 requests of the app, 3 sessions, room for one device, 2 events |
| `chat_outbox` | 2 rows, 2 workers that draw equal or different names, batches of two, 2 attempts, one fault; a stall may last as long as a lease (`Lease <= MaxStall`), so an overtaken pass occurs |
| `mobile_sync` | 2 keys, 2 events, pages and retention batches of one event, one fault; that a device with a cursor is moved past a pruned event takes three events and is reached only without a cursor |
| `mobile_offline` | 3 changes: mark unread, archive, star; 2 requests under way, a queue of 2, 2 attempts, 3 faults, one event (manual retry, discard, expired receipt) |
| `bulk_read` | 3 articles, one with a state already, batches of two, 2 jobs, 2 requests, 2 workers, 2 attempts, 2 events; failures of the failed handler's write come besides |

The limits `CandidateLimit` and `ItemLimit` are not reached in `smart_digest`:
`NoMatchingArticleLost` is true only then, as its comment says.  Symmetry is used
where only safety is checked.  Deadlock is checked in OpmlImport and SmartDigest, where
time never stops; in the other modules a behaviour may end at a bound.

### Fairness

Liveness assumes weak fairness of what the deployment keeps running: a worker
process goes on with the statement it is at, an idle worker takes a waiting job, the
queue redelivers the job of a stopped worker, retained failed jobs are eventually
removed (`removeOnFail`), the scheduler and the reconciler tick (`worker/index.ts` sets
an interval for each), time passes.  No fairness is assumed of users, operators, the
publisher, failures, heartbeats or late answers.  Two assumptions are
about people and load: `QueueDrains` and `RequestCatchesUp` assume that the app is opened
often enough for its passes to go on, and `EventSettles` that passes overstay their lease
only finitely often.  `BulkJobEnds` assumes nothing of users; a cancellation is not needed.  It assumes that a
worker goes on with the write its failed handler started, unless that write fails.  A worker that stopped is taken up
only by the stalled-job check (`Abandoned /\ Stalled`), a lease only lapses by itself
when nobody renews it (`~LeaseAtWork /\ LeaseLapses`).  `DueFeedRefreshed` ends at
the bound on claims.

## 4. Proofs

TLAPS proves the following for every value of the constants that satisfies the named
assumption of its module: any number of users, operations, digests, workers, rows, items
and calls, not only those of the runs.  The assumptions say that bounds are natural
numbers, limits and batch sizes are positive, and `NoOwner` and `NoKey` are none of the
things they stand beside.  Two say more: `Lease <= MaxStall` of ChatOutbox (below), and
`IngestDelay <= Lookback` of SmartDigest, that an article is visible no later after its
`createdAt` than the lookback of the window, which is what the lookback is for.  Each
invariant was checked by TLC on the instance of its run before it was proved.  Type
correctness is the theorem `...Types`, `...TypesHold` or `...TypeCorrect` of a module.

**AiProofs: the ledger.**  The inductive invariant is
`LedgerInv = LedgerTypeOK /\ UnitsFollowStatus /\ DatesFollowStatus /\ LedgerBalanced /\ WithinLimit`.
None of its parts is inductive alone: a release subtracts from a counter that is a
natural number only because the operation is still counted in it (`LedgerBalanced`),
and finds the right counter only because an unfinished operation names its period
(`UnitsFollowStatus`).  The argument about balance is one about cardinalities of the
sets `Holding(u, s)` and `Charged(u, s)`: an action adds or removes one operation.  There
is one lemma per action.  From it follow `LedgerTypeCorrect`, `LedgerStaysBalanced`,
`LedgerStaysWithinLimit`, `LedgerUnitsFollowStatus`, `LedgerStrandedClaimable` and the action
property `LedgerAttemptFences`.  Two lemmas serve the callers: a call for one operation,
and the reconciler, leave what other operations consumed alone (`OthersKeepConsumed`,
`ReconcileKeepsConsumed`).

**AiProofs: summaries.**  `SummaryInv = LedgerInv /\ RequestInv /\ LeaseInv /\ ChargeInv`.  A request
reserves with a date of the past and for an operation it knows (`RequestInv`); the attempt
it holds is not above that of the row, and two holders differ (`LeaseInv`); the log
row, the charge and the result come with the same step (`ChargeInv`), which rests on the
ledger: what was consumed changes only with completion.  `SummaryImplementsLedger` shows
that every step of the requests is a ledger step or leaves the ledger alone.
Results: `SummaryChargedOnce`, `SummaryBalanced`, `SummaryOneHolder`.

**AiProofs: digests.**  `DigestInv = LedgerInv /\ WorkersInv /\ JobsInv /\ RowsInv /\ DigestChargedOnce`.
Statements that throw and answers that get lost leave a worker without the lease it may have
been given; what it holds is always a lease of its own (`WorkersInv`).  All its calls, the release
without a fence among them, stay within the ledger's
contract (`DigestIsLedgerCaller`), so `DigestStaysWithinLimit` and `DigestAttemptFences` follow; a
COMPLETED digest was charged because FAILED may overwrite COMPLETED but only the
charging transaction writes COMPLETED (`DigestIsChargedOnce`).  `DigestHolderKeepsLease` goes
through the calls that change the status, attempt or owner of a leased operation: reservation,
claim and reconciler find it neither retryable nor expired (`LeaseStays`,
`ReconcilerKeepsLease`); a release or completion needs the current lease, which is the
holder's own, or is the release without one (`LeaseTakenBy`).

**OpmlImportProofs.**  `OpmlInv` is `OpmlTypeOK`, `LockInv`, `WorkInv`, `SettledInv` and
`CountInv` (the two invariants of the run).  The difficulty is the retry: its counts are read
in one statement and written in another, and workers go on between them.  `LockInv` is the
answer: only one retry is inside its transaction; the entries it has reset, and so locked, have
no final outcome; and what it counted has not become less, since an ADDED or SKIPPED entry
stays one.  A worker's finalization moves one entry and one counter together, and only under
the entry's lease and attempt, which an entry with an outcome does not have (`SettledInv`).
Completion is decided on an earlier read, but its update asks again that no entry is open.
Results: `OpmlCountersBacked`, `OpmlCompletedIsFinished`, `OpmlOutcomeIsFinal`.

**SmartDigestProofs.**  `SmartInv` ties what a worker read long before to what holds when it
commits.  Work is done for an instant only while it is the next run of the rule, or when its
digest is written, or in vain (`Current`, `QueueInv`); so a worker whose run has no digest yet
still knows the rule's watermark, and what it found is in no digest (`Busy`), since the only
step that could put it there writes the digest of the same run.  A worker about to commit
after a disablement has lost its run (`Fenced`).  That is `NoArticleRepeated` and
`NothingAfterDisable`.  For the articles nothing may pass over, `LostInv` adds to the property
what a worker past its query found: every matching article between the start of its window and
`Lookback` before its end is in a digest or among its items (`FoundInv`); an article that comes
after the query is younger than that.  This is so only while the query and the digest take the whole
window, so `SmartNoMatchingArticleLost` says `Spec /\ []WindowFits => []NoMatchingArticleLost`, and
`SmartFewArticlesFit` shows that the proviso holds when there are no more articles than
`CandidateLimit` and `ItemLimit`, which is the instance of the run; beyond it the property is
false, as section 3 says.  Results besides: `SmartNoArticleRepeated`, `SmartNothingAfterDisable`.

**DigestEmailProofs.**  `EmailInv` is `EmailTypeOK`, `StatusesAgree`, `SentMeansAccepted`,
`AcceptedInv`, `ClaimInv` and `SentOnceUnlessLate`.  `ClaimInv` is the argument: without an
operator's retry at most one worker is past the claim, and none while the delivery
can be claimed; `AcceptedInv`: a worker about to acknowledge had its message accepted.
The operator is taken at his word: "delivered" is confirmed only of a message the server
accepted, "not delivered" only of one it had not accepted by then (`Inspect`).
Results: `EmailTypeCorrect`, `EmailStatusesAgree`, `EmailSentMeansAccepted`, `EmailSentOnce`.

**SourceRefreshProofs.**  `RefreshInv` says what the generation of a refresh means.  The
current generation owns the lease or has released it (`ClaimOK`); generations order the
documents: an item of an earlier generation is no newer than what a refresh fetched, and
one of a later generation no older, for a refresh that renewed its lease after the fetch
(`DocOK`); two refreshes differ in generation and in what they inserted (`PairOK`).  What a
refresh does not write any more is as new as its document, unless a superseded one
inserted late (`ItemsOK`).  Renewal after the fetch is what the order rests on: the
successor asked later, so it got no older document.  Results: `RefreshValidatorsCover`,
`RefreshNewerResultStays`, `RefreshOnlyInsertedAnnounced`.

**MobileSessionProofs.**  The server keeps `AuthInv` under the app's steps as well as its own:
rows are consistent (`RowsInv`), a call under way is about existing rows and knows what its
stage has established (`CallsInv`), and two calls are never both between the lock on the user
row and its release, nor both commit a rotation of the same session (`Exclusive`).  The
device limit needs the lock, since counting and inserting are two steps; the refinement of
`TokenFamily` needs the rows and the rotation's compare-and-set, and maps every server step
to a step of one family or of none.  For the app, `HandsInv` says that it holds only tokens
that exist, and `AppInv` relates its persistence queue to the rest: each operation has an
owner that waits for it (`OwnersInv`), what is pending does not clear a new sign-in
(`MemoryInv`), the disk lags behind memory only by a stored write about to be published
(`DiskInv`).  Until something tears the app's copy from the server's row (`torn`), each token
has one place, in an answer, in the queue or in memory, and one reader (`TokensInv`), so the
app presents none twice.  Results: `SessionDeviceLimit`, `SessionImplementsTokenFamily`,
`SessionLocalStateAgrees`, `SessionReuseOnlyWhenTorn`.

**ChatOutboxProofs.**  `OutboxInv`: a pass under way has a candidate (`BatchInv`), only an open
event has an owner (`OwnersInv`), and a worker in time still holds the claim it made, with
the lease less its age left (`ClaimsInv`); so a second one can only have claimed an event of a
pass that is past its lease.  A settled event has no owner, so no fenced write matches it.
Results: `OutboxPublishersOverlapOnlyLate`, `OutboxSettledIsFinal`.

**ArticleStateProofs: bulk read.**  `BulkInv`: a worker has a job that exists (`WorkInv`); the
cursor of a job has passed only marked articles, and a COMPLETED job all (`CursorInv`); whatever
a worker read, inserted or updated, the articles below its batch are marked, and the batch
itself is when it is about to advance (`BatchInv`).  The proof makes no use of the queue's locks
or of the job's status: late and duplicate workers may set the cursor back, or write over
CANCELED, but each of them has marked what it moves over.  The model has no user who marks an
article unread meanwhile: the property is about a scope that is otherwise left alone.
Result: `BulkCompletedMeansMarked`.

**ArticleStateProofs: offline changes.**  `OfflineInv`: a change was applied exactly if its receipt exists or was
deleted, and twice only after that (`ReceiptsInv`); a good answer under way has its receipt
(`AnswersInv`); a change the device was told of was applied, is not sent again, and a request that
still carries it finds the receipt (`ToldInv`); a field that has a confirmed change's own value
had it when each request that knew of the change read the row (`ReadsInv`).  Results:
`OfflineAppliedOnce`, `OfflineConfirmedIsApplied`, `OfflineConfirmedStays`.

**ArticleStateProofs: synchronization.**  `SyncInv`: sequence numbers are given out in order
(`LogInv`); an open transaction owns the event it appended, which nobody sees (`TxnInv`); the
version of a key is backed by committed events, one for each change (`VersionInv`); what was
committed is in the journal until the floor is above it (`JournalInv`); when the device commits
what it was sent, each committed event it goes past is on the page or known as skipped
(`PageInv`); and a copy that no sync overtook has every change the cursor is past
(`CopiesInv`).  A key that is behind then has a committed event above the cursor, which is
either still in the journal and to come, or below the floor, which asks for a resync; what is
left are the gaps `KnownGap` names.  Result: `SyncStaleIsCaught`.

Three statements the runs had passed turned out, in the proof, to be too strong or to rest
on an unstated bound, and the models were corrected:

* an account change took effect while an exchange held the user row; the update waits for
  that lock in PostgreSQL, and `ChangeAccount` now does, too;
* with a `MaxStall` below `Lease` a pass that is in time could outgrow the bound of its age
  and of the dates; ChatOutbox now assumes `Lease <= MaxStall`, that a stall can outlast a lease;
* with four offline changes, a field that one overlapping request had put back can be
  changed by a second request although the device knows of the change that had given it
  that value first.  `ConfirmedStays` now exempts such fields (`restored`); the run's
  instance has three changes and had not shown it.

Only model-checked:

* all liveness, since fairness and `ENABLED` are beyond the prover: `ExpiredLeaseReleased`,
  `QueuedImportEnds`, `PendingDeliveryProceeds`, `DueRuleRuns`, `PendingEmailQueued`,
  `DueFeedRefreshed`, `EventSettles`, `RequestCatchesUp`, `QueueDrains`, `BulkJobEnds`;
* the findings, which are counterexamples.

Every invariant and every safety action property that a run checks has a theorem.  The
type invariants, the ledger theorems about units and stranded reservations, and
`EmailStatusesAgree` are not repeated by a run: the proofs cover them for every instance.

## 5. Not modelled

* Parsing, ranking, prompts, rendering, validation of text: data without protocol.
* Pricing configuration: assumed present, as the deployment requires.
* Two active imports of one user: refused by a unique index.  Unsubscribing while an
  import runs; clearing `emailVerified` (nothing does).
* Token expiry by time in DeviceAuth; a late 401 of an older sign-in; a purge is taken to
  end with the deletion of the stored bundle.
* The maintenance lock (`worker/maintenance-lock.ts`): the modelled schedulers do not rely on
  it, their ticks happen at any time.
* The mobile mutations besides the article state: they run in the same
  `runIdempotentMobileMutation`; their bodies are upserts and deletes of one row.
* Podcast refresh: same control as SourceRefresh, its lines are not mapped.
* Chat rooms, moderation, retention and legal holds, accounts and tokens, saved monitors,
  story clusters, rate limits, feed discovery and parsing, the admin dashboard and the user
  interface: single transactions on rows of one user, text processing or rendering.  They are
  by far the larger part of the code, and `PROJECT.json` gives the reason for each.

## 6. Plan

Theorems: the safety properties of the runs are proved; with a new module come its type
invariant and its safety invariants.  Worth stating next for the existing ones: that the hand-over of
SmartDigest to DigestEmail is a refinement of one abstract delivery, so that
`SentOnceUnlessLate` holds for the two together.

Modules: the maintenance lock with its recovery grace; the bot's deliveries behind the
outbox; chat retention against legal holds; rate limits with their fallback; podcast
refresh on the lines of SourceRefresh.
