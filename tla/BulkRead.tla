------------------------------ MODULE BulkRead ------------------------------
(***************************************************************************)
(* Marking a large scope of articles as read: startBulkRead and             *)
(* cancelBulkReadJob in the web process, the queue job and its redelivery,  *)
(* and processBulkReadJob in the workers (bulk-read-jobs.ts,                *)
(* article-read-batch.ts, bulk-read-queue.ts, worker/index.ts).             *)
(*                                                                         *)
(* One user and one scope, larger than the synchronous limit; its articles  *)
(* are numbered by id.  The requests of the user overlap, and so do         *)
(* deliveries of one queue job when a worker loses its lock and goes on.    *)
(***************************************************************************)
EXTENDS Integers, FiniteSets, FiniteSetsExt

CONSTANTS
  MaxArticle,         \* articles of the scope
  Touched,            \* the articles that have a state row, unread
  ReadBatchSize,      \* ARTICLE_READ_BATCH_SIZE
  MaxJobs,            \* bound: BulkReadJob rows
  Requests,           \* requests of the web process
  Workers,            \* worker processes with the imports responsibility
  NoOwner,
  MaxBulkAttempts,    \* attempts of the queue job
  MaxStalls,          \* redeliveries of a queue job whose lock lapsed
  MaxBulkEvents       \* bound: failed statements, stops, lost locks, cancellations

Articles == 1 .. MaxArticle
Jobs == 1 .. MaxJobs

ASSUME BulkAssumption ==
  /\ {MaxArticle, ReadBatchSize, MaxJobs, MaxBulkAttempts} \subseteq Nat \ {0}
  /\ {MaxStalls, MaxBulkEvents} \subseteq Nat
  /\ Touched \subseteq Articles
  /\ NoOwner \notin Workers

VARIABLES
  article,      \* the user's state of each article
  job,          \* the BulkReadJob rows
  bulkQueue,    \* the queue job of each
  request,      \* the requests of the web process
  proc,         \* processBulkReadJob in each worker
  recording,    \* the final failures that each worker has yet to record
  abandoned,    \* jobs whose outcome was not written for good (history)
  bulkEvents

bulkVars == <<article, job, bulkQueue, request, proc, recording, abandoned, bulkEvents>>

BulkEvent == bulkEvents < MaxBulkEvents /\ bulkEvents' = bulkEvents + 1

Terminal == {"COMPLETED", "CANCELED", "FAILED"}

Job == [status : {"none", "QUEUED", "PROCESSING"} \cup Terminal,
        last   : 0 .. MaxArticle]    \* lastArticleId, 0 for null

NoJob == [status |-> "none", last |-> 0]

QueueJob == [state  : {"none", "wait", "active", "done", "failed"},
             made   : 0 .. (MaxBulkAttempts - 1),    \* failed attempts
             stalls : 0 .. MaxStalls,
             holder : Workers \cup {NoOwner}]

NoQueueJob == [state |-> "none", made |-> 0, stalls |-> 0, holder |-> NoOwner]

\* What was to write the outcome of j gives up.
GiveUp(j) ==
  abandoned' = IF bulkQueue[j].state \in {"wait", "active"} THEN abandoned ELSE abandoned \cup {j}

-----------------------------------------------------------------------------
(* The web process                                                           *)

BulkRequest == [pc : {"find", "create", "enqueue", "fail", "end"}, job : 0 .. MaxJobs]

ToPc(r, pc) == request' = [request EXCEPT ![r].pc = pc]

\* startBulkRead looks for a job of the scope that is under way.
Find(r) ==
  /\ request[r].pc = "find"
  /\ ToPc(r, IF \E j \in Jobs : job[j].status \in {"QUEUED", "PROCESSING"} THEN "end" ELSE "create")
  /\ UNCHANGED <<article, job, bulkQueue, proc, recording, abandoned, bulkEvents>>

Create(r) ==
  /\ request[r].pc = "create"
  /\ \E j \in Jobs :
       /\ job[j] = NoJob
       /\ \A i \in 1 .. (j - 1) : job[i] # NoJob
       /\ job' = [job EXCEPT ![j].status = "QUEUED"]
       /\ request' = [request EXCEPT ![r] = [pc |-> "enqueue", job |-> j]]
  /\ UNCHANGED <<article, bulkQueue, proc, recording, abandoned, bulkEvents>>

\* The queue job is added, or the queue cannot be reached, or it can but its
\* answer is lost.
EnqueueBulk(r) ==
  LET added == bulkQueue' = [bulkQueue EXCEPT ![request[r].job].state = "wait"] IN
  /\ request[r].pc = "enqueue"
  /\ \/ added /\ ToPc(r, "end") /\ UNCHANGED bulkEvents
     \/ (added \/ UNCHANGED bulkQueue) /\ ToPc(r, "fail") /\ BulkEvent
  /\ UNCHANGED <<article, job, proc, recording, abandoned>>

\* FAILED is written whatever the status is by now, or this fails as well.
RecordNotStarted(r) ==
  LET j == request[r].job IN
  /\ request[r].pc = "fail"
  /\ \/ job' = [job EXCEPT ![j].status = "FAILED"] /\ UNCHANGED abandoned
     \/ GiveUp(j) /\ UNCHANGED job
  /\ ToPc(r, "end")
  /\ UNCHANGED <<article, bulkQueue, proc, recording, bulkEvents>>

\* The web process stops in the middle of a request.
WebStops(r) ==
  /\ BulkEvent
  /\ request[r].pc \in {"enqueue", "fail"}
  /\ GiveUp(request[r].job)
  /\ ToPc(r, "end")
  /\ UNCHANGED <<article, job, bulkQueue, proc, recording>>

\* cancelBulkReadJob.
Cancel(j) ==
  /\ BulkEvent
  /\ job[j].status \in {"QUEUED", "PROCESSING"}
  /\ job' = [job EXCEPT ![j].status = "CANCELED"]
  /\ UNCHANGED <<article, bulkQueue, request, proc, recording, abandoned>>

-----------------------------------------------------------------------------
(* The worker                                                                *)

Proc == [pc    : {"idle", "check", "begin", "read", "insert", "update", "advance", "complete"},
         job   : 0 .. MaxJobs,
         batch : SUBSET Articles]

NoProc == [pc |-> "idle", job |-> 0, batch |-> {}]

Goto(w, pc) == proc' = [proc EXCEPT ![w].pc = pc]

\* The job function returns; the queue forgets the job, if w still holds it.
Return(w) ==
  /\ proc' = [proc EXCEPT ![w] = NoProc]
  /\ bulkQueue' = [bulkQueue EXCEPT ![proc[w].job] =
                     IF @.holder = w THEN [NoQueueJob EXCEPT !.state = "done"] ELSE @]

Take(w) ==
  /\ proc[w] = NoProc
  /\ \E j \in Jobs :
       /\ bulkQueue[j].state = "wait"
       /\ bulkQueue' = [bulkQueue EXCEPT ![j] = [@ EXCEPT !.state = "active", !.holder = w]]
       /\ proc' = [proc EXCEPT ![w] = [NoProc EXCEPT !.pc = "check", !.job = j]]
  /\ UNCHANGED <<article, job, request, recording, abandoned, bulkEvents>>

\* processBulkReadJob reads the job; nothing is done for one that has ended.
Check(w) ==
  /\ proc[w].pc = "check"
  /\ IF job[proc[w].job].status \in Terminal THEN Return(w) ELSE Goto(w, "begin") /\ UNCHANGED bulkQueue
  /\ UNCHANGED <<article, job, request, recording, abandoned, bulkEvents>>

BeginWork(w) ==
  /\ proc[w].pc = "begin"
  /\ job' = [job EXCEPT ![proc[w].job].status = "PROCESSING"]
  /\ Goto(w, "read")
  /\ UNCHANGED <<article, bulkQueue, request, recording, abandoned, bulkEvents>>

\* The next batch after article last.
IsBatch(b, last) ==
  LET rest == {a \in Articles : a > last} IN
  /\ b \subseteq rest
  /\ Cardinality(b) = Min({ReadBatchSize, Cardinality(rest)})
  /\ \A x \in b, y \in rest \ b : x < y

\* The loop reads the job again, stops for a cancellation only, and takes the
\* next batch of the scope, read or unread.
ReadBatch(w) ==
  LET j == proc[w].job IN
  /\ proc[w].pc = "read"
  /\ IF job[j].status = "CANCELED"
     THEN Return(w)
     ELSE /\ \E b \in SUBSET Articles :
               /\ IsBatch(b, job[j].last)
               /\ proc' = [proc EXCEPT ![w] = [@ EXCEPT !.batch = b,
                                                        !.pc = IF b = {} THEN "complete" ELSE "insert"]]
          /\ UNCHANGED bulkQueue
  /\ UNCHANGED <<article, job, request, recording, abandoned, bulkEvents>>

\* Mutant: the insert of missing rows is left out.
InsertNothing(w) ==
  /\ proc[w].pc = "insert"
  /\ Goto(w, "update")
  /\ UNCHANGED <<article, job, bulkQueue, request, recording, abandoned, bulkEvents>>

\* writeArticleReadStateBatches: first the rows that do not exist ...
Insert(w) ==
  /\ proc[w].pc = "insert"
  /\ article' = [a \in Articles |-> IF a \in proc[w].batch /\ article[a] = "none" THEN "read" ELSE article[a]]
  /\ Goto(w, "update")
  /\ UNCHANGED <<job, bulkQueue, request, recording, abandoned, bulkEvents>>

\* ... then those that do.
Update(w) ==
  /\ proc[w].pc = "update"
  /\ article' = [a \in Articles |-> IF a \in proc[w].batch /\ article[a] # "none" THEN "read" ELSE article[a]]
  /\ Goto(w, "advance")
  /\ UNCHANGED <<job, bulkQueue, request, recording, abandoned, bulkEvents>>

\* The cursor moves, and the status is PROCESSING whatever it was.
Advance(w) ==
  /\ proc[w].pc = "advance"
  /\ job' = [job EXCEPT ![proc[w].job] = [status |-> "PROCESSING", last |-> Max(proc[w].batch)]]
  /\ Goto(w, "read")
  /\ UNCHANGED <<article, bulkQueue, request, recording, abandoned, bulkEvents>>

\* COMPLETED is written whatever the status was, and the job function returns.
Complete(w) ==
  /\ proc[w].pc = "complete"
  /\ job' = [job EXCEPT ![proc[w].job].status = "COMPLETED"]
  /\ Return(w)
  /\ UNCHANGED <<article, request, recording, abandoned, bulkEvents>>

\* Mutant: failures are recorded for jobs under way only.
FailJobProcessing(j) ==
  job' = IF job[j].status = "PROCESSING" THEN [job EXCEPT ![j].status = "FAILED"] ELSE job

\* failBulkReadJob.
FailJob(j) ==
  job' = IF job[j].status \in {"QUEUED", "PROCESSING"} THEN [job EXCEPT ![j].status = "FAILED"] ELSE job

\* The failed handler starts this write and does not wait for it.
RecordFailure(w) ==
  /\ \E j \in recording[w] :
       /\ FailJob(j)
       /\ recording' = [recording EXCEPT ![w] = @ \ {j}]
  /\ UNCHANGED <<article, bulkQueue, request, proc, abandoned, bulkEvents>>

\* The write fails, which is only logged, or the worker stops before it.
RecordingFails(w) ==
  /\ \E j \in recording[w] :
       /\ GiveUp(j)
       /\ recording' = [recording EXCEPT ![w] = @ \ {j}]
  /\ UNCHANGED <<article, job, bulkQueue, request, proc, bulkEvents>>

\* Worker w, which has lost the queue job of j, gives up; what it wrote stays.
GivesUpLate(w, j) ==
  /\ bulkQueue[j].holder # w
  /\ GiveUp(j)
  /\ UNCHANGED bulkQueue

\* A statement fails.  The queue job is retried, or after its last attempt the
\* failed handler is left to record the failure.
Throw(w) ==
  LET j == proc[w].job IN
  /\ BulkEvent
  /\ proc[w] # NoProc
  /\ proc' = [proc EXCEPT ![w] = NoProc]
  /\ \/ GivesUpLate(w, j) /\ UNCHANGED recording
     \/ /\ bulkQueue[j].holder = w
        /\ IF bulkQueue[j].made + 1 < MaxBulkAttempts
           THEN /\ bulkQueue' = [bulkQueue EXCEPT ![j] =
                                  [@ EXCEPT !.state = "wait", !.made = bulkQueue[j].made + 1,
                                            !.holder = NoOwner]]
                /\ UNCHANGED recording
           ELSE /\ bulkQueue' = [bulkQueue EXCEPT ![j] = [@ EXCEPT !.state = "failed", !.holder = NoOwner]]
                /\ recording' = [recording EXCEPT ![w] = @ \cup {j}]
        /\ UNCHANGED abandoned
  /\ UNCHANGED <<article, job, request>>

\* The lock of a queue job lapses: it is delivered again, or fails for good
\* with attempts left, which the failed handler does not record.
LoseLock(w, j) ==
  /\ bulkQueue[j].holder = w
  /\ IF bulkQueue[j].stalls < MaxStalls
     THEN /\ bulkQueue' = [bulkQueue EXCEPT ![j] =
                            [@ EXCEPT !.state = "wait", !.stalls = bulkQueue[j].stalls + 1,
                                      !.holder = NoOwner]]
          /\ UNCHANGED abandoned
     ELSE /\ bulkQueue' = [bulkQueue EXCEPT ![j] = [@ EXCEPT !.state = "failed", !.holder = NoOwner]]
          /\ abandoned' = abandoned \cup {j}

\* The worker stops, with nothing left to record, and the lock of its queue job
\* lapses.
WorkerStops(w) ==
  /\ BulkEvent
  /\ proc[w] # NoProc
  /\ recording[w] = {}
  /\ proc' = [proc EXCEPT ![w] = NoProc]
  /\ GivesUpLate(w, proc[w].job) \/ LoseLock(w, proc[w].job)
  /\ UNCHANGED <<article, job, request, recording>>

\* The worker is held up, loses the lock and goes on without it.
WorkerLate(w) ==
  /\ BulkEvent
  /\ proc[w] # NoProc
  /\ LoseLock(w, proc[w].job)
  /\ UNCHANGED <<article, job, request, proc, recording>>

BulkInit ==
  /\ article = [a \in Articles |-> IF a \in Touched THEN "unread" ELSE "none"]
  /\ job = [j \in Jobs |-> NoJob]
  /\ bulkQueue = [j \in Jobs |-> NoQueueJob]
  /\ request = [r \in Requests |-> [pc |-> "find", job |-> 0]]
  /\ proc = [w \in Workers |-> NoProc]
  /\ recording = [w \in Workers |-> {}]
  /\ abandoned = {}
  /\ bulkEvents = 0

Web(r) == Find(r) \/ Create(r) \/ EnqueueBulk(r) \/ RecordNotStarted(r)

Work(w) ==
  \/ Take(w) \/ Check(w) \/ BeginWork(w) \/ ReadBatch(w)
  \/ Insert(w) \/ Update(w) \/ Advance(w) \/ Complete(w)

BulkNext ==
  \/ \E r \in Requests : Web(r) \/ WebStops(r)
  \/ \E j \in Jobs : Cancel(j)
  \/ \E w \in Workers : \/ Work(w) \/ RecordFailure(w) \/ RecordingFails(w)
                        \/ Throw(w) \/ WorkerStops(w) \/ WorkerLate(w)

\* A request that began goes on, workers take and go on with queue jobs, and
\* they go on with the writes of their failed handlers.
BulkSpec ==
  /\ BulkInit /\ [][BulkNext]_bulkVars
  /\ \A r \in Requests : WF_bulkVars(Web(r))
  /\ \A w \in Workers : WF_bulkVars(Work(w)) /\ WF_bulkVars(RecordFailure(w))

-----------------------------------------------------------------------------
(* Properties                                                                *)

BulkTypeOK ==
  /\ article \in [Articles -> {"none", "unread", "read"}]
  /\ job \in [Jobs -> Job]
  /\ bulkQueue \in [Jobs -> QueueJob]
  /\ request \in [Requests -> BulkRequest]
  /\ proc \in [Workers -> Proc]
  /\ recording \in [Workers -> SUBSET Jobs]
  /\ abandoned \subseteq Jobs
  /\ bulkEvents \in 0 .. MaxBulkEvents

\* A retry, a redelivery to a second worker or a late worker never lets the
\* cursor pass an article that was not marked: what a job reports as processed
\* is read, and a COMPLETED job has marked the whole scope.
CompletedMeansMarked ==
  \A j \in Jobs :
    /\ \A a \in Articles : a <= job[j].last => article[a] = "read"
    /\ job[j].status = "COMPLETED" => \A a \in Articles : article[a] = "read"

\* A job that was created ends, however often its queue job fails, is delivered
\* again or overlaps with a late worker, unless its outcome was abandoned: the
\* web process stopped before it added the queue job or recorded that it could
\* not; one of the two writes of FAILED, by the request or by the failed handler,
\* failed itself or was never made; the queue gave up a lost lock; or a late
\* worker stopped after it had written over the outcome.  Only a cancellation by
\* the user ends a job that was abandoned.
BulkJobEnds ==
  \A j \in Jobs :
    job[j].status \in {"QUEUED", "PROCESSING"} ~> job[j].status \in Terminal \/ j \in abandoned
=============================================================================
