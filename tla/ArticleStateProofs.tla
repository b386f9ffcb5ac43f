------------------------- MODULE ArticleStateProofs -------------------------
(***************************************************************************)
(* Proofs about the ways in which the state of articles changes in bulk or  *)
(* at a distance: marking a scope as read, the changes made on a mobile     *)
(* device, and the device's copies of what the server has.                  *)
(***************************************************************************)
EXTENDS BulkRead, MobileOffline, MobileSync, FiniteSetTheorems, WellFoundedInduction, TLAPS

-----------------------------------------------------------------------------
(* Numbers                                                                   *)

\* A set of numbers has a least one.
LEMMA LeastOf ==
  ASSUME NEW S \in SUBSET Nat, S # {}
  PROVE  \E m \in S : \A x \in S : m <= x
<1> DEFINE Below == OpToRel(<, Nat)
<1>1. \A x, y \in Nat : x < y => <<x, y>> \in Below BY DEF OpToRel
<1>2. IsWellFoundedOn(Below, Nat) BY NatLessThanWellFounded
<1> HIDE DEF Below
<1>3. PICK m \in S : \A y \in S : ~(<<y, m>> \in Below) BY <1>2, WFMin
<1>4. \A y \in S : ~(y < m) BY <1>1, <1>3
<1> QED BY <1>4

\* The greatest number of a bounded set is in it.
LEMMA MaxOf ==
  ASSUME NEW n \in Nat, NEW S \in SUBSET (0 .. n), S # {}
  PROVE  Max(S) \in S /\ \A x \in S : x <= Max(S)
<1>1. PICK m \in {n - x : x \in S} : \A y \in {n - x : x \in S} : m <= y
  <2> DEFINE T == {n - x : x \in S}
  <2>0. \A x \in S : n - x \in Nat OBVIOUS
  <2>1. T \in SUBSET Nat /\ T # {} BY <2>0
  <2> HIDE DEF T
  <2> QED BY <2>1, LeastOf DEF T
<1>2. PICK x \in S : m = n - x BY <1>1
<1>3. \A y \in S : x >= y
  <2> TAKE y \in S
  <2>1. m <= n - y BY <1>1
  <2> QED BY <1>2, <2>1
<1> QED BY <1>3 DEF Max

-----------------------------------------------------------------------------
(***************************************************************************)
(* Bulk read                                                                 *)
(***************************************************************************)

(* The inductive invariant                                                   *)

\* A job function works on a job that was created, and so does a request.
WorkInv ==
  /\ \A w \in Workers : proc[w].pc # "idle" => proc[w].job \in Jobs
  /\ \A w \in Workers : proc[w].pc = "idle" => proc[w] = NoProc
  /\ \A r \in Requests : request[r].pc \in {"enqueue", "fail"} => request[r].job \in Jobs

Passed(x) == \A a \in Articles : a <= x => article[a] = "read"

\* The cursor of a job has not passed an article that is not marked.
CursorInv ==
  \A j \in Jobs :
    /\ Passed(job[j].last)
    /\ job[j].status = "COMPLETED" => Passed(MaxArticle)

\* What a batch is about to move the cursor over is marked, but for the batch
\* itself, which is marked on the way.
BatchOK(p) ==
  /\ p.pc \in {"insert", "update", "advance"} =>
       /\ p.batch # {}
       /\ \A a \in Articles \ p.batch : (\E b \in p.batch : a <= b) => article[a] = "read"
  /\ p.pc = "update" => \A a \in p.batch : article[a] # "none"
  /\ p.pc = "advance" => \A a \in p.batch : article[a] = "read"
  /\ p.pc = "complete" => Passed(MaxArticle)

BatchInv == \A w \in Workers : BatchOK(proc[w])

BulkInv == BulkTypeOK /\ WorkInv /\ CursorInv /\ BatchInv
-----------------------------------------------------------------------------
(* Records by their fields                                                   *)

ProcStages == {"idle", "check", "begin", "read", "insert", "update", "advance", "complete"}
Statuses == {"none", "QUEUED", "PROCESSING"} \cup Terminal

\* The constants are the numbers they were assumed to be.
LEMMA BulkNumbers ==
  /\ MaxArticle \in Nat \ {0} /\ ReadBatchSize \in Nat \ {0} /\ MaxJobs \in Nat \ {0}
  /\ MaxBulkAttempts \in Nat \ {0} /\ MaxStalls \in Nat /\ MaxBulkEvents \in Nat
  /\ 0 \in 0 .. MaxJobs /\ Jobs \subseteq 0 .. MaxJobs /\ Articles \subseteq 0 .. MaxArticle
  /\ NoOwner \notin Workers
BY BulkAssumption DEF Jobs, Articles

\* A job function, a job and a queue job by their fields.
LEMMA ProcFields ==
  /\ NoProc \in Proc /\ NoProc.pc = "idle"
  /\ \A p \in Proc : p.pc \in ProcStages /\ p.job \in 0 .. MaxJobs /\ p.batch \in SUBSET Articles
  /\ \A p \in Proc, pc \in ProcStages :
       /\ [p EXCEPT !.pc = pc] \in Proc /\ [p EXCEPT !.pc = pc].pc = pc
       /\ [p EXCEPT !.pc = pc].job = p.job /\ [p EXCEPT !.pc = pc].batch = p.batch
BY BulkNumbers DEF NoProc, Proc, ProcStages

LEMMA JobFields ==
  /\ NoJob \in Job /\ NoJob.status = "none" /\ NoJob.last = 0
  /\ \A j \in Job : j.status \in Statuses /\ j.last \in 0 .. MaxArticle
  /\ \A j \in Job, s \in Statuses :
       [j EXCEPT !.status = s] \in Job /\ [j EXCEPT !.status = s].status = s
       /\ [j EXCEPT !.status = s].last = j.last
  /\ \A s \in Statuses, n \in 0 .. MaxArticle :
       [status |-> s, last |-> n] \in Job
BY BulkNumbers DEF NoJob, Job, Statuses, Terminal

LEMMA QueueFields ==
  /\ NoQueueJob \in QueueJob
  /\ [NoQueueJob EXCEPT !.state = "done"] \in QueueJob
  /\ \A q \in QueueJob : /\ q.made \in Nat /\ q.stalls \in Nat
                         /\ q.made < MaxBulkAttempts /\ q.stalls <= MaxStalls
  /\ \A q \in QueueJob : [q EXCEPT !.state = "wait"] \in QueueJob
  /\ \A q \in QueueJob, w \in Workers : [q EXCEPT !.state = "active", !.holder = w] \in QueueJob
  /\ \A q \in QueueJob : [q EXCEPT !.state = "failed", !.holder = NoOwner] \in QueueJob
  /\ \A q \in QueueJob : q.made + 1 < MaxBulkAttempts =>
       [q EXCEPT !.state = "wait", !.made = @ + 1, !.holder = NoOwner] \in QueueJob
  /\ \A q \in QueueJob : q.stalls < MaxStalls =>
       [q EXCEPT !.state = "wait", !.stalls = @ + 1, !.holder = NoOwner] \in QueueJob
<1>1. /\ 0 \in 0 .. MaxBulkAttempts - 1 /\ 0 \in 0 .. MaxStalls
      /\ \A n \in 0 .. MaxBulkAttempts - 1 : n \in Nat /\ n < MaxBulkAttempts /\ (n + 1 < MaxBulkAttempts => n + 1 \in 0 .. MaxBulkAttempts - 1)
      /\ \A n \in 0 .. MaxStalls : n \in Nat /\ n <= MaxStalls /\ (n < MaxStalls => n + 1 \in 0 .. MaxStalls)
  BY BulkNumbers
<1> QED BY <1>1 DEF NoQueueJob, QueueJob

-----------------------------------------------------------------------------
(* How articles and batches change                                           *)

\* Marks stay.
Marking ==
  \A a \in Articles : /\ article[a] = "read" => article'[a] = "read"
                      /\ article[a] # "none" => article'[a] # "none"

\* Then what a cursor has passed stays marked, and batches stay right.
LEMMA MarkingKeeps ==
  ASSUME Marking
  PROVE  /\ \A x : Passed(x) => Passed(x)'
         /\ \A p \in Proc : BatchOK(p) => BatchOK(p)'
<1>1. \A x : Passed(x) => Passed(x)' BY DEF Marking, Passed
<1>2. ASSUME NEW p \in Proc, BatchOK(p) PROVE BatchOK(p)'
  <2>1. p.batch \subseteq Articles BY ProcFields
  <2> QED BY <1>1, <1>2, <2>1 DEF BatchOK, Marking
<1> QED BY <1>1, <1>2

\* One worker's job function moves, and the others keep what they have.
LEMMA OneWorker ==
  ASSUME BulkInv, Marking, NEW w \in Workers, NEW p \in Proc,
         proc' = [proc EXCEPT ![w] = p], BatchOK(p)',
         p.pc # "idle" => p.job \in Jobs, p.pc = "idle" => p = NoProc
  PROVE  /\ proc' \in [Workers -> Proc] /\ BatchInv'
         /\ \A v \in Workers : proc'[v].pc # "idle" => proc'[v].job \in Jobs
         /\ \A v \in Workers : proc'[v].pc = "idle" => proc'[v] = NoProc
<1>1. proc \in [Workers -> Proc] BY DEF BulkInv, BulkTypeOK
<1>2. \A v \in Workers : proc'[v] = IF v = w THEN p ELSE proc[v] BY <1>1
<1>3. \A v \in Workers : BatchOK(proc[v])'
  <2> TAKE v \in Workers
  <2>1. CASE v = w BY <1>2, <2>1 DEF BatchOK
  <2>2. CASE v # w
    <3>1. proc[v] \in Proc /\ BatchOK(proc[v]) BY <1>1 DEF BulkInv, BatchInv
    <3>2. proc'[v] = proc[v] BY <1>2, <2>2
    <3> HIDE DEF Proc
    <3>3. PICK x \in Proc : x = proc[v] BY <3>1
    <3>4. BatchOK(x)' BY <3>1, <3>3, MarkingKeeps
    <3> QED BY <3>2, <3>3, <3>4 DEF BatchOK
  <2> QED BY <2>1, <2>2
<1> QED BY <1>1, <1>2, <1>3 DEF BulkInv, WorkInv, BatchInv

\* One job changes to what is marked so far.
LEMMA JobMoves ==
  ASSUME BulkInv, Marking, NEW j \in Jobs, NEW x \in Job, job' = [job EXCEPT ![j] = x],
         Passed(x.last)', x.status = "COMPLETED" => Passed(MaxArticle)'
  PROVE  job' \in [Jobs -> Job] /\ CursorInv'
<1>1. job \in [Jobs -> Job] BY DEF BulkInv, BulkTypeOK
<1>2. \A i \in Jobs : job'[i] = IF i = j THEN x ELSE job[i] BY <1>1
<1>3. \A i \in Jobs : Passed(job[i].last)' /\ (job'[i].status = "COMPLETED" => Passed(MaxArticle)')
  <2> TAKE i \in Jobs
  <2>1. CASE i = j BY <1>2, <2>1 DEF Passed
  <2>2. CASE i # j
    <3>1. job'[i] = job[i] BY <1>2, <2>2
    <3>2. PICK n : n = job[i].last OBVIOUS
    <3>3. Passed(n)' /\ (job[i].status = "COMPLETED" => Passed(MaxArticle)')
      BY <3>2, MarkingKeeps DEF BulkInv, CursorInv
    <3> QED BY <3>1, <3>2, <3>3 DEF Passed
  <2> QED BY <2>1, <2>2
<1> QED BY <1>1, <1>3 DEF CursorInv, Passed

\* The jobs stay as they are.
LEMMA JobsStay ==
  ASSUME BulkInv, Marking, job' = job
  PROVE  job' \in [Jobs -> Job] /\ CursorInv'
<1>1. ASSUME NEW j \in Jobs
      PROVE  Passed(job[j].last)' /\ (job'[j].status = "COMPLETED" => Passed(MaxArticle)')
  <2>1. PICK n : n = job[j].last OBVIOUS
  <2>2. Passed(n)' /\ (job[j].status = "COMPLETED" => Passed(MaxArticle)')
    BY <2>1, MarkingKeeps DEF BulkInv, CursorInv
  <2> QED BY <2>1, <2>2 DEF Passed
<1> QED BY <1>1 DEF BulkInv, BulkTypeOK, CursorInv, Passed

\* The status of a job changes to one that is not COMPLETED.
LEMMA StatusMoves ==
  ASSUME BulkInv, Marking, NEW j \in Jobs, NEW s \in Statuses \ {"COMPLETED"},
         job' = [job EXCEPT ![j].status = s]
  PROVE  job' \in [Jobs -> Job] /\ CursorInv'
<1>1. job \in [Jobs -> Job] BY DEF BulkInv, BulkTypeOK
<1>2. PICK x : x = [job[j] EXCEPT !.status = s] OBVIOUS
<1>3. x \in Job /\ x.status = s /\ x.last = job[j].last BY <1>1, <1>2, JobFields
<1>4. job' = [job EXCEPT ![j] = x] BY <1>1, <1>2
<1>5. Passed(x.last)' BY <1>3, MarkingKeeps DEF BulkInv, CursorInv
<1> QED BY <1>3, <1>4, <1>5, JobMoves

\* The job functions stay where they are.
LEMMA WorkersStay ==
  ASSUME BulkInv, Marking, proc' = proc
  PROVE  /\ proc' \in [Workers -> Proc] /\ BatchInv'
         /\ \A v \in Workers : proc'[v].pc # "idle" => proc'[v].job \in Jobs
         /\ \A v \in Workers : proc'[v].pc = "idle" => proc'[v] = NoProc
<1>1. proc \in [Workers -> Proc] BY DEF BulkInv, BulkTypeOK
<1>2. ASSUME NEW v \in Workers PROVE BatchOK(proc[v])'
  <2>1. PICK x \in Proc : x = proc[v] BY <1>1
  <2>2. BatchOK(x)' BY <2>1, MarkingKeeps DEF BulkInv, BatchInv
  <2> QED BY <2>1, <2>2 DEF BatchOK
<1> QED BY <1>1, <1>2 DEF BulkInv, WorkInv, BatchInv

\* A request of the web process, or a cancellation.
LEMMA WebKeeps ==
  ASSUME BulkInv, (\E r \in Requests : Web(r) \/ WebStops(r)) \/ (\E j \in Jobs : Cancel(j))
  PROVE  BulkInv'
<1> USE DEF Web
<1>1. article' = article /\ proc' = proc /\ recording' = recording
  BY DEF Find, Create, EnqueueBulk, RecordNotStarted, WebStops, Cancel
<1>2. Marking BY <1>1 DEF Marking
<1>3. /\ job \in [Jobs -> Job] /\ request \in [Requests -> BulkRequest] /\ bulkQueue \in [Jobs -> QueueJob]
      /\ bulkEvents \in 0 .. MaxBulkEvents /\ abandoned \subseteq Jobs
  BY DEF BulkInv, BulkTypeOK
<1>4. \A r \in Requests : request[r].pc \in {"enqueue", "fail"} => request[r].job \in Jobs
  BY DEF BulkInv, WorkInv
<1>5. job' \in [Jobs -> Job] /\ CursorInv'
  <2>1. CASE UNCHANGED job BY <1>2, <2>1, JobsStay
  <2>2. CASE \E r \in Requests : Create(r)
    <3>1. PICK j \in Jobs : job[j] = NoJob /\ job' = [job EXCEPT ![j].status = "QUEUED"]
      BY <2>2 DEF Create
    <3> QED BY <1>2, <3>1, StatusMoves DEF Statuses, Terminal
  <2>3. CASE (\E r \in Requests : RecordNotStarted(r)) /\ job' # job
    <3>1. PICK j \in Jobs : job' = [job EXCEPT ![j].status = "FAILED"]
      BY <1>4, <2>3 DEF RecordNotStarted
    <3> QED BY <1>2, <3>1, StatusMoves DEF Statuses, Terminal
  <2>4. CASE \E j \in Jobs : Cancel(j)
    <3>1. PICK j \in Jobs : job' = [job EXCEPT ![j].status = "CANCELED"] BY <2>4 DEF Cancel
    <3> QED BY <1>2, <3>1, StatusMoves DEF Statuses, Terminal
  <2> QED BY <2>1, <2>2, <2>3, <2>4 DEF Find, EnqueueBulk, WebStops
<1>6. /\ request' \in [Requests -> BulkRequest]
      /\ \A r \in Requests : request'[r].pc \in {"enqueue", "fail"} => request'[r].job \in Jobs
  <2>1. CASE UNCHANGED request BY <1>3, <1>4, <2>1
  <2>2. ASSUME NEW r \in Requests, NEW pc \in {"create", "end"}, ToPc(r, pc)
        PROVE  <1>6
    BY <1>3, <1>4, <2>2 DEF ToPc, BulkRequest
  <2>3. ASSUME NEW r \in Requests, request[r].pc = "enqueue", ToPc(r, "fail")
        PROVE  <1>6
    BY <1>3, <1>4, <2>3 DEF ToPc, BulkRequest
  <2>4. ASSUME NEW r \in Requests, Create(r) PROVE <1>6
    BY <1>3, <1>4, <2>4, BulkNumbers DEF Create, BulkRequest
  <2> QED BY <2>1, <2>2, <2>3, <2>4 DEF Find, EnqueueBulk, RecordNotStarted, WebStops, Cancel
<1>7. bulkQueue' \in [Jobs -> QueueJob]
  <2>1. CASE UNCHANGED bulkQueue BY <1>3, <2>1
  <2>2. ASSUME NEW r \in Requests, EnqueueBulk(r), bulkQueue' = [bulkQueue EXCEPT ![request[r].job].state = "wait"]
        PROVE  <1>7
    BY <1>3, <1>4, <2>2, QueueFields
  <2> QED BY <2>1, <2>2 DEF Find, Create, EnqueueBulk, RecordNotStarted, WebStops, Cancel
<1>8. bulkEvents' \in 0 .. MaxBulkEvents /\ abandoned' \subseteq Jobs
  <2>1. bulkEvents' = bulkEvents \/ BulkEvent
    BY DEF Find, Create, EnqueueBulk, RecordNotStarted, WebStops, Cancel
  <2>2. bulkEvents' \in 0 .. MaxBulkEvents BY <1>3, <2>1, BulkNumbers DEF BulkEvent
  <2>3. abandoned' \subseteq Jobs
    <3>1. CASE UNCHANGED abandoned BY <1>3, <3>1
    <3>2. ASSUME NEW r \in Requests, RecordNotStarted(r) \/ WebStops(r), abandoned' # abandoned
          PROVE  abandoned' \subseteq Jobs
      BY <1>3, <1>4, <3>2 DEF RecordNotStarted, WebStops, GiveUp
    <3> QED BY <3>1, <3>2 DEF Find, Create, EnqueueBulk, Cancel
  <2> QED BY <2>2, <2>3
<1> QED BY <1>1, <1>2, <1>5, <1>6, <1>7, <1>8, WorkersStay
        DEF BulkInv, BulkTypeOK, WorkInv

\* The job function returns, or its worker forgets it.
LEMMA Returns ==
  ASSUME BulkInv, NEW w \in Workers, proc[w].pc # "idle"
  PROVE  Return(w) => /\ proc' = [proc EXCEPT ![w] = NoProc]
                      /\ bulkQueue' \in [Jobs -> QueueJob]
<1>1. bulkQueue \in [Jobs -> QueueJob] BY DEF BulkInv, BulkTypeOK
<1> QED BY <1>1, QueueFields DEF Return

\* An empty batch means that nothing is left; the others of the scope come
\* before or after the whole batch.
LEMMA Batches ==
  ASSUME NEW b \in SUBSET Articles, NEW last \in 0 .. MaxArticle, IsBatch(b, last)
  PROVE  /\ b = {} => \A a \in Articles : a <= last
         /\ \A a \in Articles \ b : (\E x \in b : a <= x) => a <= last
<1> DEFINE rest == {a \in Articles : a > last}
<1>1. ASSUME b = {} PROVE rest = {}
  <2>1. IsFiniteSet(Articles) BY FS_Interval, BulkNumbers DEF Articles
  <2>2. IsFiniteSet(rest) /\ Cardinality(rest) \in Nat BY <2>1, FS_Subset, FS_CardinalityType
  <2>3. Cardinality({}) = 0 BY FS_EmptySet
  <2>4. 0 = Min({ReadBatchSize, Cardinality(rest)}) BY <1>1, <2>3 DEF IsBatch
  <2>5. Min({ReadBatchSize, Cardinality(rest)}) \in {ReadBatchSize, Cardinality(rest)}
    <3>1. PICK n \in Nat : n = Cardinality(rest) BY <2>2
    <3>2. \E m \in {ReadBatchSize, n} : \A y \in {ReadBatchSize, n} : m =< y
      <4>1. CASE ReadBatchSize <= n BY <4>1, BulkNumbers
      <4>2. CASE n <= ReadBatchSize BY <4>2, BulkNumbers
      <4> QED BY <4>1, <4>2, BulkNumbers
    <3> QED BY <3>1, <3>2 DEF Min
  <2>6. Cardinality(rest) = 0 BY <2>4, <2>5, BulkNumbers
  <2> QED BY <2>2, <2>6, FS_EmptySet
<1>2. ASSUME NEW a \in Articles \ b, NEW x \in b, a <= x PROVE a <= last
  <2>1. a \in rest => x < a BY DEF IsBatch
  <2> QED BY <1>2, <2>1, BulkNumbers DEF Articles
<1>3. \A a \in Articles : a \notin rest => a <= last BY BulkNumbers DEF Articles
<1> QED BY <1>1, <1>2, <1>3

\* The steps of a job function.
LEMMA WorkKeeps ==
  ASSUME BulkInv, NEW w \in Workers, Work(w)
  PROVE  BulkInv'
<1> USE DEF Work
<1>1. /\ article \in [Articles -> {"none", "unread", "read"}]
      /\ job \in [Jobs -> Job] /\ bulkQueue \in [Jobs -> QueueJob]
      /\ proc \in [Workers -> Proc]
      /\ UNCHANGED <<request, recording, abandoned, bulkEvents>>
  BY DEF BulkInv, BulkTypeOK, Take, Check, BeginWork, ReadBatch, Insert, Update, Advance, Complete
<1>2. Marking /\ article' \in [Articles -> {"none", "unread", "read"}]
  BY <1>1 DEF Marking, Take, Check, BeginWork, ReadBatch, Insert, Update, Advance, Complete
<1>j. PICK j : j = proc[w].job OBVIOUS
<1>p. PICK p \in Proc : p = proc[w] BY <1>1
<1>b. BatchOK(p) BY <1>p DEF BulkInv, BatchInv
<1>w. proc[w].pc # "idle" => j \in Jobs BY <1>j DEF BulkInv, WorkInv
<1>n. BatchOK(NoProc)' BY ProcFields DEF BatchOK
<1>3. bulkQueue' \in [Jobs -> QueueJob]
  <2>1. CASE UNCHANGED bulkQueue BY <1>1, <2>1
  <2>2. CASE Take(w)
    <3>1. PICK i \in Jobs : bulkQueue' = [bulkQueue EXCEPT ![i] = [@ EXCEPT !.state = "active", !.holder = w]]
      BY <2>2 DEF Take
    <3>2. PICK x \in QueueJob : x = [bulkQueue[i] EXCEPT !.state = "active", !.holder = w]
      BY <1>1, QueueFields
    <3>3. bulkQueue' = [bulkQueue EXCEPT ![i] = x] BY <1>1, <3>1, <3>2
    <3> QED BY <1>1, <3>2, <3>3
  <2>3. CASE Return(w) /\ proc[w].pc # "idle" BY <2>3, Returns
  <2> QED BY <2>1, <2>2, <2>3 DEF Check, BeginWork, ReadBatch, Insert, Update, Advance, Complete
<1>4. job' \in [Jobs -> Job] /\ CursorInv'
  <2>1. CASE UNCHANGED job BY <1>2, <2>1, JobsStay
  <2>2. CASE BeginWork(w)
    BY <1>2, <1>j, <1>w, <2>2, StatusMoves DEF BeginWork, Statuses, Terminal
  <2>3. CASE Advance(w)
    <3>1. p.batch \subseteq Articles /\ p.batch # {} /\ p.pc = "advance"
      BY <1>b, <1>p, <2>3, ProcFields DEF BatchOK, Advance
    <3>2. PICK m : m = Max(p.batch) OBVIOUS
    <3>3. m \in p.batch BY <3>1, <3>2, MaxOf, BulkNumbers
    <3>4. Passed(m) BY <1>b, <3>1, <3>3 DEF BatchOK, Passed
    <3>5. m \in 0 .. MaxArticle BY <3>1, <3>3, BulkNumbers
    <3>6. PICK x \in Job : x = [status |-> "PROCESSING", last |-> m]
      BY <3>5, JobFields DEF Statuses
    <3>7. job' = [job EXCEPT ![j] = x] BY <1>j, <1>p, <2>3, <3>2, <3>6 DEF Advance
    <3>8. x.last = m /\ x.status = "PROCESSING" BY <3>6
    <3>9. Passed(x.last)' BY <1>2, <3>4, <3>8, MarkingKeeps
    <3> QED BY <1>2, <1>w, <2>3, <3>7, <3>8, <3>9, JobMoves DEF Advance
  <2>4. CASE Complete(w)
    <3>1. PICK x : x = [job[j] EXCEPT !.status = "COMPLETED"] OBVIOUS
    <3>2. j \in Jobs BY <1>w, <2>4 DEF Complete
    <3>3. x \in Job /\ x.status = "COMPLETED" /\ x.last = job[j].last
      BY <1>1, <3>1, <3>2, JobFields DEF Statuses, Terminal
    <3>4. job' = [job EXCEPT ![j] = x] BY <1>1, <1>j, <2>4, <3>1 DEF Complete
    <3>5. Passed(MaxArticle)' BY <1>2, <1>b, <1>p, <2>4, MarkingKeeps DEF BatchOK, Complete
    <3>6. Passed(x.last)' BY <1>2, <3>2, <3>3, MarkingKeeps DEF BulkInv, CursorInv
    <3> QED BY <1>2, <3>2, <3>3, <3>4, <3>5, <3>6, JobMoves
  <2> QED BY <2>1, <2>2, <2>3, <2>4 DEF Take, Check, ReadBatch, Insert, Update
<1> DEFINE
      Moved(q) ==
        /\ proc' = [proc EXCEPT ![w] = q] /\ BatchOK(q)'
        /\ q.pc # "idle" => q.job \in Jobs
        /\ q.pc = "idle" => q = NoProc
<1>5. \E q \in Proc : Moved(q)
  <2>1. ASSUME NEW pc \in ProcStages \ {"idle"}, Goto(w, pc), j \in Jobs,
               BatchOK([p EXCEPT !.pc = pc])'
        PROVE  \E q \in Proc : Moved(q)
    <3>1. PICK q : q = [p EXCEPT !.pc = pc] OBVIOUS
    <3>2. q \in Proc /\ q.pc = pc /\ q.job = j BY <1>j, <1>p, <3>1, ProcFields
    <3>3. proc' = [proc EXCEPT ![w] = q] BY <1>1, <1>p, <2>1, <3>1 DEF Goto
    <3>4. BatchOK(q)' BY <2>1, <3>1
    <3>5. Moved(q) BY <2>1, <3>2, <3>3, <3>4
    <3> QED BY <3>2, <3>5
  <2>2. CASE Return(w) /\ proc[w].pc # "idle"
    <3>1. Moved(NoProc) BY <1>n, <2>2, Returns, ProcFields
    <3> QED BY <3>1, ProcFields
  <2>3. CASE Take(w)
    <3>1. PICK i \in Jobs : proc' = [proc EXCEPT ![w] = [NoProc EXCEPT !.pc = "check", !.job = i]]
      BY <2>3 DEF Take
    <3>2. PICK q : q = [NoProc EXCEPT !.pc = "check", !.job = i] OBVIOUS
    <3>3. q \in Proc /\ q.pc = "check" /\ q.job = i
      BY <3>2, BulkNumbers DEF NoProc, Proc
    <3>4. BatchOK(q)' BY <3>3 DEF BatchOK
    <3>5. Moved(q) BY <3>1, <3>2, <3>3, <3>4
    <3> QED BY <3>3, <3>5
  <2>4. CASE Check(w)
    <3>1. BatchOK([p EXCEPT !.pc = "begin"])' BY ProcFields DEF BatchOK, ProcStages
    <3>2. j \in Jobs /\ proc[w].pc # "idle" BY <1>w, <2>4 DEF Check
    <3>3. CASE Return(w) BY <2>2, <3>2, <3>3
    <3>4. CASE Goto(w, "begin") BY <2>1, <3>1, <3>2, <3>4 DEF ProcStages
    <3> QED BY <2>4, <3>3, <3>4 DEF Check
  <2>5. CASE BeginWork(w)
    <3>1. BatchOK([p EXCEPT !.pc = "read"])' BY ProcFields DEF BatchOK, ProcStages
    <3>9. j \in Jobs /\ Goto(w, "read") BY <1>w, <2>5 DEF BeginWork
    <3> QED BY <2>1, <3>1, <3>9 DEF ProcStages
  <2>6. CASE ReadBatch(w) /\ ~Return(w)
    <3>1. PICK b \in SUBSET Articles :
            /\ IsBatch(b, job[j].last)
            /\ proc' = [proc EXCEPT ![w] = [@ EXCEPT !.batch = b,
                                                     !.pc = IF b = {} THEN "complete" ELSE "insert"]]
      BY <1>j, <2>6 DEF ReadBatch
    <3>2. PICK q : q = [p EXCEPT !.batch = b, !.pc = IF b = {} THEN "complete" ELSE "insert"] OBVIOUS
    <3>3. q \in Proc /\ q.batch = b /\ q.job = j /\ q.pc = (IF b = {} THEN "complete" ELSE "insert")
      BY <1>j, <1>p, <3>2 DEF Proc
    <3>4. j \in Jobs BY <1>w, <2>6 DEF ReadBatch
    <3>5. PICK last \in 0 .. MaxArticle : last = job[j].last BY <1>1, <3>4, JobFields
    <3>6. Passed(last) BY <3>4, <3>5 DEF BulkInv, CursorInv
    <3>7. /\ b = {} => Passed(MaxArticle)
          /\ \A a \in Articles \ b : (\E x \in b : a <= x) => article[a] = "read"
      BY <3>1, <3>5, <3>6, Batches DEF Passed
    <3>8. BatchOK(q) BY <3>3, <3>7 DEF BatchOK
    <3>9. BatchOK(q)' BY <1>2, <3>3, <3>8, MarkingKeeps
    <3>10. proc' = [proc EXCEPT ![w] = q] BY <1>1, <1>p, <3>1, <3>2
    <3>11. Moved(q) BY <3>3, <3>4, <3>9, <3>10
    <3> QED BY <3>3, <3>11
  <2>7. CASE Insert(w)
    <3>1. p.pc = "insert" BY <1>p, <2>7 DEF Insert
    <3>2. \A a \in p.batch : article'[a] # "none"
      BY <1>1, <1>p, <2>7, ProcFields DEF Insert
    <3>3. BatchOK(p)' BY <1>2, <1>b, MarkingKeeps
    <3>4. BatchOK([p EXCEPT !.pc = "update"])' BY <3>1, <3>2, <3>3, ProcFields DEF BatchOK, ProcStages
    <3>9. j \in Jobs /\ Goto(w, "update") BY <1>w, <2>7 DEF Insert
    <3> QED BY <2>1, <3>4, <3>9 DEF ProcStages
  <2>8. CASE Update(w)
    <3>1. p.pc = "update" BY <1>p, <2>8 DEF Update
    <3>2. \A a \in p.batch : article'[a] = "read"
      BY <1>1, <1>p, <1>b, <2>8, <3>1, ProcFields DEF Update, BatchOK
    <3>3. BatchOK(p)' BY <1>2, <1>b, MarkingKeeps
    <3>4. BatchOK([p EXCEPT !.pc = "advance"])' BY <3>1, <3>2, <3>3, ProcFields DEF BatchOK, ProcStages
    <3>9. j \in Jobs /\ Goto(w, "advance") BY <1>w, <2>8 DEF Update
    <3> QED BY <2>1, <3>4, <3>9 DEF ProcStages
  <2>9. CASE Advance(w)
    <3>1. BatchOK([p EXCEPT !.pc = "read"])' BY ProcFields DEF BatchOK, ProcStages
    <3>9. j \in Jobs /\ Goto(w, "read") BY <1>w, <2>9 DEF Advance
    <3> QED BY <2>1, <3>1, <3>9 DEF ProcStages
  <2>10. Return(w) => proc[w].pc = "idle" \/ \E q \in Proc : Moved(q) BY <2>2
  <2> HIDE DEF Moved
  <2>11. CASE Complete(w) BY <2>10, <2>11 DEF Complete
  <2>12. CASE ReadBatch(w) /\ Return(w) BY <2>10, <2>12 DEF ReadBatch
  <2> QED BY <2>3, <2>4, <2>5, <2>6, <2>7, <2>8, <2>9, <2>11, <2>12
<1>6. PICK q \in Proc : Moved(q) BY <1>5
<1>7. /\ proc' \in [Workers -> Proc] /\ BatchInv'
      /\ \A v \in Workers : proc'[v].pc # "idle" => proc'[v].job \in Jobs
      /\ \A v \in Workers : proc'[v].pc = "idle" => proc'[v] = NoProc
  <2>1. /\ proc' = [proc EXCEPT ![w] = q] /\ BatchOK(q)'
        /\ q.pc # "idle" => q.job \in Jobs
        /\ q.pc = "idle" => q = NoProc
    BY <1>6
  <2> HIDE DEF Moved
  <2> QED BY <1>2, <2>1, OneWorker
<1> QED BY <1>1, <1>2, <1>3, <1>4, <1>7 DEF BulkInv, BulkTypeOK, WorkInv

\* A queue job fails or is delivered again.
LEMMA QueueKeeps ==
  ASSUME BulkInv, NEW j \in Jobs, NEW x \in QueueJob, bulkQueue' = [bulkQueue EXCEPT ![j] = x]
  PROVE  bulkQueue' \in [Jobs -> QueueJob]
BY DEF BulkInv, BulkTypeOK

\* The lock of a queue job lapses.
LEMMA LockLapses ==
  ASSUME BulkInv, NEW w \in Workers, NEW j \in Jobs, LoseLock(w, j) \/ GivesUpLate(w, j)
  PROVE  bulkQueue' \in [Jobs -> QueueJob] /\ abandoned' \subseteq Jobs
<1>1. bulkQueue \in [Jobs -> QueueJob] /\ abandoned \subseteq Jobs BY DEF BulkInv, BulkTypeOK
<1>2. bulkQueue[j] \in QueueJob BY <1>1
<1>3. CASE GivesUpLate(w, j) BY <1>1, <1>3 DEF GivesUpLate, GiveUp
<1>4. CASE LoseLock(w, j) /\ bulkQueue[j].stalls < MaxStalls
  <2>1. PICK x \in QueueJob : x = [bulkQueue[j] EXCEPT !.state = "wait", !.stalls = @ + 1, !.holder = NoOwner]
    BY <1>2, <1>4, QueueFields
  <2>2. bulkQueue' = [bulkQueue EXCEPT ![j] = x] BY <1>1, <1>4, <2>1 DEF LoseLock
  <2> QED BY <1>1, <1>4, <2>2, QueueKeeps DEF LoseLock
<1>5. CASE LoseLock(w, j) /\ ~(bulkQueue[j].stalls < MaxStalls)
  <2>1. PICK x \in QueueJob : x = [bulkQueue[j] EXCEPT !.state = "failed", !.holder = NoOwner]
    BY <1>2, QueueFields
  <2>2. bulkQueue' = [bulkQueue EXCEPT ![j] = x] BY <1>1, <1>5, <2>1 DEF LoseLock
  <2> QED BY <1>1, <1>5, <2>2, QueueKeeps DEF LoseLock
<1> QED BY <1>3, <1>4, <1>5

\* The failed handler's write, whether it is made or not.
LEMMA RecordKeeps ==
  ASSUME BulkInv, NEW w \in Workers, RecordFailure(w) \/ RecordingFails(w)
  PROVE  BulkInv'
<1>1. /\ UNCHANGED <<article, bulkQueue, request, proc, bulkEvents>>
      /\ recording \in [Workers -> SUBSET Jobs] /\ abandoned \subseteq Jobs
  BY DEF BulkInv, BulkTypeOK, RecordFailure, RecordingFails
<1>2. Marking BY <1>1 DEF Marking
<1>3. PICK j \in recording[w] :
        /\ recording' = [recording EXCEPT ![w] = @ \ {j}]
        /\ FailJob(j) \/ UNCHANGED job
        /\ GiveUp(j) \/ UNCHANGED abandoned
  BY Zenon DEF RecordFailure, RecordingFails
<1>4. j \in Jobs BY <1>1
<1>5. recording' \in [Workers -> SUBSET Jobs]
  <2>1. PICK x \in SUBSET Jobs : x = recording[w] \ {j} BY <1>1
  <2> QED BY <1>1, <1>3, <2>1
<1>6. abandoned' \subseteq Jobs BY <1>1, <1>3, <1>4 DEF GiveUp
<1>7. job' \in [Jobs -> Job] /\ CursorInv'
  <2>1. CASE UNCHANGED job BY <1>2, <2>1, JobsStay
  <2>2. CASE job' = [job EXCEPT ![j].status = "FAILED"]
    BY <1>2, <1>4, <2>2, StatusMoves DEF Statuses, Terminal
  <2> QED BY <1>3, <2>1, <2>2 DEF FailJob
<1> QED BY <1>1, <1>2, <1>5, <1>6, <1>7, WorkersStay DEF BulkInv, BulkTypeOK, WorkInv

\* A statement fails, or the worker stops or loses its lock.
LEMMA FaultKeeps ==
  ASSUME BulkInv, NEW w \in Workers, Throw(w) \/ WorkerStops(w) \/ WorkerLate(w)
  PROVE  BulkInv'
<1>1. /\ bulkQueue \in [Jobs -> QueueJob] /\ job \in [Jobs -> Job] /\ proc \in [Workers -> Proc]
      /\ abandoned \subseteq Jobs /\ bulkEvents \in 0 .. MaxBulkEvents
      /\ recording \in [Workers -> SUBSET Jobs]
      /\ UNCHANGED <<article, job, request>> /\ BulkEvent /\ proc[w] # NoProc
  BY DEF BulkInv, BulkTypeOK, Throw, WorkerStops, WorkerLate
<1>2. Marking BY <1>1 DEF Marking
<1>3. bulkEvents' \in 0 .. MaxBulkEvents BY <1>1, BulkNumbers DEF BulkEvent
<1>4. PICK j \in Jobs : j = proc[w].job BY <1>1 DEF BulkInv, WorkInv
<1>5. /\ proc' \in [Workers -> Proc] /\ BatchInv'
      /\ \A v \in Workers : proc'[v].pc # "idle" => proc'[v].job \in Jobs
      /\ \A v \in Workers : proc'[v].pc = "idle" => proc'[v] = NoProc
  <2>1. CASE proc' = proc BY <1>2, <2>1, WorkersStay
  <2>2. CASE proc' = [proc EXCEPT ![w] = NoProc]
    <3>1. BatchOK(NoProc)' BY ProcFields DEF BatchOK
    <3> QED BY <1>2, <2>2, <3>1, OneWorker, ProcFields
  <2> QED BY <2>1, <2>2 DEF Throw, WorkerStops, WorkerLate
<1>6. bulkQueue' \in [Jobs -> QueueJob] /\ abandoned' \subseteq Jobs
  <2>1. CASE LoseLock(w, j) \/ GivesUpLate(w, j) BY <2>1, LockLapses
  <2>2. CASE Throw(w) /\ ~GivesUpLate(w, j)
    <3>1. CASE bulkQueue[j].made + 1 < MaxBulkAttempts
      <4>1. PICK x \in QueueJob : x = [bulkQueue[j] EXCEPT !.state = "wait", !.made = @ + 1, !.holder = NoOwner]
        BY <1>1, <3>1, QueueFields
      <4>2. bulkQueue' = [bulkQueue EXCEPT ![j] = x] BY <1>1, <1>4, <2>2, <3>1, <4>1 DEF Throw
      <4> QED BY <1>1, <1>4, <2>2, <4>2, QueueKeeps DEF Throw
    <3>2. CASE ~(bulkQueue[j].made + 1 < MaxBulkAttempts)
      <4>1. PICK x \in QueueJob : x = [bulkQueue[j] EXCEPT !.state = "failed", !.holder = NoOwner]
        BY <1>1, QueueFields
      <4>2. bulkQueue' = [bulkQueue EXCEPT ![j] = x] BY <1>1, <1>4, <2>2, <3>2, <4>1 DEF Throw
      <4> QED BY <1>1, <1>4, <2>2, <4>2, QueueKeeps DEF Throw
    <3> QED BY <3>1, <3>2
  <2> QED BY <1>4, <2>1, <2>2 DEF WorkerStops, WorkerLate
<1>7. job' \in [Jobs -> Job] /\ CursorInv' BY <1>1, <1>2, JobsStay
<1>8. recording' \in [Workers -> SUBSET Jobs]
  BY <1>1, <1>4 DEF Throw, WorkerStops, WorkerLate
<1> QED BY <1>1, <1>3, <1>5, <1>6, <1>7, <1>8 DEF BulkInv, BulkTypeOK, WorkInv

-----------------------------------------------------------------------------
(* The theorems                                                              *)

\* Nothing is passed and nothing is under way.
LEMMA BulkInvInit == BulkInit => BulkInv
<1> SUFFICES ASSUME BulkInit PROVE BulkInv
  OBVIOUS
<1>1. Touched \subseteq Articles /\ NoJob \in Job /\ NoJob.last = 0 /\ NoJob.status = "none"
      /\ NoQueueJob \in QueueJob /\ NoProc \in Proc /\ NoProc.pc = "idle"
  BY BulkAssumption, JobFields, QueueFields, ProcFields
<1>2. BulkTypeOK BY <1>1, BulkNumbers DEF BulkInit, BulkTypeOK, BulkRequest
<1>3. WorkInv BY <1>1 DEF BulkInit, WorkInv
<1>4. \A a \in Articles : ~(a <= 0) BY BulkNumbers DEF Articles
<1>5. CursorInv BY <1>1, <1>4 DEF BulkInit, CursorInv, Passed
<1>6. BatchInv BY <1>1 DEF BulkInit, BatchInv, BatchOK
<1> QED BY <1>2, <1>3, <1>5, <1>6 DEF BulkInv

\* Every step of the web process and of the workers keeps the invariant.
LEMMA BulkStep == BulkInv /\ [BulkNext]_bulkVars => BulkInv'
<1> SUFFICES ASSUME BulkInv, [BulkNext]_bulkVars PROVE BulkInv'
  OBVIOUS
<1>1. ASSUME NEW r \in Requests, Web(r) \/ WebStops(r) PROVE BulkInv'
  BY <1>1, WebKeeps
<1>2. ASSUME NEW j \in Jobs, Cancel(j) PROVE BulkInv'
  BY <1>2, WebKeeps
<1>3. ASSUME NEW w \in Workers, Work(w) PROVE BulkInv'
  BY <1>3, WorkKeeps
<1>4. ASSUME NEW w \in Workers, Throw(w) \/ WorkerStops(w) \/ WorkerLate(w) PROVE BulkInv'
  BY <1>4, FaultKeeps
<1>5. ASSUME NEW w \in Workers, RecordFailure(w) \/ RecordingFails(w) PROVE BulkInv'
  BY <1>5, RecordKeeps
<1>6. CASE UNCHANGED bulkVars
  BY <1>6 DEF bulkVars, BulkInv, BulkTypeOK, WorkInv, CursorInv, BatchInv, BatchOK, Passed
<1> QED BY <1>1, <1>2, <1>3, <1>4, <1>5, <1>6 DEF BulkNext

\* What the cursor of a job has passed is marked, and so is what a job function
\* is about to move it over, whoever moves it.
THEOREM BulkInvariant == BulkSpec => []BulkInv
BY BulkInvInit, BulkStep, PTL DEF BulkSpec

\* Jobs, queue jobs and job functions keep their types; no queue job makes more
\* attempts or stalls more often than it may.
THEOREM BulkTypes == BulkSpec => []BulkTypeOK
<1>1. BulkInv => BulkTypeOK BY DEF BulkInv
<1> QED BY <1>1, BulkInvariant, PTL

\* For any number of articles, jobs, requests and workers and batches of any
\* size: writeArticleReadStateBatches comes before the cursor of
\* processBulkReadJob in every attempt, redelivery and late worker, so that
\* what a job reports as processed is read and COMPLETED means all of it.
THEOREM BulkCompletedMeansMarked == BulkSpec => []CompletedMeansMarked
<1>1. BulkInv => CompletedMeansMarked
  <2>1. \A a \in Articles : a <= MaxArticle BY BulkNumbers DEF Articles
  <2> QED BY <2>1 DEF BulkInv, CursorInv, Passed, CompletedMeansMarked
<1> QED BY <1>1, BulkInvariant, PTL

-----------------------------------------------------------------------------
(***************************************************************************)
(* Changes made on a device                                                  *)
(***************************************************************************)

(* The inductive invariant                                                   *)

\* Changes that the device does not send any more.
Past == {"done", "COMPLETED", "reclaimed", "purged"}

\* Receipts are what makes a change applied once; those that were deleted are
\* the exception.
ReceiptsInv ==
  \A c \in Changes :
    /\ c \in receipts \cup forgotten <=> applied[c] > 0
    /\ applied[c] > 1 => c \in forgotten

\* A good answer under way has its receipt: none is deleted meanwhile.
AnswersInv ==
  \A s \in Slots :
    /\ slot[s].pc # "free" => slot[s].change \in Changes
    /\ slot[s].pc = "answered" /\ slot[s].answer = "ok" => slot[s].change \in receipts

\* The device was told of the change, or was when it sent a request that is
\* still under way.
Told(c) == Confirmed(c) \/ \E s \in Slots : c \in slot[s].known

\* Such a change was applied and is not sent again, and a request that still
\* carries it will find its receipt.
ToldInv ==
  \A c \in Changes : Told(c) =>
    /\ entry[c].state \in Past
    /\ applied[c] > 0
    /\ \A s \in Slots : slot[s].change = c => c \in receipts

FlushInv == flushing # 0 => entry[flushing].state = "SENDING"

\* A field that still has the value a change of its own gave it has had that
\* value since before every request that knew of the change read the state.
ReadsInv ==
  \A s \in Slots, f \in Fields :
    slot[s].pc = "read" /\ f \notin restored /\ value[f] \in slot[s].known =>
      slot[s].prev[f] = value[f]

OfflineInv ==
  OfflineTypeOK /\ ReceiptsInv /\ AnswersInv /\ ToldInv /\ FlushInv /\ ReadsInv

-----------------------------------------------------------------------------
(* Changes, entries and requests                                             *)

LEMMA OfflineNumbers ==
  /\ MaxChange \in Nat \ {0} /\ MaxRequests \in Nat \ {0} /\ MaxAttempts \in Nat \ {0}
  /\ MaxFaults \in Nat /\ MaxEvents \in Nat
  /\ Changes \subseteq 0 .. MaxChange /\ 0 \notin Changes
BY OfflineAssumption DEF Changes

LEMMA Types ==
  ASSUME OfflineTypeOK
  PROVE  /\ entry \in [Changes -> Entry] /\ \A c \in Changes : entry[c] \in Entry
         /\ slot \in [Slots -> Slot] /\ \A s \in Slots : slot[s] \in Slot
         /\ value \in [Fields -> 0 .. MaxChange] /\ applied \in [Changes -> Nat]
         /\ faults \in 0 .. MaxFaults /\ events \in 0 .. MaxEvents
BY DEF OfflineTypeOK

LEMMA SlotFields ==
  ASSUME NEW x \in Slot
  PROVE  /\ x.change \in 0 .. MaxChange /\ x.known \in SUBSET Changes
         /\ x.prev \in [Fields -> 0 .. MaxChange]
BY DEF Slot

LEMMA Free ==
  /\ FreeSlot \in Slot /\ FreeSlot.pc = "free" /\ FreeSlot.change = 0 /\ FreeSlot.known = {}
  /\ FreeSlot.answer = "none"
BY OfflineNumbers DEF FreeSlot, Slot

LEMMA EntryFields ==
  ASSUME NEW e \in Entry
  PROVE  e.attempts \in 0 .. MaxAttempts /\ e.ready \in BOOLEAN
BY DEF Entry

LEMMA NoEntryFields ==
  /\ NoEntry \in Entry /\ NoEntry.state = "none"
  /\ [NoEntry EXCEPT !.state = "PENDING"] \in Entry
  /\ [NoEntry EXCEPT !.state = "PENDING"].state = "PENDING"
  /\ [NoEntry EXCEPT !.state = "purged"] \in Entry
  /\ [NoEntry EXCEPT !.state = "purged"].state = "purged"
<1>1. 0 \in 0 .. MaxAttempts BY OfflineNumbers
<1>2. NoEntry \in Entry /\ NoEntry.state = "none" BY <1>1 DEF NoEntry, Entry
<1> QED BY <1>1, <1>2 DEF NoEntry, Entry, QueueStates

States == QueueStates \cup {"none", "trying", "done", "refused", "cut off",
                            "COMPLETED", "reclaimed", "discarded", "purged"}

LEMMA StateSet ==
  ASSUME OfflineTypeOK, NEW c \in Changes, NEW state \in States, SetState(c, state)
  PROVE  /\ entry' \in [Changes -> Entry] /\ entry'[c].state = state
         /\ \A d \in Changes \ {c} : entry'[d] = entry[d]
<1>1. PICK e : e = [entry[c] EXCEPT !.state = state, !.ready = FALSE] OBVIOUS
<1>2. entry \in [Changes -> Entry] /\ entry[c] \in Entry BY Types
<1>3. e \in Entry /\ e.state = state BY <1>1, <1>2 DEF Entry, States
<1>4. entry' = [entry EXCEPT ![c] = e] BY <1>1, Zenon DEF SetState
<1> QED BY <1>2, <1>3, <1>4

\* What a step of the device or the server makes of a request: it is free,
\* new, or still the same one.
NewRequest(x) ==
  /\ x.pc = "sent" /\ x.known = {d \in Changes : Confirmed(d)}
  /\ x.change \in Changes /\ entry[x.change].state \notin Past

StillRequest(x, y) ==
  /\ x.change = y.change /\ x.known = y.known /\ (x.pc # "free" => y.pc # "free")
  /\ x.pc = "read" => x.prev = value \/ (y.pc = "read" /\ x.prev = y.prev)
  /\ x.pc = "answered" /\ x.answer = "ok" =>
       x.change \in receipts \/ (y.pc = "answered" /\ y.answer = "ok")

Goes(x, y) == x = FreeSlot \/ NewRequest(x) \/ StillRequest(x, y)

LEMMA Sends ==
  ASSUME OfflineTypeOK, NEW c \in Changes, NEW by \in {"direct", "flush"}, Send(c, by),
         entry[c].state \notin Past
  PROVE  \E s \in Slots, x \in Slot : slot' = [slot EXCEPT ![s] = x] /\ NewRequest(x)
<1>1. PICK s \in Slots :
        slot' = [slot EXCEPT ![s] = [FreeSlot EXCEPT !.pc = "sent", !.change = c, !.by = by,
                                                     !.known = {d \in Changes : Confirmed(d)}]]
  BY DEF Send
<1>2. PICK known \in SUBSET Changes : known = {d \in Changes : Confirmed(d)} OBVIOUS
<1>3. PICK x : x = [FreeSlot EXCEPT !.pc = "sent", !.change = c, !.by = by, !.known = known]
  OBVIOUS
<1>4. x \in Slot /\ x.pc = "sent" /\ x.change = c /\ x.known = known
  BY <1>3, OfflineNumbers, Free DEF Slot
<1>5. slot' = [slot EXCEPT ![s] = x] BY <1>1, <1>2, <1>3, Zenon
<1> QED BY <1>2, <1>4, <1>5 DEF NewRequest

Answers == {"none", "ok", "gone", "refused", "retryable", "unauthorized"}

LEMMA AnswerGoes ==
  ASSUME OfflineTypeOK, NEW s \in Slots, NEW a \in Answers, Answer(s, a)
  PROVE  \E x \in Slot :
           /\ slot' = [slot EXCEPT ![s] = x]
           /\ \/ x = FreeSlot
              \/ /\ x.pc = "answered" /\ x.answer = a
                 /\ x.change = slot[s].change /\ x.known = slot[s].known
<1>1. PICK y : y = [slot[s] EXCEPT !.pc = "answered", !.answer = a] OBVIOUS
<1>2. slot[s] \in Slot /\ slot \in [Slots -> Slot] BY Types
<1>3. /\ y \in Slot /\ y.pc = "answered" /\ y.answer = a
      /\ y.change = slot[s].change /\ y.known = slot[s].known
  BY <1>1, <1>2 DEF Slot, Answers
<1>4. CASE slot[s].by = "nobody"
  <2>1. slot' = [slot EXCEPT ![s] = FreeSlot] BY <1>2, <1>4 DEF Answer
  <2> QED BY <2>1, Free
<1>5. CASE slot[s].by # "nobody"
  <2>1. slot' = [slot EXCEPT ![s] = y] BY <1>1, <1>2, <1>5 DEF Answer
  <2> QED BY <1>3, <2>1
<1> QED BY <1>4, <1>5

LEMMA ReceivedGoes ==
  ASSUME OfflineTypeOK, NEW c \in Changes, NEW by, NEW a, Received(c, by, a)
  PROVE  \E s \in Slots, x \in Slot :
           /\ slot[s].change = c /\ slot' = [slot EXCEPT ![s] = x]
           /\ x = FreeSlot \/ StillRequest(x, slot[s])
           /\ a = "ok" => slot[s].pc = "answered" /\ slot[s].answer = "ok"
<1>1. PICK s \in Slots :
        /\ slot[s].change = c
        /\ \/ slot[s].pc = "answered" /\ slot[s].answer = a /\ slot' = [slot EXCEPT ![s] = FreeSlot]
           \/ /\ a = "retryable"
              /\ slot' = [slot EXCEPT ![s] = IF @.pc = "answered" THEN FreeSlot
                                             ELSE [@ EXCEPT !.by = "nobody"]]
  BY DEF Received
<1>2. slot[s] \in Slot /\ slot \in [Slots -> Slot] BY Types
<1>3. CASE slot[s].pc = "answered" /\ slot[s].answer = a /\ slot' = [slot EXCEPT ![s] = FreeSlot]
  BY <1>1, <1>3, Free
<1>4. CASE /\ a = "retryable"
           /\ slot' = [slot EXCEPT ![s] = IF @.pc = "answered" THEN FreeSlot
                                          ELSE [@ EXCEPT !.by = "nobody"]]
  <2>1. CASE slot[s].pc = "answered"
    <3>1. slot' = [slot EXCEPT ![s] = FreeSlot] BY <1>2, <1>4, <2>1
    <3> QED BY <1>1, <1>4, <3>1, Free
  <2>2. CASE slot[s].pc # "answered"
    <3>1. PICK x : x = [slot[s] EXCEPT !.by = "nobody"] OBVIOUS
    <3>2. x \in Slot /\ StillRequest(x, slot[s]) BY <1>2, <2>2, <3>1 DEF Slot, StillRequest
    <3>3. slot' = [slot EXCEPT ![s] = x] BY <1>2, <1>4, <2>2, <3>1
    <3> QED BY <1>1, <1>4, <3>2, <3>3
  <2> QED BY <2>1, <2>2
<1> QED BY <1>1, <1>3, <1>4

LEMMA Limits ==
  ASSUME OfflineTypeOK
  PROVE  /\ Fault \/ faults' = faults => faults' \in 0 .. MaxFaults
         /\ Event \/ events' = events => events' \in 0 .. MaxEvents
BY Types, OfflineNumbers DEF Fault, Event

\* A step that writes nothing on the server.
LEMMA ServerStays ==
  ASSUME OfflineInv, UNCHANGED <<value, restored, receipts, applied, forgotten>>,
         entry' \in [Changes -> Entry], queue' \in Seq(Changes), signedIn' \in BOOLEAN,
         flushing' \in 0 .. MaxChange, faults' \in 0 .. MaxFaults, events' \in 0 .. MaxEvents,
         slot' \in [Slots -> Slot], \A s \in Slots : Goes(slot'[s], slot[s]),
         \A c \in Changes : entry[c].state \in Past => entry'[c].state \in Past,
         \A c \in Changes : Confirmed(c)' => Confirmed(c) \/ c \in receipts,
         flushing' # 0 => entry'[flushing'].state = "SENDING"
  PROVE  OfflineInv'
<1>1. OfflineTypeOK' BY DEF OfflineInv, OfflineTypeOK
<1>2. ReceiptsInv' BY DEF OfflineInv, ReceiptsInv
<1>3. AnswersInv'
  BY Free DEF OfflineInv, AnswersInv, Goes, NewRequest, StillRequest
<1>4. ToldInv'
  <2>1. SUFFICES ASSUME NEW c \in Changes, Told(c)'
                 PROVE  /\ entry'[c].state \in Past /\ applied[c] > 0
                        /\ \A s \in Slots : slot'[s].change = c => c \in receipts
    BY DEF ToldInv
  <2>2. Told(c) \/ (Confirmed(c)' /\ c \in receipts)
    BY <2>1, Free DEF Told, Goes, NewRequest, StillRequest
  <2>3. CASE Told(c)
    <3>1. /\ entry[c].state \in Past /\ applied[c] > 0
          /\ \A s \in Slots : slot[s].change = c => c \in receipts
      BY <2>3 DEF OfflineInv, ToldInv
    <3>2. ASSUME NEW s \in Slots, slot'[s].change = c PROVE c \in receipts
      BY <3>1, <3>2, Free, OfflineNumbers DEF Goes, NewRequest, StillRequest
    <3> QED BY <3>1, <3>2
  <2>4. CASE Confirmed(c)' /\ c \in receipts
    <3>1. applied[c] > 0 BY <2>4 DEF OfflineInv, ReceiptsInv
    <3>2. entry'[c].state \in Past BY <2>4 DEF Confirmed, Past
    <3> QED BY <2>4, <3>1, <3>2
  <2> QED BY <2>2, <2>3, <2>4
<1>5. FlushInv' BY DEF FlushInv
<1>6. ReadsInv'
  BY Free DEF OfflineInv, ReadsInv, Goes, NewRequest, StillRequest
<1> QED BY <1>1, <1>2, <1>3, <1>4, <1>5, <1>6 DEF OfflineInv

\* A step that changes one request, or none, and no entry.
LEMMA EntriesStay ==
  ASSUME OfflineInv,
         UNCHANGED <<entry, queue, signedIn, flushing, value, restored, receipts, applied, forgotten>>,
         Fault \/ faults' = faults, Event \/ events' = events,
         NEW s \in Slots, NEW x \in Slot, slot' = [slot EXCEPT ![s] = x], Goes(x, slot[s])
  PROVE  OfflineInv'
<1>1. OfflineTypeOK BY DEF OfflineInv
<1>2. faults' \in 0 .. MaxFaults /\ events' \in 0 .. MaxEvents BY <1>1, Limits
<1>3. slot' \in [Slots -> Slot] /\ slot'[s] = x /\ \A r \in Slots \ {s} : slot'[r] = slot[r]
  BY <1>1, Types
<1>4. \A r \in Slots : Goes(slot'[r], slot[r]) BY <1>3 DEF Goes, StillRequest
<1>5. /\ entry' \in [Changes -> Entry] /\ queue' \in Seq(Changes) /\ signedIn' \in BOOLEAN
      /\ flushing' \in 0 .. MaxChange
  BY <1>1 DEF OfflineTypeOK
<1>6. flushing' # 0 => entry'[flushing'].state = "SENDING" BY DEF OfflineInv, FlushInv
<1>7. \A c \in Changes : Confirmed(c)' => Confirmed(c) BY DEF Confirmed
<1> QED BY <1>2, <1>3, <1>4, <1>5, <1>6, <1>7, ServerStays

-----------------------------------------------------------------------------
(* The server                                                                *)

LEMMA ServeReadKeeps ==
  ASSUME OfflineInv, NEW s \in Slots, ServeRead(s)
  PROVE  OfflineInv'
<1>1. /\ OfflineTypeOK /\ slot[s].pc = "sent" /\ slot[s] \in Slot /\ slot \in [Slots -> Slot]
      /\ UNCHANGED <<entry, queue, signedIn, flushing, value, restored, receipts, applied, forgotten, events>>
      /\ (Fault \/ faults' = faults)
  BY Types DEF OfflineInv, ServeRead
<1>2. ASSUME NEW a \in {"ok", "gone"}, Answer(s, a), a = "ok" => slot[s].change \in receipts
      PROVE  OfflineInv'
  <2>1. PICK x \in Slot :
          /\ slot' = [slot EXCEPT ![s] = x]
          /\ \/ x = FreeSlot
             \/ /\ x.pc = "answered" /\ x.answer = a
                /\ x.change = slot[s].change /\ x.known = slot[s].known
    BY <1>1, <1>2, AnswerGoes DEF Answers
  <2>2. Goes(x, slot[s]) BY <1>1, <1>2, <2>1 DEF Goes, StillRequest
  <2> QED BY <1>1, <2>1, <2>2, EntriesStay
<1>3. CASE slot' = [slot EXCEPT ![s] = [@ EXCEPT !.pc = "read", !.prev = value]]
  <2>1. PICK x : x = [slot[s] EXCEPT !.pc = "read", !.prev = value] OBVIOUS
  <2>2. value \in [Fields -> 0 .. MaxChange] BY <1>1, Types
  <2>3. x \in Slot /\ StillRequest(x, slot[s]) BY <1>1, <2>1, <2>2 DEF Slot, StillRequest
  <2>4. slot' = [slot EXCEPT ![s] = x] BY <1>1, <1>3, <2>1
  <2> QED BY <1>1, <2>3, <2>4, EntriesStay DEF Goes
<1> QED BY <1>2, <1>3 DEF ServeRead

LEMMA ServeFailsKeeps ==
  ASSUME OfflineInv, NEW s \in Slots, ServeFails(s)
  PROVE  OfflineInv'
<1>1. /\ OfflineTypeOK
      /\ UNCHANGED <<entry, queue, signedIn, flushing, value, restored, receipts, applied, forgotten, events>>
      /\ Fault
  BY DEF OfflineInv, ServeFails
<1>2. slot[s].pc \in {"sent", "read"} BY DEF ServeFails
<1>3. PICK a \in {"refused", "retryable", "unauthorized"} : Answer(s, a) BY DEF ServeFails
<1>4. PICK x \in Slot :
        /\ slot' = [slot EXCEPT ![s] = x]
        /\ \/ x = FreeSlot
           \/ /\ x.pc = "answered" /\ x.answer = a
              /\ x.change = slot[s].change /\ x.known = slot[s].known
  BY <1>1, <1>3, AnswerGoes DEF Answers
<1>5. Goes(x, slot[s]) BY <1>2, <1>3, <1>4 DEF Goes, StillRequest
<1> QED BY <1>1, <1>4, <1>5, EntriesStay

\* No request is under way when receipts are deleted.
LEMMA PruneReceiptKeeps ==
  ASSUME OfflineInv, NEW c \in Changes, PruneReceipt(c)
  PROVE  OfflineInv'
<1>1. /\ OfflineTypeOK /\ c \in receipts /\ Event /\ \A s \in Slots : slot[s] = FreeSlot
      /\ receipts' = receipts \ {c} /\ forgotten' = forgotten \cup {c}
      /\ UNCHANGED <<entry, queue, signedIn, flushing, slot, value, restored, applied, faults>>
  BY DEF OfflineInv, PruneReceipt
<1>2. events' \in 0 .. MaxEvents BY <1>1, Limits
<1>3. OfflineTypeOK' BY <1>1, <1>2 DEF OfflineTypeOK
<1>4. ReceiptsInv' BY <1>1 DEF OfflineInv, ReceiptsInv
<1>5. AnswersInv' BY <1>1, Free DEF AnswersInv
<1>6. ToldInv'
  BY <1>1, Free, OfflineNumbers DEF OfflineInv, ToldInv, Told, Confirmed
<1>7. FlushInv' BY <1>1 DEF OfflineInv, FlushInv
<1>8. ReadsInv' BY <1>1, Free DEF ReadsInv
<1> QED BY <1>3, <1>4, <1>5, <1>6, <1>7, <1>8 DEF OfflineInv

LEMMA ServeWriteKeeps ==
  ASSUME OfflineInv, NEW s \in Slots, ServeWrite(s)
  PROVE  OfflineInv'
<1>1. /\ OfflineTypeOK /\ slot[s].pc = "read" /\ Answer(s, "ok")
      /\ UNCHANGED <<entry, queue, signedIn, flushing, forgotten, faults, events>>
  BY DEF OfflineInv, ServeWrite
<1>2. PICK c \in Changes : c = slot[s].change BY <1>1 DEF OfflineInv, AnswersInv
<1>3. PICK x \in Slot :
        /\ slot' = [slot EXCEPT ![s] = x]
        /\ \/ x = FreeSlot
           \/ /\ x.pc = "answered" /\ x.answer = "ok" /\ x.change = c /\ x.known = slot[s].known
  BY <1>1, <1>2, AnswerGoes DEF Answers
<1>4. CASE c \in receipts
  <2>1. UNCHANGED <<value, restored, receipts, applied>> BY <1>2, <1>4 DEF ServeWrite
  <2>2. Goes(x, slot[s]) BY <1>1, <1>2, <1>3, <1>4 DEF Goes, StillRequest
  <2> QED BY <1>1, <1>3, <2>1, <2>2, EntriesStay
<1>5. CASE c \notin receipts
  <2>1. /\ receipts' = receipts \cup {c} /\ applied' = [applied EXCEPT ![c] = @ + 1]
        /\ WriteState(s)
    BY <1>2, <1>5 DEF ServeWrite
  <2>2. /\ slot' \in [Slots -> Slot] /\ slot'[s] = x /\ \A r \in Slots \ {s} : slot'[r] = slot[r]
        /\ slot[s] \in Slot
    BY <1>1, <1>3, Types
  <2>3. slot[s].prev \in [Fields -> 0 .. MaxChange] /\ c \in 0 .. MaxChange
    BY <2>2, SlotFields, OfflineNumbers
  <2>4. /\ value' = [g \in Fields |-> IF g \in Written(c) THEN c ELSE slot[s].prev[g]]
        /\ restored' = (restored \cup {g \in Fields : value'[g] # value[g]}) \ Written(c)
    BY <1>2, <2>1 DEF WriteState
  <2>5. /\ applied' \in [Changes -> Nat] /\ applied'[c] = applied[c] + 1 /\ applied[c] \in Nat
        /\ \A d \in Changes \ {c} : applied'[d] = applied[d]
    BY <1>1, <2>1, Types
  <2>6. OfflineTypeOK' BY <1>1, <2>1, <2>2, <2>3, <2>4, <2>5 DEF OfflineTypeOK
  <2>7. ReceiptsInv' BY <1>1, <1>5, <2>1, <2>5 DEF OfflineInv, ReceiptsInv
  <2>8. AnswersInv' BY <1>3, <2>1, <2>2, Free DEF OfflineInv, AnswersInv
  <2>9. ASSUME NEW d \in Changes, Told(d)'
        PROVE  Told(d) /\ \A r \in Slots : slot'[r].change = d => slot[r].change = d
    <3>1. \A r \in Slots : slot'[r].known \subseteq slot[r].known
      BY <1>3, <2>2, Free
    <3>2. \A r \in Slots : slot'[r].change \in {0, slot[r].change}
      BY <1>2, <1>3, <2>2, Free
    <3> QED BY <1>1, <2>9, <3>1, <3>2, OfflineNumbers DEF Told, Confirmed
  <2>10. ToldInv'
    <3>1. SUFFICES ASSUME NEW d \in Changes, Told(d)'
                   PROVE  /\ entry[d].state \in Past /\ applied'[d] > 0
                          /\ \A r \in Slots : slot'[r].change = d => d \in receipts'
      BY <1>1 DEF ToldInv
    <3>2. /\ entry[d].state \in Past /\ applied[d] > 0
          /\ \A r \in Slots : slot[r].change = d => d \in receipts
      BY <2>9, <3>1 DEF OfflineInv, ToldInv
    <3>3. applied'[d] > 0 BY <2>5, <3>2
    <3> QED BY <2>1, <2>9, <3>1, <3>2, <3>3
  <2>11. FlushInv' BY <1>1 DEF OfflineInv, FlushInv
  <2>12. ReadsInv'
    <3>1. SUFFICES ASSUME NEW r \in Slots, NEW f \in Fields, slot'[r].pc = "read",
                          f \notin restored', value'[f] \in slot'[r].known
                   PROVE  slot'[r].prev[f] = value'[f]
      BY DEF ReadsInv
    <3>2. r # s /\ slot'[r] = slot[r] BY <1>3, <2>2, <3>1, Free
    <3>3. f \notin Written(c)
      <4>1. SUFFICES ASSUME f \in Written(c) PROVE FALSE OBVIOUS
      <4>2. c \in slot[r].known BY <2>3, <2>4, <3>1, <3>2, <4>1
      <4>3. Told(c) BY <4>2 DEF Told
      <4> QED BY <1>2, <1>5, <4>3 DEF OfflineInv, ToldInv
    <3>4. value'[f] = value[f] /\ f \notin restored BY <2>4, <3>1, <3>3
    <3> QED BY <3>1, <3>2, <3>4 DEF OfflineInv, ReadsInv
  <2> QED BY <2>6, <2>7, <2>8, <2>10, <2>11, <2>12 DEF OfflineInv
<1> QED BY <1>4, <1>5

-----------------------------------------------------------------------------
(* The device                                                                *)

LEMMA SubmitKeeps ==
  ASSUME OfflineInv, NEW c \in Changes, Submit(c)
  PROVE  OfflineInv'
<1>1. /\ OfflineTypeOK /\ entry[c].state = "none" /\ SetState(c, "trying") /\ Send(c, "direct")
      /\ UNCHANGED <<queue, signedIn, flushing, value, restored, receipts, applied, forgotten, faults, events>>
  BY NoEntryFields DEF OfflineInv, Submit
<1>2. /\ entry' \in [Changes -> Entry] /\ entry'[c].state = "trying"
      /\ \A d \in Changes \ {c} : entry'[d] = entry[d]
  BY <1>1, StateSet DEF States
<1>3. PICK s \in Slots, x \in Slot : slot' = [slot EXCEPT ![s] = x] /\ NewRequest(x)
  BY <1>1, Sends DEF Past
<1>4. slot' \in [Slots -> Slot] /\ \A r \in Slots : Goes(slot'[r], slot[r])
  BY <1>1, <1>3, Types DEF Goes, StillRequest
<1>5. /\ faults' \in 0 .. MaxFaults /\ events' \in 0 .. MaxEvents /\ queue' \in Seq(Changes)
      /\ signedIn' \in BOOLEAN /\ flushing' \in 0 .. MaxChange
  BY <1>1 DEF OfflineTypeOK
<1>6. \A d \in Changes : /\ entry[d].state \in Past => entry'[d].state \in Past
                         /\ Confirmed(d)' => Confirmed(d)
  BY <1>1, <1>2 DEF Past, Confirmed
<1>7. flushing' # 0 => entry'[flushing'].state = "SENDING"
  BY <1>1, <1>2, OfflineNumbers DEF OfflineInv, FlushInv, OfflineTypeOK, Changes
<1> QED BY <1>1, <1>2, <1>4, <1>5, <1>6, <1>7, ServerStays
\* The answer to a request is taken or given up.
LEMMA ReceivedKeepsSlots ==
  ASSUME OfflineInv, NEW c \in Changes, NEW by, NEW a, Received(c, by, a)
  PROVE  /\ slot' \in [Slots -> Slot] /\ \A r \in Slots : Goes(slot'[r], slot[r])
         /\ faults' \in 0 .. MaxFaults
         /\ a = "ok" => c \in receipts
<1>1. OfflineTypeOK BY DEF OfflineInv
<1>2. PICK s \in Slots, x \in Slot :
        /\ slot[s].change = c /\ slot' = [slot EXCEPT ![s] = x]
        /\ x = FreeSlot \/ StillRequest(x, slot[s])
        /\ a = "ok" => slot[s].pc = "answered" /\ slot[s].answer = "ok"
  BY <1>1, ReceivedGoes
<1>3. slot' \in [Slots -> Slot] /\ \A r \in Slots : Goes(slot'[r], slot[r])
  BY <1>1, <1>2, Types DEF Goes, StillRequest
<1>4. Fault \/ faults' = faults BY DEF Received
<1>5. faults' \in 0 .. MaxFaults BY <1>1, <1>4, Limits
<1>6. a = "ok" => c \in receipts BY <1>2 DEF OfflineInv, AnswersInv
<1> QED BY <1>3, <1>5, <1>6

LEMMA EnqueueKeeps ==
  ASSUME OfflineTypeOK, NEW c \in Changes, entry[c].state = "trying", Enqueue(c)
  PROVE  /\ entry' \in [Changes -> Entry] /\ queue' \in Seq(Changes)
         /\ \A d \in Changes : /\ entry[d].state \in Past => entry'[d].state \in Past
                               /\ Confirmed(d)' => Confirmed(d)
         /\ \A d \in Changes : entry[d].state = "SENDING" => entry'[d] = entry[d]
<1>1. entry \in [Changes -> Entry] /\ queue \in Seq(Changes) BY Types DEF OfflineTypeOK
<1>2. CASE SetState(c, "refused") /\ UNCHANGED queue
  <2>1. /\ entry' \in [Changes -> Entry] /\ entry'[c].state = "refused"
        /\ \A d \in Changes \ {c} : entry'[d] = entry[d]
    BY <1>2, StateSet DEF States
  <2> QED BY <1>1, <1>2, <2>1 DEF Past, Confirmed
<1>3. CASE /\ queue' = Append(queue, c)
           /\ entry' = [d \in Changes |->
                          IF d = c THEN [NoEntry EXCEPT !.state = "PENDING"]
                          ELSE IF d \in Reclaimed THEN [entry[d] EXCEPT !.state = "reclaimed"]
                          ELSE entry[d]]
  <2>1. /\ entry'[c] \in Entry /\ entry'[c].state = "PENDING"
    BY <1>3, NoEntryFields
  <2>2. ASSUME NEW d \in Changes \ {c}, entry[d].state = "COMPLETED"
        PROVE  entry'[d] \in Entry /\ entry'[d].state = "reclaimed"
    <3>1. entry'[d] = [entry[d] EXCEPT !.state = "reclaimed"] BY <1>3, <2>2 DEF Reclaimed
    <3> QED BY <1>1, <3>1 DEF Entry
  <2>3. ASSUME NEW d \in Changes \ {c}, entry[d].state # "COMPLETED"
        PROVE  entry'[d] = entry[d]
    BY <1>3, <2>3 DEF Reclaimed
  <2>4. entry' \in [Changes -> Entry]
    <3>1. \A d \in Changes : entry'[d] \in Entry BY <1>1, <2>1, <2>2, <2>3
    <3>2. entry' = [d \in Changes |-> entry'[d]] BY <1>3
    <3> QED BY <3>1, <3>2
  <2>5. queue' \in Seq(Changes) BY <1>1, <1>3
  <2> QED BY <2>1, <2>2, <2>3, <2>4, <2>5 DEF Past, Confirmed
<1> QED BY <1>2, <1>3 DEF Enqueue

LEMMA SubmittedKeeps ==
  ASSUME OfflineInv, NEW c \in Changes, Submitted(c)
  PROVE  OfflineInv'
<1>1. /\ OfflineTypeOK /\ entry[c].state = "trying"
      /\ UNCHANGED <<signedIn, flushing, value, restored, receipts, applied, forgotten, events>>
  BY DEF OfflineInv, Submitted
<1>2. /\ slot' \in [Slots -> Slot] /\ \A r \in Slots : Goes(slot'[r], slot[r])
      /\ faults' \in 0 .. MaxFaults
  <2>1. PICK a \in Answers : Received(c, "direct", a) BY DEF Submitted, Answers
  <2> QED BY <2>1, ReceivedKeepsSlots
<1>3. /\ entry' \in [Changes -> Entry] /\ queue' \in Seq(Changes)
      /\ \A d \in Changes : /\ entry[d].state \in Past => entry'[d].state \in Past
                            /\ Confirmed(d)' => Confirmed(d) \/ d \in receipts
      /\ \A d \in Changes : entry[d].state = "SENDING" => entry'[d] = entry[d]
  <2>1. CASE Received(c, "direct", "ok") /\ SetState(c, "done") /\ UNCHANGED queue
    <3>1. c \in receipts BY <2>1, ReceivedKeepsSlots
    <3>2. /\ entry' \in [Changes -> Entry] /\ entry'[c].state = "done"
          /\ \A d \in Changes \ {c} : entry'[d] = entry[d]
      BY <1>1, <2>1, StateSet DEF States
    <3> QED BY <1>1, <2>1, <3>1, <3>2 DEF OfflineTypeOK, Past, Confirmed
  <2>2. CASE Received(c, "direct", "retryable") /\ Enqueue(c)
    BY <1>1, <2>2, EnqueueKeeps
  <2>3. CASE SetState(c, "refused") /\ UNCHANGED queue
    <3>1. /\ entry' \in [Changes -> Entry] /\ entry'[c].state = "refused"
          /\ \A d \in Changes \ {c} : entry'[d] = entry[d]
      BY <1>1, <2>3, StateSet DEF States
    <3> QED BY <1>1, <2>3, <3>1 DEF OfflineTypeOK, Past, Confirmed
  <2> QED BY <2>1, <2>2, <2>3 DEF Submitted
<1>4. signedIn' \in BOOLEAN /\ flushing' \in 0 .. MaxChange /\ events' \in 0 .. MaxEvents
  BY <1>1 DEF OfflineTypeOK
<1>5. flushing' # 0 => entry'[flushing'].state = "SENDING"
  BY <1>1, <1>3 DEF OfflineInv, FlushInv, OfflineTypeOK, Changes
<1> QED BY <1>1, <1>2, <1>3, <1>4, <1>5, ServerStays

\* The user's retry or discard, and time passing: one entry changes.
LEMMA EntryMoves ==
  ASSUME OfflineInv, NEW c \in Changes, NEW e \in Entry, entry' = [entry EXCEPT ![c] = e],
         UNCHANGED <<queue, signedIn, flushing, slot, value, restored, receipts, applied, forgotten, faults>>,
         Event \/ events' = events,
         entry[c].state \notin Past, e.state \notin {"done", "COMPLETED", "reclaimed"},
         entry[c].state = "SENDING" => e.state = "SENDING"
  PROVE  OfflineInv'
<1>1. OfflineTypeOK BY DEF OfflineInv
<1>2. /\ entry' \in [Changes -> Entry] /\ entry'[c] = e
      /\ \A d \in Changes \ {c} : entry'[d] = entry[d]
  BY <1>1, Types
<1>3. /\ queue' \in Seq(Changes) /\ signedIn' \in BOOLEAN /\ flushing' \in 0 .. MaxChange
      /\ slot' \in [Slots -> Slot] /\ faults' \in 0 .. MaxFaults
  BY <1>1 DEF OfflineTypeOK
<1>4. events' \in 0 .. MaxEvents BY <1>1, Limits
<1>5. \A r \in Slots : Goes(slot'[r], slot[r]) BY DEF Goes, StillRequest
<1>6. \A d \in Changes : /\ entry[d].state \in Past => entry'[d].state \in Past
                         /\ Confirmed(d)' => Confirmed(d)
  BY <1>2 DEF Past, Confirmed
<1>7. flushing' # 0 => entry'[flushing'].state = "SENDING"
  BY <1>1, <1>2 DEF OfflineInv, FlushInv, OfflineTypeOK, Changes
<1> QED BY <1>2, <1>3, <1>4, <1>5, <1>6, <1>7, ServerStays

LEMMA RetryKeeps ==
  ASSUME OfflineInv, NEW c \in Changes, Retry(c) \/ Discard(c)
  PROVE  OfflineInv'
<1>1. PICK state \in {"PENDING", "discarded"} : SetState(c, state) BY DEF Retry, Discard
<1>2. PICK e : e = [entry[c] EXCEPT !.state = state, !.ready = FALSE] OBVIOUS
<1>3. entry' = [entry EXCEPT ![c] = e] BY <1>1, <1>2, Zenon DEF SetState
<1>4. entry[c] \in Entry BY Types DEF OfflineInv
<1>5. e \in Entry /\ e.state = state BY <1>2, <1>4 DEF Entry, QueueStates
<1>6. /\ entry[c].state \in {"CONFLICT", "PERMANENT_FAILURE"} /\ Event
      /\ UNCHANGED <<queue, signedIn, flushing, slot, value, restored, receipts, applied, forgotten, faults>>
  BY DEF Retry, Discard
<1> QED BY <1>3, <1>5, <1>6, EntryMoves DEF Past

LEMMA WaitKeeps ==
  ASSUME OfflineInv, NEW c \in Changes, Wait(c)
  PROVE  OfflineInv'
<1>1. PICK e : e = [entry[c] EXCEPT !.ready = TRUE] OBVIOUS
<1>2. entry[c] \in Entry /\ entry \in [Changes -> Entry] BY Types DEF OfflineInv
<1>3. entry' = [entry EXCEPT ![c] = e] BY <1>1, <1>2 DEF Wait
<1>4. e \in Entry /\ e.state = entry[c].state BY <1>1, <1>2 DEF Entry
<1>5. /\ entry[c].state \in {"SENDING", "RETRYABLE_FAILURE"}
      /\ UNCHANGED <<queue, signedIn, flushing, slot, value, restored, receipts, applied, forgotten, faults, events>>
  BY DEF Wait
<1> QED BY <1>3, <1>4, <1>5, EntryMoves DEF Past
\* Sends whose lease ran out are retried later.
RecoveredEntries ==
  [c \in Changes |-> IF Recoverable(c) THEN [entry[c] EXCEPT !.state = "RETRYABLE_FAILURE", !.ready = FALSE]
                     ELSE entry[c]]

LEMMA Recovers ==
  ASSUME OfflineTypeOK, NEW recovered, recovered = RecoveredEntries
  PROVE  /\ recovered \in [Changes -> Entry]
         /\ \A d \in Changes : \/ recovered[d] = entry[d]
                               \/ entry[d].state = "SENDING" /\ recovered[d].state = "RETRYABLE_FAILURE"
<1>1. entry \in [Changes -> Entry] BY Types
<1>2. ASSUME NEW d \in Changes, Recoverable(d)
      PROVE  recovered[d] \in Entry /\ recovered[d].state = "RETRYABLE_FAILURE" /\ entry[d].state = "SENDING"
  <2>1. recovered[d] = [entry[d] EXCEPT !.state = "RETRYABLE_FAILURE", !.ready = FALSE]
    BY <1>2 DEF RecoveredEntries
  <2> QED BY <1>1, <1>2, <2>1 DEF Entry, QueueStates, Recoverable
<1>3. ASSUME NEW d \in Changes, ~Recoverable(d) PROVE recovered[d] = entry[d]
  BY <1>3 DEF RecoveredEntries
<1>4. recovered \in [Changes -> Entry]
  <2>1. \A d \in Changes : recovered[d] \in Entry BY <1>1, <1>2, <1>3
  <2>2. recovered = [d \in Changes |-> recovered[d]] BY DEF RecoveredEntries
  <2> QED BY <2>1, <2>2
<1> QED BY <1>2, <1>3, <1>4

LEMMA FlushNextKeeps ==
  ASSUME OfflineInv, FlushNext
  PROVE  OfflineInv'
<1>1. PICK recovered : recovered = RecoveredEntries OBVIOUS
<1>2. /\ OfflineTypeOK /\ flushing = 0
      /\ UNCHANGED <<queue, signedIn, value, restored, receipts, applied, forgotten, faults, events>>
  BY DEF OfflineInv, FlushNext
<1>3. /\ recovered \in [Changes -> Entry]
      /\ \A d \in Changes : \/ recovered[d] = entry[d]
                            \/ entry[d].state = "SENDING" /\ recovered[d].state = "RETRYABLE_FAILURE"
  BY <1>1, <1>2, Recovers
<1>4. /\ queue' \in Seq(Changes) /\ signedIn' \in BOOLEAN /\ faults' \in 0 .. MaxFaults
      /\ events' \in 0 .. MaxEvents
  BY <1>2 DEF OfflineTypeOK
<1>5. CASE entry' = recovered /\ UNCHANGED <<flushing, slot>>
  <2>1. /\ entry' \in [Changes -> Entry] /\ flushing' \in 0 .. MaxChange /\ slot' \in [Slots -> Slot]
    BY <1>2, <1>3, <1>5 DEF OfflineTypeOK
  <2>2. \A r \in Slots : Goes(slot'[r], slot[r]) BY <1>5 DEF Goes, StillRequest
  <2>3. \A d \in Changes : /\ entry[d].state \in Past => entry'[d].state \in Past
                           /\ Confirmed(d)' => Confirmed(d)
    BY <1>3, <1>5 DEF Past, Confirmed
  <2>4. flushing' = 0 BY <1>2, <1>5
  <2> QED BY <1>2, <1>4, <2>1, <2>2, <2>3, <2>4, ServerStays
<1>6. ASSUME NEW next \in Changes, Replayable(next),
             \/ /\ entry' = [recovered EXCEPT ![next] =
                               [entry[next] EXCEPT !.state = "PERMANENT_FAILURE", !.ready = FALSE]]
                /\ UNCHANGED <<flushing, slot>>
             \/ /\ entry[next].attempts < MaxAttempts
                /\ entry' = [recovered EXCEPT ![next] =
                               [entry[next] EXCEPT !.state = "SENDING", !.ready = FALSE,
                                                   !.attempts = entry[next].attempts + 1]]
                /\ flushing' = next
                /\ Send(next, "flush")
      PROVE  OfflineInv'
  <2>1. entry[next].state \in {"PENDING", "RETRYABLE_FAILURE"} /\ entry[next] \in Entry
    BY <1>2, <1>6, Types DEF Replayable
  <2>2. CASE /\ entry' = [recovered EXCEPT ![next] =
                            [entry[next] EXCEPT !.state = "PERMANENT_FAILURE", !.ready = FALSE]]
             /\ UNCHANGED <<flushing, slot>>
    <3>1. PICK e : e = [entry[next] EXCEPT !.state = "PERMANENT_FAILURE", !.ready = FALSE] OBVIOUS
    <3>2. e \in Entry /\ e.state = "PERMANENT_FAILURE" BY <2>1, <3>1 DEF Entry, QueueStates
    <3>3. entry' = [recovered EXCEPT ![next] = e] BY <2>2, <3>1, Zenon
    <3>4. /\ entry' \in [Changes -> Entry] /\ entry'[next] = e
          /\ \A d \in Changes \ {next} : entry'[d] = recovered[d]
      BY <1>3, <3>2, <3>3
    <3>5. flushing' \in 0 .. MaxChange /\ slot' \in [Slots -> Slot] /\ flushing' = 0
      BY <1>2, <2>2 DEF OfflineTypeOK
    <3>6. \A r \in Slots : Goes(slot'[r], slot[r]) BY <2>2 DEF Goes, StillRequest
    <3>7. \A d \in Changes : /\ entry[d].state \in Past => entry'[d].state \in Past
                             /\ Confirmed(d)' => Confirmed(d)
      BY <1>3, <2>1, <3>2, <3>4 DEF Past, Confirmed
    <3> QED BY <1>2, <1>4, <3>4, <3>5, <3>6, <3>7, ServerStays
  <2>3. CASE /\ entry[next].attempts < MaxAttempts
             /\ entry' = [recovered EXCEPT ![next] =
                            [entry[next] EXCEPT !.state = "SENDING", !.ready = FALSE,
                                                !.attempts = entry[next].attempts + 1]]
             /\ flushing' = next
             /\ Send(next, "flush")
    <3>1. PICK e : e = [entry[next] EXCEPT !.state = "SENDING", !.ready = FALSE,
                                           !.attempts = entry[next].attempts + 1]
      OBVIOUS
    <3>2. entry[next].attempts + 1 \in 0 .. MaxAttempts BY <2>1, <2>3, EntryFields, OfflineNumbers
    <3>3. e \in Entry /\ e.state = "SENDING" BY <2>1, <3>1, <3>2 DEF Entry, QueueStates
    <3>4. entry' = [recovered EXCEPT ![next] = e] BY <2>3, <3>1, Zenon
    <3>5. /\ entry' \in [Changes -> Entry] /\ entry'[next] = e
          /\ \A d \in Changes \ {next} : entry'[d] = recovered[d]
      BY <1>3, <3>3, <3>4
    <3>6. PICK s \in Slots, x \in Slot : slot' = [slot EXCEPT ![s] = x] /\ NewRequest(x)
      BY <1>2, <2>1, <2>3, Sends DEF Past
    <3>7. slot' \in [Slots -> Slot] /\ \A r \in Slots : Goes(slot'[r], slot[r])
      BY <1>2, <3>6, Types DEF Goes, StillRequest
    <3>8. flushing' \in 0 .. MaxChange /\ entry'[flushing'].state = "SENDING"
      BY <2>3, <3>3, <3>5, OfflineNumbers
    <3>9. \A d \in Changes : /\ entry[d].state \in Past => entry'[d].state \in Past
                             /\ Confirmed(d)' => Confirmed(d)
      BY <1>3, <2>1, <3>3, <3>5 DEF Past, Confirmed
    <3> QED BY <1>2, <1>4, <3>5, <3>7, <3>8, <3>9, ServerStays
  <2> QED BY <1>6, <2>2, <2>3
<1>7. ASSUME NEW i \in DOMAIN queue PROVE queue[i] \in Changes BY <1>2, <1>7 DEF OfflineTypeOK
<1> QED BY <1>1, <1>5, <1>6, <1>7, Zenon DEF FlushNext, RecoveredEntries

\* The change that is being replayed gets its answer: one entry changes, and it
\* becomes confirmed only with a receipt.
LEMMA ReplayEnds ==
  ASSUME OfflineInv, flushing # 0, flushing' = 0, NEW state \in States, SetState(flushing, state),
         UNCHANGED <<queue, signedIn, value, restored, receipts, applied, forgotten, events>>,
         slot' \in [Slots -> Slot], \A r \in Slots : Goes(slot'[r], slot[r]),
         faults' \in 0 .. MaxFaults,
         state \in {"done", "COMPLETED", "reclaimed"} => flushing \in receipts
  PROVE  OfflineInv'
<1>1. OfflineTypeOK /\ flushing \in Changes BY DEF OfflineInv, OfflineTypeOK, Changes
<1>2. entry[flushing].state = "SENDING" BY DEF OfflineInv, FlushInv
<1>3. /\ entry' \in [Changes -> Entry] /\ entry'[flushing].state = state
      /\ \A d \in Changes \ {flushing} : entry'[d] = entry[d]
  BY <1>1, StateSet
<1>4. /\ queue' \in Seq(Changes) /\ signedIn' \in BOOLEAN /\ events' \in 0 .. MaxEvents
      /\ flushing' \in 0 .. MaxChange
  BY <1>1, OfflineNumbers DEF OfflineTypeOK
<1>5. \A d \in Changes : /\ entry[d].state \in Past => entry'[d].state \in Past
                         /\ Confirmed(d)' => Confirmed(d) \/ d \in receipts
  BY <1>2, <1>3 DEF Past, Confirmed
<1> QED BY <1>3, <1>4, <1>5, ServerStays

LEMMA FlushAnswerKeeps ==
  ASSUME OfflineInv, FlushAnswer
  PROVE  OfflineInv'
<1>1. flushing \in Changes BY DEF OfflineInv, OfflineTypeOK, Changes, FlushAnswer
<1>2. /\ flushing # 0 /\ flushing' = 0
      /\ UNCHANGED <<queue, signedIn, value, restored, receipts, applied, forgotten, events>>
  BY DEF FlushAnswer
<1>3. ASSUME NEW a, NEW state \in States, Received(flushing, "flush", a), SetState(flushing, state),
             state \in {"done", "COMPLETED", "reclaimed"} => a = "ok"
      PROVE  OfflineInv'
  <2>1. /\ slot' \in [Slots -> Slot] /\ \A r \in Slots : Goes(slot'[r], slot[r])
        /\ faults' \in 0 .. MaxFaults
        /\ a = "ok" => flushing \in receipts
    BY <1>1, <1>3, ReceivedKeepsSlots
  <2> QED BY <1>2, <1>3, <2>1, ReplayEnds
<1>4. CASE Received(flushing, "flush", "ok") /\ SetState(flushing, "COMPLETED")
  <2>1. "COMPLETED" \in States BY DEF States
  <2> QED BY <1>3, <1>4, <2>1
<1>5. CASE Received(flushing, "flush", "retryable") /\ SetState(flushing, "RETRYABLE_FAILURE")
  <2>1. "RETRYABLE_FAILURE" \in States BY DEF States, QueueStates
  <2> QED BY <1>3, <1>5, <2>1
<1>6. CASE Received(flushing, "flush", "gone") /\ SetState(flushing, "CONFLICT")
  <2>1. "CONFLICT" \in States BY DEF States, QueueStates
  <2> QED BY <1>3, <1>6, <2>1
<1>7. CASE Received(flushing, "flush", "refused") /\ SetState(flushing, "PERMANENT_FAILURE")
  <2>1. "PERMANENT_FAILURE" \in States BY DEF States, QueueStates
  <2> QED BY <1>3, <1>7, <2>1
<1> QED BY <1>4, <1>5, <1>6, <1>7 DEF FlushAnswer

LEMMA CompletionFailsKeeps ==
  ASSUME OfflineInv, CompletionFails
  PROVE  OfflineInv'
<1>1. OfflineTypeOK BY DEF OfflineInv
<1>2. PICK s \in Slots : slot' = [slot EXCEPT ![s] = FreeSlot] BY DEF CompletionFails
<1>3. slot' \in [Slots -> Slot] /\ \A r \in Slots : Goes(slot'[r], slot[r])
  BY <1>1, <1>2, Types, Free DEF Goes, StillRequest
<1>4. faults' \in 0 .. MaxFaults BY <1>1, Limits DEF CompletionFails
<1>5. /\ flushing # 0 /\ flushing' = 0 /\ SetState(flushing, "PERMANENT_FAILURE")
      /\ UNCHANGED <<queue, signedIn, value, restored, receipts, applied, forgotten, events>>
  BY DEF CompletionFails
<1> QED BY <1>3, <1>4, <1>5, ReplayEnds DEF States, QueueStates

LEMMA UnauthorizedKeeps ==
  ASSUME OfflineInv, Unauthorized
  PROVE  OfflineInv'
<1>1. /\ OfflineTypeOK /\ flushing \in Changes
      /\ Received(flushing, "flush", "unauthorized") /\ flushing' = 0
      /\ signedIn' = FALSE /\ queue' = <<>>
      /\ UNCHANGED <<value, restored, receipts, applied, forgotten, events>>
  BY DEF OfflineInv, OfflineTypeOK, Changes, Unauthorized
<1>2. /\ slot' \in [Slots -> Slot] /\ \A r \in Slots : Goes(slot'[r], slot[r])
      /\ faults' \in 0 .. MaxFaults
  BY <1>1, ReceivedKeepsSlots
<1>3. entry' = [c \in Changes |-> IF InQueue(c) \/ entry[c].state = "COMPLETED"
                                  THEN [NoEntry EXCEPT !.state = "purged"] ELSE entry[c]]
  BY DEF Unauthorized
<1>4. \A d \in Changes : entry'[d] \in Entry /\ (entry'[d] = entry[d] \/ entry'[d].state = "purged")
  BY <1>1, <1>3, NoEntryFields, Types
<1>5. entry' \in [Changes -> Entry]
  <2>1. entry' = [d \in Changes |-> entry'[d]] BY <1>3
  <2> QED BY <1>4, <2>1
<1>6. /\ queue' \in Seq(Changes) /\ signedIn' \in BOOLEAN /\ flushing' \in 0 .. MaxChange
      /\ events' \in 0 .. MaxEvents
  <2>1. queue' \in Seq(Changes) BY <1>1
  <2>2. events' \in 0 .. MaxEvents BY <1>1 DEF OfflineTypeOK
  <2>3. signedIn' \in BOOLEAN BY <1>1, Zenon
  <2>4. flushing' \in 0 .. MaxChange BY <1>1, OfflineNumbers
  <2> QED BY <2>1, <2>2, <2>3, <2>4
<1>7. \A d \in Changes : /\ entry[d].state \in Past => entry'[d].state \in Past
                         /\ Confirmed(d)' => Confirmed(d)
  BY <1>4 DEF Past, Confirmed
<1> QED BY <1>1, <1>2, <1>5, <1>6, <1>7, ServerStays

LEMMA AppStopsKeeps ==
  ASSUME OfflineInv, AppStops
  PROVE  OfflineInv'
<1>1. /\ OfflineTypeOK /\ Fault /\ flushing' = 0
      /\ UNCHANGED <<queue, signedIn, value, restored, receipts, applied, forgotten, events>>
  BY DEF OfflineInv, AppStops
<1>2. entry \in [Changes -> Entry] /\ slot \in [Slots -> Slot] BY <1>1, Types
<1>3. entry' = [c \in Changes |-> IF entry[c].state = "trying" THEN [entry[c] EXCEPT !.state = "cut off"]
                                  ELSE entry[c]]
  BY DEF AppStops
<1>4. slot' = [s \in Slots |-> IF slot[s].pc = "answered" THEN FreeSlot
                               ELSE [slot[s] EXCEPT !.by = "nobody"]]
  BY DEF AppStops
<1>5. ASSUME NEW d \in Changes
      PROVE  /\ entry'[d] \in Entry
             /\ entry'[d] = entry[d] \/ (entry[d].state = "trying" /\ entry'[d].state = "cut off")
  <2>1. PICK e : e = [entry[d] EXCEPT !.state = "cut off"] OBVIOUS
  <2>2. e \in Entry /\ e.state = "cut off" BY <1>2, <2>1 DEF Entry
  <2> QED BY <1>2, <1>3, <2>1, <2>2
<1>6. ASSUME NEW r \in Slots PROVE slot'[r] \in Slot /\ Goes(slot'[r], slot[r])
  <2>1. CASE slot[r].pc = "answered" BY <1>4, <2>1, Free DEF Goes
  <2>2. CASE slot[r].pc # "answered"
    <3>1. PICK x : x = [slot[r] EXCEPT !.by = "nobody"] OBVIOUS
    <3>2. x \in Slot /\ StillRequest(x, slot[r]) BY <1>2, <2>2, <3>1 DEF Slot, StillRequest
    <3> QED BY <1>4, <2>2, <3>1, <3>2 DEF Goes
  <2> QED BY <2>1, <2>2
<1>7. entry' \in [Changes -> Entry] /\ slot' \in [Slots -> Slot]
  <2>1. entry' = [d \in Changes |-> entry'[d]] /\ slot' = [r \in Slots |-> slot'[r]]
    BY <1>3, <1>4
  <2> QED BY <1>5, <1>6, <2>1
<1>8. /\ queue' \in Seq(Changes) /\ signedIn' \in BOOLEAN /\ flushing' \in 0 .. MaxChange
      /\ events' \in 0 .. MaxEvents /\ faults' \in 0 .. MaxFaults
  BY <1>1, OfflineNumbers, Limits DEF OfflineTypeOK
<1>9. \A d \in Changes : /\ entry[d].state \in Past => entry'[d].state \in Past
                         /\ Confirmed(d)' => Confirmed(d)
  BY <1>5 DEF Past, Confirmed
<1> QED BY <1>1, <1>6, <1>7, <1>8, <1>9, ServerStays

-----------------------------------------------------------------------------
(* Results                                                                   *)

LEMMA InitHolds ==
  ASSUME Init
  PROVE  OfflineInv
<1>1. \A c \in Changes : entry[c] = NoEntry /\ applied[c] = 0 BY DEF Init
<1>2. \A s \in Slots : slot[s] = FreeSlot BY DEF Init
<1>3. OfflineTypeOK
  <2>1. entry \in [Changes -> Entry] BY NoEntryFields DEF Init
  <2>2. slot \in [Slots -> Slot] BY Free DEF Init
  <2>3. queue \in Seq(Changes) /\ flushing \in 0 .. MaxChange BY OfflineNumbers DEF Init
  <2>4. value \in [Fields -> 0 .. MaxChange] /\ applied \in [Changes -> Nat] BY OfflineNumbers DEF Init
  <2> QED BY <2>1, <2>2, <2>3, <2>4, OfflineNumbers DEF Init, OfflineTypeOK
<1>4. ReceiptsInv BY <1>1 DEF Init, ReceiptsInv
<1>5. AnswersInv BY <1>2, Free DEF AnswersInv
<1>6. ToldInv BY <1>1, <1>2, Free, NoEntryFields DEF ToldInv, Told, Confirmed
<1>7. FlushInv BY DEF Init, FlushInv
<1>8. ReadsInv BY <1>2, Free DEF ReadsInv
<1> QED BY <1>3, <1>4, <1>5, <1>6, <1>7, <1>8 DEF OfflineInv

LEMMA StutterKeeps ==
  ASSUME OfflineInv, UNCHANGED vars
  PROVE  OfflineInv'
BY DEF OfflineInv, OfflineTypeOK, ReceiptsInv, AnswersInv, ToldInv, Told, Confirmed, FlushInv,
       ReadsInv, vars

LEMMA StepKeeps ==
  ASSUME OfflineInv, [Next]_vars
  PROVE  OfflineInv'
BY ServeReadKeeps, ServeWriteKeeps, ServeFailsKeeps, SubmitKeeps, SubmittedKeeps, RetryKeeps,
   WaitKeeps, PruneReceiptKeeps, FlushNextKeeps, FlushAnswerKeeps, UnauthorizedKeeps,
   CompletionFailsKeeps, AppStopsKeeps, StutterKeeps
   DEF Next, Serve, Flush

\* The offline invariant holds in every state of the specification.
THEOREM OfflineInvariant == Spec => []OfflineInv
BY InitHolds, StepKeeps, PTL DEF Spec

\* The device's changes, the requests under way and the server's receipts have
\* the types that the code gives them (queueMutation and
\* runIdempotentMobileMutation keep the attempts and the states in range).
THEOREM OfflineTypes == Spec => []OfflineTypeOK
BY OfflineInvariant, PTL DEF OfflineInv

\* However many requests carry the same change, runIdempotentMobileMutation
\* applies it once for as long as its receipt is kept.
THEOREM OfflineAppliedOnce == Spec => []AppliedOnce
<1>1. OfflineInv => AppliedOnce BY DEF OfflineInv, ReceiptsInv, AppliedOnce
<1> QED BY <1>1, OfflineInvariant, PTL

\* What submitMobileMutation or flushPendingMutations reports as done has been
\* applied by the server, whatever was lost on the way.
THEOREM OfflineConfirmedIsApplied == Spec => []ConfirmedIsApplied
<1>1. OfflineInv => ConfirmedIsApplied BY DEF OfflineInv, ToldInv, Told, ConfirmedIsApplied
<1> QED BY <1>1, OfflineInvariant, PTL
\* Only a request that is served writes the article state.
LEMMA OthersKeepValue ==
  ASSUME [Next]_vars, value' # value
  PROVE  \E s \in Slots : ServeWrite(s)
BY Zenon DEF Next, vars, Serve, ServeRead, ServeFails, Submit, Submitted, Retry, Discard, Wait,
             PruneReceipt, Flush, FlushNext, FlushAnswer, Unauthorized, CompletionFails, AppStops

LEMMA WriteKeepsConfirmed ==
  ASSUME OfflineInv, [Next]_vars, NEW s \in Slots,
         slot[s].pc = "read", slot'[s].pc # "read",
         NEW f \in Fields \ restored, value'[f] # value[f], value[f] \in slot[s].known
  PROVE  Replaces(slot[s].change, f)
<1>1. PICK r \in Slots : ServeWrite(r) BY OthersKeepValue
<1>2. Answer(r, "ok") /\ slot[r].pc = "read" /\ slot \in [Slots -> Slot]
  BY <1>1, Types DEF ServeWrite, OfflineInv
<1>3. PICK x : slot' = [slot EXCEPT ![r] = x] BY <1>2 DEF Answer
<1>4. r = s BY <1>2, <1>3
<1>5. WriteState(s) BY <1>1, <1>4 DEF ServeWrite
<1>6. slot[s] \in Slot BY <1>2
<1>7. slot[s].prev \in [Fields -> 0 .. MaxChange] BY <1>6, SlotFields
<1>8. slot[s].prev[f] = value[f] BY DEF OfflineInv, ReadsInv
<1>9. f \in Written(slot[s].change) BY <1>5, <1>8 DEF WriteState
<1> QED BY <1>9 DEF Written, Replaces

\* updateMobileArticleState writes the fields that it is not about back as it
\* read them.  This does not undo a change that the device knew to be applied
\* when it sent the request, unless another request had put that change's value
\* back; an archive is about isRead as well.
THEOREM OfflineConfirmedStays == Spec => ConfirmedStays
<1>1. OfflineInv /\ [Next]_vars =>
        [\A s \in Slots :
           slot[s].pc = "read" /\ slot'[s].pc # "read" =>
             \A f \in Fields \ restored :
               value'[f] # value[f] /\ value[f] \in slot[s].known =>
                 Replaces(slot[s].change, f)]_vars
  BY WriteKeepsConfirmed
<1> QED BY <1>1, OfflineInvariant, PTL DEF Spec, ConfirmedStays

-----------------------------------------------------------------------------
(***************************************************************************)
(* Synchronization                                                           *)
(***************************************************************************)

(* The inductive invariant                                                   *)

\* Sequence numbers are given out in order.
LogInv == \E n \in 0 .. MaxSeq : \A s \in Seqs : log[s] = NoEvent <=> s > n

\* An open transaction owns the event it appended, which nobody sees.
TxnInv ==
  \A w \in Writers :
    /\ txn[w] # NoTxn => txn[w].key \in Keys
    /\ txn[w].seq # 0 =>
         /\ txn[w].seq \in Seqs /\ txn[w].key \in Keys
         /\ log[txn[w].seq].key = txn[w].key /\ log[txn[w].seq].nth = 0
         /\ \A v \in Writers \ {w} : txn[v].seq # txn[w].seq

Committed == {s \in Seqs : log[s].nth > 0}

\* Every change of a key has its event, and every event its change.
VersionInv ==
  /\ \A s \in Committed : log[s].key \in Keys /\ log[s].nth <= version[log[s].key]
  /\ \A k \in Keys : \A n \in 1 .. version[k] :
       \E s \in Committed : log[s].key = k /\ log[s].nth = n

\* What was committed is in the journal until the floor is above it.
JournalInv ==
  /\ journal \subseteq Committed
  /\ \A s \in Committed \ journal : s < floor

\* The events that the device will have gone past when it commits what it was
\* sent: they are on the page, or known as skipped.
PageInv ==
  sync.pc = "page" =>
    \A s \in Committed : s > cursor /\ s <= sync.next => s \in sync.page \cup skipped

\* A copy that no sync overtook has every change the cursor is past.
Covers(copy, k) ==
  copy # NoCopy /\ ~copy.crossed =>
    \A s \in Committed \ skipped : log[s].key = k /\ s <= cursor => log[s].nth <= copy.seen

CopiesInv == \A k \in Keys : Covers(cache[k], k) /\ Covers(fetch[k], k)

SyncInv ==
  SyncTypeOK /\ LogInv /\ TxnInv /\ VersionInv /\ JournalInv /\ PageInv /\ CopiesInv

-----------------------------------------------------------------------------
(* Numbers and records                                                       *)

\* The constants are the numbers they were assumed to be.
LEMMA SyncNumbers ==
  /\ MaxSeq \in Nat \ {0} /\ PageLimit \in Nat \ {0} /\ PruneBatch \in Nat \ {0}
  /\ MaxSyncFaults \in Nat /\ NoKey \notin Keys
  /\ Seqs \subseteq Nat \ {0} /\ Seqs \subseteq 0 .. MaxSeq /\ \A s \in Seqs : s <= MaxSeq
BY SyncAssumption DEF Seqs

\* Transactions, events, copies and passes by their fields.
LEMMA TxnFields ==
  /\ NoTxn \in Txn /\ NoTxn.key = NoKey /\ NoTxn.seq = 0
  /\ \A t \in Txn : t.key \in Keys \cup {NoKey} /\ t.at \in Nat /\ t.seq \in Nat
  /\ \A k \in Keys, n \in Nat :
       /\ [key |-> k, at |-> n, seq |-> 0] \in Txn
       /\ [key |-> k, at |-> n, seq |-> 0].key = k /\ [key |-> k, at |-> n, seq |-> 0].seq = 0
  /\ \A t \in Txn, s \in Nat : /\ [t EXCEPT !.seq = s] \in Txn /\ [t EXCEPT !.seq = s].seq = s
                               /\ [t EXCEPT !.seq = s].key = t.key
BY DEF Txn, NoTxn

LEMMA EventFields ==
  /\ NoEvent \in LogEntry /\ NoEvent.nth = 0 /\ NoEvent.key = NoKey
  /\ \A e \in LogEntry : e.key \in Keys \cup {NoKey} /\ e.at \in Nat /\ e.nth \in Nat
  /\ \A k \in Keys, a, n \in Nat :
       /\ [key |-> k, at |-> a, nth |-> n] \in LogEntry
       /\ [key |-> k, at |-> a, nth |-> n].key = k /\ [key |-> k, at |-> a, nth |-> n].nth = n
  /\ \A e \in LogEntry, n \in Nat :
       /\ [e EXCEPT !.nth = n] \in LogEntry /\ [e EXCEPT !.nth = n].nth = n
       /\ [e EXCEPT !.nth = n].key = e.key
BY DEF LogEntry, NoEvent

LEMMA CopyFields ==
  /\ NoCopy \in Copy
  /\ \A c \in Copy : c.seen \in -1 .. MaxSeq /\ c.crossed \in BOOLEAN
  /\ \A n \in 0 .. MaxSeq :
       /\ [seen |-> n, crossed |-> FALSE] \in Copy
       /\ [seen |-> n, crossed |-> FALSE].seen = n
  /\ \A c \in Copy : [c EXCEPT !.crossed = TRUE] \in Copy /\ [c EXCEPT !.crossed = TRUE].crossed
<1>1. -1 \in -1 .. MaxSeq /\ \A n \in 0 .. MaxSeq : n \in -1 .. MaxSeq BY SyncNumbers
<1> QED BY <1>1 DEF Copy, NoCopy

Stages == {"idle", "ask", "query", "page", "bootstrap", "reset"}

LEMMA SyncFields ==
  /\ NoSync \in Sync /\ NoSync.pc = "idle"
  /\ \A x \in Sync : x.pc \in Stages /\ x.booted \in BOOLEAN /\ x.page \subseteq Seqs
                     /\ x.next \in 0 .. MaxSeq /\ x.more \in BOOLEAN
  /\ \A x \in Sync, pc \in Stages : [x EXCEPT !.pc = pc] \in Sync /\ [x EXCEPT !.pc = pc].pc = pc
  /\ \A x \in Sync, n \in 0 .. MaxSeq :
       /\ [x EXCEPT !.pc = "reset", !.next = n] \in Sync
       /\ [x EXCEPT !.pc = "reset", !.next = n].pc = "reset"
  /\ \A b \in BOOLEAN :
       /\ [NoSync EXCEPT !.pc = "ask", !.booted = b] \in Sync
       /\ [NoSync EXCEPT !.pc = "ask", !.booted = b].pc = "ask"
<1>1. 0 \in 0 .. MaxSeq BY SyncNumbers
<1> QED BY <1>1 DEF Sync, NoSync, Stages

\* Sequence numbers are given out in order, so the next one is free.
LEMMA NextIsFree ==
  ASSUME LogInv, NextSeq \in Seqs
  PROVE  log[NextSeq] = NoEvent /\ \A s \in Seqs : log[s] = NoEvent <=> s >= NextSeq
<1>1. PICK n \in 0 .. MaxSeq : \A s \in Seqs : log[s] = NoEvent <=> s > n BY DEF LogInv
<1>2. {s \in Seqs : log[s] # NoEvent} = 1 .. n BY <1>1, SyncNumbers DEF Seqs
<1>3. Cardinality(1 .. n) = n BY FS_Interval, SyncNumbers
<1>4. NextSeq = n + 1 BY <1>2, <1>3 DEF NextSeq
<1> QED BY <1>1, <1>4, SyncNumbers

\* A key has no more changes than there are sequence numbers.
LEMMA ChangesFit ==
  ASSUME NEW l, NEW k, NEW n \in Nat,
         \A m \in 1 .. n : \E s \in Seqs : l[s].key = k /\ l[s].nth = m
  PROVE  n <= MaxSeq
<1> DEFINE f == [m \in 1 .. n |-> CHOOSE s \in Seqs : l[s].key = k /\ l[s].nth = m]
<1>1. \A m \in 1 .. n : f[m] \in Seqs /\ l[f[m]].nth = m OBVIOUS
<1>2. f \in [1 .. n -> Seqs] BY <1>1
<1>3. \A x, y \in 1 .. n : f[x] = f[y] => x = y BY <1>1
<1>4. IsFiniteSet(1 .. n) /\ Cardinality(1 .. n) = n BY FS_Interval
<1>6. IsFiniteSet(Seqs) /\ Cardinality(Seqs) = MaxSeq BY FS_Interval, SyncNumbers DEF Seqs
<1> HIDE DEF f
<1>7. ~(MaxSeq < n)
  <2> SUFFICES ASSUME MaxSeq < n PROVE FALSE
    OBVIOUS
  <2>1. \E x, y \in 1 .. n : x # y /\ f[x] = f[y] BY <1>2, <1>4, <1>6, FS_PigeonHole
  <2> QED BY <1>3, <2>1
<1> QED BY <1>7, SyncNumbers

-----------------------------------------------------------------------------
(* What the steps leave alone                                                *)

\* The committed events stay, and so do the versions.
SameChanges ==
  /\ Committed' = Committed /\ \A s \in Committed : log'[s] = log[s]
  /\ version' = version

\* Then the journal, the pages and the copies stay right.
LEMMA ChangesStay ==
  ASSUME SyncInv, SameChanges
  PROVE  /\ VersionInv'
         /\ journal' = journal /\ floor' = floor => JournalInv'
         /\ UNCHANGED <<sync, cursor, skipped>> => PageInv'
         /\ UNCHANGED <<cursor, cache, fetch, skipped>> => CopiesInv'
<1>1. VersionInv' BY DEF SyncInv, SameChanges, VersionInv
<1>2. journal' = journal /\ floor' = floor => JournalInv' BY DEF SyncInv, SameChanges, JournalInv
<1>3. UNCHANGED <<sync, cursor, skipped>> => PageInv' BY DEF SyncInv, SameChanges, PageInv
<1>4. UNCHANGED <<cursor, cache, fetch, skipped>> => CopiesInv'
  BY DEF SyncInv, SameChanges, CopiesInv, Covers
<1> QED BY <1>1, <1>2, <1>3, <1>4

\* A step of the device leaves the server's invariants.
LEMMA JournalStays ==
  ASSUME SyncInv, UNCHANGED server
  PROVE  LogInv' /\ TxnInv' /\ VersionInv' /\ JournalInv' /\ SameChanges
BY DEF SyncInv, server, LogInv, TxnInv, VersionInv, JournalInv, Committed, SameChanges

\* The types of the variables one by one.
LEMMA SyncTypes ==
  ASSUME SyncInv
  PROVE  /\ txn \in [Writers -> Txn] /\ log \in [Seqs -> LogEntry] /\ journal \subseteq Seqs
         /\ floor \in 0 .. (MaxSeq + 1) /\ version \in [Keys -> 0 .. MaxSeq]
         /\ cursor \in 0 .. MaxSeq /\ cache \in [Keys -> Copy] /\ fetch \in [Keys -> Copy]
         /\ sync \in Sync /\ began \in 0 .. MaxSeq
BY DEF SyncInv, SyncTypeOK

-----------------------------------------------------------------------------
(* The server                                                                *)

\* A transaction begins or ends without a change.
LEMMA BeginKeeps ==
  ASSUME SyncInv, NEW w \in Writers, Begin(w) \/ Rollback(w)
  PROVE  SyncInv'
<1>1. /\ UNCHANGED <<log, journal, floor, version, device, skipped, syncFaults>>
      /\ began' \in 0 .. MaxSeq
  BY SyncTypes, SyncNumbers DEF Begin, Rollback
<1>2. SameChanges BY <1>1 DEF SameChanges, Committed
<1>3. PICK t \in Txn : txn' = [txn EXCEPT ![w] = t] /\ t.seq = 0 /\ (t # NoTxn => t.key \in Keys)
  <2>1. CASE Begin(w)
    <3>1. PICK k \in Keys : txn' = [txn EXCEPT ![w] = [key |-> k, at |-> began + 1, seq |-> 0]]
      BY <2>1 DEF Begin
    <3>2. began + 1 \in Nat BY SyncTypes, SyncNumbers
    <3> QED BY <3>1, <3>2, TxnFields
  <2>2. CASE Rollback(w) BY <2>2, TxnFields DEF Rollback
  <2> QED BY <2>1, <2>2
<1>4. txn' \in [Writers -> Txn] BY <1>3, SyncTypes
<1>5. \A v \in Writers : txn'[v] = IF v = w THEN t ELSE txn[v] BY <1>3, SyncTypes
<1>6. TxnInv' BY <1>1, <1>3, <1>5 DEF SyncInv, TxnInv
<1>7. LogInv' BY <1>1 DEF SyncInv, LogInv
<1> QED BY <1>1, <1>2, <1>4, <1>6, <1>7, ChangesStay DEF SyncInv, SyncTypeOK, device

\* The trigger takes the next sequence number.
LEMMA AppendKeeps ==
  ASSUME SyncInv, NEW w \in Writers, AppendEvent(w)
  PROVE  SyncInv'
<1>1. /\ UNCHANGED <<began, journal, floor, version, device, skipped, syncFaults>>
      /\ txn[w].key \in Keys /\ NextSeq \in Seqs
  BY TxnFields, SyncTypes DEF AppendEvent
<1>2. PICK n \in Seqs : n = NextSeq BY <1>1
<1>3. log[n] = NoEvent /\ \A s \in Seqs : log[s] = NoEvent <=> s >= n BY <1>2, NextIsFree DEF SyncInv
<1>4. PICK e \in LogEntry : e = [key |-> txn[w].key, at |-> txn[w].at, nth |-> 0]
  BY <1>1, SyncTypes, TxnFields, EventFields
<1>5. e.key = txn[w].key /\ e.nth = 0 /\ e # NoEvent
  BY <1>1, <1>4, SyncTypes, TxnFields, EventFields, SyncNumbers
<1>6. log' = [log EXCEPT ![n] = e] BY <1>2, <1>4 DEF AppendEvent
<1>7. log' \in [Seqs -> LogEntry] /\ \A s \in Seqs : log'[s] = IF s = n THEN e ELSE log[s]
  BY <1>6, SyncTypes
<1>8. PICK t \in Txn : t = [txn[w] EXCEPT !.seq = n] BY SyncTypes, TxnFields, SyncNumbers
<1>9. t.seq = n /\ t.key = txn[w].key /\ txn' = [txn EXCEPT ![w] = t]
  BY <1>2, <1>8, SyncTypes, TxnFields, SyncNumbers DEF AppendEvent
<1>10. txn' \in [Writers -> Txn] /\ \A v \in Writers : txn'[v] = IF v = w THEN t ELSE txn[v]
  BY <1>9, SyncTypes
<1>11. LogInv'
  <2>1. \A s \in Seqs : log'[s] = NoEvent <=> s > n BY <1>3, <1>5, <1>7, SyncNumbers
  <2> QED BY <2>1, SyncNumbers DEF LogInv
<1>12. SameChanges
  <2>1. \A s \in Seqs : s \in Committed <=> log[s].nth > 0 BY DEF Committed
  <2>2. \A s \in Seqs : s \in Committed' <=> log'[s].nth > 0 BY DEF Committed
  <2>3. n \notin Committed /\ n \notin Committed' BY <1>3, <1>5, <1>7, <2>1, <2>2, EventFields
  <2> QED BY <1>1, <1>7, <2>1, <2>2, <2>3 DEF SameChanges, Committed
<1>13. TxnInv'
  <2>1. \A v \in Writers : txn[v].seq # 0 => txn[v].seq \in Seqs /\ txn[v].seq # n
    BY <1>3, EventFields, SyncNumbers DEF SyncInv, TxnInv
  <2>2. ASSUME NEW v \in Writers
        PROVE  /\ txn'[v] # NoTxn => txn'[v].key \in Keys
               /\ txn'[v].seq # 0 =>
                    /\ txn'[v].seq \in Seqs /\ txn'[v].key \in Keys
                    /\ log'[txn'[v].seq].key = txn'[v].key /\ log'[txn'[v].seq].nth = 0
                    /\ \A u \in Writers \ {v} : txn'[u].seq # txn'[v].seq
    <3>1. CASE v = w BY <1>1, <1>5, <1>7, <1>9, <1>10, <2>1, <3>1, SyncNumbers DEF SyncInv, TxnInv
    <3>2. CASE v # w BY <1>7, <1>9, <1>10, <2>1, <3>2 DEF SyncInv, TxnInv
    <3> QED BY <3>1, <3>2
  <2> QED BY <2>2 DEF TxnInv
<1> QED BY <1>1, <1>7, <1>10, <1>11, <1>12, <1>13, ChangesStay DEF SyncInv, SyncTypeOK, device

\* What the device has reached, and the changes it has gone past.
LEMMA ReachedIsPast ==
  ASSUME SyncInv
  PROVE  /\ Reached \in 0 .. MaxSeq
         /\ \A s \in Seqs : s > Reached => s > cursor /\ (sync.pc = "page" => s > sync.next)
<1> DEFINE R == {cursor} \cup (IF sync.pc \in {"page", "reset"} THEN {sync.next} ELSE {})
<1>0. cursor \in 0 .. MaxSeq /\ sync.next \in 0 .. MaxSeq BY SyncTypes, SyncFields
<1>1. R \in SUBSET (0 .. MaxSeq) /\ R # {} BY <1>0
<1>2. cursor \in R /\ (sync.pc = "page" => sync.next \in R) OBVIOUS
<1>3. Reached = Max(R) BY DEF Reached
<1> HIDE DEF R
<1>4. Max(R) \in R /\ \A x \in R : x <= Max(R) BY <1>1, MaxOf, SyncNumbers
<1>5. PICK m \in 0 .. MaxSeq : m = Reached BY <1>1, <1>3, <1>4
<1>6. cursor <= m /\ (sync.pc = "page" => sync.next <= m) BY <1>2, <1>3, <1>4, <1>5
<1> QED BY <1>0, <1>5, <1>6, SyncNumbers

\* A change commits.
LEMMA CommitKeeps ==
  ASSUME SyncInv, NEW w \in Writers, Commit(w)
  PROVE  SyncInv'
<1>1. PICK s \in Seqs : s = txn[w].seq BY DEF Commit, SyncInv, TxnInv
<1>2. PICK k \in Keys : k = txn[w].key BY <1>1, SyncNumbers DEF SyncInv, TxnInv
<1>3. /\ UNCHANGED <<began, floor, device, syncFaults>>
      /\ version' = [version EXCEPT ![k] = @ + 1] /\ journal' = journal \cup {s}
      /\ skipped' = IF s <= Reached THEN skipped \cup {s} ELSE skipped
      /\ txn' = [txn EXCEPT ![w] = NoTxn]
  BY <1>1, <1>2 DEF Commit
<1>4. log[s].key = k /\ log[s].nth = 0 BY <1>1, <1>2, SyncNumbers DEF SyncInv, TxnInv
<1>5. PICK n \in Nat : n = version[k] + 1 BY SyncTypes
<1>6. PICK e \in LogEntry : e = [log[s] EXCEPT !.nth = n] BY SyncTypes, EventFields
<1>7. e.nth = n /\ e.key = k /\ n > 0 BY <1>4, <1>5, <1>6, SyncTypes, EventFields, SyncNumbers
<1>8. log' = [log EXCEPT ![s] = e] BY <1>1, <1>2, <1>5, <1>6 DEF Commit
<1>9. log' \in [Seqs -> LogEntry] /\ \A x \in Seqs : log'[x] = IF x = s THEN e ELSE log[x]
  BY <1>8, SyncTypes
<1>10. \A j \in Keys : version'[j] = IF j = k THEN n ELSE version[j] BY <1>3, <1>5, SyncTypes
<1>11. /\ \A x \in Seqs : x \in Committed <=> log[x].nth > 0
       /\ \A x \in Seqs : x \in Committed' <=> log'[x].nth > 0
       /\ Committed \subseteq Seqs /\ Committed' \subseteq Seqs
  BY DEF Committed
<1>12. s \notin Committed /\ Committed' = Committed \cup {s}
  BY <1>4, <1>7, <1>9, <1>11
<1>13. VersionInv'
  <2>1. ASSUME NEW x \in Committed' PROVE log'[x].key \in Keys /\ log'[x].nth <= version'[log'[x].key]
    <3>1. CASE x = s BY <1>7, <1>9, <1>10, <3>1
    <3>2. CASE x # s
      <4>1. x \in Committed /\ log'[x] = log[x] /\ x \in Seqs BY <1>9, <1>11, <1>12, <2>1, <3>2
      <4>2. log[x].key \in Keys /\ log[x].nth <= version[log[x].key]
        BY <4>1 DEF SyncInv, VersionInv
      <4>3. log[x].nth \in Nat /\ version[log[x].key] \in Nat BY <4>1, <4>2, SyncTypes, EventFields, SyncNumbers
      <4> QED BY <1>5, <1>10, <4>1, <4>2, <4>3
    <3> QED BY <3>1, <3>2
  <2>2. ASSUME NEW j \in Keys, NEW m \in 1 .. version'[j]
        PROVE  \E x \in Committed' : log'[x].key = j /\ log'[x].nth = m
    <3>1. CASE j = k /\ m = n BY <1>7, <1>9, <1>12, <3>1
    <3>2. CASE ~(j = k /\ m = n)
      <4>1. m \in 1 .. version[j] BY <1>5, <1>10, <3>2, SyncTypes, SyncNumbers
      <4>2. PICK x \in Committed : log[x].key = j /\ log[x].nth = m
        BY <4>1 DEF SyncInv, VersionInv
      <4> QED BY <1>9, <1>11, <1>12, <4>2
    <3> QED BY <3>1, <3>2
  <2> QED BY <2>1, <2>2 DEF VersionInv
<1>14. version' \in [Keys -> 0 .. MaxSeq]
  <2>1. PICK l : l = log' OBVIOUS
  <2>2. \A m \in 1 .. n : \E x \in Seqs : l[x].key = k /\ l[x].nth = m
    BY <1>10, <1>11, <1>13, <2>1 DEF VersionInv
  <2>3. n <= MaxSeq BY <2>2, ChangesFit
  <2> QED BY <1>3, <1>5, <2>3, SyncTypes, SyncNumbers
<1>15. LogInv'
  <2>1. PICK y \in 0 .. MaxSeq : \A x \in Seqs : log[x] = NoEvent <=> x > y BY DEF SyncInv, LogInv
  <2>2. log[s] # NoEvent /\ e # NoEvent BY <1>4, <1>7, EventFields, SyncNumbers
  <2>3. \A x \in Seqs : log'[x] = NoEvent <=> x > y BY <1>9, <2>1, <2>2
  <2> QED BY <2>3 DEF LogInv
<1>16. \A v \in Writers : txn'[v] = IF v = w THEN NoTxn ELSE txn[v] BY <1>3, SyncTypes
<1>17. TxnInv'
  <2>1. \A v \in Writers \ {w} : txn[v].seq # 0 => txn[v].seq # s
    BY <1>1, SyncNumbers DEF SyncInv, TxnInv
  <2> QED BY <1>9, <1>16, <2>1, TxnFields DEF SyncInv, TxnInv
<1>18. JournalInv' BY <1>3, <1>12 DEF SyncInv, JournalInv
<1>19. s \notin skipped' => s > cursor /\ (sync.pc = "page" => s > sync.next)
  BY <1>3, ReachedIsPast, SyncNumbers
<1>20. UNCHANGED <<sync, cursor, cache, fetch>> /\ skipped \subseteq skipped' /\ skipped' \subseteq Seqs
  BY <1>3 DEF device, SyncInv, SyncTypeOK
<1>21. PageInv'
  <2>1. ASSUME sync.pc = "page", NEW x \in Committed \cup {s}, x > cursor, x <= sync.next
        PROVE  x \in sync.page \cup skipped'
    <3>1. CASE x = s
      <4>1. sync.next \in 0 .. MaxSeq BY SyncTypes, SyncFields
      <4>2. ~(s > sync.next) BY <2>1, <3>1, <4>1, SyncNumbers
      <4> QED BY <1>19, <2>1, <3>1, <4>2
    <3>2. CASE x \in Committed BY <1>20, <2>1, <3>2 DEF SyncInv, PageInv
    <3> QED BY <2>1, <3>1, <3>2
  <2> QED BY <1>12, <1>20, <2>1 DEF PageInv
<1>22. CopiesInv'
  <2>1. ASSUME NEW j \in Keys, NEW c \in Copy, Covers(c, j) PROVE Covers(c, j)'
    BY <1>9, <1>11, <1>12, <1>19, <1>20, <2>1, SyncTypes, SyncNumbers DEF Covers
  <2>2. ASSUME NEW j \in Keys PROVE Covers(cache[j], j)' /\ Covers(fetch[j], j)'
    <3>1. PICK c, f \in Copy : c = cache[j] /\ f = fetch[j] BY SyncTypes
    <3>2. Covers(c, j)' /\ Covers(f, j)' BY <2>1, <3>1 DEF SyncInv, CopiesInv
    <3> QED BY <1>20, <3>1, <3>2 DEF Covers
  <2> QED BY <2>2 DEF CopiesInv
<1>23. txn' \in [Writers -> Txn] /\ journal' \subseteq Seqs BY <1>3, SyncTypes, TxnFields
<1> QED BY <1>3, <1>9, <1>13, <1>14, <1>15, <1>17, <1>18, <1>20, <1>21, <1>22, <1>23
        DEF SyncInv, SyncTypeOK, device

\* The retention deletes events, and the floor is above them.
LEMMA PruneKeeps ==
  ASSUME SyncInv, Prune
  PROVE  SyncInv'
<1>1. PICK C \in SUBSET journal : /\ C # {} /\ journal' = journal \ C
                                  /\ floor' = Max({floor, Max(C) + 1})
  BY DEF Prune
<1>2. UNCHANGED <<txn, began, log, version, device, skipped, syncFaults>> BY DEF Prune
<1>3. SameChanges BY <1>2 DEF SameChanges, Committed
<1>4. C \in SUBSET (0 .. MaxSeq) BY SyncTypes, SyncNumbers
<1>5. Max(C) \in Seqs /\ \A s \in C : s <= Max(C) BY <1>1, <1>4, MaxOf, SyncTypes, SyncNumbers
<1>6. PICK m \in Seqs : m = Max(C) BY <1>5
<1>7. floor' \in {floor, m + 1} /\ floor <= floor' /\ m + 1 <= floor'
  <2>1. {floor, m + 1} \in SUBSET (0 .. MaxSeq + 1) BY SyncTypes, SyncNumbers
  <2>2. MaxSeq + 1 \in Nat BY SyncNumbers
  <2> QED BY <1>1, <1>6, <2>1, <2>2, MaxOf
<1>8. JournalInv'
  <2>1. ASSUME NEW s \in Committed, s \notin journal' PROVE s < floor'
    <3>0. s \in Seqs BY DEF Committed
    <3>1. CASE s \in C BY <1>5, <1>6, <1>7, <3>0, <3>1, SyncTypes, SyncNumbers
    <3>2. CASE s \notin C BY <1>1, <1>7, <2>1, <3>0, <3>2, SyncTypes, SyncNumbers DEF SyncInv, JournalInv
    <3> QED BY <3>1, <3>2
  <2> QED BY <1>1, <1>3, <2>1 DEF SyncInv, JournalInv, SameChanges
<1>9. LogInv' /\ TxnInv' BY <1>2 DEF SyncInv, LogInv, TxnInv
<1>10. floor' \in 0 .. (MaxSeq + 1) BY <1>7, SyncTypes, SyncNumbers
<1> QED BY <1>1, <1>2, <1>3, <1>8, <1>9, <1>10, ChangesStay DEF SyncInv, SyncTypeOK, device

-----------------------------------------------------------------------------
(* The device                                                                *)

\* A read of now covers every change that is committed.
LEMMA ReadCovers ==
  ASSUME SyncInv, NEW k \in Keys
  PROVE  Covers([seen |-> version[k], crossed |-> FALSE], k)
<1>1. PICK n \in 0 .. MaxSeq : n = version[k] BY SyncTypes
<1>2. \A s \in Committed : log[s].key = k => log[s].nth <= n BY <1>1 DEF SyncInv, VersionInv
<1> QED BY <1>1, <1>2 DEF Covers

\* A screen loads its data or writes it to the cache, or an entry is evicted.
LEMMA CacheKeeps ==
  ASSUME SyncInv, NEW k \in Keys, Load(k) \/ CacheLoaded(k) \/ Evict(k)
  PROVE  SyncInv'
<1>1. UNCHANGED <<server, cursor, sync, rerun, passState, skipped, syncFaults>>
  BY DEF Load, CacheLoaded, Evict
<1>2. /\ LogInv' /\ TxnInv' /\ VersionInv' /\ JournalInv' /\ SameChanges BY <1>1, JournalStays
<1>3. PageInv' BY <1>1, <1>2, ChangesStay
<1>4. \A j \in Keys : Covers(cache[j], j) /\ Covers(fetch[j], j) /\ Covers(NoCopy, j)
  BY DEF SyncInv, CopiesInv, Covers
<1>5. PICK r \in Copy : r = [seen |-> version[k], crossed |-> FALSE] BY SyncTypes, CopyFields
<1>6. Covers(r, k) BY <1>5, ReadCovers
<1>7. PICK c \in Copy, f \in Copy : /\ cache' = [cache EXCEPT ![k] = c] /\ Covers(c, k)
                                    /\ fetch' = [fetch EXCEPT ![k] = f] /\ Covers(f, k)
  <2>1. cache = [cache EXCEPT ![k] = cache[k]] /\ fetch = [fetch EXCEPT ![k] = fetch[k]]
        /\ cache[k] \in Copy /\ fetch[k] \in Copy
    BY SyncTypes
  <2>2. CASE Load(k) BY <1>4, <1>5, <1>6, <2>1, <2>2 DEF Load
  <2>3. CASE CacheLoaded(k) BY <1>4, <2>1, <2>3, CopyFields DEF CacheLoaded
  <2>4. CASE Evict(k) BY <1>4, <2>1, <2>4, CopyFields DEF Evict
  <2> QED BY <2>2, <2>3, <2>4
<1>8. /\ cache' \in [Keys -> Copy] /\ fetch' \in [Keys -> Copy]
      /\ \A j \in Keys : Covers(cache'[j], j) /\ Covers(fetch'[j], j)
  BY <1>4, <1>7, SyncTypes
<1>9. CopiesInv' BY <1>1, <1>2, <1>8 DEF CopiesInv, Covers, SameChanges
<1> QED BY <1>1, <1>2, <1>3, <1>8, <1>9 DEF SyncInv, SyncTypeOK, server

\* A step of the pass that touches neither the cache nor the cursor.
LEMMA PassMoves ==
  ASSUME SyncInv, UNCHANGED <<server, cursor, cache, fetch>>, sync' \in Sync,
         sync'.pc # "page", skipped \subseteq skipped', skipped' \subseteq Seqs,
         rerun' \in BOOLEAN, passState' \in {"idle", "syncing", "failed", "stopped"},
         syncFaults' \in 0 .. MaxSyncFaults
  PROVE  SyncInv'
<1>1. /\ LogInv' /\ TxnInv' /\ VersionInv' /\ JournalInv' /\ SameChanges BY JournalStays
<1>2. CopiesInv' BY <1>1 DEF SyncInv, CopiesInv, Covers, SameChanges
<1>3. PageInv' BY DEF PageInv
<1> QED BY <1>1, <1>2, <1>3 DEF SyncInv, SyncTypeOK, server

\* A page has every event after the cursor up to the one it moves it to.
LEMMA ReadEventsKeeps ==
  ASSUME SyncInv, ReadEvents
  PROVE  SyncInv'
<1>1. UNCHANGED <<server, cursor, cache, fetch, rerun, passState, syncFaults>>
      /\ skipped' = skipped \cup (cursor + 1 .. floor - 1)
  BY DEF ReadEvents
<1>2. PICK P \in SUBSET journal :
        /\ IsPage(P)
        /\ sync' = [sync EXCEPT !.pc   = "page",
                                !.page = P,
                                !.next = Max(P \cup {cursor}),
                                !.more = \E s \in journal : s > Max(P \cup {cursor})]
  BY DEF ReadEvents
<1>3. P \cup {cursor} \in SUBSET (0 .. MaxSeq) /\ P \subseteq Seqs BY SyncTypes, SyncNumbers
<1>4. PICK m \in 0 .. MaxSeq : m = Max(P \cup {cursor}) BY <1>3, MaxOf, SyncNumbers
<1>5. m \in P \cup {cursor} BY <1>3, <1>4, MaxOf, SyncNumbers
<1>6. PICK b \in BOOLEAN : b = \E s \in journal : s > m OBVIOUS
<1>7. sync' \in Sync /\ sync'.page = P /\ sync'.next = m
  <2>1. sync' = [sync EXCEPT !.pc = "page", !.page = P, !.next = m, !.more = b] BY <1>2, <1>4, <1>6
  <2>2. sync \in Sync BY SyncTypes
  <2> QED BY <1>3, <2>1, <2>2 DEF Sync
<1>8. ASSUME NEW s \in Committed, s > cursor, s <= m PROVE s \in P \cup skipped'
  <2>0. s \in Seqs /\ s \in 0 .. MaxSeq BY SyncNumbers DEF Committed
  <2>1. CASE s \in journal
    <3>1. s \in P \/ \A x \in P : x < s
      <4>1. \A x \in P, y \in {z \in journal : z > cursor} \ P : x < y BY <1>2, Zenon DEF IsPage
      <4> QED BY <1>8, <2>1, <4>1
    <3>2. cursor \in 0 .. MaxSeq /\ ~(m < s) /\ ~(cursor >= s) BY <1>8, <2>0, SyncTypes, SyncNumbers
    <3> QED BY <1>5, <1>8, <3>1, <3>2
  <2>2. CASE s \notin journal
    <3>1. s < floor BY <2>2 DEF SyncInv, JournalInv
    <3>2. s \in cursor + 1 .. floor - 1 BY <1>8, <2>0, <3>1, SyncTypes, SyncNumbers
    <3> QED BY <1>1, <3>2
  <2> QED BY <2>1, <2>2
<1>9. /\ LogInv' /\ TxnInv' /\ VersionInv' /\ JournalInv' /\ SameChanges BY <1>1, JournalStays
<1>10. PageInv' BY <1>1, <1>7, <1>8, <1>9 DEF PageInv, SameChanges
<1>11. CopiesInv' BY <1>1, <1>9 DEF SyncInv, CopiesInv, Covers, SameChanges
<1>12. skipped' \subseteq Seqs
  <2>1. cursor \in 0 .. MaxSeq /\ floor \in 0 .. (MaxSeq + 1) BY SyncTypes
  <2>2. cursor + 1 .. floor - 1 \subseteq Seqs BY <2>1, SyncNumbers DEF Seqs
  <2> QED BY <1>1, <2>2 DEF SyncInv, SyncTypeOK
<1> QED BY <1>1, <1>7, <1>9, <1>10, <1>11, <1>12 DEF SyncInv, SyncTypeOK, server

\* Deleted entries lack nothing, and the reads under way know it.
LEMMA InvalidateCovers ==
  ASSUME SyncInv, NEW K, Invalidate(K), UNCHANGED server, skipped' = skipped,
         cursor' \in 0 .. MaxSeq,
         \A k \in Keys \ K : \A s \in Committed \ skipped :
           log[s].key = k /\ s <= cursor' => s <= cursor
  PROVE  CopiesInv' /\ cache' \in [Keys -> Copy] /\ fetch' \in [Keys -> Copy]
<1>1. SameChanges BY JournalStays
<1>2. ASSUME NEW k \in Keys
      PROVE  /\ cache'[k] \in Copy /\ fetch'[k] \in Copy
             /\ Covers(cache[k], k)' /\ Covers(fetch[k], k)'
  <2>1. /\ cache'[k] = IF k \in K THEN NoCopy ELSE cache[k]
        /\ fetch'[k] = IF k \in K /\ fetch[k] # NoCopy
                       THEN [fetch[k] EXCEPT !.crossed = TRUE] ELSE fetch[k]
    BY DEF Invalidate
  <2>2. PICK c \in Copy, f \in Copy : c = cache[k] /\ f = fetch[k] BY SyncTypes
  <2>3. Covers(c, k) /\ Covers(f, k) BY <2>2 DEF SyncInv, CopiesInv
  <2>4. CASE k \in K
    <3>1. cache'[k] = NoCopy /\ (fetch'[k] = NoCopy \/ fetch'[k].crossed)
          /\ fetch'[k] \in Copy
      BY <2>1, <2>2, <2>4, CopyFields
    <3> QED BY <3>1, CopyFields DEF Covers
  <2>5. CASE k \notin K
    <3>1. cache'[k] = c /\ fetch'[k] = f BY <2>1, <2>2, <2>5
    <3>2. \A s \in Committed \ skipped : log[s].key = k /\ s <= cursor' => s <= cursor BY <2>5
    <3>3. ASSUME NEW x \in {c, f}, x # NoCopy, ~x.crossed, NEW s \in Committed \ skipped,
                 log[s].key = k, s <= cursor'
          PROVE  log[s].nth <= x.seen
      BY <2>3, <3>2, <3>3 DEF Covers
    <3>4. Covers(cache[k], k)' /\ Covers(fetch[k], k)'
      BY <1>1, <3>1, <3>3 DEF Covers, SameChanges
    <3> QED BY <2>2, <3>1, <3>4
  <2> QED BY <2>4, <2>5
<1>3. cache' \in [Keys -> Copy] /\ fetch' \in [Keys -> Copy] BY <1>2 DEF Invalidate
<1> QED BY <1>2, <1>3 DEF CopiesInv

\* commitSyncPage and bootstrapSync.
LEMMA CursorMoves ==
  ASSUME SyncInv, CommitPage \/ Reset
  PROVE  SyncInv'
<1>1. UNCHANGED <<server, rerun, skipped, syncFaults>> /\ cursor' = sync.next
  BY DEF CommitPage, Reset
<1>2. cursor' \in 0 .. MaxSeq /\ sync.booted \in BOOLEAN BY <1>1, SyncTypes, SyncFields
<1>3. /\ LogInv' /\ TxnInv' /\ VersionInv' /\ JournalInv' /\ SameChanges BY <1>1, JournalStays
<1>4. CopiesInv' /\ cache' \in [Keys -> Copy] /\ fetch' \in [Keys -> Copy]
  <2>1. CASE Reset
    <3>1. Invalidate(Keys) BY <2>1 DEF Reset
    <3> QED BY <1>1, <1>2, <3>1, InvalidateCovers
  <2>2. CASE CommitPage
    <3>1. PICK K : K = {log[s].key : s \in sync.page} OBVIOUS
    <3>2. Invalidate(K) /\ sync.pc = "page" BY <2>2, <3>1 DEF CommitPage
    <3>3. ASSUME NEW k \in Keys \ K, NEW s \in Committed \ skipped, log[s].key = k, s <= cursor'
          PROVE  s <= cursor
      <4>1. s \notin sync.page BY <3>1, <3>3
      <4>2. ~(s > cursor) BY <1>1, <3>2, <3>3, <4>1 DEF SyncInv, PageInv
      <4>3. s \in Seqs BY DEF Committed
      <4> QED BY <4>2, <4>3, SyncTypes, SyncNumbers
    <3> QED BY <1>1, <1>2, <3>2, <3>3, InvalidateCovers
  <2> QED BY <2>1, <2>2
<1>5. sync' \in Sync /\ sync'.pc # "page" /\ passState' \in {"idle", "syncing", "failed", "stopped"}
  <2>1. passState \in {"idle", "syncing", "failed", "stopped"} BY DEF SyncInv, SyncTypeOK
  <2>2. PICK b \in BOOLEAN : b = sync.booted BY <1>2
  <2>3. \A a \in BOOLEAN : [NoSync EXCEPT !.pc = "ask", !.booted = a] \in Sync
                          /\ [NoSync EXCEPT !.pc = "ask", !.booted = a].pc # "page"
    BY SyncFields
  <2>4. CASE sync' = NoSync /\ passState' = "idle" BY <2>4, SyncFields
  <2>5. CASE sync' = [NoSync EXCEPT !.pc = "ask", !.booted = b] /\ passState' = passState
    BY <2>1, <2>3, <2>5
  <2>6. CASE sync' = [NoSync EXCEPT !.pc = "ask", !.booted = TRUE] /\ passState' = passState
    BY <2>1, <2>3, <2>6
  <2> QED BY <2>2, <2>4, <2>5, <2>6 DEF CommitPage, Reset, EndPass
<1>6. PageInv' BY <1>5 DEF PageInv
<1> QED BY <1>1, <1>2, <1>3, <1>4, <1>5, <1>6 DEF SyncInv, SyncTypeOK, server

\* The other steps of a pass, and its failures.
LEMMA PassKeeps ==
  ASSUME SyncInv, RequestSync \/ Drain \/ ReadFloor \/ ReadHighWater \/ RequestFails
  PROVE  SyncInv'
<1>1. UNCHANGED <<server, cursor, cache, fetch, skipped>>
  BY DEF RequestSync, Drain, ReadFloor, ReadHighWater, RequestFails
<1>2. skipped' \subseteq Seqs /\ rerun' \in BOOLEAN /\ syncFaults' \in 0 .. MaxSyncFaults
      /\ passState' \in {"idle", "syncing", "failed", "stopped"}
  <2>1. /\ skipped \subseteq Seqs /\ rerun \in BOOLEAN /\ syncFaults \in 0 .. MaxSyncFaults
        /\ passState \in {"idle", "syncing", "failed", "stopped"}
    BY DEF SyncInv, SyncTypeOK
  <2>2. rerun' \in BOOLEAN /\ passState' \in {"idle", "syncing", "failed", "stopped"}
    BY <2>1 DEF RequestSync, Drain, ReadFloor, ReadHighWater, RequestFails, EndPass
  <2>3. syncFaults' \in 0 .. MaxSyncFaults
    BY <2>1, SyncNumbers DEF RequestSync, Drain, ReadFloor, ReadHighWater, RequestFails, SyncFault
  <2> QED BY <1>1, <2>1, <2>2, <2>3
<1>3. CASE RequestSync
  <2>1. sync' = sync BY <1>3 DEF RequestSync
  <2>2. /\ LogInv' /\ TxnInv' /\ VersionInv' /\ JournalInv' /\ SameChanges BY <1>1, JournalStays
  <2>3. PageInv' /\ CopiesInv' BY <1>1, <2>1, <2>2, ChangesStay
  <2> QED BY <1>1, <1>2, <2>1, <2>2, <2>3 DEF SyncInv, SyncTypeOK, server
<1>4. CASE ~RequestSync
  <2>1. sync \in Sync BY SyncTypes
  <2>2. CASE Drain
    <3>1. [NoSync EXCEPT !.pc = "ask"] \in Sync /\ [NoSync EXCEPT !.pc = "ask"].pc = "ask"
      BY SyncFields DEF Stages
    <3> QED BY <1>1, <1>2, <2>2, <3>1, PassMoves DEF Drain
  <2>3. CASE ReadFloor
    <3>1. sync' = NoSync \/ \E pc \in {"query", "bootstrap"} : sync' = [sync EXCEPT !.pc = pc]
      BY <2>3 DEF ReadFloor, EndPass
    <3>2. \A pc \in {"query", "bootstrap"} :
            [sync EXCEPT !.pc = pc] \in Sync /\ [sync EXCEPT !.pc = pc].pc # "page"
      BY <2>1, SyncFields DEF Stages
    <3>3. sync' \in Sync /\ sync'.pc # "page" BY <3>1, <3>2, SyncFields
    <3> QED BY <1>1, <1>2, <3>3, PassMoves
  <2>4. CASE ReadHighWater
    <3>1. journal \cup {0} \in SUBSET (0 .. MaxSeq)
      <4>1. 0 \in 0 .. MaxSeq BY SyncNumbers
      <4> QED BY <4>1, SyncTypes, SyncNumbers
    <3>2. Max(journal \cup {0}) \in 0 .. MaxSeq BY <3>1, MaxOf, SyncNumbers
    <3>3. sync' \in Sync /\ sync'.pc # "page"
      BY <2>1, <2>4, <3>2, SyncFields DEF ReadHighWater
    <3> QED BY <1>1, <1>2, <3>3, PassMoves
  <2>5. CASE RequestFails
    <3>1. sync' \in Sync /\ sync'.pc # "page" BY <2>5, SyncFields DEF RequestFails, EndPass
    <3> QED BY <1>1, <1>2, <3>1, PassMoves
  <2> QED BY <1>4, <2>2, <2>3, <2>4, <2>5
<1> QED BY <1>3, <1>4

\* The app stops: its reads are forgotten with it, its cache is not.
LEMMA StopKeeps ==
  ASSUME SyncInv, SyncAppStops
  PROVE  SyncInv'
<1>1. UNCHANGED <<server, cursor, cache, skipped>> /\ sync' = NoSync /\ rerun' = FALSE
      /\ fetch' = [k \in Keys |-> NoCopy] /\ passState' = "stopped"
      /\ syncFaults' \in 0 .. MaxSyncFaults
  BY SyncNumbers DEF SyncAppStops, EndPass, SyncFault, SyncInv, SyncTypeOK
<1>2. /\ LogInv' /\ TxnInv' /\ VersionInv' /\ JournalInv' /\ SameChanges BY <1>1, JournalStays
<1>3. PageInv' BY <1>1, SyncFields DEF PageInv
<1>4. CopiesInv' BY <1>1, <1>2 DEF SyncInv, CopiesInv, Covers, SameChanges
<1>5. sync' \in Sync /\ fetch' \in [Keys -> Copy] BY <1>1, SyncFields, CopyFields
<1> QED BY <1>1, <1>2, <1>3, <1>4, <1>5 DEF SyncInv, SyncTypeOK, server

-----------------------------------------------------------------------------
(* The theorems                                                              *)

\* The empty journal and the empty cache agree.
LEMMA SyncStart == SyncInit => SyncInv
<1> SUFFICES ASSUME SyncInit PROVE SyncInv
  OBVIOUS
<1>1. Committed = {} BY EventFields DEF SyncInit, Committed
<1>2. SyncTypeOK
  <2>1. 0 \in 0 .. MaxSeq /\ 0 \in 0 .. (MaxSeq + 1) /\ 0 \in 0 .. MaxSyncFaults BY SyncNumbers
  <2> QED BY <2>1, TxnFields, EventFields, CopyFields, SyncFields DEF SyncInit, SyncTypeOK
<1>3. LogInv
  <2>1. \A s \in Seqs : log[s] = NoEvent <=> s > 0 BY SyncNumbers DEF SyncInit
  <2> QED BY <2>1, SyncNumbers DEF LogInv
<1>4. TxnInv BY TxnFields DEF SyncInit, TxnInv
<1>5. VersionInv BY <1>1 DEF SyncInit, VersionInv
<1>6. JournalInv BY <1>1 DEF SyncInit, JournalInv
<1>7. PageInv BY <1>1 DEF PageInv
<1>8. CopiesInv BY <1>1 DEF CopiesInv, Covers
<1> QED BY <1>2, <1>3, <1>4, <1>5, <1>6, <1>7, <1>8 DEF SyncInv

\* Every step of the server and the device keeps the invariant.
LEMMA SyncStep == SyncInv /\ [SyncNext]_syncVars => SyncInv'
<1> SUFFICES ASSUME SyncInv, [SyncNext]_syncVars PROVE SyncInv'
  OBVIOUS
<1>1. ASSUME NEW w \in Writers, Begin(w) \/ AppendEvent(w) \/ Commit(w) \/ Rollback(w) PROVE SyncInv'
  BY <1>1, BeginKeeps, AppendKeeps, CommitKeeps
<1>2. CASE Prune BY <1>2, PruneKeeps
<1>3. ASSUME NEW k \in Keys, Load(k) \/ CacheLoaded(k) \/ Evict(k) PROVE SyncInv'
  BY <1>3, CacheKeeps
<1>4. CASE RequestSync \/ Pass \/ RequestFails
  BY <1>4, PassKeeps, ReadEventsKeeps, CursorMoves DEF Pass
<1>5. CASE SyncAppStops BY <1>5, StopKeeps
<1>6. CASE UNCHANGED syncVars
  BY <1>6 DEF syncVars, SyncInv, SyncTypeOK, LogInv, TxnInv, VersionInv, JournalInv, PageInv, CopiesInv,
              Covers, Committed
<1> QED BY <1>1, <1>2, <1>3, <1>4, <1>5, <1>6 DEF SyncNext

\* Every change has its event until the floor is above it, and a copy that no
\* sync overtook has every change that the cursor is past and was not skipped.
THEOREM SyncInvariant == SyncSpec => []SyncInv
BY SyncStart, SyncStep, PTL DEF SyncSpec

\* Sequence numbers, cursors, floors and versions stay in their ranges: the
\* changes of a key never outnumber the sequence numbers given out.
THEOREM SyncTypesHold == SyncSpec => []SyncTypeOK
<1>1. SyncInv => SyncTypeOK BY DEF SyncInv
<1> QED BY <1>1, SyncInvariant, PTL

\* For any number of writers, keys and events, pages and retention batches of
\* any size: an entry of the device's cache that is behind the server will be
\* deleted by an event still to come (commitSyncPage) or a full resync
\* (bootstrapSync), unless it fell into one of the three gaps that KnownGap
\* lists.
THEOREM SyncStaleIsCaught == SyncSpec => []StaleIsCaught
<1>1. SyncInv => StaleIsCaught
  <2> SUFFICES ASSUME SyncInv, NEW k \in Keys, Stale(k), ~KnownGap(k), ~ResyncRequired
               PROVE  ToCome(k)
    BY DEF StaleIsCaught
  <2>1. cache[k] # NoCopy /\ ~cache[k].crossed /\ cache[k].seen < version[k]
        /\ ~(cursor = 0 /\ floor > 0) /\ ~(cursor # 0 /\ cursor < floor - 1)
    BY DEF Stale, KnownGap, ResyncRequired
  <2>2. cache[k].seen \in -1 .. MaxSeq /\ version[k] \in 0 .. MaxSeq /\ cursor \in 0 .. MaxSeq
        /\ floor \in 0 .. (MaxSeq + 1)
    BY SyncTypes, CopyFields
  <2>3. version[k] \in 1 .. version[k]
    <3>1. cache[k].seen # -1
      <4>1. cache[k] \in Copy BY SyncTypes
      <4> QED BY <2>1, <4>1 DEF Copy, NoCopy
    <3>2. version[k] > 0 BY <2>1, <2>2, <3>1, SyncNumbers
    <3> QED BY <2>2, <3>2
  <2>4. PICK s \in Committed : log[s].key = k /\ log[s].nth = version[k]
    BY <2>3 DEF SyncInv, VersionInv
  <2>5. s \in Seqs /\ s \in 1 .. MaxSeq BY DEF Committed, Seqs
  <2>6. ~(s <= cursor)
    <3> SUFFICES ASSUME s <= cursor PROVE FALSE
      OBVIOUS
    <3>1. CASE s \in skipped
      <4>1. s \in Unsent(k) BY <2>1, <2>2, <2>4, <3>1, SyncNumbers DEF Unsent
      <4> QED BY <4>1 DEF KnownGap, WentPast
    <3>2. CASE s \notin skipped
      <4>1. log[s].nth <= cache[k].seen BY <2>1, <2>4, <3>2 DEF SyncInv, CopiesInv, Covers
      <4> QED BY <2>1, <2>2, <2>4, <4>1, SyncNumbers
    <3> QED BY <3>1, <3>2
  <2>7. s > cursor BY <2>2, <2>5, <2>6, SyncNumbers
  <2>8. s \in journal
    <3>1. ~(s < floor) BY <2>1, <2>2, <2>5, <2>7, SyncNumbers
    <3> QED BY <3>1 DEF SyncInv, JournalInv
  <2> QED BY <2>4, <2>7, <2>8 DEF ToCome
<1> QED BY <1>1, SyncInvariant, PTL
=============================================================================
