-------------------------- MODULE OpmlImportProofs --------------------------
(***************************************************************************)
(* Proofs about the import of an OPML document, for any number of feeds,   *)
(* workers, web requests and queue deliveries.                             *)
(***************************************************************************)
EXTENDS OpmlImport, FiniteSetTheorems, TLAPS

-----------------------------------------------------------------------------
(* The inductive invariant                                                   *)

\* One retry at a time is inside its transaction.  The entries it has reset,
\* and so locked, are still those that it found without a final outcome, and
\* what it counted has not become less.
LockInv ==
  /\ \A v \in Sessions : session[v].pc # "locked" => session[v].locked = {}
  /\ \A u, v \in Sessions :
       session[u].pc = "locked" /\ session[v].pc = "locked" => u = v
  /\ \A v \in Sessions, e \in Entries :
       e \in session[v].locked => entry[e].status \in {"FAILED", "PROCESSING"}
  /\ \A v \in Sessions : session[v].added <= Cardinality(With("ADDED"))
  /\ \A v \in Sessions : session[v].skipped <= Cardinality(With("SKIPPED"))

\* A worker that imports has an entry, and an outcome once it is through; its
\* batch has room for the entry.
WorkerOK(p) ==
  /\ p.pc \in {"claim", "import", "renew", "finalize"} => p.n < BatchSize
  /\ p.pc \in {"import", "renew", "finalize"} => p.entry \in Entries
  /\ p.pc \in {"renew", "finalize"} => p.result \in Outcomes

WorkInv == \A w \in Workers : WorkerOK(wk[w])

\* An entry with an outcome is not leased.
SettledInv == \A e \in Entries : entry[e].status \in Outcomes => entry[e].left = 0

CountInv == CountersBackedByEntries /\ CompletedMeansFinished

OpmlInv == OpmlTypeOK /\ LockInv /\ WorkInv /\ SettledInv /\ CountInv

-----------------------------------------------------------------------------
(* Records by their fields                                                   *)

JobStatuses == {"NONE"} \cup Active \cup Terminal
EntryStatuses == Active \cup Outcomes

\* Two import rows report the same progress.
SameCounts(j, k) ==
  j.added = k.added /\ j.failed = k.failed /\ j.skipped = k.skipped /\ j.processed = k.processed

\* The constants are the numbers they were assumed to be.
LEMMA OpmlNumbers ==
  /\ Entries \in SUBSET Nat /\ IsFiniteSet(Entries) /\ NoEntry \notin Entries
  /\ Subscribed \subseteq Entries /\ NoOwner \notin Workers /\ NoSlot \notin Slots
  /\ Lease \in Nat /\ Deadline \in Nat /\ BatchDeadline \in Nat /\ BatchSize \in Nat
  /\ MaxAttempts \in Nat /\ MaxStalls \in Nat /\ MaxEvents \in Nat
  /\ Lease > 0 /\ BatchSize > 0 /\ MaxAttempts > 0
BY OpmlAssumption

\* An age stays in its range when time passes.
LEMMA AgeFields ==
  ASSUME NEW limit \in Nat
  PROVE  /\ NoAge \in Ages(limit) /\ 0 \in Ages(limit)
         /\ \A a \in Ages(limit) : Older(a, limit) \in Ages(limit)
BY DEF Ages, NoAge, Older

LEMMA JobFields ==
  /\ \A j \in ImportJob :
       /\ j.status \in JobStatuses /\ j.cancel \in BOOLEAN /\ j.age \in Ages(Deadline)
       /\ j.added \in Nat /\ j.failed \in Nat /\ j.skipped \in Nat /\ j.processed \in Nat
  /\ \A j \in ImportJob, s \in JobStatuses :
       /\ [j EXCEPT !.status = s] \in ImportJob /\ [j EXCEPT !.status = s].status = s
       /\ SameCounts([j EXCEPT !.status = s], j)
  /\ \A j \in ImportJob, b \in BOOLEAN :
       /\ [j EXCEPT !.cancel = b] \in ImportJob /\ [j EXCEPT !.cancel = b].status = j.status
       /\ SameCounts([j EXCEPT !.cancel = b], j)
  /\ \A j \in ImportJob, s \in JobStatuses, a \in Ages(Deadline) :
       /\ [j EXCEPT !.status = s, !.age = a] \in ImportJob
       /\ [j EXCEPT !.status = s, !.age = a].status = s
       /\ SameCounts([j EXCEPT !.status = s, !.age = a], j)
  /\ \A j \in ImportJob, a \in Ages(Deadline) :
       /\ [j EXCEPT !.age = a] \in ImportJob /\ [j EXCEPT !.age = a].status = j.status
       /\ SameCounts([j EXCEPT !.age = a], j)
<1>1. \A j \in ImportJob :
       /\ j.status \in JobStatuses /\ j.cancel \in BOOLEAN /\ j.age \in Ages(Deadline)
       /\ j.added \in Nat /\ j.failed \in Nat /\ j.skipped \in Nat /\ j.processed \in Nat
  BY DEF ImportJob, JobStatuses, SameCounts
<1>2. \A j \in ImportJob, s \in JobStatuses :
       /\ [j EXCEPT !.status = s] \in ImportJob /\ [j EXCEPT !.status = s].status = s
       /\ SameCounts([j EXCEPT !.status = s], j)
  BY DEF ImportJob, JobStatuses, SameCounts
<1>3. \A j \in ImportJob, b \in BOOLEAN :
       /\ [j EXCEPT !.cancel = b] \in ImportJob /\ [j EXCEPT !.cancel = b].status = j.status
       /\ SameCounts([j EXCEPT !.cancel = b], j)
  BY DEF ImportJob, JobStatuses, SameCounts
<1>4. \A j \in ImportJob, s \in JobStatuses, a \in Ages(Deadline) :
       /\ [j EXCEPT !.status = s, !.age = a] \in ImportJob
       /\ [j EXCEPT !.status = s, !.age = a].status = s
       /\ SameCounts([j EXCEPT !.status = s, !.age = a], j)
  BY DEF ImportJob, JobStatuses, SameCounts
<1>5. \A j \in ImportJob, a \in Ages(Deadline) :
       /\ [j EXCEPT !.age = a] \in ImportJob /\ [j EXCEPT !.age = a].status = j.status
       /\ SameCounts([j EXCEPT !.age = a], j)
  BY DEF ImportJob, JobStatuses, SameCounts
<1> QED BY <1>1, <1>2, <1>3, <1>4, <1>5

LEMMA EntryFields ==
  /\ \A e \in ImportJobEntry :
       /\ e.status \in EntryStatuses /\ e.attempt \in Nat /\ e.left \in 0 .. Lease
       /\ e.owner \in Workers \cup {NoOwner}
  /\ \A s \in EntryStatuses, a \in Nat, o \in Workers \cup {NoOwner}, l \in 0 .. Lease :
       [status |-> s, attempt |-> a, owner |-> o, left |-> l] \in ImportJobEntry
  /\ \A e \in ImportJobEntry, l \in 0 .. Lease :
       /\ [e EXCEPT !.left = l] \in ImportJobEntry /\ [e EXCEPT !.left = l].left = l
       /\ [e EXCEPT !.left = l].status = e.status
  /\ \A e \in ImportJobEntry, s \in EntryStatuses :
       LET f == [e EXCEPT !.status = s, !.owner = NoOwner, !.left = 0]
       IN  f \in ImportJobEntry /\ f.status = s /\ f.left = 0
<1>1. \A e \in ImportJobEntry :
       /\ e.status \in EntryStatuses /\ e.attempt \in Nat /\ e.left \in 0 .. Lease
       /\ e.owner \in Workers \cup {NoOwner}
  BY OpmlNumbers DEF ImportJobEntry, EntryStatuses
<1>2. \A s \in EntryStatuses, a \in Nat, o \in Workers \cup {NoOwner}, l \in 0 .. Lease :
       [status |-> s, attempt |-> a, owner |-> o, left |-> l] \in ImportJobEntry
  BY OpmlNumbers DEF ImportJobEntry, EntryStatuses
<1>3. \A e \in ImportJobEntry, l \in 0 .. Lease :
       /\ [e EXCEPT !.left = l] \in ImportJobEntry /\ [e EXCEPT !.left = l].left = l
       /\ [e EXCEPT !.left = l].status = e.status
  BY OpmlNumbers DEF ImportJobEntry, EntryStatuses
<1>4. ASSUME NEW e \in ImportJobEntry, NEW s \in EntryStatuses
      PROVE  LET f == [e EXCEPT !.status = s, !.owner = NoOwner, !.left = 0]
             IN  f \in ImportJobEntry /\ f.status = s /\ f.left = 0
  <2>1. 0 \in 0 .. Lease BY OpmlNumbers
  <2>2. [e EXCEPT !.status = s, !.owner = NoOwner, !.left = 0] \in ImportJobEntry
    BY <2>1 DEF ImportJobEntry, EntryStatuses
  <2>3. /\ [e EXCEPT !.status = s, !.owner = NoOwner, !.left = 0].status = s
        /\ [e EXCEPT !.status = s, !.owner = NoOwner, !.left = 0].left = 0
    BY DEF ImportJobEntry
  <2> QED BY <2>2, <2>3
<1> QED BY <1>1, <1>2, <1>3, <1>4

LEMMA QueueFields ==
  /\ NoDelivery \in QueueJob /\ Fresh \in QueueJob
  /\ \A q \in QueueJob : q.made \in Nat /\ q.stalls \in Nat /\ q.stalls <= MaxStalls
  /\ \A q \in QueueJob, w \in Workers : [q EXCEPT !.state = "active", !.holder = w] \in QueueJob
  /\ \A q \in QueueJob : q.made + 1 < MaxAttempts =>
       [q EXCEPT !.state = "wait", !.made = q.made + 1, !.holder = NoOwner] \in QueueJob
  /\ \A q \in QueueJob : q.stalls < MaxStalls =>
       [q EXCEPT !.state = "wait", !.stalls = q.stalls + 1, !.holder = NoOwner] \in QueueJob
<1>1. NoDelivery \in QueueJob
  BY OpmlNumbers DEF QueueJob, NoDelivery
<1>2. Fresh \in QueueJob
  BY <1>1 DEF QueueJob, Fresh
<1>3. \A q \in QueueJob : q.made \in Nat /\ q.stalls \in Nat /\ q.stalls <= MaxStalls
  BY OpmlNumbers DEF QueueJob
<1>4. \A q \in QueueJob, w \in Workers : [q EXCEPT !.state = "active", !.holder = w] \in QueueJob
  BY DEF QueueJob
<1>5. ASSUME NEW q \in QueueJob, q.made + 1 < MaxAttempts
      PROVE  [q EXCEPT !.state = "wait", !.made = q.made + 1, !.holder = NoOwner] \in QueueJob
  <2>1. q.made + 1 \in 0 .. MaxAttempts BY <1>3, <1>5, OpmlNumbers
  <2> QED BY <2>1 DEF QueueJob
<1>6. ASSUME NEW q \in QueueJob, q.stalls < MaxStalls
      PROVE  [q EXCEPT !.state = "wait", !.stalls = q.stalls + 1, !.holder = NoOwner] \in QueueJob
  <2>1. q.stalls + 1 \in 0 .. MaxStalls BY <1>3, <1>6, OpmlNumbers
  <2> QED BY <2>1 DEF QueueJob
<1> QED BY <1>1, <1>2, <1>3, <1>4, <1>5, <1>6

LEMMA SessionFields ==
  /\ IdleSession \in SessionState /\ IdleSession.pc = "idle" /\ IdleSession.locked = {}
  /\ IdleSession.added = 0 /\ IdleSession.skipped = 0
  /\ \A s \in SessionState :
       s.locked \in SUBSET Entries /\ s.added \in Nat /\ s.skipped \in Nat
  /\ \A s \in SessionState, pc \in {"idle", "created", "retry", "locked", "enqueue"} :
       /\ [s EXCEPT !.pc = pc] \in SessionState /\ [s EXCEPT !.pc = pc].pc = pc
       /\ [s EXCEPT !.pc = pc].locked = s.locked
       /\ [s EXCEPT !.pc = pc].added = s.added /\ [s EXCEPT !.pc = pc].skipped = s.skipped
BY DEF SessionState, IdleSession

LEMMA WorkerFields ==
  /\ Idle \in WorkerState /\ Idle.pc = "idle" /\ WorkerOK(Idle)
  /\ \A p \in WorkerState :
       /\ p.pc \in Stages /\ p.slot \in Slots \cup {NoSlot} /\ p.age \in Ages(Deadline)
       /\ p.batch \in Ages(BatchDeadline) /\ p.n \in 0 .. BatchSize
       /\ p.entry \in Entries \cup {NoEntry} /\ p.attempt \in Nat
       /\ p.held \in BOOLEAN /\ p.result \in Outcomes \cup {"none"}
  /\ \A p \in WorkerState, pc \in Stages :
       LET q == [p EXCEPT !.pc = pc]
       IN  /\ q \in WorkerState /\ q.pc = pc /\ q.n = p.n /\ q.entry = p.entry
           /\ q.result = p.result
<1>1. Idle \in WorkerState /\ Idle.pc = "idle"
  BY OpmlNumbers DEF Idle, WorkerState, Stages, Ages
<1>2. WorkerOK(Idle) BY DEF WorkerOK, Idle
<1>3. \A p \in WorkerState :
       /\ p.pc \in Stages /\ p.slot \in Slots \cup {NoSlot} /\ p.age \in Ages(Deadline)
       /\ p.batch \in Ages(BatchDeadline) /\ p.n \in 0 .. BatchSize
       /\ p.entry \in Entries \cup {NoEntry} /\ p.attempt \in Nat
       /\ p.held \in BOOLEAN /\ p.result \in Outcomes \cup {"none"}
  BY DEF WorkerState
<1>4. \A p \in WorkerState, pc \in Stages :
       LET q == [p EXCEPT !.pc = pc]
       IN  /\ q \in WorkerState /\ q.pc = pc /\ q.n = p.n /\ q.entry = p.entry
           /\ q.result = p.result
  BY DEF WorkerState
<1> QED BY <1>1, <1>2, <1>3, <1>4

-----------------------------------------------------------------------------
(* Entries advance                                                           *)

\* Outside the transaction of a retry, an entry changes its status only from
\* PENDING or PROCESSING, and only when no retry has locked it.
EntriesAdvance ==
  \A e \in Entries :
    entry'[e].status = entry[e].status \/
      (Unlocked(e) /\ entry[e].status \in Active /\ entry'[e].status \in EntryStatuses)

\* Sets of entries are finite.
LEMMA WithFinite ==
  \A s : /\ With(s) \subseteq Entries /\ IsFiniteSet(With(s)) /\ Cardinality(With(s)) \in Nat
         /\ With(s)' \subseteq Entries /\ IsFiniteSet(With(s)') /\ Cardinality(With(s)') \in Nat
<1> TAKE s
<1>1. With(s) \subseteq Entries /\ With(s)' \subseteq Entries BY DEF With
<1>2. IsFiniteSet(With(s)) /\ IsFiniteSet(With(s)') BY <1>1, FS_Subset, OpmlNumbers
<1> QED BY <1>1, <1>2, FS_CardinalityType

\* When entries advance, those with an outcome become more, and a finished
\* import stays finished.
LEMMA OutcomesGrow ==
  ASSUME OpmlInv, EntriesAdvance
  PROVE  /\ \A s \in Outcomes : With(s) \subseteq With(s)'
         /\ \A s \in Outcomes : Cardinality(With(s)) <= Cardinality(With(s)')
         /\ Unfinished = {} => Unfinished' = {}
<1>1. \A s \in Outcomes : With(s) \subseteq With(s)'
  BY DEF EntriesAdvance, With, Outcomes, Active
<1>2. \A s \in Outcomes : Cardinality(With(s)) <= Cardinality(With(s)')
  BY <1>1, WithFinite, FS_Subset
<1>3. ASSUME Unfinished = {} PROVE Unfinished' = {}
  BY <1>3 DEF EntriesAdvance, Unfinished, With, Active
<1> QED BY <1>1, <1>2, <1>3

\* What a retry has locked and counted stays true while entries advance.
LEMMA LocksStay ==
  ASSUME OpmlInv, EntriesAdvance, UNCHANGED session
  PROVE  LockInv'
<1>1. /\ \A v \in Sessions : session'[v].pc # "locked" => session'[v].locked = {}
      /\ \A u, v \in Sessions :
           session'[u].pc = "locked" /\ session'[v].pc = "locked" => u = v
  BY DEF OpmlInv, LockInv
<1>2. \A v \in Sessions, e \in Entries :
        e \in session'[v].locked => entry'[e].status \in {"FAILED", "PROCESSING"}
  BY DEF OpmlInv, LockInv, EntriesAdvance, Unlocked
<1>3. ASSUME NEW v \in Sessions
      PROVE  /\ session'[v].added <= Cardinality(With("ADDED")')
             /\ session'[v].skipped <= Cardinality(With("SKIPPED")')
  <2>1. session[v].added \in Nat /\ session[v].skipped \in Nat
    BY SessionFields DEF OpmlInv, OpmlTypeOK
  <2>2. /\ session[v].added <= Cardinality(With("ADDED"))
        /\ session[v].skipped <= Cardinality(With("SKIPPED"))
    BY DEF OpmlInv, LockInv
  <2>3. /\ Cardinality(With("ADDED")) <= Cardinality(With("ADDED")')
        /\ Cardinality(With("SKIPPED")) <= Cardinality(With("SKIPPED")')
    BY OutcomesGrow DEF Outcomes
  <2> QED BY <2>1, <2>2, <2>3, WithFinite
<1> QED BY <1>1, <1>2, <1>3 DEF LockInv

\* So do the counters that are left alone, and the completion of the import.
LEMMA CountsStay ==
  ASSUME OpmlInv, EntriesAdvance, SameCounts(job', job),
         job'.status = "COMPLETED" => job.status = "COMPLETED" \/ Unfinished = {}
  PROVE  CountInv'
<1>1. /\ job.added \in Nat /\ job.skipped \in Nat /\ job.failed \in Nat
  BY JobFields DEF OpmlInv, OpmlTypeOK
<1>2. /\ Cardinality(With("ADDED")) <= Cardinality(With("ADDED")')
      /\ Cardinality(With("SKIPPED")) <= Cardinality(With("SKIPPED")')
      /\ Cardinality(With("FAILED")) <= Cardinality(With("FAILED")')
  BY OutcomesGrow DEF Outcomes
<1>3. CountersBackedByEntries'
  BY <1>1, <1>2, WithFinite DEF OpmlInv, CountInv, CountersBackedByEntries, SameCounts
<1>4. CompletedMeansFinished'
  BY OutcomesGrow DEF OpmlInv, CountInv, CompletedMeansFinished
<1> QED BY <1>3, <1>4 DEF CountInv

\* Entries that do not change advance.
LEMMA EntriesSame ==
  ASSUME UNCHANGED entry
  PROVE  EntriesAdvance /\ (SettledInv => SettledInv')
BY DEF EntriesAdvance, SettledInv

\* A request that is not in its transaction changes no lock.
LEMMA SessionMoves ==
  ASSUME OpmlInv, UNCHANGED entry, NEW v \in Sessions, NEW s \in SessionState,
         s.pc # "locked", s.locked = {},
         s.added \in {0, session[v].added}, s.skipped \in {0, session[v].skipped},
         session' = [session EXCEPT ![v] = s]
  PROVE  session' \in [Sessions -> SessionState] /\ LockInv'
<1>0. session \in [Sessions -> SessionState] BY DEF OpmlInv, OpmlTypeOK
<1>1. session' \in [Sessions -> SessionState] BY <1>0
<1>2. \A u \in Sessions : session'[u] = IF u = v THEN s ELSE session[u] BY <1>0
<1>3. \A x : With(x)' = With(x) BY DEF With
<1>4. /\ \A u \in Sessions : session'[u].pc # "locked" => session'[u].locked = {}
      /\ \A u, x \in Sessions :
           session'[u].pc = "locked" /\ session'[x].pc = "locked" => u = x
  BY <1>2 DEF OpmlInv, LockInv
<1>5. \A u \in Sessions, e \in Entries :
        e \in session'[u].locked => entry'[e].status \in {"FAILED", "PROCESSING"}
  BY <1>2 DEF OpmlInv, LockInv
<1>6. ASSUME NEW u \in Sessions
      PROVE  /\ session'[u].added <= Cardinality(With("ADDED")')
             /\ session'[u].skipped <= Cardinality(With("SKIPPED")')
  <2>1. /\ session[u].added <= Cardinality(With("ADDED"))
        /\ session[u].skipped <= Cardinality(With("SKIPPED"))
    BY DEF OpmlInv, LockInv
  <2>2. session[u].added \in Nat /\ session[u].skipped \in Nat BY <1>0, SessionFields
  <2> QED BY <1>2, <1>3, <2>1, <2>2, WithFinite
<1> QED BY <1>1, <1>4, <1>5, <1>6 DEF LockInv

\* A worker moves to a state of its type.
LEMMA WorkerMoves ==
  ASSUME OpmlInv, NEW w \in Workers, NEW p \in WorkerState, WorkerOK(p),
         wk' = [wk EXCEPT ![w] = p]
  PROVE  wk' \in [Workers -> WorkerState] /\ WorkInv'
<1>0. wk \in [Workers -> WorkerState] BY DEF OpmlInv, OpmlTypeOK
<1>1. \A u \in Workers : wk'[u] = IF u = w THEN p ELSE wk[u] BY <1>0
<1>2. WorkInv' BY <1>1 DEF OpmlInv, WorkInv
<1> QED BY <1>0, <1>2

\* It moves to another stage: what the stage demands must hold already.
LEMMA WorkerGoes ==
  ASSUME OpmlInv, NEW w \in Workers, NEW pc \in Stages, GoTo(w, pc),
         pc \in {"claim", "import", "renew", "finalize"} => wk[w].n < BatchSize,
         pc \in {"import", "renew", "finalize"} => wk[w].entry \in Entries,
         pc \in {"renew", "finalize"} => wk[w].result \in Outcomes
  PROVE  wk' \in [Workers -> WorkerState] /\ WorkInv'
<1>0. wk[w] \in WorkerState BY DEF OpmlInv, OpmlTypeOK
<1> DEFINE p == [wk[w] EXCEPT !.pc = pc]
<1>1. p \in WorkerState /\ p.pc = pc /\ p.n = wk[w].n /\ p.entry = wk[w].entry
      /\ p.result = wk[w].result
  BY <1>0, WorkerFields
<1>2. wk' = [wk EXCEPT ![w] = p] BY DEF GoTo
<1> HIDE DEF p
<1>3. WorkerOK(p) BY <1>1 DEF WorkerOK
<1> QED BY <1>1, <1>2, <1>3, WorkerMoves

\* A queue job that is removed or added keeps the queue's type.
LEMMA QueueMoves ==
  ASSUME OpmlInv, NEW s, NEW q \in QueueJob, queue' = [queue EXCEPT ![s] = q]
  PROVE  queue' \in [Slots -> QueueJob]
BY DEF OpmlInv, OpmlTypeOK

LEMMA QueueDone ==
  ASSUME OpmlInv, NEW w \in Workers, Done(w)
  PROVE  /\ queue' \in [Slots -> QueueJob]
         /\ wk' \in [Workers -> WorkerState] /\ WorkInv'
<1>1. queue' \in [Slots -> QueueJob]
  BY QueueMoves, QueueFields DEF Done, OpmlInv, OpmlTypeOK
<1>2. wk' = [wk EXCEPT ![w] = Idle] BY DEF Done
<1> QED BY <1>1, <1>2, WorkerMoves, WorkerFields

\* The number of events stays below its bound.
LEMMA EventsBounded ==
  ASSUME OpmlInv, Event \/ UNCHANGED events
  PROVE  events' \in 0 .. MaxEvents
BY OpmlNumbers DEF OpmlInv, OpmlTypeOK, Event

\* A step outside the retry: its parts make the invariant.
LEMMA StepKeeps ==
  ASSUME OpmlInv, EntriesAdvance, UNCHANGED session,
         job' \in ImportJob, SameCounts(job', job),
         job'.status = "COMPLETED" => job.status = "COMPLETED" \/ Unfinished = {},
         entry' \in [Entries -> ImportJobEntry], SettledInv',
         subs' \subseteq Entries, disabled' \in BOOLEAN,
         queue' \in [Slots -> QueueJob],
         wk' \in [Workers -> WorkerState], WorkInv', Event \/ UNCHANGED events
  PROVE  OpmlInv'
<1>1. events' \in 0 .. MaxEvents BY EventsBounded
<1>2. session' \in [Sessions -> SessionState] BY DEF OpmlInv, OpmlTypeOK
<1>3. OpmlTypeOK' BY <1>1, <1>2 DEF OpmlTypeOK
<1> QED BY <1>3, LocksStay, CountsStay DEF OpmlInv

\* An import row that only changes its status to one of the ends.
LEMMA JobEnds ==
  ASSUME OpmlInv, NEW s \in JobStatuses, NEW cond \in BOOLEAN,
         job' = IF cond THEN [job EXCEPT !.status = s] ELSE job,
         s = "COMPLETED" => (cond => Unfinished = {})
  PROVE  /\ job' \in ImportJob /\ SameCounts(job', job)
         /\ job'.status = "COMPLETED" => job.status = "COMPLETED" \/ Unfinished = {}
<1>1. job \in ImportJob BY DEF OpmlInv, OpmlTypeOK
<1>2. CASE cond
  <2>1. job' = [job EXCEPT !.status = s] BY <1>2
  <2>2. /\ [job EXCEPT !.status = s] \in ImportJob /\ [job EXCEPT !.status = s].status = s
        /\ SameCounts([job EXCEPT !.status = s], job)
    BY <1>1, JobFields
  <2>3. s = "COMPLETED" => Unfinished = {} BY <1>2
  <2> QED BY <2>1, <2>2, <2>3
<1>3. CASE ~cond
  <2>1. job' = job BY <1>3
  <2> QED BY <1>1, <2>1 DEF SameCounts
<1> QED BY <1>2, <1>3

-----------------------------------------------------------------------------
(* One lemma per action: the web process                                     *)

LEMMA CreateImportKeeps ==
  ASSUME OpmlInv, NEW v \in Sessions, CreateImport(v)
  PROVE  OpmlInv'
<1>0. job \in ImportJob /\ session[v] \in SessionState BY DEF OpmlInv, OpmlTypeOK
<1>1. job' = [job EXCEPT !.status = "PENDING"] BY DEF CreateImport
<1>2. job' \in ImportJob /\ SameCounts(job', job) /\ job'.status = "PENDING"
  BY <1>0, <1>1, JobFields DEF JobStatuses, Active
<1> DEFINE s == [session[v] EXCEPT !.pc = "created"]
<1>3. /\ s \in SessionState /\ s.pc = "created" /\ s.locked = session[v].locked
      /\ s.added = session[v].added /\ s.skipped = session[v].skipped
  BY <1>0, SessionFields
<1>4. session' = [session EXCEPT ![v] = s] BY DEF CreateImport
<1> HIDE DEF s
<1>5. session[v].locked = {} BY DEF CreateImport, OpmlInv, LockInv
<1>6. UNCHANGED entry BY DEF CreateImport
<1>7. session' \in [Sessions -> SessionState] /\ LockInv'
  BY <1>3, <1>4, <1>5, <1>6, SessionMoves
<1>8. OpmlTypeOK'
  BY <1>2, <1>7 DEF OpmlInv, OpmlTypeOK, CreateImport
<1>9. EntriesAdvance /\ SettledInv' BY <1>6, EntriesSame DEF OpmlInv
<1>10. CountInv' BY <1>2, <1>9, CountsStay
<1>11. WorkInv' BY DEF OpmlInv, WorkInv, CreateImport
<1> QED BY <1>7, <1>8, <1>9, <1>10, <1>11 DEF OpmlInv

\* A session becomes idle, and the import row at most FAILED.
LEMMA SessionEnds ==
  ASSUME OpmlInv, NEW v \in Sessions, session' = [session EXCEPT ![v] = IdleSession],
         UNCHANGED <<entry, subs, disabled, wk>>, queue' \in [Slots -> QueueJob],
         Event \/ UNCHANGED events,
         NEW cond \in BOOLEAN, job' = IF cond THEN [job EXCEPT !.status = "FAILED"] ELSE job
  PROVE  OpmlInv'
<1>1. session' \in [Sessions -> SessionState] /\ LockInv'
  BY SessionFields, SessionMoves
<1>2. job' \in ImportJob /\ SameCounts(job', job)
      /\ (job'.status = "COMPLETED" => job.status = "COMPLETED" \/ Unfinished = {})
  <2>1. "FAILED" \in JobStatuses /\ "FAILED" # "COMPLETED" BY DEF JobStatuses, Terminal
  <2> QED BY <2>1, JobEnds
<1>3. EntriesAdvance /\ SettledInv' BY EntriesSame DEF OpmlInv
<1>4. CountInv' BY <1>2, <1>3, CountsStay
<1>5. WorkInv' BY DEF OpmlInv, WorkInv
<1>6. OpmlTypeOK' BY <1>1, <1>2, EventsBounded DEF OpmlInv, OpmlTypeOK
<1> QED BY <1>1, <1>3, <1>4, <1>5, <1>6 DEF OpmlInv

LEMMA StartQueueKeeps ==
  ASSUME OpmlInv, NEW v \in Sessions, StartQueue(v)
  PROVE  OpmlInv'
<1>0. /\ session' = [session EXCEPT ![v] = IdleSession]
      /\ UNCHANGED <<entry, subs, disabled, wk>>
  BY DEF StartQueue
<1>1. CASE Enqueue /\ UNCHANGED <<job, events>>
  <2>1. PICK s \in FreeSlots : queue' = [queue EXCEPT ![s] = Fresh] BY <1>1 DEF Enqueue
  <2>2. queue' \in [Slots -> QueueJob] BY <2>1, QueueMoves, QueueFields
  <2>3. job' = IF FALSE THEN [job EXCEPT !.status = "FAILED"] ELSE job BY <1>1
  <2> QED BY <1>0, <1>1, <2>2, <2>3, SessionEnds
<1>2. CASE Event /\ UNCHANGED queue
           /\ job' = IF session[v].pc = "created" \/ job.status \in Active
                     THEN [job EXCEPT !.status = "FAILED"] ELSE job
  <2>1. queue' \in [Slots -> QueueJob] BY <1>2 DEF OpmlInv, OpmlTypeOK
  <2> DEFINE cond == session[v].pc = "created" \/ job.status \in Active
  <2>2. cond \in BOOLEAN OBVIOUS
  <2>3. job' = IF cond THEN [job EXCEPT !.status = "FAILED"] ELSE job BY <1>2
  <2> HIDE DEF cond
  <2> QED BY <1>0, <1>2, <2>1, <2>2, <2>3, SessionEnds
<1> QED BY <1>1, <1>2 DEF StartQueue

LEMMA StopSessionKeeps ==
  ASSUME OpmlInv, NEW v \in Sessions, StopSession(v)
  PROVE  OpmlInv'
<1>1. /\ session' = [session EXCEPT ![v] = IdleSession]
      /\ UNCHANGED <<entry, subs, disabled, wk>> /\ Event
      /\ job' = IF FALSE THEN [job EXCEPT !.status = "FAILED"] ELSE job
  BY DEF StopSession
<1>2. queue' \in [Slots -> QueueJob] BY DEF OpmlInv, OpmlTypeOK, StopSession
<1> QED BY <1>1, <1>2, SessionEnds

\* Asking for cancellation changes only the import row.
LEMMA CancelKeeps ==
  ASSUME OpmlInv, CancelImport \/ DisableUser
  PROVE  OpmlInv'
<1>0. job \in ImportJob BY DEF OpmlInv, OpmlTypeOK
<1>1. PICK b \in BOOLEAN : job' = [job EXCEPT !.cancel = b]
  <2>1. job.cancel \in BOOLEAN BY <1>0, JobFields
  <2>2. CASE CancelImport BY <2>2 DEF CancelImport
  <2>3. CASE DisableUser
    <3>1. job' = [job EXCEPT !.cancel = job.cancel \/ job.status \in Active]
      BY <2>3 DEF DisableUser
    <3> QED BY <3>1
  <2> QED BY <2>2, <2>3
<1>2. job' \in ImportJob /\ SameCounts(job', job) /\ job'.status = job.status
  BY <1>0, <1>1, JobFields
<1>3. /\ UNCHANGED <<entry, subs, queue, wk, session>> /\ Event /\ disabled' \in BOOLEAN
  BY DEF CancelImport, DisableUser, OpmlInv, OpmlTypeOK
<1>4. EntriesAdvance /\ SettledInv' BY <1>3, EntriesSame DEF OpmlInv
<1>5. WorkInv' BY <1>3 DEF OpmlInv, WorkInv
<1>6. /\ entry' \in [Entries -> ImportJobEntry] /\ subs' \subseteq Entries
      /\ queue' \in [Slots -> QueueJob] /\ wk' \in [Workers -> WorkerState]
  BY <1>3 DEF OpmlInv, OpmlTypeOK
<1> QED BY <1>2, <1>3, <1>4, <1>5, <1>6, StepKeeps

LEMMA RetryReadKeeps ==
  ASSUME OpmlInv, NEW v \in Sessions, RetryRead(v)
  PROVE  OpmlInv'
<1>0. session[v] \in SessionState BY DEF OpmlInv, OpmlTypeOK
<1> DEFINE s == [session[v] EXCEPT !.pc = "retry"]
<1>1. /\ s \in SessionState /\ s.pc = "retry" /\ s.locked = session[v].locked
      /\ s.added = session[v].added /\ s.skipped = session[v].skipped
  BY <1>0, SessionFields
<1>2. session' = [session EXCEPT ![v] = s] BY DEF RetryRead
<1> HIDE DEF s
<1>3. session[v].locked = {} BY DEF RetryRead, OpmlInv, LockInv
<1>4. UNCHANGED <<job, entry, subs, disabled, queue, wk>> /\ Event BY DEF RetryRead
<1>5. session' \in [Sessions -> SessionState] /\ LockInv'
  BY <1>1, <1>2, <1>3, <1>4, SessionMoves
<1>6. OpmlTypeOK' BY <1>4, <1>5, EventsBounded DEF OpmlInv, OpmlTypeOK
<1>7. EntriesAdvance /\ SettledInv' BY <1>4, EntriesSame DEF OpmlInv
<1>8. CountInv' BY <1>4, <1>7, CountsStay DEF SameCounts
<1>9. WorkInv' BY <1>4 DEF OpmlInv, WorkInv
<1> QED BY <1>5, <1>6, <1>7, <1>8, <1>9 DEF OpmlInv

\* The transaction of a retry locks entries without a final outcome and counts
\* the others.
LEMMA RetryResetKeeps ==
  ASSUME OpmlInv, NEW v \in Sessions, RetryReset(v)
  PROVE  OpmlInv'
<1> DEFINE s == [pc |-> "locked", locked |-> With("FAILED") \cup With("PROCESSING"),
                 added |-> Cardinality(With("ADDED")),
                 skipped |-> Cardinality(With("SKIPPED"))]
<1>0. session \in [Sessions -> SessionState] BY DEF OpmlInv, OpmlTypeOK
<1>1. s \in SessionState BY WithFinite DEF SessionState
<1>2. /\ s.pc = "locked" /\ s.locked = With("FAILED") \cup With("PROCESSING")
      /\ s.added = Cardinality(With("ADDED")) /\ s.skipped = Cardinality(With("SKIPPED"))
  OBVIOUS
<1>3. session' = [session EXCEPT ![v] = s] BY DEF RetryReset
<1> HIDE DEF s
<1>4. UNCHANGED <<job, entry, subs, disabled, queue, wk, events>> BY DEF RetryReset
<1>5. session' \in [Sessions -> SessionState] BY <1>0, <1>1, <1>3
<1>6. \A u \in Sessions : session'[u] = IF u = v THEN s ELSE session[u] BY <1>0, <1>3
<1>7. \A x : With(x)' = With(x) BY <1>4 DEF With
<1>8. LockInv'
  <2>1. \A u \in Sessions : session'[u].pc # "locked" => session'[u].locked = {}
    BY <1>2, <1>6 DEF OpmlInv, LockInv
  <2>2. \A u, x \in Sessions :
          session'[u].pc = "locked" /\ session'[x].pc = "locked" => u = x
    BY <1>6 DEF RetryReset
  <2>3. \A u \in Sessions, e \in Entries :
          e \in session'[u].locked => entry'[e].status \in {"FAILED", "PROCESSING"}
    BY <1>2, <1>4, <1>6 DEF OpmlInv, LockInv, With
  <2>4. ASSUME NEW u \in Sessions
        PROVE  /\ session'[u].added <= Cardinality(With("ADDED")')
               /\ session'[u].skipped <= Cardinality(With("SKIPPED")')
    <3>1. /\ session[u].added <= Cardinality(With("ADDED"))
          /\ session[u].skipped <= Cardinality(With("SKIPPED"))
      BY DEF OpmlInv, LockInv
    <3> QED BY <1>2, <1>6, <1>7, <3>1, WithFinite
  <2> QED BY <2>1, <2>2, <2>3, <2>4 DEF LockInv
<1>9. OpmlTypeOK' BY <1>4, <1>5 DEF OpmlInv, OpmlTypeOK
<1>10. EntriesAdvance /\ SettledInv' BY <1>4, EntriesSame DEF OpmlInv
<1>11. CountInv' BY <1>4, <1>10, CountsStay DEF SameCounts
<1>12. WorkInv' BY <1>4 DEF OpmlInv, WorkInv
<1> QED BY <1>8, <1>9, <1>10, <1>11, <1>12 DEF OpmlInv

\* What the transaction writes: the entries it locked are PENDING again, and
\* those with a final outcome are as they were.
LEMMA RetryWriteEntries ==
  ASSUME OpmlInv, NEW v \in Sessions, RetryWrite(v)
  PROVE  /\ entry' \in [Entries -> ImportJobEntry] /\ SettledInv'
         /\ \A e \in Entries : entry[e].status \in {"ADDED", "SKIPPED"} => entry'[e] = entry[e]
         /\ With("ADDED")' = With("ADDED") /\ With("SKIPPED")' = With("SKIPPED")
<1> DEFINE reset(e) == [status |-> "PENDING", attempt |-> entry[e].attempt,
                        owner |-> NoOwner, left |-> 0]
<1>0. entry \in [Entries -> ImportJobEntry] BY DEF OpmlInv, OpmlTypeOK
<1>1. \A e \in Entries : reset(e) \in ImportJobEntry /\ reset(e).status = "PENDING"
  <2> TAKE e \in Entries
  <2>1. entry[e].attempt \in Nat BY <1>0, EntryFields
  <2>2. 0 \in 0 .. Lease /\ "PENDING" \in EntryStatuses
    BY OpmlNumbers DEF EntryStatuses, Active
  <2> QED BY <2>1, <2>2, EntryFields
<1>2. entry' = [e \in Entries |-> IF e \in session[v].locked THEN reset(e) ELSE entry[e]]
  BY DEF RetryWrite
<1> HIDE DEF reset
<1>3. \A e \in Entries : entry'[e] = IF e \in session[v].locked THEN reset(e) ELSE entry[e]
  BY <1>2
<1>4. entry' \in [Entries -> ImportJobEntry] BY <1>0, <1>1, <1>2
<1>5. SettledInv' BY <1>1, <1>3 DEF OpmlInv, SettledInv, Outcomes
<1>6. \A e \in Entries : e \in session[v].locked => entry[e].status \in {"FAILED", "PROCESSING"}
  BY DEF OpmlInv, LockInv
<1>7. \A e \in Entries : entry[e].status \in {"ADDED", "SKIPPED"} => entry'[e] = entry[e]
  BY <1>3, <1>6
<1>8. With("ADDED")' = With("ADDED") /\ With("SKIPPED")' = With("SKIPPED")
  BY <1>1, <1>3, <1>6 DEF With
<1> QED BY <1>4, <1>5, <1>7, <1>8

LEMMA RetryWriteKeeps ==
  ASSUME OpmlInv, NEW v \in Sessions, RetryWrite(v)
  PROVE  OpmlInv'
<1>0. session \in [Sessions -> SessionState] BY DEF OpmlInv, OpmlTypeOK
<1> DEFINE s == [IdleSession EXCEPT !.pc = "enqueue"]
<1>1. /\ s \in SessionState /\ s.pc = "enqueue" /\ s.locked = {} /\ s.added = 0 /\ s.skipped = 0
  BY SessionFields
<1>2. session' = [session EXCEPT ![v] = s] BY DEF RetryWrite
<1> HIDE DEF s
<1>3. session' \in [Sessions -> SessionState] BY <1>0, <1>1, <1>2
<1>4. \A u \in Sessions : session'[u] = IF u = v THEN s ELSE session[u] BY <1>0, <1>2
<1>5. \A u \in Sessions : session'[u].locked = {} /\ session'[u].pc # "locked"
  BY <1>1, <1>4 DEF OpmlInv, LockInv, RetryWrite
<1>6. ASSUME NEW u \in Sessions
      PROVE  /\ session'[u].added <= Cardinality(With("ADDED")')
             /\ session'[u].skipped <= Cardinality(With("SKIPPED")')
  <2>1. /\ session[u].added <= Cardinality(With("ADDED"))
        /\ session[u].skipped <= Cardinality(With("SKIPPED"))
    BY DEF OpmlInv, LockInv
  <2> QED BY <1>1, <1>4, <2>1, RetryWriteEntries, WithFinite
<1>7. LockInv' BY <1>5, <1>6 DEF LockInv
<1>8. /\ session[v].added \in Nat /\ session[v].skipped \in Nat
      /\ session[v].added <= Cardinality(With("ADDED"))
      /\ session[v].skipped <= Cardinality(With("SKIPPED"))
  BY <1>0, SessionFields DEF OpmlInv, LockInv
<1>9. /\ job'.status = "PENDING" /\ job'.added = session[v].added /\ job'.failed = 0
      /\ job'.skipped = session[v].skipped
      /\ job'.processed = session[v].added + session[v].skipped
  BY DEF RetryWrite
<1>10. job' \in ImportJob
  <2>1. session[v].added + session[v].skipped \in Nat BY <1>8
  <2>2. NoAge \in Ages(Deadline) BY AgeFields, OpmlNumbers
  <2> QED BY <1>8, <2>1, <2>2 DEF RetryWrite, ImportJob, Active
<1>11. CountInv'
  BY <1>8, <1>9, RetryWriteEntries, WithFinite
  DEF CountInv, CountersBackedByEntries, CompletedMeansFinished
<1>12. UNCHANGED <<subs, disabled, queue, wk, events>> BY DEF RetryWrite
<1>13. OpmlTypeOK'
  BY <1>3, <1>10, <1>12, RetryWriteEntries DEF OpmlInv, OpmlTypeOK
<1>14. WorkInv' BY <1>12 DEF OpmlInv, WorkInv
<1> QED BY <1>7, <1>11, <1>13, <1>14, RetryWriteEntries DEF OpmlInv

-----------------------------------------------------------------------------
(* One lemma per action: the queue                                           *)

\* A step that only moves a queue job and a worker.
LEMMA DeliveryKeeps ==
  ASSUME OpmlInv, UNCHANGED <<job, entry, subs, disabled, session>>,
         queue' \in [Slots -> QueueJob], wk' \in [Workers -> WorkerState], WorkInv',
         Event \/ UNCHANGED events
  PROVE  OpmlInv'
<1>1. EntriesAdvance /\ SettledInv' BY EntriesSame DEF OpmlInv
<1>2. /\ job' \in ImportJob /\ entry' \in [Entries -> ImportJobEntry]
      /\ subs' \subseteq Entries /\ disabled' \in BOOLEAN
  BY DEF OpmlInv, OpmlTypeOK
<1>3. SameCounts(job', job) /\ job'.status = job.status BY DEF SameCounts
<1> QED BY <1>1, <1>2, <1>3, StepKeeps

LEMMA StalledKeeps ==
  ASSUME OpmlInv, NEW s \in Slots, Stalled(s)
  PROVE  OpmlInv'
<1>0. queue[s] \in QueueJob BY DEF OpmlInv, OpmlTypeOK
<1>1. queue' \in [Slots -> QueueJob]
  <2>1. CASE queue[s].stalls < MaxStalls
    <3> DEFINE q == [queue[s] EXCEPT !.state = "wait", !.stalls = queue[s].stalls + 1,
                                     !.holder = NoOwner]
    <3>1. q \in QueueJob BY <1>0, <2>1, QueueFields
    <3>2. queue' = [queue EXCEPT ![s] = q] BY <2>1 DEF Stalled
    <3> HIDE DEF q
    <3> QED BY <3>1, <3>2, QueueMoves
  <2>2. CASE ~(queue[s].stalls < MaxStalls)
    <3>1. queue' = [queue EXCEPT ![s] = NoDelivery] BY <2>2 DEF Stalled
    <3> QED BY <3>1, QueueMoves, QueueFields
  <2> QED BY <2>1, <2>2
<1>2. UNCHANGED <<job, entry, subs, disabled, wk, session>> BY DEF Stalled
<1>3. Event \/ UNCHANGED events BY DEF Stalled
<1>4. wk' \in [Workers -> WorkerState] /\ WorkInv'
  BY <1>2 DEF OpmlInv, OpmlTypeOK, WorkInv
<1> QED BY <1>1, <1>2, <1>3, <1>4, DeliveryKeeps

LEMMA StartKeeps ==
  ASSUME OpmlInv, NEW w \in Workers, NEW s \in Slots, Start(w, s)
  PROVE  OpmlInv'
<1> DEFINE next == CASE job.status \in Terminal -> "idle"
                     [] job.cancel \/ disabled -> "cancel"
                     [] job.age = Deadline -> "expire"
                     [] OTHER -> "begin"
           age == IF job.age = NoAge THEN 0 ELSE job.age
<1>1. UNCHANGED <<job, entry, subs, disabled, session, events>> BY DEF Start
<1>2. next \in {"idle", "cancel", "expire", "begin"} OBVIOUS
<1>3. age \in Ages(Deadline)
  <2>1. job.age \in Ages(Deadline) BY JobFields DEF OpmlInv, OpmlTypeOK
  <2> QED BY <2>1, AgeFields, OpmlNumbers
<1>4. IF next = "idle"
      THEN queue' = [queue EXCEPT ![s] = NoDelivery] /\ UNCHANGED wk
      ELSE /\ queue' = [queue EXCEPT ![s].state = "active", ![s].holder = w]
           /\ wk' = [wk EXCEPT ![w] = [Idle EXCEPT !.pc = next, !.slot = s, !.age = age]]
  BY DEF Start
<1> HIDE DEF next, age
<1>5. CASE next = "idle"
  <2>1. queue' = [queue EXCEPT ![s] = NoDelivery] /\ UNCHANGED wk BY <1>4, <1>5
  <2>2. wk' \in [Workers -> WorkerState] /\ WorkInv'
    BY <2>1 DEF OpmlInv, OpmlTypeOK, WorkInv
  <2>3. queue' \in [Slots -> QueueJob] BY <2>1, QueueMoves, QueueFields
  <2> QED BY <1>1, <2>2, <2>3, DeliveryKeeps
<1>6. CASE next # "idle"
  <2> DEFINE p == [Idle EXCEPT !.pc = next, !.slot = s, !.age = age]
  <2>1. wk' = [wk EXCEPT ![w] = p] BY <1>4, <1>6
  <2>2. p \in WorkerState
    <3>1. next \in Stages BY <1>2 DEF Stages
    <3>2. Idle \in WorkerState BY WorkerFields
    <3> QED BY <1>3, <3>1, <3>2 DEF WorkerState
  <2>3. p.pc = next BY DEF Idle
  <2> HIDE DEF p
  <2>4. WorkerOK(p) BY <1>2, <2>3 DEF WorkerOK
  <2>5. wk' \in [Workers -> WorkerState] /\ WorkInv' BY <2>1, <2>2, <2>4, WorkerMoves
  <2>6. queue[s] \in QueueJob BY DEF OpmlInv, OpmlTypeOK
  <2> DEFINE q == [queue[s] EXCEPT !.state = "active", !.holder = w]
  <2>7. q \in QueueJob BY <2>6, QueueFields
  <2>8. queue' = [queue EXCEPT ![s] = q] BY <1>4, <1>6 DEF OpmlInv, OpmlTypeOK
  <2> HIDE DEF q
  <2>9. queue' \in [Slots -> QueueJob] BY <2>7, <2>8, QueueMoves
  <2> QED BY <1>1, <2>5, <2>9, DeliveryKeeps
<1> QED BY <1>5, <1>6

LEMMA RequeueKeeps ==
  ASSUME OpmlInv, NEW w \in Workers, Requeue(w)
  PROVE  OpmlInv'
<1>1. queue' \in [Slots -> QueueJob]
  <2>1. CASE queue' = [queue EXCEPT ![wk[w].slot] = Fresh]
    BY <2>1, QueueMoves, QueueFields
  <2>2. CASE Enqueue
    <3>1. PICK s \in FreeSlots : queue' = [queue EXCEPT ![s] = Fresh] BY <2>2 DEF Enqueue
    <3> QED BY <3>1, QueueMoves, QueueFields
  <2>3. CASE UNCHANGED queue BY <2>3 DEF OpmlInv, OpmlTypeOK
  <2> QED BY <2>1, <2>2, <2>3 DEF Requeue
<1>2. wk' = [wk EXCEPT ![w] = Idle] /\ UNCHANGED <<job, entry, subs, disabled, session, events>>
  BY DEF Requeue
<1>3. wk' \in [Workers -> WorkerState] /\ WorkInv' BY <1>2, WorkerMoves, WorkerFields
<1> QED BY <1>1, <1>2, <1>3, DeliveryKeeps

LEMMA ThrowKeeps ==
  ASSUME OpmlInv, NEW w \in Workers, Throw(w)
  PROVE  OpmlInv'
<1> DEFINE s == wk[w].slot
           last == queue[s].made + 1 >= MaxAttempts
           failing == [Idle EXCEPT !.pc = "fail"]
<1>1. UNCHANGED <<job, entry, subs, disabled, session>> /\ Event BY DEF Throw
<1>2. failing \in WorkerState /\ WorkerOK(failing)
  <2>1. failing \in WorkerState /\ failing.pc = "fail" BY WorkerFields DEF Stages
  <2> QED BY <2>1 DEF WorkerOK
<1>3. CASE Holds(w)
  <2>0. /\ queue' = [queue EXCEPT ![s] =
                       IF last THEN NoDelivery
                       ELSE [queue[s] EXCEPT !.state = "wait", !.made = queue[s].made + 1,
                                             !.holder = NoOwner]]
        /\ wk' = [wk EXCEPT ![w] = IF last THEN failing ELSE Idle]
    BY <1>3 DEF Throw
  <2>1. queue[s] \in QueueJob /\ queue[s].made \in Nat
    <3>1. s \in Slots
      <4>1. wk[w] \in WorkerState BY DEF OpmlInv, OpmlTypeOK
      <4>2. s # NoSlot BY <1>3 DEF Holds
      <4> QED BY <4>1, <4>2, WorkerFields
    <3>2. queue[s] \in QueueJob BY <3>1 DEF OpmlInv, OpmlTypeOK
    <3> QED BY <3>2, QueueFields
  <2>2. CASE last
    <3>1. queue' = [queue EXCEPT ![s] = NoDelivery] /\ wk' = [wk EXCEPT ![w] = failing]
      BY <2>0, <2>2
    <3> HIDE DEF s, failing
    <3>2. queue' \in [Slots -> QueueJob] BY <3>1, QueueMoves, QueueFields
    <3>3. wk' \in [Workers -> WorkerState] /\ WorkInv' BY <1>2, <3>1, WorkerMoves
    <3> QED BY <1>1, <3>2, <3>3, DeliveryKeeps
  <2>3. CASE ~last
    <3> DEFINE q == [queue[s] EXCEPT !.state = "wait", !.made = queue[s].made + 1,
                                     !.holder = NoOwner]
    <3>1. queue' = [queue EXCEPT ![s] = q] /\ wk' = [wk EXCEPT ![w] = Idle]
      BY <2>0, <2>3
    <3>2. queue[s].made + 1 < MaxAttempts BY <2>1, <2>3, OpmlNumbers
    <3> HIDE DEF s, last, failing
    <3>3. q \in QueueJob BY <2>1, <3>2, QueueFields
    <3> HIDE DEF q
    <3>4. queue' \in [Slots -> QueueJob] BY <3>1, <3>3, QueueMoves
    <3>5. wk' \in [Workers -> WorkerState] /\ WorkInv' BY <3>1, WorkerMoves, WorkerFields
    <3> QED BY <1>1, <3>4, <3>5, DeliveryKeeps
  <2> QED BY <2>2, <2>3
<1>4. CASE ~Holds(w)
  <2>1. wk' = [wk EXCEPT ![w] = Idle] /\ UNCHANGED queue BY <1>4 DEF Throw
  <2>2. wk' \in [Workers -> WorkerState] /\ WorkInv' BY <2>1, WorkerMoves, WorkerFields
  <2>3. queue' \in [Slots -> QueueJob] BY <2>1 DEF OpmlInv, OpmlTypeOK
  <2> QED BY <1>1, <2>2, <2>3, DeliveryKeeps
<1> QED BY <1>3, <1>4

LEMMA CrashKeeps ==
  ASSUME OpmlInv, NEW w \in Workers, Crash(w)
  PROVE  OpmlInv'
<1>1. /\ wk' = [wk EXCEPT ![w] = Idle] /\ Event
      /\ UNCHANGED <<job, entry, subs, disabled, queue, session>>
  BY DEF Crash
<1>2. wk' \in [Workers -> WorkerState] /\ WorkInv' BY <1>1, WorkerMoves, WorkerFields
<1>3. queue' \in [Slots -> QueueJob] BY <1>1 DEF OpmlInv, OpmlTypeOK
<1> QED BY <1>1, <1>2, <1>3, DeliveryKeeps

-----------------------------------------------------------------------------
(* One lemma per action: the worker                                          *)

\* A step of a worker that leaves the import, its entries and the queue alone.
LEMMA MoveKeeps ==
  ASSUME OpmlInv, UNCHANGED <<job, entry, subs, disabled, queue, session>>,
         wk' \in [Workers -> WorkerState], WorkInv', Event \/ UNCHANGED events
  PROVE  OpmlInv'
<1>1. queue' \in [Slots -> QueueJob] BY DEF OpmlInv, OpmlTypeOK
<1> QED BY <1>1, DeliveryKeeps

\* The import row reaches one of its ends and the worker returns.
LEMMA EndKeeps ==
  ASSUME OpmlInv, NEW w \in Workers, UNCHANGED <<entry, subs, disabled, session, events>>,
         queue' \in [Slots -> QueueJob], wk' \in [Workers -> WorkerState], WorkInv',
         NEW s \in JobStatuses, NEW cond \in BOOLEAN,
         job' = IF cond THEN [job EXCEPT !.status = s] ELSE job,
         s = "COMPLETED" => (cond => Unfinished = {})
  PROVE  OpmlInv'
<1>1. /\ job' \in ImportJob /\ SameCounts(job', job)
      /\ job'.status = "COMPLETED" => job.status = "COMPLETED" \/ Unfinished = {}
  BY JobEnds
<1>2. EntriesAdvance /\ SettledInv' BY EntriesSame DEF OpmlInv
<1>3. /\ entry' \in [Entries -> ImportJobEntry] /\ subs' \subseteq Entries
      /\ disabled' \in BOOLEAN
  BY DEF OpmlInv, OpmlTypeOK
<1> QED BY <1>1, <1>2, <1>3, StepKeeps

LEMMA MarkKeeps ==
  ASSUME OpmlInv, NEW w \in Workers, MarkCanceled(w) \/ MarkExpired(w) \/ RecordFailure(w)
  PROVE  OpmlInv'
<1> DEFINE cond == job.status \in Active
<1>1. cond \in BOOLEAN OBVIOUS
<1>2. UNCHANGED <<entry, subs, disabled, session, events>>
  BY DEF MarkCanceled, MarkExpired, RecordFailure
<1>3. PICK s \in {"CANCELED", "FAILED"} :
        job' = IF cond THEN [job EXCEPT !.status = s] ELSE job
  BY DEF MarkCanceled, MarkExpired, RecordFailure
<1>4. s \in JobStatuses /\ s # "COMPLETED" BY DEF JobStatuses, Terminal
<1>5. /\ queue' \in [Slots -> QueueJob] /\ wk' \in [Workers -> WorkerState] /\ WorkInv'
  <2>1. CASE MarkCanceled(w) \/ MarkExpired(w)
    BY <2>1, QueueDone DEF MarkCanceled, MarkExpired
  <2>2. CASE RecordFailure(w)
    <3>1. wk' = [wk EXCEPT ![w] = Idle] /\ UNCHANGED queue BY <2>2 DEF RecordFailure
    <3>2. wk' \in [Workers -> WorkerState] /\ WorkInv' BY <3>1, WorkerMoves, WorkerFields
    <3> QED BY <3>1, <3>2 DEF OpmlInv, OpmlTypeOK
  <2> QED BY <2>1, <2>2
<1> HIDE DEF cond
<1> QED BY <1>1, <1>2, <1>3, <1>4, <1>5, EndKeeps

LEMMA CompleteKeeps ==
  ASSUME OpmlInv, NEW w \in Workers, Complete(w)
  PROVE  OpmlInv'
<1> DEFINE cond == ImportOpen /\ Unfinished = {}
<1>1. cond \in BOOLEAN /\ (cond => Unfinished = {}) OBVIOUS
<1>2. UNCHANGED <<entry, subs, disabled, session, events>> BY DEF Complete
<1>3. job' = IF cond THEN [job EXCEPT !.status = "COMPLETED"] ELSE job BY DEF Complete
<1>4. "COMPLETED" \in JobStatuses BY DEF JobStatuses, Terminal
<1>5. /\ queue' \in [Slots -> QueueJob] /\ wk' \in [Workers -> WorkerState] /\ WorkInv'
  BY QueueDone DEF Complete
<1> HIDE DEF cond
<1> QED BY <1>1, <1>2, <1>3, <1>4, <1>5, EndKeeps

\* The import becomes PROCESSING, and so is not COMPLETED.
LEMMA BeginKeeps ==
  ASSUME OpmlInv, NEW w \in Workers, Begin(w)
  PROVE  OpmlInv'
<1>0. job \in ImportJob /\ wk[w] \in WorkerState BY DEF OpmlInv, OpmlTypeOK
<1>1. job' = [job EXCEPT !.status = "PROCESSING", !.age = wk[w].age] BY DEF Begin
<1>2. wk[w].age \in Ages(Deadline) /\ "PROCESSING" \in JobStatuses
  BY <1>0, WorkerFields DEF JobStatuses, Active
<1>3. job' \in ImportJob /\ SameCounts(job', job) /\ job'.status # "COMPLETED"
  BY <1>0, <1>1, <1>2, JobFields
<1> DEFINE p == [wk[w] EXCEPT !.pc = "loop", !.age = NoAge, !.batch = 0]
<1>4. wk' = [wk EXCEPT ![w] = p] BY DEF Begin, OpmlInv, OpmlTypeOK
<1>5. p \in WorkerState /\ p.pc = "loop"
  <2>1. NoAge \in Ages(Deadline) /\ 0 \in Ages(BatchDeadline) /\ "loop" \in Stages
    BY AgeFields, OpmlNumbers DEF Stages
  <2> QED BY <1>0, <2>1 DEF WorkerState
<1> HIDE DEF p
<1>6. WorkerOK(p) BY <1>5 DEF WorkerOK
<1>7. wk' \in [Workers -> WorkerState] /\ WorkInv' BY <1>4, <1>5, <1>6, WorkerMoves
<1>8. UNCHANGED <<entry, subs, disabled, queue, session, events>> BY DEF Begin
<1>9. EntriesAdvance /\ SettledInv' BY <1>8, EntriesSame DEF OpmlInv
<1>10. /\ entry' \in [Entries -> ImportJobEntry] /\ subs' \subseteq Entries
       /\ queue' \in [Slots -> QueueJob] /\ disabled' \in BOOLEAN
  BY <1>8 DEF OpmlInv, OpmlTypeOK
<1> QED BY <1>3, <1>7, <1>8, <1>9, <1>10, StepKeeps

LEMMA LoopKeeps ==
  ASSUME OpmlInv, NEW w \in Workers, Loop(w) \/ Check(w)
  PROVE  OpmlInv'
<1>0. wk[w] \in WorkerState BY DEF OpmlInv, OpmlTypeOK
<1>1. PICK pc \in {"check", "cancel", "requeue", "claim", "complete"} :
        GoTo(w, pc) /\ (pc = "claim" => wk[w].n < BatchSize)
  BY DEF Loop, Check
<1>2. pc \in Stages BY DEF Stages
<1>3. wk' \in [Workers -> WorkerState] /\ WorkInv' BY <1>1, <1>2, WorkerGoes
<1>4. UNCHANGED <<job, entry, subs, disabled, queue, session, events>>
  BY DEF Loop, Check
<1> QED BY <1>3, <1>4, MoveKeeps

\* No entry that has its final outcome is written.
OutcomesKept ==
  \A e \in Entries : entry[e].status \in {"ADDED", "SKIPPED"} => entry'[e] = entry[e]

\* A worker writes one entry that is in progress and that no retry has locked.
LEMMA EntryWritten ==
  ASSUME OpmlInv, NEW e \in Entries, Unlocked(e), entry[e].status \in Active,
         NEW f \in ImportJobEntry, f.status \in Outcomes => f.left = 0,
         entry' = [entry EXCEPT ![e] = f]
  PROVE  /\ entry' \in [Entries -> ImportJobEntry]
         /\ EntriesAdvance /\ SettledInv' /\ OutcomesKept
         /\ \A x \in Entries : entry'[x] = IF x = e THEN f ELSE entry[x]
<1>0. entry \in [Entries -> ImportJobEntry] BY DEF OpmlInv, OpmlTypeOK
<1>1. \A x \in Entries : entry'[x] = IF x = e THEN f ELSE entry[x] BY <1>0
<1>2. f.status \in EntryStatuses BY EntryFields
<1>3. EntriesAdvance BY <1>1, <1>2 DEF EntriesAdvance
<1>4. SettledInv' BY <1>1 DEF SettledInv, OpmlInv
<1>5. OutcomesKept BY <1>1 DEF OutcomesKept, Active
<1> QED BY <1>0, <1>1, <1>3, <1>4, <1>5

\* The worker's lease is current: its entry is in progress.
LEMMA LeaseFields ==
  ASSUME OpmlInv, NEW w \in Workers, wk[w].pc \in {"import", "renew", "finalize"},
         LeaseCurrent(w)
  PROVE  /\ wk[w].entry \in Entries /\ entry[wk[w].entry] \in ImportJobEntry
         /\ entry[wk[w].entry].status = "PROCESSING" /\ "PROCESSING" \in Active
BY DEF OpmlInv, OpmlTypeOK, WorkInv, WorkerOK, LeaseCurrent, Active

\* A renewal changes how long the lease runs, of an entry in progress.
LEMMA RenewalWrites ==
  ASSUME OpmlInv, NEW w \in Workers, wk[w].pc \in {"import", "renew", "finalize"},
         LeaseCurrent(w), Unlocked(wk[w].entry), entry' = Renewed(w)
  PROVE  /\ entry' \in [Entries -> ImportJobEntry]
         /\ EntriesAdvance /\ SettledInv' /\ OutcomesKept
<1> DEFINE e == wk[w].entry
           f == [entry[e] EXCEPT !.left = Lease]
<1>1. e \in Entries /\ entry[e] \in ImportJobEntry /\ entry[e].status = "PROCESSING"
      /\ entry[e].status \in Active
  BY LeaseFields
<1>2. f \in ImportJobEntry /\ f.status = entry[e].status
  <2>1. Lease \in 0 .. Lease BY OpmlNumbers
  <2> HIDE DEF e
  <2> QED BY <1>1, <2>1, EntryFields
<1>3. entry' = [entry EXCEPT ![e] = f] BY DEF Renewed, OpmlInv, OpmlTypeOK
<1>4. Unlocked(e) OBVIOUS
<1> HIDE DEF e, f
<1>5. f.status \notin Outcomes BY <1>1, <1>2 DEF Outcomes
<1> QED BY <1>1, <1>2, <1>3, <1>4, <1>5, EntryWritten

\* A step of a worker that writes entries but not the import.
LEMMA WriteKeeps ==
  ASSUME OpmlInv, UNCHANGED <<job, subs, disabled, queue, session>>,
         EntriesAdvance, SettledInv', entry' \in [Entries -> ImportJobEntry],
         wk' \in [Workers -> WorkerState], WorkInv', Event \/ UNCHANGED events
  PROVE  OpmlInv'
<1>1. /\ job' \in ImportJob /\ queue' \in [Slots -> QueueJob]
      /\ subs' \subseteq Entries /\ disabled' \in BOOLEAN
  BY DEF OpmlInv, OpmlTypeOK
<1>2. SameCounts(job', job) /\ job'.status = job.status BY DEF SameCounts
<1> QED BY <1>1, <1>2, StepKeeps

LEMMA SameOutcomes ==
  ASSUME UNCHANGED entry
  PROVE  OutcomesKept
BY DEF OutcomesKept

LEMMA ClaimKeeps ==
  ASSUME OpmlInv, NEW w \in Workers, ClaimEntry(w)
  PROVE  OpmlInv' /\ OutcomesKept
<1>0. UNCHANGED <<job, subs, disabled, queue, session, events>> /\ wk[w].pc = "claim"
      /\ wk[w] \in WorkerState
  BY DEF ClaimEntry, OpmlInv, OpmlTypeOK
<1>1. CASE GoTo(w, "check") /\ UNCHANGED entry
  <2>1. wk' \in [Workers -> WorkerState] /\ WorkInv' BY <1>1, WorkerGoes DEF Stages
  <2> QED BY <1>0, <1>1, <2>1, MoveKeeps, SameOutcomes
<1>2. ASSUME NEW e \in Entries, Claimable(e),
             entry' = [entry EXCEPT ![e] =
               [status |-> "PROCESSING", attempt |-> entry[e].attempt + 1,
                owner |-> w, left |-> Lease]],
             wk' = [wk EXCEPT ![w] = [wk[w] EXCEPT !.pc = "import", !.entry = e,
                      !.attempt = entry[e].attempt + 1, !.held = TRUE, !.result = "none"]]
      PROVE  OpmlInv' /\ OutcomesKept
  <2> DEFINE f == [status |-> "PROCESSING", attempt |-> entry[e].attempt + 1,
                   owner |-> w, left |-> Lease]
             p == [wk[w] EXCEPT !.pc = "import", !.entry = e,
                      !.attempt = entry[e].attempt + 1, !.held = TRUE, !.result = "none"]
  <2>1. entry[e].attempt + 1 \in Nat
    <3>1. entry[e] \in ImportJobEntry BY DEF OpmlInv, OpmlTypeOK
    <3>2. entry[e].attempt \in Nat BY <3>1, EntryFields
    <3> QED BY <3>2
  <2>2. f \in ImportJobEntry
    <3>1. Lease \in 0 .. Lease BY OpmlNumbers
    <3> QED BY <2>1, <3>1, EntryFields DEF EntryStatuses, Active
  <2>3. f.status = "PROCESSING" OBVIOUS
  <2>4. p \in WorkerState
    <3>1. "import" \in Stages BY DEF Stages
    <3> QED BY <1>0, <2>1, <3>1 DEF WorkerState
  <2>5. p.pc = "import" /\ p.entry = e /\ p.n = wk[w].n BY <1>0 DEF WorkerState
  <2>6. entry' = [entry EXCEPT ![e] = f] /\ wk' = [wk EXCEPT ![w] = p] BY <1>2
  <2> HIDE DEF f, p
  <2>7. wk[w].n < BatchSize BY <1>0 DEF OpmlInv, WorkInv, WorkerOK
  <2>8. WorkerOK(p) BY <2>5, <2>7 DEF WorkerOK
  <2>9. wk' \in [Workers -> WorkerState] /\ WorkInv' BY <2>4, <2>6, <2>8, WorkerMoves
  <2>10. Unlocked(e) /\ entry[e].status \in Active BY <1>2 DEF Claimable, Active
  <2>11. f.status \notin Outcomes BY <2>3 DEF Outcomes
  <2>12. /\ entry' \in [Entries -> ImportJobEntry]
         /\ EntriesAdvance /\ SettledInv' /\ OutcomesKept
    BY <2>2, <2>6, <2>10, <2>11, EntryWritten
  <2> QED BY <1>0, <2>9, <2>12, WriteKeeps
<1> QED BY <1>1, <1>2 DEF ClaimEntry

LEMMA HeartbeatKeeps ==
  ASSUME OpmlInv, NEW w \in Workers, Heartbeat(w)
  PROVE  OpmlInv' /\ OutcomesKept
<1>0. /\ UNCHANGED <<job, subs, disabled, queue, session>> /\ wk[w].pc = "import"
      /\ wk[w] \in WorkerState /\ Unlocked(wk[w].entry)
  BY DEF Heartbeat, OpmlInv, OpmlTypeOK
<1>1. CASE LeaseCurrent(w) /\ entry' = Renewed(w) /\ UNCHANGED wk /\ UNCHANGED events
  <2>1. wk' \in [Workers -> WorkerState] /\ WorkInv'
    BY <1>1 DEF OpmlInv, OpmlTypeOK, WorkInv
  <2>2. /\ entry' \in [Entries -> ImportJobEntry]
        /\ EntriesAdvance /\ SettledInv' /\ OutcomesKept
    BY <1>0, <1>1, RenewalWrites
  <2> QED BY <1>0, <1>1, <2>1, <2>2, WriteKeeps
<1>2. CASE (Event \/ UNCHANGED events) /\ UNCHANGED entry
           /\ wk' = [wk EXCEPT ![w].held = FALSE]
  <2> DEFINE p == [wk[w] EXCEPT !.held = FALSE]
  <2>1. wk' = [wk EXCEPT ![w] = p] BY <1>2 DEF OpmlInv, OpmlTypeOK
  <2>2. /\ p \in WorkerState /\ p.pc = wk[w].pc /\ p.n = wk[w].n /\ p.entry = wk[w].entry
        /\ p.result = wk[w].result
    BY <1>0 DEF WorkerState
  <2> HIDE DEF p
  <2>3. WorkerOK(p) BY <2>2 DEF WorkerOK, OpmlInv, WorkInv
  <2>4. wk' \in [Workers -> WorkerState] /\ WorkInv' BY <2>1, <2>2, <2>3, WorkerMoves
  <2> QED BY <1>0, <1>2, <2>4, MoveKeeps, SameOutcomes
<1> QED BY <1>1, <1>2 DEF Heartbeat

LEMMA ImportKeeps ==
  ASSUME OpmlInv, NEW w \in Workers, ImportEntry(w)
  PROVE  OpmlInv'
<1> DEFINE e == wk[w].entry
<1>0. wk[w] \in WorkerState /\ wk[w].pc = "import" /\ e \in Entries /\ wk[w].n < BatchSize
  BY DEF ImportEntry, OpmlInv, OpmlTypeOK, WorkInv, WorkerOK
<1>1. PICK result \in {"FAILED", IF e \in subs THEN "SKIPPED" ELSE "ADDED"} :
        /\ subs' = IF result = "ADDED" THEN subs \cup {e} ELSE subs
        /\ wk' = [wk EXCEPT ![w].pc = "renew", ![w].result = result]
  BY DEF ImportEntry
<1>2. result \in Outcomes BY DEF Outcomes
<1> DEFINE p == [wk[w] EXCEPT !.pc = "renew", !.result = result]
<1>3. wk' = [wk EXCEPT ![w] = p] BY <1>1 DEF OpmlInv, OpmlTypeOK
<1>4. /\ p \in WorkerState /\ p.pc = "renew" /\ p.n = wk[w].n /\ p.entry = e
      /\ p.result = result
  <2>1. "renew" \in Stages BY DEF Stages
  <2> QED BY <1>0, <1>2, <2>1 DEF WorkerState
<1>5. subs' \subseteq Entries BY <1>0, <1>1 DEF OpmlInv, OpmlTypeOK
<1> HIDE DEF p, e
<1>6. WorkerOK(p) BY <1>0, <1>2, <1>4 DEF WorkerOK
<1>7. wk' \in [Workers -> WorkerState] /\ WorkInv' BY <1>3, <1>4, <1>6, WorkerMoves
<1>8. UNCHANGED <<job, entry, disabled, queue, session, events>> BY DEF ImportEntry
<1>9. EntriesAdvance /\ SettledInv' BY <1>8, EntriesSame DEF OpmlInv
<1>10. /\ job' \in ImportJob /\ entry' \in [Entries -> ImportJobEntry]
       /\ queue' \in [Slots -> QueueJob] /\ disabled' \in BOOLEAN
       /\ SameCounts(job', job) /\ job'.status = job.status
  BY <1>8 DEF OpmlInv, OpmlTypeOK, SameCounts
<1> QED BY <1>5, <1>7, <1>8, <1>9, <1>10, StepKeeps

LEMMA FinalRenewKeeps ==
  ASSUME OpmlInv, NEW w \in Workers, FinalRenew(w)
  PROVE  OpmlInv' /\ OutcomesKept
<1>0. /\ UNCHANGED <<job, subs, disabled, queue, session, events>> /\ wk[w].pc = "renew"
      /\ Unlocked(wk[w].entry)
  BY DEF FinalRenew
<1>1. CASE LeaseCurrent(w) /\ entry' = Renewed(w) /\ GoTo(w, "finalize")
  <2>1. wk[w].n < BatchSize /\ wk[w].entry \in Entries /\ wk[w].result \in Outcomes
    BY <1>0 DEF OpmlInv, WorkInv, WorkerOK
  <2>2. wk' \in [Workers -> WorkerState] /\ WorkInv'
    BY <1>1, <2>1, WorkerGoes DEF Stages
  <2>3. /\ entry' \in [Entries -> ImportJobEntry]
        /\ EntriesAdvance /\ SettledInv' /\ OutcomesKept
    BY <1>0, <1>1, RenewalWrites
  <2> QED BY <1>0, <2>2, <2>3, WriteKeeps
<1>2. CASE GoTo(w, "requeue") /\ UNCHANGED entry
  <2>1. wk' \in [Workers -> WorkerState] /\ WorkInv' BY <1>2, WorkerGoes DEF Stages
  <2> QED BY <1>0, <1>2, <2>1, MoveKeeps, SameOutcomes
<1> QED BY <1>1, <1>2 DEF FinalRenew

\* The row that a finalization writes, field by field.
LEMMA CountedFields ==
  ASSUME job \in ImportJob, NEW r \in Outcomes
  PROVE  /\ Counted(r) \in ImportJob /\ Counted(r).status = job.status
         /\ Counted(r).added = job.added + (IF r = "ADDED" THEN 1 ELSE 0)
         /\ Counted(r).failed = job.failed + (IF r = "FAILED" THEN 1 ELSE 0)
         /\ Counted(r).skipped = job.skipped + (IF r = "SKIPPED" THEN 1 ELSE 0)
         /\ Counted(r).processed = job.processed + 1
<1> DEFINE a == job.added + (IF r = "ADDED" THEN 1 ELSE 0)
           f == job.failed + (IF r = "FAILED" THEN 1 ELSE 0)
           k == job.skipped + (IF r = "SKIPPED" THEN 1 ELSE 0)
           n == job.processed + 1
<1>1. a \in Nat /\ f \in Nat /\ k \in Nat /\ n \in Nat
  <2>1. job.added \in Nat /\ job.failed \in Nat /\ job.skipped \in Nat /\ job.processed \in Nat
    BY JobFields
  <2> QED BY <2>1
<1>2. Counted(r) = [job EXCEPT !.added = a, !.failed = f, !.skipped = k, !.processed = n]
  BY DEF Counted
<1> HIDE DEF a, f, k, n
<1>3. Counted(r) \in ImportJob BY <1>1, <1>2 DEF ImportJob
<1>4. /\ Counted(r).added = a /\ Counted(r).failed = f /\ Counted(r).skipped = k
      /\ Counted(r).processed = n /\ Counted(r).status = job.status
  BY <1>2 DEF ImportJob
<1> QED BY <1>3, <1>4 DEF a, f, k, n

\* A finalization gives one entry in progress the outcome that it counts.
LEMMA FinalizeCounts ==
  ASSUME OpmlInv, NEW e \in Entries, entry[e].status = "PROCESSING", NEW r \in Outcomes,
         EntriesAdvance, entry'[e].status = r,
         \A x \in Entries : x # e => entry'[x] = entry[x],
         job' = Counted(r)
  PROVE  CountInv'
<1>0. job \in ImportJob BY DEF OpmlInv, OpmlTypeOK
<1>1. /\ job'.status = job.status
      /\ job'.added = job.added + (IF r = "ADDED" THEN 1 ELSE 0)
      /\ job'.failed = job.failed + (IF r = "FAILED" THEN 1 ELSE 0)
      /\ job'.skipped = job.skipped + (IF r = "SKIPPED" THEN 1 ELSE 0)
      /\ job'.processed = job.processed + 1
  BY <1>0, CountedFields
<1>2. With(r)' = With(r) \cup {e} /\ e \notin With(r)
  BY DEF With, Outcomes
<1>3. Cardinality(With(r)') = Cardinality(With(r)) + 1
  BY <1>2, WithFinite, FS_AddElement
<1>4. \A s \in Outcomes : Cardinality(With(s)) <= Cardinality(With(s)')
  BY OutcomesGrow
<1>5. /\ job.added \in Nat /\ job.failed \in Nat /\ job.skipped \in Nat
      /\ job.processed \in Nat
  BY <1>0, JobFields
<1>6. /\ job.added <= Cardinality(With("ADDED"))
      /\ job.skipped <= Cardinality(With("SKIPPED"))
      /\ job.failed <= Cardinality(With("FAILED"))
      /\ job.processed = job.added + job.skipped + job.failed
  BY DEF OpmlInv, CountInv, CountersBackedByEntries
<1>7. /\ Cardinality(With("ADDED")) <= Cardinality(With("ADDED")')
      /\ Cardinality(With("SKIPPED")) <= Cardinality(With("SKIPPED")')
      /\ Cardinality(With("FAILED")) <= Cardinality(With("FAILED")')
  BY <1>4 DEF Outcomes
<1>8. /\ job'.added <= Cardinality(With("ADDED")')
      /\ job'.skipped <= Cardinality(With("SKIPPED")')
      /\ job'.failed <= Cardinality(With("FAILED")')
      /\ job'.processed = job'.added + job'.skipped + job'.failed
  <2>1. CASE r = "ADDED" BY <1>1, <1>3, <1>5, <1>6, <1>7, <2>1, WithFinite
  <2>2. CASE r = "FAILED" BY <1>1, <1>3, <1>5, <1>6, <1>7, <2>2, WithFinite
  <2>3. CASE r = "SKIPPED" BY <1>1, <1>3, <1>5, <1>6, <1>7, <2>3, WithFinite
  <2> QED BY <2>1, <2>2, <2>3 DEF Outcomes
<1>9. CompletedMeansFinished'
  BY <1>1, OutcomesGrow DEF OpmlInv, CountInv, CompletedMeansFinished
<1> QED BY <1>8, <1>9 DEF CountInv, CountersBackedByEntries

LEMMA FinalizeKeeps ==
  ASSUME OpmlInv, NEW w \in Workers, FinalizeEntry(w)
  PROVE  OpmlInv' /\ OutcomesKept
<1> DEFINE e == wk[w].entry
           r == wk[w].result
<1>0. /\ UNCHANGED <<subs, disabled, queue, session, events>> /\ wk[w].pc = "finalize"
      /\ Unlocked(e) /\ wk[w] \in WorkerState
  BY DEF FinalizeEntry, OpmlInv, OpmlTypeOK
<1>1. CASE /\ CanFinalize(w)
           /\ entry' = [entry EXCEPT ![e] = [entry[e] EXCEPT
                          !.status = r, !.owner = NoOwner, !.left = 0]]
           /\ job' = Counted(r)
           /\ wk' = [wk EXCEPT ![w] = [wk[w] EXCEPT !.pc = "loop", !.n = wk[w].n + 1,
                       !.entry = NoEntry, !.attempt = 0, !.held = FALSE, !.result = "none"]]
  <2>1. /\ e \in Entries /\ entry[e] \in ImportJobEntry
        /\ entry[e].status = "PROCESSING" /\ entry[e].status \in Active
    BY <1>0, <1>1, LeaseFields DEF CanFinalize
  <2>2. r \in Outcomes /\ wk[w].n < BatchSize
    BY <1>0 DEF OpmlInv, WorkInv, WorkerOK
  <2> DEFINE f == [entry[e] EXCEPT !.status = r, !.owner = NoOwner, !.left = 0]
             p == [wk[w] EXCEPT !.pc = "loop", !.n = wk[w].n + 1,
                       !.entry = NoEntry, !.attempt = 0, !.held = FALSE, !.result = "none"]
  <2>3. entry' = [entry EXCEPT ![e] = f] /\ job' = Counted(r) /\ wk' = [wk EXCEPT ![w] = p]
    BY <1>1
  <2>4. p \in WorkerState /\ p.pc = "loop"
    <3>1. wk[w].n + 1 \in 0 .. BatchSize
      <4>1. wk[w].n \in 0 .. BatchSize BY <1>0, WorkerFields
      <4> QED BY <2>2, <4>1, OpmlNumbers
    <3>2. "loop" \in Stages BY DEF Stages
    <3> QED BY <1>0, <3>1, <3>2 DEF WorkerState
  <2> HIDE DEF e, r, p
  <2>5. WorkerOK(p) BY <2>4 DEF WorkerOK
  <2>6. wk' \in [Workers -> WorkerState] /\ WorkInv' BY <2>3, <2>4, <2>5, WorkerMoves
  <2>7. f \in ImportJobEntry /\ f.status = r /\ f.left = 0
    <3>1. r \in EntryStatuses BY <2>2 DEF EntryStatuses
    <3> QED BY <2>1, <3>1, EntryFields
  <2> HIDE DEF f
  <2>8. /\ entry' \in [Entries -> ImportJobEntry]
        /\ EntriesAdvance /\ SettledInv' /\ OutcomesKept
        /\ \A x \in Entries : entry'[x] = IF x = e THEN f ELSE entry[x]
    BY <1>0, <2>1, <2>3, <2>7, EntryWritten
  <2>9. CountInv' BY <2>1, <2>2, <2>3, <2>7, <2>8, FinalizeCounts
  <2>10. LockInv' BY <1>0, <2>8, LocksStay
  <2>11. job' \in ImportJob BY <2>2, <2>3, CountedFields DEF OpmlInv, OpmlTypeOK
  <2>12. OpmlTypeOK' BY <1>0, <2>6, <2>8, <2>11 DEF OpmlInv, OpmlTypeOK
  <2> QED BY <2>6, <2>8, <2>9, <2>10, <2>12 DEF OpmlInv
<1>2. CASE GoTo(w, "requeue") /\ UNCHANGED <<entry, job>>
  <2>1. wk' \in [Workers -> WorkerState] /\ WorkInv' BY <1>2, WorkerGoes DEF Stages
  <2> QED BY <1>0, <1>2, <2>1, MoveKeeps, SameOutcomes
<1> QED BY <1>1, <1>2 DEF FinalizeEntry

LEMMA TimeKeeps ==
  ASSUME OpmlInv, TimePasses
  PROVE  OpmlInv' /\ OutcomesKept
<1>0. /\ job \in ImportJob /\ entry \in [Entries -> ImportJobEntry]
      /\ wk \in [Workers -> WorkerState]
  BY DEF OpmlInv, OpmlTypeOK
<1>1. UNCHANGED <<subs, disabled, queue, session, events>> BY DEF TimePasses
<1>2. job' \in ImportJob /\ SameCounts(job', job) /\ job'.status = job.status
  <2>1. job' = [job EXCEPT !.age = Older(job.age, Deadline)] BY DEF TimePasses
  <2>2. Older(job.age, Deadline) \in Ages(Deadline)
    BY <1>0, JobFields, AgeFields, OpmlNumbers
  <2> QED BY <1>0, <2>1, <2>2, JobFields
<1> DEFINE less(e) == IF entry[e].left > 0 THEN entry[e].left - 1 ELSE 0
<1>3. \A e \in Entries : less(e) \in 0 .. Lease /\ (entry[e].left = 0 => less(e) = 0)
  <2> TAKE e \in Entries
  <2>1. entry[e].left \in 0 .. Lease BY <1>0, EntryFields
  <2> QED BY <2>1, OpmlNumbers
<1>4. entry' = [e \in Entries |-> [entry[e] EXCEPT !.left = less(e)]] BY DEF TimePasses
<1> HIDE DEF less
<1>5. \A e \in Entries :
        /\ entry'[e] \in ImportJobEntry /\ entry'[e].status = entry[e].status
        /\ entry'[e].left = less(e)
  BY <1>0, <1>3, <1>4, EntryFields
<1>6. entry' \in [Entries -> ImportJobEntry] BY <1>4, <1>5
<1>7. EntriesAdvance BY <1>5 DEF EntriesAdvance
<1>8. SettledInv' BY <1>3, <1>5 DEF OpmlInv, SettledInv
<1>9. OutcomesKept
  <2> SUFFICES ASSUME NEW e \in Entries, entry[e].status \in {"ADDED", "SKIPPED"}
               PROVE  entry'[e] = entry[e]
    BY DEF OutcomesKept
  <2>1. entry[e].left = 0 BY DEF OpmlInv, SettledInv, Outcomes
  <2>2. entry'[e] = [entry[e] EXCEPT !.left = 0] BY <1>3, <1>4, <2>1
  <2> QED BY <1>0, <2>1, <2>2 DEF ImportJobEntry
<1> DEFINE p(w) == [wk[w] EXCEPT !.age = Older(wk[w].age, Deadline),
                                 !.batch = Older(wk[w].batch, BatchDeadline)]
<1>10. wk' = [w \in Workers |-> p(w)] BY DEF TimePasses
<1>11. ASSUME NEW w \in Workers
       PROVE  p(w) \in WorkerState /\ WorkerOK(p(w))
  <2>0. wk[w] \in WorkerState /\ WorkerOK(wk[w]) BY <1>0 DEF OpmlInv, WorkInv
  <2>1. Older(wk[w].age, Deadline) \in Ages(Deadline)
    BY <2>0, WorkerFields, AgeFields, OpmlNumbers
  <2>2. Older(wk[w].batch, BatchDeadline) \in Ages(BatchDeadline)
    BY <2>0, WorkerFields, AgeFields, OpmlNumbers
  <2>3. p(w) \in WorkerState BY <2>0, <2>1, <2>2 DEF WorkerState
  <2>4. /\ p(w).pc = wk[w].pc /\ p(w).n = wk[w].n /\ p(w).entry = wk[w].entry
        /\ p(w).result = wk[w].result
    BY <2>0 DEF WorkerState
  <2> HIDE DEF p
  <2>5. WorkerOK(p(w)) BY <2>0, <2>4 DEF WorkerOK
  <2> QED BY <2>3, <2>5
<1> HIDE DEF p
<1>12. wk' \in [Workers -> WorkerState] /\ WorkInv' BY <1>10, <1>11 DEF WorkInv
<1>13. /\ queue' \in [Slots -> QueueJob] /\ subs' \subseteq Entries /\ disabled' \in BOOLEAN
  BY <1>1 DEF OpmlInv, OpmlTypeOK
<1> QED BY <1>1, <1>2, <1>6, <1>7, <1>8, <1>9, <1>12, <1>13, StepKeeps

-----------------------------------------------------------------------------
(* The theorems                                                              *)

LEMMA OpmlStarts == Init => OpmlInv
<1> SUFFICES ASSUME Init PROVE OpmlInv OBVIOUS
<1>1. job \in ImportJob
  BY AgeFields, OpmlNumbers DEF Init, ImportJob
<1>2. entry \in [Entries -> ImportJobEntry] /\ \A e \in Entries : entry[e].status = "PENDING"
  <2>1. 0 \in 0 .. Lease /\ "PENDING" \in EntryStatuses
    BY OpmlNumbers DEF EntryStatuses, Active
  <2> QED BY <2>1, EntryFields DEF Init
<1>3. /\ queue \in [Slots -> QueueJob] /\ wk \in [Workers -> WorkerState]
      /\ session \in [Sessions -> SessionState]
  BY QueueFields, WorkerFields, SessionFields DEF Init
<1>4. subs \subseteq Entries /\ disabled \in BOOLEAN /\ events \in 0 .. MaxEvents
  <2>1. subs \subseteq Entries /\ disabled \in BOOLEAN BY OpmlNumbers DEF Init
  <2>2. events = 0 BY DEF Init
  <2> QED BY <2>1, <2>2, OpmlNumbers
<1>5. OpmlTypeOK BY <1>1, <1>2, <1>3, <1>4 DEF OpmlTypeOK
<1>6. WorkInv BY WorkerFields DEF Init, WorkInv
<1>7. SettledInv BY <1>2 DEF SettledInv, Outcomes
<1>8. LockInv
  <2>1. \A v \in Sessions : session[v] = IdleSession BY DEF Init
  <2> QED BY <2>1, SessionFields, WithFinite DEF LockInv
<1>9. CountInv
  <2>1. /\ job.status = "NONE" /\ job.added = 0 /\ job.failed = 0 /\ job.skipped = 0
        /\ job.processed = 0
    BY DEF Init
  <2> QED BY <2>1, WithFinite DEF CountInv, CountersBackedByEntries, CompletedMeansFinished
<1> QED BY <1>5, <1>6, <1>7, <1>8, <1>9 DEF OpmlInv

\* Every step keeps the invariant and the final outcomes.
LEMMA OpmlStep == OpmlInv /\ [Next]_vars => OpmlInv' /\ OutcomesKept
<1> SUFFICES ASSUME OpmlInv, [Next]_vars PROVE OpmlInv' /\ OutcomesKept OBVIOUS
<1>1. ASSUME NEW w \in Workers, Work(w) PROVE OpmlInv' /\ OutcomesKept
  <2>1. CASE MarkCanceled(w) \/ MarkExpired(w) \/ RecordFailure(w)
    BY <2>1, MarkKeeps, SameOutcomes DEF MarkCanceled, MarkExpired, RecordFailure
  <2>2. CASE Begin(w) BY <2>2, BeginKeeps, SameOutcomes DEF Begin
  <2>3. CASE Loop(w) \/ Check(w) BY <2>3, LoopKeeps, SameOutcomes DEF Loop, Check
  <2>4. CASE ClaimEntry(w) BY <2>4, ClaimKeeps
  <2>5. CASE ImportEntry(w) BY <2>5, ImportKeeps, SameOutcomes DEF ImportEntry
  <2>6. CASE FinalRenew(w) BY <2>6, FinalRenewKeeps
  <2>7. CASE FinalizeEntry(w) BY <2>7, FinalizeKeeps
  <2>8. CASE Complete(w) BY <2>8, CompleteKeeps, SameOutcomes DEF Complete
  <2>9. CASE Requeue(w) BY <2>9, RequeueKeeps, SameOutcomes DEF Requeue
  <2> QED BY <1>1, <2>1, <2>2, <2>3, <2>4, <2>5, <2>6, <2>7, <2>8, <2>9 DEF Work
<1>2. ASSUME NEW w \in Workers, Heartbeat(w) PROVE OpmlInv' /\ OutcomesKept
  BY <1>2, HeartbeatKeeps
<1>3. ASSUME NEW w \in Workers, Throw(w) PROVE OpmlInv' /\ OutcomesKept
  BY <1>3, ThrowKeeps, SameOutcomes DEF Throw
<1>4. ASSUME NEW w \in Workers, Crash(w) PROVE OpmlInv' /\ OutcomesKept
  BY <1>4, CrashKeeps, SameOutcomes DEF Crash
<1>5. ASSUME NEW s \in Slots, Stalled(s) PROVE OpmlInv' /\ OutcomesKept
  BY <1>5, StalledKeeps, SameOutcomes DEF Stalled
<1>6. ASSUME NEW s \in Slots, NEW w \in Workers, Start(w, s) PROVE OpmlInv' /\ OutcomesKept
  BY <1>6, StartKeeps, SameOutcomes DEF Start
<1>7. ASSUME NEW v \in Sessions, Web(v) PROVE OpmlInv' /\ OutcomesKept
  <2>1. CASE CreateImport(v) BY <2>1, CreateImportKeeps, SameOutcomes DEF CreateImport
  <2>2. CASE StartQueue(v) BY <2>2, StartQueueKeeps, SameOutcomes DEF StartQueue
  <2>3. CASE RetryRead(v) BY <2>3, RetryReadKeeps, SameOutcomes DEF RetryRead
  <2>4. CASE RetryReset(v) BY <2>4, RetryResetKeeps, SameOutcomes DEF RetryReset
  <2>5. CASE RetryWrite(v) BY <2>5, RetryWriteKeeps, RetryWriteEntries DEF OutcomesKept
  <2> QED BY <1>7, <2>1, <2>2, <2>3, <2>4, <2>5 DEF Web
<1>8. ASSUME NEW v \in Sessions, StopSession(v) PROVE OpmlInv' /\ OutcomesKept
  BY <1>8, StopSessionKeeps, SameOutcomes DEF StopSession
<1>9. CASE CancelImport \/ DisableUser
  BY <1>9, CancelKeeps, SameOutcomes DEF CancelImport, DisableUser
<1>10. CASE TimePasses BY <1>10, TimeKeeps
<1>11. CASE UNCHANGED vars
  <2>1. UNCHANGED <<job, entry, subs, disabled, queue, session, wk, events>>
    BY <1>11 DEF vars
  <2>2. wk' \in [Workers -> WorkerState] /\ WorkInv'
    BY <2>1 DEF OpmlInv, OpmlTypeOK, WorkInv
  <2> QED BY <2>1, <2>2, MoveKeeps, SameOutcomes
<1> QED BY <1>1, <1>2, <1>3, <1>4, <1>5, <1>6, <1>7, <1>8, <1>9, <1>10, <1>11 DEF Next

\* The invariant that ties the locks of a retry, the leases of the workers and
\* the counters of the import to the entries holds in every reachable state.
THEOREM OpmlInvariant == Spec => []OpmlInv
<1>1. OpmlInv /\ [Next]_vars => OpmlInv' BY OpmlStep
<1> QED BY <1>1, OpmlStarts, PTL DEF Spec

\* The import, its entries, the queue jobs, workers and requests keep their
\* types: an outcome is always one of the three, and a batch stays in its size.
THEOREM OpmlTypes == Spec => []OpmlTypeOK
<1>1. OpmlInv => OpmlTypeOK BY DEF OpmlInv
<1> QED BY <1>1, OpmlInvariant, PTL

\* Redeliveries, takeovers, cancellations and retries never make the counters
\* of an import say more than its entries do (finalizeOpmlImportEntry and
\* retryOpmlImportJob).
THEOREM OpmlCountersBacked == Spec => []CountersBackedByEntries
<1>1. OpmlInv => CountersBackedByEntries BY DEF OpmlInv, CountInv
<1> QED BY <1>1, OpmlInvariant, PTL

\* A COMPLETED import has an outcome for every feed (completeOpmlImportJob).
THEOREM OpmlCompletedIsFinished == Spec => []CompletedMeansFinished
<1>1. OpmlInv => CompletedMeansFinished BY DEF OpmlInv, CountInv
<1> QED BY <1>1, OpmlInvariant, PTL

\* No step rewrites an entry that was ADDED or SKIPPED: not a late worker, and
\* not a retry whose reset and whose counts are two statements.
THEOREM OpmlOutcomeIsFinal == Spec => OutcomeIsFinal
<1>1. OpmlInv /\ [Next]_vars =>
        [\A e \in Entries :
           entry[e].status \in {"ADDED", "SKIPPED"} => entry'[e] = entry[e]]_vars
  BY OpmlStep DEF OutcomesKept
<1> QED BY <1>1, OpmlInvariant, PTL DEF Spec, OutcomeIsFinal
=============================================================================
