-------------------------- MODULE SmartDigestProofs --------------------------
(***************************************************************************)
(* Proofs about the generation of Smart Digests, for any number of         *)
(* articles, workers and scheduled instants.                               *)
(***************************************************************************)
EXTENDS SmartDigest, FiniteSetTheorems, TLAPS

-----------------------------------------------------------------------------
(* The inductive invariant                                                   *)

\* Work is done for an instant only while it is the next one of the rule, or
\* when its digest is written, or when it is in vain.
Current(i) == runs[i].digest \/ disabled \/ rule.next = i

LateStages == {"renew", "recheck", "commit"}

\* The run of the worker is not one that it may commit.
Fenced(w) == ~(Run(w).status = "PROCESSING" /\ Run(w).owner = w)

\* A worker that runs: it knows the watermark the rule has for as long as its
\* run has no digest, and what it found is in no digest yet.
Busy(w) ==
  /\ wk[w].pc # "idle" /\ wk[w].at \in Instants /\ wk[w].now \in Times /\ wk[w].now <= now
  /\ Current(wk[w].at)
  /\ runs[wk[w].at].digest \/ disabled \/ wk[w].watermark = rule.watermark
  /\ (disabled /\ wk[w].pc = "commit") => Fenced(w)
  /\ (wk[w].pc \in LateStages) => (runs[wk[w].at].digest \/ wk[w].items \cap Included = {})

WorkersInv == \A w \in Workers : wk[w] = Idle \/ Busy(w)

\* A run is complete exactly when it has a digest, and only then has it items.
RunsInv ==
  \A i \in Instants :
    /\ runs[i].digest <=> runs[i].status = "COMPLETED"
    /\ ~runs[i].digest => runs[i].items = {}

QueueInv == \A i \in Instants : queue[i].state # "none" => Current(i)

RuleInv ==
  /\ rule.watermark <= now
  /\ rule.watermark = None => \A i \in Instants : ~runs[i].digest

SmartInv ==
  SmartTypeOK /\ WorkersInv /\ RunsInv /\ QueueInv /\ RuleInv /\ NoArticleRepeated

-----------------------------------------------------------------------------
(* Constants and records                                                     *)

\* The constants are the numbers they were assumed to be.
LEMMA SmartNumbers ==
  /\ Day \in Nat \ {0} /\ Lease \in Nat \ {0} /\ CandidateLimit \in Nat /\ ItemLimit \in Nat
  /\ MaxAttempts \in Nat \ {0} /\ Lookback \in Nat /\ IngestDelay \in Nat
  /\ MaxStalls \in Nat /\ MaxClock \in Nat /\ MaxEvents \in Nat
  /\ IngestDelay <= Lookback /\ Matching \subseteq Articles /\ IsFiniteSet(Articles)
  /\ NoOwner \notin Workers
BY SmartAssumption

\* Instants are times the clock can show; None is not one.
LEMMA Moments ==
  /\ Instants \subseteq Times /\ Instants \subseteq Upcoming /\ Day \in Upcoming
  /\ None \notin Instants /\ None \notin Times /\ None = -1
  /\ \A t \in Times : t \in Nat /\ t <= MaxClock
  /\ 0 \in Times
<1>1. Day % Day = 0 BY SmartNumbers
<1> QED BY <1>1, SmartNumbers DEF Instants, Upcoming, Times, None

\* The multiple of d that comes after t.
LEMMA NextMultiple ==
  ASSUME NEW d \in Nat \ {0}, NEW t \in Nat
  PROVE  t % d \in Nat /\ t % d < d /\ (t - (t % d) + d) % d = 0
<1>1. t % d \in Nat /\ t % d < d OBVIOUS
<1>2. (t - (t % d) + d) % d = 0 OBVIOUS
<1> QED BY <1>1, <1>2

\* There is a scheduled instant within a day of any time.
LEMMA NextRunExists ==
  ASSUME NEW time \in Times
  PROVE  NextRun(time) \in Upcoming
<1>0. time \in Nat /\ time <= MaxClock /\ Day \in Nat \ {0} /\ MaxClock \in Nat
  BY Moments, SmartNumbers
<1>1. /\ time % Day \in Nat /\ time % Day < Day
      /\ (time - (time % Day) + Day) % Day = 0
  BY <1>0, NextMultiple
<1>2. PICK m \in Nat : m < Day /\ (time - m + Day) % Day = 0 BY <1>1
<1> DEFINE t == time - m + Day
<1>3. t \in 1 .. MaxClock + Day /\ t > time /\ t <= time + Day BY <1>0, <1>2
<1>4. t \in Upcoming BY <1>2, <1>3 DEF Upcoming
<1> HIDE DEF t
<1>5. \E x \in Upcoming : x > time /\ x <= time + Day BY <1>3, <1>4
<1> QED BY <1>5 DEF NextRun

LEMMA RuleFields ==
  ASSUME NEW r \in Rule
  PROVE  /\ r.watermark \in Times \cup {None}
         /\ [r EXCEPT !.enabled = FALSE, !.next = None] \in Rule
         /\ [r EXCEPT !.enabled = FALSE, !.next = None].watermark = r.watermark
BY DEF Rule

LEMMA RuleMoves ==
  ASSUME NEW r \in Rule, NEW t \in Times, NEW n \in Upcoming
  PROVE  /\ [r EXCEPT !.watermark = t, !.next = n] \in Rule
         /\ [r EXCEPT !.watermark = t, !.next = n].watermark = t
BY DEF Rule

LEMMA QueueFields ==
  /\ NoJob \in QueueJob /\ [NoJob EXCEPT !.state = "wait"] \in QueueJob
  /\ NoJob.state = "none"
  /\ \A j \in QueueJob : j.made \in Nat /\ j.stalls \in Nat
  /\ \A j \in QueueJob, w \in Workers : [j EXCEPT !.state = "active", !.holder = w] \in QueueJob
  /\ \A j \in QueueJob : [j EXCEPT !.state = "failed", !.holder = NoOwner] \in QueueJob
  /\ \A j \in QueueJob : j.stalls < MaxStalls =>
       [j EXCEPT !.state = "wait", !.stalls = j.stalls + 1, !.holder = NoOwner] \in QueueJob
  /\ \A j \in QueueJob : Retried(j) \in QueueJob
<1>1. NoJob \in QueueJob /\ NoJob.state = "none"
  BY SmartNumbers DEF QueueJob, NoJob
<1>2. [NoJob EXCEPT !.state = "wait"] \in QueueJob BY <1>1 DEF QueueJob
<1>3. \A j \in QueueJob : j.made \in Nat /\ j.stalls \in Nat BY SmartNumbers DEF QueueJob
<1>4. \A j \in QueueJob, w \in Workers : [j EXCEPT !.state = "active", !.holder = w] \in QueueJob
  BY DEF QueueJob
<1>5. \A j \in QueueJob : [j EXCEPT !.state = "failed", !.holder = NoOwner] \in QueueJob
  BY DEF QueueJob
<1>6. ASSUME NEW j \in QueueJob, j.stalls < MaxStalls
      PROVE  [j EXCEPT !.state = "wait", !.stalls = j.stalls + 1, !.holder = NoOwner] \in QueueJob
  <2>1. j.stalls + 1 \in 0 .. MaxStalls BY <1>3, <1>6, SmartNumbers
  <2> QED BY <2>1 DEF QueueJob
<1>7. ASSUME NEW j \in QueueJob PROVE Retried(j) \in QueueJob
  <2>1. CASE j.made + 1 < MaxAttempts
    <3>1. j.made + 1 \in 0 .. MaxAttempts - 1 BY <1>3, <2>1, SmartNumbers
    <3>2. Retried(j) = [j EXCEPT !.state = "wait", !.made = j.made + 1, !.holder = NoOwner]
      BY <2>1 DEF Retried
    <3> QED BY <3>1, <3>2 DEF QueueJob
  <2>2. CASE ~(j.made + 1 < MaxAttempts)
    BY <1>5, <2>2 DEF Retried
  <2> QED BY <2>1, <2>2
<1> QED BY <1>1, <1>2, <1>3, <1>4, <1>5, <1>6, <1>7

LEMMA RunFields ==
  /\ NoRun \in DigestRun /\ NoRun.status = "none" /\ ~NoRun.digest /\ NoRun.items = {}
  /\ \A r \in DigestRun :
       /\ r.status \in Statuses /\ r.attempt \in Nat /\ r.owner \in Workers \cup {NoOwner}
       /\ r.left \in 0 .. Lease /\ r.digest \in BOOLEAN /\ r.items \in SUBSET Articles
       /\ r.email \in {"NOT_REQUESTED", "PENDING"} /\ r.from \in Int
       /\ r.upto \in Times \cup {None}
<1>1. NoRun \in DigestRun BY SmartNumbers, Moments DEF DigestRun, NoRun, Statuses
<1>2. NoRun.status = "none" /\ ~NoRun.digest /\ NoRun.items = {} BY DEF NoRun
<1>3. \A r \in DigestRun :
       /\ r.status \in Statuses /\ r.attempt \in Nat /\ r.owner \in Workers \cup {NoOwner}
       /\ r.left \in 0 .. Lease /\ r.digest \in BOOLEAN /\ r.items \in SUBSET Articles
       /\ r.email \in {"NOT_REQUESTED", "PENDING"} /\ r.from \in Int
       /\ r.upto \in Times \cup {None}
  BY DEF DigestRun
<1> QED BY <1>1, <1>2, <1>3

\* A run that is written by a step that leaves its digest alone.
Alike(r, s) ==
  r.digest = s.digest /\ r.items = s.items /\ (r.digest => r.from = s.from)

LEMMA LeftWritten ==
  ASSUME NEW r \in DigestRun, NEW l \in 0 .. Lease
  PROVE  LET s == [r EXCEPT !.left = l]
         IN  s \in DigestRun /\ Alike(s, r) /\ s.status = r.status /\ s.owner = r.owner
BY DEF DigestRun, Alike

LEMMA FailedWritten ==
  ASSUME NEW r \in DigestRun
  PROVE  LET s == [r EXCEPT !.status = "FAILED", !.owner = NoOwner, !.left = 0]
         IN  s \in DigestRun /\ Alike(s, r) /\ s.status = "FAILED"
<1>1. 0 \in 0 .. Lease BY SmartNumbers
<1> QED BY <1>1 DEF DigestRun, Alike, Statuses

LEMMA ClaimedWritten ==
  ASSUME NEW r \in DigestRun, NEW w \in Workers, NEW a \in Nat
  PROVE  LET s == [r EXCEPT !.status = "PROCESSING", !.attempt = a, !.owner = w,
                            !.left = Lease]
         IN  s \in DigestRun /\ Alike(s, r) /\ s.status = "PROCESSING" /\ s.owner = w
<1>1. Lease \in 0 .. Lease BY SmartNumbers
<1> QED BY <1>1 DEF DigestRun, Alike, Statuses

LEMMA CanceledWritten ==
  ASSUME NEW r \in DigestRun
  PROVE  LET s == [r EXCEPT !.status = "CANCELED", !.owner = NoOwner, !.left = 0,
                            !.email = "NOT_REQUESTED"]
         IN  s \in DigestRun /\ Alike(s, r) /\ s.status = "CANCELED"
<1>1. 0 \in 0 .. Lease BY SmartNumbers
<1> QED BY <1>1 DEF DigestRun, Alike, Statuses

LEMMA EmailWritten ==
  ASSUME NEW r \in DigestRun
  PROVE  LET s == [r EXCEPT !.email = "NOT_REQUESTED"]
         IN  s \in DigestRun /\ Alike(s, r) /\ s.status = r.status /\ s.owner = r.owner
BY DEF DigestRun, Alike

LEMMA WorkerFields ==
  /\ Idle \in WorkerState /\ Idle.pc = "idle" /\ Idle.at = None
  /\ \A p \in WorkerState :
       /\ p.pc \in Stages /\ p.at \in Instants \cup {None} /\ p.now \in Times \cup {None}
       /\ p.watermark \in Times \cup {None} /\ p.attempt \in Nat
       /\ p.items \in SUBSET Articles
<1>1. Idle \in WorkerState BY DEF Idle, WorkerState, Stages
<1>2. Idle.pc = "idle" /\ Idle.at = None BY DEF Idle
<1>3. \A p \in WorkerState :
       /\ p.pc \in Stages /\ p.at \in Instants \cup {None} /\ p.now \in Times \cup {None}
       /\ p.watermark \in Times \cup {None} /\ p.attempt \in Nat
       /\ p.items \in SUBSET Articles
  BY DEF WorkerState
<1> QED BY <1>1, <1>2, <1>3

-----------------------------------------------------------------------------
(* Steps that write no digest                                                *)

\* What a step other than a commit leaves as it is.
DigestsKept == \A i \in Instants : Alike(runs'[i], runs[i])

\* A worker goes on with what it has read; only a query brings it further
\* than its stage, to where what it found matters.
Continues(w) ==
  /\ wk[w].pc # "idle" /\ wk'[w].pc # "idle"
  /\ wk'[w].at = wk[w].at /\ wk'[w].now = wk[w].now /\ wk'[w].watermark = wk[w].watermark
  /\ (wk'[w].pc \in LateStages) => (wk[w].pc \in LateStages /\ wk'[w].items = wk[w].items)
  /\ (disabled' /\ wk'[w].pc = "commit") => wk[w].pc = "commit"

\* A worker starts on a queue job.
Begins(w) ==
  /\ wk'[w].pc = "upsert" /\ wk'[w].at \in Instants /\ queue[wk'[w].at].state # "none"
  /\ wk'[w].now = now /\ wk'[w].watermark = rule.watermark

\* No other worker comes to own a run that it could commit.
OwnersKept ==
  \A w \in Workers :
    (wk[w].pc = "commit" /\ runs'[wk[w].at].status = "PROCESSING" /\ runs'[wk[w].at].owner = w)
      => (runs[wk[w].at].status = "PROCESSING" /\ runs[wk[w].at].owner = w)

\* The rule changes only when the account is disabled; then nothing is current.
RuleKept ==
  /\ rule'.watermark = rule.watermark
  /\ rule'.next = rule.next \/ disabled'
  /\ disabled => disabled'
  /\ (disabled' /\ ~disabled) =>
       \A i \in Instants : runs'[i].status # "PROCESSING"
  /\ now <= now'

StatusKept ==
  \A i \in Instants : (runs'[i].status = "COMPLETED") <=> (runs[i].status = "COMPLETED")

\* Queue jobs are added for the next run of the rule only.
QueueKept ==
  \A i \in Instants : queue'[i].state # "none" => (queue[i].state # "none" \/ rule.next = i)

WorkersKept ==
  \A w \in Workers : wk'[w] = wk[w] \/ wk'[w] = Idle \/ Continues(w) \/ Begins(w)

RunsKept == runs' \in [Instants -> DigestRun] /\ DigestsKept /\ OwnersKept /\ StatusKept

Quiet == SmartTypeOK' /\ RunsKept /\ RuleKept /\ QueueKept /\ WorkersKept

\* The articles of the digests are those of the runs.
LEMMA InDigest ==
  /\ \A a : a \in Included <=> \E i \in Instants : a \in runs[i].items
  /\ \A a : a \in Included' <=> \E i \in Instants : a \in runs'[i].items
BY DEF Included

LEMMA DigestsSame ==
  ASSUME DigestsKept
  PROVE  Included' = Included
<1>1. \A i \in Instants : runs'[i].items = runs[i].items BY DEF DigestsKept, Alike
<1> QED BY <1>1, InDigest

\* A worker that goes on keeps what it knows.
LEMMA WorkerContinues ==
  ASSUME SmartInv, SmartTypeOK', DigestsKept, RuleKept, OwnersKept,
         NEW w \in Workers, Continues(w)
  PROVE  Busy(w)'
<1>1. Busy(w)
  <2>1. wk[w].pc # "idle" BY DEF Continues
  <2> QED BY <2>1, WorkerFields DEF SmartInv, WorkersInv
<1>2. /\ wk'[w].pc # "idle" /\ wk'[w].at \in Instants /\ wk'[w].now \in Times
      /\ wk'[w].at = wk[w].at
  BY <1>1 DEF Busy, Continues
<1>3. wk'[w].now <= now'
  <2>1. wk[w].now \in Nat /\ now \in Nat /\ now' \in Nat
    BY <1>1, Moments DEF Busy, SmartInv, SmartTypeOK
  <2>2. wk[w].now <= now /\ wk'[w].now = wk[w].now /\ now <= now'
    BY <1>1 DEF Busy, Continues, RuleKept
  <2> QED BY <2>1, <2>2
<1>4. runs'[wk[w].at].digest = runs[wk[w].at].digest
  BY <1>1 DEF Busy, DigestsKept, Alike
<1>5. Current(wk[w].at)'
  BY <1>1, <1>4 DEF Busy, Current, RuleKept, Continues
<1>6. runs'[wk[w].at].digest \/ disabled' \/ wk'[w].watermark = rule'.watermark
  BY <1>1, <1>4 DEF Busy, RuleKept, Continues
<1>7. ASSUME disabled', wk'[w].pc = "commit"
      PROVE  ~(runs'[wk[w].at].status = "PROCESSING" /\ runs'[wk[w].at].owner = w)
  <2>1. wk[w].pc = "commit" BY <1>7 DEF Continues
  <2>2. CASE disabled BY <1>1, <2>1, <2>2 DEF Busy, Fenced, Run, OwnersKept
  <2>3. CASE ~disabled BY <1>1, <1>7, <2>3 DEF Busy, RuleKept
  <2> QED BY <2>2, <2>3
<1>8. (wk'[w].pc \in LateStages) =>
        (runs'[wk[w].at].digest \/ wk'[w].items \cap Included' = {})
  BY <1>1, <1>4, DigestsSame DEF Busy, Continues
<1> QED BY <1>2, <1>3, <1>5, <1>6, <1>7, <1>8 DEF Busy, Current, Fenced, Run

\* Nor is a start in vain.
LEMMA WorkerBegins ==
  ASSUME SmartInv, SmartTypeOK', DigestsKept, RuleKept, NEW w \in Workers, Begins(w)
  PROVE  Busy(w)'
<1> DEFINE i == wk'[w].at
<1>1. i \in Instants /\ wk'[w].pc = "upsert" /\ wk'[w].now = now
      /\ wk'[w].watermark = rule.watermark
  BY DEF Begins
<1>2. Current(i) BY DEF Begins, SmartInv, QueueInv
<1>3. runs'[i].digest = runs[i].digest BY <1>1 DEF DigestsKept, Alike
<1>4. runs'[i].digest \/ disabled' \/ rule'.next = i BY <1>2, <1>3 DEF Current, RuleKept
<1>5. now \in Times /\ now <= now' /\ rule'.watermark = rule.watermark
  BY DEF SmartInv, SmartTypeOK, RuleKept
<1> QED BY <1>1, <1>4, <1>5 DEF Busy, Current, Fenced, LateStages

\* A step that writes no digest keeps the invariant.
LEMMA StepKeeps ==
  ASSUME SmartInv, Quiet
  PROVE  SmartInv'
<1>0. SmartTypeOK' /\ DigestsKept /\ OwnersKept /\ StatusKept /\ RuleKept /\ QueueKept
      /\ WorkersKept
  BY DEF Quiet, RunsKept
<1>1. WorkersInv'
  <2> SUFFICES ASSUME NEW w \in Workers PROVE wk'[w] = Idle \/ Busy(w)' BY DEF WorkersInv
  <2>1. CASE wk'[w] = wk[w]
    <3>1. CASE wk[w] = Idle BY <2>1, <3>1
    <3>2. CASE Busy(w)
      <4>1. Continues(w) BY <2>1, <3>2 DEF Busy, Continues
      <4> QED BY <1>0, <4>1, WorkerContinues
    <3> QED BY <3>1, <3>2 DEF SmartInv, WorkersInv
  <2> QED BY <1>0, <2>1, WorkerContinues, WorkerBegins DEF WorkersKept
<1>2. RunsInv' BY <1>0 DEF SmartInv, RunsInv, DigestsKept, StatusKept, Alike
<1>3. QueueInv'
  <2> SUFFICES ASSUME NEW i \in Instants, queue'[i].state # "none" PROVE Current(i)'
    BY DEF QueueInv
  <2>1. Current(i) BY <1>0 DEF SmartInv, QueueInv, QueueKept, Current
  <2> QED BY <1>0, <2>1 DEF Current, DigestsKept, Alike, RuleKept
<1>4. RuleInv'
  <2>1. rule.watermark \in Int /\ now \in Int /\ now' \in Int
    <3>1. rule \in Rule /\ now \in Times /\ now' \in Times BY <1>0 DEF SmartInv, SmartTypeOK
    <3>2. rule.watermark \in Times \cup {None} BY <3>1, RuleFields
    <3> QED BY <3>1, <3>2, Moments
  <2>2. rule'.watermark <= now' BY <1>0, <2>1 DEF SmartInv, RuleInv, RuleKept
  <2> QED BY <1>0, <2>2 DEF SmartInv, RuleInv, RuleKept, DigestsKept, Alike
<1>5. NoArticleRepeated' BY <1>0 DEF SmartInv, NoArticleRepeated, DigestsKept, Alike
<1> QED BY <1>0, <1>1, <1>2, <1>3, <1>4, <1>5 DEF SmartInv

-----------------------------------------------------------------------------
(* The parts of a quiet step                                                 *)

LEMMA RunsSame ==
  ASSUME SmartInv, UNCHANGED runs
  PROVE  RunsKept
BY DEF RunsKept, DigestsKept, Alike, OwnersKept, StatusKept, SmartInv, SmartTypeOK

LEMMA RuleSame ==
  ASSUME SmartInv, UNCHANGED <<now, rule, disabled>>
  PROVE  RuleKept
<1>1. now \in Nat BY Moments DEF SmartInv, SmartTypeOK
<1> QED BY <1>1 DEF RuleKept

LEMMA QueueSame ==
  ASSUME UNCHANGED queue
  PROVE  QueueKept
BY DEF QueueKept

LEMMA WorkersSame ==
  ASSUME UNCHANGED wk
  PROVE  WorkersKept
BY DEF WorkersKept

\* One run is written and its digest left alone.
LEMMA RunWritten ==
  ASSUME SmartInv, NEW i \in Instants, NEW r \in DigestRun, runs' = [runs EXCEPT ![i] = r],
         Alike(r, runs[i]), (r.status = "COMPLETED") <=> (runs[i].status = "COMPLETED"),
         \A w \in Workers :
           (wk[w].pc = "commit" /\ r.status = "PROCESSING" /\ r.owner = w)
             => (runs[i].status = "PROCESSING" /\ runs[i].owner = w)
  PROVE  RunsKept
<1>0. runs \in [Instants -> DigestRun] BY DEF SmartInv, SmartTypeOK
<1>1. \A j \in Instants : runs'[j] = IF j = i THEN r ELSE runs[j] BY <1>0
<1>2. DigestsKept BY <1>1 DEF DigestsKept, Alike
<1>3. StatusKept BY <1>1 DEF StatusKept
<1>4. OwnersKept
  <2> SUFFICES ASSUME NEW w \in Workers, wk[w].pc = "commit",
                      runs'[wk[w].at].status = "PROCESSING", runs'[wk[w].at].owner = w
               PROVE  runs[wk[w].at].status = "PROCESSING" /\ runs[wk[w].at].owner = w
    BY DEF OwnersKept
  <2>1. wk[w].at \in Instants BY WorkerFields DEF SmartInv, WorkersInv, Busy
  <2> QED BY <1>1, <2>1
<1> QED BY <1>0, <1>1, <1>2, <1>3, <1>4 DEF RunsKept

\* One queue job is written: a job that was there, or one that is removed.
LEMMA QueueWritten ==
  ASSUME SmartInv, NEW i, NEW j \in QueueJob, queue' = [queue EXCEPT ![i] = j],
         j.state = "none" \/ queue[i].state # "none" \/ rule.next = i
  PROVE  queue' \in [Instants -> QueueJob] /\ QueueKept
BY DEF SmartInv, SmartTypeOK, QueueKept

\* A worker that runs moves on.
LEMMA WorkerWritten ==
  ASSUME SmartInv, NEW w \in Workers, NEW p \in WorkerState, wk' = [wk EXCEPT ![w] = p],
         wk[w].pc # "idle", p.pc # "idle", p.at = wk[w].at, p.now = wk[w].now,
         p.watermark = wk[w].watermark,
         p.pc \in LateStages => wk[w].pc \in LateStages /\ p.items = wk[w].items,
         disabled' /\ p.pc = "commit" => wk[w].pc = "commit"
  PROVE  wk' \in [Workers -> WorkerState] /\ WorkersKept
<1>0. wk \in [Workers -> WorkerState] BY DEF SmartInv, SmartTypeOK
<1>1. \A u \in Workers : wk'[u] = IF u = w THEN p ELSE wk[u] BY <1>0
<1>2. Continues(w) BY <1>1 DEF Continues
<1> QED BY <1>0, <1>1, <1>2 DEF WorkersKept

LEMMA WorkerGoes ==
  ASSUME SmartInv, NEW w \in Workers, NEW pc \in Stages, GoTo(w, pc),
         wk[w].pc # "idle", pc # "idle", pc \in LateStages => wk[w].pc \in LateStages,
         disabled' /\ pc = "commit" => wk[w].pc = "commit"
  PROVE  wk' \in [Workers -> WorkerState] /\ WorkersKept
<1> DEFINE p == [wk[w] EXCEPT !.pc = pc]
<1>0. wk[w] \in WorkerState BY DEF SmartInv, SmartTypeOK
<1>1. /\ p \in WorkerState /\ p.pc = pc /\ p.at = wk[w].at /\ p.now = wk[w].now
      /\ p.watermark = wk[w].watermark /\ p.items = wk[w].items
  BY <1>0 DEF WorkerState
<1>2. wk' = [wk EXCEPT ![w] = p] BY DEF GoTo, SmartInv, SmartTypeOK
<1> HIDE DEF p
<1> QED BY <1>1, <1>2, WorkerWritten

LEMMA WorkerReturns ==
  ASSUME SmartInv, NEW w \in Workers, wk' = [wk EXCEPT ![w] = Idle]
  PROVE  wk' \in [Workers -> WorkerState] /\ WorkersKept
BY WorkerFields DEF WorkersKept, SmartInv, SmartTypeOK

LEMMA QueueDone ==
  ASSUME SmartInv, NEW w \in Workers, Done(w) \/ Threw(w)
  PROVE  /\ queue' \in [Instants -> QueueJob] /\ QueueKept
         /\ wk' \in [Workers -> WorkerState] /\ WorkersKept
<1> DEFINE i == wk[w].at
<1>1. wk' \in [Workers -> WorkerState] /\ WorkersKept BY WorkerReturns DEF Done, Threw
<1>2. queue' \in [Instants -> QueueJob] /\ QueueKept
  <2>1. CASE Holds(w)
    <3>0. wk[w] \in WorkerState BY DEF SmartInv, SmartTypeOK
    <3>1. i \in Instants /\ queue[i].state # "none" BY <2>1, <3>0, WorkerFields DEF Holds
    <3>2. queue[i] \in QueueJob BY <3>1 DEF SmartInv, SmartTypeOK
    <3>3. PICK j \in {NoJob, Retried(queue[i])} : queue' = [queue EXCEPT ![i] = j]
      BY <2>1 DEF Done, Threw
    <3>4. j \in QueueJob BY <3>2, QueueFields
    <3> HIDE DEF i
    <3> QED BY <3>1, <3>3, <3>4, QueueWritten
  <2>2. CASE ~Holds(w)
    <3>1. UNCHANGED queue BY <2>2 DEF Done, Threw
    <3> QED BY <3>1, QueueSame DEF SmartInv, SmartTypeOK
  <2> QED BY <2>1, <2>2
<1> QED BY <1>1, <1>2

LEMMA EventsBounded ==
  ASSUME SmartInv, Event \/ UNCHANGED events
  PROVE  events' \in 0 .. MaxEvents
<1>1. events \in 0 .. MaxEvents /\ MaxEvents \in Nat BY SmartNumbers DEF SmartInv, SmartTypeOK
<1> QED BY <1>1 DEF Event

\* A step of the queue, of the runs and of a worker.
LEMMA QuietStep ==
  ASSUME SmartInv, RunsKept, UNCHANGED <<now, rule, created, disabled>>,
         queue' \in [Instants -> QueueJob], QueueKept, mails' \subseteq Instants,
         wk' \in [Workers -> WorkerState], WorkersKept, Event \/ UNCHANGED events
  PROVE  Quiet
<1>1. RuleKept BY RuleSame
<1>2. events' \in 0 .. MaxEvents BY EventsBounded
<1>3. /\ now' \in Times /\ rule' \in Rule /\ disabled' \in BOOLEAN
      /\ DOMAIN created' \subseteq Articles /\ \A a \in DOMAIN created' : created'[a] \in Times
  BY DEF SmartInv, SmartTypeOK
<1>4. SmartTypeOK' BY <1>2, <1>3 DEF SmartTypeOK, RunsKept
<1> QED BY <1>1, <1>4 DEF Quiet

-----------------------------------------------------------------------------
(* One lemma per action: the queue and the scheduler                         *)

\* What the queue and the scheduler leave alone is as it was.
LEMMA StayTyped ==
  ASSUME SmartInv
  PROVE  /\ UNCHANGED queue => queue' \in [Instants -> QueueJob]
         /\ UNCHANGED mails => mails' \subseteq Instants
         /\ UNCHANGED wk => wk' \in [Workers -> WorkerState]
BY DEF SmartInv, SmartTypeOK

LEMMA StalledQuiet ==
  ASSUME SmartInv, NEW i \in Instants, Stalled(i)
  PROVE  Quiet
<1>0. queue[i] \in QueueJob /\ queue[i].state # "none"
  BY DEF SmartInv, SmartTypeOK, Stalled
<1>1. UNCHANGED <<now, rule, runs, created, disabled, mails, wk>> BY DEF Stalled
<1>2. queue' \in [Instants -> QueueJob] /\ QueueKept
  <2>1. CASE queue[i].stalls < MaxStalls
    <3> DEFINE j == [queue[i] EXCEPT !.state = "wait", !.stalls = queue[i].stalls + 1,
                                     !.holder = NoOwner]
    <3>1. j \in QueueJob BY <1>0, <2>1, QueueFields
    <3>2. queue' = [queue EXCEPT ![i] = j] BY <2>1 DEF Stalled
    <3> HIDE DEF j
    <3> QED BY <1>0, <3>1, <3>2, QueueWritten
  <2>2. CASE ~(queue[i].stalls < MaxStalls)
    <3> DEFINE j == [queue[i] EXCEPT !.state = "failed", !.holder = NoOwner]
    <3>1. j \in QueueJob BY <1>0, QueueFields
    <3>2. queue' = [queue EXCEPT ![i] = j] BY <2>2 DEF Stalled
    <3> HIDE DEF j
    <3> QED BY <1>0, <3>1, <3>2, QueueWritten
  <2> QED BY <2>1, <2>2
<1>3. Event \/ UNCHANGED events BY DEF Stalled
<1> QED BY <1>1, <1>2, <1>3, RunsSame, WorkersSame, StayTyped, QuietStep

LEMMA RetireQuiet ==
  ASSUME SmartInv, NEW i \in Instants, Retire(i)
  PROVE  Quiet
<1>1. /\ UNCHANGED <<now, rule, runs, created, disabled, mails, wk, events>>
      /\ queue' = [queue EXCEPT ![i] = NoJob]
  BY DEF Retire
<1>2. queue' \in [Instants -> QueueJob] /\ QueueKept BY <1>1, QueueFields, QueueWritten
<1> QED BY <1>1, <1>2, RunsSame, WorkersSame, StayTyped, QuietStep

\* The only queue job that is added belongs to the next run of the rule.
LEMMA EnqueueDueQuiet ==
  ASSUME SmartInv, EnqueueDue
  PROVE  Quiet
<1>1. /\ UNCHANGED <<now, rule, runs, created, disabled, mails, wk, events>>
      /\ queue' = [queue EXCEPT ![rule.next] = [NoJob EXCEPT !.state = "wait"]]
  BY DEF EnqueueDue
<1>2. queue' \in [Instants -> QueueJob] /\ QueueKept
  <2> DEFINE i == rule.next
             j == [NoJob EXCEPT !.state = "wait"]
  <2>1. queue' = [queue EXCEPT ![i] = j] /\ j \in QueueJob /\ rule.next = i
    BY <1>1, QueueFields
  <2> HIDE DEF i, j
  <2> QED BY <2>1, QueueWritten
<1> QED BY <1>1, <1>2, RunsSame, WorkersSame, StayTyped, QuietStep

LEMMA EnqueuePendingEmailQuiet ==
  ASSUME SmartInv, NEW i \in Instants, EnqueuePendingEmail(i)
  PROVE  Quiet
<1>1. UNCHANGED <<now, rule, runs, created, disabled, queue, wk, events>>
  BY DEF EnqueuePendingEmail
<1>2. mails' \subseteq Instants
  BY DEF EnqueuePendingEmail, WithEmailJob, SmartInv, SmartTypeOK
<1> QED BY <1>1, <1>2, RunsSame, QueueSame, WorkersSame, StayTyped, QuietStep

LEMMA StartQuiet ==
  ASSUME SmartInv, NEW w \in Workers, NEW i \in Instants, Start(w, i)
  PROVE  Quiet
<1>0. /\ queue[i] \in QueueJob /\ queue[i].state # "none"
      /\ UNCHANGED <<now, rule, runs, created, disabled, mails, events>>
  BY DEF SmartInv, SmartTypeOK, Start
<1>1. CASE queue' = [queue EXCEPT ![i] = NoJob] /\ UNCHANGED wk
  <2>1. queue' \in [Instants -> QueueJob] /\ QueueKept BY <1>1, QueueFields, QueueWritten
  <2> QED BY <1>0, <1>1, <2>1, RunsSame, WorkersSame, StayTyped, QuietStep
<1>2. CASE /\ queue' = [queue EXCEPT ![i].state = "active", ![i].holder = w]
           /\ wk' = [wk EXCEPT ![w] = [Idle EXCEPT !.pc = "upsert", !.at = i, !.now = now,
                                                   !.watermark = rule.watermark]]
  <2> DEFINE j == [queue[i] EXCEPT !.state = "active", !.holder = w]
             p == [Idle EXCEPT !.pc = "upsert", !.at = i, !.now = now,
                               !.watermark = rule.watermark]
  <2>1. j \in QueueJob BY <1>0, QueueFields
  <2>2. queue' = [queue EXCEPT ![i] = j] BY <1>2 DEF SmartInv, SmartTypeOK
  <2>3. rule.watermark \in Times \cup {None} /\ now \in Times
    BY RuleFields DEF SmartInv, SmartTypeOK
  <2>4. p \in WorkerState BY <2>3, WorkerFields DEF WorkerState, Stages
  <2>5. p.pc = "upsert" /\ p.at = i /\ p.now = now /\ p.watermark = rule.watermark
    BY WorkerFields DEF WorkerState
  <2>6. wk' = [wk EXCEPT ![w] = p] BY <1>2
  <2> HIDE DEF j, p
  <2>7. queue' \in [Instants -> QueueJob] /\ QueueKept BY <1>0, <2>1, <2>2, QueueWritten
  <2>8. wk' \in [Workers -> WorkerState] /\ \A u \in Workers : wk'[u] = IF u = w THEN p ELSE wk[u]
    BY <2>4, <2>6 DEF SmartInv, SmartTypeOK
  <2>9. Begins(w) BY <1>0, <2>5, <2>8 DEF Begins
  <2>10. WorkersKept BY <2>8, <2>9 DEF WorkersKept
  <2> QED BY <1>0, <2>7, <2>8, <2>10, RunsSame, StayTyped, QuietStep
<1> QED BY <1>1, <1>2 DEF Start

-----------------------------------------------------------------------------
(* One lemma per action: the worker                                          *)

\* A worker that runs has its instant.
LEMMA BusyFields ==
  ASSUME SmartInv, NEW w \in Workers, wk[w].pc # "idle"
  PROVE  /\ Busy(w) /\ wk[w].at \in Instants /\ Run(w) \in DigestRun
         /\ Run(w) = runs[wk[w].at] /\ wk[w] \in WorkerState
BY WorkerFields DEF SmartInv, SmartTypeOK, WorkersInv, Busy, Run

LEMMA UpsertQuiet ==
  ASSUME SmartInv, NEW w \in Workers, Upsert(w)
  PROVE  Quiet
<1>0. /\ wk[w].at \in Instants /\ Run(w) \in DigestRun /\ Run(w) = runs[wk[w].at]
      /\ wk[w] \in WorkerState /\ wk[w].pc = "upsert"
      /\ UNCHANGED <<now, rule, created, disabled, queue, mails, events>>
  BY BusyFields DEF Upsert
<1>1. RunsKept
  <2>1. CASE Run(w).status = "none"
    <3> DEFINE r == [NoRun EXCEPT !.status = "PENDING"]
    <3>1. r \in DigestRun /\ r.status = "PENDING" /\ Alike(r, NoRun)
      BY RunFields DEF DigestRun, Statuses, Alike
    <3>2. runs' = [runs EXCEPT ![wk[w].at] = r] BY <2>1 DEF Upsert
    <3>3. ~Run(w).digest /\ Run(w).items = {} /\ Run(w).digest \in BOOLEAN
      BY <1>0, <2>1, RunFields DEF SmartInv, RunsInv
    <3>4. Alike(r, runs[wk[w].at])
      BY <1>0, <3>1, <3>3, RunFields DEF Alike
    <3> HIDE DEF r
    <3>5. \A u \in Workers :
            (wk[u].pc = "commit" /\ r.status = "PROCESSING" /\ r.owner = u)
              => (runs[wk[w].at].status = "PROCESSING" /\ runs[wk[w].at].owner = u)
      BY <3>1
    <3>6. (r.status = "COMPLETED") <=> (runs[wk[w].at].status = "COMPLETED")
      BY <1>0, <2>1, <3>1
    <3> QED BY <1>0, <3>1, <3>2, <3>4, <3>5, <3>6, RunWritten
  <2>2. CASE Run(w).status # "none"
    BY <2>2, RunsSame DEF Upsert
  <2> QED BY <2>1, <2>2
<1> DEFINE p == [wk[w] EXCEPT !.pc = "claim",
                              !.pending = Run(w).digest /\ EmailPending(Run(w))]
<1>2. /\ p \in WorkerState /\ p.pc = "claim" /\ p.at = wk[w].at /\ p.now = wk[w].now
      /\ p.watermark = wk[w].watermark
  BY <1>0 DEF WorkerState, Stages
<1>3. wk' = [wk EXCEPT ![w] = p] BY DEF Upsert, SmartInv, SmartTypeOK
<1> HIDE DEF p
<1>4. wk' \in [Workers -> WorkerState] /\ WorkersKept
  BY <1>0, <1>2, <1>3, WorkerWritten DEF LateStages
<1> QED BY <1>0, <1>1, <1>4, QueueSame, StayTyped, QuietStep

LEMMA ClaimQuiet ==
  ASSUME SmartInv, NEW w \in Workers, Claim(w)
  PROVE  Quiet
<1>0. /\ wk[w].at \in Instants /\ Run(w) \in DigestRun /\ Run(w) = runs[wk[w].at]
      /\ wk[w] \in WorkerState /\ wk[w].pc = "claim" /\ Run(w).attempt + 1 \in Nat
      /\ UNCHANGED <<now, rule, created, disabled, queue, mails, events>>
  <2>1. /\ wk[w].at \in Instants /\ Run(w) \in DigestRun /\ Run(w) = runs[wk[w].at]
        /\ wk[w] \in WorkerState /\ wk[w].pc = "claim"
        /\ UNCHANGED <<now, rule, created, disabled, queue, mails, events>>
    BY BusyFields DEF Claim
  <2>2. Run(w).attempt \in Nat BY <2>1, RunFields
  <2> QED BY <2>1, <2>2
<1>1. CASE /\ Claimable(Run(w)) /\ ~Run(w).digest
           /\ runs' = [runs EXCEPT ![wk[w].at] = [runs[wk[w].at] EXCEPT
                         !.status = "PROCESSING", !.attempt = Run(w).attempt + 1,
                         !.owner = w, !.left = Lease]]
           /\ wk' = [wk EXCEPT ![w] = [wk[w] EXCEPT !.pc = "query", !.held = TRUE,
                                                    !.attempt = Run(w).attempt + 1]]
  <2> DEFINE i == wk[w].at
             a == Run(w).attempt + 1
             r == [runs[i] EXCEPT !.status = "PROCESSING", !.attempt = a, !.owner = w,
                                  !.left = Lease]
             p == [wk[w] EXCEPT !.pc = "query", !.held = TRUE, !.attempt = a]
  <2>1. a \in Nat /\ i \in Instants /\ runs[i] \in DigestRun BY <1>0
  <2>2. runs' = [runs EXCEPT ![i] = r] /\ wk' = [wk EXCEPT ![w] = p] BY <1>1
  <2>3. /\ p \in WorkerState /\ p.pc = "query" /\ p.at = wk[w].at /\ p.now = wk[w].now
        /\ p.watermark = wk[w].watermark
    BY <1>0 DEF WorkerState, Stages
  <2>4. runs[i].status # "COMPLETED" BY <1>0, <1>1 DEF Claimable
  <2> HIDE DEF a, i, p
  <2>5. r \in DigestRun /\ Alike(r, runs[i]) /\ r.status = "PROCESSING" /\ r.owner = w
    BY <2>1, ClaimedWritten
  <2> HIDE DEF r
  <2>6. \A u \in Workers :
          (wk[u].pc = "commit" /\ r.status = "PROCESSING" /\ r.owner = u)
            => (runs[i].status = "PROCESSING" /\ runs[i].owner = u)
    BY <1>0, <2>5
  <2>7. RunsKept BY <2>1, <2>2, <2>4, <2>5, <2>6, RunWritten
  <2>8. wk' \in [Workers -> WorkerState] /\ WorkersKept
    BY <1>0, <2>2, <2>3, WorkerWritten DEF LateStages
  <2> QED BY <1>0, <2>7, <2>8, QueueSame, StayTyped, QuietStep
<1>2. CASE /\ ~(Claimable(Run(w)) /\ ~Run(w).digest)
           /\ GoTo(w, "email")
  <2>1. ~Claimable(Run(w))
    <3>1. Run(w).digest => Run(w).status = "COMPLETED" BY <1>0 DEF SmartInv, RunsInv
    <3> QED BY <1>2, <3>1 DEF Claimable
  <2>2. UNCHANGED runs BY <2>1 DEF Claim
  <2>3. wk' \in [Workers -> WorkerState] /\ WorkersKept
    BY <1>0, <1>2, WorkerGoes DEF Stages, LateStages
  <2> QED BY <1>0, <2>2, <2>3, RunsSame, QueueSame, StayTyped, QuietStep
<1> QED BY <1>1, <1>2 DEF Claim

\* A renewal changes how long the lease runs.
LEMMA RenewalWrites ==
  ASSUME SmartInv, NEW w \in Workers, wk[w].pc # "idle", runs' = Renewed(w)
  PROVE  RunsKept
<1> DEFINE i == wk[w].at
           r == [runs[i] EXCEPT !.left = Lease]
<1>1. i \in Instants /\ runs[i] \in DigestRun BY BusyFields
<1>2. runs' = [runs EXCEPT ![i] = r] BY DEF Renewed, SmartInv, SmartTypeOK
<1>3. Lease \in 0 .. Lease BY SmartNumbers
<1> HIDE DEF i
<1>4. /\ r \in DigestRun /\ Alike(r, runs[i]) /\ r.status = runs[i].status
      /\ r.owner = runs[i].owner
  BY <1>1, <1>3, LeftWritten
<1> HIDE DEF r
<1>5. /\ (r.status = "COMPLETED") <=> (runs[i].status = "COMPLETED")
      /\ \A u \in Workers :
           (wk[u].pc = "commit" /\ r.status = "PROCESSING" /\ r.owner = u)
             => (runs[i].status = "PROCESSING" /\ runs[i].owner = u)
  BY <1>4
<1> QED BY <1>1, <1>2, <1>4, <1>5, RunWritten

\* A run that fails does so without a digest.
LEMMA FailureWrites ==
  ASSUME SmartInv, NEW w \in Workers, wk[w].pc # "idle", runs' = Failed(w)
  PROVE  RunsKept
<1>1. CASE LeaseCurrent(w)
  <2> DEFINE i == wk[w].at
             r == [runs[i] EXCEPT !.status = "FAILED", !.owner = NoOwner, !.left = 0]
  <2>1. i \in Instants /\ runs[i] \in DigestRun BY BusyFields
  <2>2. runs' = [runs EXCEPT ![i] = r] BY <1>1 DEF Failed
  <2>3. runs[i].status = "PROCESSING" BY <1>1 DEF LeaseCurrent, Run
  <2> HIDE DEF i
  <2>4. r \in DigestRun /\ Alike(r, runs[i]) /\ r.status = "FAILED" BY <2>1, FailedWritten
  <2> HIDE DEF r
  <2> QED BY <2>1, <2>2, <2>3, <2>4, RunWritten
<1>2. CASE ~LeaseCurrent(w)
  <2>1. UNCHANGED runs BY <1>2 DEF Failed
  <2> QED BY <2>1, RunsSame
<1> QED BY <1>1, <1>2

LEMMA HeartbeatQuiet ==
  ASSUME SmartInv, NEW w \in Workers, Heartbeat(w)
  PROVE  Quiet
<1>0. /\ wk[w] \in WorkerState /\ wk[w].pc = "query"
      /\ UNCHANGED <<now, rule, created, disabled, queue, mails>>
  BY BusyFields DEF Heartbeat
<1>1. CASE runs' = Renewed(w) /\ UNCHANGED <<wk, events>>
  <2>1. RunsKept BY <1>0, <1>1, RenewalWrites
  <2> QED BY <1>0, <1>1, <2>1, WorkersSame, QueueSame, StayTyped, QuietStep
<1>2. CASE /\ Event \/ UNCHANGED events
           /\ wk' = [wk EXCEPT ![w].held = FALSE] /\ UNCHANGED runs
  <2> DEFINE p == [wk[w] EXCEPT !.held = FALSE]
  <2>1. wk' = [wk EXCEPT ![w] = p] BY <1>2 DEF SmartInv, SmartTypeOK
  <2>2. /\ p \in WorkerState /\ p.pc = "query" /\ p.at = wk[w].at /\ p.now = wk[w].now
        /\ p.watermark = wk[w].watermark
    BY <1>0 DEF WorkerState
  <2> HIDE DEF p
  <2>3. wk' \in [Workers -> WorkerState] /\ WorkersKept
    BY <1>0, <2>1, <2>2, WorkerWritten DEF LateStages
  <2> QED BY <1>0, <1>2, <2>3, RunsSame, QueueSame, StayTyped, QuietStep
<1> QED BY <1>1, <1>2 DEF Heartbeat

LEMMA FinalRenewQuiet ==
  ASSUME SmartInv, NEW w \in Workers, FinalRenew(w)
  PROVE  Quiet
<1>0. /\ wk[w].pc = "renew" /\ UNCHANGED <<now, rule, created, disabled, mails, events>>
  BY DEF FinalRenew
<1>1. CASE runs' = Renewed(w) /\ GoTo(w, "recheck") /\ UNCHANGED queue
  <2>1. RunsKept BY <1>0, <1>1, RenewalWrites
  <2>2. wk' \in [Workers -> WorkerState] /\ WorkersKept
    BY <1>0, <1>1, WorkerGoes DEF Stages, LateStages
  <2> QED BY <1>0, <1>1, <2>1, <2>2, QueueSame, StayTyped, QuietStep
<1>2. CASE Done(w) /\ UNCHANGED runs
  BY <1>0, <1>2, QueueDone, RunsSame, StayTyped, QuietStep
<1> QED BY <1>1, <1>2 DEF FinalRenew

\* A worker goes on to the commit only when the account is not disabled.
LEMMA RecheckQuiet ==
  ASSUME SmartInv, NEW w \in Workers, Recheck(w)
  PROVE  Quiet
<1>0. /\ wk[w].pc = "recheck" /\ UNCHANGED <<now, rule, created, disabled, mails, events>>
  BY DEF Recheck
<1>1. CASE ~disabled /\ GoTo(w, "commit") /\ UNCHANGED <<runs, queue>>
  <2>1. wk' \in [Workers -> WorkerState] /\ WorkersKept
    BY <1>0, <1>1, WorkerGoes DEF Stages, LateStages
  <2> QED BY <1>0, <1>1, <2>1, RunsSame, QueueSame, StayTyped, QuietStep
<1>2. CASE runs' = Failed(w) /\ Done(w)
  <2>1. RunsKept BY <1>0, <1>2, FailureWrites
  <2> QED BY <1>0, <1>2, <2>1, QueueDone, StayTyped, QuietStep
<1> QED BY <1>1, <1>2 DEF Recheck

LEMMA EnqueueEmailQuiet ==
  ASSUME SmartInv, NEW w \in Workers, EnqueueEmail(w)
  PROVE  Quiet
<1>0. /\ wk[w].pc = "email" /\ Done(w)
      /\ UNCHANGED <<now, rule, runs, created, disabled, events>>
  BY DEF EnqueueEmail
<1>1. mails' \subseteq Instants
  <2>1. wk[w].at \in Instants BY <1>0, BusyFields
  <2> QED BY <2>1 DEF EnqueueEmail, WithEmailJob, SmartInv, SmartTypeOK
<1> QED BY <1>0, <1>1, QueueDone, RunsSame, QuietStep

LEMMA ThrowQuiet ==
  ASSUME SmartInv, NEW w \in Workers, Throw(w)
  PROVE  Quiet
<1>0. /\ wk[w].pc # "idle" /\ Event
      /\ UNCHANGED <<now, rule, runs, created, disabled, mails>>
  BY DEF Throw
<1>1. CASE GoTo(w, "fail") /\ UNCHANGED queue
  <2>1. wk' \in [Workers -> WorkerState] /\ WorkersKept
    BY <1>0, <1>1, WorkerGoes DEF Stages, LateStages
  <2> QED BY <1>0, <1>1, <2>1, RunsSame, QueueSame, StayTyped, QuietStep
<1>2. CASE Threw(w)
  BY <1>0, <1>2, QueueDone, RunsSame, StayTyped, QuietStep
<1> QED BY <1>1, <1>2 DEF Throw

LEMMA FailRunQuiet ==
  ASSUME SmartInv, NEW w \in Workers, FailRun(w)
  PROVE  Quiet
<1>0. /\ wk[w].pc = "fail" /\ Threw(w)
      /\ UNCHANGED <<now, rule, created, disabled, mails>>
  BY DEF FailRun
<1>1. RunsKept /\ (Event \/ UNCHANGED events)
  <2>1. CASE runs' = Failed(w) /\ UNCHANGED events BY <1>0, <2>1, FailureWrites
  <2>2. CASE Event /\ UNCHANGED runs BY <2>2, RunsSame
  <2> QED BY <2>1, <2>2 DEF FailRun
<1> QED BY <1>0, <1>1, QueueDone, StayTyped, QuietStep

LEMMA CrashQuiet ==
  ASSUME SmartInv, NEW w \in Workers, Crash(w)
  PROVE  Quiet
<1>1. /\ wk' = [wk EXCEPT ![w] = Idle] /\ Event
      /\ UNCHANGED <<now, rule, runs, created, disabled, queue, mails>>
  BY DEF Crash
<1> QED BY <1>1, WorkerReturns, RunsSame, QueueSame, StayTyped, QuietStep

-----------------------------------------------------------------------------
(* One lemma per action: the surroundings                                    *)

\* An article that becomes visible was created at most IngestDelay ago.
LEMMA IngestCreates ==
  ASSUME SmartInv, NEW a \in Articles, Ingest(a)
  PROVE  /\ DOMAIN created' = DOMAIN created \cup {a} /\ a \notin DOMAIN created
         /\ \A b \in DOMAIN created : created'[b] = created[b]
         /\ created'[a] \in Times /\ created'[a] + IngestDelay >= now
<1>0. now \in Times /\ now \in Nat /\ now <= MaxClock BY Moments DEF SmartInv, SmartTypeOK
<1>1. PICK delay \in 0 .. IngestDelay :
        /\ delay <= now
        /\ created' = [b \in DOMAIN created \cup {a} |->
                         IF b = a THEN now - delay ELSE created[b]]
  BY DEF Ingest
<1>2. a \notin DOMAIN created BY DEF Ingest
<1>3. /\ DOMAIN created' = DOMAIN created \cup {a}
      /\ \A b \in DOMAIN created : created'[b] = created[b]
      /\ created'[a] = now - delay
  BY <1>1, <1>2
<1>4. now - delay \in Times /\ now - delay + IngestDelay >= now
  BY <1>0, <1>1, SmartNumbers DEF Times
<1> QED BY <1>2, <1>3, <1>4

LEMMA IngestQuiet ==
  ASSUME SmartInv, NEW a \in Articles, Ingest(a)
  PROVE  Quiet
<1>1. UNCHANGED <<now, rule, runs, disabled, queue, mails, wk, events>> BY DEF Ingest
<1>2. DOMAIN created' \subseteq Articles /\ \A b \in DOMAIN created' : created'[b] \in Times
  BY IngestCreates DEF SmartInv, SmartTypeOK
<1>3. SmartTypeOK' BY <1>1, <1>2 DEF SmartInv, SmartTypeOK
<1> QED BY <1>1, <1>3, RunsSame, RuleSame, QueueSame, WorkersSame DEF Quiet

\* Disabling the account cancels the runs in progress.
LEMMA DisableQuiet ==
  ASSUME SmartInv, DisableUser
  PROVE  Quiet
<1>0. /\ UNCHANGED <<now, created, queue, mails, wk>> /\ Event /\ disabled'
      /\ rule \in Rule /\ runs \in [Instants -> DigestRun] /\ disabled' \in BOOLEAN
      /\ rule' = [rule EXCEPT !.enabled = FALSE, !.next = None]
  BY DEF DisableUser, SmartInv, SmartTypeOK
<1>1. rule' \in Rule /\ rule'.watermark = rule.watermark BY <1>0, RuleFields
<1>2. ASSUME NEW i \in Instants
      PROVE  /\ runs'[i] \in DigestRun /\ Alike(runs'[i], runs[i])
             /\ runs'[i].status # "PROCESSING"
             /\ (runs'[i].status = "COMPLETED") <=> (runs[i].status = "COMPLETED")
  <2>0. runs[i] \in DigestRun BY <1>0
  <2>1. CASE runs[i].status \in {"PENDING", "PROCESSING", "FAILED"}
    <3>1. runs'[i] = [runs[i] EXCEPT !.status = "CANCELED", !.owner = NoOwner, !.left = 0,
                                     !.email = "NOT_REQUESTED"]
      BY <2>1 DEF DisableUser
    <3>2. runs'[i] \in DigestRun /\ Alike(runs'[i], runs[i]) /\ runs'[i].status = "CANCELED"
      BY <2>0, <3>1, CanceledWritten
    <3> QED BY <2>1, <3>2
  <2>2. CASE runs[i].status \notin {"PENDING", "PROCESSING", "FAILED"}
    <3>1. runs'[i] = [runs[i] EXCEPT !.email = "NOT_REQUESTED"]
      BY <2>2 DEF DisableUser
    <3>2. runs'[i] \in DigestRun /\ Alike(runs'[i], runs[i]) /\ runs'[i].status = runs[i].status
      BY <2>0, <3>1, EmailWritten
    <3> QED BY <2>2, <3>2
  <2> QED BY <2>1, <2>2
<1>3. runs' \in [Instants -> DigestRun]
  <2>1. runs' = [i \in Instants |-> runs'[i]] BY DEF DisableUser
  <2> QED BY <1>2, <2>1
<1>4. OwnersKept
  <2> SUFFICES ASSUME NEW w \in Workers, wk[w].pc = "commit"
               PROVE  runs'[wk[w].at].status # "PROCESSING"
    BY DEF OwnersKept
  <2>1. wk[w].at \in Instants BY BusyFields
  <2> QED BY <1>2, <2>1
<1>5. RunsKept BY <1>2, <1>3, <1>4 DEF RunsKept, DigestsKept, StatusKept
<1>6. RuleKept
  <2>1. now \in Nat BY Moments DEF SmartInv, SmartTypeOK
  <2> QED BY <1>0, <1>1, <1>2, <2>1 DEF RuleKept
<1>7. events' \in 0 .. MaxEvents BY <1>0, EventsBounded
<1>8. SmartTypeOK' BY <1>0, <1>1, <1>3, <1>7 DEF SmartInv, SmartTypeOK
<1> QED BY <1>0, <1>5, <1>6, <1>8, QueueSame, WorkersSame DEF Quiet

LEMMA TimeQuiet ==
  ASSUME SmartInv, TimePasses
  PROVE  Quiet
<1>0. /\ UNCHANGED <<rule, created, disabled, queue, mails, wk>>
      /\ (Event \/ UNCHANGED events) /\ runs \in [Instants -> DigestRun]
  BY DEF TimePasses, SmartInv, SmartTypeOK
<1>1. now' \in Times /\ now <= now'
  <2>1. now \in Times BY DEF SmartInv, SmartTypeOK
  <2> QED BY <2>1, SmartNumbers DEF TimePasses, Times
<1> DEFINE less(i) == IF runs[i].left > 0 THEN runs[i].left - 1 ELSE 0
<1>2. \A i \in Instants : less(i) \in 0 .. Lease
  <2> TAKE i \in Instants
  <2>1. runs[i].left \in 0 .. Lease BY <1>0, RunFields
  <2> QED BY <2>1, SmartNumbers
<1>3. runs' = [i \in Instants |-> [runs[i] EXCEPT !.left = less(i)]] BY DEF TimePasses
<1> HIDE DEF less
<1>4. \A i \in Instants :
        /\ runs'[i] \in DigestRun /\ Alike(runs'[i], runs[i])
        /\ runs'[i].status = runs[i].status /\ runs'[i].owner = runs[i].owner
  <2> TAKE i \in Instants
  <2>1. runs'[i] = [runs[i] EXCEPT !.left = less(i)] /\ runs[i] \in DigestRun BY <1>0, <1>3
  <2> QED BY <1>2, <2>1, LeftWritten
<1>5. OwnersKept
  <2> SUFFICES ASSUME NEW w \in Workers, wk[w].pc = "commit",
                      runs'[wk[w].at].status = "PROCESSING", runs'[wk[w].at].owner = w
               PROVE  runs[wk[w].at].status = "PROCESSING" /\ runs[wk[w].at].owner = w
    BY DEF OwnersKept
  <2>1. wk[w].at \in Instants BY BusyFields
  <2> QED BY <1>4, <2>1
<1>6. RunsKept BY <1>3, <1>4, <1>5 DEF RunsKept, DigestsKept, StatusKept
<1>7. RuleKept BY <1>0, <1>1 DEF RuleKept
<1>8. events' \in 0 .. MaxEvents BY <1>0, EventsBounded
<1>9. SmartTypeOK' BY <1>0, <1>1, <1>6, <1>8 DEF SmartInv, SmartTypeOK, RunsKept
<1> QED BY <1>0, <1>6, <1>7, <1>9, QueueSame, WorkersSame DEF Quiet

-----------------------------------------------------------------------------
(* The query and the commit                                                  *)

\* What a selection of the newest returns is part of what it is given.
LEMMA NewestSubset ==
  ASSUME NEW S, NEW n, NEW T \in Newest(S, n)
  PROVE  T \subseteq S
BY DEF Newest

\* All of it, when that is not more than the limit.
LEMMA NewestAll ==
  ASSUME NEW S, IsFiniteSet(S), NEW n \in Nat, Cardinality(S) <= n, NEW T \in Newest(S, n)
  PROVE  T = S
<1>1. T \subseteq S BY NewestSubset
<1>2. Cardinality(S) \in Nat BY FS_CardinalityType
<1>3. Cardinality(T) = IF Cardinality(S) < n THEN Cardinality(S) ELSE n BY DEF Newest
<1>4. Cardinality(T) = Cardinality(S) BY <1>2, <1>3
<1> QED BY <1>1, <1>4, FS_Subset

\* The worker's state after its query.
LEMMA QueryFields ==
  ASSUME SmartInv, NEW w \in Workers, NEW items \in SUBSET Articles, wk[w].pc = "query",
         wk' = [wk EXCEPT ![w].pc = "renew", ![w].items = items]
  PROVE  /\ wk' \in [Workers -> WorkerState]
         /\ wk'[w].pc = "renew" /\ wk'[w].items = items /\ wk'[w].at = wk[w].at
         /\ wk'[w].now = wk[w].now /\ wk'[w].watermark = wk[w].watermark
         /\ \A u \in Workers : u # w => wk'[u] = wk[u]
<1> DEFINE p == [wk[w] EXCEPT !.pc = "renew", !.items = items]
<1>0. wk \in [Workers -> WorkerState] /\ wk[w] \in WorkerState BY DEF SmartInv, SmartTypeOK
<1>1. /\ p \in WorkerState /\ p.pc = "renew" /\ p.items = items /\ p.at = wk[w].at
      /\ p.now = wk[w].now /\ p.watermark = wk[w].watermark
  BY <1>0 DEF WorkerState, Stages
<1>2. wk' = [wk EXCEPT ![w] = p] BY <1>0
<1> HIDE DEF p
<1> QED BY <1>0, <1>1, <1>2

\* What a query finds is in no digest.
LEMMA QueryKeeps ==
  ASSUME SmartInv, NEW w \in Workers, Query(w)
  PROVE  SmartInv'
<1>0. wk[w].pc = "query" /\ UNCHANGED <<now, rule, runs, created, disabled, queue, mails, events>>
  BY DEF Query
<1> DEFINE all == Candidates(WatermarkFrom(wk[w].watermark, wk[w].now), wk[w].now)
<1>1. PICK C \in Newest(all, CandidateLimit) :
        \E items \in Newest(C \cap Matching, ItemLimit) :
          wk' = [wk EXCEPT ![w].pc = "renew", ![w].items = items]
  BY DEF Query
<1>2. PICK items \in Newest(C \cap Matching, ItemLimit) :
        wk' = [wk EXCEPT ![w].pc = "renew", ![w].items = items]
  BY <1>1
<1>3. all \subseteq Articles /\ all \cap Included = {}
  BY DEF Candidates, SmartInv, SmartTypeOK
<1> HIDE DEF all
<1>4. items \subseteq Articles /\ items \cap Included = {}
  <2>1. C \subseteq all /\ items \subseteq C \cap Matching BY NewestSubset
  <2> QED BY <1>3, <2>1
<1>5. /\ wk' \in [Workers -> WorkerState]
      /\ wk'[w].pc = "renew" /\ wk'[w].items = items /\ wk'[w].at = wk[w].at
      /\ wk'[w].now = wk[w].now /\ wk'[w].watermark = wk[w].watermark
      /\ \A u \in Workers : u # w => wk'[u] = wk[u]
  BY <1>0, <1>2, <1>4, QueryFields
<1>6. SmartTypeOK' BY <1>0, <1>5 DEF SmartInv, SmartTypeOK
<1>7. RunsKept /\ RuleKept BY <1>0, RunsSame, RuleSame
<1>8. WorkersInv'
  <2> SUFFICES ASSUME NEW u \in Workers PROVE wk'[u] = Idle \/ Busy(u)' BY DEF WorkersInv
  <2>1. CASE u = w
    <3>1. Busy(w) BY <1>0, BusyFields
    <3> QED BY <1>0, <1>4, <1>5, <2>1, <3>1, DigestsSame
        DEF Busy, Current, LateStages, RunsKept, DigestsKept, Alike
  <2>2. CASE u # w
    <3>1. CASE wk[u] = Idle BY <1>5, <2>2, <3>1
    <3>2. CASE Busy(u)
      <4>1. Continues(u) BY <1>5, <2>2, <3>2 DEF Busy, Continues
      <4> QED BY <1>6, <1>7, <4>1, WorkerContinues DEF RunsKept
    <3> QED BY <3>1, <3>2 DEF SmartInv, WorkersInv
  <2> QED BY <2>1, <2>2
<1> QED BY <1>0, <1>6, <1>8
    DEF SmartInv, RunsInv, QueueInv, RuleInv, NoArticleRepeated, Current

\* The run that a commit completes: it had no digest, it is the current one,
\* and what the worker knows is still so.
LEMMA CommitFinds ==
  ASSUME SmartInv, NEW w \in Workers, wk[w].pc = "commit", LeaseCurrent(w)
  PROVE  /\ wk[w].at \in Instants /\ wk[w].now \in Times /\ wk[w].now <= now
         /\ ~runs[wk[w].at].digest /\ runs[wk[w].at].items = {} /\ ~disabled
         /\ rule.next = wk[w].at /\ wk[w].watermark = rule.watermark
         /\ wk[w].items \cap Included = {}
<1>1. Busy(w) /\ wk[w].at \in Instants BY BusyFields
<1>2. runs[wk[w].at].status = "PROCESSING" /\ runs[wk[w].at].owner = w
  BY DEF LeaseCurrent, Run
<1>3. ~runs[wk[w].at].digest /\ runs[wk[w].at].items = {}
  BY <1>1, <1>2 DEF SmartInv, RunsInv
<1>4. ~disabled BY <1>1, <1>2 DEF Busy, Fenced, Run
<1> QED BY <1>1, <1>3, <1>4 DEF Busy, Current, LateStages

\* What a commit writes.
LEMMA CommitWrites ==
  ASSUME SmartInv, NEW w \in Workers, Commit(w), LeaseCurrent(w)
  PROVE  LET i == wk[w].at IN
         /\ runs' \in [Instants -> DigestRun]
         /\ \A j \in Instants : j # i => runs'[j] = runs[j]
         /\ runs'[i].digest /\ runs'[i].status = "COMPLETED" /\ runs'[i].items = wk[w].items
         /\ runs'[i].from = WatermarkFrom(wk[w].watermark, wk[w].now)
         /\ rule' \in Rule /\ rule'.watermark = wk[w].now
         /\ wk' \in [Workers -> WorkerState]
         /\ \A u \in Workers : u # w => wk'[u] = wk[u]
         /\ wk'[w].pc = "email" /\ wk'[w].at = i /\ wk'[w].now = wk[w].now
         /\ UNCHANGED <<now, created, disabled, queue, mails, events>>
<1> DEFINE i == wk[w].at
           email == IF EmailEnabled /\ wk[w].items # {} THEN "PENDING" ELSE "NOT_REQUESTED"
           from == WatermarkFrom(wk[w].watermark, wk[w].now)
           r == [status |-> "COMPLETED", attempt |-> wk[w].attempt, owner |-> NoOwner,
                 left |-> 0, digest |-> TRUE, items |-> wk[w].items, email |-> email,
                 from |-> from, upto |-> wk[w].now]
<1>0. /\ wk \in [Workers -> WorkerState] /\ wk[w] \in WorkerState
      /\ runs \in [Instants -> DigestRun] /\ rule \in Rule /\ wk[w].pc = "commit"
  BY DEF SmartInv, SmartTypeOK, Commit
<1>1. /\ runs' = [runs EXCEPT ![i] = r]
      /\ wk' = [wk EXCEPT ![w].pc = "email", ![w].pending = (email = "PENDING")]
      /\ rule' = [rule EXCEPT !.watermark = wk[w].now, !.next = NextRun(wk[w].now)]
      /\ UNCHANGED <<now, created, disabled, queue, mails, events>>
  BY DEF Commit
<1>2. i \in Instants /\ wk[w].now \in Times BY <1>0, CommitFinds
<1>3. from \in Int
  <2>1. wk[w].watermark \in Times \cup {None} BY <1>0, WorkerFields
  <2>2. wk[w].watermark \in Int /\ wk[w].now \in Int BY <1>2, <2>1, Moments
  <2> QED BY <2>2, SmartNumbers DEF WatermarkFrom
<1>4. wk[w].attempt \in Nat /\ wk[w].items \in SUBSET Articles BY <1>0, WorkerFields
<1>5. email \in {"NOT_REQUESTED", "PENDING"} OBVIOUS
<1>6. 0 \in 0 .. Lease BY SmartNumbers
<1> HIDE DEF i, email, from
<1>7. r \in DigestRun BY <1>2, <1>3, <1>4, <1>5, <1>6 DEF DigestRun, Statuses
<1>8. r.digest /\ r.status = "COMPLETED" /\ r.items = wk[w].items /\ r.from = from
  OBVIOUS
<1> HIDE DEF r
<1>9. /\ runs' \in [Instants -> DigestRun]
      /\ \A j \in Instants : j # i => runs'[j] = runs[j]
      /\ runs'[i] = r
  BY <1>0, <1>1, <1>2, <1>7
<1>10. rule' \in Rule /\ rule'.watermark = wk[w].now
  <2> DEFINE t == wk[w].now
             n == NextRun(t)
  <2>1. t \in Times /\ n \in Upcoming BY <1>2, NextRunExists
  <2>2. rule' = [rule EXCEPT !.watermark = t, !.next = n] BY <1>1
  <2> HIDE DEF n
  <2>3. t = wk[w].now BY DEF t
  <2> HIDE DEF t
  <2>4. /\ [rule EXCEPT !.watermark = t, !.next = n] \in Rule
        /\ [rule EXCEPT !.watermark = t, !.next = n].watermark = t
    BY <1>0, <2>1, RuleMoves
  <2>5. rule' \in Rule /\ rule'.watermark = t BY <2>2, <2>4
  <2> QED BY <2>3, <2>5
<1> DEFINE p == [wk[w] EXCEPT !.pc = "email", !.pending = (email = "PENDING")]
<1>11. wk' = [wk EXCEPT ![w] = p] BY <1>0, <1>1
<1>12. p \in WorkerState /\ p.pc = "email" /\ p.at = wk[w].at /\ p.now = wk[w].now
  BY <1>0 DEF WorkerState, Stages
<1> HIDE DEF p
<1>13. /\ wk' \in [Workers -> WorkerState] /\ wk'[w] = p
       /\ \A u \in Workers : u # w => wk'[u] = wk[u]
  BY <1>0, <1>11, <1>12
<1> QED BY <1>1, <1>8, <1>9, <1>10, <1>12, <1>13 DEF i, from

\* Every other instant that is worked on has its digest by then.
LEMMA CommitKeeps ==
  ASSUME SmartInv, NEW w \in Workers, Commit(w), LeaseCurrent(w)
  PROVE  SmartInv'
<1> DEFINE i == wk[w].at
<1>0. wk[w].pc = "commit" BY DEF Commit
<1>1. /\ i \in Instants /\ wk[w].now \in Times /\ wk[w].now <= now
      /\ ~runs[i].digest /\ runs[i].items = {} /\ ~disabled
      /\ rule.next = i /\ wk[w].items \cap Included = {}
  BY <1>0, CommitFinds
<1>2. /\ runs' \in [Instants -> DigestRun]
      /\ \A j \in Instants : j # i => runs'[j] = runs[j]
      /\ runs'[i].digest /\ runs'[i].status = "COMPLETED" /\ runs'[i].items = wk[w].items
      /\ rule' \in Rule /\ rule'.watermark = wk[w].now
      /\ wk' \in [Workers -> WorkerState]
      /\ \A u \in Workers : u # w => wk'[u] = wk[u]
      /\ wk'[w].pc = "email" /\ wk'[w].at = i /\ wk'[w].now = wk[w].now
      /\ UNCHANGED <<now, created, disabled, queue, mails, events>>
  BY CommitWrites
<1> HIDE DEF i
<1>3. SmartTypeOK' BY <1>2 DEF SmartInv, SmartTypeOK
<1>4. \A j \in Instants : Current(j) => runs'[j].digest
  BY <1>1, <1>2 DEF Current
<1>5. WorkersInv'
  <2> SUFFICES ASSUME NEW u \in Workers PROVE wk'[u] = Idle \/ Busy(u)' BY DEF WorkersInv
  <2>1. CASE u = w
    BY <1>1, <1>2, <2>1 DEF Busy, Current, LateStages
  <2>2. CASE u # w /\ Busy(u)
    <3>1. wk'[u] = wk[u] BY <1>2, <2>2
    <3>2. wk[u].at \in Instants /\ runs'[wk[u].at].digest BY <1>4, <2>2 DEF Busy
    <3>3. wk[u].pc # "idle" /\ wk[u].now \in Times /\ wk[u].now <= now BY <2>2 DEF Busy
    <3> QED BY <1>1, <1>2, <3>1, <3>2, <3>3 DEF Busy, Current
  <2>3. CASE u # w /\ wk[u] = Idle BY <1>2, <2>3
  <2> QED BY <2>1, <2>2, <2>3 DEF SmartInv, WorkersInv
<1>6. RunsInv' BY <1>2 DEF SmartInv, RunsInv
<1>7. QueueInv' BY <1>2, <1>4 DEF SmartInv, QueueInv, Current
<1>8. RuleInv' BY <1>1, <1>2, Moments DEF RuleInv
<1>9. NoArticleRepeated'
  <2>1. \A j \in Instants : runs[j].items \cap wk[w].items = {} BY <1>1, InDigest
  <2> QED BY <1>2, <2>1 DEF SmartInv, NoArticleRepeated
<1> QED BY <1>3, <1>5, <1>6, <1>7, <1>8, <1>9 DEF SmartInv

LEMMA CommitLost ==
  ASSUME SmartInv, NEW w \in Workers, Commit(w), ~LeaseCurrent(w)
  PROVE  Quiet /\ UNCHANGED <<created, rule>>
<1>1. /\ Done(w) /\ UNCHANGED <<now, rule, runs, created, disabled, mails, events>>
  BY DEF Commit
<1> QED BY <1>1, QueueDone, RunsSame, StayTyped, QuietStep

-----------------------------------------------------------------------------
(* No matching article is lost                                               *)

\* The window of a query holds no more than the limits let through.
WindowFits ==
  \A w \in Workers : wk[w].pc = "query" =>
    LET all == Candidates(WatermarkFrom(wk[w].watermark, wk[w].now), wk[w].now)
    IN  Cardinality(all) <= CandidateLimit /\ Cardinality(all \cap Matching) <= ItemLimit

\* What a worker has found: the matching articles of its window that no digest
\* has, but for those so late that the next window will have them.
FoundInv ==
  \A w \in Workers : wk[w].pc \in LateStages =>
    \A a \in DOMAIN created \cap Matching :
      (/\ WatermarkFrom(wk[w].watermark, wk[w].now) <= created[a]
       /\ created[a] < wk[w].now - Lookback) => a \in Included \cup wk[w].items

LostInv == FoundInv /\ NoMatchingArticleLost

LEMMA QuietLoses ==
  ASSUME SmartInv, LostInv, Quiet, UNCHANGED created
  PROVE  LostInv'
<1>0. DigestsKept /\ WorkersKept /\ RuleKept BY DEF Quiet, RunsKept
<1>1. Included' = Included BY <1>0, DigestsSame
<1>2. FoundInv'
  <2> SUFFICES ASSUME NEW w \in Workers, wk'[w].pc \in LateStages,
                      NEW a \in DOMAIN created \cap Matching,
                      WatermarkFrom(wk'[w].watermark, wk'[w].now) <= created[a],
                      created[a] < wk'[w].now - Lookback
               PROVE  a \in Included \cup wk'[w].items
    BY <1>1 DEF FoundInv, WatermarkFrom
  <2>1. /\ wk[w].pc \in LateStages /\ wk'[w].items = wk[w].items /\ wk'[w].now = wk[w].now
        /\ wk'[w].watermark = wk[w].watermark
    BY <1>0, WorkerFields DEF WorkersKept, Continues, Begins, LateStages
  <2> QED BY <2>1 DEF LostInv, FoundInv
<1>3. NoMatchingArticleLost'
  <2>1. rule'.watermark = rule.watermark BY <1>0 DEF RuleKept
  <2>2. \A i \in Instants : runs'[i].digest => runs[i].digest /\ runs'[i].from = runs[i].from
    BY <1>0 DEF DigestsKept, Alike
  <2> QED BY <1>1, <2>1, <2>2 DEF LostInv, NoMatchingArticleLost
<1> QED BY <1>2, <1>3 DEF LostInv

\* An article that becomes visible now is later than what the watermarks, less
\* the lookback, have passed.
LEMMA IngestLoses ==
  ASSUME SmartInv, LostInv, NEW x \in Articles, Ingest(x)
  PROVE  LostInv'
<1>0. UNCHANGED <<now, rule, runs, wk>> BY DEF Ingest
<1>1. /\ DOMAIN created' = DOMAIN created \cup {x}
      /\ \A b \in DOMAIN created : created'[b] = created[b]
      /\ created'[x] \in Times /\ created'[x] + IngestDelay >= now
  BY IngestCreates
<1>2. Included' = Included BY <1>0 DEF Included
<1>3. created'[x] \in Int /\ now \in Int BY <1>1, Moments DEF SmartInv, SmartTypeOK
<1>4. \A t \in Int : t <= now => ~(created'[x] < t - Lookback)
  BY <1>1, <1>3, SmartNumbers
<1>5. FoundInv'
  <2> SUFFICES ASSUME NEW w \in Workers, wk[w].pc \in LateStages,
                      NEW a \in DOMAIN created' \cap Matching,
                      WatermarkFrom(wk[w].watermark, wk[w].now) <= created'[a],
                      created'[a] < wk[w].now - Lookback
               PROVE  a \in Included \cup wk[w].items
    BY <1>0, <1>2 DEF FoundInv, WatermarkFrom
  <2>1. CASE a = x
    <3>1. wk[w].now \in Times /\ wk[w].now <= now
      BY BusyFields DEF Busy, LateStages
    <3> QED BY <1>4, <2>1, <3>1, Moments
  <2>2. CASE a # x
    <3>1. a \in DOMAIN created \cap Matching /\ created'[a] = created[a] BY <1>1, <2>2
    <3> QED BY <3>1 DEF LostInv, FoundInv
  <2> QED BY <2>1, <2>2
<1>6. NoMatchingArticleLost'
  <2> SUFFICES ASSUME NEW a \in DOMAIN created' \cap Matching,
                      \E i \in Instants : runs[i].digest /\ runs[i].from <= created'[a],
                      created'[a] < rule.watermark - Lookback
               PROVE  a \in Included
    BY <1>0, <1>2 DEF NoMatchingArticleLost
  <2>1. CASE a = x
    <3>1. rule.watermark \in Times \cup {None} BY RuleFields DEF SmartInv, SmartTypeOK
    <3>2. rule.watermark \in Int /\ rule.watermark <= now
      BY <3>1, Moments DEF SmartInv, RuleInv
    <3> QED BY <1>4, <2>1, <3>2
  <2>2. CASE a # x
    <3>1. a \in DOMAIN created \cap Matching /\ created'[a] = created[a] BY <1>1, <2>2
    <3> QED BY <3>1 DEF LostInv, NoMatchingArticleLost
  <2> QED BY <2>1, <2>2
<1> QED BY <1>5, <1>6 DEF LostInv

\* A query whose window fits the limits finds all of it.
LEMMA QueryLoses ==
  ASSUME SmartInv, LostInv, WindowFits, NEW w \in Workers, Query(w)
  PROVE  LostInv'
<1>0. wk[w].pc = "query" /\ UNCHANGED <<now, rule, runs, created>> BY DEF Query
<1> DEFINE from == WatermarkFrom(wk[w].watermark, wk[w].now)
           all == Candidates(from, wk[w].now)
<1>1. PICK C \in Newest(all, CandidateLimit) :
        \E items \in Newest(C \cap Matching, ItemLimit) :
          wk' = [wk EXCEPT ![w].pc = "renew", ![w].items = items]
  BY DEF Query
<1>2. PICK items \in Newest(C \cap Matching, ItemLimit) :
        wk' = [wk EXCEPT ![w].pc = "renew", ![w].items = items]
  BY <1>1
<1>3. Cardinality(all) <= CandidateLimit /\ Cardinality(all \cap Matching) <= ItemLimit
  BY <1>0 DEF WindowFits
<1>4. all \subseteq Articles BY DEF Candidates, SmartInv, SmartTypeOK
<1>5. \A a \in DOMAIN created :
        (from <= created[a] /\ created[a] <= wk[w].now) => a \in Included \cup all
  <2>1. wk[w].now \in Times /\ wk[w].watermark \in Times \cup {None}
    BY <1>0, BusyFields, WorkerFields DEF Busy
  <2>2. wk[w].now \in Int /\ wk[w].watermark \in Int BY <2>1, Moments
  <2>3. from \in Int BY <2>2, SmartNumbers DEF WatermarkFrom
  <2>4. \A a \in DOMAIN created : created[a] \in Int
    BY Moments DEF SmartInv, SmartTypeOK
  <2> HIDE DEF from
  <2> QED BY <2>2, <2>3, <2>4 DEF Candidates
<1> HIDE DEF from, all
<1>6. items = all \cap Matching
  <2>1. IsFiniteSet(all) /\ IsFiniteSet(all \cap Matching)
    BY <1>4, SmartNumbers, FS_Subset
  <2>2. C = all BY <1>3, <2>1, NewestAll, SmartNumbers
  <2> QED BY <1>2, <1>3, <2>1, <2>2, NewestAll, SmartNumbers
<1>7. /\ wk'[w].items = items /\ wk'[w].now = wk[w].now /\ wk'[w].watermark = wk[w].watermark
      /\ \A u \in Workers : u # w => wk'[u] = wk[u]
  <2>1. items \in SUBSET Articles BY <1>4, <1>6
  <2> QED BY <1>0, <1>2, <2>1, QueryFields
<1>8. Included' = Included BY <1>0 DEF Included
<1>9. FoundInv'
  <2> SUFFICES ASSUME NEW u \in Workers, wk'[u].pc \in LateStages,
                      NEW a \in DOMAIN created \cap Matching,
                      WatermarkFrom(wk'[u].watermark, wk'[u].now) <= created[a],
                      created[a] < wk'[u].now - Lookback
               PROVE  a \in Included \cup wk'[u].items
    BY <1>0, <1>8 DEF FoundInv, WatermarkFrom
  <2>1. CASE u = w
    <3>1. from <= created[a] BY <1>7, <2>1 DEF from
    <3>2. created[a] <= wk[w].now
      <4>1. wk[w].now \in Times BY <1>0, BusyFields DEF Busy
      <4>2. wk[w].now \in Int /\ created[a] \in Int
        BY <4>1, Moments DEF SmartInv, SmartTypeOK
      <4> QED BY <1>7, <2>1, <4>2, SmartNumbers
    <3> QED BY <1>5, <1>6, <1>7, <2>1, <3>1, <3>2
  <2>2. CASE u # w
    <3>1. wk'[u] = wk[u] BY <1>7, <2>2
    <3> QED BY <3>1 DEF LostInv, FoundInv
  <2> QED BY <2>1, <2>2
<1>10. NoMatchingArticleLost' BY <1>0, <1>8 DEF LostInv, NoMatchingArticleLost
<1> QED BY <1>9, <1>10 DEF LostInv

\* A commit puts what its window holds into a digest; what lies before its
\* window had been passed by the watermark it read, which is the rule's.
LEMMA CommitLoses ==
  ASSUME SmartInv, LostInv, NEW w \in Workers, Commit(w), LeaseCurrent(w)
  PROVE  LostInv'
<1> DEFINE i == wk[w].at
           from == WatermarkFrom(wk[w].watermark, wk[w].now)
<1>0. wk[w].pc = "commit" BY DEF Commit
<1>1. /\ i \in Instants /\ wk[w].now \in Times /\ runs[i].items = {}
      /\ wk[w].watermark = rule.watermark
  BY <1>0, CommitFinds
<1>2. /\ \A j \in Instants : j # i => runs'[j] = runs[j]
      /\ runs'[i].items = wk[w].items /\ runs'[i].from = from
      /\ rule'.watermark = wk[w].now
      /\ \A u \in Workers : u # w => wk'[u] = wk[u]
      /\ wk'[w].pc = "email" /\ UNCHANGED created
  BY CommitWrites
<1>3. \A a : a \in Included \cup wk[w].items => a \in Included'
  <2> SUFFICES ASSUME NEW a, a \in Included \cup wk[w].items
               PROVE  \E j \in Instants : a \in runs'[j].items
    BY InDigest
  <2>1. CASE a \in wk[w].items BY <1>1, <1>2, <2>1
  <2>2. CASE a \in Included
    <3>1. PICK j \in Instants : a \in runs[j].items BY <2>2, InDigest
    <3>2. j # i BY <1>1, <3>1
    <3> QED BY <1>2, <3>1, <3>2
  <2> QED BY <2>1, <2>2
<1>4. FoundInv'
  <2> SUFFICES ASSUME NEW u \in Workers, wk'[u].pc \in LateStages,
                      NEW a \in DOMAIN created \cap Matching,
                      WatermarkFrom(wk'[u].watermark, wk'[u].now) <= created[a],
                      created[a] < wk'[u].now - Lookback
               PROVE  a \in Included' \cup wk'[u].items
    BY <1>2 DEF FoundInv, WatermarkFrom
  <2>1. u # w BY <1>2 DEF LateStages
  <2>2. wk'[u] = wk[u] BY <1>2, <2>1
  <2>3. a \in Included \cup wk[u].items BY <2>2 DEF LostInv, FoundInv
  <2> QED BY <1>3, <2>2, <2>3
<1>5. NoMatchingArticleLost'
  <2> SUFFICES ASSUME NEW a \in DOMAIN created \cap Matching, NEW j \in Instants,
                      runs'[j].digest, runs'[j].from <= created[a],
                      created[a] < wk[w].now - Lookback
               PROVE  a \in Included'
    BY <1>2 DEF NoMatchingArticleLost
  <2>0. /\ created[a] \in Int /\ wk[w].now \in Int /\ wk[w].watermark \in Int /\ from \in Int
    <3>1. created[a] \in Times /\ wk[w].watermark \in Times \cup {None}
      BY WorkerFields DEF SmartInv, SmartTypeOK
    <3>2. created[a] \in Int /\ wk[w].now \in Int /\ wk[w].watermark \in Int
      BY <1>1, <3>1, Moments
    <3> QED BY <3>2, SmartNumbers DEF WatermarkFrom
  <2>1. CASE from <= created[a]
    <3>1. a \in Included \cup wk[w].items
      BY <1>0, <2>1 DEF LostInv, FoundInv, LateStages
    <3> QED BY <1>3, <3>1
  <2>2. CASE ~(from <= created[a])
    <3> HIDE DEF i
    <3>1. j # i BY <1>2, <2>2
    <3>2. runs[j].digest /\ runs[j].from <= created[a] BY <1>2, <3>1
    <3>3. rule.watermark # None BY <3>2 DEF SmartInv, RuleInv
    <3>4. from = rule.watermark - Lookback BY <1>1, <3>3 DEF WatermarkFrom
    <3> HIDE DEF from
    <3>5. created[a] < rule.watermark - Lookback BY <2>0, <2>2, <3>4
    <3>6. a \in Included BY <3>2, <3>5 DEF LostInv, NoMatchingArticleLost
    <3> QED BY <1>3, <3>6
  <2> QED BY <2>1, <2>2
<1> QED BY <1>4, <1>5 DEF LostInv

-----------------------------------------------------------------------------
(* The theorems                                                              *)

LEMMA SmartStarts == Init => SmartInv /\ LostInv
<1> SUFFICES ASSUME Init PROVE SmartInv /\ LostInv OBVIOUS
<1>1. \A i \in Instants : ~runs[i].digest /\ runs[i].items = {} /\ runs[i].status = "none"
  BY RunFields DEF Init
<1>2. \A w \in Workers : wk[w] = Idle BY DEF Init
<1>3. now \in Times /\ events \in 0 .. MaxEvents BY SmartNumbers, Moments DEF Init
<1>4. rule \in Rule /\ rule.watermark = None
  BY Moments DEF Init, Rule
<1>5. /\ runs \in [Instants -> DigestRun] /\ queue \in [Instants -> QueueJob]
      /\ wk \in [Workers -> WorkerState]
  BY RunFields, QueueFields, WorkerFields DEF Init
<1>6. /\ DOMAIN created \subseteq Articles /\ \A a \in DOMAIN created : created[a] \in Times
      /\ DOMAIN created = {}
  BY DEF Init
<1>7. disabled \in BOOLEAN /\ mails \subseteq Instants BY DEF Init
<1>8. SmartTypeOK BY <1>3, <1>4, <1>5, <1>6, <1>7 DEF SmartTypeOK
<1>9. WorkersInv BY <1>2 DEF WorkersInv
<1>10. RunsInv /\ NoArticleRepeated BY <1>1 DEF RunsInv, NoArticleRepeated
<1>11. QueueInv BY QueueFields DEF Init, QueueInv
<1>12. RuleInv
  <2>1. rule.watermark = -1 /\ now = 0 BY <1>4, Moments DEF Init
  <2> QED BY <1>1, <2>1 DEF RuleInv
<1>13. LostInv
  BY <1>2, <1>6, WorkerFields DEF LostInv, FoundInv, NoMatchingArticleLost, LateStages
<1> QED BY <1>8, <1>9, <1>10, <1>11, <1>12, <1>13 DEF SmartInv

\* The steps are those that leave the digests alone, the query and the commit.
LEMMA SmartSteps ==
  ASSUME SmartInv, [Next]_vars
  PROVE  \/ Quiet /\ UNCHANGED created /\ (disabled => UNCHANGED rule)
         \/ \E a \in Articles : Ingest(a)
         \/ \E w \in Workers : Query(w)
         \/ \E w \in Workers : Commit(w) /\ LeaseCurrent(w)
<1> DEFINE Still == Quiet /\ UNCHANGED created /\ (disabled => UNCHANGED rule)
<1> DEFINE Goal == \/ Still
                   \/ \E a \in Articles : Ingest(a)
                   \/ \E w \in Workers : Query(w)
                   \/ \E w \in Workers : Commit(w) /\ LeaseCurrent(w)
<1> SUFFICES Goal OBVIOUS
<1>1. ASSUME NEW w \in Workers, Work(w) PROVE Goal
  <2>1. CASE Upsert(w) BY <2>1, UpsertQuiet DEF Upsert
  <2>2. CASE Claim(w) BY <2>2, ClaimQuiet DEF Claim
  <2>3. CASE FinalRenew(w) BY <2>3, FinalRenewQuiet DEF FinalRenew
  <2>4. CASE Recheck(w) BY <2>4, RecheckQuiet DEF Recheck
  <2>5. CASE EnqueueEmail(w) BY <2>5, EnqueueEmailQuiet DEF EnqueueEmail
  <2>6. CASE FailRun(w) BY <2>6, FailRunQuiet DEF FailRun
  <2>7. CASE Commit(w) /\ ~LeaseCurrent(w) BY <2>7, CommitLost
  <2> QED BY <1>1, <2>1, <2>2, <2>3, <2>4, <2>5, <2>6, <2>7 DEF Work
<1>2. ASSUME NEW w \in Workers, Heartbeat(w) PROVE Goal
  BY <1>2, HeartbeatQuiet DEF Heartbeat
<1>3. ASSUME NEW w \in Workers, Throw(w) PROVE Goal BY <1>3, ThrowQuiet DEF Throw
<1>4. ASSUME NEW w \in Workers, Crash(w) PROVE Goal BY <1>4, CrashQuiet DEF Crash
<1>5. ASSUME NEW i \in Instants, Stalled(i) PROVE Goal BY <1>5, StalledQuiet DEF Stalled
<1>6. ASSUME NEW i \in Instants, Retire(i) PROVE Goal BY <1>6, RetireQuiet DEF Retire
<1>7. ASSUME NEW i \in Instants, EnqueuePendingEmail(i) PROVE Goal
  BY <1>7, EnqueuePendingEmailQuiet DEF EnqueuePendingEmail
<1>8. ASSUME NEW w \in Workers, NEW i \in Instants, Start(w, i) PROVE Goal
  BY <1>8, StartQuiet DEF Start
<1>9. CASE EnqueueDue BY <1>9, EnqueueDueQuiet DEF EnqueueDue
<1>10. CASE DisableUser BY <1>10, DisableQuiet DEF DisableUser
<1>11. CASE TimePasses BY <1>11, TimeQuiet DEF TimePasses
<1>12. CASE UNCHANGED vars
  <2>1. UNCHANGED <<now, rule, runs, created, disabled, queue, mails, wk, events>>
    BY <1>12 DEF vars
  <2>2. Quiet BY <2>1, RunsSame, QueueSame, WorkersSame, StayTyped, QuietStep
  <2> QED BY <2>1, <2>2
<1> QED
  BY <1>1, <1>2, <1>3, <1>4, <1>5, <1>6, <1>7, <1>8, <1>9, <1>10, <1>11, <1>12 DEF Next

LEMMA SmartStep == SmartInv /\ [Next]_vars => SmartInv'
BY SmartSteps, StepKeeps, QueryKeeps, CommitKeeps, IngestQuiet

\* The invariant that ties the rule, its runs, the queue and what the workers
\* have read holds in every reachable state.
THEOREM SmartInvariant == Spec => []SmartInv
<1>1. Init => SmartInv BY SmartStarts
<1> QED BY <1>1, SmartStep, PTL DEF Spec

\* The rule, runs, articles, queue jobs and workers keep their types; the next
\* run is always a scheduled instant (scheduleNextSmartDigestRun).
THEOREM SmartTypes == Spec => []SmartTypeOK
<1>1. SmartInv => SmartTypeOK BY DEF SmartInv
<1> QED BY <1>1, SmartInvariant, PTL

\* No article is in two digests of the rule, though windows overlap and the
\* digests are read long before the commit (processSmartDigestRule).
THEOREM SmartNoArticleRepeated == Spec => []NoArticleRepeated
<1>1. SmartInv => NoArticleRepeated BY DEF SmartInv
<1> QED BY <1>1, SmartInvariant, PTL

\* As long as every window fits the limits of the candidate query and of the
\* digest, no matching article that came in time is passed over.
THEOREM SmartNoMatchingArticleLost == Spec /\ []WindowFits => []NoMatchingArticleLost
<1>1. Init => LostInv BY SmartStarts
<1>2. SmartInv /\ LostInv /\ WindowFits /\ [Next]_vars => LostInv'
  BY SmartSteps, QuietLoses, IngestLoses, QueryLoses, CommitLoses
<1>3. LostInv => NoMatchingArticleLost BY DEF LostInv
<1> QED BY <1>1, <1>2, <1>3, SmartInvariant, PTL DEF Spec

\* Once the account is disabled no digest is written and the rule stays
\* without a next run, whatever a worker holds or has read.
THEOREM SmartNothingAfterDisable == Spec => NothingAfterDisable
<1> DEFINE Nothing == disabled => /\ \A i \in Instants : runs'[i].digest = runs[i].digest
                                  /\ rule' = rule
<1>1. SmartInv /\ [Next]_vars => Nothing
  <2> SUFFICES ASSUME SmartInv, [Next]_vars, disabled PROVE Nothing OBVIOUS
  <2>1. CASE Quiet /\ UNCHANGED created /\ (disabled => UNCHANGED rule)
    BY <2>1 DEF Quiet, RunsKept, DigestsKept, Alike
  <2>2. CASE \E a \in Articles : Ingest(a) BY <2>2 DEF Ingest
  <2>3. CASE \E w \in Workers : Query(w) BY <2>3 DEF Query
  <2>4. ASSUME NEW w \in Workers, Commit(w), LeaseCurrent(w) PROVE FALSE
    BY <2>4, CommitFinds DEF Commit
  <2> QED BY <2>1, <2>2, <2>3, <2>4, SmartSteps
<1>2. SmartInv /\ [Next]_vars => [Nothing]_vars BY <1>1
<1> QED BY <1>2, SmartInvariant, PTL DEF Spec, NothingAfterDisable

\* The limits are met when there are no more articles than they let through.
THEOREM SmartFewArticlesFit ==
  ASSUME Cardinality(Articles) <= CandidateLimit, Cardinality(Articles) <= ItemLimit
  PROVE  Spec => []NoMatchingArticleLost
<1>1. SmartInv => WindowFits
  <2> SUFFICES ASSUME SmartInv, NEW from, NEW upto
               PROVE  LET all == Candidates(from, upto)
                      IN  /\ Cardinality(all) <= CandidateLimit
                          /\ Cardinality(all \cap Matching) <= ItemLimit
    BY DEF WindowFits
  <2> DEFINE all == Candidates(from, upto)
  <2>1. all \subseteq Articles BY DEF Candidates, SmartInv, SmartTypeOK
  <2> HIDE DEF all
  <2>2. all \cap Matching \subseteq Articles BY <2>1
  <2>3. /\ Cardinality(all) \in Nat /\ Cardinality(all) <= Cardinality(Articles)
        /\ Cardinality(all \cap Matching) \in Nat
        /\ Cardinality(all \cap Matching) <= Cardinality(Articles)
        /\ Cardinality(Articles) \in Nat
    BY <2>1, <2>2, FS_Subset, FS_CardinalityType, SmartNumbers
  <2> QED BY <2>3, SmartNumbers DEF all
<1> QED BY <1>1, SmartInvariant, SmartNoMatchingArticleLost, PTL
=============================================================================
