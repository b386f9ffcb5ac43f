------------------------- MODULE SourceRefreshProofs -------------------------
(***************************************************************************)
(* Proofs about the refresh of a feed: what overlapping refreshes leave in  *)
(* the articles, the validators and the chat.                               *)
(*                                                                         *)
(* The argument orders the documents by the generations that fetched them:  *)
(* a refresh confirms its lease between its request and its first write, so *)
(* whoever has a later generation asked later and got no older document.    *)
(***************************************************************************)
EXTENDS SourceRefresh, TLAPS

-----------------------------------------------------------------------------
(* The inductive invariant                                                   *)

\* A refresh that renewed its lease after the request, and one that writes.
Renewed == {"hydrate", "existing", "create", "insert", "update", "write", "record"}
Covering == {"create", "insert", "update", "write", "record"}

\* Generations: a refresh has one as soon as it confirmed its claim, and as
\* long as it is the current one nobody else owns the lease.
ClaimOK(w, x) ==
  /\ x.gen <= feed.gen
  /\ x.at \in {"idle", "claimed"} => x.gen = 0 /\ x.doc = 0 /\ x.mine = {}
  /\ x.at \notin {"idle", "claimed"} => x.gen # 0
  /\ x.gen # 0 /\ x.gen = feed.gen => feed.owner \in {w, NoOwner}
  /\ x.at = "claimed" /\ feed.owner = w => \A i \in Items : stored[i].gen < feed.gen

\* Documents: an item of an earlier generation is no newer than what a refresh
\* fetched, and one of its own or a later generation no older than what a
\* refresh that renewed its lease fetched.
DocOK(x) ==
  /\ x.doc <= published
  /\ x.at \in Renewed \ {"record"} => x.doc # 0
  /\ x.at \in {"read", "fetch", "answered"} => \A i \in Items : stored[i].gen # x.gen
  /\ x.doc # 0 => \A i \in Items : stored[i].gen < x.gen => stored[i].from <= x.doc
  /\ x.doc # 0 /\ x.at \in Renewed => \A i \in Items : stored[i].gen >= x.gen => stored[i].from >= x.doc

\* Items: what a refresh does not write any more is as new as its document,
\* unless a superseded refresh inserted something.
ItemsOK(x) ==
  /\ x.doc # 0 /\ x.at \in {"update", "write", "record"} => x.create = {}
  /\ x.doc # 0 /\ x.at = "record" => x.update = {}
  /\ ~history.late =>
       /\ x.doc # 0 /\ x.at \in Covering =>
            \A i \in DOMAIN Doc[x.doc] : i \in x.create \cup x.update \/ stored[i].from >= x.doc
       /\ x.at \in {"create", "insert"} =>
            \A i \in x.create : stored[i].from # 0 => stored[i].gen >= x.gen

\* What a refresh inserted is stored and was not announced yet; what it updates
\* is stored.
MineOK(x) ==
  /\ \A i \in x.mine : stored[i].from # 0 /\ chat[i] = 0
  /\ \A i \in x.update : stored[i].from # 0

\* Each failure that is counted was an event.
FailuresOK(x) == x.failures <= events /\ (x.at = "fail" => x.failures < events)

WorkerOK(w, x) == ClaimOK(w, x) /\ DocOK(x) /\ ItemsOK(x) /\ MineOK(x) /\ FailuresOK(x)

\* Two refreshes have generations of their own, inserted different items, and
\* the later one fetched no older a document than one that renewed its lease.
PairOK(x, y) ==
  /\ x.gen # 0 => y.gen # x.gen
  /\ x.at \in Renewed /\ x.doc # 0 /\ y.doc # 0 /\ x.gen < y.gen => x.doc <= y.doc
  /\ x.mine \cap y.mine = {}

RowsInv ==
  /\ feed.gen = 0 => feed.owner = NoOwner
  /\ history.by <= feed.gen
  /\ feed.failures <= events
  /\ \A i \in Items :
       /\ stored[i].gen <= feed.gen /\ stored[i].from <= published
       /\ stored[i].from = 0 => stored[i].gen = 0
       /\ chat[i] # 0 => stored[i].from # 0

WorkersInv == \A w \in Workers : WorkerOK(w, worker[w])
PairsInv == \A v, w \in Workers : v # w => PairOK(worker[v], worker[w])

RefreshInv == RefreshTypeOK /\ RowsInv /\ WorkersInv /\ PairsInv /\ ValidatorsCoverUnlessLate

-----------------------------------------------------------------------------
(* Rows, refreshes and how a step moves one                                  *)

\* What a renewal and a change of stage leave of a refresh.
Same(x, y) ==
  /\ x.gen = y.gen /\ x.failures = y.failures /\ x.etag = y.etag /\ x.doc = y.doc
  /\ x.create = y.create /\ x.update = y.update /\ x.missing = y.missing /\ x.mine = y.mine

LEMMA Numbers ==
  /\ MaxGen \in Nat /\ MaxEvents \in Nat /\ Versions \in Nat \ {0} /\ MaxAttempts \in Nat \ {0}
  /\ MaxStalls \in Nat /\ NoOwner \notin Workers
  /\ \A v \in 1 .. Versions : DOMAIN Doc[v] \subseteq Items
BY RefreshAssumption

LEMMA RefreshFields ==
  ASSUME NEW x \in Refresh
  PROVE  /\ x.at \in Stages /\ x.gen \in 0 .. MaxGen /\ x.failures \in 0 .. MaxEvents
         /\ x.etag \in 0 .. Versions /\ x.doc \in 0 .. Versions
         /\ x.create \in SUBSET Items /\ x.update \in SUBSET Items
         /\ x.missing \in SUBSET Items /\ x.mine \in SUBSET Items
         /\ x.end \in {"skipped", "success", "threw"}
BY DEF Refresh

LEMMA IdleFields ==
  /\ Idle \in Refresh /\ Idle.at = "idle" /\ Idle.gen = 0 /\ Idle.doc = 0
  /\ Idle.create = {} /\ Idle.update = {} /\ Idle.mine = {} /\ Idle.failures = 0
BY Numbers DEF Idle, Refresh, Stages

LEMMA GoesTo ==
  ASSUME worker \in [Workers -> Refresh], NEW w \in Workers, NEW stage \in Stages, GoTo(w, stage)
  PROVE  \E x \in Refresh : worker' = [worker EXCEPT ![w] = x] /\ x.at = stage /\ Same(x, worker[w])
<1>1. PICK x : x = [worker[w] EXCEPT !.at = stage] OBVIOUS
<1>2. worker[w] \in Refresh OBVIOUS
<1>3. x \in Refresh /\ x.at = stage /\ Same(x, worker[w]) BY <1>1, <1>2 DEF Refresh, Same
<1>4. worker' = [worker EXCEPT ![w] = x] BY <1>1, Zenon DEF GoTo
<1> QED BY <1>3, <1>4

LEMMA RenewedOrSkipped ==
  ASSUME worker \in [Workers -> Refresh], NEW w \in Workers, NEW stage \in Stages,
         RenewAnd(w, stage)
  PROVE  \E x \in Refresh : /\ worker' = [worker EXCEPT ![w] = x] /\ Same(x, worker[w])
                            /\ x.at = (IF LeaseHeld(w) THEN stage ELSE "release")
<1>1. CASE LeaseHeld(w) /\ GoTo(w, stage) BY <1>1, GoesTo
<1>2. CASE /\ ~LeaseHeld(w)
           /\ worker' = [worker EXCEPT ![w].at = "release", ![w].end = "skipped"]
  <2>1. PICK x : x = [worker[w] EXCEPT !.at = "release", !.end = "skipped"] OBVIOUS
  <2>2. worker[w] \in Refresh OBVIOUS
  <2>3. x \in Refresh /\ x.at = "release" /\ Same(x, worker[w])
    BY <2>1, <2>2 DEF Refresh, Same, Stages
  <2>4. worker' = [worker EXCEPT ![w] = x] BY <1>2, <2>1, Zenon
  <2> QED BY <1>2, <2>3, <2>4
<1> QED BY <1>1, <1>2 DEF RenewAnd

LEMMA ConfirmedMoves ==
  ASSUME worker \in [Workers -> Refresh], NEW w \in Workers, feed.gen \in 0 .. MaxGen,
         worker' = [worker EXCEPT ![w].at = "read", ![w].gen = feed.gen]
  PROVE  \E x \in Refresh : /\ worker' = [worker EXCEPT ![w] = x]
                            /\ x.at = "read" /\ x.gen = feed.gen /\ x.doc = worker[w].doc
                            /\ x.failures = worker[w].failures
                            /\ x.create = worker[w].create /\ x.update = worker[w].update
                            /\ x.mine = worker[w].mine
<1>1. PICK x : x = [worker[w] EXCEPT !.at = "read", !.gen = feed.gen] OBVIOUS
<1>2. worker[w] \in Refresh OBVIOUS
<1>3. /\ x \in Refresh /\ x.at = "read" /\ x.gen = feed.gen /\ x.doc = worker[w].doc
      /\ x.failures = worker[w].failures
      /\ x.create = worker[w].create /\ x.update = worker[w].update /\ x.mine = worker[w].mine
  BY <1>1, <1>2 DEF Refresh, Stages
<1>4. worker' = [worker EXCEPT ![w] = x] BY <1>1, Zenon
<1> QED BY <1>3, <1>4
LEMMA Types ==
  ASSUME RefreshTypeOK
  PROVE  /\ feed \in Feed /\ feed.gen \in 0 .. MaxGen /\ feed.owner \in Workers \cup {NoOwner}
         /\ feed.etag \in 0 .. Versions /\ feed.failures \in 0 .. MaxEvents /\ feed.live \in BOOLEAN
         /\ \A i \in Items : stored[i].gen \in 0 .. MaxGen /\ stored[i].from \in 0 .. Versions
         /\ worker \in [Workers -> Refresh] /\ \A w \in Workers : worker[w] \in Refresh
         /\ published \in 1 .. Versions /\ \A i \in Items : chat[i] \in Nat
         /\ history.by \in 0 .. MaxGen /\ history.late \in BOOLEAN
         /\ events \in 0 .. MaxEvents /\ job \in QueueJob
BY DEF RefreshTypeOK, Feed, Article

\* What a refresh knows about the rows stays true while the rows do.
LEMMA OthersStay ==
  ASSUME RefreshInv, NEW v \in Workers, NEW y, y = worker[v],
         feed'.gen = feed.gen, feed'.owner \in {feed.owner, NoOwner},
         stored' = stored, published' = published, history'.late = history.late,
         \A i \in y.mine : chat'[i] = chat[i], events' \in 0 .. MaxEvents, events <= events'
  PROVE  WorkerOK(v, y)'
<1>1. y \in Refresh /\ WorkerOK(v, y) /\ events \in 0 .. MaxEvents
  BY Types DEF RefreshInv, WorkersInv
<1>2. y.failures \in 0 .. MaxEvents /\ v # NoOwner BY <1>1, RefreshFields, Numbers
<1>3. ClaimOK(v, y)' BY <1>1, <1>2 DEF WorkerOK, ClaimOK
<1>4. DocOK(y)' BY <1>1 DEF WorkerOK, DocOK
<1>5. ItemsOK(y)' BY <1>1 DEF WorkerOK, ItemsOK
<1>6. MineOK(y)' BY <1>1 DEF WorkerOK, MineOK
<1>7. FailuresOK(y)' BY <1>1, <1>2, Numbers DEF WorkerOK, FailuresOK
<1> QED BY <1>3, <1>4, <1>5, <1>6, <1>7 DEF WorkerOK

\* The refresh of w becomes x, which fits the rows and the others.
LEMMA Becomes ==
  ASSUME RefreshInv, NEW w \in Workers, NEW x \in Refresh, worker' = [worker EXCEPT ![w] = x],
         WorkerOK(w, x)',
         \A v \in Workers \ {w}, y \in Refresh :
           y = worker[v] => WorkerOK(v, y)' /\ PairOK(x, y) /\ PairOK(y, x)
  PROVE  WorkersInv' /\ PairsInv' /\ worker' \in [Workers -> Refresh]
<1>1. worker \in [Workers -> Refresh] BY Types DEF RefreshInv
<1>2. worker' \in [Workers -> Refresh] /\ worker'[w] = x
      /\ \A v \in Workers \ {w} : worker'[v] = worker[v]
  BY <1>1
<1>3. WorkersInv'
  <2>1. SUFFICES ASSUME NEW v \in Workers PROVE WorkerOK(v, worker[v])' BY DEF WorkersInv
  <2>2. PICK y \in Refresh : y = worker'[v] BY <1>2
  <2>3. WorkerOK(v, y)' BY <1>2, <2>2
  <2> QED BY <2>2, <2>3
<1>4. PairsInv'
  <2>1. SUFFICES ASSUME NEW u \in Workers, NEW v \in Workers, u # v
                 PROVE  PairOK(worker[u], worker[v])'
    BY DEF PairsInv
  <2>2. PICK p \in Refresh : p = worker'[u] BY <1>2
  <2>3. PICK q \in Refresh : q = worker'[v] BY <1>2
  <2>4. PairOK(p, q)
    <3>1. CASE u = w BY <1>2, <2>1, <2>2, <2>3, <3>1
    <3>2. CASE v = w BY <1>2, <2>1, <2>2, <2>3, <3>2
    <3>3. CASE u # w /\ v # w
      <4>1. p = worker[u] /\ q = worker[v] BY <1>2, <2>2, <2>3, <3>3
      <4> QED BY <2>1, <4>1 DEF RefreshInv, PairsInv
    <3> QED BY <3>1, <3>2, <3>3
  <2>5. PairOK(p, q)' BY <2>4 DEF PairOK
  <2> QED BY <2>2, <2>3, <2>5
<1> QED BY <1>2, <1>3, <1>4

\* A step of w that changes no row.
LEMMA Moves ==
  ASSUME RefreshInv, NEW w \in Workers, NEW x \in Refresh, worker' = [worker EXCEPT ![w] = x],
         UNCHANGED <<feed, stored, scheduler, wanted, published, chat, history>>,
         job' \in QueueJob, events' \in 0 .. MaxEvents, events <= events',
         ClaimOK(w, x), DocOK(x), ItemsOK(x), MineOK(x), FailuresOK(x)',
         \A v \in Workers \ {w}, y \in Refresh : y = worker[v] => PairOK(x, y) /\ PairOK(y, x)
  PROVE  RefreshInv'
<1>1. WorkerOK(w, x)' BY DEF WorkerOK, ClaimOK, DocOK, ItemsOK, MineOK
<1>2. \A v \in Workers, y \in Refresh : y = worker[v] => WorkerOK(v, y)' BY OthersStay
<1>3. WorkersInv' /\ PairsInv' /\ worker' \in [Workers -> Refresh] BY <1>1, <1>2, Becomes
<1>4. RefreshTypeOK' BY <1>3 DEF RefreshInv, RefreshTypeOK
<1>5. RowsInv'
  <2>1. feed.failures \in 0 .. MaxEvents /\ events \in 0 .. MaxEvents
    BY Types DEF RefreshInv
  <2> QED BY <2>1, Numbers DEF RefreshInv, RowsInv
<1>6. ValidatorsCoverUnlessLate'
  BY DEF RefreshInv, ValidatorsCoverUnlessLate, ValidatorsCoverItems
<1> QED BY <1>3, <1>4, <1>5, <1>6 DEF RefreshInv

\* A refresh that is over, or that only has its lease to release.
LEMMA OverOK ==
  ASSUME RefreshInv, NEW w \in Workers, NEW x \in Refresh,
         \/ x = Idle
         \/ x.at \in {"fail", "release"} /\ worker[w].at \notin {"idle", "claimed"}
            /\ Same(x, worker[w])
  PROVE  /\ ClaimOK(w, x) /\ DocOK(x) /\ ItemsOK(x) /\ MineOK(x)
         /\ x.failures <= worker[w].failures
         /\ \A v \in Workers \ {w}, y \in Refresh : y = worker[v] => PairOK(x, y) /\ PairOK(y, x)
<1>1. /\ worker[w] \in Refresh /\ WorkerOK(w, worker[w]) /\ worker[w].failures \in 0 .. MaxEvents
      /\ worker[w].gen \in 0 .. MaxGen /\ feed.gen \in 0 .. MaxGen /\ published \in 1 .. Versions
      /\ \A i \in Items : stored[i].gen \in 0 .. MaxGen /\ stored[i].from \in 0 .. Versions
  BY Types, RefreshFields DEF RefreshInv, WorkersInv
<1>2. ASSUME NEW v \in Workers \ {w}, NEW y \in Refresh, y = worker[v]
      PROVE  PairOK(y, worker[w]) /\ PairOK(worker[w], y) /\ y.gen \in 0 .. MaxGen
  BY <1>2, RefreshFields DEF RefreshInv, PairsInv
<1>3. CASE x = Idle
  <2>1. ClaimOK(w, x) /\ DocOK(x) /\ ItemsOK(x) /\ MineOK(x) /\ x.failures <= worker[w].failures
    BY <1>1, <1>3, IdleFields, Numbers DEF ClaimOK, DocOK, ItemsOK, MineOK, Renewed, Covering
  <2>2. ASSUME NEW v \in Workers \ {w}, NEW y \in Refresh, y = worker[v]
        PROVE  PairOK(x, y) /\ PairOK(y, x)
    BY <1>2, <1>3, <2>2, IdleFields DEF PairOK, Renewed
  <2> QED BY <2>1, <2>2
<1>4. CASE /\ x.at \in {"fail", "release"} /\ worker[w].at \notin {"idle", "claimed"}
           /\ Same(x, worker[w])
  <2>1. ClaimOK(w, x) BY <1>1, <1>4 DEF WorkerOK, ClaimOK, Same
  <2>2. DocOK(x) BY <1>1, <1>4 DEF WorkerOK, DocOK, Same, Renewed
  <2>3. ItemsOK(x) /\ MineOK(x) BY <1>1, <1>4 DEF WorkerOK, ItemsOK, MineOK, Same, Covering
  <2>4. x.failures <= worker[w].failures BY <1>1, <1>4 DEF Same
  <2>5. ASSUME NEW v \in Workers \ {w}, NEW y \in Refresh, y = worker[v]
        PROVE  PairOK(x, y) /\ PairOK(y, x)
    BY <1>2, <1>4, <2>5 DEF PairOK, Renewed, Same
  <2> QED BY <2>1, <2>2, <2>3, <2>4, <2>5
<1> QED BY <1>3, <1>4
\* The refresh of w is over or about to release its lease; the feed's outcome
\* and what it announces may change.
LEMMA Ends ==
  ASSUME RefreshInv, NEW w \in Workers, NEW x \in Refresh, worker' = [worker EXCEPT ![w] = x],
         \/ x = Idle
         \/ x.at = "release" /\ worker[w].at \notin {"idle", "claimed"} /\ Same(x, worker[w])
            /\ chat' = chat,
         feed' \in Feed, feed'.gen = feed.gen, feed'.owner \in {feed.owner, NoOwner},
         feed'.failures <= events',
         UNCHANGED <<stored, scheduler, wanted, published>>,
         history' \in [by : 0 .. MaxGen, late : {history.late}], history'.by <= feed.gen,
         chat' \in [Items -> Nat], \A i \in Items : chat'[i] # chat[i] => i \in worker[w].mine,
         job' \in QueueJob, events' \in 0 .. MaxEvents, events <= events',
         ValidatorsCoverUnlessLate'
  PROVE  RefreshInv'
<1>1. /\ WorkerOK(w, worker[w]) /\ worker[w].failures \in 0 .. MaxEvents
      /\ x.failures \in 0 .. MaxEvents /\ events \in 0 .. MaxEvents /\ w # NoOwner
      /\ history.late \in BOOLEAN /\ history'.late = history.late
  BY Types, RefreshFields, Numbers DEF RefreshInv, WorkersInv
<1>2. /\ ClaimOK(w, x) /\ DocOK(x) /\ ItemsOK(x) /\ MineOK(x)
      /\ x.failures <= worker[w].failures
      /\ \A v \in Workers \ {w}, y \in Refresh : y = worker[v] => PairOK(x, y) /\ PairOK(y, x)
  BY OverOK
<1>3. WorkerOK(w, x)'
  <2>1. ClaimOK(w, x)' BY <1>1, <1>2 DEF ClaimOK
  <2>2. DocOK(x)' BY <1>2 DEF DocOK
  <2>3. ItemsOK(x)' BY <1>1, <1>2 DEF ItemsOK
  <2>4. MineOK(x)' BY <1>2, IdleFields DEF MineOK
  <2>5. FailuresOK(x)'
    BY <1>1, <1>2, IdleFields, Numbers DEF WorkerOK, FailuresOK
  <2> QED BY <2>1, <2>2, <2>3, <2>4, <2>5 DEF WorkerOK
<1>4. ASSUME NEW v \in Workers \ {w}, NEW y \in Refresh, y = worker[v]
      PROVE  WorkerOK(v, y)'
  <2>1. \A i \in y.mine : i \in Items /\ i \notin worker[w].mine
    BY <1>4, RefreshFields DEF RefreshInv, PairsInv, PairOK
  <2> QED BY <1>1, <1>4, <2>1, OthersStay
<1>5. WorkersInv' /\ PairsInv' /\ worker' \in [Workers -> Refresh]
  BY <1>2, <1>3, <1>4, Becomes
<1>6. RefreshTypeOK' BY <1>1, <1>5 DEF RefreshInv, RefreshTypeOK
<1>7. RowsInv'
  <2>1. \A i \in Items : chat'[i] # 0 => stored[i].from # 0
    BY <1>1 DEF RefreshInv, RowsInv, WorkerOK, MineOK
  <2>2. feed.gen = 0 => feed'.owner = NoOwner BY DEF RefreshInv, RowsInv
  <2> QED BY <2>1, <2>2 DEF RefreshInv, RowsInv
<1> QED BY <1>5, <1>6, <1>7 DEF RefreshInv

\* A step of w that ends its refresh and changes no row.
LEMMA EndsQuietly ==
  ASSUME RefreshInv, NEW w \in Workers, NEW x \in Refresh, worker' = [worker EXCEPT ![w] = x],
         \/ x = Idle
         \/ x.at = "release" /\ worker[w].at \notin {"idle", "claimed"} /\ Same(x, worker[w]),
         UNCHANGED <<feed, stored, scheduler, wanted, published, chat, history>>,
         job' \in QueueJob, events' \in 0 .. MaxEvents, events <= events'
  PROVE  RefreshInv'
<1>1. FailuresOK(x)'
  <2>1. FailuresOK(worker[w]) /\ worker[w] \in Refresh
    BY Types DEF RefreshInv, WorkersInv, WorkerOK
  <2>2. worker[w].failures \in 0 .. MaxEvents /\ events \in 0 .. MaxEvents
    BY <2>1, RefreshFields, Types DEF RefreshInv
  <2> QED BY <2>1, <2>2, IdleFields, Numbers DEF FailuresOK, Same
<1>2. /\ ClaimOK(w, x) /\ DocOK(x) /\ ItemsOK(x) /\ MineOK(x)
      /\ \A v \in Workers \ {w}, y \in Refresh : y = worker[v] => PairOK(x, y) /\ PairOK(y, x)
  BY OverOK
<1> QED BY <1>1, <1>2, Moves

\* What happens to the job when its worker is through with it.
LEMMA Jobs ==
  ASSUME RefreshTypeOK
  PROVE  /\ NoJob \in QueueJob /\ Fresh \in QueueJob /\ Added \in QueueJob
         /\ Retried \in QueueJob /\ Redelivered \in QueueJob
         /\ \A w \in Workers : [job EXCEPT !.state = "active", !.holder = w] \in QueueJob
<1>1. job \in QueueJob BY Types
<1>2. NoJob \in QueueJob BY Numbers DEF NoJob, QueueJob
<1>3. Fresh \in QueueJob BY <1>2 DEF Fresh, NoJob, QueueJob
<1>4. Retried \in QueueJob BY <1>1, <1>2, Numbers DEF Retried, QueueJob
<1>5. Redelivered \in QueueJob BY <1>1, <1>2, Numbers DEF Redelivered, QueueJob
<1>6. \A w \in Workers : [job EXCEPT !.state = "active", !.holder = w] \in QueueJob
  BY <1>1 DEF QueueJob
<1> QED BY <1>1, <1>2, <1>3, <1>4, <1>5, <1>6 DEF Added

LEMMA Over ==
  ASSUME RefreshTypeOK, NEW w \in Workers, Done(w) \/ Threw(w)
  PROVE  job' \in QueueJob /\ worker' = [worker EXCEPT ![w] = Idle]
BY Types, Jobs DEF Done, Threw

\* Only an event counts up.
LEMMA Events ==
  ASSUME RefreshTypeOK, Event \/ events' = events
  PROVE  /\ events' \in 0 .. MaxEvents /\ events <= events' /\ (Event => events < events')
BY Types, Numbers DEF Event

-----------------------------------------------------------------------------
(* Each step of a refresh keeps the invariant                                *)

LEMMA ConfirmClaimKeeps ==
  ASSUME RefreshInv, NEW w \in Workers, ConfirmClaim(w)
  PROVE  RefreshInv'
<1>1. /\ RefreshTypeOK /\ worker[w].at = "claimed"
      /\ UNCHANGED <<feed, stored, scheduler, wanted, published, chat, history, events>>
  BY DEF RefreshInv, ConfirmClaim
<1>2. events' \in 0 .. MaxEvents /\ events <= events' BY <1>1, Events
<1>3. CASE feed.owner = w /\ UNCHANGED job
           /\ worker' = [worker EXCEPT ![w].at = "read", ![w].gen = feed.gen]
  <2>1. PICK x \in Refresh :
          /\ worker' = [worker EXCEPT ![w] = x] /\ x.at = "read" /\ x.gen = feed.gen
          /\ x.doc = worker[w].doc /\ x.failures = worker[w].failures
          /\ x.create = worker[w].create /\ x.update = worker[w].update
          /\ x.mine = worker[w].mine
    BY <1>1, <1>3, Types, ConfirmedMoves
  <2>2. /\ WorkerOK(w, worker[w]) /\ worker[w].failures \in 0 .. MaxEvents /\ w # NoOwner
        /\ feed.gen \in 0 .. MaxGen /\ published \in 1 .. Versions
        /\ \A i \in Items : stored[i].gen \in 0 .. MaxGen
        /\ job' \in QueueJob
    BY <1>1, <1>3, Types, RefreshFields, Numbers DEF RefreshInv, WorkersInv
  <2>3. x.doc = 0 /\ x.mine = {} /\ feed.gen # 0
    BY <1>1, <1>3, <2>1, <2>2 DEF WorkerOK, ClaimOK, RefreshInv, RowsInv
  <2>4. ClaimOK(w, x) BY <1>3, <2>1, <2>2, <2>3 DEF ClaimOK
  <2>5. DocOK(x) BY <1>1, <1>3, <2>1, <2>2, <2>3 DEF WorkerOK, ClaimOK, DocOK, Renewed
  <2>6. ItemsOK(x) /\ MineOK(x)
    BY <2>1, <2>2, <2>3 DEF WorkerOK, ItemsOK, MineOK, Covering
  <2>7. FailuresOK(x)' BY <1>1, <2>1, <2>2 DEF WorkerOK, FailuresOK
  <2>8. ASSUME NEW v \in Workers \ {w}, NEW y \in Refresh, y = worker[v]
        PROVE  PairOK(x, y) /\ PairOK(y, x)
    <3>1. ClaimOK(v, y) BY <2>8 DEF RefreshInv, WorkersInv, WorkerOK
    <3> QED BY <1>3, <2>1, <2>2, <2>3, <3>1 DEF ClaimOK, PairOK, Renewed
  <2> QED BY <1>1, <1>2, <2>1, <2>2, <2>4, <2>5, <2>6, <2>7, <2>8, Moves
<1>4. CASE Done(w)
  <2>1. job' \in QueueJob /\ worker' = [worker EXCEPT ![w] = Idle] BY <1>1, <1>4, Over
  <2> QED BY <1>1, <1>2, <2>1, IdleFields, EndsQuietly
<1> QED BY <1>3, <1>4 DEF ConfirmClaim
LEMMA ReadFeedMoves ==
  ASSUME RefreshTypeOK, NEW w \in Workers, ReadFeed(w)
  PROVE  \E x \in Refresh : /\ worker' = [worker EXCEPT ![w] = x] /\ x.at = "fetch"
                            /\ x.gen = worker[w].gen /\ x.doc = worker[w].doc
                            /\ x.failures = feed.failures
                            /\ x.create = worker[w].create /\ x.update = worker[w].update
                            /\ x.mine = worker[w].mine
<1>1. PICK x : x = [worker[w] EXCEPT !.at = "fetch", !.failures = feed.failures,
                                     !.etag = feed.etag]
  OBVIOUS
<1>2. worker[w] \in Refresh /\ feed.failures \in 0 .. MaxEvents /\ feed.etag \in 0 .. Versions
  BY Types
<1>3. /\ x \in Refresh /\ x.at = "fetch" /\ x.gen = worker[w].gen /\ x.doc = worker[w].doc
      /\ x.failures = feed.failures
      /\ x.create = worker[w].create /\ x.update = worker[w].update /\ x.mine = worker[w].mine
  BY <1>1, <1>2 DEF Refresh, Stages
<1>4. worker' = [worker EXCEPT ![w] = x] BY <1>1, Zenon DEF ReadFeed
<1> QED BY <1>3, <1>4

LEMMA ReadFeedKeeps ==
  ASSUME RefreshInv, NEW w \in Workers, ReadFeed(w)
  PROVE  RefreshInv'
<1>1. /\ RefreshTypeOK /\ worker[w].at = "read"
      /\ UNCHANGED <<feed, stored, job, scheduler, wanted, published, chat, history, events>>
  BY DEF RefreshInv, ReadFeed
<1>2. events' \in 0 .. MaxEvents /\ events <= events' /\ job' \in QueueJob
  BY <1>1, Events, Types
<1>3. PICK x \in Refresh :
        /\ worker' = [worker EXCEPT ![w] = x] /\ x.at = "fetch"
        /\ x.gen = worker[w].gen /\ x.doc = worker[w].doc /\ x.failures = feed.failures
        /\ x.create = worker[w].create /\ x.update = worker[w].update /\ x.mine = worker[w].mine
  BY <1>1, ReadFeedMoves
<1>4. WorkerOK(w, worker[w]) /\ worker[w] \in Refresh BY <1>1, Types DEF RefreshInv, WorkersInv
<1>5. ClaimOK(w, x) BY <1>1, <1>3, <1>4 DEF WorkerOK, ClaimOK
<1>6. DocOK(x) BY <1>1, <1>3, <1>4 DEF WorkerOK, DocOK, Renewed
<1>7. ItemsOK(x) /\ MineOK(x) BY <1>1, <1>3, <1>4 DEF WorkerOK, ItemsOK, MineOK, Covering
<1>8. FailuresOK(x)' BY <1>1, <1>3 DEF RefreshInv, RowsInv, FailuresOK
<1>9. ASSUME NEW v \in Workers \ {w}, NEW y \in Refresh, y = worker[v]
      PROVE  PairOK(x, y) /\ PairOK(y, x)
  BY <1>3, <1>9 DEF RefreshInv, PairsInv, PairOK, Renewed
<1> QED BY <1>1, <1>2, <1>3, <1>5, <1>6, <1>7, <1>8, <1>9, Moves

\* The publisher answered with document doc, or 0.
FetchedDoc(w, doc) == worker' = [worker EXCEPT ![w].at = "answered", ![w].doc = doc]

LEMMA FetchMoves ==
  ASSUME RefreshTypeOK, NEW w \in Workers, NEW doc \in 0 .. Versions, FetchedDoc(w, doc)
  PROVE  \E x \in Refresh : /\ worker' = [worker EXCEPT ![w] = x] /\ x.at = "answered"
                            /\ x.gen = worker[w].gen /\ x.doc = doc
                            /\ x.failures = worker[w].failures
                            /\ x.create = worker[w].create /\ x.update = worker[w].update
                            /\ x.mine = worker[w].mine
<1>1. PICK x : x = [worker[w] EXCEPT !.at = "answered", !.doc = doc] OBVIOUS
<1>2. worker[w] \in Refresh BY Types
<1>3. /\ x \in Refresh /\ x.at = "answered" /\ x.gen = worker[w].gen /\ x.doc = doc
      /\ x.failures = worker[w].failures
      /\ x.create = worker[w].create /\ x.update = worker[w].update /\ x.mine = worker[w].mine
  BY <1>1, <1>2 DEF Refresh, Stages
<1>4. worker' = [worker EXCEPT ![w] = x] BY <1>1, Zenon DEF FetchedDoc
<1> QED BY <1>3, <1>4

\* The catch block begins: what failed was an event.
LEMMA Fails ==
  ASSUME RefreshInv, NEW w \in Workers, worker[w].at \notin {"idle", "claimed"},
         Event, GoTo(w, "fail"),
         UNCHANGED <<feed, stored, job, scheduler, wanted, published, chat, history>>
  PROVE  RefreshInv'
<1>1. RefreshTypeOK BY DEF RefreshInv
<1>2. /\ events' \in 0 .. MaxEvents /\ events <= events' /\ events < events'
      /\ events \in 0 .. MaxEvents /\ job' \in QueueJob
  BY <1>1, Events, Types
<1>3. PICK x \in Refresh : /\ worker' = [worker EXCEPT ![w] = x]
                           /\ x.at = "fail" /\ Same(x, worker[w])
  BY <1>1, Types, GoesTo DEF Stages
<1>4. /\ ClaimOK(w, x) /\ DocOK(x) /\ ItemsOK(x) /\ MineOK(x)
      /\ \A v \in Workers \ {w}, y \in Refresh : y = worker[v] => PairOK(x, y) /\ PairOK(y, x)
  BY <1>3, OverOK
<1>5. FailuresOK(x)'
  <2>1. FailuresOK(worker[w]) /\ worker[w].failures \in 0 .. MaxEvents
    BY <1>1, Types, RefreshFields DEF RefreshInv, WorkersInv, WorkerOK
  <2> QED BY <1>2, <1>3, <2>1, Numbers DEF FailuresOK, Same
<1> QED BY <1>2, <1>3, <1>4, <1>5, Moves

LEMMA FetchKeeps ==
  ASSUME RefreshInv, NEW w \in Workers, Fetch(w)
  PROVE  RefreshInv'
<1>1. /\ RefreshTypeOK /\ worker[w].at = "fetch"
      /\ UNCHANGED <<feed, stored, job, scheduler, wanted, published, chat, history>>
  BY DEF RefreshInv, Fetch
<1>2. ASSUME NEW doc \in 0 .. Versions, doc = 0 \/ doc = published, UNCHANGED events,
             FetchedDoc(w, doc)
      PROVE  RefreshInv'
  <2>1. events' \in 0 .. MaxEvents /\ events <= events' /\ job' \in QueueJob
    BY <1>1, <1>2, Events, Types
  <2>2. published \in 1 .. Versions BY <1>1, Types
  <2>3. PICK x \in Refresh :
          /\ worker' = [worker EXCEPT ![w] = x] /\ x.at = "answered"
          /\ x.gen = worker[w].gen /\ x.doc = doc /\ x.failures = worker[w].failures
          /\ x.create = worker[w].create /\ x.update = worker[w].update
          /\ x.mine = worker[w].mine
    BY <1>1, <1>2, <2>2, FetchMoves
  <2>4. WorkerOK(w, worker[w]) /\ worker[w] \in Refresh
    BY <1>1, Types DEF RefreshInv, WorkersInv
  <2>5. ClaimOK(w, x) BY <1>1, <2>3, <2>4 DEF WorkerOK, ClaimOK
  <2>6. DocOK(x)
    <3>1. \A i \in Items : stored[i].gen # x.gen /\ stored[i].from <= published
      BY <1>1, <2>3, <2>4 DEF RefreshInv, RowsInv, WorkerOK, DocOK
    <3> QED BY <1>2, <2>2, <2>3, <3>1 DEF DocOK, Renewed
  <2>7. ItemsOK(x) /\ MineOK(x) BY <1>1, <2>3, <2>4 DEF WorkerOK, ItemsOK, MineOK, Covering
  <2>8. FailuresOK(x)' BY <1>1, <1>2, <2>3, <2>4 DEF WorkerOK, FailuresOK
  <2>9. ASSUME NEW v \in Workers \ {w}, NEW y \in Refresh, y = worker[v]
        PROVE  PairOK(x, y) /\ PairOK(y, x)
    <3>1. PairOK(worker[w], y) /\ PairOK(y, worker[w]) /\ y.doc <= published
      BY <2>9 DEF RefreshInv, PairsInv, WorkersInv, WorkerOK, DocOK
    <3> QED BY <1>2, <2>3, <3>1 DEF PairOK, Renewed
  <2> QED BY <1>1, <2>1, <2>3, <2>5, <2>6, <2>7, <2>8, <2>9, Moves
<1>3. CASE Event /\ GoTo(w, "fail") BY <1>1, <1>3, Fails
<1>4. CASE FetchedDoc(w, 0) /\ UNCHANGED events BY <1>2, <1>4, Numbers
<1>5. CASE FetchedDoc(w, published) /\ UNCHANGED events
  <2>1. PICK doc \in 0 .. Versions : doc = published BY <1>1, Types
  <2> QED BY <1>2, <1>5, <2>1
<1>6. \/ FetchedDoc(w, 0) /\ UNCHANGED events
      \/ FetchedDoc(w, published) /\ UNCHANGED events
      \/ Event /\ GoTo(w, "fail")
  BY Zenon DEF Fetch, FetchedDoc
<1> QED BY <1>3, <1>4, <1>5, <1>6

\* The holder of the lease has the latest generation: it goes on with what it
\* has, anybody else releases.
LEMMA RenewKeeps ==
  ASSUME RefreshInv, NEW w \in Workers, NEW stage \in Renewed, RenewAnd(w, stage),
         worker[w].at \notin {"idle", "claimed"},
         UNCHANGED <<feed, stored, job, scheduler, wanted, published, chat, history, events>>,
         \A x \in Refresh : LeaseHeld(w) /\ x.at = stage /\ Same(x, worker[w]) =>
                              DocOK(x) /\ ItemsOK(x)
  PROVE  RefreshInv'
<1>1. RefreshTypeOK BY DEF RefreshInv
<1>2. events' \in 0 .. MaxEvents /\ events <= events' /\ job' \in QueueJob
  BY <1>1, Events, Types
<1>3. PICK x \in Refresh : /\ worker' = [worker EXCEPT ![w] = x] /\ Same(x, worker[w])
                           /\ x.at = (IF LeaseHeld(w) THEN stage ELSE "release")
  BY <1>1, Types, RenewedOrSkipped DEF Stages, Renewed
<1>4. CASE ~LeaseHeld(w) BY <1>2, <1>3, <1>4, EndsQuietly
<1>5. CASE LeaseHeld(w)
  <2>1. /\ WorkerOK(w, worker[w]) /\ worker[w] \in Refresh /\ feed.gen \in 0 .. MaxGen
    BY <1>1, Types DEF RefreshInv, WorkersInv
  <2>2. ClaimOK(w, x) BY <1>3, <1>5, <2>1 DEF WorkerOK, ClaimOK, Same, Renewed
  <2>3. MineOK(x) BY <1>3, <2>1 DEF WorkerOK, MineOK, Same
  <2>4. FailuresOK(x)' BY <1>3, <1>5, <2>1 DEF WorkerOK, FailuresOK, Same, Renewed
  <2>5. ASSUME NEW v \in Workers \ {w}, NEW y \in Refresh, y = worker[v]
        PROVE  PairOK(x, y) /\ PairOK(y, x)
    <3>1. PairOK(worker[w], y) /\ PairOK(y, worker[w]) /\ y.gen <= feed.gen /\ y.gen \in 0 .. MaxGen
      BY <2>5, RefreshFields DEF RefreshInv, PairsInv, WorkersInv, WorkerOK, ClaimOK
    <3> QED BY <1>3, <1>5, <2>1, <3>1, Numbers DEF PairOK, Same, LeaseHeld
  <2> QED BY <1>2, <1>3, <1>5, <2>2, <2>3, <2>4, <2>5, Moves
<1> QED BY <1>4, <1>5
LEMMA AnsweredKeeps ==
  ASSUME RefreshInv, NEW w \in Workers, Answered(w)
  PROVE  RefreshInv'
<1>1. PICK stage \in {"record", "hydrate"} :
        stage = IF worker[w].doc = 0 THEN "record" ELSE "hydrate"
  OBVIOUS
<1>2. /\ worker[w].at = "answered" /\ RenewAnd(w, stage)
      /\ UNCHANGED <<feed, stored, job, scheduler, wanted, published, chat, history, events>>
  BY <1>1 DEF Answered
<1>3. /\ WorkerOK(w, worker[w]) /\ worker[w] \in Refresh /\ feed.gen \in 0 .. MaxGen
      /\ \A i \in Items : stored[i].gen \in 0 .. MaxGen /\ stored[i].gen <= feed.gen
  BY Types DEF RefreshInv, WorkersInv, RowsInv
<1>4. ASSUME NEW x \in Refresh, LeaseHeld(w), x.at = stage, Same(x, worker[w])
      PROVE  DocOK(x) /\ ItemsOK(x)
  <2>1. \A i \in Items : stored[i].gen < x.gen
    BY <1>2, <1>3, <1>4, Numbers DEF WorkerOK, DocOK, Same, LeaseHeld
  <2>2. x.doc = worker[w].doc /\ x.gen = worker[w].gen /\ x.gen \in 0 .. MaxGen
    BY <1>4, RefreshFields DEF Same
  <2>3. DocOK(x) BY <1>1, <1>3, <1>4, <2>1, <2>2, Numbers DEF WorkerOK, DocOK, Renewed
  <2>4. ItemsOK(x) BY <1>1, <1>4, <2>2 DEF ItemsOK, Covering
  <2> QED BY <2>3, <2>4
<1> QED BY <1>2, <1>4, RenewKeeps DEF Renewed

LEMMA HydrateKeeps ==
  ASSUME RefreshInv, NEW w \in Workers, Hydrate(w)
  PROVE  RefreshInv'
<1>1. /\ worker[w].at = "hydrate" /\ RenewAnd(w, "existing")
      /\ UNCHANGED <<feed, stored, job, scheduler, wanted, published, chat, history, events>>
  BY DEF Hydrate
<1>2. WorkerOK(w, worker[w]) BY DEF RefreshInv, WorkersInv
<1>3. ASSUME NEW x \in Refresh, LeaseHeld(w), x.at = "existing", Same(x, worker[w])
      PROVE  DocOK(x) /\ ItemsOK(x)
  BY <1>1, <1>2, <1>3 DEF WorkerOK, DocOK, ItemsOK, Same, Renewed, Covering
<1> QED BY <1>1, <1>3, RenewKeeps DEF Renewed

LEMMA RenewForBatchKeeps ==
  ASSUME RefreshInv, NEW w \in Workers, RenewForBatch(w)
  PROVE  RefreshInv'
<1>1. PICK stage \in {"insert", "write"} :
        stage = IF worker[w].at = "create" THEN "insert" ELSE "write"
  OBVIOUS
<1>2. /\ worker[w].at \in {"create", "update"} /\ RenewAnd(w, stage)
      /\ UNCHANGED <<feed, stored, job, scheduler, wanted, published, chat, history, events>>
  BY <1>1 DEF RenewForBatch
<1>3. WorkerOK(w, worker[w]) BY DEF RefreshInv, WorkersInv
<1>4. ASSUME NEW x \in Refresh, LeaseHeld(w), x.at = stage, Same(x, worker[w])
      PROVE  DocOK(x) /\ ItemsOK(x)
  <2>1. DocOK(x) BY <1>1, <1>2, <1>3, <1>4 DEF WorkerOK, DocOK, Same, Renewed
  <2>2. ItemsOK(x) BY <1>1, <1>2, <1>3, <1>4 DEF WorkerOK, ItemsOK, Same, Covering
  <2> QED BY <2>1, <2>2
<1> QED BY <1>2, <1>4, RenewKeeps DEF Renewed

LEMMA StatementFailsKeeps ==
  ASSUME RefreshInv, NEW w \in Workers, StatementFails(w)
  PROVE  RefreshInv'
BY Fails DEF StatementFails

LEMMA ThrowKeeps ==
  ASSUME RefreshInv, NEW w \in Workers, Throw(w)
  PROVE  RefreshInv'
<1>1. RefreshTypeOK BY DEF RefreshInv
<1>2. job' \in QueueJob /\ worker' = [worker EXCEPT ![w] = Idle] BY <1>1, Over DEF Throw
<1>3. events' \in 0 .. MaxEvents /\ events <= events' BY <1>1, Events DEF Throw
<1> QED BY <1>2, <1>3, IdleFields, EndsQuietly DEF Throw

LEMMA CrashKeeps ==
  ASSUME RefreshInv, NEW w \in Workers, Crash(w)
  PROVE  RefreshInv'
<1>1. RefreshTypeOK BY DEF RefreshInv
<1>2. job' \in QueueJob BY <1>1, Types DEF Crash
<1>3. events' \in 0 .. MaxEvents /\ events <= events' BY <1>1, Events DEF Crash
<1> QED BY <1>2, <1>3, IdleFields, EndsQuietly DEF Crash

\* What follows the batches: the next kind of batch, or the outcome.
LEMMA NextWriteStage ==
  ASSUME NEW create, NEW update
  PROVE  /\ NextWrite(create, update) \in {"create", "update", "record"}
         /\ NextWrite(create, update) # "create" <=> create = {}
         /\ NextWrite(create, update) = "record" => update = {}
<1>1. CASE create # {} BY <1>1 DEF NextWrite
<1>2. CASE create = {} /\ update # {} BY <1>2 DEF NextWrite
<1>3. CASE create = {} /\ update = {} BY <1>3 DEF NextWrite
<1> QED BY <1>1, <1>2, <1>3

LEMMA ReadExistingKeeps ==
  ASSUME RefreshInv, NEW w \in Workers, ReadExisting(w)
  PROVE  RefreshInv'
<1>1. /\ RefreshTypeOK /\ worker[w].at = "existing"
      /\ UNCHANGED <<feed, stored, job, scheduler, wanted, published, chat, history, events>>
  BY DEF RefreshInv, ReadExisting
<1>2. events' \in 0 .. MaxEvents /\ events <= events' /\ job' \in QueueJob
  BY <1>1, Events, Types
<1>3. /\ WorkerOK(w, worker[w]) /\ worker[w] \in Refresh /\ worker[w].doc \in 1 .. Versions
      /\ worker[w].gen \in 0 .. MaxGen
      /\ \A i \in Items : stored[i].gen \in 0 .. MaxGen /\ stored[i].from \in 0 .. Versions
  BY <1>1, Types, RefreshFields DEF RefreshInv, WorkersInv, WorkerOK, DocOK, Renewed
<1>4. PICK missing : missing = DOMAIN Doc[worker[w].doc] \ Present OBVIOUS
<1>5. PICK changed : changed = {i \in DOMAIN Doc[worker[w].doc] \cap Present : Changed(w, i)}
  OBVIOUS
<1>6. PICK stage : stage = NextWrite(missing, changed) OBVIOUS
<1>7. /\ missing \in SUBSET Items /\ changed \in SUBSET Items
      /\ \A i \in missing : stored[i].from = 0
      /\ \A i \in changed : stored[i].from # 0
      /\ \A i \in DOMAIN Doc[worker[w].doc] :
           i \in missing \cup changed \/ stored[i].gen >= worker[w].gen
  BY <1>3, <1>4, <1>5, Numbers DEF Present, Changed
<1>8. PICK x \in Refresh :
        /\ worker' = [worker EXCEPT ![w] = x] /\ x.at = stage
        /\ x.gen = worker[w].gen /\ x.doc = worker[w].doc /\ x.failures = worker[w].failures
        /\ x.create = missing /\ x.update = changed /\ x.mine = worker[w].mine
  <2>1. PICK x : x = [worker[w] EXCEPT !.at = stage, !.create = missing, !.missing = missing,
                                       !.update = changed]
    OBVIOUS
  <2>2. worker' = [worker EXCEPT ![w] = x]
    BY <1>4, <1>5, <1>6, <2>1, Zenon DEF ReadExisting
  <2>3. stage \in Stages BY <1>6, NextWriteStage DEF Stages
  <2>4. /\ x \in Refresh /\ x.at = stage /\ x.gen = worker[w].gen /\ x.doc = worker[w].doc
        /\ x.failures = worker[w].failures
        /\ x.create = missing /\ x.update = changed /\ x.mine = worker[w].mine
    BY <1>3, <1>7, <2>1, <2>3 DEF Refresh
  <2> QED BY <2>2, <2>4
<1>9. /\ stage \in {"create", "update", "record"} /\ (stage # "create" => missing = {})
      /\ (stage = "record" => changed = {})
  BY <1>6, NextWriteStage
<1>10. ClaimOK(w, x) BY <1>1, <1>3, <1>8, <1>9 DEF WorkerOK, ClaimOK
<1>11. DocOK(x) BY <1>1, <1>3, <1>8, <1>9 DEF WorkerOK, DocOK, Renewed
<1>12. ItemsOK(x)
  <2>1. \A i \in DOMAIN Doc[x.doc] : i \in x.create \cup x.update \/ stored[i].from >= x.doc
    <3>1. \A i \in Items : stored[i].gen >= worker[w].gen => stored[i].from >= worker[w].doc
      BY <1>1, <1>3 DEF WorkerOK, DocOK, Renewed
    <3> QED BY <1>3, <1>7, <1>8, <3>1, Numbers
  <2> QED BY <1>7, <1>8, <1>9, <2>1 DEF ItemsOK
<1>13. MineOK(x) BY <1>3, <1>7, <1>8 DEF WorkerOK, MineOK
<1>14. FailuresOK(x)' BY <1>1, <1>3, <1>8, <1>9 DEF WorkerOK, FailuresOK
<1>15. ASSUME NEW v \in Workers \ {w}, NEW y \in Refresh, y = worker[v]
       PROVE  PairOK(x, y) /\ PairOK(y, x)
  BY <1>1, <1>8, <1>9, <1>15 DEF RefreshInv, PairsInv, PairOK, Renewed
<1> QED BY <1>1, <1>2, <1>8, <1>10, <1>11, <1>12, <1>13, <1>14, <1>15, Moves
\* A refresh that records its outcome releases its lease next.
ToRelease(w, end) == worker' = [worker EXCEPT ![w].at = "release", ![w].end = end]

LEMMA ToReleaseMoves ==
  ASSUME RefreshTypeOK, NEW w \in Workers, NEW end \in {"skipped", "success", "threw"},
         ToRelease(w, end)
  PROVE  \E x \in Refresh : /\ worker' = [worker EXCEPT ![w] = x]
                            /\ x.at = "release" /\ Same(x, worker[w])
<1>1. PICK x : x = [worker[w] EXCEPT !.at = "release", !.end = end] OBVIOUS
<1>2. worker[w] \in Refresh BY Types
<1>3. x \in Refresh /\ x.at = "release" /\ Same(x, worker[w])
  BY <1>1, <1>2 DEF Refresh, Stages, Same
<1>4. worker' = [worker EXCEPT ![w] = x] BY <1>1, Zenon DEF ToRelease
<1> QED BY <1>3, <1>4

\* What a fenced outcome may make of the feed.
LEMMA FeedFields ==
  ASSUME NEW f \in Feed
  PROVE  /\ f.gen \in 0 .. MaxGen /\ f.owner \in Workers \cup {NoOwner} /\ f.live \in BOOLEAN
         /\ f.etag \in 0 .. Versions /\ f.failures \in 0 .. MaxEvents
BY DEF Feed

LEMMA RecordSuccessKeeps ==
  ASSUME RefreshInv, NEW w \in Workers, RecordSuccess(w)
  PROVE  RefreshInv'
<1>1. /\ RefreshTypeOK /\ worker[w].at = "record"
      /\ UNCHANGED <<stored, job, scheduler, wanted, published, chat, events>>
  BY DEF RefreshInv, RecordSuccess
<1>2. /\ events' \in 0 .. MaxEvents /\ events <= events' /\ job' \in QueueJob
      /\ chat' \in [Items -> Nat]
  BY <1>1, Events, Types DEF RefreshTypeOK
<1>3. PICK end \in {"skipped", "success", "threw"} :
        end = IF LeaseHeld(w) THEN "success" ELSE "skipped"
  OBVIOUS
<1>4. PICK x \in Refresh : /\ worker' = [worker EXCEPT ![w] = x]
                           /\ x.at = "release" /\ Same(x, worker[w])
  <2>1. ToRelease(w, end) BY <1>3, Zenon DEF RecordSuccess, ToRelease
  <2> QED BY <1>1, <2>1, ToReleaseMoves
<1>5. CASE ~LeaseHeld(w) /\ UNCHANGED <<feed, history>>
  <2>1. events \in 0 .. MaxEvents /\ feed \in Feed /\ history.late \in BOOLEAN BY <1>1, Types
  <2> QED BY <1>1, <1>2, <1>4, <1>5, EndsQuietly
<1>6. CASE /\ LeaseHeld(w)
           /\ \E tag \in Validators(w) :
                feed' = [feed EXCEPT !.etag = tag, !.failures = 0, !.next = "later"]
           /\ history' = [history EXCEPT !.by = worker[w].gen]
  <2>1. PICK tag \in Validators(w) :
          feed' = [feed EXCEPT !.etag = tag, !.failures = 0, !.next = "later"]
    BY <1>6
  <2>2. /\ worker[w] \in Refresh /\ WorkerOK(w, worker[w]) /\ feed \in Feed
        /\ worker[w].doc \in 0 .. Versions /\ feed.etag \in 0 .. Versions
        /\ feed.gen \in 0 .. MaxGen /\ history.late \in BOOLEAN
        /\ history \in [by : 0 .. MaxGen, late : BOOLEAN]
    BY <1>1, Types, RefreshFields DEF RefreshInv, WorkersInv, RefreshTypeOK
  <2>3. /\ tag \in 0 .. Versions /\ (tag = feed.etag \/ (tag # 0 /\ tag = worker[w].doc))
    BY <2>1, <2>2 DEF Validators
  <2>4. /\ feed' \in Feed /\ feed'.gen = feed.gen /\ feed'.owner = feed.owner
        /\ feed'.failures = 0 /\ feed'.etag = tag
    <3>1. tag \in 0 .. Versions /\ 0 \in 0 .. MaxEvents BY <2>3, Numbers
    <3> QED BY <2>1, <2>2, <3>1 DEF Feed
  <2>5. /\ history' \in [by : 0 .. MaxGen, late : {history.late}]
        /\ history'.by <= feed.gen /\ history'.late = history.late
    BY <1>6, <2>2 DEF LeaseHeld
  <2>6. ValidatorsCoverUnlessLate'
    <3>1. SUFFICES ASSUME ~history.late, tag # 0, NEW i \in DOMAIN Doc[tag]
                   PROVE  stored[i].from >= tag
      BY <1>1, <2>4, <2>5 DEF ValidatorsCoverUnlessLate, ValidatorsCoverItems
    <3>2. CASE tag = feed.etag
      BY <3>1, <3>2 DEF RefreshInv, ValidatorsCoverUnlessLate, ValidatorsCoverItems
    <3>3. CASE tag = worker[w].doc
      BY <1>1, <2>2, <3>1, <3>3 DEF WorkerOK, ItemsOK, Covering
    <3> QED BY <2>3, <3>2, <3>3
  <2>7. feed'.failures <= events' BY <1>2, <2>4
  <2> QED BY <1>1, <1>2, <1>4, <2>4, <2>5, <2>6, <2>7, Ends
<1> QED BY <1>5, <1>6 DEF RecordSuccess

LEMMA RecordFailureKeeps ==
  ASSUME RefreshInv, NEW w \in Workers, RecordFailure(w)
  PROVE  RefreshInv'
<1>1. /\ RefreshTypeOK /\ worker[w].at = "fail" /\ (Event \/ UNCHANGED events)
      /\ UNCHANGED <<stored, job, scheduler, wanted, published, chat>>
  BY DEF RefreshInv, RecordFailure
<1>2. /\ events' \in 0 .. MaxEvents /\ events <= events' /\ job' \in QueueJob
      /\ chat' \in [Items -> Nat] /\ events \in 0 .. MaxEvents
  BY <1>1, Events, Types DEF RefreshTypeOK
<1>3. PICK x \in Refresh : /\ worker' = [worker EXCEPT ![w] = x]
                           /\ x.at = "release" /\ Same(x, worker[w])
  <2>1. ToRelease(w, "threw") BY Zenon DEF RecordFailure, ToRelease
  <2> QED BY <1>1, <2>1, ToReleaseMoves
<1>4. CASE UNCHANGED <<feed, history>> BY <1>1, <1>2, <1>3, <1>4, EndsQuietly
<1>5. CASE /\ LeaseHeld(w)
           /\ feed' = [feed EXCEPT !.failures = worker[w].failures + 1, !.next = "later"]
           /\ history' = [history EXCEPT !.by = worker[w].gen]
           /\ UNCHANGED events
  <2>1. /\ worker[w] \in Refresh /\ WorkerOK(w, worker[w]) /\ feed \in Feed
        /\ worker[w].failures \in 0 .. MaxEvents /\ feed.gen \in 0 .. MaxGen
        /\ history \in [by : 0 .. MaxGen, late : BOOLEAN]
    BY <1>1, Types, RefreshFields DEF RefreshInv, WorkersInv, RefreshTypeOK
  <2>2. worker[w].failures + 1 \in 0 .. MaxEvents /\ worker[w].failures + 1 <= events'
    BY <1>1, <1>2, <1>5, <2>1, Numbers DEF WorkerOK, FailuresOK
  <2>3. /\ feed' \in Feed /\ feed'.gen = feed.gen /\ feed'.owner = feed.owner
        /\ feed'.failures <= events' /\ feed'.etag = feed.etag
    BY <1>5, <2>1, <2>2 DEF Feed
  <2>4. /\ history' \in [by : 0 .. MaxGen, late : {history.late}]
        /\ history'.by <= feed.gen /\ history'.late = history.late
    BY <1>5, <2>1 DEF LeaseHeld
  <2>5. ValidatorsCoverUnlessLate'
    BY <1>1, <2>3, <2>4 DEF RefreshInv, ValidatorsCoverUnlessLate, ValidatorsCoverItems
  <2> QED BY <1>1, <1>2, <1>3, <2>3, <2>4, <2>5, Ends
<1> QED BY <1>4, <1>5 DEF RecordFailure

\* The end of a refresh: it announces at most what it inserted itself, which
\* nobody announced before.
LEMMA ReleaseEffects ==
  ASSUME RefreshInv, NEW w \in Workers, Release(w)
  PROVE  /\ \A i \in Items : chat'[i] # chat[i] => i \in worker[w].mine
         /\ chat' \in [Items -> Nat]
         /\ worker' = [worker EXCEPT ![w] = Idle] /\ job' \in QueueJob
         /\ events' \in 0 .. MaxEvents /\ events <= events'
<1>1. RefreshTypeOK /\ chat \in [Items -> Nat] BY DEF RefreshInv, RefreshTypeOK
<1>2. job' \in QueueJob /\ worker' = [worker EXCEPT ![w] = Idle] BY <1>1, Over DEF Release
<1>3. events' \in 0 .. MaxEvents /\ events <= events' BY <1>1, Events DEF Release
<1>4. /\ \A i \in Items : chat'[i] # chat[i] => i \in worker[w].mine
      /\ chat' \in [Items -> Nat]
  <2>1. CASE UNCHANGED chat BY <1>1, <2>1
  <2>2. CASE \E queued \in SUBSET NewItems(w) :
               chat' = [i \in Items |-> IF i \in queued THEN chat[i] + 1 ELSE chat[i]]
    BY <1>1, <2>2 DEF NewItems
  <2> QED BY <2>1, <2>2 DEF Release
<1> QED BY <1>2, <1>3, <1>4

LEMMA ReleaseKeeps ==
  ASSUME RefreshInv, NEW w \in Workers, Release(w)
  PROVE  RefreshInv'
<1>1. RefreshTypeOK /\ UNCHANGED <<stored, scheduler, wanted, published, history>>
  BY DEF RefreshInv, Release
<1>2. /\ feed \in Feed /\ feed.failures \in 0 .. MaxEvents /\ events \in 0 .. MaxEvents
      /\ history \in [by : 0 .. MaxGen, late : BOOLEAN] /\ feed.failures <= events
      /\ history.by <= feed.gen
  BY <1>1, Types DEF RefreshInv, RefreshTypeOK, RowsInv
<1>3. /\ \A i \in Items : chat'[i] # chat[i] => i \in worker[w].mine
      /\ chat' \in [Items -> Nat]
      /\ worker' = [worker EXCEPT ![w] = Idle] /\ job' \in QueueJob
      /\ events' \in 0 .. MaxEvents /\ events <= events'
  BY ReleaseEffects
<1>4. /\ feed' \in Feed /\ feed'.gen = feed.gen /\ feed'.owner \in {feed.owner, NoOwner}
      /\ feed'.failures = feed.failures /\ feed'.etag = feed.etag
  <2>1. CASE feed' = feed BY <1>2, <2>1
  <2>2. CASE feed' = [feed EXCEPT !.live = FALSE, !.owner = NoOwner] BY <1>2, <2>2 DEF Feed
  <2> QED BY <2>1, <2>2 DEF Release
<1>5. feed'.failures <= events' BY <1>2, <1>3, <1>4, Numbers
<1>6. history' \in [by : 0 .. MaxGen, late : {history.late}] /\ history'.by <= feed.gen
  BY <1>1, <1>2
<1>7. ValidatorsCoverUnlessLate'
  BY <1>1, <1>4 DEF RefreshInv, ValidatorsCoverUnlessLate, ValidatorsCoverItems
<1> QED BY <1>1, <1>3, <1>4, <1>5, <1>6, <1>7, IdleFields, Ends
\* A batch: items of earlier generations get the document and the generation of
\* the refresh, and none goes back.
LEMMA WrittenRows ==
  ASSUME RefreshInv, NEW w \in Workers, NEW written \in SUBSET Items,
         stored' = Written(w, written), worker[w].at \in {"insert", "write"},
         \A i \in written : stored[i].gen < worker[w].gen
  PROVE  /\ stored' \in [Items -> Article]
         /\ \A i \in Items \ written : stored'[i] = stored[i]
         /\ \A i \in written : stored'[i].gen = worker[w].gen /\ stored'[i].from = worker[w].doc
         /\ \A i \in Items : /\ stored[i].gen <= stored'[i].gen /\ stored[i].from <= stored'[i].from
                             /\ stored'[i].gen \in 0 .. MaxGen /\ stored'[i].from \in 0 .. Versions
         /\ worker[w].doc # 0 /\ worker[w].gen # 0
<1>1. /\ worker[w] \in Refresh /\ worker[w].gen \in 0 .. MaxGen /\ worker[w].doc \in 0 .. Versions
      /\ stored \in [Items -> Article] /\ WorkerOK(w, worker[w])
      /\ \A i \in Items : stored[i].gen \in 0 .. MaxGen /\ stored[i].from \in 0 .. Versions
  BY Types, RefreshFields DEF RefreshInv, RefreshTypeOK, WorkersInv
<1>2. PICK row : row = [gen |-> worker[w].gen, from |-> worker[w].doc] OBVIOUS
<1>3. row \in Article /\ row.gen = worker[w].gen /\ row.from = worker[w].doc
  BY <1>1, <1>2 DEF Article
<1>4. stored' = [i \in Items |-> IF i \in written THEN row ELSE stored[i]]
  BY <1>2, Zenon DEF Written
<1>5. worker[w].doc # 0 /\ worker[w].gen # 0
  BY <1>1 DEF WorkerOK, ClaimOK, DocOK, Renewed
<1>6. \A i \in written : stored[i].from <= worker[w].doc
  BY <1>1, <1>5 DEF WorkerOK, DocOK
<1>7. \A i \in Items : IF i \in written THEN stored'[i] = row ELSE stored'[i] = stored[i]
  BY <1>4
<1>8. stored' \in [Items -> Article] BY <1>1, <1>3, <1>4
<1>9. \A i \in Items : /\ stored[i].gen <= stored'[i].gen /\ stored[i].from <= stored'[i].from
                       /\ stored'[i].gen \in 0 .. MaxGen /\ stored'[i].from \in 0 .. Versions
  <2> SUFFICES ASSUME NEW i \in Items
               PROVE  /\ stored[i].gen <= stored'[i].gen /\ stored[i].from <= stored'[i].from
                      /\ stored'[i].gen \in 0 .. MaxGen /\ stored'[i].from \in 0 .. Versions
    OBVIOUS
  <2>1. CASE i \in written BY <1>1, <1>3, <1>6, <1>7, <2>1, Numbers
  <2>2. CASE i \notin written
    <3>1. stored'[i] = stored[i] BY <1>7, <2>2
    <3> QED BY <1>1, <3>1, Numbers
  <2> QED BY <2>1, <2>2
<1> QED BY <1>3, <1>5, <1>7, <1>8, <1>9

\* What the others know survives the batch of w: an earlier refresh has no later
\* document, a later one no earlier.
LEMMA OthersSurvive ==
  ASSUME RefreshInv, NEW w \in Workers, NEW written \in SUBSET Items,
         stored' = Written(w, written), worker[w].at \in {"insert", "write"},
         \A i \in written : stored[i].gen < worker[w].gen,
         \A i \in written : stored[i].from = 0 /\ ~history'.late => feed.gen = worker[w].gen,
         history.late => history'.late,
         UNCHANGED <<feed, published, chat, events>>,
         NEW v \in Workers \ {w}, NEW y \in Refresh, y = worker[v]
  PROVE  WorkerOK(v, y)'
<1>1. /\ \A i \in Items \ written : stored'[i] = stored[i]
      /\ \A i \in written : stored'[i].gen = worker[w].gen /\ stored'[i].from = worker[w].doc
      /\ \A i \in Items : /\ stored[i].gen <= stored'[i].gen /\ stored[i].from <= stored'[i].from
                          /\ stored'[i].gen \in 0 .. MaxGen /\ stored'[i].from \in 0 .. Versions
      /\ worker[w].doc # 0 /\ worker[w].gen # 0
  BY WrittenRows
<1>2. /\ worker[w] \in Refresh /\ worker[w].gen \in 0 .. MaxGen /\ worker[w].doc \in 0 .. Versions
      /\ y.gen \in 0 .. MaxGen /\ y.doc \in 0 .. Versions /\ feed.gen \in 0 .. MaxGen
      /\ y.mine \in SUBSET Items /\ y.update \in SUBSET Items /\ y.create \in SUBSET Items
      /\ v # NoOwner /\ w # NoOwner
      /\ \A i \in Items : stored[i].gen \in 0 .. MaxGen /\ stored[i].from \in 0 .. Versions
  BY Types, RefreshFields, Numbers DEF RefreshInv
<1>3. /\ WorkerOK(w, worker[w]) /\ WorkerOK(v, y)
      /\ PairOK(worker[w], y) /\ PairOK(y, worker[w])
  BY DEF RefreshInv, WorkersInv, PairsInv
<1>4. ClaimOK(v, y)'
  <2>1. y.at = "claimed" /\ feed.owner = v => \A i \in Items : stored'[i].gen < feed.gen
    <3> SUFFICES ASSUME y.at = "claimed", feed.owner = v, NEW i \in Items
                 PROVE  stored'[i].gen < feed.gen
      OBVIOUS
    <3>1. stored[i].gen < feed.gen /\ worker[w].gen <= feed.gen /\ worker[w].gen # feed.gen
      BY <1>1, <1>2, <1>3 DEF WorkerOK, ClaimOK
    <3> QED BY <1>1, <1>2, <3>1, Numbers
  <2> QED BY <1>3, <2>1 DEF WorkerOK, ClaimOK
<1>5. DocOK(y)'
  <2>1. y.at \in {"read", "fetch", "answered"} => \A i \in Items : stored'[i].gen # y.gen
    BY <1>1, <1>3 DEF WorkerOK, DocOK, PairOK
  <2>2. ASSUME y.doc # 0, NEW i \in Items, stored'[i].gen < y.gen PROVE stored'[i].from <= y.doc
    BY <1>1, <1>2, <1>3, <2>2, Numbers DEF WorkerOK, DocOK, PairOK, Renewed
  <2>3. ASSUME y.doc # 0, y.at \in Renewed, NEW i \in Items, stored'[i].gen >= y.gen
        PROVE  stored'[i].from >= y.doc
    <3>1. CASE i \in written
      <4>1. y.gen < worker[w].gen BY <1>1, <1>2, <1>3, <2>3, <3>1, Numbers DEF PairOK
      <4> QED BY <1>1, <1>2, <1>3, <2>3, <3>1, <4>1 DEF PairOK
    <3>2. CASE i \notin written BY <1>1, <1>3, <2>3, <3>2 DEF WorkerOK, DocOK
    <3> QED BY <3>1, <3>2
  <2>4. y.doc <= published' /\ (y.at \in Renewed \ {"record"} => y.doc # 0)
    BY <1>3 DEF WorkerOK, DocOK
  <2> QED BY <2>1, <2>2, <2>3, <2>4 DEF DocOK
<1>6. ItemsOK(y)'
  <2>1. ASSUME ~history'.late, y.doc # 0, y.at \in Covering, NEW i \in DOMAIN Doc[y.doc]
        PROVE  i \in y.create \cup y.update \/ stored'[i].from >= y.doc
    <3>1. i \in Items /\ y.doc \in 1 .. Versions BY <1>2, <2>1, Numbers
    <3>2. i \in y.create \cup y.update \/ stored[i].from >= y.doc
      BY <1>3, <2>1 DEF WorkerOK, ItemsOK
    <3> QED BY <1>1, <1>2, <3>1, <3>2, Numbers
  <2>2. ASSUME ~history'.late, y.at \in {"create", "insert"}, NEW i \in y.create,
               stored'[i].from # 0
        PROVE  stored'[i].gen >= y.gen
    <3>1. i \in Items BY <1>2
    <3>2. CASE stored[i].from # 0
      <4>1. stored[i].gen >= y.gen BY <1>3, <2>2, <3>2 DEF WorkerOK, ItemsOK
      <4> QED BY <1>1, <1>2, <3>1, <4>1, Numbers
    <3>3. CASE stored[i].from = 0
      <4>1. i \in written BY <1>1, <2>2, <3>1, <3>3
      <4>2. y.gen <= feed.gen BY <1>3 DEF WorkerOK, ClaimOK
      <4> QED BY <1>1, <1>2, <2>2, <3>3, <4>1, <4>2, Numbers
    <3> QED BY <3>2, <3>3
  <2> QED BY <1>3, <2>1, <2>2 DEF WorkerOK, ItemsOK
<1>7. MineOK(y)'
  <2>1. \A i \in Items : stored[i].from # 0 => stored'[i].from # 0 BY <1>1, <1>2, Numbers
  <2> QED BY <1>2, <1>3, <2>1 DEF WorkerOK, MineOK
<1>8. FailuresOK(y)' BY <1>3 DEF WorkerOK, FailuresOK
<1> QED BY <1>4, <1>5, <1>6, <1>7, <1>8 DEF WorkerOK
\* A batch of w, which then is x.
LEMMA Writes ==
  ASSUME RefreshInv, NEW w \in Workers, NEW x \in Refresh, worker' = [worker EXCEPT ![w] = x],
         NEW written \in SUBSET Items,
         stored' = Written(w, written), worker[w].at \in {"insert", "write"},
         \A i \in written : stored[i].gen < worker[w].gen,
         \A i \in written : stored[i].from = 0 /\ ~history'.late => feed.gen = worker[w].gen,
         history' \in [by : {history.by}, late : BOOLEAN], history.late => history'.late,
         UNCHANGED <<feed, job, scheduler, wanted, published, chat, events>>,
         x.at \in {"create", "update", "record"}, x.gen = worker[w].gen, x.doc = worker[w].doc,
         x.failures = worker[w].failures, x.update \subseteq worker[w].update,
         \A i \in x.mine : i \in worker[w].mine \/ (i \in written /\ stored[i].from = 0),
         ItemsOK(x)'
  PROVE  RefreshInv'
<1>1. /\ stored' \in [Items -> Article]
      /\ \A i \in Items \ written : stored'[i] = stored[i]
      /\ \A i \in written : stored'[i].gen = worker[w].gen /\ stored'[i].from = worker[w].doc
      /\ \A i \in Items : /\ stored[i].gen <= stored'[i].gen /\ stored[i].from <= stored'[i].from
                          /\ stored'[i].gen \in 0 .. MaxGen /\ stored'[i].from \in 0 .. Versions
      /\ worker[w].doc # 0 /\ worker[w].gen # 0
  BY WrittenRows
<1>2. /\ worker[w] \in Refresh /\ worker[w].gen \in 0 .. MaxGen /\ worker[w].doc \in 0 .. Versions
      /\ feed.gen \in 0 .. MaxGen /\ feed.etag \in 0 .. Versions /\ published \in 1 .. Versions
      /\ x.mine \in SUBSET Items /\ x.update \in SUBSET Items
      /\ worker[w].update \in SUBSET Items /\ worker[w].mine \in SUBSET Items
      /\ \A i \in Items : /\ stored[i].gen \in 0 .. MaxGen /\ stored[i].from \in 0 .. Versions
                          /\ chat[i] \in Nat
  BY Types, RefreshFields DEF RefreshInv
<1>3. WorkerOK(w, worker[w]) BY DEF RefreshInv, WorkersInv
<1>4. \A i \in Items : stored[i].from # 0 => stored'[i].from # 0 BY <1>1, <1>2, Numbers
<1>5. WorkerOK(w, x)'
  <2>1. ClaimOK(w, x)' BY <1>1, <1>3 DEF WorkerOK, ClaimOK
  <2>2. DocOK(x)'
    <3>1. ASSUME NEW i \in Items, stored'[i].gen < x.gen PROVE stored'[i].from <= x.doc
      <4>1. i \notin written BY <1>1, <1>2, <3>1, Numbers
      <4> QED BY <1>1, <1>3, <3>1, <4>1 DEF WorkerOK, DocOK
    <3>2. ASSUME NEW i \in Items, stored'[i].gen >= x.gen PROVE stored'[i].from >= x.doc
      <4>1. CASE i \in written BY <1>1, <1>2, <4>1, Numbers
      <4>2. CASE i \notin written BY <1>1, <1>3, <3>2, <4>2 DEF WorkerOK, DocOK, Renewed
      <4> QED BY <4>1, <4>2
    <3>3. x.doc <= published' /\ x.doc # 0 BY <1>1, <1>3 DEF WorkerOK, DocOK
    <3> QED BY <3>1, <3>2, <3>3 DEF DocOK
  <2>3. MineOK(x)'
    <3>1. ASSUME NEW i \in x.mine PROVE stored'[i].from # 0 /\ chat'[i] = 0
      <4>1. CASE i \in worker[w].mine BY <1>2, <1>3, <1>4, <4>1 DEF WorkerOK, MineOK
      <4>2. CASE i \in written /\ stored[i].from = 0
        BY <1>1, <1>2, <4>2 DEF RefreshInv, RowsInv
      <4> QED BY <3>1, <4>1, <4>2
    <3>2. \A i \in x.update : stored'[i].from # 0
      BY <1>2, <1>3, <1>4 DEF WorkerOK, MineOK
    <3> QED BY <3>1, <3>2 DEF MineOK
  <2>4. FailuresOK(x)' BY <1>3 DEF WorkerOK, FailuresOK
  <2> QED BY <2>1, <2>2, <2>3, <2>4 DEF WorkerOK
<1>6. ASSUME NEW v \in Workers \ {w}, NEW y \in Refresh, y = worker[v]
      PROVE  PairOK(x, y) /\ PairOK(y, x)
  <2>1. PairOK(worker[w], y) /\ PairOK(y, worker[w]) /\ MineOK(y)
    BY <1>6 DEF RefreshInv, PairsInv, WorkersInv, WorkerOK
  <2>2. x.mine \cap y.mine = {} BY <2>1 DEF PairOK, MineOK
  <2>3. worker[w].at \in Renewed BY DEF Renewed
  <2> QED BY <2>1, <2>2, <2>3 DEF PairOK
<1>7. \A v \in Workers \ {w}, y \in Refresh : y = worker[v] => WorkerOK(v, y)'
  BY OthersSurvive
<1>8. WorkersInv' /\ PairsInv' /\ worker' \in [Workers -> Refresh]
  BY <1>5, <1>6, <1>7, Becomes
<1>9. RefreshTypeOK'
  <2>1. history' \in [by : 0 .. MaxGen, late : BOOLEAN] BY Types DEF RefreshInv
  <2> QED BY <1>1, <1>8, <2>1 DEF RefreshInv, RefreshTypeOK
<1>10. RowsInv'
  <2>1. worker[w].gen <= feed.gen /\ worker[w].doc <= published
    BY <1>3 DEF WorkerOK, ClaimOK, DocOK
  <2>2. \A i \in Items : /\ stored'[i].gen <= feed.gen /\ stored'[i].from <= published
                         /\ stored'[i].from = 0 => stored'[i].gen = 0
    BY <1>1, <2>1 DEF RefreshInv, RowsInv
  <2> QED BY <1>4, <2>2 DEF RefreshInv, RowsInv
<1>11. ValidatorsCoverUnlessLate'
  <2>1. SUFFICES ASSUME ~history.late, feed.etag # 0, NEW i \in DOMAIN Doc[feed.etag]
                 PROVE  stored'[i].from >= feed.etag
    BY DEF ValidatorsCoverUnlessLate, ValidatorsCoverItems
  <2>2. i \in Items BY <1>2, <2>1, Numbers
  <2>3. stored[i].from >= feed.etag
    BY <2>1 DEF RefreshInv, ValidatorsCoverUnlessLate, ValidatorsCoverItems
  <2> QED BY <1>1, <1>2, <2>2, <2>3, Numbers
<1> QED BY <1>8, <1>9, <1>10, <1>11 DEF RefreshInv

LEMMA CreateBatchKeeps ==
  ASSUME RefreshInv, NEW w \in Workers, CreateBatch(w)
  PROVE  RefreshInv'
<1>1. /\ RefreshTypeOK /\ worker[w].at = "insert"
      /\ UNCHANGED <<feed, job, scheduler, wanted, published, chat, events>>
  BY DEF RefreshInv, CreateBatch
<1>2. PICK batch \in Batches(worker[w].create) :
        LET new == batch \ Present
            rest == worker[w].create \ batch
        IN /\ stored' = Written(w, new)
           /\ worker' = [worker EXCEPT ![w].at = NextWrite(rest, worker[w].update),
                                       ![w].create = rest, ![w].mine = @ \cup new]
           /\ history' = [history EXCEPT !.late = @ \/ (new # {} /\ feed.gen # worker[w].gen)]
  BY DEF CreateBatch
<1>3. PICK new : new = batch \ Present OBVIOUS
<1>4. PICK rest : rest = worker[w].create \ batch OBVIOUS
<1>5. PICK stage : stage = NextWrite(rest, worker[w].update) OBVIOUS
<1>6. /\ worker[w] \in Refresh /\ worker[w].create \in SUBSET Items
      /\ worker[w].update \in SUBSET Items /\ worker[w].mine \in SUBSET Items
      /\ WorkerOK(w, worker[w]) /\ worker[w].gen \in 0 .. MaxGen
      /\ worker[w].doc \in 0 .. Versions /\ history \in [by : 0 .. MaxGen, late : BOOLEAN]
      /\ \A i \in Items : stored[i].gen \in 0 .. MaxGen /\ stored[i].from \in 0 .. Versions
  BY <1>1, Types, RefreshFields DEF RefreshInv, WorkersInv, RefreshTypeOK
<1>7. /\ batch \subseteq worker[w].create /\ new \in SUBSET Items /\ rest \in SUBSET Items
      /\ \A i \in batch : i \in new \/ stored[i].from # 0
      /\ \A i \in new : stored[i].from = 0
  BY <1>3, <1>4, <1>6 DEF Batches, Present
<1>8. /\ stage \in {"create", "update", "record"} /\ (stage # "create" => rest = {})
      /\ (stage = "record" => worker[w].update = {})
  BY <1>5, NextWriteStage
<1>9. PICK x \in Refresh :
        /\ worker' = [worker EXCEPT ![w] = x] /\ x.at = stage
        /\ x.gen = worker[w].gen /\ x.doc = worker[w].doc /\ x.failures = worker[w].failures
        /\ x.create = rest /\ x.update = worker[w].update /\ x.mine = worker[w].mine \cup new
  <2>1. PICK x : x = [worker[w] EXCEPT !.at = stage, !.create = rest,
                                       !.mine = worker[w].mine \cup new]
    OBVIOUS
  <2>2. worker' = [worker EXCEPT ![w].at = stage, ![w].create = rest, ![w].mine = @ \cup new]
    BY <1>2, <1>3, <1>4, <1>5, Zenon
  <2>3. worker' = [worker EXCEPT ![w] = x] BY <2>1, <2>2, Zenon
  <2>4. stage \in Stages BY <1>8 DEF Stages
  <2>5. worker[w].mine \cup new \in SUBSET Items BY <1>6, <1>7
  <2>6. /\ x \in Refresh /\ x.at = stage /\ x.gen = worker[w].gen /\ x.doc = worker[w].doc
        /\ x.failures = worker[w].failures
        /\ x.create = rest /\ x.update = worker[w].update /\ x.mine = worker[w].mine \cup new
    BY <1>6, <1>7, <2>1, <2>4, <2>5 DEF Refresh
  <2> QED BY <2>3, <2>6
<1>10. stored' = Written(w, new) BY <1>2, <1>3
<1>11. /\ history' \in [by : {history.by}, late : BOOLEAN] /\ (history.late => history'.late)
       /\ (~history'.late => new = {} \/ feed.gen = worker[w].gen)
  <2>1. history' = [history EXCEPT !.late = @ \/ (new # {} /\ feed.gen # worker[w].gen)]
    BY <1>2, <1>3
  <2>2. PICK late \in BOOLEAN : late = (history.late \/ (new # {} /\ feed.gen # worker[w].gen))
    BY <1>6
  <2>3. history' = [history EXCEPT !.late = late] BY <2>1, <2>2, Zenon
  <2>4. history' \in [by : {history.by}, late : BOOLEAN] /\ history'.late = late
    BY <1>6, <2>3
  <2> QED BY <2>2, <2>4
<1>12. \A i \in new : stored[i].gen < worker[w].gen
  <2>1. worker[w].gen # 0 BY <1>1, <1>6 DEF WorkerOK, ClaimOK
  <2>2. \A i \in new : stored[i].gen = 0 BY <1>7 DEF RefreshInv, RowsInv
  <2> QED BY <1>6, <2>1, <2>2, Numbers
<1>13. /\ \A i \in Items \ new : stored'[i] = stored[i]
       /\ \A i \in new : stored'[i].gen = worker[w].gen /\ stored'[i].from = worker[w].doc
       /\ worker[w].doc # 0
  BY <1>1, <1>7, <1>10, <1>12, WrittenRows
<1>14. ItemsOK(x)'
  <2>1. ASSUME ~history'.late, NEW i \in DOMAIN Doc[x.doc]
        PROVE  i \in x.create \cup x.update \/ stored'[i].from >= x.doc
    <3>1. i \in Items /\ ~history.late /\ x.doc \in 1 .. Versions
      BY <1>6, <1>9, <1>11, <1>13, <2>1, Numbers
    <3>2. CASE i \in new BY <1>6, <1>9, <1>13, <3>2, Numbers
    <3>3. CASE i \in batch \ new
      <4>1. stored[i].gen >= worker[w].gen
        BY <1>1, <1>6, <1>7, <3>1, <3>3 DEF WorkerOK, ItemsOK
      <4>2. stored[i].from >= worker[w].doc
        BY <1>1, <1>6, <1>13, <3>1, <4>1 DEF WorkerOK, DocOK, Renewed
      <4> QED BY <1>9, <1>13, <3>1, <3>3, <4>2
    <3>4. CASE i \notin batch
      <4>1. i \in worker[w].create \cup worker[w].update \/ stored[i].from >= worker[w].doc
        BY <1>1, <1>6, <1>9, <1>13, <2>1, <3>1 DEF WorkerOK, ItemsOK, Covering
      <4> QED BY <1>3, <1>4, <1>9, <1>13, <3>1, <3>4, <4>1
    <3> QED BY <3>2, <3>3, <3>4
  <2>2. ASSUME ~history'.late, NEW i \in x.create, stored'[i].from # 0
        PROVE  stored'[i].gen >= x.gen
    <3>1. i \in Items /\ i \in worker[w].create /\ ~history.late
      BY <1>4, <1>6, <1>9, <1>11, <2>2
    <3>2. i \notin new BY <1>3, <1>4, <1>9, <2>2
    <3> QED BY <1>1, <1>6, <1>9, <1>13, <2>2, <3>1, <3>2 DEF WorkerOK, ItemsOK
  <2> QED BY <1>8, <1>9, <2>1, <2>2 DEF ItemsOK
<1>15. \A i \in new : stored[i].from = 0 /\ ~history'.late => feed.gen = worker[w].gen
  BY <1>11
<1>16. \A i \in x.mine : i \in worker[w].mine \/ (i \in new /\ stored[i].from = 0)
  BY <1>7, <1>9
<1> QED BY <1>1, <1>7, <1>8, <1>9, <1>10, <1>11, <1>12, <1>14, <1>15, <1>16, Writes
LEMMA UpdateBatchKeeps ==
  ASSUME RefreshInv, NEW w \in Workers, UpdateBatch(w)
  PROVE  RefreshInv'
<1>1. /\ RefreshTypeOK /\ worker[w].at = "write"
      /\ UNCHANGED <<feed, job, scheduler, wanted, published, chat, history, events>>
  BY DEF RefreshInv, UpdateBatch
<1>2. PICK batch \in Batches(worker[w].update) :
        LET rest == worker[w].update \ batch
        IN /\ stored' = Written(w, {i \in batch : stored[i].gen < worker[w].gen})
           /\ worker' = [worker EXCEPT ![w].at = NextWrite({}, rest), ![w].update = rest]
  BY DEF UpdateBatch
<1>3. PICK older : older = {i \in batch : stored[i].gen < worker[w].gen} OBVIOUS
<1>4. PICK rest : rest = worker[w].update \ batch OBVIOUS
<1>5. PICK stage : stage = NextWrite({}, rest) OBVIOUS
<1>6. /\ worker[w] \in Refresh /\ worker[w].update \in SUBSET Items
      /\ worker[w].mine \in SUBSET Items
      /\ WorkerOK(w, worker[w]) /\ worker[w].gen \in 0 .. MaxGen
      /\ worker[w].doc \in 0 .. Versions /\ history \in [by : 0 .. MaxGen, late : BOOLEAN]
      /\ \A i \in Items : stored[i].gen \in 0 .. MaxGen /\ stored[i].from \in 0 .. Versions
  BY <1>1, Types, RefreshFields DEF RefreshInv, WorkersInv, RefreshTypeOK
<1>7. /\ batch \subseteq worker[w].update /\ older \in SUBSET Items /\ rest \in SUBSET Items
      /\ \A i \in older : stored[i].gen < worker[w].gen /\ stored[i].from # 0
      /\ \A i \in batch \ older : stored[i].gen >= worker[w].gen
  BY <1>3, <1>4, <1>6, Numbers DEF Batches, WorkerOK, MineOK
<1>8. stage \in {"update", "record"} /\ (stage = "record" => rest = {})
  BY <1>5, NextWriteStage
<1>9. worker[w].doc # 0 /\ worker[w].create = {}
  BY <1>1, <1>6 DEF WorkerOK, DocOK, ItemsOK, Renewed
<1>10. PICK x \in Refresh :
         /\ worker' = [worker EXCEPT ![w] = x] /\ x.at = stage
         /\ x.gen = worker[w].gen /\ x.doc = worker[w].doc /\ x.failures = worker[w].failures
         /\ x.create = {} /\ x.update = rest /\ x.mine = worker[w].mine
  <2>1. PICK x : x = [worker[w] EXCEPT !.at = stage, !.update = rest] OBVIOUS
  <2>2. worker' = [worker EXCEPT ![w].at = stage, ![w].update = rest]
    BY <1>2, <1>4, <1>5, Zenon
  <2>3. worker' = [worker EXCEPT ![w] = x] BY <2>1, <2>2, Zenon
  <2>4. stage \in Stages BY <1>8 DEF Stages
  <2>5. /\ x \in Refresh /\ x.at = stage /\ x.gen = worker[w].gen /\ x.doc = worker[w].doc
        /\ x.failures = worker[w].failures
        /\ x.create = {} /\ x.update = rest /\ x.mine = worker[w].mine
    BY <1>6, <1>7, <1>9, <2>1, <2>4 DEF Refresh
  <2> QED BY <2>3, <2>5
<1>11. stored' = Written(w, older) BY <1>2, <1>3
<1>12. /\ \A i \in Items \ older : stored'[i] = stored[i]
       /\ \A i \in older : stored'[i].gen = worker[w].gen /\ stored'[i].from = worker[w].doc
  BY <1>1, <1>7, <1>11, WrittenRows
<1>13. ItemsOK(x)'
  <2>1. ASSUME ~history'.late, NEW i \in DOMAIN Doc[x.doc]
        PROVE  i \in x.create \cup x.update \/ stored'[i].from >= x.doc
    <3>1. i \in Items /\ ~history.late /\ x.doc \in 1 .. Versions
      BY <1>1, <1>6, <1>9, <1>10, <2>1, Numbers
    <3>2. CASE i \in older BY <1>6, <1>10, <1>12, <3>2, Numbers
    <3>3. CASE i \in batch \ older
      <4>1. stored[i].from >= worker[w].doc
        BY <1>1, <1>6, <1>7, <1>9, <3>1, <3>3 DEF WorkerOK, DocOK, Renewed
      <4> QED BY <1>10, <1>12, <3>1, <3>3, <4>1
    <3>4. CASE i \notin batch
      <4>1. i \in worker[w].update \/ stored[i].from >= worker[w].doc
        BY <1>1, <1>6, <1>9, <1>10, <2>1, <3>1 DEF WorkerOK, ItemsOK, Covering
      <4> QED BY <1>3, <1>4, <1>10, <1>12, <3>1, <3>4, <4>1
    <3> QED BY <3>2, <3>3, <3>4
  <2> QED BY <1>8, <1>10, <2>1 DEF ItemsOK
<1>14. history' \in [by : {history.by}, late : BOOLEAN] BY <1>1, <1>6
<1>15. \A i \in older : stored[i].from = 0 /\ ~history'.late => feed.gen = worker[w].gen
  BY <1>7
<1>16. x.update \subseteq worker[w].update /\ (history.late => history'.late)
  BY <1>1, <1>4, <1>10
<1> QED BY <1>1, <1>7, <1>8, <1>10, <1>11, <1>13, <1>14, <1>15, <1>16, Writes

-----------------------------------------------------------------------------
(* The lease, the publisher, the queue and the scheduler                     *)

\* The rows change in ways no refresh has to know of.
LEMMA WorkersStay ==
  ASSUME RefreshInv, UNCHANGED <<stored, worker, published, chat, history>>,
         feed' \in Feed, feed'.gen = feed.gen, feed'.owner = feed.owner, feed'.etag = feed.etag,
         feed'.failures = feed.failures, job' \in QueueJob, scheduler' \in {"idle", "enqueue"},
         wanted' \in BOOLEAN, events' \in 0 .. MaxEvents, events <= events'
  PROVE  RefreshInv'
<1>1. feed.failures \in 0 .. MaxEvents /\ events \in 0 .. MaxEvents BY Types DEF RefreshInv
<1>2. RefreshTypeOK' BY DEF RefreshInv, RefreshTypeOK
<1>3. RowsInv' BY <1>1, Numbers DEF RefreshInv, RowsInv
<1>4. WorkersInv'
  <2>1. SUFFICES ASSUME NEW v \in Workers PROVE WorkerOK(v, worker[v])' BY DEF WorkersInv
  <2>2. PICK y : y = worker[v] OBVIOUS
  <2>3. WorkerOK(v, y)' BY <2>2, OthersStay
  <2> QED BY <2>2, <2>3
<1>5. PairsInv' BY DEF RefreshInv, PairsInv, PairOK
<1>6. ValidatorsCoverUnlessLate'
  BY DEF RefreshInv, ValidatorsCoverUnlessLate, ValidatorsCoverItems
<1> QED BY <1>2, <1>3, <1>4, <1>5, <1>6 DEF RefreshInv

\* A new generation: nobody else owns the lease, and every item is older.
LEMMA ClaimKeeps ==
  ASSUME RefreshInv, NEW w \in Workers, Claim(w)
  PROVE  RefreshInv'
<1>1. /\ RefreshTypeOK /\ worker[w].at = "idle" /\ feed.gen < MaxGen
      /\ UNCHANGED <<stored, scheduler, wanted, published, chat, history, events>>
  BY DEF RefreshInv, Claim
<1>2. /\ feed \in Feed /\ feed.gen \in 0 .. MaxGen /\ worker \in [Workers -> Refresh]
      /\ worker[w] \in Refresh /\ WorkerOK(w, worker[w])
      /\ events \in 0 .. MaxEvents /\ history.by \in 0 .. MaxGen
      /\ scheduler \in {"idle", "enqueue"} /\ wanted \in BOOLEAN
      /\ \A i \in Items : stored[i].gen \in 0 .. MaxGen /\ stored[i].from \in 0 .. Versions
  BY <1>1, Types DEF RefreshInv, WorkersInv, RefreshTypeOK
<1>3. CASE UNCHANGED <<feed, worker>> /\ job' = NoJob
  <2>1. job' \in QueueJob BY <1>1, <1>3, Jobs
  <2>2. events <= events' /\ events' \in 0 .. MaxEvents BY <1>1, <1>2
  <2>3. scheduler' \in {"idle", "enqueue"} /\ wanted' \in BOOLEAN BY <1>1, <1>2
  <2> QED BY <1>1, <1>2, <1>3, <2>1, <2>2, <2>3, WorkersStay
<1>4. CASE /\ feed' = [feed EXCEPT !.gen = @ + 1, !.owner = w, !.live = TRUE]
           /\ job' = [job EXCEPT !.state = "active", !.holder = w]
           /\ GoTo(w, "claimed")
  <2>1. PICK gen \in 0 .. MaxGen : gen = feed.gen + 1 BY <1>1, <1>2, Numbers
  <2>2. feed' = [feed EXCEPT !.gen = gen, !.owner = w, !.live = TRUE] BY <1>4, <2>1
  <2>3. /\ feed' \in Feed /\ feed'.gen = gen /\ feed'.owner = w
        /\ feed'.etag = feed.etag /\ feed'.failures = feed.failures
    BY <1>2, <2>1, <2>2 DEF Feed
  <2>4. job' \in QueueJob BY <1>1, <1>4, Jobs
  <2>5. PICK x \in Refresh : /\ worker' = [worker EXCEPT ![w] = x]
                             /\ x.at = "claimed" /\ Same(x, worker[w])
    BY <1>2, <1>4, GoesTo DEF Stages
  <2>6. /\ x.gen = 0 /\ x.doc = 0 /\ x.mine = {} /\ x.failures <= events
        /\ x.update = worker[w].update
    BY <1>1, <1>2, <2>5 DEF WorkerOK, ClaimOK, FailuresOK, Same
  <2>7. \A i \in Items : stored[i].gen < gen
    BY <1>2, <2>1, Numbers DEF RefreshInv, RowsInv
  <2>8. WorkerOK(w, x)'
    <3>1. ClaimOK(w, x)' BY <1>1, <2>1, <2>3, <2>5, <2>6, <2>7, Numbers DEF ClaimOK
    <3>2. DocOK(x)' BY <1>1, <2>5, <2>6, Types DEF DocOK, Renewed
    <3>3. ItemsOK(x)' BY <2>5, <2>6 DEF ItemsOK
    <3>4. MineOK(x)' BY <1>1, <1>2, <2>6 DEF WorkerOK, MineOK
    <3>5. FailuresOK(x)' BY <1>1, <2>5, <2>6 DEF FailuresOK
    <3> QED BY <3>1, <3>2, <3>3, <3>4, <3>5 DEF WorkerOK
  <2>9. ASSUME NEW v \in Workers \ {w}, NEW y \in Refresh, y = worker[v]
        PROVE  WorkerOK(v, y)' /\ PairOK(x, y) /\ PairOK(y, x)
    <3>1. WorkerOK(v, y) /\ y.gen \in 0 .. MaxGen
      BY <2>9, RefreshFields DEF RefreshInv, WorkersInv
    <3>2. ClaimOK(v, y)' BY <1>1, <1>2, <2>1, <2>3, <3>1, Numbers DEF WorkerOK, ClaimOK
    <3>3. DocOK(y)' BY <1>1, <3>1 DEF WorkerOK, DocOK
    <3>4. ItemsOK(y)' /\ MineOK(y)' BY <1>1, <3>1 DEF WorkerOK, ItemsOK, MineOK
    <3>5. FailuresOK(y)' BY <1>1, <3>1 DEF WorkerOK, FailuresOK
    <3>6. PairOK(x, y) /\ PairOK(y, x) BY <2>5, <2>6 DEF PairOK, Renewed
    <3> QED BY <3>2, <3>3, <3>4, <3>5, <3>6 DEF WorkerOK
  <2>10. WorkersInv' /\ PairsInv' /\ worker' \in [Workers -> Refresh]
    BY <2>5, <2>8, <2>9, Becomes
  <2>11. RefreshTypeOK' BY <1>1, <2>3, <2>4, <2>10 DEF RefreshTypeOK
  <2>12. RowsInv'
    <3>1. gen # 0 /\ history.by <= gen BY <1>2, <2>1, Numbers DEF RefreshInv, RowsInv
    <3>2. \A i \in Items : stored[i].gen <= gen BY <1>2, <2>1, <2>7, Numbers
    <3> QED BY <1>1, <2>3, <3>1, <3>2 DEF RefreshInv, RowsInv
  <2>13. ValidatorsCoverUnlessLate'
    BY <1>1, <2>3 DEF RefreshInv, ValidatorsCoverUnlessLate, ValidatorsCoverItems
  <2> QED BY <2>10, <2>11, <2>12, <2>13 DEF RefreshInv
<1> QED BY <1>3, <1>4 DEF Claim

LEMMA PublishKeeps ==
  ASSUME RefreshInv, Publish
  PROVE  RefreshInv'
<1>1. /\ published \in 1 .. Versions /\ published' \in 1 .. Versions /\ published <= published'
      /\ UNCHANGED <<feed, stored, job, worker, scheduler, wanted, chat, history, events>>
      /\ \A i \in Items : stored[i].from \in 0 .. Versions
      /\ \A v \in Workers : worker[v] \in Refresh
  BY Types, Numbers DEF RefreshInv, Publish
<1>2. RefreshTypeOK' BY <1>1 DEF RefreshInv, RefreshTypeOK
<1>3. RowsInv'
  <2>1. \A i \in Items : stored[i].from <= published' BY <1>1, Numbers DEF RefreshInv, RowsInv
  <2> QED BY <1>1, <2>1 DEF RefreshInv, RowsInv
<1>4. WorkersInv'
  <2>1. SUFFICES ASSUME NEW v \in Workers PROVE WorkerOK(v, worker[v])' BY DEF WorkersInv
  <2>2. PICK y \in Refresh : y = worker[v] BY <1>1
  <2>3. WorkerOK(v, y) /\ y.doc \in 0 .. Versions
    BY <2>2, RefreshFields DEF RefreshInv, WorkersInv
  <2>4. y.doc <= published' BY <1>1, <2>3, Numbers DEF WorkerOK, DocOK
  <2>5. DocOK(y)' BY <1>1, <2>3, <2>4 DEF WorkerOK, DocOK
  <2>6. ClaimOK(v, y)' /\ ItemsOK(y)' /\ MineOK(y)' /\ FailuresOK(y)'
    BY <1>1, <2>3 DEF WorkerOK, ClaimOK, ItemsOK, MineOK, FailuresOK
  <2>7. WorkerOK(v, y)' BY <2>5, <2>6 DEF WorkerOK
  <2> QED BY <1>1, <2>2, <2>7
<1>5. PairsInv' BY <1>1 DEF RefreshInv, PairsInv, PairOK
<1>6. ValidatorsCoverUnlessLate'
  BY <1>1 DEF RefreshInv, ValidatorsCoverUnlessLate, ValidatorsCoverItems
<1> QED BY <1>2, <1>3, <1>4, <1>5, <1>6 DEF RefreshInv

\* Time, the queue, the scheduler and the users.
LEMMA SurroundingsKeep ==
  ASSUME RefreshInv,
         Stalled \/ LeaseLapses \/ BecomesDue \/ ScheduleDue \/ EnqueueDue \/ ManualRefresh \/ TogglePause
  PROVE  RefreshInv'
<1>1. RefreshTypeOK /\ feed \in Feed /\ job \in QueueJob /\ events \in 0 .. MaxEvents
      /\ scheduler \in {"idle", "enqueue"} /\ wanted \in BOOLEAN
  BY Types DEF RefreshInv, RefreshTypeOK
<1>2. UNCHANGED <<stored, worker, published, chat, history>>
  BY DEF Stalled, LeaseLapses, BecomesDue, ScheduleDue, EnqueueDue, ManualRefresh, TogglePause
<1>3. Event \/ events' = events
  BY DEF Stalled, LeaseLapses, BecomesDue, ScheduleDue, EnqueueDue, ManualRefresh, TogglePause
<1>4. events' \in 0 .. MaxEvents /\ events <= events' BY <1>1, <1>3, Events
<1>5. job' \in QueueJob
  BY <1>1, Jobs
  DEF Stalled, LeaseLapses, BecomesDue, ScheduleDue, EnqueueDue, ManualRefresh, TogglePause
<1>6. /\ feed' \in Feed /\ feed'.gen = feed.gen /\ feed'.owner = feed.owner
      /\ feed'.etag = feed.etag /\ feed'.failures = feed.failures
  <2>1. CASE feed' = feed BY <1>1, <2>1
  <2>2. CASE feed' = [feed EXCEPT !.live = FALSE] BY <1>1, <2>2 DEF Feed
  <2>3. ASSUME NEW next \in {"due", "claimed", "later"}, feed' = [feed EXCEPT !.next = next]
        PROVE  /\ feed' \in Feed /\ feed'.gen = feed.gen /\ feed'.owner = feed.owner
               /\ feed'.etag = feed.etag /\ feed'.failures = feed.failures
    BY <1>1, <2>3 DEF Feed
  <2>4. CASE feed' = [feed EXCEPT !.next = IF @ = "claimed" THEN "due" ELSE @]
    <3>1. PICK next \in {"due", "claimed", "later"} :
            next = IF feed.next = "claimed" THEN "due" ELSE feed.next
      BY <1>1 DEF Feed
    <3>2. feed' = [feed EXCEPT !.next = next] BY <2>4, <3>1
    <3> QED BY <2>3, <3>2
  <2> QED BY <2>1, <2>2, <2>3, <2>4
          DEF Stalled, LeaseLapses, BecomesDue, ScheduleDue, EnqueueDue, ManualRefresh, TogglePause
<1>7. scheduler' \in {"idle", "enqueue"} /\ wanted' \in BOOLEAN
  BY <1>1
  DEF Stalled, LeaseLapses, BecomesDue, ScheduleDue, EnqueueDue, ManualRefresh, TogglePause
<1> QED BY <1>2, <1>4, <1>5, <1>6, <1>7, WorkersStay
-----------------------------------------------------------------------------
(* The theorems                                                              *)

LEMMA InitRefresh ==
  ASSUME Init
  PROVE  RefreshInv
<1>1. /\ feed.gen = 0 /\ feed.owner = NoOwner /\ feed.etag = 0 /\ feed.failures = 0 /\ feed \in Feed
      /\ events = 0 /\ published = 1 /\ history.by = 0 /\ history.late = FALSE
      /\ 0 \in 0 .. MaxGen /\ 0 \in 0 .. MaxEvents /\ 0 \in 0 .. Versions /\ 1 \in 0 .. Versions
      /\ 1 \in 1 .. Versions
  BY Numbers DEF Init, Feed
<1>2. \A w \in Workers : worker[w] = Idle /\ worker \in [Workers -> Refresh]
  BY IdleFields DEF Init
<1>3. /\ stored \in [Items -> Article]
      /\ \A i \in Items : stored[i].gen = 0 /\ stored[i].from \in {0, 1}
  <2>1. PICK from \in {0, 1} :
          stored = [i \in Items |-> [gen |-> 0, from |-> IF i \in DOMAIN Doc[1] THEN from ELSE 0]]
    BY DEF Init
  <2> QED BY <1>1, <2>1 DEF Article
<1>4. chat \in [Items -> Nat] /\ \A i \in Items : chat[i] = 0 BY DEF Init
<1>5. job \in QueueJob
  <2>1. NoJob \in QueueJob BY Numbers DEF NoJob, QueueJob
  <2> QED BY <2>1 DEF Init
<1>6. RefreshTypeOK
  <2>1. worker \in [Workers -> Refresh] BY IdleFields DEF Init
  <2>2. history \in [by : 0 .. MaxGen, late : BOOLEAN] BY <1>1 DEF Init
  <2> QED BY <1>1, <1>3, <1>4, <1>5, <2>1, <2>2 DEF Init, RefreshTypeOK
<1>7. RowsInv BY <1>1, <1>3, <1>4 DEF RowsInv
<1>8. ASSUME NEW w \in Workers PROVE WorkerOK(w, worker[w])
  <2>1. worker[w] = Idle BY <1>2
  <2>2. ClaimOK(w, Idle) BY <1>1, IdleFields DEF ClaimOK
  <2>3. DocOK(Idle) BY <1>1, IdleFields DEF DocOK, Renewed
  <2>4. ItemsOK(Idle) /\ MineOK(Idle) BY IdleFields DEF ItemsOK, MineOK
  <2>5. FailuresOK(Idle) BY <1>1, IdleFields DEF FailuresOK
  <2> QED BY <2>1, <2>2, <2>3, <2>4, <2>5 DEF WorkerOK
<1>9. PairsInv
  <2>1. PairOK(Idle, Idle) BY IdleFields DEF PairOK, Renewed
  <2> QED BY <1>2, <2>1 DEF PairsInv
<1>10. ValidatorsCoverUnlessLate BY <1>1 DEF ValidatorsCoverUnlessLate, ValidatorsCoverItems
<1> QED BY <1>6, <1>7, <1>8, <1>9, <1>10 DEF RefreshInv, WorkersInv

LEMMA NextRefresh ==
  ASSUME RefreshInv, [Next]_vars
  PROVE  RefreshInv'
<1>1. ASSUME NEW w \in Workers,
             Claim(w) \/ Step(w) \/ StatementFails(w) \/ Throw(w) \/ Crash(w)
      PROVE  RefreshInv'
  <2>1. CASE Claim(w) \/ StatementFails(w) \/ Throw(w) \/ Crash(w)
    BY <2>1, ClaimKeeps, StatementFailsKeeps, ThrowKeeps, CrashKeeps
  <2>2. CASE ConfirmClaim(w) \/ ReadFeed(w) \/ Fetch(w) \/ Answered(w) \/ Hydrate(w)
    BY <2>2, ConfirmClaimKeeps, ReadFeedKeeps, FetchKeeps, AnsweredKeeps, HydrateKeeps
  <2>3. CASE ReadExisting(w) \/ RenewForBatch(w) \/ CreateBatch(w) \/ UpdateBatch(w)
    BY <2>3, ReadExistingKeeps, RenewForBatchKeeps, CreateBatchKeeps, UpdateBatchKeeps
  <2>4. CASE RecordSuccess(w) \/ RecordFailure(w) \/ Release(w)
    BY <2>4, RecordSuccessKeeps, RecordFailureKeeps, ReleaseKeeps
  <2> QED BY <1>1, <2>1, <2>2, <2>3, <2>4 DEF Step
<1>2. CASE Stalled \/ LeaseLapses \/ BecomesDue \/ ScheduleDue \/ EnqueueDue \/ ManualRefresh
           \/ TogglePause
  BY <1>2, SurroundingsKeep
<1>3. CASE Publish BY <1>3, PublishKeeps
<1>4. CASE UNCHANGED vars
  BY <1>4
  DEF vars, RefreshInv, RefreshTypeOK, RowsInv, WorkersInv, WorkerOK, ClaimOK, DocOK, ItemsOK, MineOK,
      FailuresOK, PairsInv, PairOK, ValidatorsCoverUnlessLate, ValidatorsCoverItems
<1> QED BY <1>1, <1>2, <1>3, <1>4 DEF Next

\* What overlapping refreshes of a feed know of each other and of its rows.
THEOREM RefreshInvariant == Spec => []RefreshInv
<1>1. Init => RefreshInv BY InitRefresh
<1>2. RefreshInv /\ [Next]_vars => RefreshInv' BY NextRefresh
<1> QED BY <1>1, <1>2, PTL DEF Spec

\* The rows, the job and the refreshes keep their types, however many workers,
\* items and documents there are.
THEOREM RefreshTypes == Spec => []RefreshTypeOK
<1>1. RefreshInv => RefreshTypeOK BY DEF RefreshInv
<1> QED BY <1>1, RefreshInvariant, PTL

\* The validators never stand for more than the articles hold, unless a
\* superseded refresh inserted an item: recordSuccessfulFeedFetch comes after
\* every batch, and its lease tells that no later refresh has begun.
THEOREM RefreshValidatorsCover == Spec => []ValidatorsCoverUnlessLate
<1>1. RefreshInv => ValidatorsCoverUnlessLate BY DEF RefreshInv
<1> QED BY <1>1, RefreshInvariant, PTL

LEMMA NewerStays ==
  ASSUME RefreshInv, Next
  PROVE  history.by <= history'.by /\ \A i \in Items : stored[i].gen <= stored'[i].gen
<1>1. /\ history.by \in 0 .. MaxGen /\ history.by <= feed.gen /\ feed.gen \in 0 .. MaxGen
      /\ history \in [by : 0 .. MaxGen, late : BOOLEAN]
      /\ \A i \in Items : stored[i].gen \in 0 .. MaxGen
  BY Types DEF RefreshInv, RefreshTypeOK, RowsInv
<1>2. ASSUME UNCHANGED <<stored, history>>
      PROVE  history.by <= history'.by /\ \A i \in Items : stored[i].gen <= stored'[i].gen
  BY <1>1, <1>2, Numbers
<1>3. ASSUME NEW w \in Workers, RecordSuccess(w) \/ RecordFailure(w)
      PROVE  history.by <= history'.by /\ UNCHANGED stored
  <2>1. UNCHANGED stored BY <1>3 DEF RecordSuccess, RecordFailure
  <2>2. history' = history \/ (LeaseHeld(w) /\ history' = [history EXCEPT !.by = worker[w].gen])
    BY <1>3 DEF RecordSuccess, RecordFailure
  <2> QED BY <1>1, <2>1, <2>2, Numbers DEF LeaseHeld
<1>4. ASSUME NEW w \in Workers, CreateBatch(w) \/ UpdateBatch(w)
      PROVE  history'.by = history.by /\ \A i \in Items : stored[i].gen <= stored'[i].gen
  <2>1. /\ worker[w].create \in SUBSET Items /\ worker[w].update \in SUBSET Items
        /\ worker[w].gen \in 0 .. MaxGen /\ WorkerOK(w, worker[w])
    BY Types, RefreshFields DEF RefreshInv, WorkersInv
  <2>2. CASE CreateBatch(w)
    <3>1. /\ worker[w].at = "insert"
          /\ \E new \in SUBSET (worker[w].create \ Present) :
               /\ stored' = Written(w, new)
               /\ history' = [history EXCEPT !.late = @ \/ (new # {} /\ feed.gen # worker[w].gen)]
      <4>1. PICK batch \in Batches(worker[w].create) :
              LET new == batch \ Present
              IN /\ stored' = Written(w, new)
                 /\ history' = [history EXCEPT !.late = @ \/ (new # {} /\ feed.gen # worker[w].gen)]
        BY <2>2 DEF CreateBatch
      <4>2. batch \ Present \in SUBSET (worker[w].create \ Present) BY DEF Batches
      <4> QED BY <2>2, <4>1, <4>2 DEF CreateBatch
    <3>2. PICK new \in SUBSET (worker[w].create \ Present) :
            /\ stored' = Written(w, new)
            /\ history' = [history EXCEPT !.late = @ \/ (new # {} /\ feed.gen # worker[w].gen)]
      BY <3>1
    <3>3. worker[w].gen # 0 BY <2>1, <3>1 DEF WorkerOK, ClaimOK
    <3>4. \A i \in new : i \in Items /\ stored[i].gen = 0
      BY <2>1 DEF Present, RefreshInv, RowsInv
    <3>5. \A i \in new : stored[i].gen < worker[w].gen BY <2>1, <3>3, <3>4, Numbers
    <3>6. \A i \in Items : stored[i].gen <= stored'[i].gen
      BY <2>1, <3>1, <3>2, <3>4, <3>5, WrittenRows
    <3>7. history'.by = history.by BY <1>1, <3>2
    <3> QED BY <3>6, <3>7
  <2>3. CASE UpdateBatch(w)
    <3>1. /\ worker[w].at = "write" /\ UNCHANGED history
          /\ \E older \in SUBSET worker[w].update :
               stored' = Written(w, older) /\ \A i \in older : stored[i].gen < worker[w].gen
      <4>1. PICK batch \in Batches(worker[w].update) :
              stored' = Written(w, {i \in batch : stored[i].gen < worker[w].gen})
        BY <2>3 DEF UpdateBatch
      <4>2. PICK older : older = {i \in batch : stored[i].gen < worker[w].gen} OBVIOUS
      <4>3. older \in SUBSET worker[w].update /\ \A i \in older : stored[i].gen < worker[w].gen
        BY <4>2 DEF Batches
      <4> QED BY <2>3, <4>1, <4>2, <4>3 DEF UpdateBatch
    <3> QED BY <2>1, <3>1, WrittenRows
  <2> QED BY <1>4, <2>2, <2>3
<1>5. \/ UNCHANGED <<stored, history>>
      \/ \E w \in Workers : RecordSuccess(w) \/ RecordFailure(w) \/ CreateBatch(w) \/ UpdateBatch(w)
  BY DEF Next, Step, Claim, ConfirmClaim, ReadFeed, Fetch, Answered, Hydrate, ReadExisting,
         RenewForBatch, Release, StatementFails, Throw, Crash, Stalled, LeaseLapses, BecomesDue,
         ScheduleDue, EnqueueDue, ManualRefresh, TogglePause, Publish
<1>6. \A i \in Items : stored[i].gen <= stored[i].gen BY <1>1, Numbers
<1> QED BY <1>1, <1>2, <1>3, <1>4, <1>5, <1>6, Numbers

\* Older refreshes never overwrite newer results: an outcome needs the lease of
\* the latest generation, an update an item of an earlier one.
THEOREM RefreshNewerResultStays == Spec => NewerResultStays
<1>1. RefreshInv /\ [Next]_vars =>
        [ /\ history.by <= history'.by
          /\ \A i \in Items : stored[i].gen <= stored'[i].gen ]_vars
  BY NewerStays
<1> QED BY <1>1, RefreshInvariant, PTL DEF Spec, NewerResultStays

LEMMA AnnouncedOnce ==
  ASSUME RefreshInv, Next
  PROVE  \A i \in Items : chat'[i] # chat[i] =>
           chat[i] = 0 /\ \E w \in Workers : i \in worker[w].mine /\ worker'[w].at = "idle"
<1>1. ASSUME NEW w \in Workers, Release(w), NEW i \in Items, chat'[i] # chat[i]
      PROVE  chat[i] = 0 /\ i \in worker[w].mine /\ worker'[w].at = "idle"
  <2>1. i \in worker[w].mine /\ worker' = [worker EXCEPT ![w] = Idle]
    BY <1>1, ReleaseEffects
  <2>2. worker \in [Workers -> Refresh] /\ MineOK(worker[w])
    BY Types DEF RefreshInv, WorkersInv, WorkerOK
  <2> QED BY <2>1, <2>2, IdleFields DEF MineOK
<1>2. UNCHANGED chat \/ \E w \in Workers : Release(w)
  BY DEF Next, Step, Claim, ConfirmClaim, ReadFeed, Fetch, Answered, Hydrate, ReadExisting,
         RenewForBatch, CreateBatch, UpdateBatch, RecordSuccess, RecordFailure, StatementFails,
         Throw, Crash, Stalled, LeaseLapses, BecomesDue, ScheduleDue, EnqueueDue, ManualRefresh,
         TogglePause, Publish
<1> QED BY <1>1, <1>2

\* However refreshes overlap, an item is given to the chat once, by the refresh
\* that inserted it: createMany skips what another refresh inserted first.
THEOREM RefreshOnlyInsertedAnnounced == Spec => OnlyInsertedAnnounced
<1>1. RefreshInv /\ [Next]_vars =>
        [ \A i \in Items : chat'[i] # chat[i] =>
            chat[i] = 0 /\ \E w \in Workers : i \in worker[w].mine /\ worker'[w].at = "idle" ]_vars
  BY AnnouncedOnce
<1> QED BY <1>1, RefreshInvariant, PTL DEF Spec, OnlyInsertedAnnounced

=============================================================================
