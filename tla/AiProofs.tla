------------------------------ MODULE AiProofs ------------------------------
(***************************************************************************)
(* Proofs about the AI allowance: first the ledger, for any caller; then    *)
(* the interactive requests and the queued digests, which implement it and  *)
(* inherit what it guarantees.                                              *)
(***************************************************************************)
EXTENDS AiSummary, AiDigest, FiniteSetTheorems, TLAPS

\* The dates of a row that is not leased are empty; this is what makes a
\* stranded reservation claimable, and it completes the inductive invariant.
DatesFollowStatus ==
  \A k \in Keys :
    /\ op[k].status = "RESERVED" =>
         op[k].owner = NoOwner /\ op[k].expires = NoTime
    /\ op[k].status # "FAILED" => op[k].retryableAt = NoTime
    /\ op[k].status = "ABSENT" => op[k].attempt = 0

\* The inductive invariant of the ledger.
LedgerInv ==
  /\ LedgerTypeOK
  /\ UnitsFollowStatus
  /\ DatesFollowStatus
  /\ LedgerBalanced
  /\ WithinLimit

\* The keys counted by a period row are finitely many.
LEMMA CountedFinite ==
  ASSUME NEW u, NEW s
  PROVE  /\ IsFiniteSet(Holding(u, s)) /\ Cardinality(Holding(u, s)) \in Nat
         /\ IsFiniteSet(Charged(u, s)) /\ Cardinality(Charged(u, s)) \in Nat
<1>1. IsFiniteSet(Holding(u, s))
  <2>1. Holding(u, s) \in SUBSET Keys BY DEF Holding
  <2>2. IsFiniteSet(Keys) BY LedgerAssumption
  <2> QED BY <2>1, <2>2, FS_Subset
<1>2. IsFiniteSet(Charged(u, s))
  <2>1. Charged(u, s) \in SUBSET Keys BY DEF Charged
  <2>2. IsFiniteSet(Keys) BY LedgerAssumption
  <2> QED BY <2>1, <2>2, FS_Subset
<1> QED BY <1>1, <1>2, FS_CardinalityType

\* A date within the run belongs to a month that the model has a row for.
LEMMA PeriodStartType ==
  ASSUME NEW now \in Times
  PROVE  getAiUsagePeriodStart(now) \in Times
BY LedgerAssumption DEF getAiUsagePeriodStart

\* Taking a unit for an operation that holds none keeps every period row
\* equal to what its operations hold, and within its limit.
LEMMA TakeUnitKeepsLedger ==
  ASSUME LedgerInv,
         NEW k \in Keys, NEW now \in Times, NEW fresh \in AiOperationRecord,
         op[k].units = 0, op[k].consumed = 0,
         fresh.units = 0, fresh.consumed = 0,
         TakeUnit(k, fresh, now)
  PROVE  /\ period' \in [Users -> [Times -> AiUsagePeriod]]
         /\ LedgerBalanced'
         /\ WithinLimit'
<1> DEFINE v == UserOf[k]
           d == getAiUsagePeriodStart(now)
<1>t. /\ v \in Users /\ d \in Times
      /\ op \in [Keys -> AiOperationRecord]
      /\ period \in [Users -> [Times -> AiUsagePeriod]]
  BY LedgerAssumption, PeriodStartType DEF LedgerInv, LedgerTypeOK
<1> HIDE DEF d
<1>1. CASE HasCapacity(v, d)
  <2>1. op' = [op EXCEPT ![k] = [fresh EXCEPT !.status = "RESERVED", !.period = d, !.units = 1]]
    BY <1>1 DEF TakeUnit, d
  <2>2. period' = [period EXCEPT ![v][d] = WithOneMoreReserved(v, d)]
    BY <1>1 DEF TakeUnit, d
  <2>3. /\ WithOneMoreReserved(v, d) \in AiUsagePeriod
        /\ WithOneMoreReserved(v, d).reserved = period[v][d].reserved + 1
        /\ WithOneMoreReserved(v, d).consumed = period[v][d].consumed
        /\ WithOneMoreReserved(v, d).reserved + WithOneMoreReserved(v, d).consumed
             <= WithOneMoreReserved(v, d).limit
    <3>1. period[v][d] \in AiUsagePeriod BY <1>t
    <3>2. period[v][d].reserved + period[v][d].consumed <= period[v][d].limit
      BY <1>t DEF LedgerInv, WithinLimit
    <3>3. Limit[v] \in Int BY <1>t, LedgerAssumption
    <3> QED BY <1>1, <3>1, <3>2, <3>3
            DEF WithOneMoreReserved, HasCapacity, AiUsagePeriod, AtLeastZero
  <2>4. op'[k] = [fresh EXCEPT !.status = "RESERVED", !.period = d, !.units = 1]
    BY <2>1, <1>t
  <2>5. op'[k].units = 1 /\ op'[k].period = d /\ op'[k].consumed = 0
    BY <2>4 DEF AiOperationRecord
  <2>6. \A j \in Keys \ {k} : op'[j] = op[j]
    BY <2>1, <1>t
  <2>7. ASSUME NEW u \in Users, NEW s \in Times
        PROVE  /\ period'[u][s].reserved = Cardinality(Holding(u, s)')
               /\ period'[u][s].consumed = Cardinality(Charged(u, s)')
               /\ period'[u][s].reserved + period'[u][s].consumed <= period'[u][s].limit
    <3>1. Charged(u, s)' = Charged(u, s)
      BY <2>5, <2>6 DEF Charged
    <3>2. /\ period[u][s].reserved = Cardinality(Holding(u, s))
          /\ period[u][s].consumed = Cardinality(Charged(u, s))
          /\ period[u][s].reserved + period[u][s].consumed <= period[u][s].limit
      BY DEF LedgerInv, LedgerBalanced, WithinLimit
    <3>3. CASE u = v /\ s = d
      <4>1. Holding(u, s)' = Holding(u, s) \cup {k}
        BY <3>3, <2>5, <2>6 DEF Holding
      <4>2. k \notin Holding(u, s) BY DEF Holding
      <4>3. Cardinality(Holding(u, s)') = Cardinality(Holding(u, s)) + 1
        BY <4>1, <4>2, CountedFinite, FS_AddElement
      <4>4. period'[u][s] = WithOneMoreReserved(v, d)
        BY <3>3, <2>2, <1>t
      <4> QED BY <4>3, <4>4, <3>1, <3>2, <3>3, <2>3
    <3>4. CASE ~(u = v /\ s = d)
      <4>1. Holding(u, s)' = Holding(u, s)
        BY <3>4, <2>5, <2>6 DEF Holding
      <4>2. period'[u][s] = period[u][s]
        BY <3>4, <2>2, <1>t
      <4> QED BY <4>1, <4>2, <3>1, <3>2
    <3> QED BY <3>3, <3>4
  <2>8. period' \in [Users -> [Times -> AiUsagePeriod]]
    BY <2>2, <2>3, <1>t
  <2> QED BY <2>7, <2>8 DEF LedgerBalanced, WithinLimit
<1>2. CASE ~HasCapacity(v, d)
  <2>1. op' = [op EXCEPT ![k] = [fresh EXCEPT !.status = "FAILED", !.units = 0]]
    BY <1>2 DEF TakeUnit, d
  <2>2. period' = period
    BY <1>2 DEF TakeUnit, d
  <2>3. op'[k].units = 0 /\ op'[k].consumed = 0
    BY <2>1, <1>t DEF AiOperationRecord
  <2>4. \A j \in Keys \ {k} : op'[j] = op[j]
    BY <2>1, <1>t
  <2>5. ASSUME NEW u \in Users, NEW s \in Times
        PROVE  Holding(u, s)' = Holding(u, s) /\ Charged(u, s)' = Charged(u, s)
    BY <2>3, <2>4 DEF Holding, Charged
  <2> QED BY <2>2, <2>5, <1>t DEF LedgerInv, LedgerBalanced, WithinLimit
<1> QED BY <1>1, <1>2

\* Releasing a set of unfinished operations gives back exactly the units
\* they hold; GREATEST(0, ...) never hides a lost unit.
LEMMA ReleaseKeepsLedger ==
  ASSUME LedgerInv,
         NEW S \in SUBSET Keys, \A k \in S : Unfinished(k),
         \A k \in Keys \ S : op'[k] = op[k],
         \A k \in S : op'[k].units = 0 /\ op'[k].consumed = 0,
         ReleaseUnits(S)
  PROVE  /\ period' \in [Users -> [Times -> AiUsagePeriod]]
         /\ LedgerBalanced'
         /\ WithinLimit'
<1>t. /\ op \in [Keys -> AiOperationRecord]
      /\ period \in [Users -> [Times -> AiUsagePeriod]]
  BY DEF LedgerInv, LedgerTypeOK
<1>1. ASSUME NEW u \in Users, NEW s \in Times
      PROVE  /\ period'[u][s] \in AiUsagePeriod
             /\ period'[u][s].reserved = Cardinality(Holding(u, s)')
             /\ period'[u][s].consumed = Cardinality(Charged(u, s)')
             /\ period'[u][s].reserved + period'[u][s].consumed <= period'[u][s].limit
  <2>1. /\ period[u][s] \in AiUsagePeriod
        /\ period[u][s].reserved = Cardinality(Holding(u, s))
        /\ period[u][s].consumed = Cardinality(Charged(u, s))
        /\ period[u][s].reserved + period[u][s].consumed <= period[u][s].limit
    BY <1>t DEF LedgerInv, LedgerBalanced, WithinLimit
  <2>2. period'[u][s] = [period[u][s] EXCEPT !.reserved = AtLeastZero(@ - UnitsOf(S, u, s))]
    BY DEF ReleaseUnits
  <2>3. UnitsOf(S, u, s) = Cardinality(Holding(u, s) \cap S)
    <3>1. {k \in S : UserOf[k] = u /\ op[k].period = s /\ op[k].units = 1}
            = Holding(u, s) \cap S
      BY DEF Holding
    <3> QED BY <3>1 DEF UnitsOf
  <2>4. Holding(u, s)' = Holding(u, s) \ S
    BY DEF Holding
  <2>5. Charged(u, s)' = Charged(u, s)
    <3>1. \A k \in S : op[k].consumed # 1
      BY DEF LedgerInv, UnitsFollowStatus, Unfinished
    <3> QED BY <3>1 DEF Charged
  <2>6. /\ Cardinality(Holding(u, s)') = Cardinality(Holding(u, s)) - UnitsOf(S, u, s)
        /\ Cardinality(Holding(u, s)') \in Nat
        /\ UnitsOf(S, u, s) \in Nat
    <3>1. IsFiniteSet(Holding(u, s)) BY CountedFinite
    <3>2. IsFiniteSet(Holding(u, s) \cap S) BY <3>1, FS_Subset
    <3>3. IsFiniteSet(Holding(u, s) \ S) BY <3>1, FS_Difference
    <3> QED BY <3>1, <3>2, <3>3, <2>3, <2>4, FS_Difference, FS_CardinalityType
  <2> QED BY <2>1, <2>2, <2>5, <2>6 DEF AiUsagePeriod, AtLeastZero
<1>2. period' \in [Users -> [Times -> AiUsagePeriod]]
  BY <1>1 DEF ReleaseUnits
<1> QED BY <1>1, <1>2 DEF LedgerBalanced, WithinLimit

\* A step that leaves the periods alone and changes one unfinished row
\* without touching its unit keeps the ledger.
LEMMA LeaseOnlyKeepsLedger ==
  ASSUME LedgerInv, NEW k \in Keys,
         \A j \in Keys \ {k} : op'[j] = op[j],
         op'[k].units = op[k].units, op'[k].consumed = op[k].consumed,
         op'[k].period = op[k].period,
         period' = period
  PROVE  /\ period' \in [Users -> [Times -> AiUsagePeriod]]
         /\ LedgerBalanced'
         /\ WithinLimit'
<1>1. ASSUME NEW u \in Users, NEW s \in Times
      PROVE  Holding(u, s)' = Holding(u, s) /\ Charged(u, s)' = Charged(u, s)
  BY DEF Holding, Charged
<1> QED BY <1>1 DEF LedgerInv, LedgerTypeOK, LedgerBalanced, WithinLimit

\* A completion moves one unit from reserved to consumed.
LEMMA CompleteKeepsLedger ==
  ASSUME LedgerInv, NEW k \in Keys, NEW lease, NEW now, Complete(k, lease, now)
  PROVE  /\ period' \in [Users -> [Times -> AiUsagePeriod]]
         /\ LedgerBalanced'
         /\ WithinLimit'
<1> DEFINE v == UserOf[k]
           d == op[k].period
<1>t. /\ v \in Users /\ d \in Times
      /\ op \in [Keys -> AiOperationRecord]
      /\ period \in [Users -> [Times -> AiUsagePeriod]]
  BY LedgerAssumption
  DEF LedgerInv, LedgerTypeOK, Complete, CanComplete, AiOperationRecord
<1>1. op[k].units = 1 /\ op[k].consumed = 0
  BY <1>t DEF LedgerInv, UnitsFollowStatus, Complete, CanComplete, Owns, Unfinished,
              AiOperationRecord
<1>2. /\ op'[k].units = 0 /\ op'[k].consumed = 1 /\ op'[k].period = d
      /\ \A j \in Keys \ {k} : op'[j] = op[j]
  BY <1>t DEF Complete, AiOperationRecord
<1> DEFINE moved == [limit    |-> period[v][d].limit,
                     reserved |-> period[v][d].reserved - 1,
                     consumed |-> period[v][d].consumed + 1]
<1>p. period[v][d] \in AiUsagePeriod BY <1>t
<1>3. period' = [period EXCEPT ![v][d] = moved]
  BY <1>1, <1>t DEF Complete, WithUnitsConsumed
<1>4. period[v][d].reserved >= 1
  BY <1>1 DEF Complete, CanComplete
<1> HIDE DEF v, d
<1>5. ASSUME NEW u \in Users, NEW s \in Times
      PROVE  /\ period'[u][s] \in AiUsagePeriod
             /\ period'[u][s].reserved = Cardinality(Holding(u, s)')
             /\ period'[u][s].consumed = Cardinality(Charged(u, s)')
             /\ period'[u][s].reserved + period'[u][s].consumed <= period'[u][s].limit
  <2>1. /\ period[u][s] \in AiUsagePeriod
        /\ period[u][s].reserved = Cardinality(Holding(u, s))
        /\ period[u][s].consumed = Cardinality(Charged(u, s))
        /\ period[u][s].reserved + period[u][s].consumed <= period[u][s].limit
    BY <1>t DEF LedgerInv, LedgerBalanced, WithinLimit
  <2>2. CASE u = v /\ s = d
    <3>1. Holding(u, s)' = Holding(u, s) \ {k} /\ k \in Holding(u, s)
      BY <2>2, <1>1, <1>2 DEF Holding, v, d
    <3>2. Charged(u, s)' = Charged(u, s) \cup {k} /\ k \notin Charged(u, s)
      BY <2>2, <1>1, <1>2 DEF Charged, v, d
    <3>a. IsFiniteSet(Holding(u, s)) /\ IsFiniteSet(Charged(u, s))
      BY CountedFinite
    <3>b. Cardinality(Holding(u, s)') = Cardinality(Holding(u, s)) - 1
      BY <3>1, <3>a, FS_RemoveElement
    <3>c. Cardinality(Charged(u, s)') = Cardinality(Charged(u, s)) + 1
      BY <3>2, <3>a, FS_AddElement
    <3>4. period'[u][s] = moved
      BY <2>2, <1>3, <1>t
    <3>5. /\ period'[u][s].reserved = period[u][s].reserved - 1
          /\ period'[u][s].consumed = period[u][s].consumed + 1
          /\ period'[u][s].limit = period[u][s].limit
      BY <3>4, <2>2
    <3>6. /\ period[u][s].reserved \in Nat /\ period[u][s].consumed \in Nat
          /\ period[u][s].limit \in Nat /\ period[u][s].reserved >= 1
      BY <2>1, <2>2, <1>4 DEF AiUsagePeriod
    <3>7. period'[u][s] \in AiUsagePeriod
      BY <3>4, <3>6, <2>2 DEF AiUsagePeriod
    <3> QED BY <3>b, <3>c, <3>5, <3>6, <3>7, <2>1
  <2>3. CASE ~(u = v /\ s = d)
    <3>1. Holding(u, s)' = Holding(u, s)
      BY <2>3, <1>1, <1>2 DEF Holding, v, d
    <3>2. Charged(u, s)' = Charged(u, s)
      BY <2>3, <1>1, <1>2 DEF Charged, v, d
    <3>3. period'[u][s] = period[u][s]
      BY <2>3, <1>3, <1>t
    <3> QED BY <3>1, <3>2, <3>3, <2>1
  <2> QED BY <2>2, <2>3
<1>6. period' \in [Users -> [Times -> AiUsagePeriod]]
  <2>1. \A u \in Users : \A s \in Times : period'[u][s] \in AiUsagePeriod BY <1>5
  <2>2. /\ DOMAIN period' = Users
        /\ \A u \in Users : period'[u] = [s \in Times |-> period'[u][s]]
    BY <1>3, <1>t
  <2>3. period' = [u \in Users |-> period'[u]] BY <1>3, <1>t
  <2> QED BY <2>1, <2>2, <2>3
<1> QED BY <1>5, <1>6 DEF LedgerBalanced, WithinLimit

\* Every row an action writes is a well-typed row whose units, dates and
\* status agree; the other rows are left alone.
RowOK(row) ==
  /\ row \in AiOperationRecord
  /\ row.units = 1 <=> row.status \in {"RESERVED", "PROCESSING"}
  /\ row.consumed = 1 <=> row.status = "COMPLETED"
  /\ row.status \in {"RESERVED", "PROCESSING", "COMPLETED"} => row.period # NoTime
  /\ row.status = "RESERVED" => row.owner = NoOwner /\ row.expires = NoTime
  /\ row.status # "FAILED" => row.retryableAt = NoTime
  /\ row.status = "ABSENT" => row.attempt = 0

\* A row written out field by field.
Row(st, att, own, exp, ret, per, un, con) ==
  [status |-> st, attempt |-> att, owner |-> own, expires |-> exp,
   retryableAt |-> ret, period |-> per, units |-> un, consumed |-> con]

\* A well-typed row is the record of its own fields.
LEMMA RowShape ==
  ASSUME NEW r \in AiOperationRecord
  PROVE  /\ r = Row(r.status, r.attempt, r.owner, r.expires, r.retryableAt,
                    r.period, r.units, r.consumed)
         /\ r.attempt \in Nat /\ r.expires \in Int
         /\ r.period \in Times \cup {NoTime}
         /\ r.units \in {0, 1} /\ r.consumed \in {0, 1}
BY DEF AiOperationRecord, Row

\* The row part of the invariant is the same predicate on every row.
LEMMA RowsOK ==
  (op \in [Keys -> AiOperationRecord] /\ UnitsFollowStatus /\ DatesFollowStatus)
    <=> (op = [k \in Keys |-> op[k]] /\ \A k \in Keys : RowOK(op[k]))
<1>1. ASSUME op = [k \in Keys |-> op[k]], \A k \in Keys : RowOK(op[k])
      PROVE  op \in [Keys -> AiOperationRecord] /\ UnitsFollowStatus /\ DatesFollowStatus
  <2>1. op \in [Keys -> AiOperationRecord]
    BY <1>1 DEF RowOK
  <2>2. UnitsFollowStatus
    BY <1>1 DEF RowOK, UnitsFollowStatus, Unfinished
  <2>3. DatesFollowStatus
    BY <1>1 DEF RowOK, DatesFollowStatus
  <2> QED BY <2>1, <2>2, <2>3
<1>2. ASSUME op \in [Keys -> AiOperationRecord], UnitsFollowStatus, DatesFollowStatus
      PROVE  op = [k \in Keys |-> op[k]] /\ \A k \in Keys : RowOK(op[k])
  BY <1>2 DEF RowOK, UnitsFollowStatus, DatesFollowStatus, Unfinished
<1> QED BY <1>1, <1>2

\* The same fact about the rows after a step.
LEMMA RowsOKNext ==
  ASSUME op' = [k \in Keys |-> op'[k]], \A k \in Keys : RowOK(op'[k])
  PROVE  op' \in [Keys -> AiOperationRecord] /\ UnitsFollowStatus' /\ DatesFollowStatus'
<1>1. op' \in [Keys -> AiOperationRecord]
  BY DEF RowOK
<1>2. UnitsFollowStatus'
  BY DEF RowOK, UnitsFollowStatus, Unfinished
<1>3. DatesFollowStatus'
  BY DEF RowOK, DatesFollowStatus
<1> QED BY <1>1, <1>2, <1>3

\* One row changed to a good row: the row part of the invariant is kept.
LEMMA OneRowOK ==
  ASSUME LedgerInv, NEW k \in Keys, NEW row, RowOK(row),
         op' = [op EXCEPT ![k] = row]
  PROVE  op' \in [Keys -> AiOperationRecord] /\ UnitsFollowStatus' /\ DatesFollowStatus'
<1>1. op = [j \in Keys |-> op[j]] /\ \A j \in Keys : RowOK(op[j])
  BY RowsOK DEF LedgerInv, LedgerTypeOK
<1>2. op' = [j \in Keys |-> op'[j]] /\ \A j \in Keys : RowOK(op'[j])
  BY <1>1
<1> QED BY <1>2, RowsOKNext

\* The two rows that a reservation can write for a row without a unit.
LEMMA TakeUnitRow ==
  ASSUME NEW r \in AiOperationRecord, r.consumed = 0,
         r.owner = NoOwner, r.expires = NoTime, r.retryableAt = NoTime, NEW d \in Times
  PROVE  /\ RowOK([r EXCEPT !.status = "RESERVED", !.period = d, !.units = 1])
         /\ RowOK([r EXCEPT !.status = "FAILED", !.units = 0])
<1>1. ASSUME NEW q, q = [r EXCEPT !.status = "RESERVED", !.period = d, !.units = 1]
      PROVE  RowOK(q)
  <2>1. q = Row("RESERVED", r.attempt, NoOwner, NoTime, NoTime, d, 1, 0)
    BY <1>1 DEF Row, AiOperationRecord
  <2>2. d # NoTime BY LedgerAssumption DEF Times, NoTime
  <2> QED BY <2>1, <2>2, RowShape DEF RowOK, Row, AiOperationRecord, Statuses, NoTime
<1>2. ASSUME NEW q, q = [r EXCEPT !.status = "FAILED", !.units = 0]
      PROVE  RowOK(q)
  <2>1. q = Row("FAILED", r.attempt, NoOwner, NoTime, NoTime, r.period, 0, 0)
    BY <1>2 DEF Row, AiOperationRecord
  <2> QED BY <2>1, RowShape DEF RowOK, Row, AiOperationRecord, Statuses, NoTime
<1> QED BY <1>1, <1>2

\* A reservation writes the lease columns of the row it was given.
LEMMA TakeUnitKeepsLease ==
  ASSUME op \in [Keys -> AiOperationRecord], NEW k \in Keys, NEW now,
         NEW r \in AiOperationRecord, TakeUnit(k, r, now)
  PROVE  op'[k].owner = r.owner /\ op'[k].attempt = r.attempt
<1>1. CASE HasCapacity(UserOf[k], getAiUsagePeriodStart(now))
  BY <1>1 DEF TakeUnit, AiOperationRecord
<1>2. CASE ~HasCapacity(UserOf[k], getAiUsagePeriodStart(now))
  BY <1>2 DEF TakeUnit, AiOperationRecord
<1> QED BY <1>1, <1>2

\* What a release leaves of an unfinished row is a good FAILED row.
LEMMA ReleasedRow ==
  ASSUME NEW r \in AiOperationRecord, NEW t \in Times \cup {NoTime}
  PROVE  /\ Released(r, t) = Row("FAILED", r.attempt, NoOwner, NoTime, t, r.period, 0, r.consumed)
         /\ r.consumed = 0 => RowOK(Released(r, t))
<1>1. Released(r, t) = Row("FAILED", r.attempt, NoOwner, NoTime, t, r.period, 0, r.consumed)
  <2>1. ASSUME NEW q, q = Released(r, t)
        PROVE  q = Row("FAILED", r.attempt, NoOwner, NoTime, t, r.period, 0, r.consumed)
    BY <2>1 DEF Released, Row, AiOperationRecord
  <2> QED BY <2>1
<1>2. ASSUME r.consumed = 0
      PROVE  RowOK(Row("FAILED", r.attempt, NoOwner, NoTime, t, r.period, 0, 0))
  BY RowShape DEF RowOK, Row, AiOperationRecord, Statuses, NoTime
<1> QED BY <1>1, <1>2

\* Every step of the ledger keeps the invariant.
LEMMA LedgerInvNext == LedgerInv /\ [LedgerNext]_ledgerVars => LedgerInv'
<1> SUFFICES ASSUME LedgerInv, [LedgerNext]_ledgerVars PROVE LedgerInv'
  OBVIOUS
<1>t. /\ clock \in Times /\ Times \subseteq Nat /\ NoTime \notin Times
      /\ op \in [Keys -> AiOperationRecord]
      /\ \A k \in Keys : RowOK(op[k])
  <2>1. Times \subseteq Nat /\ NoTime \notin Times
    BY LedgerAssumption DEF Times, NoTime
  <2> QED BY <2>1, RowsOK DEF LedgerInv, LedgerTypeOK
<1>n. \A now \in 0 .. clock : now \in Times
  BY <1>t, LedgerAssumption DEF Times
<1>1. CASE Tick
  <2>1. op' = op /\ period' = period BY <1>1 DEF Tick
  <2>2. clock' \in Times BY <1>1, <1>t, LedgerAssumption DEF Tick, Times
  <2>3. /\ UnitsFollowStatus' /\ DatesFollowStatus' /\ LedgerBalanced' /\ WithinLimit'
    BY <2>1 DEF LedgerInv, UnitsFollowStatus, Unfinished, DatesFollowStatus,
                LedgerBalanced, WithinLimit, Holding, Charged
  <2> QED BY <2>1, <2>2, <2>3 DEF LedgerInv, LedgerTypeOK
<1>2. ASSUME NEW k \in Keys, NEW now \in 0 .. clock, ReserveNew(k, now)
      PROVE  LedgerInv'
  <2>1. now \in Times BY <1>n
  <2>2. RowOK(op[k]) /\ op[k].units = 0 /\ op[k].consumed = 0
    BY <1>2, <1>t DEF ReserveNew, RowOK, AiOperationRecord
  <2>3. NoOperation \in AiOperationRecord /\ NoOperation.units = 0 /\ NoOperation.consumed = 0
    BY DEF NoOperation, AiOperationRecord, Statuses, NoTime
  <2>4. TakeUnit(k, NoOperation, now) /\ clock' = clock BY <1>2 DEF ReserveNew
  <2>5. getAiUsagePeriodStart(now) \in Times BY <2>1, PeriodStartType
  <2>6. PICK row : RowOK(row) /\ op' = [op EXCEPT ![k] = row]
    <3>1. /\ NoOperation.owner = NoOwner /\ NoOperation.expires = NoTime
          /\ NoOperation.retryableAt = NoTime
      BY DEF NoOperation
    <3> QED BY <3>1, <2>3, <2>4, <2>5, TakeUnitRow DEF TakeUnit
  <2>7. op' \in [Keys -> AiOperationRecord] /\ UnitsFollowStatus' /\ DatesFollowStatus'
    BY <2>6, OneRowOK
  <2>8. period' \in [Users -> [Times -> AiUsagePeriod]] /\ LedgerBalanced' /\ WithinLimit'
    BY <2>1, <2>2, <2>3, <2>4, TakeUnitKeepsLedger
  <2> QED BY <2>4, <2>7, <2>8, <1>t DEF LedgerInv, LedgerTypeOK
<1>3. ASSUME NEW k \in Keys, NEW now \in 0 .. clock, RetryReservation(k, now)
      PROVE  LedgerInv'
  <2> DEFINE fresh == [op[k] EXCEPT !.expires = NoTime, !.owner = NoOwner,
                                    !.period = NoTime, !.retryableAt = NoTime]
  <2>1. now \in Times BY <1>n
  <2>2. RowOK(op[k]) /\ op[k].units = 0 /\ op[k].consumed = 0
    BY <1>3, <1>t DEF RetryReservation, Retryable, RowOK, AiOperationRecord
  <2>3. /\ fresh \in AiOperationRecord /\ fresh.units = 0 /\ fresh.consumed = 0
        /\ fresh.owner = NoOwner /\ fresh.expires = NoTime /\ fresh.retryableAt = NoTime
    <3>1. fresh = Row(op[k].status, op[k].attempt, NoOwner, NoTime, NoTime, NoTime, 0, 0)
      <4>1. ASSUME NEW q, q = fresh
            PROVE  q = Row(op[k].status, op[k].attempt, NoOwner, NoTime, NoTime, NoTime, 0, 0)
        BY <4>1, <2>2 DEF Row, RowOK, AiOperationRecord
      <4> QED BY <4>1
    <3>2. op[k].status \in Statuses /\ op[k].attempt \in Nat
      BY <1>t DEF AiOperationRecord
    <3> HIDE DEF fresh
    <3> QED BY <3>1, <3>2 DEF Row, AiOperationRecord, NoTime
  <2>4. TakeUnit(k, fresh, now) /\ clock' = clock BY <1>3 DEF RetryReservation
  <2>5. getAiUsagePeriodStart(now) \in Times BY <2>1, PeriodStartType
  <2> HIDE DEF fresh
  <2>6. PICK row : RowOK(row) /\ op' = [op EXCEPT ![k] = row]
    BY <2>3, <2>4, <2>5, TakeUnitRow DEF TakeUnit
  <2>7. op' \in [Keys -> AiOperationRecord] /\ UnitsFollowStatus' /\ DatesFollowStatus'
    BY <2>6, OneRowOK
  <2>8. period' \in [Users -> [Times -> AiUsagePeriod]] /\ LedgerBalanced' /\ WithinLimit'
    BY <2>1, <2>2, <2>3, <2>4, TakeUnitKeepsLedger
  <2> QED BY <2>4, <2>7, <2>8, <1>t DEF LedgerInv, LedgerTypeOK
<1>4. ASSUME NEW k \in Keys, NEW w \in Owners, NEW now \in 0 .. clock, Claim(k, w, now)
      PROVE  LedgerInv'
  <2> DEFINE row == Row("PROCESSING", op[k].attempt + 1, w, now + Lease, NoTime,
                        op[k].period, op[k].units, op[k].consumed)
  <2>2. RowOK(op[k]) /\ op[k].status \in {"RESERVED", "PROCESSING"}
    BY <1>4, <1>t DEF Claim, LeaseClaimable
  <2>1. op' = [op EXCEPT ![k] = row] /\ clock' = clock /\ period' = period
    <3>1. op'[k] = row
      <4>1. op'[k] = [op[k] EXCEPT !.attempt = op[k].attempt + 1, !.owner = w,
               !.expires = now + Lease, !.retryableAt = NoTime, !.status = "PROCESSING"]
        BY <1>4, <1>t DEF Claim
      <4>2. op[k] \in AiOperationRecord /\ now + Lease \in Int
        BY <1>t, LedgerAssumption
      <4> QED BY <4>1, <4>2 DEF Row, AiOperationRecord
    <3>2. op' = [op EXCEPT ![k] = op'[k]]
      BY <1>4, <1>t DEF Claim
    <3> QED BY <3>1, <3>2, <1>4 DEF Claim
  <2>3. now + Lease \in Int BY <1>t, LedgerAssumption
  <2>4. RowOK(row)
    BY <2>2, <2>3, <1>t, RowShape DEF RowOK, Row, AiOperationRecord, Statuses
  <2>5. op' \in [Keys -> AiOperationRecord] /\ UnitsFollowStatus' /\ DatesFollowStatus'
    BY <2>1, <2>4, OneRowOK
  <2>6. /\ op'[k].units = op[k].units /\ op'[k].consumed = op[k].consumed
        /\ op'[k].period = op[k].period
        /\ \A j \in Keys \ {k} : op'[j] = op[j]
    BY <2>1, <1>t DEF Row
  <2>7. period' \in [Users -> [Times -> AiUsagePeriod]] /\ LedgerBalanced' /\ WithinLimit'
    BY <2>1, <2>6, LeaseOnlyKeepsLedger
  <2> QED BY <2>1, <2>5, <2>7, <1>t DEF LedgerInv, LedgerTypeOK
<1>5. ASSUME NEW k \in Keys, NEW now \in 0 .. clock, Renew(k, CurrentLease(k), now)
      PROVE  LedgerInv'
  <2> DEFINE row == [op[k] EXCEPT !.expires = now + Lease]
  <2>1. op' = [op EXCEPT ![k] = row] /\ clock' = clock /\ period' = period
    BY <1>5, <1>t DEF Renew
  <2>2. RowOK(op[k]) /\ op[k].status = "PROCESSING"
    BY <1>5, <1>t DEF Renew, Owns
  <2>3. now + Lease \in Int BY <1>t, LedgerAssumption
  <2>4. RowOK(row) BY <2>2, <2>3 DEF RowOK, AiOperationRecord
  <2>5. op' \in [Keys -> AiOperationRecord] /\ UnitsFollowStatus' /\ DatesFollowStatus'
    BY <2>1, <2>4, OneRowOK
  <2>6. /\ op'[k].units = op[k].units /\ op'[k].consumed = op[k].consumed
        /\ op'[k].period = op[k].period
        /\ \A j \in Keys \ {k} : op'[j] = op[j]
    BY <2>1, <2>2, <1>t DEF RowOK, AiOperationRecord
  <2>7. period' \in [Users -> [Times -> AiUsagePeriod]] /\ LedgerBalanced' /\ WithinLimit'
    BY <2>1, <2>6, LeaseOnlyKeepsLedger
  <2> QED BY <2>1, <2>5, <2>7, <1>t DEF LedgerInv, LedgerTypeOK
<1>6. ASSUME NEW k \in Keys, NEW now \in 0 .. clock, Complete(k, CurrentLease(k), now)
      PROVE  LedgerInv'
  <2> DEFINE row == Row("COMPLETED", op[k].attempt, NoOwner, NoTime, NoTime,
                        op[k].period, 0, 1)
  <2>1. op' = [op EXCEPT ![k] = row] /\ clock' = clock
    <3>1. op'[k] = row
      BY <1>6, <1>t DEF Complete, Row, AiOperationRecord
    <3>2. op' = [op EXCEPT ![k] = op'[k]]
      BY <1>6, <1>t DEF Complete
    <3> QED BY <3>1, <3>2, <1>6 DEF Complete
  <2>2. RowOK(op[k]) /\ op[k].period # NoTime
    BY <1>6, <1>t DEF Complete, CanComplete
  <2>3. RowOK(row)
    BY <2>2, <1>t, RowShape DEF RowOK, Row, AiOperationRecord, Statuses, NoTime
  <2>4. op' \in [Keys -> AiOperationRecord] /\ UnitsFollowStatus' /\ DatesFollowStatus'
    BY <2>1, <2>3, OneRowOK
  <2>5. period' \in [Users -> [Times -> AiUsagePeriod]] /\ LedgerBalanced' /\ WithinLimit'
    BY <1>6, CompleteKeepsLedger
  <2> QED BY <2>1, <2>4, <2>5, <1>t DEF LedgerInv, LedgerTypeOK
<1>7. ASSUME NEW k \in Keys, Fail(k)
      PROVE  LedgerInv'
  <2>1. /\ op' = [op EXCEPT ![k] = Released(op[k], NoTime)]
        /\ clock' = clock /\ Unfinished(k) /\ ReleaseUnits({k})
    BY <1>7 DEF Fail
  <2>2. RowOK(op[k]) /\ op[k].consumed = 0
    BY <2>1, <1>t DEF RowOK, Unfinished, AiOperationRecord
  <2>3. RowOK(Released(op[k], NoTime))
    BY <2>2, <1>t, ReleasedRow
  <2>4. op' \in [Keys -> AiOperationRecord] /\ UnitsFollowStatus' /\ DatesFollowStatus'
    BY <2>1, <2>3, OneRowOK
  <2>5. /\ op'[k].units = 0 /\ op'[k].consumed = 0
        /\ \A j \in Keys \ {k} : op'[j] = op[j]
    BY <2>1, <2>2, <1>t, ReleasedRow DEF Row
  <2>6. period' \in [Users -> [Times -> AiUsagePeriod]] /\ LedgerBalanced' /\ WithinLimit'
    BY <2>1, <2>5, ReleaseKeepsLedger
  <2> QED BY <2>1, <2>4, <2>6, <1>t DEF LedgerInv, LedgerTypeOK
<1>8. ASSUME NEW now \in 0 .. clock, NEW S \in SUBSET Keys, Reconcile(S, now)
      PROVE  LedgerInv'
  <2>1. now \in Times BY <1>n
  <2>2. /\ \A k \in S : Unfinished(k)
        /\ ReleaseUnits(S) /\ clock' = clock
    BY <1>8 DEF Reconcile, ReconciliationBatch, ExpiredOperations
  <2>3. /\ op' = [k \in Keys |-> op'[k]]
        /\ \A k \in Keys \ S : op'[k] = op[k]
        /\ \A k \in S : op'[k] = [Released(op[k], now) EXCEPT !.attempt = @ + 1]
    BY <1>8 DEF Reconcile
  <2>4. ASSUME NEW k \in S
        PROVE  RowOK(op'[k]) /\ op'[k].units = 0 /\ op'[k].consumed = 0
    <3>1. RowOK(op[k]) /\ op[k].consumed = 0
      BY <2>2, <1>t DEF RowOK, Unfinished, AiOperationRecord
    <3>2. op'[k] = [Released(op[k], now) EXCEPT !.attempt = @ + 1] BY <2>3
    <3>3. Released(op[k], now) \in AiOperationRecord
      BY <3>1, <2>1, <1>t, ReleasedRow DEF RowOK
    <3>4. op'[k] = Row("FAILED", op[k].attempt + 1, NoOwner, NoTime, now, op[k].period, 0,
                       op[k].consumed)
      BY <3>2, <3>3, <2>1, <1>t, ReleasedRow DEF Row
    <3> QED BY <3>1, <3>4, <2>1, <1>t, RowShape
            DEF RowOK, Row, AiOperationRecord, Statuses, NoTime
  <2>5. op' \in [Keys -> AiOperationRecord] /\ UnitsFollowStatus' /\ DatesFollowStatus'
    BY <2>3, <2>4, <1>t, RowsOKNext
  <2>6. period' \in [Users -> [Times -> AiUsagePeriod]] /\ LedgerBalanced' /\ WithinLimit'
    BY <2>2, <2>3, <2>4, ReleaseKeepsLedger
  <2> QED BY <2>2, <2>5, <2>6, <1>t DEF LedgerInv, LedgerTypeOK
<1>9. CASE UNCHANGED ledgerVars
  <2>1. clock' = clock /\ op' = op /\ period' = period BY <1>9 DEF ledgerVars
  <2>2. UnitsFollowStatus' /\ DatesFollowStatus'
    BY <2>1 DEF LedgerInv, UnitsFollowStatus, Unfinished, DatesFollowStatus
  <2>3. \A u, s : Holding(u, s)' = Holding(u, s) /\ Charged(u, s)' = Charged(u, s)
    BY <2>1 DEF Holding, Charged
  <2>4. LedgerBalanced' /\ WithinLimit'
    BY <2>1, <2>3 DEF LedgerInv, LedgerBalanced, WithinLimit
  <2> QED BY <2>1, <2>2, <2>4 DEF LedgerInv, LedgerTypeOK
<1> QED
  BY <1>1, <1>2, <1>3, <1>4, <1>5, <1>6, <1>7, <1>8, <1>9
  DEF LedgerNext, LedgerReserve, LedgerLease, LedgerReconcile, Recent

\* The empty ledger satisfies the invariant.
LEMMA LedgerInvInit == LedgerInit => LedgerInv
<1> SUFFICES ASSUME LedgerInit PROVE LedgerInv
  OBVIOUS
<1>1. op = [k \in Keys |-> op[k]] /\ \A k \in Keys : RowOK(op[k])
  BY DEF LedgerInit, RowOK, NoOperation, AiOperationRecord, Statuses, NoTime
<1>2. clock \in Times /\ period \in [Users -> [Times -> AiUsagePeriod]]
  BY LedgerAssumption DEF LedgerInit, Times, NoPeriod, AiUsagePeriod
<1>3. \A u \in Users, s \in Times : Holding(u, s) = {} /\ Charged(u, s) = {}
  BY DEF LedgerInit, Holding, Charged, NoOperation
<1>4. LedgerBalanced /\ WithinLimit
  BY <1>3, FS_EmptySet DEF LedgerInit, LedgerBalanced, WithinLimit, NoPeriod
<1> QED BY <1>1, <1>2, <1>4, RowsOK DEF LedgerInv, LedgerTypeOK

\* The ledger invariant holds in every reachable state.
THEOREM LedgerInvariant == LedgerSpec => []LedgerInv
<1>1. LedgerInit => LedgerInv BY LedgerInvInit
<1>2. LedgerInv /\ [LedgerNext]_ledgerVars => LedgerInv' BY LedgerInvNext
<1> QED BY <1>1, <1>2, PTL DEF LedgerSpec

\* Type correctness of the ledger: no column leaves its type, and no period
\* counter goes below zero, whatever the callers do.
THEOREM LedgerTypeCorrect == LedgerSpec => []LedgerTypeOK
<1>1. LedgerInv => LedgerTypeOK BY DEF LedgerInv
<1> QED BY <1>1, LedgerInvariant, PTL

\* For every number of users, operations, callers and months: the counters of
\* every AiUsagePeriod row equal what its operations hold and have consumed.
THEOREM LedgerStaysBalanced == LedgerSpec => []LedgerBalanced
<1>1. LedgerInv => LedgerBalanced BY DEF LedgerInv
<1> QED BY <1>1, LedgerInvariant, PTL

\* No interleaving of reservations, retries, takeovers and reconciliations
\* takes a month over the limit it was opened with.
THEOREM LedgerStaysWithinLimit == LedgerSpec => []WithinLimit
<1>1. LedgerInv => WithinLimit BY DEF LedgerInv
<1> QED BY <1>1, LedgerInvariant, PTL

\* A unit is held exactly while its operation is unfinished.
THEOREM LedgerUnitsFollowStatus == LedgerSpec => []UnitsFollowStatus
<1>1. LedgerInv => UnitsFollowStatus BY DEF LedgerInv
<1> QED BY <1>1, LedgerInvariant, PTL

\* A reservation that was never leased can be claimed by a repeated request
\* at any later time: the one way such a unit is ever recovered.
THEOREM LedgerStrandedClaimable == LedgerSpec => []StrandedReservationClaimable
<1>1. LedgerInv => StrandedReservationClaimable
  BY DEF LedgerInv, DatesFollowStatus, StrandedReservationClaimable, LeaseClaimable
<1> QED BY <1>1, LedgerInvariant, PTL

\* Every call but the completion leaves what is charged as it was.
LEMMA OthersKeepConsumed ==
  ASSUME LedgerInv, NEW k \in Keys, NEW w, NEW lease, NEW now \in Int,
         \/ ReserveNew(k, now) \/ RetryReservation(k, now) \/ Claim(k, w, now)
         \/ Renew(k, lease, now) \/ Fail(k)
  PROVE  \A j \in Keys : op'[j].consumed = op[j].consumed
<1>t. op \in [Keys -> AiOperationRecord] /\ op[k] \in AiOperationRecord
  BY DEF LedgerInv, LedgerTypeOK
<1>f. ASSUME NEW r \in AiOperationRecord, r.consumed = op[k].consumed, TakeUnit(k, r, now)
      PROVE  \A j \in Keys : op'[j].consumed = op[j].consumed
  <2>1. CASE HasCapacity(UserOf[k], getAiUsagePeriodStart(now))
    <3>1. op'[k].consumed = r.consumed /\ \A j \in Keys \ {k} : op'[j] = op[j]
      BY <1>f, <1>t, <2>1 DEF TakeUnit, AiOperationRecord
    <3> QED BY <1>f, <3>1
  <2>2. CASE ~HasCapacity(UserOf[k], getAiUsagePeriodStart(now))
    <3>1. op'[k].consumed = r.consumed /\ \A j \in Keys \ {k} : op'[j] = op[j]
      BY <1>f, <1>t, <2>2 DEF TakeUnit, AiOperationRecord
    <3> QED BY <1>f, <3>1
  <2> QED BY <2>1, <2>2
<1>1. CASE ReserveNew(k, now)
  <2>1. NoOperation \in AiOperationRecord /\ NoOperation.consumed = 0
    BY DEF NoOperation, AiOperationRecord, Statuses, NoTime
  <2>2. op[k].consumed = 0 BY <1>1, <1>t DEF ReserveNew, LedgerInv, UnitsFollowStatus, AiOperationRecord
  <2> QED BY <1>1, <1>f, <2>1, <2>2 DEF ReserveNew
<1>2. CASE RetryReservation(k, now)
  <2>1. PICK r : r = [op[k] EXCEPT !.expires = NoTime, !.owner = NoOwner,
                                   !.period = NoTime, !.retryableAt = NoTime]
    OBVIOUS
  <2>2. r \in AiOperationRecord /\ r.consumed = op[k].consumed
    <3>1. r = Row(op[k].status, op[k].attempt, NoOwner, NoTime, NoTime, NoTime,
                  op[k].units, op[k].consumed)
      BY <1>t, <2>1 DEF Row, AiOperationRecord
    <3> QED BY <1>t, <3>1 DEF Row, AiOperationRecord, NoTime
  <2>3. TakeUnit(k, r, now) BY <1>2, <2>1, Zenon DEF RetryReservation
  <2> QED BY <1>f, <2>2, <2>3
<1>3. CASE Claim(k, w, now) BY <1>3, <1>t DEF Claim, AiOperationRecord
<1>4. CASE Renew(k, lease, now) BY <1>4, <1>t DEF Renew, AiOperationRecord
<1>5. CASE Fail(k) BY <1>5, <1>t DEF Fail, Released, AiOperationRecord
<1> QED BY <1>1, <1>2, <1>3, <1>4, <1>5

LEMMA ReconcileKeepsConsumed ==
  ASSUME LedgerInv, NEW S \in SUBSET Keys, NEW now, Reconcile(S, now)
  PROVE  \A j \in Keys : op'[j].consumed = op[j].consumed
BY DEF Reconcile, Released, LedgerInv, LedgerTypeOK, AiOperationRecord

\* What one step may do to the fencing token of an operation.
FenceStep ==
  \A k \in Keys :
    /\ op'[k].attempt >= op[k].attempt
    /\ op'[k].owner \notin {op[k].owner, NoOwner} => op'[k].attempt > op[k].attempt
    /\ op[k].status = "COMPLETED" => op'[k] = op[k]

\* Every ledger step respects the fence.
LEMMA FenceNext == ASSUME LedgerInv, LedgerNext PROVE FenceStep
<1>t. /\ op \in [Keys -> AiOperationRecord]
      /\ \A k \in Keys : op[k].attempt \in Nat
  BY DEF LedgerInv, LedgerTypeOK, AiOperationRecord
<1>u. op' = op => FenceStep BY <1>t DEF FenceStep
<1>1. CASE Tick BY <1>1, <1>u DEF Tick
<1>2. ASSUME NEW k \in Keys, NEW now, ReserveNew(k, now) PROVE FenceStep
  <2>1. op[k].status = "ABSENT" /\ op'[k].owner = NoOwner /\ op'[k].attempt >= op[k].attempt
    <3>1. NoOperation \in AiOperationRecord /\ NoOperation.owner = NoOwner /\ NoOperation.attempt = 0
      BY DEF NoOperation, AiOperationRecord, Statuses, NoTime
    <3>2. op'[k].owner = NoOwner /\ op'[k].attempt = 0
      BY <3>1, <1>2, <1>t, TakeUnitKeepsLease DEF ReserveNew
    <3>3. op[k].status = "ABSENT" BY <1>2 DEF ReserveNew
    <3>4. op[k].attempt = 0 BY <3>3 DEF LedgerInv, DatesFollowStatus
    <3> QED BY <3>2, <3>3, <3>4
  <2>2. \A j \in Keys \ {k} : op'[j] = op[j]
    BY <1>2, <1>t DEF ReserveNew, TakeUnit
  <2> QED BY <2>1, <2>2, <1>t DEF FenceStep
<1>3. ASSUME NEW k \in Keys, NEW now, RetryReservation(k, now) PROVE FenceStep
  <2>1. op[k].status = "FAILED" /\ op'[k].owner = NoOwner /\ op'[k].attempt = op[k].attempt
    <3> DEFINE fresh == [op[k] EXCEPT !.expires = NoTime, !.owner = NoOwner,
                                      !.period = NoTime, !.retryableAt = NoTime]
    <3>1. fresh \in AiOperationRecord /\ fresh.owner = NoOwner /\ fresh.attempt = op[k].attempt
      <4>1. ASSUME NEW q, q = fresh
            PROVE  q \in AiOperationRecord /\ q.owner = NoOwner /\ q.attempt = op[k].attempt
        <5>1. q = Row(op[k].status, op[k].attempt, NoOwner, NoTime, NoTime, NoTime,
                      op[k].units, op[k].consumed)
          BY <4>1, <1>t DEF Row, AiOperationRecord
        <5>2. /\ op[k].status \in Statuses /\ op[k].attempt \in Nat
              /\ op[k].units \in {0, 1} /\ op[k].consumed \in {0, 1}
          BY <1>t DEF AiOperationRecord
        <5> QED BY <5>1, <5>2 DEF Row, AiOperationRecord, NoTime
      <4> QED BY <4>1
    <3>2. TakeUnit(k, fresh, now) /\ op[k].status = "FAILED"
      BY <1>3 DEF RetryReservation, Retryable
    <3> HIDE DEF fresh
    <3> QED BY <3>1, <3>2, <1>t, TakeUnitKeepsLease
  <2>2. \A j \in Keys \ {k} : op'[j] = op[j]
    BY <1>3, <1>t DEF RetryReservation, TakeUnit
  <2> QED BY <2>1, <2>2, <1>t DEF FenceStep
<1>4. ASSUME NEW k \in Keys, NEW w, NEW now, Claim(k, w, now) PROVE FenceStep
  <2>1. op[k].status # "COMPLETED" /\ op'[k].attempt = op[k].attempt + 1
    BY <1>4, <1>t DEF Claim, LeaseClaimable, AiOperationRecord
  <2>2. \A j \in Keys \ {k} : op'[j] = op[j]
    BY <1>4, <1>t DEF Claim
  <2> QED BY <2>1, <2>2, <1>t DEF FenceStep
<1>5. ASSUME NEW k \in Keys, NEW now, Renew(k, CurrentLease(k), now) PROVE FenceStep
  <2>1. /\ op[k].status # "COMPLETED" /\ op'[k].attempt = op[k].attempt
        /\ op'[k].owner = op[k].owner
    BY <1>5, <1>t DEF Renew, Owns, AiOperationRecord
  <2>2. \A j \in Keys \ {k} : op'[j] = op[j]
    BY <1>5, <1>t DEF Renew
  <2> QED BY <2>1, <2>2, <1>t DEF FenceStep
<1>6. ASSUME NEW k \in Keys, NEW now, Complete(k, CurrentLease(k), now) PROVE FenceStep
  <2>1. /\ op[k].status # "COMPLETED" /\ op'[k].attempt = op[k].attempt
        /\ op'[k].owner = NoOwner
    BY <1>6, <1>t DEF Complete, CanComplete, Owns, AiOperationRecord
  <2>2. \A j \in Keys \ {k} : op'[j] = op[j]
    BY <1>6, <1>t DEF Complete
  <2> QED BY <2>1, <2>2, <1>t DEF FenceStep
<1>7. ASSUME NEW k \in Keys, Fail(k) PROVE FenceStep
  <2>1. /\ op[k].status # "COMPLETED" /\ op'[k].attempt = op[k].attempt
        /\ op'[k].owner = NoOwner
    BY <1>7, <1>t DEF Fail, Unfinished, Released, AiOperationRecord
  <2>2. \A j \in Keys \ {k} : op'[j] = op[j]
    BY <1>7, <1>t DEF Fail
  <2> QED BY <2>1, <2>2, <1>t DEF FenceStep
<1>8. ASSUME NEW S \in SUBSET Keys, NEW now, Reconcile(S, now) PROVE FenceStep
  <2>1. ASSUME NEW k \in S
        PROVE  /\ op[k].status # "COMPLETED" /\ op'[k].attempt = op[k].attempt + 1
               /\ op'[k].owner = NoOwner
    <3>1. op[k].status # "COMPLETED"
      BY <1>8, <2>1 DEF Reconcile, ReconciliationBatch, ExpiredOperations, Unfinished
    <3>2. op'[k] = [Released(op[k], now) EXCEPT !.attempt = @ + 1]
      BY <1>8, <2>1 DEF Reconcile
    <3> QED BY <3>1, <3>2, <1>t DEF Released, AiOperationRecord
  <2>2. \A j \in Keys \ S : op'[j] = op[j]
    BY <1>8 DEF Reconcile
  <2> QED BY <2>1, <2>2, <1>t DEF FenceStep
<1> QED BY <1>1, <1>2, <1>3, <1>4, <1>5, <1>6, <1>7, <1>8
        DEF LedgerNext, LedgerReserve, LedgerLease, LedgerReconcile

\* The attempt is a fencing token: it never goes back, a lease gets a new
\* owner only with a higher attempt, and a completed row is never rewritten.
THEOREM LedgerAttemptFences == LedgerSpec => AttemptFencesLease
<1>1. LedgerInv /\ [LedgerNext]_ledgerVars => [FenceStep]_ledgerVars
  BY FenceNext
<1> QED BY <1>1, LedgerInvariant, PTL DEF LedgerSpec, AttemptFencesLease, FenceStep

-----------------------------------------------------------------------------
(* The interactive requests                                                 *)

\* The part of the request state the ledger depends on: a request reserves
\* with a date of the past, for an operation it knows.
RequestInv ==
  /\ clock \in Times
  /\ req \in [Requests -> RequestState]
  /\ \A p \in Requests :
       /\ req[p].pc # "idle" => req[p].key \in Keys
       /\ req[p].pc = "reserve" => req[p].at \in 0 .. clock

\* A request record has the types of its fields.
LEMMA RequestFields ==
  ASSUME NEW r \in RequestState
  PROVE  /\ r.pc \in RequestStages /\ r.key \in Keys \cup {NoRequestKey}
         /\ r.at \in Times \cup {NoTime} /\ r.lease \in Leases
         /\ r.lease.attempt \in Nat /\ r.lease.owner \in Owners \cup {NoOwner}
BY DEF RequestState, Leases

\* The idle state is a request state.
LEMMA IdleRequestType == IdleRequest \in RequestState /\ IdleRequest.pc = "idle" /\ IdleRequest.lease = NoRequestLease
BY DEF IdleRequest, RequestState, RequestStages, NoRequestLease, Leases, NoTime

\* A request that moves on keeps the invariant.
LEMMA RequestToKeeps ==
  ASSUME RequestInv, NEW p \in Requests, NEW stage \in RequestStages \ {"idle", "reserve"},
         req[p].pc # "idle", RequestTo(p, stage), clock' = clock
  PROVE  RequestInv'
<1>1. /\ req'[p].pc = stage /\ req'[p].key = req[p].key
      /\ req' \in [Requests -> RequestState]
  BY DEF RequestInv, RequestTo, RequestState
<1>2. \A q \in Requests \ {p} : req'[q] = req[q]
  BY DEF RequestInv, RequestTo
<1> QED BY <1>1, <1>2 DEF RequestInv

\* A request that ends keeps the invariant.
LEMMA RequestEndKeeps ==
  ASSUME RequestInv, NEW p \in Requests, End(p), clock' = clock
  PROVE  RequestInv'
<1>1. /\ req'[p].pc = "idle" /\ req' \in [Requests -> RequestState]
  BY IdleRequestType DEF RequestInv, End
<1>2. \A q \in Requests \ {p} : req'[q] = req[q]
  BY DEF RequestInv, End
<1> QED BY <1>1, <1>2 DEF RequestInv

\* The present is recent, whatever the skew.
LEMMA NowIsRecent == ASSUME clock \in Times PROVE clock \in Recent
BY LedgerAssumption DEF Recent, Times

\* Every step of the requests is a ledger step or leaves the ledger alone.
LEMMA StepImplementsLedger ==
  ASSUME LedgerInv, RequestInv, [SummaryNext]_summaryVars
  PROVE  RequestInv' /\ [LedgerNext]_ledgerVars
<1>u. CASE UNCHANGED summaryVars
  BY <1>u DEF summaryVars, ledgerVars, RequestInv
<1>n. clock \in Recent BY NowIsRecent DEF RequestInv
<1>1. ASSUME NEW p \in Requests, NEW k \in Keys, Begin(p, k)
      PROVE  RequestInv' /\ [LedgerNext]_ledgerVars
  <2>1. ASSUME NEW r, r = [IdleRequest EXCEPT !.pc = "reserve", !.key = k, !.at = clock]
        PROVE  r \in RequestState /\ r.pc = "reserve" /\ r.key = k /\ r.at = clock
    <3>1. r = [pc |-> "reserve", key |-> k, at |-> clock, lease |-> NoRequestLease]
      BY <2>1 DEF IdleRequest
    <3> QED BY <3>1 DEF RequestInv, RequestState, RequestStages, NoRequestLease, Leases
  <2>2. /\ req' \in [Requests -> RequestState]
        /\ req'[p].pc = "reserve" /\ req'[p].key = k /\ req'[p].at = clock
        /\ \A q \in Requests \ {p} : req'[q] = req[q]
        /\ clock' = clock
    BY <1>1, <2>1 DEF Begin, RequestInv
  <2>3. clock \in 0 .. clock BY DEF RequestInv, Times
  <2>4. RequestInv' BY <2>2, <2>3 DEF RequestInv
  <2> QED BY <2>4, <1>1 DEF Begin, ledgerVars
<1>2. ASSUME NEW p \in Requests, RequestReserves(p)
      PROVE  RequestInv' /\ [LedgerNext]_ledgerVars
  <2> DEFINE k == req[p].key
             now == req[p].at
  <2>1. k \in Keys /\ now \in 0 .. clock
    BY <1>2 DEF RequestReserves, RequestInv
  <2>2. \/ ReserveNew(k, now)
        \/ RetryReservation(k, now)
        \/ UNCHANGED ledgerVars
    BY <1>2 DEF RequestReserves
  <2>3. [LedgerNext]_ledgerVars
    BY <2>1, <2>2 DEF LedgerNext, LedgerReserve
  <2>4. clock' = clock
    BY <2>2 DEF ReserveNew, RetryReservation, ledgerVars
  <2>5. CASE End(p) BY <2>5, <2>4, <2>3, RequestEndKeeps
  <2>6. CASE req' = [req EXCEPT ![p].pc = "claim", ![p].at = NoTime]
    <3>1. /\ req' \in [Requests -> RequestState]
          /\ req'[p].pc = "claim" /\ req'[p].key = k
          /\ \A q \in Requests \ {p} : req'[q] = req[q]
      BY <2>6 DEF RequestInv, RequestState, RequestStages
    <3> QED BY <3>1, <2>1, <2>3, <2>4 DEF RequestInv
  <2> QED BY <2>5, <2>6, <1>2 DEF RequestReserves
<1>3. ASSUME NEW p \in Requests, RequestClaims(p)
      PROVE  RequestInv' /\ [LedgerNext]_ledgerVars
  <2>1. req[p].key \in Keys /\ req[p].pc # "idle"
    BY <1>3 DEF RequestClaims, RequestInv
  <2>2. CASE Claim(req[p].key, p, clock) /\ RequestTo(p, "reread")
    <3>1. LedgerNext BY <2>1, <2>2, <1>n DEF LedgerNext, LedgerLease, Requests
    <3>2. clock' = clock BY <2>2 DEF Claim
    <3>3. RequestInv' BY <3>2, <2>1, <2>2, RequestToKeeps DEF RequestStages
    <3> QED BY <3>1, <3>3
  <2>3. CASE End(p) /\ UNCHANGED ledgerVars
    BY <2>3, RequestEndKeeps DEF ledgerVars
  <2> QED BY <2>2, <2>3, <1>3 DEF RequestClaims
<1>4. ASSUME NEW p \in Requests, RequestRereads(p)
      PROVE  RequestInv' /\ [LedgerNext]_ledgerVars
  <2>1. UNCHANGED ledgerVars /\ clock' = clock BY <1>4 DEF RequestRereads, ledgerVars
  <2>2. CASE End(p) BY <2>1, <2>2, RequestEndKeeps
  <2>3. CASE /\ op[req[p].key].owner = p
             /\ req' = [req EXCEPT ![p].pc = "provider", ![p].lease = CurrentLease(req[p].key)]
    <3>1. req[p].key \in Keys BY <1>4 DEF RequestRereads, RequestInv
    <3>2. CurrentLease(req[p].key) \in Leases
      <4>1. op[req[p].key] \in AiOperationRecord
        BY <3>1 DEF LedgerInv, LedgerTypeOK
      <4> QED BY <4>1 DEF CurrentLease, Leases, AiOperationRecord
    <3>3. /\ req' \in [Requests -> RequestState]
          /\ req'[p].pc = "provider" /\ req'[p].key = req[p].key
          /\ \A q \in Requests \ {p} : req'[q] = req[q]
      BY <2>3, <3>2 DEF RequestInv, RequestState, RequestStages
    <3> QED BY <3>1, <3>3, <2>1 DEF RequestInv
  <2> QED BY <2>2, <2>3, <1>4 DEF RequestRereads
<1>5. ASSUME NEW p \in Requests, RequestHeartbeat(p)
      PROVE  RequestInv' /\ [LedgerNext]_ledgerVars
  <2>1. req[p].key \in Keys BY <1>5 DEF RequestHeartbeat, RequestInv
  <2>2. Renew(req[p].key, CurrentLease(req[p].key), clock)
    BY <1>5 DEF RequestHeartbeat, Renew, Owns
  <2>3. LedgerNext BY <2>1, <2>2, <1>n DEF LedgerNext, LedgerLease
  <2>4. clock' = clock /\ req' = req BY <1>5 DEF RequestHeartbeat, Renew
  <2> QED BY <2>3, <2>4 DEF RequestInv
<1>6. ASSUME NEW p \in Requests, RequestAnswered(p)
      PROVE  RequestInv' /\ [LedgerNext]_ledgerVars
  <2>1. UNCHANGED ledgerVars /\ clock' = clock BY <1>6 DEF RequestAnswered, ledgerVars
  <2>2. PICK stage \in {"finalize", "failing"} : RequestTo(p, stage)
    BY <1>6 DEF RequestAnswered
  <2>3. stage \in RequestStages \ {"idle", "reserve"} /\ req[p].pc # "idle"
    BY <1>6 DEF RequestAnswered, RequestStages
  <2> QED BY <2>1, <2>2, <2>3, RequestToKeeps
<1>7. ASSUME NEW p \in Requests, RequestFinalizes(p)
      PROVE  RequestInv' /\ [LedgerNext]_ledgerVars
  <2>1. req[p].key \in Keys /\ req[p].pc # "idle"
    BY <1>7 DEF RequestFinalizes, RequestInv
  <2>2. CASE Complete(req[p].key, req[p].lease, clock) /\ End(p)
    <3>1. Complete(req[p].key, CurrentLease(req[p].key), clock)
      BY <2>2 DEF Complete, CanComplete, Owns
    <3>2. LedgerNext BY <2>1, <3>1, <1>n DEF LedgerNext, LedgerLease
    <3>3. clock' = clock BY <3>1 DEF Complete
    <3> QED BY <2>2, <3>2, <3>3, RequestEndKeeps
  <2>3. CASE RequestTo(p, "failing") /\ UNCHANGED <<clock, op, period>>
    <3>1. RequestInv' BY <2>1, <2>3, RequestToKeeps DEF RequestStages
    <3> QED BY <2>3, <3>1 DEF ledgerVars
  <2> QED BY <2>2, <2>3, <1>7 DEF RequestFinalizes
<1>8. ASSUME NEW p \in Requests, FailStep(p)
      PROVE  RequestInv' /\ [LedgerNext]_ledgerVars
  <2>1. req[p].key \in Keys /\ End(p) BY <1>8 DEF FailStep, RequestInv
  <2>2. CASE Fail(req[p].key)
    <3>1. LedgerNext BY <2>1, <2>2 DEF LedgerNext
    <3>2. clock' = clock BY <2>2 DEF Fail
    <3> QED BY <2>1, <3>1, <3>2, RequestEndKeeps
  <2>3. CASE UNCHANGED ledgerVars
    BY <2>1, <2>3, RequestEndKeeps DEF ledgerVars
  <2> QED BY <2>2, <2>3, <1>8 DEF FailStep
<1>9. ASSUME NEW p \in Requests, RequestStops(p)
      PROVE  RequestInv' /\ [LedgerNext]_ledgerVars
  <2>1. End(p) /\ UNCHANGED ledgerVars /\ clock' = clock BY <1>9 DEF RequestStops, ledgerVars
  <2> QED BY <2>1, RequestEndKeeps
<1>10. CASE SummaryReconciliation
  <2>1. LedgerNext BY <1>10, <1>n DEF SummaryReconciliation, LedgerNext, LedgerReconcile
  <2>2. clock' = clock /\ req' = req BY <1>10 DEF SummaryReconciliation, Reconcile
  <2> QED BY <2>1, <2>2 DEF RequestInv
<1>11. CASE SummaryTimePasses
  <2>1. LedgerNext BY <1>11 DEF SummaryTimePasses, LedgerNext
  <2>2. clock' = clock + 1 /\ clock' \in Times /\ req' = req
    BY <1>11, LedgerAssumption DEF SummaryTimePasses, Tick, RequestInv, Times
  <2>3. \A t \in 0 .. clock : t \in 0 .. clock'
    BY <2>2 DEF RequestInv, Times
  <2> QED BY <2>1, <2>2, <2>3 DEF RequestInv
<1> QED BY <1>u, <1>1, <1>2, <1>3, <1>4, <1>5, <1>6, <1>7, <1>8, <1>9, <1>10, <1>11
        DEF SummaryNext, RequestStep

-----------------------------------------------------------------------------
(* The lease.                                                              *)

\* A request never carries an attempt of the future, and while it carries the
\* current one nobody else owns the row.
AttemptsKnown ==
  \A p \in Requests : Leased(p) =>
    /\ req[p].lease.attempt <= op[req[p].key].attempt
    /\ req[p].lease.attempt = op[req[p].key].attempt =>
         op[req[p].key].owner \in {p, NoOwner}

LeaseInv == AttemptsKnown /\ OneHolderPerAttempt

\* A step that gives no request a new lease, and that respects the fence,
\* keeps the lease invariant.
LEMMA LeaseFrame ==
  ASSUME LedgerInv, LedgerInv', RequestInv, LeaseInv, FenceStep \/ op' = op,
         \A p \in Requests : Leased(p)' =>
           Leased(p) /\ req'[p].key = req[p].key /\ req'[p].lease = req[p].lease
  PROVE  LeaseInv'
<1>1. ASSUME NEW p \in Requests, Leased(p)'
      PROVE  /\ req'[p].lease.attempt <= op'[req'[p].key].attempt
             /\ req'[p].lease.attempt = op'[req'[p].key].attempt =>
                  op'[req'[p].key].owner \in {p, NoOwner}
  <2>1. Leased(p) /\ req'[p].key = req[p].key /\ req'[p].lease = req[p].lease
    BY <1>1
  <2>2. req[p].key \in Keys
    BY <2>1 DEF Leased, RequestInv
  <2>3. op[req[p].key].attempt \in Nat /\ op'[req[p].key].attempt \in Nat
    BY <2>2 DEF LedgerInv, LedgerTypeOK, AiOperationRecord
  <2>4. req[p].lease.attempt \in Nat
    BY RequestFields DEF RequestInv
  <2>5. /\ req[p].lease.attempt <= op[req[p].key].attempt
        /\ req[p].lease.attempt = op[req[p].key].attempt =>
             op[req[p].key].owner \in {p, NoOwner}
    BY <2>1 DEF LeaseInv, AttemptsKnown
  <2>6. /\ op'[req[p].key].attempt >= op[req[p].key].attempt
        /\ op'[req[p].key].owner \notin {op[req[p].key].owner, NoOwner} =>
             op'[req[p].key].attempt > op[req[p].key].attempt
    BY <2>2, <2>3 DEF FenceStep
  <2> QED BY <2>1, <2>3, <2>4, <2>5, <2>6
<1>2. AttemptsKnown' BY <1>1 DEF AttemptsKnown
<1>3. OneHolderPerAttempt'
  BY DEF LeaseInv, OneHolderPerAttempt
<1> QED BY <1>2, <1>3 DEF LeaseInv

\* Every step keeps the lease invariant; only the re-read of a claimed row
\* gives a request a lease, and then it is the row's own attempt and owner.
LEMMA LeaseStep ==
  ASSUME LedgerInv, RequestInv, LeaseInv, [SummaryNext]_summaryVars
  PROVE  LeaseInv'
<1>1. RequestInv' /\ [LedgerNext]_ledgerVars BY StepImplementsLedger
<1>2. LedgerInv' BY <1>1, LedgerInvNext
<1>3. FenceStep \/ op' = op BY <1>1, FenceNext DEF ledgerVars
<1> DEFINE Same(p) == Leased(p) /\ req'[p].key = req[p].key /\ req'[p].lease = req[p].lease
<1>f. ASSUME \A p \in Requests : Leased(p)' => Same(p) PROVE LeaseInv'
  BY <1>f, <1>2, <1>3, LeaseFrame
<1>g. ASSUME NEW p \in Requests, NEW stage, RequestTo(p, stage),
             Leased(p) \/ stage \notin {"provider", "finalize", "failing"}
      PROVE  LeaseInv'
  <2>1. /\ req'[p].pc = stage /\ req'[p].key = req[p].key /\ req'[p].lease = req[p].lease
        /\ \A q \in Requests \ {p} : req'[q] = req[q]
    BY <1>g DEF RequestTo, RequestInv, RequestState
  <2>2. \A q \in Requests : Leased(q)' => Same(q)
    BY <1>g, <2>1 DEF Leased
  <2> QED BY <2>2, <1>f
<1>e. ASSUME NEW p \in Requests, End(p) PROVE LeaseInv'
  <2>1. /\ req'[p].pc = "idle" /\ \A q \in Requests \ {p} : req'[q] = req[q]
    BY <1>e, IdleRequestType DEF End, RequestInv
  <2>2. \A q \in Requests : Leased(q)' => Same(q)
    BY <2>1 DEF Leased
  <2> QED BY <2>2, <1>f
<1>s. ASSUME req' = req PROVE LeaseInv'
  BY <1>s, <1>f DEF Leased
<1>a. CASE UNCHANGED summaryVars BY <1>a, <1>s DEF summaryVars
<1>b. ASSUME NEW p \in Requests, NEW k \in Keys, Begin(p, k) PROVE LeaseInv'
  <2>1. /\ req'[p].pc = "reserve" /\ \A q \in Requests \ {p} : req'[q] = req[q]
    BY <1>b DEF Begin, RequestInv, IdleRequest
  <2>2. \A q \in Requests : Leased(q)' => Same(q)
    BY <2>1 DEF Leased
  <2> QED BY <2>2, <1>f
<1>c. ASSUME NEW p \in Requests, RequestReserves(p) PROVE LeaseInv'
  <2>1. CASE req' = [req EXCEPT ![p].pc = "claim", ![p].at = NoTime]
    <3>1. /\ req'[p].pc = "claim" /\ \A q \in Requests \ {p} : req'[q] = req[q]
      BY <2>1 DEF RequestInv, RequestState
    <3>2. \A q \in Requests : Leased(q)' => Same(q)
      BY <3>1 DEF Leased
    <3> QED BY <3>2, <1>f
  <2> QED BY <2>1, <1>c, <1>e DEF RequestReserves
<1>d. ASSUME NEW p \in Requests, RequestClaims(p) PROVE LeaseInv'
  BY <1>d, <1>e, <1>g DEF RequestClaims
<1>h. ASSUME NEW p \in Requests, RequestRereads(p) PROVE LeaseInv'
  <2>1. CASE /\ op[req[p].key].owner = p
             /\ req' = [req EXCEPT ![p].pc = "provider", ![p].lease = CurrentLease(req[p].key)]
    <3>1. /\ req'[p].key = req[p].key
          /\ req'[p].lease = CurrentLease(req[p].key)
          /\ \A q \in Requests \ {p} : req'[q] = req[q]
      BY <2>1 DEF RequestInv, RequestState
    <3>2. op' = op BY <1>h DEF RequestRereads
    <3>3. req'[p].lease.attempt = op[req[p].key].attempt BY <3>1 DEF CurrentLease
    <3>4. req[p].key \in Keys BY <1>h DEF RequestRereads, RequestInv
    <3>5. op[req[p].key].attempt \in Nat
      BY <3>4 DEF LedgerInv, LedgerTypeOK, AiOperationRecord
    <3>6. AttemptsKnown'
      <4>1. ASSUME NEW q \in Requests \ {p}, Leased(q)'
            PROVE  /\ req'[q].lease.attempt <= op'[req'[q].key].attempt
                   /\ req'[q].lease.attempt = op'[req'[q].key].attempt =>
                        op'[req'[q].key].owner \in {q, NoOwner}
        <5>1. Leased(q) BY <4>1, <3>1 DEF Leased
        <5> QED BY <5>1, <3>1, <3>2 DEF AttemptsKnown, LeaseInv
      <4>2. /\ req'[p].lease.attempt <= op'[req'[p].key].attempt
            /\ op'[req'[p].key].owner \in {p, NoOwner}
        BY <2>1, <3>1, <3>2, <3>3, <3>5
      <4> QED BY <4>1, <4>2 DEF AttemptsKnown
    <3>7. ASSUME NEW q \in Requests \ {p}, Leased(q), req[q].key = req[p].key
          PROVE  req[q].lease.attempt # op[req[p].key].attempt
      <4>1. p # NoOwner BY LedgerAssumption DEF Requests
      <4> QED BY <2>1, <3>7, <4>1 DEF LeaseInv, AttemptsKnown
    <3>8. OneHolderPerAttempt'
      BY <3>1, <3>3, <3>7 DEF OneHolderPerAttempt, LeaseInv, Leased
    <3> QED BY <3>6, <3>8 DEF LeaseInv
  <2> QED BY <2>1, <1>h, <1>e DEF RequestRereads
<1>i. ASSUME NEW p \in Requests, RequestHeartbeat(p) PROVE LeaseInv'
  BY <1>i, <1>s DEF RequestHeartbeat
<1>j. ASSUME NEW p \in Requests, RequestAnswered(p) PROVE LeaseInv'
  <2>1. Leased(p) BY <1>j DEF RequestAnswered, Leased
  <2> QED BY <1>j, <2>1, <1>g DEF RequestAnswered
<1>k. ASSUME NEW p \in Requests, RequestFinalizes(p) PROVE LeaseInv'
  <2>1. Leased(p) BY <1>k DEF RequestFinalizes, Leased
  <2> QED BY <1>k, <2>1, <1>g, <1>e DEF RequestFinalizes
<1>l. ASSUME NEW p \in Requests, FailStep(p) \/ RequestStops(p) PROVE LeaseInv'
  BY <1>l, <1>e DEF FailStep, RequestStops
<1>m. CASE SummaryReconciliation \/ SummaryTimePasses
  BY <1>m, <1>s DEF SummaryReconciliation, SummaryTimePasses
<1> QED BY <1>a, <1>b, <1>c, <1>d, <1>h, <1>i, <1>j, <1>k, <1>l, <1>m
        DEF SummaryNext, RequestStep

-----------------------------------------------------------------------------
(* The charge.                                                             *)

\* The usage log has one row for each charged operation, and its result.
ChargeInv == usageLog \in [Keys -> Nat] /\ ChargedOnceWithResult

\* Every step keeps the charge; only the final transaction charges, and it
\* writes the log row and the result with it.
LEMMA ChargeStep ==
  ASSUME LedgerInv, RequestInv, ChargeInv, [SummaryNext]_summaryVars
  PROVE  ChargeInv'
<1>t. op \in [Keys -> AiOperationRecord]
  BY DEF LedgerInv, LedgerTypeOK
<1>n. clock \in Int BY DEF RequestInv, Times
<1>i. LedgerInv' BY StepImplementsLedger, LedgerInvNext
<1>f. ASSUME usageLog' = usageLog, results' = results,
             \A k \in Keys : op'[k].consumed = op[k].consumed
      PROVE  ChargeInv'
  BY <1>f, <1>i DEF LedgerInv, UnitsFollowStatus, ChargeInv, ChargedOnceWithResult
<1>l. ASSUME ledgerVars' = ledgerVars, usageLog' = usageLog, results' = results PROVE ChargeInv'
  BY <1>l, <1>f DEF ledgerVars
<1>1. CASE UNCHANGED summaryVars BY <1>1, <1>f DEF summaryVars
<1>2. ASSUME NEW p \in Requests, NEW k \in Keys, Begin(p, k) PROVE ChargeInv'
  BY <1>2, <1>f DEF Begin
<1>3. ASSUME NEW p \in Requests, RequestReserves(p) PROVE ChargeInv'
  <2>1. req[p].key \in Keys /\ req[p].at \in Int
    BY <1>3 DEF RequestReserves, RequestInv, Times
  <2> QED BY <1>3, <1>f, <1>l, <2>1, OthersKeepConsumed DEF RequestReserves
<1>4. ASSUME NEW p \in Requests, RequestClaims(p) PROVE ChargeInv'
  <2>1. req[p].key \in Keys BY <1>4 DEF RequestClaims, RequestInv
  <2> QED BY <1>4, <1>f, <1>l, <1>n, <2>1, OthersKeepConsumed DEF RequestClaims
<1>5. ASSUME NEW p \in Requests, RequestRereads(p) \/ RequestAnswered(p) \/ RequestStops(p) PROVE ChargeInv'
  BY <1>5, <1>f DEF RequestRereads, RequestAnswered, RequestStops
<1>6. ASSUME NEW p \in Requests, RequestHeartbeat(p) PROVE ChargeInv'
  <2>1. req[p].key \in Keys BY <1>6 DEF RequestHeartbeat, RequestInv
  <2> QED BY <1>6, <1>f, <1>n, <2>1, OthersKeepConsumed DEF RequestHeartbeat
<1>7. ASSUME NEW p \in Requests, RequestFinalizes(p) PROVE ChargeInv'
  <2> DEFINE k == req[p].key
  <2>1. k \in Keys BY <1>7 DEF RequestFinalizes, RequestInv
  <2>2. CASE /\ Complete(k, req[p].lease, clock)
             /\ results' = results \cup {ResultOf[k]}
             /\ usageLog' = [usageLog EXCEPT ![k] = @ + 1]
    <3>1. /\ op[k].status = "PROCESSING" /\ op'[k].consumed = 1
          /\ \A j \in Keys \ {k} : op'[j] = op[j]
      BY <1>t, <2>1, <2>2 DEF Complete, CanComplete, Owns, AiOperationRecord
    <3>2. op[k].consumed = 0
      BY <1>t, <2>1, <3>1 DEF LedgerInv, UnitsFollowStatus, AiOperationRecord
    <3> QED BY <2>1, <2>2, <3>1, <3>2 DEF ChargeInv, ChargedOnceWithResult
  <2>3. CASE UNCHANGED <<clock, op, period, results, usageLog>> BY <2>3, <1>f
  <2> QED BY <1>7, <2>2, <2>3 DEF RequestFinalizes
<1>8. ASSUME NEW p \in Requests, FailStep(p) PROVE ChargeInv'
  <2>1. req[p].key \in Keys BY <1>8 DEF FailStep, RequestInv
  <2> QED BY <1>8, <1>f, <1>l, <1>n, <2>1, OthersKeepConsumed DEF FailStep
<1>9. CASE SummaryReconciliation
  <2>1. PICK S \in SUBSET Keys : Reconcile(S, clock) BY <1>9 DEF SummaryReconciliation
  <2> QED BY <1>9, <1>f, <2>1, ReconcileKeepsConsumed DEF SummaryReconciliation
<1>10. CASE SummaryTimePasses BY <1>10, <1>f DEF SummaryTimePasses, Tick
<1> QED BY <1>1, <1>2, <1>3, <1>4, <1>5, <1>6, <1>7, <1>8, <1>9, <1>10 DEF SummaryNext, RequestStep

\* The invariant that carries the results.
SummaryInv == LedgerInv /\ RequestInv /\ LeaseInv /\ ChargeInv

\* The ledger, request, lease and charge invariants hold in every reachable
\* state.
THEOREM SummaryInvariant == SummarySpec => []SummaryInv
<1>1. SummaryInit => SummaryInv
  <2> SUFFICES ASSUME SummaryInit PROVE SummaryInv
    OBVIOUS
  <2>1. LedgerInv BY LedgerInvInit DEF SummaryInit
  <2>2. \A p \in Requests : req[p] = IdleRequest BY DEF SummaryInit
  <2>3. RequestInv
    BY <2>1, <2>2, IdleRequestType DEF SummaryInit, RequestInv, LedgerInv, LedgerTypeOK
  <2>4. \A p \in Requests : ~Leased(p)
    BY <2>2, IdleRequestType DEF Leased
  <2>5. ChargeInv BY DEF SummaryInit, LedgerInit, NoOperation, ChargeInv, ChargedOnceWithResult
  <2> QED BY <2>1, <2>3, <2>4, <2>5 DEF SummaryInv, LeaseInv, AttemptsKnown, OneHolderPerAttempt
<1>2. SummaryInv /\ [SummaryNext]_summaryVars => SummaryInv'
  BY StepImplementsLedger, LedgerInvNext, LeaseStep, ChargeStep DEF SummaryInv
<1> QED BY <1>1, <1>2, PTL DEF SummarySpec

\* The interactive requests implement the ledger, for any number of users,
\* operations and requests and any skew: every step of generateArticleSummary
\* WithClient and of the story analysis is one ledger call or none.
THEOREM SummaryImplementsLedger == SummarySpec => ImplementsLedger
<1>1. SummaryInit => LedgerInit BY DEF SummaryInit
<1>2. SummaryInv /\ [SummaryNext]_summaryVars => [LedgerNext]_ledgerVars
  BY StepImplementsLedger DEF SummaryInv
<1> QED BY <1>1, <1>2, SummaryInvariant, PTL DEF SummarySpec, ImplementsLedger, LedgerSpec

\* At most one request can pass the fence of an operation.
THEOREM SummaryOneHolder == SummarySpec => []OneHolderPerAttempt
<1>1. SummaryInv => OneHolderPerAttempt BY DEF SummaryInv, LeaseInv
<1> QED BY <1>1, SummaryInvariant, PTL

\* For any number of requests that race for one result, lose their leases,
\* fail and stop: an operation is charged at most once, with one row of
\* AiUsageLog, and a charged operation has its result stored.
THEOREM SummaryChargedOnce == SummarySpec => []ChargedOnceWithResult
<1>1. SummaryInv => ChargedOnceWithResult BY DEF SummaryInv, ChargeInv
<1> QED BY <1>1, SummaryInvariant, PTL

\* The month's counters stay exact and within the limit for these requests too,
\* because they implement the ledger.
THEOREM SummaryBalanced == SummarySpec => []LedgerBalanced /\ []WithinLimit
<1>1. SummaryInv => LedgerBalanced /\ WithinLimit BY DEF SummaryInv, LedgerInv
<1> QED BY <1>1, SummaryInvariant, PTL

-----------------------------------------------------------------------------
(* The queued digests                                                      *)

-----------------------------------------------------------------------------
(* The inductive invariant                                                   *)

\* A worker that runs has a digest, and reserves with a date of the past; its
\* lease names it.
WorkersInv ==
  /\ clock \in Times
  /\ wk \in [Workers -> WorkerState]
  /\ \A w \in Workers :
       /\ wk[w].pc # "idle" => wk[w].key \in Keys
       /\ wk[w].pc \in {"eligible", "reserve"} => wk[w].at \in 0 .. clock
       /\ wk[w].lease # NoLease => wk[w].lease.owner = w /\ wk[w].key \in Keys

\* A job that can still run has an attempt left, and stalled no more often
\* than the queue allows.
JobsInv ==
  /\ job \in [Keys -> Job]
  /\ \A k \in Keys : job[k].state \in {"wait", "active"} =>
       job[k].made < MaxAttempts /\ job[k].stalls <= MaxStalls

\* The rows beside the ledger.
RowsInv ==
  /\ digest \in [Keys -> DigestStatuses]
  /\ adding \subseteq Keys
  /\ log \in [Keys -> Nat]
  /\ disabled \subseteq Users

DigestInv == LedgerInv /\ WorkersInv /\ JobsInv /\ RowsInv /\ DigestChargedOnce

-----------------------------------------------------------------------------
(* Workers and jobs                                                          *)

LEMMA IdleType == Idle \in WorkerState /\ Idle.pc = "idle" /\ Idle.lease = NoLease
BY DEF Idle, WorkerState, Stages, NoLease, Leases, NoTime

LEMMA NoJobType ==
  /\ NoJob \in Job /\ NoJob.state = "none"
  /\ [NoJob EXCEPT !.state = "wait"] \in Job
  /\ [NoJob EXCEPT !.state = "wait"].made = 0 /\ [NoJob EXCEPT !.state = "wait"].stalls = 0
BY DigestAssumption DEF NoJob, Job

LEMMA JobFields ==
  ASSUME NEW j \in Job
  PROVE  j.made \in 0 .. MaxAttempts /\ j.stalls \in 0 .. MaxStalls + 1
BY DEF Job

\* A worker that is done with its job, or goes on to stage.
LEMMA EndKeeps ==
  ASSUME WorkersInv, NEW w \in Workers, wk' = [wk EXCEPT ![w] = Idle], clock' = clock
  PROVE  WorkersInv'
<1>1. /\ wk'[w].pc = "idle" /\ wk'[w].lease = NoLease /\ wk' \in [Workers -> WorkerState]
      /\ \A v \in Workers \ {w} : wk'[v] = wk[v]
  BY IdleType DEF WorkersInv
<1> QED BY <1>1 DEF WorkersInv

LEMMA GoToKeeps ==
  ASSUME WorkersInv, NEW w \in Workers, NEW stage \in Stages \ {"idle", "eligible"}, GoTo(w, stage),
         wk[w].pc # "idle", stage = "reserve" => wk[w].pc = "eligible", clock' = clock
  PROVE  WorkersInv'
<1>1. /\ wk' \in [Workers -> WorkerState]
      /\ wk'[w].pc = stage /\ wk'[w].key = wk[w].key /\ wk'[w].at = wk[w].at
      /\ wk'[w].lease = wk[w].lease
      /\ \A v \in Workers \ {w} : wk'[v] = wk[v]
  BY DEF WorkersInv, GoTo, WorkerState
<1> QED BY <1>1 DEF WorkersInv

\* One job changes.
LEMMA OneJob ==
  ASSUME JobsInv, NEW k \in Keys, NEW j \in Job, job' = [job EXCEPT ![k] = j],
         j.state \in {"wait", "active"} => j.made < MaxAttempts /\ j.stalls <= MaxStalls
  PROVE  JobsInv'
<1>1. job' \in [Keys -> Job] /\ job'[k] = j /\ \A i \in Keys \ {k} : job'[i] = job[i]
  BY DEF JobsInv
<1> QED BY <1>1 DEF JobsInv

LEMMA JobCompletedKeeps ==
  ASSUME WorkersInv, JobsInv, NEW w \in Workers, wk[w].pc # "idle", JobCompleted(w), clock' = clock
  PROVE  WorkersInv' /\ JobsInv'
<1>1. wk[w].key \in Keys /\ job \in [Keys -> Job] BY DEF WorkersInv, JobsInv
<1>2. PICK j \in Job : /\ job' = [job EXCEPT ![wk[w].key] = j]
                       /\ j = NoJob \/ j = job[wk[w].key]
  <2>1. CASE job[wk[w].key].state = "active" /\ job[wk[w].key].holder = w
    <3>1. job' = [job EXCEPT ![wk[w].key] = NoJob] BY <1>1, <2>1 DEF JobCompleted
    <3> QED BY <3>1, NoJobType
  <2>2. CASE ~(job[wk[w].key].state = "active" /\ job[wk[w].key].holder = w)
    <3>1. job' = [job EXCEPT ![wk[w].key] = job[wk[w].key]] BY <1>1, <2>2 DEF JobCompleted
    <3> QED BY <1>1, <3>1
  <2> QED BY <2>1, <2>2
<1>3. JobsInv' BY <1>1, <1>2, OneJob, NoJobType DEF JobsInv
<1>4. WorkersInv' BY EndKeeps DEF JobCompleted
<1> QED BY <1>3, <1>4

LEMMA JobThrewKeeps ==
  ASSUME WorkersInv, JobsInv, NEW w \in Workers, wk[w].pc # "idle", JobThrew(w), clock' = clock
  PROVE  WorkersInv' /\ JobsInv'
<1>1. wk[w].key \in Keys /\ job \in [Keys -> Job] BY DEF WorkersInv, JobsInv
<1>2. PICK k \in Keys : k = wk[w].key BY <1>1
<1>3. CASE job[k].state = "active" /\ job[k].holder = w
  <2>1. PICK state \in {"wait", "failed"} :
          state = IF job[k].made + 1 < MaxAttempts THEN "wait" ELSE "failed"
    OBVIOUS
  <2>2. PICK j : j = [job[k] EXCEPT !.state = state, !.made = job[k].made + 1, !.holder = NoOwner]
    OBVIOUS
  <2>3. job' = [job EXCEPT ![k] = j] BY <1>1, <1>2, <1>3, <2>1, <2>2 DEF JobThrew
  <2>4. job[k].made < MaxAttempts /\ job[k].stalls <= MaxStalls /\ job[k] \in Job
    BY <1>1, <1>3 DEF JobsInv
  <2>5. job[k].made + 1 \in 0 .. MaxAttempts BY <2>4, JobFields, DigestAssumption
  <2>6. /\ j \in Job /\ j.state = state /\ j.made = job[k].made + 1 /\ j.stalls = job[k].stalls
    BY <2>2, <2>4, <2>5 DEF Job
  <2>7. JobsInv' BY <2>1, <2>3, <2>4, <2>6, OneJob
  <2>8. WorkersInv' BY EndKeeps DEF JobThrew
  <2> QED BY <2>7, <2>8
<1>4. CASE ~(job[k].state = "active" /\ job[k].holder = w)
  <2>1. job' = [job EXCEPT ![k] = job[k]] BY <1>1, <1>2, <1>4 DEF JobThrew
  <2>2. JobsInv' BY <1>1, <2>1, OneJob DEF JobsInv
  <2>3. WorkersInv' BY EndKeeps DEF JobThrew
  <2> QED BY <2>2, <2>3
<1> QED BY <1>3, <1>4

\* A step that charges nothing and completes no digest.
LEMMA ChargeStays ==
  ASSUME DigestInv, LedgerInv' , log' = log,
         \A k \in Keys : op'[k].consumed = op[k].consumed,
         \A k \in Keys : digest'[k] = "COMPLETED" => digest[k] = "COMPLETED"
  PROVE  DigestChargedOnce'
BY DEF DigestInv, DigestChargedOnce

LEMMA SetDigest ==
  ASSUME RowsInv, NEW k \in Keys, NEW status \in DigestStatuses,
         digest' = [digest EXCEPT ![k] = status], UNCHANGED <<adding, log, disabled>>
  PROVE  /\ RowsInv'
         /\ \A j \in Keys : digest'[j] = IF j = k THEN status ELSE digest[j]
BY DEF RowsInv

\* What a step of the digest machinery does to the whole.
Keeps == DigestInv' /\ [LedgerNext]_ledgerVars

\* A step that does not touch the ledger or the usage log.
LEMMA LedgerStays ==
  ASSUME DigestInv, UNCHANGED <<clock, op, period, log>>, WorkersInv', JobsInv', RowsInv',
         \A k \in Keys : digest'[k] = "COMPLETED" => digest[k] = "COMPLETED"
  PROVE  Keeps
<1>1. [LedgerNext]_ledgerVars BY DEF ledgerVars
<1>2. LedgerInv' BY <1>1, LedgerInvNext DEF DigestInv
<1>3. DigestChargedOnce' BY <1>2, ChargeStays
<1> QED BY <1>1, <1>2, <1>3 DEF DigestInv, Keeps

\* A ledger call other than the completion.
LEMMA LedgerCall ==
  ASSUME DigestInv, LedgerNext, UNCHANGED <<digest, adding, log, disabled>>,
         \A k \in Keys : op'[k].consumed = op[k].consumed, WorkersInv', JobsInv'
  PROVE  Keeps
<1>1. LedgerInv' BY LedgerInvNext DEF DigestInv
<1>2. DigestChargedOnce' BY <1>1, ChargeStays
<1>3. RowsInv' BY DEF DigestInv, RowsInv
<1> QED BY <1>1, <1>2, <1>3 DEF DigestInv, Keeps

-----------------------------------------------------------------------------
(* The web process and the queue                                             *)

LEMMA RequestKeeps ==
  ASSUME DigestInv, NEW k \in Keys,
         RequestDigest(k) \/ EnqueueDigest(k) \/ LoseEnqueue(k)
  PROVE  Keeps
<1>1. UNCHANGED <<clock, op, period, wk, log, disabled>>
  BY DEF RequestDigest, EnqueueDigest, LoseEnqueue
<1>2. WorkersInv' BY <1>1 DEF DigestInv, WorkersInv
<1>3. CASE RequestDigest(k)
  <2>1. JobsInv' BY <1>3 DEF RequestDigest, DigestInv, JobsInv
  <2>2. RowsInv' /\ \A j \in Keys : digest'[j] = "COMPLETED" => digest[j] = "COMPLETED"
    BY <1>3 DEF RequestDigest, DigestInv, RowsInv, DigestStatuses
  <2> QED BY <1>1, <1>2, <2>1, <2>2, LedgerStays
<1>4. CASE EnqueueDigest(k)
  <2>1. job' = [job EXCEPT ![k] = [NoJob EXCEPT !.state = "wait"]] BY <1>4 DEF EnqueueDigest
  <2>2. JobsInv'
    <3>1. PICK j : j = [NoJob EXCEPT !.state = "wait"] OBVIOUS
    <3>2. j \in Job /\ j.made = 0 /\ j.stalls = 0 BY <3>1, NoJobType
    <3>3. job' = [job EXCEPT ![k] = j] BY <2>1, <3>1, Zenon
    <3>4. j.made < MaxAttempts /\ j.stalls <= MaxStalls BY <3>2, DigestAssumption
    <3> QED BY <3>2, <3>3, <3>4, OneJob DEF DigestInv
  <2>3. RowsInv' /\ digest' = digest BY <1>4 DEF EnqueueDigest, DigestInv, RowsInv
  <2> QED BY <1>1, <1>2, <2>2, <2>3, LedgerStays
<1>5. CASE LoseEnqueue(k)
  <2>1. JobsInv' /\ RowsInv' /\ digest' = digest
    BY <1>5 DEF LoseEnqueue, DigestInv, JobsInv, RowsInv
  <2> QED BY <1>1, <1>2, <2>1, LedgerStays
<1> QED BY <1>3, <1>4, <1>5

LEMMA DisableKeeps ==
  ASSUME DigestInv, NEW u \in Users, DisableUser(u)
  PROVE  Keeps
<1>1. UNCHANGED <<clock, op, period, adding, job, wk, log>> BY DEF DisableUser
<1>2. WorkersInv' /\ JobsInv' BY <1>1 DEF DigestInv, WorkersInv, JobsInv
<1>3. RowsInv' /\ \A j \in Keys : digest'[j] = "COMPLETED" => digest[j] = "COMPLETED"
  BY DEF DisableUser, DigestInv, RowsInv, DigestStatuses
<1> QED BY <1>1, <1>2, <1>3, LedgerStays

LEMMA StalledKeeps ==
  ASSUME DigestInv, NEW k \in Keys, Stalled(k)
  PROVE  Keeps
<1>1. UNCHANGED <<clock, op, period, digest, adding, wk, log, disabled>> BY DEF Stalled
<1>2. WorkersInv' /\ RowsInv' BY <1>1 DEF DigestInv, WorkersInv, RowsInv
<1>3. PICK state \in {"wait", "failed"} :
        state = IF job[k].stalls < MaxStalls THEN "wait" ELSE "failed"
  OBVIOUS
<1>4. PICK j : j = [job[k] EXCEPT !.state = state, !.stalls = job[k].stalls + 1, !.holder = NoOwner]
  OBVIOUS
<1>5. /\ job \in [Keys -> Job] /\ job[k] \in Job
      /\ job[k].made < MaxAttempts /\ job[k].stalls <= MaxStalls
  BY DEF Stalled, DigestInv, JobsInv
<1>6. job' = [job EXCEPT ![k] = j] BY <1>3, <1>4, <1>5 DEF Stalled
<1>7. job[k].stalls + 1 \in 0 .. MaxStalls + 1 BY <1>5, JobFields, DigestAssumption
<1>8. j \in Job /\ j.state = state /\ j.made = job[k].made /\ j.stalls = job[k].stalls + 1
  BY <1>4, <1>5, <1>7 DEF Job
<1>9. state = "wait" => j.stalls <= MaxStalls BY <1>3, <1>5, <1>8, JobFields, DigestAssumption
<1>10. JobsInv' BY <1>3, <1>5, <1>6, <1>8, <1>9, OneJob DEF DigestInv
<1> QED BY <1>1, <1>2, <1>10, LedgerStays

LEMMA StartJobKeeps ==
  ASSUME DigestInv, NEW w \in Workers, NEW k \in Keys, StartJob(w, k)
  PROVE  Keeps
<1>1. /\ UNCHANGED <<clock, op, period, digest, adding, log, disabled>>
      /\ job[k].state = "wait" /\ job \in [Keys -> Job] /\ job[k] \in Job
      /\ job[k].made < MaxAttempts /\ job[k].stalls <= MaxStalls
  BY DEF StartJob, DigestInv, JobsInv
<1>2. RowsInv' BY <1>1 DEF DigestInv, RowsInv
<1>3. CASE job' = [job EXCEPT ![k] = NoJob] /\ UNCHANGED wk
  <2>1. JobsInv' BY <1>3, OneJob, NoJobType DEF DigestInv
  <2>2. WorkersInv' BY <1>1, <1>3 DEF DigestInv, WorkersInv
  <2> QED BY <1>1, <1>2, <2>1, <2>2, LedgerStays
<1>4. CASE /\ job' = [job EXCEPT ![k].state = "active", ![k].holder = w]
           /\ wk' = [wk EXCEPT ![w] = [Idle EXCEPT !.pc = "eligible", !.key = k, !.at = clock]]
  <2>1. PICK j : j = [job[k] EXCEPT !.state = "active", !.holder = w] OBVIOUS
  <2>2. job' = [job EXCEPT ![k] = j] BY <1>1, <1>4, <2>1
  <2>3. j \in Job /\ j.made = job[k].made /\ j.stalls = job[k].stalls BY <1>1, <2>1 DEF Job
  <2>4. JobsInv' BY <1>1, <2>2, <2>3, OneJob DEF DigestInv
  <2>5. PICK r : r = [Idle EXCEPT !.pc = "eligible", !.key = k, !.at = clock] OBVIOUS
  <2>6. wk' = [wk EXCEPT ![w] = r] BY <1>4, <2>5, Zenon
  <2>7. r \in WorkerState /\ r.pc = "eligible" /\ r.key = k /\ r.at = clock /\ r.lease = NoLease
    <3>1. r = [pc |-> "eligible", key |-> k, at |-> clock, lease |-> NoLease] BY <2>5 DEF Idle
    <3> QED BY <3>1 DEF DigestInv, WorkersInv, WorkerState, Stages, NoLease, Leases
  <2>8. /\ wk' \in [Workers -> WorkerState] /\ wk'[w] = r
        /\ \A v \in Workers \ {w} : wk'[v] = wk[v]
    BY <2>6, <2>7 DEF DigestInv, WorkersInv
  <2>9. clock \in 0 .. clock BY DEF DigestInv, WorkersInv, Times
  <2>10. WorkersInv' BY <1>1, <2>7, <2>8, <2>9 DEF DigestInv, WorkersInv
  <2> QED BY <1>1, <1>2, <2>4, <2>10, LedgerStays
<1> QED BY <1>3, <1>4 DEF StartJob

-----------------------------------------------------------------------------
(* Steps of a worker                                                         *)

\* A worker that is at a stage knows its digest.
LEMMA AtWork ==
  ASSUME DigestInv, NEW w \in Workers, wk[w].pc # "idle"
  PROVE  wk[w].key \in Keys /\ clock \in Recent /\ clock \in 0 .. clock
BY NowIsRecent DEF DigestInv, WorkersInv, Times

\* A worker changes its stage or returns from its job.
Moves(w) ==
  \/ JobCompleted(w)
  \/ JobThrew(w)
  \/ UNCHANGED job /\ \E stage \in Stages \ {"idle", "eligible"} :
       GoTo(w, stage) /\ (stage = "reserve" => wk[w].pc = "eligible")
  \/ UNCHANGED job /\ \E stage \in {"failing", "claim", "markFailed"} :
       wk' = [wk EXCEPT ![w].pc = stage, ![w].at = NoTime]

LEMMA GoToMoves ==
  ASSUME NEW w \in Workers, NEW stage \in Stages \ {"idle", "eligible", "reserve"},
         GoTo(w, stage), UNCHANGED job
  PROVE  Moves(w)
BY DEF Moves

LEMMA MovesKeep ==
  ASSUME DigestInv, NEW w \in Workers, wk[w].pc # "idle", Moves(w), clock' = clock
  PROVE  WorkersInv' /\ JobsInv'
<1>1. CASE JobCompleted(w) BY <1>1, JobCompletedKeeps DEF DigestInv
<1>2. CASE JobThrew(w) BY <1>2, JobThrewKeeps DEF DigestInv
<1>3. CASE UNCHANGED job /\ \E stage \in Stages \ {"idle", "eligible"} :
             GoTo(w, stage) /\ (stage = "reserve" => wk[w].pc = "eligible")
  <2>1. WorkersInv' BY <1>3, GoToKeeps DEF DigestInv
  <2> QED BY <1>3, <2>1 DEF DigestInv, JobsInv
<1>4. ASSUME NEW stage \in {"failing", "claim", "markFailed"},
             wk' = [wk EXCEPT ![w].pc = stage, ![w].at = NoTime], UNCHANGED job
      PROVE  WorkersInv' /\ JobsInv'
  <2>1. wk \in [Workers -> WorkerState] BY DEF DigestInv, WorkersInv
  <2>2. wk' = [wk EXCEPT ![w] = [@ EXCEPT !.pc = stage, !.at = NoTime]]
    BY <1>4, <2>1 DEF WorkerState
  <2>3. [wk[w] EXCEPT !.pc = stage, !.at = NoTime] \in WorkerState
    BY <2>1 DEF WorkerState, Stages
  <2>4. /\ wk' \in [Workers -> WorkerState]
        /\ wk'[w].pc = stage /\ wk'[w].key = wk[w].key /\ wk'[w].lease = wk[w].lease
        /\ \A v \in Workers \ {w} : wk'[v] = wk[v]
    BY <2>1, <2>2, <2>3 DEF WorkerState
  <2> QED BY <1>4, <2>4 DEF DigestInv, WorkersInv, JobsInv
<1> QED BY <1>1, <1>2, <1>3, <1>4 DEF Moves

\* The worker moves, perhaps with a new status of its digest, and neither the
\* ledger nor the usage log changes.
LEMMA WorkerMoves ==
  ASSUME DigestInv, NEW w \in Workers, wk[w].pc # "idle", Moves(w),
         UNCHANGED <<clock, op, period, adding, log, disabled>>,
         \/ UNCHANGED digest
         \/ \E status \in DigestStatuses \ {"COMPLETED"} :
              digest' = [digest EXCEPT ![wk[w].key] = status]
  PROVE  Keeps
<1>1. WorkersInv' /\ JobsInv' BY MovesKeep
<1>2. RowsInv' /\ \A k \in Keys : digest'[k] = "COMPLETED" => digest[k] = "COMPLETED"
  <2>1. CASE UNCHANGED digest BY <2>1 DEF DigestInv, RowsInv
  <2>2. ASSUME NEW status \in DigestStatuses \ {"COMPLETED"},
               digest' = [digest EXCEPT ![wk[w].key] = status]
        PROVE  RowsInv' /\ \A k \in Keys : digest'[k] = "COMPLETED" => digest[k] = "COMPLETED"
    <3>1. PICK k \in Keys : k = wk[w].key BY AtWork
    <3>2. RowsInv /\ digest' = [digest EXCEPT ![k] = status] /\ UNCHANGED <<adding, log, disabled>>
      BY <2>2, <3>1 DEF DigestInv
    <3>3. /\ RowsInv'
          /\ \A j \in Keys : digest'[j] = IF j = k THEN status ELSE digest[j]
      BY <3>2, SetDigest
    <3> QED BY <2>2, <3>3
  <2> QED BY <2>1, <2>2
<1> QED BY <1>1, <1>2, LedgerStays

LEMMA UnpaidKeeps ==
  ASSUME DigestInv, NEW w \in Workers,
         \/ CheckEligibility(w) \/ StartDigest(w) \/ CancelDigest(w) \/ ProviderAnswers(w)
         \/ MarkDigestFailed(w)
  PROVE  Keeps
<1>1. CASE CheckEligibility(w)
  BY <1>1, WorkerMoves DEF Moves, CheckEligibility, Stages, DigestStatuses
<1>2. CASE StartDigest(w)
  <2>1. Moves(w) BY <1>2, GoToMoves DEF StartDigest, Stages
  <2> QED BY <1>2, <2>1, WorkerMoves DEF StartDigest, DigestStatuses
<1>3. CASE CancelDigest(w)
  BY <1>3, WorkerMoves DEF Moves, CancelDigest, DigestStatuses
<1>4. CASE ProviderAnswers(w)
  BY <1>4, WorkerMoves DEF Moves, ProviderAnswers, Stages
<1>5. CASE MarkDigestFailed(w)
  BY <1>5, WorkerMoves DEF Moves, MarkDigestFailed, DigestStatuses
<1> QED BY <1>1, <1>2, <1>3, <1>4, <1>5

\* The worker moves with a ledger call that charges nothing, or with none.
LEMMA WorkerCalls ==
  ASSUME DigestInv, NEW w \in Workers, wk[w].pc # "idle", Moves(w),
         UNCHANGED <<digest, adding, log, disabled>>, clock' = clock,
         UNCHANGED ledgerVars \/ (LedgerNext /\ \A k \in Keys : op'[k].consumed = op[k].consumed)
  PROVE  Keeps
<1>1. WorkersInv' /\ JobsInv' BY MovesKeep
<1>2. CASE UNCHANGED ledgerVars BY <1>2, WorkerMoves DEF ledgerVars
<1>3. CASE LedgerNext /\ \A k \in Keys : op'[k].consumed = op[k].consumed
  BY <1>1, <1>3, LedgerCall
<1> QED BY <1>2, <1>3

LEMMA ReserveKeeps ==
  ASSUME DigestInv, NEW w \in Workers, ReserveStep(w)
  PROVE  Keeps
<1>1. PICK k \in Keys, now \in 0 .. clock : k = wk[w].key /\ now = wk[w].at
  BY DEF ReserveStep, DigestInv, WorkersInv
<1>2. /\ wk[w].pc = "reserve" /\ UNCHANGED <<digest, adding, log, disabled>>
      /\ ReserveNew(k, now) \/ RetryReservation(k, now) \/ UNCHANGED ledgerVars
  BY <1>1 DEF ReserveStep
<1>3. clock' = clock BY <1>2 DEF ReserveNew, RetryReservation, ledgerVars
<1>4. UNCHANGED ledgerVars \/ (LedgerNext /\ \A j \in Keys : op'[j].consumed = op[j].consumed)
  <2>1. CASE ReserveNew(k, now) \/ RetryReservation(k, now)
    <3>1. LedgerNext BY <2>1 DEF LedgerNext, LedgerReserve
    <3>2. now \in Int BY DEF DigestInv, WorkersInv, Times
    <3>3. \A j \in Keys : op'[j].consumed = op[j].consumed
      BY <2>1, <3>2, OthersKeepConsumed DEF DigestInv
    <3> QED BY <3>1, <3>3
  <2> QED BY <1>2, <2>1
<1>5. CASE JobCompleted(w) BY <1>2, <1>3, <1>4, <1>5, WorkerCalls DEF Moves
<1>6. CASE UNCHANGED job /\ \E stage \in {"failing", "claim"} :
             wk' = [wk EXCEPT ![w].pc = stage, ![w].at = NoTime]
  BY <1>2, <1>3, <1>4, <1>6, WorkerCalls DEF Moves
<1> QED BY <1>5, <1>6 DEF ReserveStep

LEMMA ClaimKeeps ==
  ASSUME DigestInv, NEW w \in Workers, ClaimStep(w)
  PROVE  Keeps
<1>1. /\ wk[w].pc = "claim" /\ wk[w].key \in Keys /\ clock \in Recent /\ clock \in Int
      /\ UNCHANGED <<digest, adding, log, disabled>>
  BY AtWork DEF ClaimStep, DigestInv, WorkersInv, Times
<1>2. CASE Claim(wk[w].key, w, clock) /\ GoTo(w, "reread") /\ UNCHANGED job
  <2>1. LedgerNext BY <1>1, <1>2 DEF LedgerNext, LedgerLease, Workers
  <2>2. \A j \in Keys : op'[j].consumed = op[j].consumed
    BY <1>1, <1>2, OthersKeepConsumed DEF DigestInv
  <2>3. clock' = clock /\ Moves(w) BY <1>2 DEF Claim, Moves, Stages
  <2> QED BY <1>1, <2>1, <2>2, <2>3, WorkerCalls
<1>3. CASE JobCompleted(w) /\ UNCHANGED ledgerVars
  BY <1>1, <1>3, WorkerCalls DEF Moves, ledgerVars
<1> QED BY <1>2, <1>3 DEF ClaimStep

LEMMA RereadKeeps ==
  ASSUME DigestInv, NEW w \in Workers, RereadStep(w)
  PROVE  Keeps
<1>1. /\ wk[w].pc = "reread" /\ wk[w].key \in Keys
      /\ UNCHANGED <<clock, op, period, digest, adding, job, log, disabled>>
  BY AtWork DEF RereadStep
<1>2. CASE GoTo(w, "failing") BY <1>1, <1>2, GoToMoves, WorkerMoves DEF Stages
<1>3. CASE /\ op[wk[w].key].owner = w
           /\ wk' = [wk EXCEPT ![w].pc = "start", ![w].lease = CurrentLease(wk[w].key)]
  <2>1. op[wk[w].key] \in AiOperationRecord BY <1>1 DEF DigestInv, LedgerInv, LedgerTypeOK
  <2>2. CurrentLease(wk[w].key) \in Leases BY <2>1 DEF CurrentLease, Leases, AiOperationRecord
  <2>3. /\ wk' \in [Workers -> WorkerState]
        /\ wk'[w].pc = "start" /\ wk'[w].key = wk[w].key
        /\ wk'[w].lease = CurrentLease(wk[w].key)
        /\ \A v \in Workers \ {w} : wk'[v] = wk[v]
    BY <1>3, <2>2 DEF DigestInv, WorkersInv, WorkerState, Stages
  <2>4. WorkersInv' BY <1>1, <1>3, <2>3 DEF DigestInv, WorkersInv, CurrentLease
  <2>5. JobsInv' /\ RowsInv' BY <1>1 DEF DigestInv, JobsInv, RowsInv
  <2> QED BY <1>1, <2>4, <2>5, LedgerStays
<1> QED BY <1>2, <1>3 DEF RereadStep

\* Giving a unit back is a ledger step, with a fence or without.
LEMMA FailCall ==
  ASSUME DigestInv, NEW k \in Keys, Fail(k)
  PROVE  LedgerNext /\ clock' = clock /\ \A j \in Keys : op'[j].consumed = op[j].consumed
<1>1. LedgerNext BY DEF LedgerNext
<1>2. \A j \in Keys : op'[j].consumed = op[j].consumed
  <2>1. 0 \in Int OBVIOUS
  <2> QED BY <2>1, OthersKeepConsumed DEF DigestInv
<1> QED BY <1>1, <1>2 DEF Fail

LEMMA RecheckKeeps ==
  ASSUME DigestInv, NEW w \in Workers, RecheckEligibility(w)
  PROVE  Keeps
<1>1. /\ wk[w].pc = "recheck" /\ wk[w].key \in Keys
      /\ UNCHANGED <<digest, adding, log, disabled>>
  BY AtWork DEF RecheckEligibility
<1>2. CASE GoTo(w, "provider") /\ UNCHANGED <<ledgerVars, job>>
  BY <1>1, <1>2, GoToMoves, WorkerCalls DEF Stages, ledgerVars
<1>3. CASE Fail(wk[w].key) /\ GoTo(w, "canceling") /\ UNCHANGED job
  BY <1>1, <1>3, GoToMoves, FailCall, WorkerCalls DEF Stages
<1>4. CASE JobCompleted(w) /\ UNCHANGED ledgerVars
  BY <1>1, <1>4, WorkerCalls DEF Moves, ledgerVars
<1> QED BY <1>2, <1>3, <1>4 DEF RecheckEligibility

LEMMA FailOperationKeeps ==
  ASSUME DigestInv, NEW w \in Workers, FailOperation(w)
  PROVE  Keeps
<1>1. /\ wk[w].pc = "failing" /\ wk[w].key \in Keys
      /\ UNCHANGED <<digest, adding, log, disabled>>
  BY AtWork DEF FailOperation
<1>2. CASE Fail(wk[w].key) /\ GoTo(w, "markFailed") /\ UNCHANGED job
  BY <1>1, <1>2, GoToMoves, FailCall, WorkerCalls DEF Stages
<1>3. CASE GoTo(w, "markFailed") /\ UNCHANGED <<ledgerVars, job>>
  BY <1>1, <1>3, GoToMoves, WorkerCalls DEF Stages, ledgerVars
<1>4. CASE JobCompleted(w) /\ UNCHANGED ledgerVars
  BY <1>1, <1>4, WorkerCalls DEF Moves, ledgerVars
<1> QED BY <1>2, <1>3, <1>4 DEF FailOperation

LEMMA HeartbeatKeeps ==
  ASSUME DigestInv, NEW w \in Workers, Heartbeat(w)
  PROVE  Keeps
<1>1. /\ wk[w].key \in Keys /\ clock \in Recent /\ clock \in Int
      /\ Renew(wk[w].key, wk[w].lease, clock) /\ UNCHANGED digestVars
  BY AtWork DEF Heartbeat, DigestInv, WorkersInv, Times
<1>2. Renew(wk[w].key, CurrentLease(wk[w].key), clock) BY <1>1 DEF Renew, Owns
<1>3. LedgerNext BY <1>1, <1>2 DEF LedgerNext, LedgerLease
<1>4. \A j \in Keys : op'[j].consumed = op[j].consumed
  BY <1>1, OthersKeepConsumed DEF DigestInv
<1>5. clock' = clock BY <1>1 DEF Renew
<1>6. WorkersInv' /\ JobsInv' BY <1>1, <1>5 DEF digestVars, DigestInv, WorkersInv, JobsInv
<1> QED BY <1>1, <1>3, <1>4, <1>6, LedgerCall DEF digestVars

\* The one call that charges: the usage log and the digest are written with it.
LEMMA ChargeKeeps ==
  ASSUME DigestInv, NEW w \in Workers, wk[w].pc = "finalize", UNCHANGED <<adding, disabled>>,
         Complete(wk[w].key, wk[w].lease, clock),
         digest' = [digest EXCEPT ![wk[w].key] = "COMPLETED"],
         log' = [log EXCEPT ![wk[w].key] = @ + 1],
         Moves(w)
  PROVE  Keeps
<1>1. clock \in Recent BY AtWork
<1>2. PICK k \in Keys : k = wk[w].key BY AtWork
<1>3. Complete(k, CurrentLease(k), clock) BY <1>2 DEF Complete, CanComplete, Owns
<1>4. LedgerNext BY <1>1, <1>3 DEF LedgerNext, LedgerLease
<1>5. LedgerInv' BY <1>4, LedgerInvNext DEF DigestInv
<1>6. clock' = clock BY <1>3 DEF Complete
<1>7. WorkersInv' /\ JobsInv' BY <1>6, MovesKeep
<1>8. RowsInv' BY <1>2 DEF DigestInv, RowsInv, DigestStatuses
<1>9. /\ op[k].status = "PROCESSING" /\ op'[k].consumed = 1
      /\ \A j \in Keys \ {k} : op'[j] = op[j]
  <2>1. op \in [Keys -> AiOperationRecord] BY DEF DigestInv, LedgerInv, LedgerTypeOK
  <2>2. /\ op[k].status = "PROCESSING"
        /\ op' = [op EXCEPT ![k] = [@ EXCEPT
                    !.status = "COMPLETED", !.consumed = 1, !.units = 0,
                    !.owner = NoOwner, !.expires = NoTime, !.retryableAt = NoTime]]
    BY <1>3 DEF Complete, CanComplete, Owns
  <2> QED BY <2>1, <2>2 DEF AiOperationRecord
<1>10. op[k].consumed = 0
  BY <1>9 DEF DigestInv, LedgerInv, LedgerTypeOK, UnitsFollowStatus, AiOperationRecord
<1>11. /\ log'[k] = log[k] + 1 /\ digest'[k] = "COMPLETED"
       /\ \A j \in Keys \ {k} : log'[j] = log[j] /\ digest'[j] = digest[j]
  BY <1>2 DEF DigestInv, RowsInv
<1>12. DigestChargedOnce' BY <1>9, <1>10, <1>11 DEF DigestInv, DigestChargedOnce
<1> QED BY <1>4, <1>5, <1>7, <1>8, <1>12 DEF DigestInv, Keeps

LEMMA FinalizeKeeps ==
  ASSUME DigestInv, NEW w \in Workers, Finalize(w)
  PROVE  Keeps
<1>1. wk[w].pc = "finalize" /\ UNCHANGED <<adding, disabled>> BY DEF Finalize
<1>2. CASE GoTo(w, "failing") /\ UNCHANGED <<ledgerVars, digest, log, job>>
  BY <1>1, <1>2, GoToMoves, WorkerCalls DEF Stages, ledgerVars
<1>3. CASE ~GoTo(w, "failing")
  BY <1>1, <1>3, ChargeKeeps DEF Finalize, Moves
<1> QED BY <1>1, <1>2, <1>3, ChargeKeeps DEF Finalize, Moves

\* Errors, with a call that was committed or without.
LEMMA ErrorMoves ==
  ASSUME NEW w \in Workers, OnError(w)
  PROVE  Moves(w) /\ wk[w].pc # "idle"
<1>1. CASE JobThrew(w) BY <1>1 DEF OnError, Moves
<1>2. CASE UNCHANGED job /\ wk' = [wk EXCEPT ![w].pc = "markFailed", ![w].at = NoTime]
  BY <1>2 DEF OnError, Moves
<1>3. CASE GoTo(w, "failing") /\ UNCHANGED job BY <1>3 DEF OnError, Moves, Stages
<1> QED BY <1>1, <1>2, <1>3 DEF OnError

LEMMA StatementFailsKeeps ==
  ASSUME DigestInv, NEW w \in Workers, StatementFails(w)
  PROVE  Keeps
BY ErrorMoves, WorkerMoves DEF StatementFails

LEMMA AnswerLostKeeps ==
  ASSUME DigestInv, NEW w \in Workers, AnswerLost(w)
  PROVE  Keeps
<1>1. Moves(w) /\ wk[w].pc # "idle" /\ UNCHANGED <<adding, disabled>>
  BY ErrorMoves DEF AnswerLost
<1>2. PICK k \in Keys : k = wk[w].key BY <1>1, AtWork
<1>3. clock \in Recent /\ clock \in Int BY <1>1, AtWork DEF DigestInv, WorkersInv, Times
<1>4. CASE /\ wk[w].pc = "reserve" /\ UNCHANGED <<digest, log>>
           /\ ReserveNew(k, wk[w].at) \/ RetryReservation(k, wk[w].at)
  <2>1. PICK now \in 0 .. clock : now = wk[w].at BY <1>4 DEF DigestInv, WorkersInv
  <2>2. LedgerNext BY <1>4, <2>1 DEF LedgerNext, LedgerReserve
  <2>3. clock' = clock BY <1>4 DEF ReserveNew, RetryReservation
  <2>4. \A j \in Keys : op'[j].consumed = op[j].consumed
    <3>1. now \in Int BY <1>3
    <3> QED BY <1>4, <2>1, <3>1, OthersKeepConsumed DEF DigestInv
  <2> QED BY <1>1, <1>4, <2>2, <2>3, <2>4, WorkerCalls
<1>5. CASE Claim(k, w, clock) /\ UNCHANGED <<digest, log>>
  <2>1. LedgerNext BY <1>3, <1>5 DEF LedgerNext, LedgerLease, Workers
  <2>2. \A j \in Keys : op'[j].consumed = op[j].consumed
    BY <1>3, <1>5, OthersKeepConsumed DEF DigestInv
  <2>3. clock' = clock BY <1>5 DEF Claim
  <2> QED BY <1>1, <1>5, <2>1, <2>2, <2>3, WorkerCalls
<1>6. CASE Fail(k) /\ UNCHANGED <<digest, log>>
  BY <1>1, <1>6, FailCall, WorkerCalls
<1>7. CASE /\ wk[w].pc = "finalize" /\ Complete(k, wk[w].lease, clock)
           /\ digest' = [digest EXCEPT ![k] = "COMPLETED"]
           /\ log' = [log EXCEPT ![k] = @ + 1]
  BY <1>1, <1>2, <1>7, ChargeKeeps
<1> QED BY <1>2, <1>4, <1>5, <1>6, <1>7 DEF AnswerLost

LEMMA CrashKeeps ==
  ASSUME DigestInv, NEW w \in Workers, Crash(w)
  PROVE  Keeps
<1>1. UNCHANGED <<clock, op, period, digest, adding, job, log, disabled>> BY DEF Crash
<1>2. WorkersInv' BY <1>1, EndKeeps DEF Crash, DigestInv
<1>3. JobsInv' /\ RowsInv' BY <1>1 DEF DigestInv, JobsInv, RowsInv
<1> QED BY <1>1, <1>2, <1>3, LedgerStays

LEMMA ReconciliationKeeps ==
  ASSUME DigestInv, RunReconciliation
  PROVE  Keeps
<1>1. PICK S \in SUBSET Keys : Reconcile(S, clock) BY DEF RunReconciliation
<1>2. UNCHANGED digestVars /\ clock' = clock BY <1>1 DEF RunReconciliation, Reconcile
<1>3. clock \in Recent BY NowIsRecent DEF DigestInv, WorkersInv
<1>4. LedgerNext BY <1>1, <1>3 DEF LedgerNext, LedgerReconcile
<1>5. \A j \in Keys : op'[j].consumed = op[j].consumed
  BY <1>1, ReconcileKeepsConsumed DEF DigestInv
<1>6. WorkersInv' /\ JobsInv' BY <1>2 DEF digestVars, DigestInv, WorkersInv, JobsInv
<1> QED BY <1>2, <1>4, <1>5, <1>6, LedgerCall DEF digestVars

LEMMA TimeKeeps ==
  ASSUME DigestInv, TimePasses
  PROVE  Keeps
<1>1. /\ UNCHANGED digestVars /\ UNCHANGED <<op, period>> /\ LedgerNext
      /\ clock' = clock + 1 /\ clock < MaxClock
  BY DEF TimePasses, Tick, LedgerNext
<1>2. clock' \in Times /\ \A t \in 0 .. clock : t \in 0 .. clock'
  BY <1>1, LedgerAssumption DEF DigestInv, WorkersInv, Times
<1>3. WorkersInv' BY <1>1, <1>2 DEF digestVars, DigestInv, WorkersInv
<1>4. JobsInv' BY <1>1 DEF digestVars, DigestInv, JobsInv
<1> QED BY <1>1, <1>3, <1>4, LedgerCall DEF digestVars

-----------------------------------------------------------------------------
(* Results                                                                   *)

LEMMA StepKeeps ==
  ASSUME DigestInv, [Next]_vars
  PROVE  Keeps
<1>1. CASE UNCHANGED vars
  <2>1. WorkersInv' /\ JobsInv' /\ RowsInv'
    BY <1>1 DEF vars, DigestInv, WorkersInv, JobsInv, RowsInv
  <2> QED BY <1>1, <2>1, LedgerStays DEF vars
<1> QED BY <1>1, RequestKeeps, StalledKeeps, StartJobKeeps, DisableKeeps, UnpaidKeeps, ReserveKeeps,
           ClaimKeeps, RereadKeeps, RecheckKeeps, FailOperationKeeps, HeartbeatKeeps, FinalizeKeeps,
           StatementFailsKeeps, AnswerLostKeeps, CrashKeeps, ReconciliationKeeps, TimeKeeps
        DEF Next, Work

\* The ledger, the workers, the queue jobs and the digests keep their
\* invariants in every reachable state.
THEOREM DigestInvariant == Spec => []DigestInv
<1>1. Init => DigestInv
  <2> SUFFICES ASSUME Init PROVE DigestInv
    OBVIOUS
  <2>1. LedgerInv BY LedgerInvInit DEF Init
  <2>2. WorkersInv
    BY <2>1, IdleType DEF Init, WorkersInv, LedgerInv, LedgerTypeOK
  <2>3. JobsInv BY NoJobType DEF Init, JobsInv
  <2>4. RowsInv BY DEF Init, RowsInv, DigestStatuses
  <2>5. DigestChargedOnce BY DEF Init, LedgerInit, NoOperation, DigestChargedOnce
  <2> QED BY <2>1, <2>2, <2>3, <2>4, <2>5 DEF DigestInv
<1>2. DigestInv /\ [Next]_vars => DigestInv' BY StepKeeps DEF Keeps
<1> QED BY <1>1, <1>2, PTL DEF Spec

\* The digests, the queue jobs and the workers keep their types; in particular
\* no queue job makes more attempts or stalls more often than it may.
THEOREM DigestTypes == Spec => []DigestTypeOK
<1>1. DigestInv => DigestTypeOK
  BY DEF DigestInv, LedgerInv, WorkersInv, JobsInv, RowsInv, DigestTypeOK
<1> QED BY <1>1, DigestInvariant, PTL

\* However often processAiDigestWithClient runs for one digest, overtaken,
\* failed or stopped anywhere: it is charged at most once, with one row of the
\* usage log, and a COMPLETED digest was charged.
THEOREM DigestIsChargedOnce == Spec => []DigestChargedOnce
<1>1. DigestInv => DigestChargedOnce BY DEF DigestInv
<1> QED BY <1>1, DigestInvariant, PTL

\* The digest pipeline implements the ledger for any number of users, digests,
\* workers and redeliveries: whatever its steps do, lost answers and the release
\* without a fence included, they only do what the ledger's functions can do.
THEOREM DigestIsLedgerCaller == Spec => DigestImplementsLedger
<1>1. Init => LedgerInit BY DEF Init
<1>2. DigestInv /\ [Next]_vars => [LedgerNext]_ledgerVars BY StepKeeps DEF Keeps
<1> QED BY <1>1, <1>2, DigestInvariant, PTL DEF Spec, DigestImplementsLedger, LedgerSpec

\* Digests never take a month over its limit: a consequence of the refinement.
THEOREM DigestStaysWithinLimit == Spec => []WithinLimit
<1>1. DigestInv => WithinLimit BY DEF DigestInv, LedgerInv
<1> QED BY <1>1, DigestInvariant, PTL

\* The attempt number fences a worker that was overtaken: the lease of an
\* operation changes hands only with a higher attempt, and what completed stays.
THEOREM DigestAttemptFences == Spec => AttemptFencesLease
<1>1. DigestInv /\ [Next]_vars => [FenceStep]_ledgerVars
  BY StepKeeps, FenceNext DEF Keeps, DigestInv
<1> QED BY <1>1, DigestInvariant, PTL DEF Spec, AttemptFencesLease, FenceStep
-----------------------------------------------------------------------------
(* Who takes a lease away                                                    *)

Token(k) == <<op[k].status, op[k].attempt, op[k].owner>>

\* The worker v acts with the lease of k, or releases k without one.
MayRelease(v, k) ==
  wk[v].key = k /\ (wk[v].lease = CurrentLease(k) \/ (wk[v].pc = "failing" /\ wk[v].lease = NoLease))

\* The calls that leave a lease alone which has not run out.
LEMMA LeaseStays ==
  ASSUME DigestInv, NEW k \in Keys, op[k].status = "PROCESSING", op[k].expires > clock,
         op[k].owner # NoOwner, NEW j \in Keys, NEW now,
         \/ ReserveNew(j, now) \/ RetryReservation(j, now)
         \/ \E w \in Workers : Claim(j, w, clock)
         \/ \E lease : Renew(j, lease, clock)
  PROVE  Token(k)' = Token(k)
<1>t. op \in [Keys -> AiOperationRecord] /\ clock \in Nat
  BY DEF DigestInv, LedgerInv, LedgerTypeOK, WorkersInv, Times
<1>1. CASE ReserveNew(j, now) \/ RetryReservation(j, now)
  <2>1. j # k BY <1>1 DEF ReserveNew, RetryReservation, Retryable
  <2>2. op'[k] = op[k] BY <1>1, <1>t, <2>1 DEF ReserveNew, RetryReservation, TakeUnit
  <2> QED BY <2>2 DEF Token
<1>2. ASSUME NEW w \in Workers, Claim(j, w, clock) PROVE Token(k)' = Token(k)
  <2>1. op[k].expires # NoTime BY <1>t DEF NoTime
  <2>2. ~(op[k].expires <= clock) BY <1>t DEF AiOperationRecord
  <2>3. j # k BY <1>2, <2>1, <2>2 DEF Claim, LeaseClaimable
  <2>4. op'[k] = op[k] BY <1>2, <1>t, <2>3 DEF Claim
  <2> QED BY <2>4 DEF Token
<1>3. ASSUME NEW lease, Renew(j, lease, clock) PROVE Token(k)' = Token(k)
  BY <1>3, <1>t DEF Renew, Token, AiOperationRecord
<1> QED BY <1>1, <1>2, <1>3

\* The reconciler takes leases that have run out.
LEMMA ReconcilerKeepsLease ==
  ASSUME DigestInv, NEW k \in Keys, op[k].expires > clock, RunReconciliation
  PROVE  Token(k)' = Token(k)
<1>1. op \in [Keys -> AiOperationRecord] /\ clock \in Nat
  BY DEF DigestInv, LedgerInv, LedgerTypeOK, WorkersInv, Times
<1>2. PICK S \in SUBSET Keys : Reconcile(S, clock) BY DEF RunReconciliation
<1>3. ~(op[k].expires <= clock) BY <1>1 DEF AiOperationRecord
<1>4. k \notin S BY <1>2, <1>3 DEF Reconcile, ReconciliationBatch, ExpiredOperations
<1>5. op'[k] = op[k] BY <1>2, <1>4 DEF Reconcile
<1> QED BY <1>5 DEF Token

\* A release or a completion touches the operation of its worker only.
LEMMA OnlyItsOperation ==
  ASSUME DigestInv, NEW k \in Keys, NEW j \in Keys, Token(k)' # Token(k),
         Fail(j) \/ \E lease : Complete(j, lease, clock)
  PROVE  j = k
<1>1. op \in [Keys -> AiOperationRecord] BY DEF DigestInv, LedgerInv, LedgerTypeOK
<1>2. j # k => op'[k] = op[k] BY <1>1 DEF Fail, Complete
<1> QED BY <1>2 DEF Token

\* A worker that makes one of these calls moves on.
LEMMA CallerMoves ==
  ASSUME DigestInv, NEW v \in Workers,
         RecheckEligibility(v) \/ Finalize(v) \/ FailOperation(v) \/ AnswerLost(v)
  PROVE  wk'[v] # wk[v]
<1>1. wk \in [Workers -> WorkerState] BY DEF DigestInv, WorkersInv
<1>2. wk'[v].pc # wk[v].pc
  BY <1>1, IdleType
     DEF RecheckEligibility, Finalize, FailOperation, AnswerLost, OnError, GoTo, JobCompleted, JobThrew,
         WorkerState
<1> QED BY <1>2

\* What takes a lease away that has not run out is a worker's own call.
LEMMA LeaseTakenBy ==
  ASSUME DigestInv, Next, NEW k \in Keys, op[k].status = "PROCESSING", op[k].expires > clock,
         op[k].owner # NoOwner, Token(k)' # Token(k)
  PROVE  \E v \in Workers : wk'[v] # wk[v] /\ MayRelease(v, k)
<1>1. op' # op BY DEF Token
<1>2. ASSUME NEW v \in Workers,
             RecheckEligibility(v) \/ Finalize(v) \/ FailOperation(v) \/ AnswerLost(v)
      PROVE  MayRelease(v, k)
  <2>1. wk[v].pc # "idle"
    BY <1>2 DEF RecheckEligibility, Finalize, FailOperation, AnswerLost, OnError
  <2>2. PICK j \in Keys : j = wk[v].key BY <2>1, AtWork
  <2>3. CASE Fail(j) \/ \E lease : Complete(j, lease, clock)
    <3>1. j = k BY <2>3, OnlyItsOperation
    <3>2. Owns(k, wk[v].lease) \/ (wk[v].pc = "failing" /\ wk[v].lease = NoLease)
      <4>1. CASE RecheckEligibility(v)
        BY <1>1, <2>2, <3>1, <4>1 DEF RecheckEligibility, ledgerVars
      <4>2. CASE Finalize(v)
        BY <1>1, <2>2, <3>1, <4>2 DEF Finalize, Complete, CanComplete, ledgerVars
      <4>3. CASE FailOperation(v)
        BY <1>1, <2>2, <3>1, <4>3 DEF FailOperation, ledgerVars
      <4>4. CASE AnswerLost(v)
        <5>1. CASE Owns(k, wk[v].lease) \/ (wk[v].pc = "failing" /\ wk[v].lease = NoLease)
          BY <5>1
        <5>2. CASE Complete(k, wk[v].lease, clock) BY <5>2 DEF Complete, CanComplete
        <5>3. CASE \/ ReserveNew(k, wk[v].at) \/ RetryReservation(k, wk[v].at)
                  \/ Claim(k, v, clock)
          BY <5>3, LeaseStays
        <5> QED BY <2>2, <3>1, <4>4, <5>1, <5>2, <5>3 DEF AnswerLost
      <4> QED BY <1>2, <4>1, <4>2, <4>3, <4>4
    <3> QED BY <2>2, <3>1, <3>2 DEF MayRelease, Owns
  <2>4. CASE ~(Fail(j) \/ \E lease : Complete(j, lease, clock))
    <3>1. AnswerLost(v)
      BY <1>1, <1>2, <2>2, <2>4 DEF RecheckEligibility, Finalize, FailOperation, ledgerVars
    <3>2. \/ ReserveNew(j, wk[v].at) \/ RetryReservation(j, wk[v].at)
          \/ Claim(j, v, clock)
      BY <2>2, <2>4, <3>1 DEF AnswerLost
    <3> QED BY <3>2, LeaseStays
  <2> QED BY <2>3, <2>4
<1>3. ASSUME NEW v \in Workers, ReserveStep(v) \/ ClaimStep(v) \/ Heartbeat(v) PROVE FALSE
  <2>1. wk[v].pc # "idle" BY <1>3 DEF ReserveStep, ClaimStep, Heartbeat
  <2>2. PICK j \in Keys : j = wk[v].key BY <2>1, AtWork
  <2>3. \/ ReserveNew(j, wk[v].at) \/ RetryReservation(j, wk[v].at)
        \/ Claim(j, v, clock) \/ Renew(j, wk[v].lease, clock)
    BY <1>1, <1>3, <2>2 DEF ReserveStep, ClaimStep, Heartbeat, ledgerVars
  <2> QED BY <2>3, LeaseStays
<1>4. ~RunReconciliation BY ReconcilerKeepsLease
<1>5. ASSUME NEW j \in Keys, NEW w \in Workers,
             \/ RequestDigest(j) \/ EnqueueDigest(j) \/ LoseEnqueue(j) \/ Stalled(j)
             \/ StartJob(w, j)
      PROVE  FALSE
  BY <1>1, <1>5 DEF RequestDigest, EnqueueDigest, LoseEnqueue, Stalled, StartJob
<1>6. ASSUME NEW v \in Workers,
             \/ CheckEligibility(v) \/ RereadStep(v) \/ StartDigest(v) \/ CancelDigest(v)
             \/ ProviderAnswers(v) \/ MarkDigestFailed(v) \/ StatementFails(v) \/ Crash(v)
      PROVE  FALSE
  BY <1>1, <1>6 DEF CheckEligibility, RereadStep, StartDigest, CancelDigest, ProviderAnswers,
                    MarkDigestFailed, StatementFails, Crash
<1>7. ~TimePasses /\ \A u \in Users : ~DisableUser(u)
  BY <1>1 DEF TimePasses, Tick, DisableUser
<1>8. \A j \in Keys : ~(RequestDigest(j) \/ EnqueueDigest(j) \/ LoseEnqueue(j) \/ Stalled(j))
  BY <1>1 DEF RequestDigest, EnqueueDigest, LoseEnqueue, Stalled
<1>9. PICK v \in Workers : RecheckEligibility(v) \/ Finalize(v) \/ FailOperation(v) \/ AnswerLost(v)
  BY <1>3, <1>4, <1>5, <1>6, <1>7, <1>8 DEF Next, Work
<1> QED BY <1>2, <1>9, CallerMoves

\* processAiDigestWithClient, with any number of workers and deliveries: a
\* worker whose lease has not run out keeps its operation until it gives it up
\* itself, but for the release without a lease.
THEOREM DigestHolderKeepsLease == Spec => HolderKeepsLiveLease
<1>1. ASSUME DigestInv, [Next]_vars, NEW w \in Workers, LosesLease(w)
      PROVE  \E v \in Workers : ReleasesUnfenced(v, wk[w].key)
  <2>1. /\ wk[w].lease # NoLease /\ wk[w].lease.owner = w /\ Owns(wk[w].key, wk[w].lease)
        /\ wk'[w] = wk[w] /\ Token(wk[w].key)' # Token(wk[w].key)
        /\ op[wk[w].key].expires > clock
    BY <1>1 DEF LosesLease, HoldsLiveLease, DigestInv, WorkersInv, Token
  <2>2. PICK k \in Keys : k = wk[w].key BY <1>1, <2>1 DEF DigestInv, WorkersInv
  <2>3. op[k].status = "PROCESSING" /\ op[k].owner = w /\ op[k].owner # NoOwner
    BY <2>1, <2>2, LedgerAssumption DEF Owns, CurrentLease, Workers
  <2>4. Next BY <1>1, <2>1 DEF vars, Token
  <2>5. PICK v \in Workers : wk'[v] # wk[v] /\ MayRelease(v, k)
    BY <1>1, <2>1, <2>2, <2>3, <2>4, LeaseTakenBy
  <2>6. CASE wk[v].lease = CurrentLease(k)
    <3>1. wk[v].lease = wk[w].lease BY <2>1, <2>2, <2>6 DEF Owns
    <3>2. v = w BY <1>1, <2>1, <3>1 DEF DigestInv, WorkersInv
    <3> QED BY <2>1, <2>5, <3>2
  <2> QED BY <2>2, <2>5, <2>6 DEF MayRelease, ReleasesUnfenced
<1>2. DigestInv /\ [Next]_vars =>
        [\A w \in Workers :
           LosesLease(w) => \E v \in Workers : ReleasesUnfenced(v, wk[w].key)]_vars
  BY <1>1
<1> QED BY <1>2, DigestInvariant, PTL DEF Spec, HolderKeepsLiveLease
=============================================================================
