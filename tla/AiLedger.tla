------------------------------ MODULE AiLedger ------------------------------
(***************************************************************************)
(* The durable AI allowance ledger of src/lib/ai-usage.ts: the AiOperation *)
(* rows (one per idempotency key) and the AiUsagePeriod rows (one per user *)
(* and billing month).  Every store function of that file is an action     *)
(* here; a Prisma transaction or a single SQL statement is one step.  The  *)
(* specification LedgerSpec lets ANY caller make any of these calls at any *)
(* time, with a `now` it captured at any moment in the past: it is the     *)
(* contract on the allowance that the callers modelled in AiSummary and    *)
(* AiDigest implement.  Who may release a unit is no part of it, since the *)
(* lease of failAiUsageOperation is optional: that is up to the callers    *)
(* (HolderKeepsLiveLease in AiDigest).                                     *)
(***************************************************************************)
EXTENDS Integers, FiniteSets

CONSTANTS
  Users,        \* User rows
  Keys,         \* idempotency keys, one per logical AI operation
  UserOf,       \* the user each key belongs to
  Limit,        \* User.aiMonthlyLimit, which no code path updates
  Owners,       \* lease owners: one per process that may hold a lease
  NoOwner,      \* NULL in AiOperation.leaseOwner
  Lease,        \* AI_OPERATION_LEASE_DURATION_MS, in clock ticks
  BatchSize,    \* rows one reconciliation pass may take
  MaxSkew,      \* bound on the ticks between new Date() and its statement
  MaxClock,     \* bound on the clock
  PeriodStart   \* the first instant of the UTC month of each instant

Times == 0 .. MaxClock

NoTime == -1    \* NULL in a date column

ASSUME LedgerAssumption ==
  /\ UserOf \in [Keys -> Users]
  /\ Limit \in [Users -> Int]
  /\ NoOwner \notin Owners
  /\ IsFiniteSet(Keys)
  /\ Lease \in Nat \ {0}
  /\ BatchSize \in Nat \ {0}
  /\ MaxSkew \in Nat
  /\ MaxClock \in Nat
  /\ PeriodStart \in [Times -> Times]
  /\ \A t \in Times : PeriodStart[t] <= t

VARIABLES
  clock,    \* the time every process reads with new Date()
  op,       \* AiOperation rows by idempotency key
  period    \* AiUsagePeriod rows by user and period start

ledgerVars == <<clock, op, period>>

Statuses == {"ABSENT", "RESERVED", "PROCESSING", "COMPLETED", "FAILED"}

\* One AiOperation row; units is reservedUnits, period its AiUsagePeriod.
AiOperationRecord ==
  [status      : Statuses,
   attempt     : Nat,
   owner       : Owners \cup {NoOwner},
   expires     : Int,
   retryableAt : Times \cup {NoTime},
   period      : Times \cup {NoTime},
   units       : {0, 1},
   consumed    : {0, 1}]

NoOperation ==
  [status |-> "ABSENT", attempt |-> 0, owner |-> NoOwner, expires |-> NoTime,
   retryableAt |-> NoTime, period |-> NoTime, units |-> 0, consumed |-> 0]

\* One AiUsagePeriod row.  A row is inserted only when one unit fits its
\* limit, so limit = 0 stands for the absence of the row.
AiUsagePeriod == [limit : Nat, reserved : Nat, consumed : Nat]

NoPeriod == [limit |-> 0, reserved |-> 0, consumed |-> 0]

AtLeastZero(n) == IF n >= 0 THEN n ELSE 0

getAiUsagePeriodStart(now) == PeriodStart[now]

-----------------------------------------------------------------------------
(* The conditional upsert on AiUsagePeriod that takes one unit.            *)

\* Mutant: the capacity test forgets what was already consumed.
HasCapacityForgetsConsumed(u, s) ==
  LET row == period[u][s]
  IN  IF row.limit = 0
      THEN 1 <= AtLeastZero(Limit[u])
      ELSE row.reserved + 1 <= row.limit

HasCapacity(u, s) ==
  LET row == period[u][s]
  IN  IF row.limit = 0
      THEN 1 <= AtLeastZero(Limit[u])
      ELSE row.reserved + row.consumed + 1 <= row.limit

WithOneMoreReserved(u, s) ==
  IF period[u][s].limit = 0
  THEN [limit |-> AtLeastZero(Limit[u]), reserved |-> 1, consumed |-> 0]
  ELSE [period[u][s] EXCEPT !.reserved = @ + 1]

\* Take a unit of the month of `now` for the row `fresh` of key k, or leave
\* the operation FAILED with MONTHLY_LIMIT_REACHED and no retry date.
TakeUnit(k, fresh, now) ==
  LET u == UserOf[k]
      s == getAiUsagePeriodStart(now)
  IN  IF HasCapacity(u, s)
      THEN /\ op' = [op EXCEPT ![k] = [fresh EXCEPT
                       !.status = "RESERVED", !.period = s, !.units = 1]]
           /\ period' = [period EXCEPT ![u][s] = WithOneMoreReserved(u, s)]
      ELSE /\ op' = [op EXCEPT ![k] = [fresh EXCEPT
                       !.status = "FAILED", !.units = 0]]
           /\ UNCHANGED period

\* reserveAiUsageOperation on a key that has no row yet.
ReserveNew(k, now) ==
  /\ op[k].status = "ABSENT"
  /\ TakeUnit(k, NoOperation, now)
  /\ UNCHANGED clock

Retryable(k, now) ==
  /\ op[k].status = "FAILED"
  /\ op[k].units = 0
  /\ op[k].retryableAt # NoTime
  /\ op[k].retryableAt <= now

\* reserveAiUsageOperation on an existing key that may run again: the row is
\* reopened and charged to the month of this request, not of the first one.
RetryReservation(k, now) ==
  /\ Retryable(k, now)
  /\ TakeUnit(k, [op[k] EXCEPT !.expires = NoTime, !.owner = NoOwner,
                               !.period = NoTime, !.retryableAt = NoTime], now)
  /\ UNCHANGED clock

-----------------------------------------------------------------------------
(* The lease.                                                              *)

LeaseClaimable(k, now) ==
  /\ op[k].status \in {"RESERVED", "PROCESSING"}
  /\ op[k].expires = NoTime \/ op[k].expires <= now \/ op[k].owner = NoOwner
  /\ op[k].retryableAt = NoTime \/ op[k].retryableAt <= now

\* Mutant: a takeover keeps the attempt of the previous owner.
ClaimSameAttempt(k, w, now) ==
  /\ LeaseClaimable(k, now)
  /\ op' = [op EXCEPT ![k] = [@ EXCEPT
              !.owner = w, !.expires = now + Lease,
              !.retryableAt = NoTime, !.status = "PROCESSING"]]
  /\ UNCHANGED <<clock, period>>

\* claimAiUsageOperation: the conditional update that raises the attempt.
Claim(k, w, now) ==
  /\ LeaseClaimable(k, now)
  /\ op' = [op EXCEPT ![k] = [@ EXCEPT
              !.attempt = op[k].attempt + 1, !.owner = w, !.expires = now + Lease,
              !.retryableAt = NoTime, !.status = "PROCESSING"]]
  /\ UNCHANGED <<clock, period>>

Leases == [attempt : Nat, owner : Owners \cup {NoOwner}]

CurrentLease(k) == [attempt |-> op[k].attempt, owner |-> op[k].owner]

\* The fence of renew, complete and fail: attempt, owner and status match.
Owns(k, lease) ==
  /\ op[k].status = "PROCESSING"
  /\ lease = CurrentLease(k)

\* renewAiUsageOperationLease
Renew(k, lease, now) ==
  /\ Owns(k, lease)
  /\ op[k].expires > now
  /\ op' = [op EXCEPT ![k].expires = now + Lease]
  /\ UNCHANGED <<clock, period>>

\* The guard of completeAiUsageOperation; when it is false the call throws
\* and the surrounding transaction rolls back.
CanComplete(k, lease, now) ==
  /\ Owns(k, lease)
  /\ op[k].expires > now
  /\ op[k].period # NoTime
  /\ op[k].units >= 1
  /\ period[UserOf[k]][op[k].period].reserved >= op[k].units

WithUnitsConsumed(u, s, units) ==
  [limit    |-> period[u][s].limit,
   reserved |-> period[u][s].reserved - units,
   consumed |-> period[u][s].consumed + 1]

\* completeAiUsageOperation: the unit moves from reserved to consumed.
Complete(k, lease, now) ==
  /\ CanComplete(k, lease, now)
  /\ op' = [op EXCEPT ![k] = [@ EXCEPT
              !.status = "COMPLETED", !.consumed = 1, !.units = 0,
              !.owner = NoOwner, !.expires = NoTime, !.retryableAt = NoTime]]
  /\ period' = [period EXCEPT ![UserOf[k]][op[k].period] =
                  WithUnitsConsumed(UserOf[k], op[k].period, op[k].units)]
  /\ UNCHANGED clock

\* The row failAiUsageOperation leaves behind.
Released(row, retryableAt) ==
  [row EXCEPT !.status = "FAILED", !.units = 0, !.owner = NoOwner,
              !.expires = NoTime, !.retryableAt = retryableAt]

Unfinished(k) == op[k].status \in {"RESERVED", "PROCESSING"}

\* The units that the rows of S give back to the period of user u at s.
UnitsOf(S, u, s) ==
  Cardinality({k \in S : UserOf[k] = u /\ op[k].period = s /\ op[k].units = 1})

\* Mutant: the rows are released but the period row is not.
ReleaseUnitsSkipsPeriod(S) == UNCHANGED period

\* Give back what the rows of S hold, never below zero.
ReleaseUnits(S) ==
  period' = [u \in Users |-> [s \in Times |->
              [period[u][s] EXCEPT !.reserved = AtLeastZero(@ - UnitsOf(S, u, s))]]]

\* failAiUsageOperation once its lease check has passed, if the caller gave it a
\* lease: the callers have that check as a guard.  No caller in the application
\* asks for a retry date.
Fail(k) ==
  /\ Unfinished(k)
  /\ op' = [op EXCEPT ![k] = Released(@, NoTime)]
  /\ ReleaseUnits({k})
  /\ UNCHANGED clock

\* reconcileExpiredAiUsageOperations: one transaction that takes over and
\* then fails the rows whose lease has run out, oldest first, and lets them
\* be retried at once.
ExpiredOperations(now) ==
  {k \in Keys : /\ Unfinished(k)
                /\ op[k].expires # NoTime
                /\ op[k].expires <= now}

\* Mutant: the pass looks at reservations and forgets running operations.
ReconciliationBatchReservedOnly(S, now) ==
  /\ S \subseteq {k \in ExpiredOperations(now) : op[k].status = "RESERVED"}
  /\ S # {}

ReconciliationBatch(S, now) ==
  /\ S \subseteq ExpiredOperations(now)
  /\ S # {}
  /\ Cardinality(S) <= BatchSize
  /\ S # ExpiredOperations(now) => Cardinality(S) = BatchSize
  /\ \A k \in S, j \in ExpiredOperations(now) \ S : op[k].expires <= op[j].expires

Reconcile(S, now) ==
  /\ ReconciliationBatch(S, now)
  /\ op' = [k \in Keys |->
              IF k \in S
              THEN [Released(op[k], now) EXCEPT !.attempt = @ + 1]
              ELSE op[k]]
  /\ ReleaseUnits(S)
  /\ UNCHANGED clock

-----------------------------------------------------------------------------
Tick ==
  /\ clock < MaxClock
  /\ clock' = clock + 1
  /\ UNCHANGED <<op, period>>

LedgerInit ==
  /\ clock = 0
  /\ op = [k \in Keys |-> NoOperation]
  /\ period = [u \in Users |-> [s \in Times |-> NoPeriod]]

\* A reservation is made with the date its request started with; the other
\* calls default `now` to new Date() just before their statement runs.
LedgerReserve(k) ==
  \E now \in 0 .. clock : ReserveNew(k, now) \/ RetryReservation(k, now)

Recent == {t \in 0 .. clock : t >= clock - MaxSkew}

LedgerLease(k) ==
  \E now \in Recent :
    \/ \E w \in Owners : Claim(k, w, now)
    \/ Renew(k, CurrentLease(k), now)
    \/ Complete(k, CurrentLease(k), now)

LedgerReconcile ==
  \E now \in Recent : \E S \in SUBSET Keys : Reconcile(S, now)

LedgerNext ==
  \/ Tick
  \/ \E k \in Keys : LedgerReserve(k) \/ LedgerLease(k) \/ Fail(k)
  \/ LedgerReconcile

LedgerSpec == LedgerInit /\ [][LedgerNext]_ledgerVars

-----------------------------------------------------------------------------
(* Properties.                                                             *)

\* Every column keeps its type; in particular no counter of a period row
\* ever goes below zero.
LedgerTypeOK ==
  /\ clock \in Times
  /\ op \in [Keys -> AiOperationRecord]
  /\ period \in [Users -> [Times -> AiUsagePeriod]]

\* The keys that hold a unit of a period, and those that consumed one.
Holding(u, s) == {k \in Keys : UserOf[k] = u /\ op[k].period = s /\ op[k].units = 1}

Charged(u, s) == {k \in Keys : UserOf[k] = u /\ op[k].period = s /\ op[k].consumed = 1}

\* The counters of a period row are exactly what its operations hold and have
\* consumed: no interleaving of retries, takeovers, releases and months leaks
\* or double-counts a unit, so the divergence query of the reconciler
\* (ai-usage.ts, "ledgerDivergences") never finds a row.
LedgerBalanced ==
  \A u \in Users, s \in Times :
    /\ period[u][s].reserved = Cardinality(Holding(u, s))
    /\ period[u][s].consumed = Cardinality(Charged(u, s))

\* Concurrent requests cannot reserve more than the plan limit
\* (reserveAiUsageOperation): what is reserved and consumed in a month never
\* exceeds the limit the month was opened with.
WithinLimit ==
  \A u \in Users, s \in Times :
    period[u][s].reserved + period[u][s].consumed <= period[u][s].limit

\* A unit is held exactly while its operation is unfinished, and consumed
\* exactly when it completed: a release or a completion is never half done.
UnitsFollowStatus ==
  \A k \in Keys :
    /\ op[k].units = 1 <=> Unfinished(k)
    /\ op[k].consumed = 1 <=> op[k].status = "COMPLETED"
    /\ Unfinished(k) \/ op[k].status = "COMPLETED" => op[k].period # NoTime

\* A reservation whose caller stopped before it took a lease has no lease
\* date, so the reconciler never sees it (leaseExpiresAt lte now); it is only
\* recovered because a repeated request for the same key can always claim it.
StrandedReservationClaimable ==
  \A k \in Keys : op[k].status = "RESERVED" => LeaseClaimable(k, clock)

\* A lease changes hands only with a higher attempt (the fencing token), the
\* attempt never goes back, and a completed operation is never touched again.
AttemptFencesLease ==
  [][\A k \in Keys :
       /\ op'[k].attempt >= op[k].attempt
       /\ op'[k].owner \notin {op[k].owner, NoOwner} => op'[k].attempt > op[k].attempt
       /\ op[k].status = "COMPLETED" => op'[k] = op[k]]_ledgerVars
=============================================================================
