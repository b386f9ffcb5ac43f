----------------------------- MODULE AiSummary -----------------------------
(***************************************************************************)
(* The interactive AI requests: generateArticleSummaryWithClient of        *)
(* src/lib/ai-summaries.ts and generateStoryClusterAnalysisWithClient of   *)
(* src/lib/story-cluster-analysis.ts, which have the same control flow.    *)
(* Each request is a process that looks in the result cache, reserves a    *)
(* unit, takes the lease, calls the provider while a heartbeat renews the  *)
(* lease, and stores the result, the usage log row and the completed       *)
(* operation in one transaction.  A process may stop at any point.         *)
(***************************************************************************)
EXTENDS AiLedger

CONSTANTS
  Results,     \* cached results: ArticleAiSummary or StoryClusterAnalysis rows
  ResultOf,    \* the result row each operation produces; users may share one
  NoRequestKey        \* no operation: the key of a process without a request

ASSUME SummaryAssumption ==
  /\ ResultOf \in [Keys -> Results]
  /\ NoRequestKey \notin Keys

Requests == Owners    \* one request per process; its id is its lease owner

VARIABLES
  req,       \* the local state of each request
  results,   \* the result rows stored
  usageLog        \* AiUsageLog rows written, by operation

summaryVars == <<clock, op, period, req, results, usageLog>>

NoRequestLease == [attempt |-> 0, owner |-> NoOwner]

RequestStages == {"idle", "reserve", "claim", "reread", "provider", "finalize", "failing"}

\* Where a request is, its operation, the date it passes to the reservation
\* and the lease it was given.
RequestState == [pc    : RequestStages,
                 key   : Keys \cup {NoRequestKey},
                 at    : Times \cup {NoTime},
                 lease : Leases]

IdleRequest == [pc |-> "idle", key |-> NoRequestKey, at |-> NoTime, lease |-> NoRequestLease]

RequestTo(p, stage) == req' = [req EXCEPT ![p].pc = stage]

End(p) == req' = [req EXCEPT ![p] = IdleRequest]

\* The request starts, finds no cached result and captures its date.
Begin(p, k) ==
  /\ req[p].pc = "idle"
  /\ ResultOf[k] \notin results
  /\ req' = [req EXCEPT ![p] = [IdleRequest EXCEPT !.pc = "reserve", !.key = k, !.at = clock]]
  /\ UNCHANGED <<clock, op, period, results, usageLog>>

\* reserveAiUsageOperation: a new row, a reopened row, or the existing row.
\* Only an operation that is reserved or processing goes on to the lease.
RequestReserves(p) ==
  LET k == req[p].key
      now == req[p].at
  IN
  /\ req[p].pc = "reserve"
  /\ \/ ReserveNew(k, now)
     \/ RetryReservation(k, now)
     \/ /\ op[k].status # "ABSENT"
        /\ ~Retryable(k, now)
        /\ UNCHANGED ledgerVars
  /\ IF op'[k].status \in {"RESERVED", "PROCESSING"}
     THEN req' = [req EXCEPT ![p].pc = "claim", ![p].at = NoTime]
     ELSE End(p)
  /\ UNCHANGED <<results, usageLog>>

\* claimAiUsageOperation; without a lease the request ends with the cached
\* result or with "already in progress".
RequestClaims(p) ==
  /\ req[p].pc = "claim"
  /\ \/ /\ Claim(req[p].key, p, clock)
        /\ RequestTo(p, "reread")
     \/ /\ ~LeaseClaimable(req[p].key, clock)
        /\ End(p)
        /\ UNCHANGED ledgerVars
  /\ UNCHANGED <<results, usageLog>>

\* The claimed row is read back; another owner by then ends the request.
RequestRereads(p) ==
  /\ req[p].pc = "reread"
  /\ IF op[req[p].key].owner = p
     THEN req' = [req EXCEPT ![p].pc = "provider", ![p].lease = CurrentLease(req[p].key)]
     ELSE End(p)
  /\ UNCHANGED <<clock, op, period, results, usageLog>>

\* Mutant: the heartbeat extends the lease without checking that it is held.
RequestHeartbeatUnfenced(p) ==
  /\ req[p].pc = "provider"
  /\ op' = [op EXCEPT ![req[p].key].expires = clock + Lease]
  /\ UNCHANGED <<clock, period, req, results, usageLog>>

\* runWithAiOperationLeaseHeartbeat: a renewal while the provider works; one
\* sent before the answer may reach the database after it.
RequestHeartbeat(p) ==
  /\ req[p].pc \in {"provider", "finalize", "failing"}
  /\ Renew(req[p].key, req[p].lease, clock)
  /\ UNCHANGED <<req, results, usageLog>>

\* The provider answers, or fails, times out or returns an unusable result.
RequestAnswered(p) ==
  /\ req[p].pc = "provider"
  /\ \E stage \in {"finalize", "failing"} : RequestTo(p, stage)
  /\ UNCHANGED <<clock, op, period, results, usageLog>>

\* Mutant: the usage log row is written outside the fenced transaction.
FinalizeLogsFirst(p) ==
  LET k == req[p].key IN
  /\ req[p].pc = "finalize"
  /\ usageLog' = [usageLog EXCEPT ![k] = @ + 1]
  /\ \/ /\ Complete(k, req[p].lease, clock)
        /\ results' = results \cup {ResultOf[k]}
        /\ End(p)
     \/ /\ ~CanComplete(k, req[p].lease, clock)
        /\ RequestTo(p, "failing")
        /\ UNCHANGED <<clock, op, period, results>>

\* The final transaction: result row, usage log row, completed operation.
\* When the lease was lost it rolls back and the request fails.
RequestFinalizes(p) ==
  LET k == req[p].key IN
  /\ req[p].pc = "finalize"
  /\ \/ /\ Complete(k, req[p].lease, clock)
        /\ results' = results \cup {ResultOf[k]}
        /\ usageLog' = [usageLog EXCEPT ![k] = @ + 1]
        /\ End(p)
     \/ /\ ~CanComplete(k, req[p].lease, clock)
        /\ RequestTo(p, "failing")
        /\ UNCHANGED <<clock, op, period, results, usageLog>>

\* The catch block: the unit is released if the lease is still the current
\* one, expired or not.
FailStep(p) ==
  /\ req[p].pc = "failing"
  /\ \/ Owns(req[p].key, req[p].lease) /\ Fail(req[p].key)
     \/ ~Owns(req[p].key, req[p].lease) /\ UNCHANGED ledgerVars
  /\ End(p)
  /\ UNCHANGED <<results, usageLog>>

\* The process stops; the rows it wrote stay.
RequestStops(p) ==
  /\ req[p].pc # "idle"
  /\ End(p)
  /\ UNCHANGED <<clock, op, period, results, usageLog>>

\* runAiOperationReconciliation of worker/index.ts.
SummaryReconciliation ==
  /\ \E S \in SUBSET Keys : Reconcile(S, clock)
  /\ UNCHANGED <<req, results, usageLog>>

SummaryTimePasses ==
  /\ Tick
  /\ UNCHANGED <<req, results, usageLog>>

SummaryInit ==
  /\ LedgerInit
  /\ req = [p \in Requests |-> IdleRequest]
  /\ results = {}
  /\ usageLog = [k \in Keys |-> 0]

RequestStep(p) ==
  \/ \E k \in Keys : Begin(p, k)
  \/ RequestReserves(p)
  \/ RequestClaims(p)
  \/ RequestRereads(p)
  \/ RequestHeartbeat(p)
  \/ RequestAnswered(p)
  \/ RequestFinalizes(p)
  \/ FailStep(p)
  \/ RequestStops(p)

SummaryNext ==
  \/ \E p \in Requests : RequestStep(p)
  \/ SummaryReconciliation
  \/ SummaryTimePasses

SummarySpec == SummaryInit /\ [][SummaryNext]_summaryVars /\ WF_summaryVars(SummaryReconciliation)

-----------------------------------------------------------------------------
\* The types of the request state.
SummaryTypeOK ==
  /\ LedgerTypeOK
  /\ req \in [Requests -> RequestState]
  /\ results \subseteq Results
  /\ usageLog \in [Keys -> Nat]

\* A user is charged exactly once for an operation, together with its usage
\* log row, and never without the stored result: the request that finds the
\* operation COMPLETED can always return the result.
ChargedOnceWithResult ==
  \A k \in Keys :
    /\ usageLog[k] = op[k].consumed
    /\ op[k].status = "COMPLETED" => ResultOf[k] \in results

Leased(p) == req[p].pc \in {"provider", "finalize", "failing"}

\* Two requests never hold the same lease of one operation, whatever was
\* claimed, lost, released and retried in between: the attempt they carry to
\* the fence differs, so at most one of them can still finish.
OneHolderPerAttempt ==
  \A p, q \in Requests :
    (p # q /\ Leased(p) /\ Leased(q) /\ req[p].key = req[q].key) =>
      req[p].lease.attempt # req[q].lease.attempt

\* The requests are callers of the ledger: every step they take is a ledger
\* step or leaves the ledger alone, so all that is proved of the ledger holds.
ImplementsLedger == LedgerSpec

\* A unit held under a lease that ran out is given back: an operation whose
\* worker stopped does not keep its unit (reconcileExpiredAiUsageOperations).
ExpiredLeaseReleased ==
  \A k \in Keys :
    (k \in ExpiredOperations(clock)) ~> (k \notin ExpiredOperations(clock))
=============================================================================
