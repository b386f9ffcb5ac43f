----------------------------- MODULE MobileSync -----------------------------
(***************************************************************************)
(* Incremental synchronization of one user's mobile device: the journal     *)
(* that database triggers append to in the transaction of every change      *)
(* (prisma/migrations), its retention (mobile-sync-retention.ts), the sync  *)
(* and bootstrap requests (mobile-sync.ts), and on the device the           *)
(* coordinator, the page loop and the derived cache (apps/mobile).          *)
(*                                                                         *)
(* A change belongs to one cache key: what is kept of the mapping from      *)
(* events to cache entries is that an event makes its entry stale.  What a  *)
(* read returns is the number of changes of the key that it saw.            *)
(***************************************************************************)
EXTENDS Integers, FiniteSets, FiniteSetsExt

CONSTANTS
  Keys,           \* cache keys of the device
  Writers,        \* transactions that may be open at the same time
  NoKey,          \* no resource
  MaxSeq,         \* bound: sequence numbers given out
  PageLimit,      \* events of one page (limit)
  PruneBatch,     \* events of one retention batch
  MaxSyncFaults   \* bound: failed requests, the app stopping

ASSUME SyncAssumption ==
  /\ {MaxSeq, PageLimit, PruneBatch} \subseteq Nat \ {0}
  /\ MaxSyncFaults \in Nat
  /\ NoKey \notin Keys

Seqs == 1 .. MaxSeq

VARIABLES
  txn,        \* the open transaction of each writer
  began,      \* how many transactions began; gives occurredAt its order
  log,        \* the event of each sequence number given out (history)
  journal,    \* the sequence numbers of the visible rows of UserSyncEvent
  floor,      \* UserSyncCursorFloor.minimumSequence, 0 when there is no row
  version,    \* how many changes of each key are committed
  cursor,     \* the device's stored cursor, 0 when it has none
  cache,      \* the device's cache entry of each key
  fetch,      \* the read of each key under way
  sync,       \* the state of synchronizeMobileState
  rerun,      \* the coordinator's rerunRequested
  passState,  \* how the last pass of the coordinator ended
  skipped,    \* sequence numbers a page or a bootstrap went past unseen (history)
  syncFaults

server == <<txn, began, log, journal, floor, version>>
device == <<cursor, cache, fetch, sync, rerun, passState>>
syncVars == <<txn, began, log, journal, floor, version,
          cursor, cache, fetch, sync, rerun, passState, skipped, syncFaults>>

SyncFault == syncFaults < MaxSyncFaults /\ syncFaults' = syncFaults + 1

-----------------------------------------------------------------------------
(* The journal                                                               *)

\* seq is 0 until the trigger has inserted the event.
Txn == [key : Keys \cup {NoKey}, at : Nat, seq : Nat]

NoTxn == [key |-> NoKey, at |-> 0, seq |-> 0]

\* nth is the version the change made, 0 while it is not committed.
LogEntry == [key : Keys \cup {NoKey}, at : Nat, nth : Nat]

NoEvent == [key |-> NoKey, at |-> 0, nth |-> 0]

NextSeq == Cardinality({s \in Seqs : log[s] # NoEvent}) + 1

\* A transaction begins; CURRENT_TIMESTAMP is the time it began.
Begin(w) ==
  /\ txn[w] = NoTxn
  /\ began < MaxSeq
  /\ began' = began + 1
  /\ \E k \in Keys : txn' = [txn EXCEPT ![w] = [key |-> k, at |-> began + 1, seq |-> 0]]
  /\ UNCHANGED <<log, journal, floor, version, device, skipped, syncFaults>>

\* append_user_sync_event: the sequence number is given out at once, and the
\* row is not visible before the commit.
AppendEvent(w) ==
  /\ txn[w].key # NoKey
  /\ txn[w].seq = 0
  /\ NextSeq \in Seqs
  /\ log' = [log EXCEPT ![NextSeq] = [key |-> txn[w].key, at |-> txn[w].at, nth |-> 0]]
  /\ txn' = [txn EXCEPT ![w].seq = NextSeq]
  /\ UNCHANGED <<began, journal, floor, version, device, skipped, syncFaults>>

\* The highest sequence number that the device has, or will have when it
\* commits what it was sent.
Reached ==
  Max({cursor} \cup (IF sync.pc \in {"page", "reset"} THEN {sync.next} ELSE {}))

\* The change and its event become visible.  An event that commits after a
\* later one was read is never sent to the device.
Commit(w) ==
  LET s == txn[w].seq IN
  /\ s # 0
  /\ version' = [version EXCEPT ![txn[w].key] = @ + 1]
  /\ log' = [log EXCEPT ![s].nth = version[txn[w].key] + 1]
  /\ journal' = journal \cup {s}
  /\ skipped' = IF s <= Reached THEN skipped \cup {s} ELSE skipped
  /\ txn' = [txn EXCEPT ![w] = NoTxn]
  /\ UNCHANGED <<began, floor, device, syncFaults>>

Rollback(w) ==
  /\ txn[w] # NoTxn
  /\ txn' = [txn EXCEPT ![w] = NoTxn]
  /\ UNCHANGED <<began, log, journal, floor, version, device, skipped, syncFaults>>

\* The candidates of the retention: the oldest events up to time x.
IsCandidates(C, x) ==
  LET old == {s \in journal : log[s].at <= x} IN
  /\ C \subseteq old
  /\ Cardinality(C) = Min({PruneBatch, Cardinality(old)})
  /\ \A s \in C, t \in old \ C : log[s].at < log[t].at

\* No transaction that could still have something to do with events up to
\* time x is open: the retention is 180 days.
LongAgo(x) ==
  \A w \in Writers : txn[w] # NoTxn =>
    /\ txn[w].at > x
    /\ txn[w].seq # 0 => \A s \in journal : log[s].at <= x => s < txn[w].seq

\* Mutant: the floor is the last pruned sequence number, not the one after it.
PruneFloorLow ==
  /\ \E x \in 1 .. began, C \in SUBSET journal :
       /\ LongAgo(x)
       /\ C # {}
       /\ IsCandidates(C, x)
       /\ journal' = journal \ C
       /\ floor' = Max({floor, Max(C)})
  /\ UNCHANGED <<txn, began, log, version, device, skipped, syncFaults>>

\* pruneMobileSyncEvents, in one transaction.
Prune ==
  /\ \E x \in 1 .. began, C \in SUBSET journal :
       /\ LongAgo(x)
       /\ C # {}
       /\ IsCandidates(C, x)
       /\ journal' = journal \ C
       /\ floor' = Max({floor, Max(C) + 1})
  /\ UNCHANGED <<txn, began, log, version, device, skipped, syncFaults>>

-----------------------------------------------------------------------------
(* The derived cache of the device                                           *)

\* crossed: a page with an event of the key, or a reset, was committed since
\* the read saw the server's state.
Copy == [seen : -1 .. MaxSeq, crossed : BOOLEAN]

NoCopy == [seen |-> -1, crossed |-> FALSE]

\* useMobileQuery and useMobilePagination: a screen loads its data...
Load(k) ==
  /\ fetch[k] = NoCopy
  /\ fetch' = [fetch EXCEPT ![k] = [seen |-> version[k], crossed |-> FALSE]]
  /\ UNCHANGED <<server, cursor, cache, sync, rerun, passState, skipped, syncFaults>>

\* ... and writes it to the cache, whatever happened to the entry meanwhile;
\* or the screen is left, the request aborted, or the cache write fails.
CacheLoaded(k) ==
  /\ fetch[k] # NoCopy
  /\ fetch' = [fetch EXCEPT ![k] = NoCopy]
  /\ \/ cache' = [cache EXCEPT ![k] = fetch[k]]
     \/ UNCHANGED cache
  /\ UNCHANGED <<server, cursor, sync, rerun, passState, skipped, syncFaults>>

\* An old entry, or the one used least recently, is deleted for a new one.
Evict(k) ==
  /\ cache[k] # NoCopy
  /\ cache' = [cache EXCEPT ![k] = NoCopy]
  /\ UNCHANGED <<server, cursor, fetch, sync, rerun, passState, skipped, syncFaults>>

\* The entries of the keys in K are deleted, reads of them under way go on.
Invalidate(K) ==
  /\ cache' = [k \in Keys |-> IF k \in K THEN NoCopy ELSE cache[k]]
  /\ fetch' = [k \in Keys |-> IF k \in K /\ fetch[k] # NoCopy
                              THEN [fetch[k] EXCEPT !.crossed = TRUE] ELSE fetch[k]]

-----------------------------------------------------------------------------
(* The coordinator and the page loop                                         *)

Sync == [pc     : {"idle", "ask", "query", "page", "bootstrap", "reset"},
         booted : BOOLEAN,        \* bootstrapped
         page   : SUBSET Seqs,    \* the events received
         next   : 0 .. MaxSeq,    \* the cursor received
         more   : BOOLEAN]        \* hasMore

NoSync == [pc |-> "idle", booted |-> FALSE, page |-> {}, next |-> 0, more |-> FALSE]

\* MobileForegroundCoordinator.request.
RequestSync ==
  /\ ~rerun
  /\ rerun' = TRUE
  /\ UNCHANGED <<server, cursor, cache, fetch, sync, passState, skipped, syncFaults>>

\* One iteration of drain begins.
Drain ==
  /\ sync.pc = "idle"
  /\ rerun
  /\ rerun' = FALSE
  /\ passState' = "syncing"
  /\ sync' = [NoSync EXCEPT !.pc = "ask"]
  /\ UNCHANGED <<server, cursor, cache, fetch, skipped, syncFaults>>

EndPass(outcome) == sync' = NoSync /\ passState' = outcome

\* The cursor is outside the retained history.
ResyncRequired == cursor # 0 /\ cursor < floor - 1

\* listMobileSync reads the floor; FULL_RESYNC_REQUIRED leads to one bootstrap
\* of the pass, and fails it the second time.
ReadFloor ==
  /\ sync.pc = "ask"
  /\ \/ ~ResyncRequired /\ sync' = [sync EXCEPT !.pc = "query"] /\ UNCHANGED passState
     \/ ResyncRequired /\ ~sync.booted /\ sync' = [sync EXCEPT !.pc = "bootstrap"] /\ UNCHANGED passState
     \/ ResyncRequired /\ sync.booted /\ EndPass("failed")
  /\ UNCHANGED <<server, cursor, cache, fetch, rerun, skipped, syncFaults>>

\* The first PageLimit of the events that come after the cursor.
IsPage(P) ==
  LET later == {s \in journal : s > cursor} IN
  /\ P \subseteq later
  /\ Cardinality(P) = Min({PageLimit, Cardinality(later)})
  /\ \A s \in P, t \in later \ P : s < t

\* listMobileSync reads the events.  What was pruned since the floor was read,
\* or ever when the device has no cursor, is not among them.
ReadEvents ==
  /\ sync.pc = "query"
  /\ \E P \in SUBSET journal :
       /\ IsPage(P)
       /\ sync' = [sync EXCEPT !.pc   = "page",
                               !.page = P,
                               !.next = Max(P \cup {cursor}),
                               !.more = \E s \in journal : s > Max(P \cup {cursor})]
  /\ skipped' = skipped \cup (cursor + 1 .. floor - 1)
  /\ UNCHANGED <<server, cursor, cache, fetch, rerun, passState, syncFaults>>

\* Mutant: one page per pass, whatever hasMore says.
CommitPageOnce ==
  /\ sync.pc = "page"
  /\ Invalidate({log[s].key : s \in sync.page})
  /\ cursor' = sync.next
  /\ EndPass("idle")
  /\ UNCHANGED <<server, rerun, skipped, syncFaults>>

\* commitSyncPage: the entries of the page's events are deleted and the cursor
\* moves, in one transaction; the loop goes on while there is more.
CommitPage ==
  /\ sync.pc = "page"
  /\ Invalidate({log[s].key : s \in sync.page})
  /\ cursor' = sync.next
  /\ IF sync.more
     THEN sync' = [NoSync EXCEPT !.pc = "ask", !.booted = sync.booted] /\ UNCHANGED passState
     ELSE EndPass("idle")
  /\ UNCHANGED <<server, rerun, skipped, syncFaults>>

\* getMobileSyncBootstrap.
ReadHighWater ==
  /\ sync.pc = "bootstrap"
  /\ sync' = [sync EXCEPT !.pc = "reset", !.next = Max(journal \cup {0})]
  /\ UNCHANGED <<server, cursor, cache, fetch, rerun, passState, skipped, syncFaults>>

\* bootstrapSync: the whole cache is deleted and the cursor set.
Reset ==
  /\ sync.pc = "reset"
  /\ Invalidate(Keys)
  /\ cursor' = sync.next
  /\ sync' = [NoSync EXCEPT !.pc = "ask", !.booted = TRUE]
  /\ UNCHANGED <<server, rerun, passState, skipped, syncFaults>>

\* A request fails or its answer is lost.
RequestFails ==
  /\ SyncFault
  /\ sync.pc # "idle"
  /\ EndPass("failed")
  /\ UNCHANGED <<server, cursor, cache, fetch, rerun, skipped>>

\* The app is stopped and opened again later; the database file stays.
SyncAppStops ==
  /\ SyncFault
  /\ EndPass("stopped")
  /\ rerun' = FALSE
  /\ fetch' = [k \in Keys |-> NoCopy]
  /\ UNCHANGED <<server, cursor, cache, skipped>>

SyncInit ==
  /\ txn = [w \in Writers |-> NoTxn]
  /\ began = 0
  /\ log = [s \in Seqs |-> NoEvent]
  /\ journal = {}
  /\ floor = 0
  /\ version = [k \in Keys |-> 0]
  /\ cursor = 0
  /\ cache = [k \in Keys |-> NoCopy]
  /\ fetch = [k \in Keys |-> NoCopy]
  /\ sync = NoSync
  /\ rerun = FALSE
  /\ passState = "idle"
  /\ skipped = {}
  /\ syncFaults = 0

Pass == Drain \/ ReadFloor \/ ReadEvents \/ CommitPage \/ ReadHighWater \/ Reset

SyncNext ==
  \/ \E w \in Writers : Begin(w) \/ AppendEvent(w) \/ Commit(w) \/ Rollback(w)
  \/ Prune
  \/ \E k \in Keys : Load(k) \/ CacheLoaded(k) \/ Evict(k)
  \/ RequestSync \/ Pass \/ RequestFails \/ SyncAppStops

\* A pass that was asked for runs and goes on: nothing in it waits for
\* anything but an answer.
SyncSpec == SyncInit /\ [][SyncNext]_syncVars /\ WF_syncVars(Pass)

-----------------------------------------------------------------------------
(* Properties                                                                *)

SyncTypeOK ==
  /\ txn \in [Writers -> Txn]
  /\ began \in 0 .. MaxSeq
  /\ log \in [Seqs -> LogEntry]
  /\ journal \subseteq Seqs
  /\ floor \in 0 .. (MaxSeq + 1)
  /\ version \in [Keys -> 0 .. MaxSeq]
  /\ cursor \in 0 .. MaxSeq
  /\ cache \in [Keys -> Copy]
  /\ fetch \in [Keys -> Copy]
  /\ sync \in Sync
  /\ rerun \in BOOLEAN
  /\ passState \in {"idle", "syncing", "failed", "stopped"}
  /\ skipped \subseteq Seqs
  /\ syncFaults \in 0 .. MaxSyncFaults

\* The device shows an older state of k than the server has.
Stale(k) == cache[k] # NoCopy /\ cache[k].seen < version[k]

\* The entry of k will be deleted by events that are still to come.
ToCome(k) == \E s \in journal \cup sync.page : log[s].key = k /\ s > cursor

\* The changes of k that the entry lacks and a sync was not sent: those that
\* committed out of order, and those pruned after the floor was read.
Unsent(k) == {s \in skipped : log[s].key = k /\ log[s].nth > cache[k].seen}

WentPast(k) == \E s \in Unsent(k) : s <= cursor

\* The known ways in which an entry stays behind: the device has no cursor, so
\* that the floor is not compared with it; the cursor went past the change; or
\* the entry was written by a read that a sync overtook.
KnownGap(k) == (cursor = 0 /\ floor > 0) \/ WentPast(k) \/ cache[k].crossed

\* The device does not show an old state for good: an entry that is behind will
\* be deleted by events still to come or by a full resync, except for the
\* known gaps.
StaleIsCaught ==
  \A k \in Keys : Stale(k) => ToCome(k) \/ ResyncRequired \/ KnownGap(k)

\* A sync that is asked for deletes every entry that was behind when it was
\* asked for, also when a pass is already under way, or it fails visibly; only
\* the changes that a pass is not sent may take another one.
RequestCatchesUp ==
  \A k \in Keys :
    rerun /\ Stale(k) ~> ~Stale(k) \/ KnownGap(k) \/ Unsent(k) # {} \/ passState \in {"failed", "stopped"}
=============================================================================
