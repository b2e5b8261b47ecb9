---------------------------- MODULE StatsTracker ----------------------------
(***************************************************************************)
(* Per-peer traffic accounting of the WireGuard backend: the tracker of    *)
(* node-main/pkg/stats/tracker.go and those who move it concurrently:      *)
(*   - the stats loop, which reads the device, then the store's email map, *)
(*     then applies the samples, and now and then cleans up;               *)
(*   - a sync, which moves the device, then the store, then calls          *)
(*     RemoveStats for every key it removed;                               *)
(*   - the panel's pulls with reset, for all users or for one.             *)
(* Pulls without reset, activity times and endpoints change no counter.    *)
(* Which email a key belongs to is left out: store is the set of keys of   *)
(* the email map.                                                          *)
(***************************************************************************)
EXTENDS Integers, FiniteSets

CONSTANTS
  Keys,        \* WireGuard public keys
  MaxTraffic,  \* bound: bytes a key moves in each direction
  None         \* no peer, no entry, no request

ASSUME BoundAssumption == MaxTraffic \in [{"rx", "tx"} -> Nat]

Dirs == {"rx", "tx"}
Zero == [d \in Dirs |-> 0]
Plus(a, b) == [d \in Dirs |-> a[d] + b[d]]
Minus(a, b) == [d \in Dirs |-> a[d] - b[d]]
NonNegative(a) == [d \in Dirs |-> IF a[d] < 0 THEN 0 ELSE a[d]]

Counters == [Dirs -> Nat]
Entry == [cur : Counters, base : [Dirs -> Int], lastDelta : Counters, isDeleted : BOOLEAN]

ASSUME NoneAssumption == None \notin Counters /\ None \notin Entry /\ None \notin Keys

VARIABLES
  kernel,    \* the device: key -> counters of the configured peer
  store,     \* keys of the PeerStore
  stats,     \* Tracker.stats: key -> entry
  sync,      \* the sync in progress, under syncMu
  job,       \* the stats loop's update in progress
  pull,      \* key looked up by a request for one user's stats
  traffic,   \* history: bytes each key has moved
  reported,  \* history: bytes pulls with reset have reported of each key
  recreated  \* history: keys whose dropped entry an outdated sample created anew

vars == <<kernel, store, stats, sync, job, pull, traffic, reported, recreated>>
tracker == <<stats, reported, recreated>>

NoSync == [pc |-> "idle", target |-> {}, due |-> {}]
NoJob == [pc |-> "idle", device |-> [k \in Keys |-> None], emails |-> {}, retired |-> {}]

Pending(e) == IF e = None THEN Zero ELSE Minus(e.cur, e.base)
ReportOf(e) == NonNegative(Pending(e))

-----------------------------------------------------------------------------
(* The device (external).                                                  *)

\* A peer moves a byte.
Traffic(k, d) ==
  /\ kernel[k] # None /\ traffic[k][d] < MaxTraffic[d]
  /\ kernel' = [kernel EXCEPT ![k][d] = @ + 1]
  /\ traffic' = [traffic EXCEPT ![k][d] = @ + 1]
  /\ UNCHANGED <<store, sync, job, pull, tracker>>

\* A peer that never completed a handshake has counted nothing.
Connected(c) == c # None /\ c # Zero

-----------------------------------------------------------------------------
(* Syncs, one at a time (syncMu).                                          *)

\* The device call: a peer added, or put back by ReplacePeers (full sync and
\* restart), starts counting from zero.
SyncDevice(target, replace) ==
  /\ sync.pc = "idle"
  /\ kernel' = [k \in Keys |-> IF k \notin target THEN None
                               ELSE IF replace \/ kernel[k] = None THEN Zero ELSE kernel[k]]
  /\ sync' = [NoSync EXCEPT !.pc = "store", !.target = target]
  /\ UNCHANGED <<store, job, pull, traffic, tracker>>

SyncPartial == \E target \in SUBSET Keys : SyncDevice(target, FALSE)
SyncFull == \E target \in SUBSET Keys : SyncDevice(target, TRUE)
Restart == SyncDevice(store, TRUE)

\* ApplyChanges or ReplaceAll.
SyncStore ==
  /\ sync.pc = "store"
  /\ store' = sync.target
  /\ sync' = IF store \subseteq sync.target THEN NoSync
             ELSE [sync EXCEPT !.pc = "stats", !.due = store \ sync.target]
  /\ UNCHANGED <<kernel, job, pull, traffic, tracker>>

\* What RemoveStats does to an entry.
Retire(e) == [e EXCEPT !.lastDelta = Pending(e), !.isDeleted = TRUE]

RemoveStats(k) ==
  /\ sync.pc = "stats" /\ k \in sync.due
  /\ stats' = IF stats[k] = None THEN stats ELSE [stats EXCEPT ![k] = Retire(@)]
  /\ job' = IF job.pc = "idle" THEN job ELSE [job EXCEPT !.retired = @ \cup {k}]
  /\ sync' = IF sync.due = {k} THEN NoSync ELSE [sync EXCEPT !.due = @ \ {k}]
  /\ UNCHANGED <<kernel, store, pull, traffic, reported, recreated>>

-----------------------------------------------------------------------------
(* The stats loop.                                                         *)

ReadDevice ==
  /\ job.pc = "idle"
  /\ job' = [NoJob EXCEPT !.pc = "emails", !.device = kernel]
  /\ UNCHANGED <<kernel, store, sync, pull, traffic, tracker>>

GetEmailMap ==
  /\ job.pc = "emails"
  /\ job' = [job EXCEPT !.pc = "update", !.emails = store]
  /\ UNCHANGED <<kernel, store, sync, pull, traffic, tracker>>

NewEntry == [cur |-> Zero, base |-> Zero, lastDelta |-> Zero, isDeleted |-> FALSE]

\* Fault variant of ApplySample: a rollback of the kernel counter is not noticed.
Fault_NoRollback(e, s) ==
  LET old == IF e = None THEN NewEntry ELSE e
      base == IF old.lastDelta # Zero THEN Minus(s, old.lastDelta) ELSE old.base
  IN [cur |-> s, base |-> base, lastDelta |-> Zero, isDeleted |-> FALSE]

\* applySampleLocked.  An unchanged sample leaves the base alone unless a
\* retired entry's pending delta is restored.
ApplySample(e, s) ==
  LET old == IF e = None THEN NewEntry ELSE e
      readded == old.lastDelta # Zero
      rollback == \E d \in Dirs : s[d] < old.cur[d]
      base == CASE readded -> Minus(s, old.lastDelta)
                [] ~readded /\ rollback -> Minus(s, ReportOf(old))
                [] OTHER -> old.base
  IN [cur |-> s, base |-> base, lastDelta |-> Zero, isDeleted |-> FALSE]

Sampled == {k \in job.emails : Connected(job.device[k])}

UpdateStatsBatch ==
  /\ job.pc = "update"
  /\ stats' = [k \in Keys |-> IF k \in Sampled THEN ApplySample(stats[k], job.device[k])
                              ELSE stats[k]]
  /\ recreated' = recreated \cup {k \in Sampled \cap job.retired : stats[k] = None}
  /\ job' = NoJob
  /\ UNCHANGED <<kernel, store, sync, pull, traffic, reported>>

\* Fault variant of CleanupDeletedEntries: pending traffic is dropped too.
Fault_CleanupDropsPending ==
  /\ job.pc = "idle"
  /\ stats' = [k \in Keys |-> IF stats[k] # None /\ stats[k].isDeleted THEN None ELSE stats[k]]
  /\ UNCHANGED <<kernel, store, sync, job, pull, traffic, reported, recreated>>

CleanupDeletedEntries ==
  /\ job.pc = "idle"
  /\ stats' = [k \in Keys |->
       IF stats[k] # None /\ stats[k].isDeleted /\ stats[k].cur = stats[k].base
       THEN None ELSE stats[k]]
  /\ UNCHANGED <<kernel, store, sync, job, pull, traffic, reported, recreated>>

-----------------------------------------------------------------------------
(* Pulls with reset.                                                       *)

\* Fault variant of ResetEntry: a retired entry is reported but neither reset
\* nor dropped.
Fault_ResetSkipsDeleted(e) == IF e = None \/ e.isDeleted THEN e ELSE [e EXCEPT !.base = e.cur]

\* Fault variant of ResetEntry: a retired entry is reset but not dropped.
Fault_ResetKeepsRetired(e) == IF e = None THEN None ELSE [e EXCEPT !.base = e.cur]

ResetEntry(e) == IF e = None \/ e.isDeleted THEN None ELSE [e EXCEPT !.base = e.cur]

Report(keys) ==
  /\ reported' = [k \in Keys |-> IF k \in keys THEN Plus(reported[k], ReportOf(stats[k]))
                                 ELSE reported[k]]
  /\ stats' = [k \in Keys |-> IF k \in keys THEN ResetEntry(stats[k]) ELSE stats[k]]

GetUsersStats ==
  /\ Report(Keys)
  /\ UNCHANGED <<kernel, store, sync, job, pull, traffic, recreated>>

\* handleUserStats: the key is looked up in the store, then its entry is read.
LookupUser(k) ==
  /\ pull = None /\ k \in store
  /\ pull' = k
  /\ UNCHANGED <<kernel, store, sync, job, traffic, tracker>>

GetStats ==
  /\ pull # None
  /\ Report({pull})
  /\ pull' = None
  /\ UNCHANGED <<kernel, store, sync, job, traffic, recreated>>

-----------------------------------------------------------------------------
\* After New: any set of peers, nothing counted.
Init ==
  /\ store \in SUBSET Keys
  /\ kernel = [k \in Keys |-> IF k \in store THEN Zero ELSE None]
  /\ stats = [k \in Keys |-> None]
  /\ sync = NoSync
  /\ job = NoJob
  /\ pull = None
  /\ traffic = [k \in Keys |-> Zero]
  /\ reported = [k \in Keys |-> Zero]
  /\ recreated = {}

Next ==
  \/ \E k \in Keys, d \in Dirs : Traffic(k, d)
  \/ SyncPartial
  \/ SyncFull
  \/ Restart
  \/ SyncStore
  \/ \E k \in Keys : RemoveStats(k)
  \/ ReadDevice
  \/ GetEmailMap
  \/ UpdateStatsBatch
  \/ CleanupDeletedEntries
  \/ GetUsersStats
  \/ \E k \in Keys : LookupUser(k)
  \/ GetStats

Spec == Init /\ [][Next]_vars

\* The panel keeps pulling all users' stats with reset.
FairSpec == Spec /\ WF_vars(GetUsersStats)

-----------------------------------------------------------------------------
(* Properties.                                                             *)

(* Every variable has its type; an entry's remembered delta is never       *)
(* negative, which applySampleLocked relies on when it restores it.        *)
TypeOK ==
  /\ kernel \in [Keys -> Counters \cup {None}]
  /\ store \in SUBSET Keys
  /\ stats \in [Keys -> Entry \cup {None}]
  /\ sync \in [pc : {"idle", "store", "stats"}, target : SUBSET Keys, due : SUBSET Keys]
  /\ job \in [pc : {"idle", "emails", "update"}, device : [Keys -> Counters \cup {None}],
              emails : SUBSET Keys, retired : SUBSET Keys]
  /\ pull \in Keys \cup {None}
  /\ traffic \in [Keys -> Counters]
  /\ reported \in [Keys -> Counters]
  /\ recreated \in SUBSET Keys

(* A byte is accounted at most once: what has been reported of a key and   *)
(* what its entry still holds never exceed what the key moved, over        *)
(* counter rollbacks, removals, re-adds and restarts, except for keys      *)
(* whose entry an outdated sample created anew (see TrafficReportedOnce).  *)
NoOvercount ==
  \A k \in Keys \ recreated, d \in Dirs :
    reported[k][d] + Pending(stats[k])[d] <= traffic[k][d]

(* Traffic that reached an entry is kept there until a pull reports it: no *)
(* rollback, removal, re-add, restart or clean-up lowers what is reported  *)
(* and pending together ("Persist pending deltas so re-add before stats    *)
(* pull won't lose data").                                                 *)
AccountedNeverLost ==
  [][\A k \in Keys, d \in Dirs :
       reported'[k][d] + Pending(stats[k])'[d] >= reported[k][d] + Pending(stats[k])[d]]_vars

(* A retired entry does not stay for ever while the panel keeps pulling:   *)
(* it is reported and dropped, or the peer comes back.                     *)
RetiredEntryLeaves ==
  \A k \in Keys : (stats[k] # None /\ stats[k].isDeleted)
                  ~> (stats[k] = None \/ ~stats[k].isDeleted)

(* NoOvercount without exception: the traffic of a removed peer that has   *)
(* been fully accounted is not reported again.                             *)
TrafficReportedOnce ==
  \A k \in Keys, d \in Dirs :
    reported[k][d] + Pending(stats[k])[d] <= traffic[k][d]

=============================================================================
