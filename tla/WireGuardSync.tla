---------------------------- MODULE WireGuardSync ----------------------------
(***************************************************************************)
(* The WireGuard backend of the node agent (node-main/backend/wireguard):  *)
(* the in-memory PeerStore, the kernel device it mirrors, and the calls    *)
(* that move both, New, SyncUser, UpdateUsers, UpdateUsersAndRestart,      *)
(* SyncUsers, Restart and Shutdown, issued by concurrent gRPC/REST         *)
(* handlers.                                                               *)
(*                                                                         *)
(* A call runs in the steps between which another goroutine can act:       *)
(*   start   lock syncMu, read the store, build the diff                   *)
(*   check   lock wg.mu: is the backend running?  take the manager         *)
(*   apply   lock m.mu: is the client open?  one ConfigureDevice call      *)
(*   commit  lock the store and update it (one step per loop iteration)    *)
(*   stats   one RemoveStats call per removed key                          *)
(* Shutdown takes wg.mu and m.mu but not syncMu, so it falls anywhere.     *)
(***************************************************************************)
EXTENDS Naturals, Sequences, FiniteSets

CONSTANTS
  Emails,    \* user identities
  Keys,      \* WireGuard public keys that parse
  BadKey,    \* a public key that does not parse
  IPs,       \* peer addresses (canonical CIDR) a request may carry
  PoolIPs,   \* those inside the interface's networks
  Callers,   \* handler goroutines
  UserMsgs,  \* the users a request may carry, as records of UserMsg
  MaxBatch,  \* bound: users per request
  None       \* the zero value: no peer, no key, no holder

ASSUME PoolAssumption == PoolIPs \subseteq IPs
ASSUME NoneAssumption ==
  /\ None \notin Keys /\ None \notin Callers /\ BadKey \notin Keys
  /\ \A S \in SUBSET PoolIPs : None # S /\ \A e \in Emails : None # [email |-> e, ips |-> S]
ASSUME BatchAssumption == MaxBatch \in Nat

(***************************************************************************)
(* One user of a request.  inbound: the interface is among the user's      *)
(* inbounds; ips: the addresses up to the first unparsable one; ipsValid:  *)
(* there is no unparsable one.  Order and duplicates of the address list   *)
(* are abstracted to a set.                                                *)
(***************************************************************************)
UserMsg == [email : Emails, inbound : BOOLEAN, key : Keys \cup {BadKey},
            ips : SUBSET IPs, ipsValid : BOOLEAN]

ASSUME UserMsgsAssumption == UserMsgs \subseteq UserMsg

Peer == [email : Emails, ips : (SUBSET PoolIPs) \ {{}}]

VARIABLES
  peers,       \* PeerStore.peers: key -> peer
  emailToKey,  \* PeerStore.emailToKey
  kernel,      \* the device: key -> allowed IPs of the configured peer
  dirty,       \* history: a ConfigureDevice call failed since the last replace
  state,       \* wg.state
  client,      \* manager.client # nil
  syncMu,      \* holder of wg.syncMu
  op           \* the call each handler is executing

vars == <<peers, emailToKey, kernel, dirty, state, client, syncMu, op>>
store == <<peers, emailToKey>>
device == <<kernel, dirty>>
lifecycle == <<state, client>>

NoPeers == [k \in Keys |-> None]
IdleOp == [pc |-> "idle", kind |-> "none", touched |-> {}, desired |-> NoPeers,
           removes |-> {}, upserts |-> {}, adds |-> {}, replaces |-> {},
           statsDue |-> {}]

\* The keys of a Go map from keys, and the map of a store filled from scratch.
Present(f) == {k \in Keys : f[k] # None}
KeyByEmail(f) ==
  [e \in Emails |-> IF \E k \in Present(f) : f[k].email = e
                    THEN CHOOSE k \in Present(f) : f[k].email = e ELSE None]

-----------------------------------------------------------------------------
(* Reading a request.                                                      *)

Requests == UNION {[1..n -> UserMsgs] : n \in 0..MaxBatch}

\* normalizeUsers drops a user without addresses ...
Wellformed(u) == u.ips # {}

\* ... and keeps the last remaining entry of every email.
NormalizeUsers(req) ==
  {req[i] : i \in {j \in DOMAIN req :
      /\ Wellformed(req[j])
      /\ \A l \in DOMAIN req : l > j /\ Wellformed(req[l]) => req[l].email # req[j].email}}

\* What normalizeUsers can return.
UserSets == {NormalizeUsers(req) : req \in Requests}

\* Users past the interface and public key checks of collectDesiredPeers.
Considered(u) == u.inbound /\ u.key # BadKey

\* peerIPAllowedOnInterface: addresses outside the interface's networks are skipped.
AllowedIPs(u) == u.ips \cap PoolIPs

\* Fault variant of Accepted: a user whose addresses were all skipped is kept.
Fault_AcceptedWithoutIPs(u) == Considered(u) /\ u.ipsValid

\* Users that end up as desired peers; the others are quarantined.
Accepted(u) == Considered(u) /\ u.ipsValid /\ AllowedIPs(u) # {}

\* The two errors of collectDesiredPeers; either fails the whole request.
CollectError(users) ==
  \E u, v \in users :
    /\ u.email # v.email
    /\ \/ Considered(u) /\ Considered(v) /\ AllowedIPs(u) \cap AllowedIPs(v) # {}
       \/ Accepted(u) /\ Accepted(v) /\ u.key = v.key

\* collectDesiredPeers, when it returns no error.
CollectDesiredPeers(users) ==
  [k \in Keys |->
     IF \E u \in users : Accepted(u) /\ u.key = k
     THEN LET u == CHOOSE u \in users : Accepted(u) /\ u.key = k
          IN  [email |-> u.email, ips |-> AllowedIPs(u)]
     ELSE None]

\* buildExistingPeersSubsetForTouched: the stored peers of the touched emails.
ExistingForTouched(touched) ==
  [k \in Keys |-> IF \E e \in touched : emailToKey[e] = k THEN peers[k] ELSE None]

\* Fault variant of OwnershipError: no ownership check.
Fault_NoOwnershipCheck(desired, touched) == FALSE

\* A desired key may only be taken from an owner the request also names.
OwnershipError(desired, touched) ==
  \E k \in Present(desired) :
    /\ peers[k] # None
    /\ peers[k].email # desired[k].email
    /\ peers[k].email \notin touched

\* Fault variant of Removes: stale keys are never removed.
Fault_NoRemoves(existing, desired) == {}

\* buildSyncDiff: keys to remove, to upsert in the store, to add to the device
\* and to update there with ReplaceAllowedIPs.
Removes(existing, desired) == Present(existing) \ Present(desired)
Upserts(existing, desired) == {k \in Present(desired) : existing[k] # desired[k]}
Adds(existing, desired) == Present(desired) \ Present(existing)
Replaces(existing, desired) ==
  {k \in Present(desired) \cap Present(existing) : existing[k].ips # desired[k].ips}

SyncOp(kind, touched, existing, desired) ==
  [IdleOp EXCEPT !.pc = "check", !.kind = kind, !.touched = touched, !.desired = desired,
                 !.removes = Removes(existing, desired),
                 !.upserts = Upserts(existing, desired),
                 !.adds = Adds(existing, desired),
                 !.replaces = Replaces(existing, desired)]

\* restartLocked: the snapshot of the store that will replace the device's peers.
RestartOp == [IdleOp EXCEPT !.pc = "check", !.kind = "restart", !.desired = peers]

-----------------------------------------------------------------------------
(* The device (wgctrl and the kernel, external).                           *)

\* One ConfigureDevice call that reaches the peers in K.  An address routes to
\* one peer: configuring it on a peer takes it from any other.
Configured(o, K) ==
  LET set == (o.adds \cup o.replaces) \cap K
      taken == UNION {o.desired[k].ips : k \in set}
      Kept(k) == IF kernel[k] = None THEN {} ELSE kernel[k]
  IN [k \in Keys |->
        CASE k \in o.removes \cap K -> None
          [] k \in o.replaces \cap K -> o.desired[k].ips
          [] k \in o.adds \cap K -> o.desired[k].ips \cup Kept(k)
          [] OTHER -> IF kernel[k] = None THEN None ELSE kernel[k] \ taken]

\* The same with ReplacePeers set.
Replaced(o, K) ==
  [k \in Keys |-> IF k \in K /\ o.desired[k] # None THEN o.desired[k].ips ELSE None]

-----------------------------------------------------------------------------
(* Starting a call.                                                        *)

\* The caller is free and the backend, once New has returned it, unlocked.
Idle(c) == op[c].pc = "idle" /\ state # "starting" /\ syncMu = None

\* Return from a call, with or without an error: the deferred syncMu.Unlock.
Return(c) ==
  /\ syncMu' = None
  /\ op' = [op EXCEPT ![c] = IdleOp]

\* A call takes syncMu.
Begin(c, o) == syncMu' = c /\ op' = [op EXCEPT ![c] = o]

\* syncUsersPartialReconcile up to its first lock of wg.mu.  A request that
\* fails its checks returns an error and changes nothing: no step.
PartialReconcile(c, users, kind) ==
  LET touched == {u.email : u \in users}
      desired == CollectDesiredPeers(users)
      o == SyncOp(kind, touched, ExistingForTouched(touched), desired)
  IN /\ ~CollectError(users)
     /\ ~OwnershipError(desired, touched)
     /\ Begin(c, [o EXCEPT !.pc = IF o.adds \cup o.replaces \cup o.removes = {}
                                  THEN "commit" ELSE "check"])
     /\ UNCHANGED <<store, device, lifecycle>>

SyncUser(c) ==
  /\ Idle(c)
  /\ \E u \in UserMsgs : PartialReconcile(c, NormalizeUsers(<<u>>), "partial")

UpdateUsers(c) ==
  /\ Idle(c)
  /\ \E users \in UserSets : PartialReconcile(c, users, "partial")

UpdateUsersAndRestart(c) ==
  /\ Idle(c)
  /\ \E users \in UserSets : PartialReconcile(c, users, "partialRestart")

\* syncUsersFull: the request is the whole user set; nothing happens when the
\* diff with the store is empty.
SyncUsers(c) ==
  /\ Idle(c)
  /\ \E users \in UserSets :
       LET o == SyncOp("full", Emails, peers, CollectDesiredPeers(users)) IN
       /\ ~CollectError(users)
       /\ o.removes \cup o.upserts # {}
       /\ Begin(c, o)
       /\ UNCHANGED <<store, device, lifecycle>>

\* Fault variant of Restart: syncMu is not taken.
Fault_RestartUnlocked(c) ==
  /\ op[c].pc = "idle" /\ state # "starting"
  /\ op' = [op EXCEPT ![c] = RestartOp]
  /\ UNCHANGED <<store, device, lifecycle, syncMu>>

Restart(c) ==
  /\ Idle(c)
  /\ Begin(c, RestartOp)
  /\ UNCHANGED <<store, device, lifecycle>>

-----------------------------------------------------------------------------
(* The steps of a call.                                                    *)

\* Fault variant of EnsureRunning: the error path forgets syncMu.
Fault_ErrorKeepsSyncMu(c) ==
  /\ op[c].pc = "check"
  /\ op' = [op EXCEPT ![c] = IF state = "running" THEN [@ EXCEPT !.pc = "apply"] ELSE IdleOp]
  /\ UNCHANGED <<store, device, lifecycle, syncMu>>

\* ensureRunningWithManagerLocked under wg.mu, and the manager is picked up.
EnsureRunning(c) ==
  /\ op[c].pc = "check"
  /\ IF state = "running"
     THEN op' = [op EXCEPT ![c].pc = "apply"] /\ UNCHANGED syncMu
     ELSE Return(c)
  /\ UNCHANGED <<store, device, lifecycle>>

\* Fault variant of ConfigureDevice: the client is not checked after Shutdown.
Fault_ConfigureClosedClient(c) ==
  /\ op[c].pc = "apply"
  /\ IF op[c].kind \in {"partial", "partialRestart"}
     THEN kernel' = Configured(op[c], Keys) /\ UNCHANGED dirty
     ELSE kernel' = Replaced(op[c], Keys) /\ dirty' = FALSE
  /\ IF op[c].kind = "restart"
     THEN Return(c)
     ELSE op' = [op EXCEPT ![c].pc = "commit"] /\ UNCHANGED syncMu
  /\ UNCHANGED <<store, lifecycle>>

\* ApplyPeers, ApplyPeersReplaceAll or ApplyConfig succeeds.
ConfigureDevice(c) ==
  /\ op[c].pc = "apply"
  /\ client
  /\ IF op[c].kind \in {"partial", "partialRestart"}
     THEN kernel' = Configured(op[c], Keys) /\ UNCHANGED dirty
     ELSE kernel' = Replaced(op[c], Keys) /\ dirty' = FALSE
  /\ IF op[c].kind = "restart"
     THEN Return(c)
     ELSE op' = [op EXCEPT ![c].pc = "commit"] /\ UNCHANGED syncMu
  /\ UNCHANGED <<store, lifecycle>>

\* The kernel refuses the call, possibly after applying part of it.
ConfigureDeviceFails(c) ==
  /\ op[c].pc = "apply"
  /\ client
  /\ \/ UNCHANGED device
     \/ \E K \in SUBSET Keys :
          /\ kernel' = IF op[c].kind \in {"partial", "partialRestart"}
                       THEN Configured(op[c], K) ELSE Replaced(op[c], K)
          /\ dirty' = TRUE
  /\ Return(c)
  /\ UNCHANGED <<store, lifecycle>>

\* The manager picked up before a Shutdown has no client any more.
ClientClosed(c) ==
  /\ op[c].pc = "apply"
  /\ ~client
  /\ Return(c)
  /\ UNCHANGED <<store, device, lifecycle>>

\* PeerStore.ReplaceAll.
ReplaceAll(c) ==
  LET new == op[c].desired IN
  /\ op[c].pc = "commit" /\ op[c].kind = "full"
  /\ peers' = new
  /\ emailToKey' = KeyByEmail(new)
  /\ op' = [op EXCEPT ![c].pc = "stats", ![c].statsDue = Present(peers) \ Present(new)]
  /\ UNCHANGED <<device, lifecycle, syncMu>>

\* PeerStore.ApplyChanges: take the store's lock,
LockStore(c) ==
  /\ op[c].pc = "commit" /\ op[c].kind # "full"
  /\ op' = [op EXCEPT ![c].pc = "storing"]
  /\ UNCHANGED <<store, device, lifecycle, syncMu>>

\* the body of its first loop,
ApplyRemove(c, k) ==
  /\ op[c].pc = "storing" /\ k \in op[c].removes
  /\ IF peers[k] # None
     THEN /\ emailToKey' = [emailToKey EXCEPT ![peers[k].email] = None]
          /\ peers' = [peers EXCEPT ![k] = None]
          /\ op' = [op EXCEPT ![c].removes = @ \ {k}, ![c].statsDue = @ \cup {k}]
     ELSE /\ op' = [op EXCEPT ![c].removes = @ \ {k}]
          /\ UNCHANGED store
  /\ UNCHANGED <<device, lifecycle, syncMu>>

\* Fault variant of ApplyUpsert: the previous owner's email keeps its key.
Fault_UpsertKeepsOldOwner(c, k) ==
  LET p == op[c].desired[k] IN
  /\ op[c].pc = "storing" /\ op[c].removes = {} /\ k \in op[c].upserts
  /\ peers' = [j \in Keys |-> IF j = k THEN p
                              ELSE IF j = emailToKey[p.email] THEN None ELSE peers[j]]
  /\ emailToKey' = [emailToKey EXCEPT ![p.email] = k]
  /\ op' = [op EXCEPT ![c].upserts = @ \ {k}]
  /\ UNCHANGED <<device, lifecycle, syncMu>>

\* the body of its second loop (keys in any order; the code sorts them),
ApplyUpsert(c, k) ==
  LET p == op[c].desired[k]
      oldKey == emailToKey[p.email]
  IN /\ op[c].pc = "storing" /\ op[c].removes = {} /\ k \in op[c].upserts
     /\ peers' = [j \in Keys |-> IF j = k THEN p
                                 ELSE IF j = oldKey THEN None ELSE peers[j]]
     /\ emailToKey' = [e \in Emails |->
          IF e = p.email THEN k
          ELSE IF peers[k] # None /\ peers[k].email = e THEN None ELSE emailToKey[e]]
     /\ op' = [op EXCEPT ![c].upserts = @ \ {k}]
     /\ UNCHANGED <<device, lifecycle, syncMu>>

\* and its return.
UnlockStore(c) ==
  /\ op[c].pc = "storing" /\ op[c].removes = {} /\ op[c].upserts = {}
  /\ op' = [op EXCEPT ![c].pc = "stats"]
  /\ UNCHANGED <<store, device, lifecycle, syncMu>>

\* statsTracker.RemoveStats (its effect is StatsTracker's subject).
RemoveStats(c, k) ==
  /\ op[c].pc = "stats" /\ k \in op[c].statsDue
  /\ op' = [op EXCEPT ![c].statsDue = @ \ {k}]
  /\ UNCHANGED <<store, device, lifecycle, syncMu>>

\* The sync is done; UpdateUsersAndRestart goes on with restartLocked.
FinishSync(c) ==
  /\ op[c].pc = "stats" /\ op[c].statsDue = {}
  /\ IF op[c].kind = "partialRestart"
     THEN op' = [op EXCEPT ![c] = RestartOp] /\ UNCHANGED syncMu
     ELSE Return(c)
  /\ UNCHANGED <<store, device, lifecycle>>

-----------------------------------------------------------------------------
(* The life cycle.                                                         *)

\* New: a request error or a failed InitializeWithPeers leaves no backend and,
\* the interface being deleted again, no device; both are stuttering steps.
New ==
  /\ state = "starting"
  /\ \E users \in UserSets :
       LET desired == CollectDesiredPeers(users) IN
       /\ ~CollectError(users)
       /\ kernel' = [k \in Keys |-> IF desired[k] = None THEN None ELSE desired[k].ips]
       /\ peers' = desired
       /\ emailToKey' = KeyByEmail(desired)
       /\ state' = "running" /\ client' = TRUE
       /\ UNCHANGED <<dirty, syncMu, op>>

\* Shutdown, under wg.mu and m.mu; deleting the interface may fail, which is
\* only logged.
Shutdown ==
  /\ state = "running"
  /\ state' = "stopped"
  /\ client' = FALSE
  /\ \/ kernel' = NoPeers
     \/ UNCHANGED kernel
  /\ UNCHANGED <<store, dirty, syncMu, op>>

Init ==
  /\ peers = NoPeers
  /\ emailToKey = [e \in Emails |-> None]
  /\ kernel = NoPeers
  /\ dirty = FALSE
  /\ state = "starting"
  /\ client = FALSE
  /\ syncMu = None
  /\ op = [c \in Callers |-> IdleOp]

\* A call in progress takes its next step.
Step(c) ==
  \/ EnsureRunning(c)
  \/ ConfigureDevice(c)
  \/ ConfigureDeviceFails(c)
  \/ ClientClosed(c)
  \/ ReplaceAll(c)
  \/ LockStore(c)
  \/ \E k \in Keys : ApplyRemove(c, k)
  \/ \E k \in Keys : ApplyUpsert(c, k)
  \/ UnlockStore(c)
  \/ \E k \in Keys : RemoveStats(c, k)
  \/ FinishSync(c)

Next ==
  \/ New
  \/ Shutdown
  \/ \E c \in Callers :
       \/ SyncUser(c)
       \/ UpdateUsers(c)
       \/ UpdateUsersAndRestart(c)
       \/ SyncUsers(c)
       \/ Restart(c)
       \/ Step(c)

Spec == Init /\ [][Next]_vars

\* A goroutine inside a call keeps running until the call returns.
FairSpec == Spec /\ \A c \in Callers : WF_vars(Step(c))

-----------------------------------------------------------------------------
(* Properties.                                                             *)

PcValues == {"idle", "check", "apply", "commit", "storing", "stats"}
Kinds == {"none", "partial", "partialRestart", "full", "restart"}
MaybePeer == {None} \cup Peer
Op == [pc : PcValues, kind : Kinds, touched : SUBSET Emails,
       desired : [Keys -> MaybePeer], removes : SUBSET Keys, upserts : SUBSET Keys,
       adds : SUBSET Keys, replaces : SUBSET Keys, statsDue : SUBSET Keys]

(* Every variable has its type; in particular a stored or desired peer     *)
(* always has at least one address inside the interface's networks, as     *)
(* collectDesiredPeers promises and buildPeerConfigsForRestart requires.   *)
TypeOK ==
  /\ peers \in [Keys -> MaybePeer]
  /\ emailToKey \in [Emails -> Keys \cup {None}]
  /\ kernel \in [Keys -> {None} \cup SUBSET PoolIPs]
  /\ dirty \in BOOLEAN
  /\ state \in {"starting", "running", "stopped"}
  /\ client \in BOOLEAN
  /\ syncMu \in Callers \cup {None}
  /\ op \in [Callers -> Op]

(* PeerStore "enforces a 1:1 mapping between User (Email) and WireGuard    *)
(* Public Key": peers and emailToKey are inverse to each other, after      *)
(* every iteration of ApplyChanges, key swaps and renames included.        *)
OneToOne ==
  /\ \A k \in Keys : peers[k] # None => emailToKey[peers[k].email] = k
  /\ \A e \in Emails : emailToKey[e] # None =>
       peers[emailToKey[e]] # None /\ peers[emailToKey[e]].email = e

Quiescent == syncMu = None /\ state = "running"

(* Between calls the store holds exactly the peers committed to the        *)
(* kernel, and knows every source address the kernel accepts from them: an *)
(* address change leaves no old one behind, a re-added key brings none     *)
(* back, whatever mix of syncs, restarts and refused syncs ran before,     *)
(* unless a ConfigureDevice call failed half way.                          *)
StoreMatchesKernel ==
  Quiescent /\ ~dirty =>
    /\ Present(peers) = Present(kernel)
    /\ \A k \in Present(kernel) : kernel[k] \subseteq peers[k].ips

(* What a call commits is what its request asked for: when the store is    *)
(* up to date, every touched user is stored with the desired key and       *)
(* addresses if accepted, and not at all if it was left out of the         *)
(* interface or quarantined; counters are then retired only of keys the    *)
(* store no longer holds, never of a peer that stays or has a new owner.   *)
SyncEffect ==
  \A c \in Callers : op[c].pc = "stats" =>
    /\ op[c].statsDue \cap Present(peers) = {}
    /\ \A k \in Keys :
         /\ op[c].desired[k] # None => peers[k] = op[c].desired[k]
         /\ peers[k] # None /\ op[c].desired[k] = None => peers[k].email \notin op[c].touched

PeerOf(e) == IF emailToKey[e] = None THEN None ELSE <<emailToKey[e], peers[emailToKey[e]]>>

(* A partial reconciliation never touches a user its request does not name *)
(* (syncUsersPartialReconcile's ownership check).                          *)
UntouchedUsersKept ==
  [][\A c \in Callers, e \in Emails :
       syncMu = c /\ op[c].kind \in {"partial", "partialRestart"} /\ e \notin op[c].touched
         => PeerOf(e)' = PeerOf(e)]_vars

(* Once Shutdown has run, no call that picked up the manager before it     *)
(* configures the device any more.                                         *)
ShutdownIsFinal == [][state = "stopped" => kernel' = kernel]_vars

(* Every call that takes syncMu gives it back, on its error paths too.     *)
SyncMuReleased == (syncMu # None) ~> (syncMu = None)

(* The store mirrors the kernel's allowed IPs too, as the comment of       *)
(* filterUpsertsByAppliedKeys has it.                                      *)
StoreMirrorsKernelIPs ==
  Quiescent /\ ~dirty =>
    \A k \in Present(peers) \cap Present(kernel) : kernel[k] = peers[k].ips

=============================================================================
