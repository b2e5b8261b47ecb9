-------------------------- MODULE WireGuardSyncProofs --------------------------
(***************************************************************************)
(* Proofs about WireGuardSync, for any sets of users, keys, addresses and  *)
(* handlers: type correctness, the 1:1 mapping of the PeerStore, and what  *)
(* the store and the device are to each other and to the requests.         *)
(***************************************************************************)
EXTENDS WireGuardSync, TLAPS

OnePeerPerUser(f) ==
  \A j, k \in Present(f) : f[j].email = f[k].email => j = k

\* What the steps of a call rely on: its plan only upserts and configures desired
\* peers, and no two desired peers belong to one user.
GoodOp(o) ==
  /\ o \in Op
  /\ o.upserts \subseteq Present(o.desired)
  /\ o.adds \subseteq Present(o.desired)
  /\ o.replaces \subseteq Present(o.desired)
  /\ OnePeerPerUser(o.desired)

PlanOK == \A c \in Callers : GoodOp(op[c])

\* The inductive invariant.
IInv == TypeOK /\ PlanOK /\ OneToOne

-----------------------------------------------------------------------------
(* What normalizeUsers returns.                                            *)

LEMMA UserSetsType == ASSUME NEW users \in UserSets PROVE users \subseteq UserMsg
<1>1. PICK req \in Requests : users = NormalizeUsers(req)
  BY DEF UserSets
<1>2. PICK n \in 0..MaxBatch : req \in [1..n -> UserMsgs]
  BY DEF Requests
<1>. QED
  BY <1>1, <1>2, UserMsgsAssumption DEF NormalizeUsers

LEMMA UserSetsUnique ==
  ASSUME NEW users \in UserSets, NEW u \in users, NEW v \in users, u.email = v.email
  PROVE  u = v
<1>1. PICK req \in Requests : users = NormalizeUsers(req)
  BY DEF UserSets
<1>2. PICK n \in 0..MaxBatch : req \in [1..n -> UserMsgs]
  BY DEF Requests
<1>3. n \in Nat
  BY BatchAssumption
<1>4. PICK i \in 1..n : /\ u = req[i] /\ Wellformed(req[i])
                        /\ \A l \in 1..n : l > i /\ Wellformed(req[l]) => req[l].email # req[i].email
  BY <1>1, <1>2 DEF NormalizeUsers
<1>5. PICK j \in 1..n : /\ v = req[j] /\ Wellformed(req[j])
                        /\ \A l \in 1..n : l > j /\ Wellformed(req[l]) => req[l].email # req[j].email
  BY <1>1, <1>2 DEF NormalizeUsers
<1>6. i = j
  BY <1>3, <1>4, <1>5
<1>. QED
  BY <1>4, <1>5, <1>6

\* The request of SyncUser is one of those of UpdateUsers, given room for one user.
LEMMA SingleUserType == ASSUME NEW u \in UserMsgs PROVE NormalizeUsers(<<u>>) \subseteq UserMsg
BY UserMsgsAssumption DEF NormalizeUsers

LEMMA SingleUserUnique ==
  ASSUME NEW w \in UserMsgs, NEW u \in NormalizeUsers(<<w>>), NEW v \in NormalizeUsers(<<w>>)
  PROVE  u = v
BY DEF NormalizeUsers

(* What collectDesiredPeers returns.                                       *)

LEMMA DesiredType ==
  ASSUME NEW users, users \subseteq UserMsg
  PROVE  CollectDesiredPeers(users) \in [Keys -> MaybePeer]
<1>. SUFFICES ASSUME NEW k \in Keys, \E u \in users : Accepted(u) /\ u.key = k
              PROVE  LET u == CHOOSE u \in users : Accepted(u) /\ u.key = k
                     IN  [email |-> u.email, ips |-> AllowedIPs(u)] \in Peer
  BY DEF CollectDesiredPeers, MaybePeer
<1>. DEFINE u == CHOOSE u \in users : Accepted(u) /\ u.key = k
<1>1. u \in users /\ Accepted(u)
  OBVIOUS
<1>2. AllowedIPs(u) \in (SUBSET PoolIPs) \ {{}}
  BY <1>1 DEF Accepted, AllowedIPs
<1>. QED
  BY <1>1, <1>2 DEF Peer, UserMsg

LEMMA DesiredInjective ==
  ASSUME NEW users, users \subseteq UserMsg,
         \A u, v \in users : u.email = v.email => u = v
  PROVE  OnePeerPerUser(CollectDesiredPeers(users))
<1>. DEFINE f == CollectDesiredPeers(users)
            U(k) == CHOOSE u \in users : Accepted(u) /\ u.key = k
<1>. SUFFICES ASSUME NEW j \in Present(f), NEW k \in Present(f), f[j].email = f[k].email
              PROVE  j = k
  BY DEF OnePeerPerUser
<1>1. \A i \in Present(f) : U(i) \in users /\ U(i).key = i /\ f[i].email = U(i).email
  <2>. SUFFICES ASSUME NEW i \in Present(f)
                PROVE  U(i) \in users /\ U(i).key = i /\ f[i].email = U(i).email
    OBVIOUS
  <2>1. \E u \in users : Accepted(u) /\ u.key = i
    BY DEF Present, CollectDesiredPeers
  <2>2. U(i) \in users /\ U(i).key = i
    BY <2>1
  <2>3. f[i] = [email |-> U(i).email, ips |-> AllowedIPs(U(i))]
    BY <2>1 DEF Present, CollectDesiredPeers
  <2>. QED
    BY <2>2, <2>3
<1>2. U(j) = U(k)
  BY <1>1
<1>. QED
  BY <1>1, <1>2

LEMMA KeyByEmailType == ASSUME NEW f PROVE KeyByEmail(f) \in [Emails -> Keys \cup {None}]
<1>. SUFFICES ASSUME NEW e \in Emails, \E k \in Present(f) : f[k].email = e
              PROVE  (CHOOSE k \in Present(f) : f[k].email = e) \in Keys
  BY DEF KeyByEmail
<1>. QED
  BY DEF Present
-----------------------------------------------------------------------------
(* Type correctness.                                                       *)

LEMMA SyncOpGood ==
  ASSUME NEW kind \in Kinds, NEW touched \in SUBSET Emails, NEW existing,
         NEW desired \in [Keys -> MaybePeer], OnePeerPerUser(desired)
  PROVE  GoodOp(SyncOp(kind, touched, existing, desired))
BY DEF GoodOp, SyncOp, Op, PcValues, IdleOp, Removes, Upserts, Adds, Replaces, Present

LEMMA IdleOpGood == GoodOp(IdleOp)
BY DEF GoodOp, OnePeerPerUser, Present, IdleOp, Op, PcValues, Kinds, NoPeers, MaybePeer

LEMMA RestartOpGood == ASSUME IInv PROVE GoodOp(RestartOp)
<1>1. OnePeerPerUser(peers)
  BY DEF IInv, OneToOne, OnePeerPerUser, Present
<1>2. RestartOp \in Op /\ RestartOp.desired = peers
  BY DEF IInv, TypeOK, RestartOp, IdleOp, Op, PcValues, Kinds
<1>3. RestartOp.upserts = {} /\ RestartOp.adds = {} /\ RestartOp.replaces = {}
  BY DEF RestartOp, IdleOp
<1>. QED
  BY <1>1, <1>2, <1>3 DEF GoodOp

\* The updates a call makes to its own plan.
LEMMA PcGood ==
  ASSUME NEW o, GoodOp(o), NEW pc \in PcValues PROVE GoodOp([o EXCEPT !.pc = pc])
BY DEF GoodOp, Op

LEMMA StatsDueGood ==
  ASSUME NEW o, GoodOp(o), NEW D \in SUBSET Keys PROVE GoodOp([o EXCEPT !.statsDue = D])
BY DEF GoodOp, Op

LEMMA RemovesGood ==
  ASSUME NEW o, GoodOp(o), NEW K \in SUBSET Keys PROVE GoodOp([o EXCEPT !.removes = K])
BY DEF GoodOp, Op

LEMMA UpsertsGood ==
  ASSUME NEW o, GoodOp(o), NEW K, K \subseteq o.upserts PROVE GoodOp([o EXCEPT !.upserts = K])
BY DEF GoodOp, Op

LEMMA PlanStep ==
  ASSUME IInv, NEW c \in Callers, NEW o, GoodOp(o), op' = [op EXCEPT ![c] = o]
  PROVE  op' \in [Callers -> Op] /\ PlanOK'
<1>1. o \in Op
  BY DEF GoodOp
<1>. QED
  BY <1>1 DEF IInv, TypeOK, PlanOK

LEMMA KernelType ==
  ASSUME IInv, NEW c \in Callers, NEW K \in SUBSET Keys
  PROVE  /\ Configured(op[c], K) \in [Keys -> {None} \cup SUBSET PoolIPs]
         /\ Replaced(op[c], K) \in [Keys -> {None} \cup SUBSET PoolIPs]
<1>1. GoodOp(op[c])
  BY DEF IInv, PlanOK
<1>2. \A k \in Present(op[c].desired) : op[c].desired[k].ips \in SUBSET PoolIPs
  BY <1>1 DEF GoodOp, Op, MaybePeer, Peer, Present
<1>3. Configured(op[c], K) \in [Keys -> {None} \cup SUBSET PoolIPs]
  BY <1>1, <1>2 DEF Configured, IInv, TypeOK, GoodOp
<1>4. Replaced(op[c], K) \in [Keys -> {None} \cup SUBSET PoolIPs]
  BY <1>2 DEF Replaced, Present
<1>. QED
  BY <1>3, <1>4

\* A store filled from scratch with one peer per user is 1:1.
LEMMA FilledStore ==
  ASSUME NEW f \in [Keys -> MaybePeer], OnePeerPerUser(f),
         peers' = f, emailToKey' = KeyByEmail(f)
  PROVE  OneToOne'
<1>1. ASSUME NEW k \in Keys, f[k] # None PROVE KeyByEmail(f)[f[k].email] = k
  <2>1. f[k].email \in Emails /\ k \in Present(f)
    BY <1>1 DEF MaybePeer, Peer, Present
  <2>2. KeyByEmail(f)[f[k].email] = CHOOSE j \in Present(f) : f[j].email = f[k].email
    BY <2>1 DEF KeyByEmail
  <2>. QED
    BY <2>1, <2>2 DEF OnePeerPerUser
<1>2. ASSUME NEW e \in Emails, KeyByEmail(f)[e] # None
      PROVE  f[KeyByEmail(f)[e]] # None /\ f[KeyByEmail(f)[e]].email = e
  <2>1. \E k \in Present(f) : f[k].email = e
    BY <1>2 DEF KeyByEmail
  <2>2. KeyByEmail(f)[e] = CHOOSE k \in Present(f) : f[k].email = e
    BY <2>1 DEF KeyByEmail
  <2>. QED
    BY <2>1, <2>2 DEF Present
<1>. QED
  BY <1>1, <1>2 DEF OneToOne

-----------------------------------------------------------------------------
(* Every step preserves the inductive invariant.                           *)

LEMMA PartialReconcileStep ==
  ASSUME IInv, NEW c \in Callers, NEW users, users \subseteq UserMsg,
         \A u, v \in users : u.email = v.email => u = v,
         NEW kind \in {"partial", "partialRestart"}, PartialReconcile(c, users, kind)
  PROVE  IInv'
<1>. DEFINE touched == {u.email : u \in users}
            desired == CollectDesiredPeers(users)
            existing == ExistingForTouched(touched)
            o == SyncOp(kind, touched, existing, desired)
<1>1. /\ desired \in [Keys -> MaybePeer] /\ OnePeerPerUser(desired)
      /\ touched \in SUBSET Emails /\ kind \in Kinds
  BY DesiredType, DesiredInjective DEF UserMsg, Kinds
<1>2. GoodOp(o)
  <2>. HIDE DEF touched, desired, existing
  <2>. QED
    BY <1>1, SyncOpGood
<1>3. PICK pc \in PcValues : op' = [op EXCEPT ![c] = [o EXCEPT !.pc = pc]]
  BY DEF PartialReconcile, Begin, PcValues
<1>4. op' \in [Callers -> Op] /\ PlanOK'
  <2>. HIDE DEF o
  <2>1. GoodOp([o EXCEPT !.pc = pc])
    BY <1>2, PcGood
  <2>. QED
    BY <1>3, <2>1, PlanStep
<1>. QED
  BY <1>4 DEF PartialReconcile, Begin, IInv, TypeOK, OneToOne, store, device, lifecycle


LEMMA IInvNext == IInv /\ [Next]_vars => IInv'
<1>. SUFFICES ASSUME IInv, [Next]_vars PROVE IInv'
  OBVIOUS
<1>. USE DEF store, device, lifecycle
<1>1. CASE New
  <2>1. PICK users \in UserSets :
          LET desired == CollectDesiredPeers(users) IN
          /\ kernel' = [k \in Keys |-> IF desired[k] = None THEN None ELSE desired[k].ips]
          /\ peers' = desired
          /\ emailToKey' = KeyByEmail(desired)
          /\ state' = "running" /\ client' = TRUE
          /\ UNCHANGED <<dirty, syncMu, op>>
    BY <1>1 DEF New
  <2>. DEFINE desired == CollectDesiredPeers(users)
  <2>2. desired \in [Keys -> MaybePeer] /\ OnePeerPerUser(desired)
    BY DesiredType, DesiredInjective, UserSetsType, UserSetsUnique
  <2>. HIDE DEF desired
  <2>3. KeyByEmail(desired) \in [Emails -> Keys \cup {None}]
    BY KeyByEmailType
  <2>4. kernel' \in [Keys -> {None} \cup SUBSET PoolIPs]
    BY <2>1, <2>2 DEF MaybePeer, Peer, desired
  <2>5. peers' = desired /\ emailToKey' = KeyByEmail(desired)
    BY <2>1 DEF desired
  <2>6. OneToOne'
    BY <2>2, <2>5, FilledStore
  <2>7. TypeOK' /\ PlanOK'
    BY <2>1, <2>2, <2>3, <2>4, <2>5 DEF IInv, TypeOK, PlanOK
  <2>. QED
    BY <2>6, <2>7 DEF IInv
<1>2. CASE Shutdown
  BY <1>2 DEF Shutdown, IInv, TypeOK, PlanOK, OneToOne, NoPeers
<1>3. ASSUME NEW c \in Callers, SyncUser(c) \/ UpdateUsers(c) \/ UpdateUsersAndRestart(c)
      PROVE  IInv'
  <2>1. ASSUME NEW u \in UserMsgs, PartialReconcile(c, NormalizeUsers(<<u>>), "partial")
        PROVE  IInv'
    BY <2>1, PartialReconcileStep, SingleUserType, SingleUserUnique
  <2>2. ASSUME NEW users \in UserSets, NEW kind \in {"partial", "partialRestart"},
               PartialReconcile(c, users, kind)
        PROVE  IInv'
    BY <2>2, PartialReconcileStep, UserSetsType, UserSetsUnique
  <2>. QED
    BY <1>3, <2>1, <2>2 DEF SyncUser, UpdateUsers, UpdateUsersAndRestart
<1>4. ASSUME NEW c \in Callers, SyncUsers(c) PROVE IInv'
  <2>1. PICK users \in UserSets :
          Begin(c, SyncOp("full", Emails, peers, CollectDesiredPeers(users)))
    BY <1>4 DEF SyncUsers
  <2>. DEFINE desired == CollectDesiredPeers(users)
              o == SyncOp("full", Emails, peers, desired)
  <2>2. desired \in [Keys -> MaybePeer] /\ OnePeerPerUser(desired)
    BY DesiredType, DesiredInjective, UserSetsType, UserSetsUnique
  <2>3. GoodOp(o)
    <3>. HIDE DEF desired
    <3>. QED
      BY <2>2, SyncOpGood DEF Kinds
  <2>4. op' = [op EXCEPT ![c] = o] /\ syncMu' = c
    BY <2>1 DEF Begin
  <2>. HIDE DEF o
  <2>5. op' \in [Callers -> Op] /\ PlanOK'
    BY <2>3, <2>4, PlanStep
  <2>. QED
    BY <1>4, <2>4, <2>5 DEF SyncUsers, IInv, TypeOK, OneToOne
<1>5. ASSUME NEW c \in Callers, Restart(c) PROVE IInv'
  <2>1. op' = [op EXCEPT ![c] = RestartOp] /\ syncMu' = c
    BY <1>5 DEF Restart, Begin
  <2>2. op' \in [Callers -> Op] /\ PlanOK'
    BY <2>1, RestartOpGood, PlanStep
  <2>. QED
    BY <1>5, <2>1, <2>2 DEF Restart, IInv, TypeOK, OneToOne
<1>6. ASSUME NEW c \in Callers, Step(c) PROVE IInv'
  <2>1. GoodOp(op[c]) /\ op[c] \in Op /\ op \in [Callers -> Op]
    BY DEF IInv, PlanOK, TypeOK
  <2>2. ASSUME Return(c) PROVE op' \in [Callers -> Op] /\ PlanOK' /\ syncMu' = None
    BY <2>2, IdleOpGood, PlanStep DEF Return
  <2>3. ASSUME NEW pc \in PcValues, op' = [op EXCEPT ![c].pc = pc]
        PROVE  op' \in [Callers -> Op] /\ PlanOK'
    <3>1. op' = [op EXCEPT ![c] = [op[c] EXCEPT !.pc = pc]]
      BY <2>1, <2>3
    <3>2. GoodOp([op[c] EXCEPT !.pc = pc])
      BY <2>1, PcGood
    <3>. QED
      BY <3>1, <3>2, PlanStep
  <2>4. CASE EnsureRunning(c)
    <3>1. op' \in [Callers -> Op] /\ PlanOK'
      BY <2>2, <2>3, <2>4 DEF EnsureRunning, PcValues
    <3>. QED
      BY <2>2, <2>4, <3>1 DEF EnsureRunning, IInv, TypeOK, OneToOne
  <2>5. CASE ConfigureDevice(c)
    <3>1. kernel' \in [Keys -> {None} \cup SUBSET PoolIPs]
      BY <2>5, KernelType DEF ConfigureDevice
    <3>2. op' \in [Callers -> Op] /\ PlanOK'
      BY <2>2, <2>3, <2>5 DEF ConfigureDevice, PcValues
    <3>. QED
      BY <2>2, <2>5, <3>1, <3>2 DEF ConfigureDevice, IInv, TypeOK, OneToOne
  <2>6. CASE ConfigureDeviceFails(c)
    <3>1. kernel' \in [Keys -> {None} \cup SUBSET PoolIPs] /\ dirty' \in BOOLEAN
      <4>1. CASE UNCHANGED device
        BY <4>1 DEF IInv, TypeOK
      <4>2. ASSUME NEW K \in SUBSET Keys, dirty' = TRUE,
                   kernel' = IF op[c].kind \in {"partial", "partialRestart"}
                             THEN Configured(op[c], K) ELSE Replaced(op[c], K)
            PROVE  kernel' \in [Keys -> {None} \cup SUBSET PoolIPs] /\ dirty' \in BOOLEAN
        BY <4>2, KernelType
      <4>. QED
        BY <2>6, <4>1, <4>2 DEF ConfigureDeviceFails
    <3>. QED
      BY <2>2, <2>6, <3>1 DEF ConfigureDeviceFails, IInv, TypeOK, OneToOne
  <2>7. CASE ClientClosed(c)
    BY <2>2, <2>7 DEF ClientClosed, IInv, TypeOK, OneToOne
  <2>8. CASE ReplaceAll(c)
    <3>1. /\ peers' = op[c].desired /\ emailToKey' = KeyByEmail(op[c].desired)
          /\ UNCHANGED <<kernel, dirty, state, client, syncMu>>
      BY <2>8 DEF ReplaceAll
    <3>2. op[c].desired \in [Keys -> MaybePeer] /\ OnePeerPerUser(op[c].desired)
      BY <2>1 DEF GoodOp, Op
    <3>3. OneToOne'
      BY <3>1, <3>2, FilledStore
    <3>. DEFINE D == Present(peers) \ Present(op[c].desired)
                o == [op[c] EXCEPT !.pc = "stats", !.statsDue = D]
    <3>4. GoodOp(o)
      <4>1. D \in SUBSET Keys
        BY DEF Present
      <4>. HIDE DEF D
      <4>2. GoodOp([op[c] EXCEPT !.pc = "stats"])
        BY <2>1, PcGood DEF PcValues
      <4>3. GoodOp([[op[c] EXCEPT !.pc = "stats"] EXCEPT !.statsDue = D])
        BY <4>1, <4>2, StatsDueGood
      <4>4. [[op[c] EXCEPT !.pc = "stats"] EXCEPT !.statsDue = D] = o
        BY <2>1 DEF Op
      <4>. QED
        BY <4>3, <4>4
    <3>5. op' \in [Callers -> Op] /\ PlanOK'
      <4>1. op' = [op EXCEPT ![c] = o]
        BY <2>1, <2>8 DEF ReplaceAll
      <4>. HIDE DEF o
      <4>. QED
        BY <3>4, <4>1, PlanStep
    <3>6. emailToKey' \in [Emails -> Keys \cup {None}]
      BY <3>1, KeyByEmailType
    <3>. QED
      BY <3>1, <3>2, <3>3, <3>5, <3>6 DEF IInv, TypeOK
  <2>9. CASE LockStore(c) \/ UnlockStore(c)
    <3>1. op' \in [Callers -> Op] /\ PlanOK'
      BY <2>3, <2>9 DEF LockStore, UnlockStore, PcValues
    <3>. QED
      BY <2>9, <3>1 DEF LockStore, UnlockStore, IInv, TypeOK, OneToOne
  <2>10. ASSUME NEW k \in Keys, ApplyRemove(c, k) PROVE IInv'
    <3>. DEFINE r == [op[c] EXCEPT !.removes = op[c].removes \ {k}]
                d == [r EXCEPT !.statsDue = op[c].statsDue \cup {k}]
    <3>1. GoodOp(r) /\ GoodOp(d)
      <4>1. op[c].removes \ {k} \in SUBSET Keys /\ op[c].statsDue \cup {k} \in SUBSET Keys
        BY <2>1 DEF Op
      <4>2. GoodOp(r)
        BY <2>1, <4>1, RemovesGood
      <4>. HIDE DEF r
      <4>. QED
        BY <4>1, <4>2, StatsDueGood
    <3>2. op' \in [Callers -> Op] /\ PlanOK'
      <4>1. CASE peers[k] # None
        <5>1. op' = [op EXCEPT ![c].removes = @ \ {k}, ![c].statsDue = @ \cup {k}]
          BY <2>10, <4>1 DEF ApplyRemove
        <5>2. op' = [op EXCEPT ![c] = d]
          BY <2>1, <5>1 DEF Op
        <5>. HIDE DEF d
        <5>. QED
          BY <3>1, <5>2, PlanStep
      <4>2. CASE peers[k] = None
        <5>1. op' = [op EXCEPT ![c] = r]
          BY <2>1, <2>10, <4>2 DEF ApplyRemove
        <5>. HIDE DEF r
        <5>. QED
          BY <3>1, <5>1, PlanStep
      <4>. QED
        BY <4>1, <4>2
    <3>3. peers' \in [Keys -> MaybePeer] /\ emailToKey' \in [Emails -> Keys \cup {None}]
      BY <2>10 DEF ApplyRemove, IInv, TypeOK, MaybePeer
    <3>4. OneToOne'
      <4>1. CASE peers[k] = None
        BY <2>10, <4>1 DEF ApplyRemove, IInv, OneToOne
      <4>2. CASE peers[k] # None
        <5>1. peers[k].email \in Emails /\ emailToKey[peers[k].email] = k
          BY <4>2 DEF IInv, TypeOK, MaybePeer, Peer, OneToOne
        <5>2. \A j \in Keys : peers[j] # None => peers[j].email \in Emails
          BY DEF IInv, TypeOK, MaybePeer, Peer
        <5>. QED
          BY <2>10, <4>2, <5>1, <5>2, NoneAssumption DEF ApplyRemove, IInv, TypeOK, OneToOne
      <4>. QED
        BY <4>1, <4>2
    <3>. QED
      BY <2>10, <3>2, <3>3, <3>4 DEF ApplyRemove, IInv, TypeOK
  <2>11. ASSUME NEW k \in Keys, ApplyUpsert(c, k) PROVE IInv'
    <3>1. op' = [op EXCEPT ![c] = [op[c] EXCEPT !.upserts = op[c].upserts \ {k}]]
      BY <2>1, <2>11 DEF ApplyUpsert
    <3>2. GoodOp([op[c] EXCEPT !.upserts = op[c].upserts \ {k}])
      BY <2>1, UpsertsGood
    <3>3. op' \in [Callers -> Op] /\ PlanOK'
      BY <3>1, <3>2, PlanStep
    <3>4. op[c].desired[k] \in Peer /\ op[c].desired[k] # None
      BY <2>1, <2>11 DEF ApplyUpsert, GoodOp, Op, Present, MaybePeer
    <3>5. peers' \in [Keys -> MaybePeer] /\ emailToKey' \in [Emails -> Keys \cup {None}]
      BY <2>11, <3>4 DEF ApplyUpsert, IInv, TypeOK, MaybePeer
    <3>6. OneToOne'
      <4>. DEFINE p == op[c].desired[k]
      <4>1. p.email \in Emails
        BY <3>4 DEF Peer
      <4>2. \A j \in Keys : peers[j] # None => peers[j].email \in Emails
        BY DEF IInv, TypeOK, MaybePeer, Peer
      <4>3. /\ peers' = [j \in Keys |-> IF j = k THEN p
                                  ELSE IF j = emailToKey[p.email] THEN None ELSE peers[j]]
            /\ emailToKey' = [e \in Emails |->
                  IF e = p.email THEN k
                  ELSE IF peers[k] # None /\ peers[k].email = e THEN None ELSE emailToKey[e]]
        BY <2>11 DEF ApplyUpsert
      <4>4. p # None
        BY <3>4
      <4>. HIDE DEF p
      <4>5. ASSUME NEW j \in Keys, peers'[j] # None PROVE emailToKey'[peers'[j].email] = j
        <5>1. CASE j = k
          BY <4>1, <4>3, <5>1
        <5>2. CASE j # k
          <6>1. j # emailToKey[p.email] /\ peers'[j] = peers[j]
            BY <4>3, <4>5, <5>2
          <6>2. emailToKey[peers[j].email] = j /\ peers[j].email \in Emails
            BY <4>2, <4>5, <6>1 DEF IInv, OneToOne
          <6>3. peers[j].email # p.email
            BY <6>1, <6>2
          <6>4. peers[k] # None => peers[k].email # peers[j].email
            BY <5>2, <6>2 DEF IInv, OneToOne
          <6>. QED
            BY <4>3, <6>1, <6>2, <6>3, <6>4
        <5>. QED
          BY <5>1, <5>2
      <4>6. ASSUME NEW e \in Emails, emailToKey'[e] # None
            PROVE  peers'[emailToKey'[e]] # None /\ peers'[emailToKey'[e]].email = e
        <5>1. CASE e = p.email
          BY <4>3, <4>4, <5>1
        <5>2. CASE e # p.email
          <6>1. emailToKey'[e] = emailToKey[e] /\ ~(peers[k] # None /\ peers[k].email = e)
            BY <4>3, <4>6, <5>2
          <6>2. /\ emailToKey[e] \in Keys
                /\ peers[emailToKey[e]] # None /\ peers[emailToKey[e]].email = e
            BY <4>6, <6>1 DEF IInv, TypeOK, OneToOne
          <6>3. emailToKey[e] # k
            BY <6>1, <6>2
          <6>4. emailToKey[e] # emailToKey[p.email]
            BY <4>1, <5>2, <6>2, NoneAssumption DEF IInv, OneToOne
          <6>. QED
            BY <4>3, <6>1, <6>2, <6>3, <6>4
        <5>. QED
          BY <5>1, <5>2
      <4>. QED
        BY <4>5, <4>6 DEF OneToOne
    <3>. QED
      BY <2>11, <3>3, <3>5, <3>6 DEF ApplyUpsert, IInv, TypeOK
  <2>12. ASSUME NEW k \in Keys, RemoveStats(c, k) PROVE IInv'
    <3>1. op' = [op EXCEPT ![c] = [op[c] EXCEPT !.statsDue = op[c].statsDue \ {k}]]
      BY <2>1, <2>12 DEF RemoveStats
    <3>2. GoodOp([op[c] EXCEPT !.statsDue = op[c].statsDue \ {k}])
      <4>1. op[c].statsDue \ {k} \in SUBSET Keys
        BY <2>1 DEF Op
      <4>. QED
        BY <2>1, <4>1, StatsDueGood
    <3>3. op' \in [Callers -> Op] /\ PlanOK'
      BY <3>1, <3>2, PlanStep
    <3>. QED
      BY <2>12, <3>3 DEF RemoveStats, IInv, TypeOK, OneToOne
  <2>13. CASE FinishSync(c)
    <3>1. CASE op[c].kind = "partialRestart"
      <4>1. op' \in [Callers -> Op] /\ PlanOK'
        BY <2>13, <3>1, RestartOpGood, PlanStep DEF FinishSync
      <4>. QED
        BY <2>13, <3>1, <4>1 DEF FinishSync, IInv, TypeOK, OneToOne
    <3>2. CASE op[c].kind # "partialRestart"
      BY <2>2, <2>13, <3>2 DEF FinishSync, IInv, TypeOK, OneToOne
    <3>. QED
      BY <3>1, <3>2
  <2>. QED
    BY <1>6, <2>4, <2>5, <2>6, <2>7, <2>8, <2>9, <2>10, <2>11, <2>12, <2>13 DEF Step
<1>7. CASE UNCHANGED vars
  BY <1>7 DEF vars, IInv, TypeOK, PlanOK, OneToOne
<1>. QED
  BY <1>1, <1>2, <1>3, <1>4, <1>5, <1>6, <1>7 DEF Next

LEMMA IInvInit == Init => IInv
<1>1. Init => TypeOK /\ PlanOK
  BY IdleOpGood DEF Init, TypeOK, PlanOK, GoodOp, NoPeers, MaybePeer
<1>2. Init => OneToOne
  BY DEF Init, OneToOne, NoPeers
<1>. QED
  BY <1>1, <1>2 DEF IInv

LEMMA IInvAlways == Spec => []IInv
<1>1. Init => IInv
  BY IInvInit
<1>2. IInv /\ [Next]_vars => IInv'
  BY IInvNext
<1>. QED
  BY <1>1, <1>2, PTL DEF Spec

(* Type correctness: whatever the users, keys, addresses and handlers, and *)
(* whatever the kernel refuses, every variable keeps its type and a stored *)
(* peer always has an address inside the interface's networks.             *)
THEOREM TypeCorrect == Spec => []TypeOK
<1>1. IInv => TypeOK
  BY DEF IInv
<1>. QED
  BY <1>1, IInvAlways, PTL

(* The PeerStore keeps its 1:1 mapping between users and public keys after *)
(* every iteration of ApplyChanges, for requests of any size and shape:    *)
(* key swaps, hand-overs, renames and removals in one batch included.      *)
THEOREM StoreOneToOne == Spec => []OneToOne
<1>1. IInv => OneToOne
  BY DEF IInv
<1>. QED
  BY <1>1, IInvAlways, PTL

-----------------------------------------------------------------------------
(* The store and the device: what a call has left to do.                   *)

SyncKinds == {"partial", "partialRestart"}

\* Only the holder of syncMu is inside a call, and only a running backend has
\* a client and lets a call in.
HolderOK ==
  /\ \A c \in Callers : IF syncMu = c THEN op[c].pc # "idle" ELSE op[c] = IdleOp
  /\ state = "starting" => syncMu = None
  /\ client <=> state = "running"

\* What a partial reconciliation has left to do to the store: it ends with the
\* desired peers of the users it touches, and takes no key of another user.
SyncPlan(o) ==
  /\ \A k \in Present(o.desired) : o.desired[k].email \in o.touched
  /\ \A k \in Present(o.desired) \ o.upserts : peers[k] = o.desired[k]
  /\ \A k \in Present(peers) \ (o.removes \cup o.upserts) :
       peers[k].email \in o.touched => peers[k] = o.desired[k]
  /\ \A k \in Present(peers) \cap (o.removes \cup o.upserts) : peers[k].email \in o.touched
  /\ \A k \in o.removes \cup o.statsDue : o.desired[k] = None
  /\ \A k \in o.statsDue : peers[k] = None

\* What it is to do to the device: it adds keys the store does not hold, and
\* the keys it leaves alone there have the desired addresses already.
DevicePlan(o) ==
  /\ o.adds \cup o.replaces \subseteq o.upserts
  /\ \A k \in o.adds : peers[k] = None
  /\ \A k \in o.upserts \ (o.adds \cup o.replaces) :
       peers[k] # None /\ peers[k].ips = o.desired[k].ips

CallOK(o) ==
  /\ o.pc # "idle" => o.kind # "none"
  /\ o.kind = "restart" => o.pc \in {"check", "apply"} /\ o.desired = peers
  /\ o.kind = "full" => o.pc # "storing"
  /\ o.kind \in SyncKinds /\ o.pc # "idle" => SyncPlan(o)
  /\ o.kind \in SyncKinds /\ o.pc \in {"check", "apply"} => DevicePlan(o)
  /\ o.kind = "full" /\ o.pc = "stats" =>
       peers = o.desired /\ \A k \in o.statsDue : peers[k] = None
  /\ o.kind # "full" /\ o.pc = "stats" => o.removes = {} /\ o.upserts = {}

CallsOK == \A c \in Callers : CallOK(op[c])

\* The store when a partial reconciliation is done with it.
Outcome(o) == [k \in Keys |-> IF k \in o.upserts THEN o.desired[k]
                              ELSE IF k \in o.removes THEN None ELSE peers[k]]

\* The store when a call has committed what it has done to the device.
Committed(o) ==
  CASE o.pc = "commit" /\ o.kind = "full" -> o.desired
    [] o.pc \in {"commit", "storing"} /\ o.kind # "full" -> Outcome(o)
    [] OTHER -> peers

Expected == IF syncMu = None THEN peers ELSE Committed(op[syncMu])

Configures(f) ==
  /\ Present(f) = Present(kernel)
  /\ \A k \in Present(kernel) : kernel[k] \subseteq f[k].ips

DeviceOK == state = "running" /\ ~dirty => Configures(Expected)

\* The inductive invariant, on top of IInv.
DeviceInv == HolderOK /\ CallsOK /\ DeviceOK

\* The plan of syncUsersPartialReconcile, when its ownership check passes.
LEMMA PlanMade ==
  ASSUME IInv, NEW users, users \subseteq UserMsg, NEW kind,
         LET touched == {u.email : u \in users}
             desired == CollectDesiredPeers(users)
         IN ~OwnershipError(desired, touched)
  PROVE  LET touched == {u.email : u \in users}
             desired == CollectDesiredPeers(users)
             o == SyncOp(kind, touched, ExistingForTouched(touched), desired)
         IN SyncPlan(o) /\ DevicePlan(o)
<1>. DEFINE touched == {u.email : u \in users}
            desired == CollectDesiredPeers(users)
            existing == ExistingForTouched(touched)
            o == SyncOp(kind, touched, existing, desired)
<1>1. desired \in [Keys -> MaybePeer]
  BY DesiredType
<1>2. \A k \in Present(desired) : desired[k].email \in touched
  <2>. SUFFICES ASSUME NEW k \in Present(desired) PROVE desired[k].email \in touched
    OBVIOUS
  <2>1. \E u \in users : Accepted(u) /\ u.key = k
    BY DEF Present, CollectDesiredPeers
  <2>. DEFINE w == CHOOSE u \in users : Accepted(u) /\ u.key = k
  <2>2. w \in users
    BY <2>1
  <2>3. desired[k] = [email |-> w.email, ips |-> AllowedIPs(w)]
    BY <2>1 DEF Present, CollectDesiredPeers
  <2>4. desired[k].email = w.email
    BY <2>3
  <2>. QED
    BY <2>2, <2>4
<1>3. \A k \in Keys : existing[k] = IF peers[k] # None /\ peers[k].email \in touched
                                    THEN peers[k] ELSE None
  <2>. SUFFICES ASSUME NEW k \in Keys
                PROVE  existing[k] = IF peers[k] # None /\ peers[k].email \in touched
                                     THEN peers[k] ELSE None
    OBVIOUS
  <2>1. existing[k] = IF \E e \in touched : emailToKey[e] = k THEN peers[k] ELSE None
    BY DEF ExistingForTouched
  <2>2. touched \subseteq Emails
    BY DEF UserMsg
  <2>3. (\E e \in touched : emailToKey[e] = k) <=> peers[k] # None /\ peers[k].email \in touched
    <3>1. ASSUME NEW e \in touched, emailToKey[e] = k
          PROVE  peers[k] # None /\ peers[k].email = e
      BY <2>2, <3>1, NoneAssumption DEF IInv, OneToOne
    <3>2. peers[k] # None => emailToKey[peers[k].email] = k
      BY DEF IInv, OneToOne
    <3>. QED
      BY <3>1, <3>2
  <2>. QED
    BY <2>1, <2>3
<1>4. \A k \in Present(desired) : existing[k] = peers[k]
  BY <1>2, <1>3 DEF OwnershipError, Present
<1>5. /\ o.touched = touched /\ o.desired = desired /\ o.statsDue = {}
      /\ o.removes = Removes(existing, desired) /\ o.upserts = Upserts(existing, desired)
      /\ o.adds = Adds(existing, desired) /\ o.replaces = Replaces(existing, desired)
  BY DEF SyncOp, IdleOp
<1>. HIDE DEF touched, desired, existing, o
<1>6. SyncPlan(o)
  <2>1. \A k \in Keys : k \in o.removes <=> existing[k] # None /\ desired[k] = None
    BY <1>5 DEF Removes, Present
  <2>2. \A k \in Keys : k \in o.upserts <=> desired[k] # None /\ existing[k] # desired[k]
    BY <1>5 DEF Upserts, Present
  <2>3. o.removes \subseteq Keys /\ o.upserts \subseteq Keys
    BY <1>5 DEF Removes, Upserts, Present
  <2>. QED
    BY <1>2, <1>3, <1>4, <1>5, <2>1, <2>2, <2>3 DEF SyncPlan, Present
<1>7. DevicePlan(o)
  <2>1. \A k \in Keys : k \in o.upserts <=> desired[k] # None /\ existing[k] # desired[k]
    BY <1>5 DEF Upserts, Present
  <2>2. \A k \in Keys : k \in o.adds <=> desired[k] # None /\ existing[k] = None
    BY <1>5 DEF Adds, Present
  <2>3. \A k \in Keys : k \in o.replaces <=>
          desired[k] # None /\ existing[k] # None /\ existing[k].ips # desired[k].ips
    BY <1>5 DEF Replaces, Present
  <2>4. o.adds \subseteq Keys /\ o.upserts \subseteq Keys /\ o.replaces \subseteq Keys
    BY <1>5 DEF Adds, Replaces, Upserts, Present
  <2>. QED
    BY <1>4, <1>5, <2>1, <2>2, <2>3, <2>4 DEF DevicePlan, Present
<1>. QED
  BY <1>6, <1>7 DEF o, touched, desired, existing

\* One ConfigureDevice call takes the device from what the store holds to what
\* it will hold.
LEMMA ConfiguredOutcome ==
  ASSUME IInv, NEW c \in Callers, SyncPlan(op[c]), DevicePlan(op[c]), Configures(peers),
         NEW new, new = Configured(op[c], Keys)
  PROVE  LET f == Outcome(op[c])
         IN Present(f) = Present(new) /\ \A k \in Present(new) : new[k] \subseteq f[k].ips
<1>. DEFINE o == op[c]
            f == Outcome(o)
            set == (o.adds \cup o.replaces) \cap Keys
            taken == UNION {o.desired[k].ips : k \in set}
<1>1. /\ o.removes \subseteq Keys /\ o.upserts \subseteq Keys
      /\ o.adds \subseteq Keys /\ o.replaces \subseteq Keys
      /\ o.upserts \subseteq Present(o.desired)
  BY DEF IInv, PlanOK, GoodOp, Op
<1>2. \A k \in Present(o.desired) : o.desired[k].ips \in SUBSET PoolIPs
  BY DEF IInv, PlanOK, GoodOp, Op, MaybePeer, Peer, Present
<1>3. \A S \in SUBSET PoolIPs : S # None
  BY NoneAssumption
<1>. HIDE DEF o
<1>4. ASSUME NEW k \in Keys
      PROVE  /\ f[k] # None <=> new[k] # None
             /\ new[k] # None => new[k] \subseteq f[k].ips
  <2>1. new[k] = CASE k \in o.removes \cap Keys -> None
                   [] k \in o.replaces \cap Keys -> o.desired[k].ips
                   [] k \in o.adds \cap Keys ->
                        o.desired[k].ips \cup (IF kernel[k] = None THEN {} ELSE kernel[k])
                   [] OTHER -> IF kernel[k] = None THEN None ELSE kernel[k] \ taken
    BY DEF Configured, o
  <2>2. f[k] = IF k \in o.upserts THEN o.desired[k] ELSE IF k \in o.removes THEN None ELSE peers[k]
    BY DEF Outcome
  <2>3. /\ peers[k] # None <=> kernel[k] # None
        /\ kernel[k] # None => kernel[k] \subseteq peers[k].ips
    BY DEF Configures, Present
  <2>4. CASE k \in o.removes
    <3>1. k \notin o.upserts /\ k \notin o.adds /\ k \notin o.replaces
      BY <1>1, <2>4 DEF SyncPlan, DevicePlan, Present, o
    <3>. QED
      BY <2>1, <2>2, <2>4, <3>1
  <2>5. CASE k \in set
    <3>1. k \in o.upserts /\ k \notin o.removes /\ o.desired[k] # None
      BY <1>1, <2>5 DEF SyncPlan, DevicePlan, Present, o
    <3>2. k \in o.adds => kernel[k] = None
      BY <2>3 DEF DevicePlan, o
    <3>3. new[k] = o.desired[k].ips
      BY <2>1, <2>5, <3>1, <3>2
    <3>4. new[k] # None
      BY <1>2, <1>3, <3>1, <3>3 DEF Present
    <3>. QED
      BY <2>2, <3>1, <3>3, <3>4
  <2>6. CASE k \notin o.removes \cup set
    <3>1. new[k] = IF kernel[k] = None THEN None ELSE kernel[k] \ taken
      BY <2>1, <2>6
    <3>2. kernel[k] # None => new[k] # None /\ new[k] \subseteq peers[k].ips
      <4>1. kernel[k] # None => kernel[k] \subseteq PoolIPs
        BY DEF IInv, TypeOK
      <4>. QED
        BY <1>3, <2>3, <3>1, <4>1
    <3>3. CASE k \in o.upserts
      <4>1. peers[k] # None /\ peers[k].ips = o.desired[k].ips /\ o.desired[k] # None
        BY <1>1, <2>6, <3>3 DEF DevicePlan, Present, o
      <4>. QED
        BY <2>2, <2>3, <3>2, <3>3, <4>1
    <3>4. CASE k \notin o.upserts
      BY <2>2, <2>3, <2>6, <3>1, <3>2, <3>4
    <3>. QED
      BY <3>3, <3>4
  <2>. QED
    BY <2>4, <2>5, <2>6
<1>. QED
  BY <1>4 DEF Present, o

\* ConfigureDevice with ReplacePeers set leaves the device with these peers.
LEMMA ReplacedDesired ==
  ASSUME IInv, NEW c \in Callers, kernel' = Replaced(op[c], Keys)
  PROVE  /\ Present(op[c].desired) = Present(kernel')
         /\ \A k \in Present(kernel') : kernel'[k] \subseteq op[c].desired[k].ips
<1>1. \A k \in Present(op[c].desired) : op[c].desired[k].ips \in SUBSET PoolIPs
  BY DEF IInv, PlanOK, GoodOp, Op, MaybePeer, Peer, Present
<1>2. \A S \in SUBSET PoolIPs : S # None
  BY NoneAssumption
<1>3. \A k \in Keys : kernel'[k] = IF op[c].desired[k] # None THEN op[c].desired[k].ips ELSE None
  BY DEF Replaced
<1>. QED
  BY <1>1, <1>2, <1>3 DEF Present

\* A call that begins without anything to do to the device.
LEMMA UnconfiguredOutcome ==
  ASSUME NEW o, GoodOp(o), SyncPlan(o), DevicePlan(o), o.adds \cup o.replaces \cup o.removes = {},
         Configures(peers)
  PROVE  Configures(Outcome(o))
<1>1. /\ o.upserts \subseteq Present(o.desired) /\ o.removes = {}
      /\ \A k \in o.upserts : peers[k] # None /\ peers[k].ips = o.desired[k].ips
  BY DEF GoodOp, DevicePlan
<1>2. \A k \in Keys : /\ Outcome(o)[k] # None <=> peers[k] # None
                      /\ peers[k] # None => Outcome(o)[k].ips = peers[k].ips
  BY <1>1 DEF Outcome, Present
<1>3. Present(Outcome(o)) = Present(peers)
  BY <1>2 DEF Present
<1>4. \A k \in Present(kernel) : k \in Keys /\ peers[k] # None
  BY DEF Configures, Present
<1>. QED
  BY <1>2, <1>3, <1>4 DEF Configures

\* The bodies of the two loops of PeerStore.ApplyChanges keep to the plan and
\* to its outcome.
LEMMA RemoveKeepsPlan ==
  ASSUME IInv, NEW c \in Callers, NEW k \in Keys, SyncPlan(op[c]), ApplyRemove(c, k)
  PROVE  SyncPlan(op[c])' /\ Outcome(op[c])' = Outcome(op[c])
<1>. DEFINE o == op[c]
            n == op'[c]
<1>1. o \in Op /\ GoodOp(o) /\ op \in [Callers -> Op]
  BY DEF IInv, PlanOK, TypeOK
<1>2. /\ n.removes = o.removes \ {k} /\ n.upserts = o.upserts /\ n.desired = o.desired
      /\ n.touched = o.touched /\ n.statsDue \subseteq o.statsDue \cup {k}
  <2>1. CASE peers[k] # None
    BY <1>1, <2>1 DEF ApplyRemove, Op
  <2>2. CASE peers[k] = None
    BY <1>1, <2>2 DEF ApplyRemove, Op
  <2>. QED
    BY <2>1, <2>2
<1>3. /\ peers \in [Keys -> MaybePeer]
      /\ peers' = [peers EXCEPT ![k] = None]
  BY DEF ApplyRemove, IInv, TypeOK, store
<1>4. k \in o.removes /\ o.desired[k] = None
  BY DEF ApplyRemove, SyncPlan
<1>. HIDE DEF n, o
<1>5. \A j \in Keys : peers'[j] = IF j = k THEN None ELSE peers[j]
  BY <1>3
<1>6. SyncPlan(o)
  BY DEF o
<1>7. SyncPlan(op[c])'
  <2>1. \A j \in Present(peers') : j \in Present(peers) /\ j # k /\ peers'[j] = peers[j]
    BY <1>5 DEF Present
  <2>2. \A j \in Present(n.desired) : n.desired[j].email \in n.touched
    BY <1>2, <1>6 DEF SyncPlan
  <2>3. \A j \in Present(n.desired) \ n.upserts : peers'[j] = n.desired[j]
    BY <1>2, <1>4, <1>5, <1>6 DEF SyncPlan, Present
  <2>4. \A j \in Present(peers') \ (n.removes \cup n.upserts) :
          peers'[j].email \in n.touched => peers'[j] = n.desired[j]
    BY <1>2, <1>6, <2>1 DEF SyncPlan
  <2>5. \A j \in Present(peers') \cap (n.removes \cup n.upserts) : peers'[j].email \in n.touched
    BY <1>2, <1>6, <2>1 DEF SyncPlan
  <2>6. \A j \in n.removes \cup n.statsDue : n.desired[j] = None
    BY <1>2, <1>4, <1>6 DEF SyncPlan
  <2>7. \A j \in n.statsDue : peers'[j] = None
    <3>1. o.statsDue \subseteq Keys
      BY <1>1 DEF Op
    <3>. QED
      BY <1>2, <1>5, <1>6, <3>1 DEF SyncPlan
  <2>. QED
    BY <2>2, <2>3, <2>4, <2>5, <2>6, <2>7 DEF SyncPlan, n
<1>8. Outcome(op[c])' = Outcome(op[c])
  <2>1. k \notin o.upserts
    BY <1>1, <1>4 DEF GoodOp, Present
  <2>2. \A j \in Keys :
          (IF j \in n.upserts THEN n.desired[j] ELSE IF j \in n.removes THEN None ELSE peers'[j])
            = IF j \in o.upserts THEN o.desired[j] ELSE IF j \in o.removes THEN None ELSE peers[j]
    BY <1>2, <1>4, <1>5, <2>1
  <2>3. Outcome(op[c])' = [j \in Keys |-> IF j \in n.upserts THEN n.desired[j]
                                          ELSE IF j \in n.removes THEN None ELSE peers'[j]]
    BY DEF Outcome, n
  <2>. QED
    BY <2>2, <2>3 DEF Outcome, o
<1>. QED
  BY <1>7, <1>8

LEMMA UpsertKeepsPlan ==
  ASSUME IInv, NEW c \in Callers, NEW k \in Keys, SyncPlan(op[c]), ApplyUpsert(c, k)
  PROVE  SyncPlan(op[c])' /\ Outcome(op[c])' = Outcome(op[c])
<1>. DEFINE o == op[c]
            n == op'[c]
            oldKey == emailToKey[o.desired[k].email]
<1>1. o \in Op /\ GoodOp(o) /\ op \in [Callers -> Op]
  BY DEF IInv, PlanOK, TypeOK
<1>2. /\ n.removes = {} /\ o.removes = {}
      /\ n.upserts = o.upserts \ {k} /\ n.desired = o.desired
      /\ n.touched = o.touched /\ n.statsDue = o.statsDue
  BY <1>1 DEF ApplyUpsert, Op
<1>3. k \in o.upserts /\ k \in Present(o.desired)
  BY <1>1 DEF ApplyUpsert, GoodOp
<1>4. SyncPlan(o)
  OBVIOUS
<1>5. \A j \in Keys : peers'[j] = IF j = k THEN o.desired[k]
                                  ELSE IF j = oldKey THEN None ELSE peers[j]
  BY DEF ApplyUpsert
<1>. HIDE DEF n, o
\* The key the user had is still to be given to the user who is to have it.
<1>6. oldKey \in Keys /\ oldKey # k => oldKey \in o.upserts
  <2>. SUFFICES ASSUME oldKey \in Keys, oldKey # k, oldKey \notin o.upserts
                PROVE  FALSE
    OBVIOUS
  <2>1. o.desired[k].email \in Emails
    BY <1>1, <1>3 DEF GoodOp, Op, MaybePeer, Peer, Present
  <2>2. peers[oldKey] # None /\ peers[oldKey].email = o.desired[k].email
    BY <2>1, NoneAssumption DEF IInv, OneToOne
  <2>3. peers[oldKey] = o.desired[oldKey]
    BY <1>2, <1>3, <1>4, <2>2 DEF SyncPlan, Present
  <2>4. oldKey \in Present(o.desired)
    BY <2>2, <2>3 DEF Present
  <2>. QED
    BY <1>1, <1>3, <2>2, <2>3, <2>4 DEF GoodOp, OnePeerPerUser
<1>7. SyncPlan(op[c])'
  <2>1. \A j \in Present(peers') : j = k \/ (j \in Present(peers) /\ peers'[j] = peers[j])
    BY <1>5 DEF Present
  <2>2. \A j \in Present(n.desired) : n.desired[j].email \in n.touched
    BY <1>2, <1>4 DEF SyncPlan
  <2>3. \A j \in Present(n.desired) \ n.upserts : peers'[j] = n.desired[j]
    BY <1>2, <1>4, <1>5, <1>6 DEF SyncPlan, Present
  <2>4. \A j \in Present(peers') \ (n.removes \cup n.upserts) :
          peers'[j].email \in n.touched => peers'[j] = n.desired[j]
    BY <1>2, <1>4, <1>5, <2>1 DEF SyncPlan
  <2>5. \A j \in Present(peers') \cap (n.removes \cup n.upserts) : peers'[j].email \in n.touched
    BY <1>2, <1>4, <2>1 DEF SyncPlan
  <2>6. \A j \in n.removes \cup n.statsDue : n.desired[j] = None
    BY <1>2, <1>4 DEF SyncPlan
  <2>7. \A j \in n.statsDue : peers'[j] = None
    <3>1. o.statsDue \subseteq Keys /\ k \notin o.statsDue
      BY <1>1, <1>3, <1>4 DEF Op, SyncPlan, Present
    <3>. QED
      BY <1>2, <1>4, <1>5, <3>1 DEF SyncPlan
  <2>. QED
    BY <2>2, <2>3, <2>4, <2>5, <2>6, <2>7 DEF SyncPlan, n
<1>8. Outcome(op[c])' = Outcome(op[c])
  <2>1. \A j \in Keys :
          (IF j \in n.upserts THEN n.desired[j] ELSE IF j \in n.removes THEN None ELSE peers'[j])
            = IF j \in o.upserts THEN o.desired[j] ELSE IF j \in o.removes THEN None ELSE peers[j]
    BY <1>2, <1>3, <1>5, <1>6
  <2>2. Outcome(op[c])' = [j \in Keys |-> IF j \in n.upserts THEN n.desired[j]
                                          ELSE IF j \in n.removes THEN None ELSE peers'[j]]
    BY DEF Outcome, n
  <2>. QED
    BY <2>1, <2>2 DEF Outcome, o
<1>. QED
  BY <1>7, <1>8

-----------------------------------------------------------------------------
(* Every step preserves DeviceInv.                                         *)

LEMMA StepHolder ==
  ASSUME IInv, HolderOK, NEW c \in Callers, Step(c)
  PROVE  /\ syncMu = c /\ state # "starting" /\ op[c].pc # "idle"
         /\ op[c] \in Op /\ GoodOp(op[c]) /\ op \in [Callers -> Op]
<1>1. op[c].pc # "idle"
  BY DEF Step, EnsureRunning, ConfigureDevice, ConfigureDeviceFails, ClientClosed, ReplaceAll,
         LockStore, ApplyRemove, ApplyUpsert, UnlockStore, RemoveStats, FinishSync
<1>2. IdleOp.pc = "idle"
  BY DEF IdleOp
<1>3. syncMu = c
  BY <1>1, <1>2 DEF HolderOK
<1>. QED
  BY <1>1, <1>3, NoneAssumption DEF HolderOK, IInv, TypeOK, PlanOK

\* Between its steps the caller that takes, holds or gives back syncMu is the
\* only one inside a call.
LEMMA HolderKept ==
  ASSUME HolderOK, NEW c \in Callers, syncMu \in {c, None}, state # "starting", UNCHANGED lifecycle,
         \A d \in Callers \ {c} : op'[d] = op[d],
         \/ syncMu' = c /\ op'[c].pc # "idle"
         \/ syncMu' = None /\ op'[c] = IdleOp
  PROVE  HolderOK'
BY NoneAssumption DEF HolderOK, lifecycle

LEMMA IdleCallOK == CallOK(IdleOp) /\ CallOK(IdleOp)'
BY DEF CallOK, IdleOp, SyncKinds

LEMMA CallsKept ==
  ASSUME HolderOK, NEW c \in Callers, syncMu \in {c, None},
         \A d \in Callers \ {c} : op'[d] = op[d],
         CallOK(op[c])'
  PROVE  CallsOK'
<1>1. ASSUME NEW d \in Callers \ {c} PROVE CallOK(op[d])'
  <2>1. op'[d] = IdleOp
    BY NoneAssumption DEF HolderOK
  <2>. QED
    BY <2>1, IdleCallOK
<1>. QED
  BY <1>1 DEF CallsOK

LEMMA ReconcileBegins ==
  ASSUME IInv, DeviceInv, NEW c \in Callers, Idle(c), NEW users, users \subseteq UserMsg,
         \A u, v \in users : u.email = v.email => u = v,
         NEW kind \in SyncKinds, PartialReconcile(c, users, kind)
  PROVE  DeviceInv'
<1>. DEFINE touched == {u.email : u \in users}
            desired == CollectDesiredPeers(users)
            existing == ExistingForTouched(touched)
            o == SyncOp(kind, touched, existing, desired)
            pc == IF o.adds \cup o.replaces \cup o.removes = {} THEN "commit" ELSE "check"
            n == [o EXCEPT !.pc = pc]
<1>1. SyncPlan(o) /\ DevicePlan(o)
  BY PlanMade DEF PartialReconcile
<1>2. GoodOp(o)
  <2>1. /\ desired \in [Keys -> MaybePeer] /\ OnePeerPerUser(desired)
        /\ touched \in SUBSET Emails /\ kind \in Kinds
    BY DesiredType, DesiredInjective DEF UserMsg, Kinds, SyncKinds
  <2>. HIDE DEF touched, desired, existing
  <2>. QED
    BY <2>1, SyncOpGood
<1>3. op' = [op EXCEPT ![c] = n] /\ syncMu' = c /\ UNCHANGED <<store, device, lifecycle>>
  BY DEF PartialReconcile, Begin
<1>4. o.kind = kind
  BY DEF SyncOp, IdleOp
<1>. HIDE DEF o
<1>5. op'[c] = n /\ \A d \in Callers \ {c} : op'[d] = op[d]
  BY <1>3 DEF IInv, TypeOK
<1>6. /\ op'[c].pc = pc /\ op'[c].kind = kind /\ op'[c].touched = o.touched
      /\ op'[c].desired = o.desired /\ op'[c].removes = o.removes
      /\ op'[c].upserts = o.upserts /\ op'[c].adds = o.adds
      /\ op'[c].replaces = o.replaces /\ op'[c].statsDue = o.statsDue
  BY <1>2, <1>4, <1>5 DEF GoodOp, Op
<1>7. /\ syncMu = None /\ state # "starting" /\ syncMu' = c
      /\ peers' = peers /\ kernel' = kernel /\ dirty' = dirty /\ state' = state
  BY <1>3 DEF Idle, store, device, lifecycle
<1>. HIDE DEF n
<1>8. HolderOK'
  BY <1>3, <1>5, <1>6, <1>7, HolderKept DEF DeviceInv
<1>9. CallsOK'
  <2>1. SyncPlan(op[c])'
    BY <1>1, <1>6, <1>7 DEF SyncPlan, Present
  <2>2. DevicePlan(op[c])'
    BY <1>1, <1>6, <1>7 DEF DevicePlan
  <2>3. op'[c].pc \in {"check", "commit"} /\ op'[c].kind \in SyncKinds
    BY <1>6
  <2>4. CallOK(op[c])'
    BY <2>1, <2>2, <2>3 DEF CallOK, SyncKinds
  <2>. QED
    BY <1>5, <1>7, <2>4, CallsKept DEF DeviceInv
<1>10. DeviceOK'
  <2>. SUFFICES ASSUME state = "running", ~dirty PROVE Configures(Expected)'
    BY <1>7 DEF DeviceOK
  <2>1. Configures(peers)
    BY <1>7 DEF DeviceInv, DeviceOK, Expected
  <2>2. Expected' = Committed(op[c])'
    BY <1>7, NoneAssumption DEF Expected
  <2>3. CASE op'[c].pc = "check"
    <3>1. Expected' = peers
      BY <1>7, <2>2, <2>3 DEF Committed
    <3>. QED
      BY <1>7, <2>1, <3>1 DEF Configures, Present
  <2>4. CASE op'[c].pc # "check"
    <3>1. op'[c].pc = "commit" /\ o.adds \cup o.replaces \cup o.removes = {}
      BY <1>6, <2>4
    <3>2. Configures(Outcome(o))
      BY <1>1, <1>2, <2>1, <3>1, UnconfiguredOutcome
    <3>3. Outcome(op[c])' = Outcome(o)
      BY <1>6, <1>7 DEF Outcome
    <3>4. op'[c].kind # "full"
      BY <1>6 DEF SyncKinds
    <3>5. Expected' = Outcome(op[c])'
      BY <2>2, <3>1, <3>4 DEF Committed
    <3>. QED
      BY <1>7, <3>2, <3>3, <3>5 DEF Configures, Present
  <2>. QED
    BY <2>3, <2>4
<1>. QED
  BY <1>8, <1>9, <1>10 DEF DeviceInv

\* A step that leaves the device alone, and what the store is to hold.
LEMMA DeviceKept ==
  ASSUME DeviceOK, UNCHANGED <<kernel, dirty, state>>, Expected' = Expected
  PROVE  DeviceOK'
BY DEF DeviceOK, Configures, Present

\* A call that returns without having committed anything.
LEMMA Returned ==
  ASSUME IInv, DeviceInv, NEW c \in Callers, Step(c), Return(c), UNCHANGED <<store, lifecycle>>
  PROVE  HolderOK' /\ CallsOK' /\ Expected' = peers
<1>1. /\ syncMu = c /\ state # "starting" /\ op \in [Callers -> Op]
  BY StepHolder DEF DeviceInv
<1>2. syncMu' = None /\ op'[c] = IdleOp /\ \A d \in Callers \ {c} : op'[d] = op[d]
  BY <1>1 DEF Return
<1>3. HolderOK'
  BY <1>1, <1>2, HolderKept DEF DeviceInv
<1>4. CallsOK'
  <2>1. CallOK(op[c])'
    BY <1>2, IdleCallOK
  <2>. QED
    BY <1>1, <1>2, <2>1, CallsKept DEF DeviceInv
<1>. QED
  BY <1>2, <1>3, <1>4 DEF Expected, store

LEMMA DeviceInvStep ==
  ASSUME IInv, DeviceInv, NEW c \in Callers, Step(c)
  PROVE  DeviceInv'
<1>. USE DEF store, device, lifecycle
<1>1. /\ syncMu = c /\ state # "starting" /\ op[c].pc # "idle" /\ c # None
      /\ op[c] \in Op /\ GoodOp(op[c]) /\ op \in [Callers -> Op]
  BY StepHolder, NoneAssumption DEF DeviceInv
<1>2. HolderOK /\ CallOK(op[c]) /\ DeviceOK
  BY DEF DeviceInv, CallsOK
<1>3. Expected = Committed(op[c])
  BY <1>1 DEF Expected
<1>4. \A pc \in PcValues : op' = [op EXCEPT ![c].pc = pc] =>
        /\ op'[c].pc = pc /\ op'[c].kind = op[c].kind /\ op'[c].touched = op[c].touched
        /\ op'[c].desired = op[c].desired /\ op'[c].removes = op[c].removes
        /\ op'[c].upserts = op[c].upserts /\ op'[c].adds = op[c].adds
        /\ op'[c].replaces = op[c].replaces /\ op'[c].statsDue = op[c].statsDue
        /\ \A d \in Callers \ {c} : op'[d] = op[d]
  BY <1>1 DEF Op
\* What remains to be shown of a call that goes on.
<1>5. ASSUME syncMu' = c, UNCHANGED lifecycle, op'[c].pc # "idle",
             \A d \in Callers \ {c} : op'[d] = op[d], CallOK(op[c])'
      PROVE  HolderOK' /\ CallsOK' /\ Expected' = Committed(op[c])'
  <2>1. HolderOK'
    BY <1>1, <1>2, <1>5, HolderKept
  <2>2. CallsOK'
    BY <1>1, <1>2, <1>5, CallsKept
  <2>. QED
    BY <1>1, <1>5, <2>1, <2>2 DEF Expected
<1>6. CASE EnsureRunning(c)
  <2>1. Expected = peers
    BY <1>3, <1>6 DEF EnsureRunning, Committed
  <2>2. CASE state = "running"
    <3>1. /\ op' = [op EXCEPT ![c].pc = "apply"] /\ op[c].pc = "check"
          /\ UNCHANGED <<store, device, lifecycle, syncMu>>
      BY <1>6, <2>2 DEF EnsureRunning
    <3>2. op'[c].pc = "apply" /\ \A d \in Callers \ {c} : op'[d] = op[d]
      BY <1>4, <3>1 DEF PcValues
    <3>3. CallOK(op[c])'
      BY <1>2, <1>4, <3>1 DEF CallOK, SyncPlan, DevicePlan, Present, PcValues
    <3>4. HolderOK' /\ CallsOK' /\ Expected' = Committed(op[c])'
      BY <1>1, <1>5, <3>1, <3>2, <3>3
    <3>5. Committed(op[c])' = peers
      BY <3>1, <3>2 DEF Committed
    <3>. QED
      BY <1>2, <2>1, <3>1, <3>4, <3>5, DeviceKept DEF DeviceInv
  <2>3. CASE state # "running"
    BY <1>6, <2>3, Returned DEF EnsureRunning, DeviceInv, DeviceOK
  <2>. QED
    BY <2>2, <2>3
<1>7. CASE ConfigureDevice(c)
  <2>1. Expected = peers
    BY <1>3, <1>7 DEF ConfigureDevice, Committed
  <2>2. CASE op[c].kind \in SyncKinds
    <3>1. /\ op' = [op EXCEPT ![c].pc = "commit"] /\ op[c].pc = "apply"
          /\ kernel' = Configured(op[c], Keys)
          /\ UNCHANGED <<peers, emailToKey, dirty, lifecycle, syncMu>>
      BY <1>7, <2>2 DEF ConfigureDevice, SyncKinds
    <3>2. /\ op'[c].pc = "commit" /\ op'[c].kind \in SyncKinds
          /\ \A d \in Callers \ {c} : op'[d] = op[d]
      BY <1>4, <2>2, <3>1 DEF PcValues
    <3>3. SyncPlan(op[c]) /\ DevicePlan(op[c])
      BY <1>2, <2>2, <3>1 DEF CallOK
    <3>4. CallOK(op[c])'
      <4>1. SyncPlan(op[c])'
        BY <1>4, <3>1, <3>3 DEF SyncPlan, Present, PcValues
      <4>. QED
        BY <3>2, <4>1 DEF CallOK, SyncKinds
    <3>5. HolderOK' /\ CallsOK' /\ Expected' = Committed(op[c])'
      BY <1>1, <1>5, <3>1, <3>2, <3>4
    <3>6. Expected' = Outcome(op[c])
      <4>1. Committed(op[c])' = Outcome(op[c])'
        BY <3>2 DEF Committed, SyncKinds
      <4>2. Outcome(op[c])' = Outcome(op[c])
        BY <1>4, <3>1 DEF Outcome, PcValues
      <4>. QED
        BY <3>5, <4>1, <4>2
    <3>7. DeviceOK'
      <4>. SUFFICES ASSUME state = "running", ~dirty PROVE Configures(Expected)'
        BY <3>1 DEF DeviceOK
      <4>1. Configures(peers)
        BY <1>2, <2>1 DEF DeviceOK
      <4>2. Present(Outcome(op[c])) = Present(kernel')
            /\ \A k \in Present(kernel') : kernel'[k] \subseteq Outcome(op[c])[k].ips
        BY <3>1, <3>3, <4>1, ConfiguredOutcome
      <4>. QED
        BY <3>6, <4>2 DEF Configures, Present
    <3>. QED
      BY <3>5, <3>7 DEF DeviceInv
  <2>3. CASE op[c].kind \notin SyncKinds
    <3>1. kernel' = Replaced(op[c], Keys) /\ op[c].pc = "apply"
      BY <1>7, <2>3 DEF ConfigureDevice, SyncKinds
    <3>2. HolderOK' /\ CallsOK' /\ Expected' = op[c].desired
      <4>1. CASE op[c].kind = "restart"
        <5>1. op[c].desired = peers
          BY <1>2, <4>1 DEF CallOK
        <5>2. Return(c) /\ UNCHANGED <<store, lifecycle>>
          BY <1>7, <4>1 DEF ConfigureDevice
        <5>. QED
          BY <5>1, <5>2, Returned
      <4>2. CASE op[c].kind # "restart"
        <5>1. op' = [op EXCEPT ![c].pc = "commit"] /\ UNCHANGED <<store, lifecycle, syncMu>>
          BY <1>7, <4>2 DEF ConfigureDevice
        <5>2. op[c].kind = "full"
          BY <1>1, <1>2, <2>3, <4>2 DEF CallOK, Op, Kinds, SyncKinds
        <5>3. /\ op'[c].pc = "commit" /\ op'[c].kind = "full" /\ op'[c].desired = op[c].desired
              /\ \A d \in Callers \ {c} : op'[d] = op[d]
          BY <1>4, <5>1, <5>2 DEF PcValues
        <5>4. CallOK(op[c])'
          BY <5>3 DEF CallOK, SyncKinds
        <5>5. HolderOK' /\ CallsOK' /\ Expected' = Committed(op[c])'
          BY <1>1, <1>5, <5>1, <5>3, <5>4
        <5>. QED
          BY <5>3, <5>5 DEF Committed
      <4>. QED
        BY <4>1, <4>2
    <3>3. DeviceOK'
      <4>1. /\ Present(op[c].desired) = Present(kernel')
            /\ \A k \in Present(kernel') : kernel'[k] \subseteq op[c].desired[k].ips
        BY <3>1, ReplacedDesired
      <4>. QED
        BY <3>2, <4>1 DEF DeviceOK, Configures, Present
    <3>. QED
      BY <3>2, <3>3 DEF DeviceInv
  <2>. QED
    BY <2>2, <2>3
<1>8. CASE ConfigureDeviceFails(c) \/ ClientClosed(c)
  <2>1. Expected = peers
    BY <1>3, <1>8 DEF ConfigureDeviceFails, ClientClosed, Committed
  <2>2. HolderOK' /\ CallsOK' /\ Expected' = peers
    BY <1>8, Returned DEF ConfigureDeviceFails, ClientClosed
  <2>3. DeviceOK'
    <3>1. CASE UNCHANGED device
      BY <1>2, <1>8, <2>1, <2>2, <3>1, DeviceKept DEF ConfigureDeviceFails, ClientClosed
    <3>2. CASE dirty' = TRUE
      BY <3>2 DEF DeviceOK
    <3>. QED
      BY <1>8, <3>1, <3>2 DEF ConfigureDeviceFails, ClientClosed
  <2>. QED
    BY <2>2, <2>3 DEF DeviceInv
<1>9. CASE ReplaceAll(c)
  <2>. DEFINE D == Present(peers) \ Present(op[c].desired)
  <2>1. /\ op' = [op EXCEPT ![c].pc = "stats", ![c].statsDue = D]
        /\ op[c].pc = "commit" /\ op[c].kind = "full" /\ peers' = op[c].desired
        /\ UNCHANGED <<device, lifecycle, syncMu>>
    BY <1>9 DEF ReplaceAll
  <2>2. /\ op'[c].pc = "stats" /\ op'[c].kind = "full" /\ op'[c].desired = op[c].desired
        /\ op'[c].statsDue = D /\ \A d \in Callers \ {c} : op'[d] = op[d]
    BY <1>1, <2>1 DEF Op
  <2>3. CallOK(op[c])'
    <3>1. \A k \in D : peers'[k] = None
      BY <2>1 DEF Present
    <3>. HIDE DEF D
    <3>. QED
      BY <2>1, <2>2, <3>1 DEF CallOK, SyncKinds
  <2>4. HolderOK' /\ CallsOK' /\ Expected' = Committed(op[c])'
    BY <1>1, <1>5, <2>1, <2>2, <2>3
  <2>5. Expected = op[c].desired
    BY <1>3, <2>1 DEF Committed
  <2>6. Expected' = peers'
    BY <2>2, <2>4 DEF Committed
  <2>. QED
    BY <1>2, <2>1, <2>4, <2>5, <2>6, DeviceKept DEF DeviceInv
<1>10. CASE LockStore(c)
  <2>1. /\ op' = [op EXCEPT ![c].pc = "storing"] /\ op[c].pc = "commit" /\ op[c].kind # "full"
        /\ UNCHANGED <<store, device, lifecycle, syncMu>>
    BY <1>10 DEF LockStore
  <2>2. op'[c].pc = "storing" /\ op'[c].kind # "full" /\ \A d \in Callers \ {c} : op'[d] = op[d]
    BY <1>4, <2>1 DEF PcValues
  <2>3. CallOK(op[c])'
    BY <1>2, <1>4, <2>1, <2>2 DEF CallOK, SyncPlan, Present, PcValues
  <2>4. HolderOK' /\ CallsOK' /\ Expected' = Committed(op[c])'
    BY <1>1, <1>5, <2>1, <2>2, <2>3
  <2>5. Expected' = Expected
    <3>1. Outcome(op[c])' = Outcome(op[c])
      BY <1>4, <2>1 DEF Outcome, PcValues
    <3>. QED
      BY <1>3, <2>1, <2>2, <2>4, <3>1 DEF Committed
  <2>. QED
    BY <1>2, <2>1, <2>4, <2>5, DeviceKept DEF DeviceInv
<1>11. ASSUME NEW k \in Keys, ApplyRemove(c, k) \/ ApplyUpsert(c, k) PROVE DeviceInv'
  <2>1. /\ op[c].pc = "storing" /\ UNCHANGED <<device, lifecycle, syncMu>>
    BY <1>11 DEF ApplyRemove, ApplyUpsert
  <2>2. op[c].kind \in SyncKinds /\ SyncPlan(op[c])
    BY <1>1, <1>2, <2>1 DEF CallOK, Op, Kinds, SyncKinds
  <2>3. SyncPlan(op[c])' /\ Outcome(op[c])' = Outcome(op[c])
    BY <1>11, <2>2, RemoveKeepsPlan, UpsertKeepsPlan
  <2>4. /\ op'[c].pc = "storing" /\ op'[c].kind = op[c].kind
        /\ \A d \in Callers \ {c} : op'[d] = op[d]
    <3>1. CASE ApplyRemove(c, k)
      <4>1. CASE peers[k] # None
        BY <1>1, <2>1, <3>1, <4>1 DEF ApplyRemove, Op
      <4>2. CASE peers[k] = None
        BY <1>1, <2>1, <3>1, <4>2 DEF ApplyRemove, Op
      <4>. QED
        BY <4>1, <4>2
    <3>2. CASE ApplyUpsert(c, k)
      BY <1>1, <2>1, <3>2 DEF ApplyUpsert, Op
    <3>. QED
      BY <1>11, <3>1, <3>2
  <2>5. CallOK(op[c])'
    BY <2>2, <2>3, <2>4 DEF CallOK, SyncKinds
  <2>6. HolderOK' /\ CallsOK' /\ Expected' = Committed(op[c])'
    BY <1>1, <1>5, <2>1, <2>4, <2>5
  <2>7. Expected' = Expected
    BY <1>3, <2>1, <2>2, <2>3, <2>4, <2>6 DEF Committed, SyncKinds
  <2>. QED
    BY <1>2, <2>1, <2>6, <2>7, DeviceKept DEF DeviceInv
<1>12. CASE UnlockStore(c)
  <2>1. /\ op' = [op EXCEPT ![c].pc = "stats"] /\ op[c].pc = "storing"
        /\ op[c].removes = {} /\ op[c].upserts = {}
        /\ UNCHANGED <<store, device, lifecycle, syncMu>>
    BY <1>12 DEF UnlockStore
  <2>2. op[c].kind \in SyncKinds
    BY <1>1, <1>2, <2>1 DEF CallOK, Op, Kinds, SyncKinds
  <2>3. op'[c].pc = "stats" /\ op'[c].kind \in SyncKinds /\ \A d \in Callers \ {c} : op'[d] = op[d]
    BY <1>4, <2>1, <2>2 DEF PcValues
  <2>4. CallOK(op[c])'
    <3>1. SyncPlan(op[c])'
      BY <1>2, <1>4, <2>1, <2>2 DEF CallOK, SyncPlan, Present, PcValues
    <3>2. op'[c].removes = {} /\ op'[c].upserts = {}
      BY <1>4, <2>1 DEF PcValues
    <3>. QED
      BY <2>3, <3>1, <3>2 DEF CallOK, SyncKinds
  <2>5. HolderOK' /\ CallsOK' /\ Expected' = Committed(op[c])'
    BY <1>1, <1>5, <2>1, <2>3, <2>4
  <2>6. Expected' = peers
    BY <2>1, <2>3, <2>5 DEF Committed
  <2>7. Expected = peers
    <3>1. Outcome(op[c]) = peers
      BY <2>1 DEF Outcome, IInv, TypeOK
    <3>. QED
      BY <1>3, <2>1, <2>2, <3>1 DEF Committed, SyncKinds
  <2>. QED
    BY <1>2, <2>1, <2>5, <2>6, <2>7, DeviceKept DEF DeviceInv
<1>13. ASSUME NEW k \in Keys, RemoveStats(c, k) PROVE DeviceInv'
  <2>1. /\ op' = [op EXCEPT ![c].statsDue = op[c].statsDue \ {k}] /\ op[c].pc = "stats"
        /\ UNCHANGED <<store, device, lifecycle, syncMu>>
    BY <1>1, <1>13 DEF RemoveStats
  <2>2. /\ op'[c].pc = "stats" /\ op'[c].kind = op[c].kind /\ op'[c].touched = op[c].touched
        /\ op'[c].desired = op[c].desired /\ op'[c].removes = op[c].removes
        /\ op'[c].upserts = op[c].upserts /\ op'[c].statsDue \subseteq op[c].statsDue
        /\ \A d \in Callers \ {c} : op'[d] = op[d]
    BY <1>1, <2>1 DEF Op
  <2>3. CallOK(op[c])'
    <3>1. op[c].kind \in SyncKinds => SyncPlan(op[c])'
      BY <1>2, <2>1, <2>2 DEF CallOK, SyncPlan, Present
    <3>. QED
      BY <1>2, <2>1, <2>2, <3>1 DEF CallOK
  <2>4. HolderOK' /\ CallsOK' /\ Expected' = Committed(op[c])'
    BY <1>1, <1>5, <2>1, <2>2, <2>3
  <2>5. Expected' = Expected
    BY <1>3, <2>1, <2>2, <2>4 DEF Committed
  <2>. QED
    BY <1>2, <2>1, <2>4, <2>5, DeviceKept DEF DeviceInv
<1>14. CASE FinishSync(c)
  <2>1. Expected = peers
    BY <1>3, <1>14 DEF FinishSync, Committed
  <2>2. HolderOK' /\ CallsOK' /\ Expected' = peers
    <3>1. CASE op[c].kind = "partialRestart"
      <4>1. op' = [op EXCEPT ![c] = RestartOp] /\ UNCHANGED <<store, device, lifecycle, syncMu>>
        BY <1>14, <3>1 DEF FinishSync
      <4>2. /\ op'[c].pc = "check" /\ op'[c].kind = "restart" /\ op'[c].desired = peers
            /\ \A d \in Callers \ {c} : op'[d] = op[d]
        BY <1>1, <4>1 DEF RestartOp, IdleOp
      <4>3. CallOK(op[c])'
        BY <4>1, <4>2 DEF CallOK, SyncKinds
      <4>4. HolderOK' /\ CallsOK' /\ Expected' = Committed(op[c])'
        BY <1>1, <1>5, <4>1, <4>2, <4>3
      <4>. QED
        BY <4>1, <4>2, <4>4 DEF Committed
    <3>2. CASE op[c].kind # "partialRestart"
      BY <1>14, <3>2, Returned DEF FinishSync
    <3>. QED
      BY <3>1, <3>2
  <2>. QED
    BY <1>2, <1>14, <2>1, <2>2, DeviceKept DEF DeviceInv, FinishSync
<1>. QED
  BY <1>6, <1>7, <1>8, <1>9, <1>10, <1>11, <1>12, <1>13, <1>14 DEF Step

LEMMA DeviceInvNext == IInv /\ DeviceInv /\ [Next]_vars => DeviceInv'
<1>. SUFFICES ASSUME IInv, DeviceInv, [Next]_vars PROVE DeviceInv'
  OBVIOUS
<1>. USE DEF store, device, lifecycle
<1>1. CASE New
  <2>1. PICK users \in UserSets :
          LET desired == CollectDesiredPeers(users) IN
          /\ kernel' = [k \in Keys |-> IF desired[k] = None THEN None ELSE desired[k].ips]
          /\ peers' = desired
          /\ state' = "running" /\ client' = TRUE
          /\ UNCHANGED <<dirty, syncMu, op>>
    BY <1>1 DEF New
  <2>2. syncMu = None
    BY <1>1 DEF New, DeviceInv, HolderOK
  <2>3. HolderOK'
    BY <2>1, <2>2 DEF DeviceInv, HolderOK
  <2>4. CallsOK'
    <3>1. \A c \in Callers : op'[c] = IdleOp
      BY <2>1, <2>2, NoneAssumption DEF DeviceInv, HolderOK
    <3>. QED
      BY <3>1, IdleCallOK DEF CallsOK
  <2>5. Configures(Expected)'
    <3>1. Expected' = peers'
      BY <2>1, <2>2 DEF Expected
    <3>2. peers' \in [Keys -> MaybePeer]
      BY <2>1, UserSetsType, DesiredType
    <3>3. \A k \in Keys : kernel'[k] = IF peers'[k] = None THEN None ELSE peers'[k].ips
      BY <2>1
    <3>4. \A k \in Keys : peers'[k] # None => peers'[k].ips # None
      BY <3>2, NoneAssumption DEF MaybePeer, Peer
    <3>. QED
      BY <3>1, <3>3, <3>4 DEF Configures, Present
  <2>. QED
    BY <2>3, <2>4, <2>5 DEF DeviceInv, DeviceOK
<1>2. CASE Shutdown
  BY <1>2 DEF Shutdown, DeviceInv, HolderOK, CallsOK, CallOK, SyncPlan, DevicePlan, DeviceOK, Present
<1>3. ASSUME NEW c \in Callers, SyncUser(c) \/ UpdateUsers(c) \/ UpdateUsersAndRestart(c)
      PROVE  DeviceInv'
  <2>1. ASSUME NEW u \in UserMsgs, Idle(c), PartialReconcile(c, NormalizeUsers(<<u>>), "partial")
        PROVE  DeviceInv'
    BY <2>1, ReconcileBegins, SingleUserType, SingleUserUnique DEF SyncKinds
  <2>2. ASSUME NEW users \in UserSets, NEW kind \in SyncKinds, Idle(c),
               PartialReconcile(c, users, kind)
        PROVE  DeviceInv'
    BY <2>2, ReconcileBegins, UserSetsType, UserSetsUnique
  <2>. QED
    BY <1>3, <2>1, <2>2 DEF SyncUser, UpdateUsers, UpdateUsersAndRestart, SyncKinds
<1>4. ASSUME NEW c \in Callers, SyncUsers(c) \/ Restart(c) PROVE DeviceInv'
  <2>1. /\ syncMu = None /\ state # "starting" /\ syncMu' = c
        /\ UNCHANGED <<store, device, lifecycle>>
    BY <1>4 DEF SyncUsers, Restart, Begin, Idle
  <2>2. /\ op'[c].pc = "check" /\ \A d \in Callers \ {c} : op'[d] = op[d]
        /\ op'[c].kind = "full" \/ (op'[c].kind = "restart" /\ op'[c].desired = peers)
    <3>1. op \in [Callers -> Op]
      BY DEF IInv, TypeOK
    <3>2. CASE Restart(c)
      BY <3>1, <3>2 DEF Restart, Begin, RestartOp, IdleOp
    <3>3. CASE SyncUsers(c)
      <4>1. PICK users \in UserSets :
              op' = [op EXCEPT ![c] = SyncOp("full", Emails, peers, CollectDesiredPeers(users))]
        BY <3>3 DEF SyncUsers, Begin
      <4>. QED
        BY <3>1, <4>1 DEF SyncOp, IdleOp
    <3>. QED
      BY <1>4, <3>2, <3>3
  <2>3. HolderOK'
    BY <2>1, <2>2, HolderKept DEF DeviceInv
  <2>4. CallsOK'
    <3>1. CallOK(op[c])'
      BY <2>1, <2>2 DEF CallOK, SyncKinds
    <3>. QED
      BY <2>1, <2>2, <3>1, CallsKept DEF DeviceInv
  <2>5. Expected' = Expected
    BY <2>1, <2>2, NoneAssumption DEF Expected, Committed
  <2>. QED
    BY <2>1, <2>3, <2>4, <2>5, DeviceKept DEF DeviceInv
<1>5. CASE UNCHANGED vars
  BY <1>5 DEF vars, DeviceInv, HolderOK, CallsOK, CallOK, SyncPlan, DevicePlan, Present,
              DeviceOK, Configures, Expected, Committed, Outcome
<1>. QED
  BY <1>1, <1>2, <1>3, <1>4, <1>5, DeviceInvStep DEF Next

LEMMA DeviceInvInit == Init => DeviceInv
<1>. SUFFICES ASSUME Init PROVE DeviceInv
  OBVIOUS
<1>1. HolderOK /\ DeviceOK
  BY NoneAssumption DEF Init, HolderOK, DeviceOK
<1>2. CallsOK
  BY IdleCallOK DEF Init, CallsOK
<1>. QED
  BY <1>1, <1>2 DEF DeviceInv

LEMMA DeviceInvAlways == Spec => [](IInv /\ DeviceInv)
<1>1. Init => IInv /\ DeviceInv
  BY IInvInit, DeviceInvInit
<1>2. IInv /\ DeviceInv /\ [Next]_vars => (IInv /\ DeviceInv)'
  BY IInvNext, DeviceInvNext
<1>. QED
  BY <1>1, <1>2, PTL DEF Spec

(* Between calls the store holds exactly the peers committed to the        *)
(* kernel, with every address the kernel accepts from them, for any        *)
(* requests, any number of handlers and any interleaving of Shutdown, as   *)
(* long as no ConfigureDevice call failed half way.                        *)
THEOREM StoreKeepsUpWithKernel == Spec => []StoreMatchesKernel
<1>1. IInv /\ DeviceInv => StoreMatchesKernel
  BY DEF DeviceInv, DeviceOK, StoreMatchesKernel, Quiescent, Expected, Configures
<1>. QED
  BY <1>1, DeviceInvAlways, PTL

(* What a call commits is what its request asked for, and counters are     *)
(* retired only of keys the store no longer holds.                         *)
THEOREM SyncDoesWhatItIsAsked == Spec => []SyncEffect
<1>1. IInv /\ DeviceInv => SyncEffect
  <2>. SUFFICES ASSUME IInv, DeviceInv, NEW c \in Callers, op[c].pc = "stats"
                PROVE  /\ op[c].statsDue \cap Present(peers) = {}
                       /\ \A k \in Keys :
                            /\ op[c].desired[k] # None => peers[k] = op[c].desired[k]
                            /\ peers[k] # None /\ op[c].desired[k] = None
                                 => peers[k].email \notin op[c].touched
    BY DEF SyncEffect
  <2>1. CallOK(op[c]) /\ op[c] \in Op
    BY DEF DeviceInv, CallsOK, IInv, TypeOK
  <2>2. CASE op[c].kind = "full"
    BY <2>1, <2>2 DEF CallOK, Present
  <2>3. CASE op[c].kind # "full"
    <3>1. SyncPlan(op[c]) /\ op[c].removes = {} /\ op[c].upserts = {}
      BY <2>1, <2>3 DEF CallOK, Op, Kinds, SyncKinds
    <3>. QED
      BY <3>1 DEF SyncPlan, Present
  <2>. QED
    BY <2>2, <2>3
<1>. QED
  BY <1>1, DeviceInvAlways, PTL

(* A partial reconciliation never touches a user its request does not      *)
(* name, in any of the steps it takes.                                     *)
THEOREM UntouchedUsersStay == Spec => UntouchedUsersKept
<1>1. ASSUME IInv, DeviceInv, [Next]_vars,
             NEW c \in Callers, NEW e \in Emails, syncMu = c,
             op[c].kind \in {"partial", "partialRestart"}, e \notin op[c].touched
      PROVE  PeerOf(e)' = PeerOf(e)
  <2>1. CASE UNCHANGED store
    BY <2>1 DEF PeerOf, store
  <2>2. CASE New
    BY <1>1, <2>2, NoneAssumption DEF New, DeviceInv, HolderOK
  <2>3. ASSUME NEW d \in Callers, Step(d) PROVE PeerOf(e)' = PeerOf(e)
    <3>1. d = c /\ op[c] \in Op
      BY <1>1, <2>3, StepHolder DEF DeviceInv
    <3>2. CASE ReplaceAll(d)
      BY <1>1, <3>1, <3>2 DEF ReplaceAll
    <3>3. ASSUME NEW k \in Keys, ApplyRemove(c, k) \/ ApplyUpsert(c, k)
          PROVE  PeerOf(e)' = PeerOf(e)
      <4>1. SyncPlan(op[c]) /\ GoodOp(op[c])
        BY <1>1, <3>3 DEF ApplyRemove, ApplyUpsert, DeviceInv, CallsOK, CallOK, IInv, PlanOK, SyncKinds
      <4>2. k \in op[c].removes \cup op[c].upserts
        BY <3>3 DEF ApplyRemove, ApplyUpsert
      <4>3. peers[k] # None => peers[k].email \in op[c].touched
        BY <4>1, <4>2 DEF SyncPlan, Present
      <4>4. /\ peers \in [Keys -> MaybePeer] /\ emailToKey \in [Emails -> Keys \cup {None}]
            /\ OneToOne /\ None \notin Keys
        BY <1>1, NoneAssumption DEF IInv, TypeOK
      <4>5. emailToKey[e] # k
        BY <1>1, <4>3, <4>4 DEF OneToOne
      <4>6. emailToKey'[e] = emailToKey[e]
            /\ (emailToKey[e] # None => peers'[emailToKey[e]] = peers[emailToKey[e]])
        <5>1. CASE ApplyRemove(c, k) /\ peers[k] = None
          BY <5>1 DEF ApplyRemove, store
        <5>2. CASE ApplyRemove(c, k) /\ peers[k] # None
          <6>1. peers[k].email # e
            BY <1>1, <4>3, <5>2
          <6>. QED
            BY <4>4, <4>5, <5>2, <6>1 DEF ApplyRemove
        <5>3. CASE ApplyUpsert(c, k)
          <6>1. op[c].desired[k].email \in op[c].touched /\ op[c].desired[k].email \in Emails
            BY <4>1, <5>3 DEF ApplyUpsert, SyncPlan, GoodOp, Op, MaybePeer, Peer, Present
          <6>2. op[c].desired[k].email # e
            BY <1>1, <6>1
          <6>3. emailToKey[e] # None => emailToKey[e] # emailToKey[op[c].desired[k].email]
            BY <4>4, <6>1, <6>2 DEF OneToOne
          <6>4. /\ emailToKey'[e] = IF e = op[c].desired[k].email THEN k
                                    ELSE IF peers[k] # None /\ peers[k].email = e THEN None
                                    ELSE emailToKey[e]
                /\ \A j \in Keys : peers'[j] = IF j = k THEN op[c].desired[k]
                     ELSE IF j = emailToKey[op[c].desired[k].email] THEN None ELSE peers[j]
            BY <5>3 DEF ApplyUpsert
          <6>. QED
            BY <1>1, <4>3, <4>4, <4>5, <6>2, <6>3, <6>4
        <5>. QED
          BY <3>3, <5>1, <5>2, <5>3
      <4>. QED
        BY <4>6 DEF PeerOf
    <3>. QED
      BY <2>1, <2>3, <3>1, <3>2, <3>3 DEF Step, EnsureRunning, ConfigureDevice,
         ConfigureDeviceFails, ClientClosed, LockStore, UnlockStore, RemoveStats, FinishSync
  <2>. QED
    BY <1>1, <2>1, <2>2, <2>3 DEF Next, Shutdown, SyncUser, UpdateUsers, UpdateUsersAndRestart,
       PartialReconcile, SyncUsers, Restart, vars, store
<1>2. IInv /\ DeviceInv /\ [Next]_vars
        => [\A c \in Callers, e \in Emails :
              syncMu = c /\ op[c].kind \in {"partial", "partialRestart"} /\ e \notin op[c].touched
                => PeerOf(e)' = PeerOf(e)]_vars
  BY <1>1
<1>. QED
  BY <1>2, DeviceInvAlways, PTL DEF Spec, UntouchedUsersKept

(* Once Shutdown has run, no call that picked up the manager before it     *)
(* configures the device any more.                                         *)
THEOREM StoppedDeviceIsLeftAlone == Spec => ShutdownIsFinal
<1>1. IInv /\ DeviceInv /\ [Next]_vars => [state = "stopped" => kernel' = kernel]_vars
  <2>. SUFFICES ASSUME DeviceInv, Next, state = "stopped" PROVE kernel' = kernel
    BY DEF vars
  <2>1. ~client
    BY DEF DeviceInv, HolderOK
  <2>. QED
    BY <2>1 DEF Next, New, Shutdown, SyncUser, UpdateUsers, UpdateUsersAndRestart, PartialReconcile,
       SyncUsers, Restart, Step, EnsureRunning, ConfigureDevice, ConfigureDeviceFails, ClientClosed,
       ReplaceAll, LockStore, ApplyRemove, ApplyUpsert, UnlockStore, RemoveStats, FinishSync, device
<1>. QED
  BY <1>1, DeviceInvAlways, PTL DEF Spec, ShutdownIsFinal

=============================================================================
