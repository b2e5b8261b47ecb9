------------------------ MODULE SingBoxBackendProofs ------------------------
(***************************************************************************)
(* Proofs about SingBoxBackend, for any users, inbounds, callers, request  *)
(* sizes and numbers of faults: type correctness, and that no change of    *)
(* users is lost.                                                          *)
(***************************************************************************)
EXTENDS SingBoxBackend, TLAPS, WellFoundedInduction

-----------------------------------------------------------------------------
(* The last of the entries of a request.                                   *)

(* Pairs of the relation behind the well-foundedness of the naturals.      *)
LEMMA LessThanPair ==
  ASSUME NEW x \in Nat, NEW y \in Nat, y < x
  PROVE  <<y, x>> \in OpToRel(<, Nat)
<1>1. <<y, x>> \in Nat \X Nat /\ <<y, x>>[1] < <<y, x>>[2]
  OBVIOUS
<1>. QED
  BY <1>1, Zenon DEF OpToRel

(* A nonempty set of naturals has a least element.                         *)
LEMMA LeastIn ==
  ASSUME NEW T \in SUBSET Nat, T # {}
  PROVE  \E x \in T : \A y \in T : x <= y
<1>1. PICK x \in T : \A y \in T : ~(<<y, x>> \in OpToRel(<, Nat))
  BY NatLessThanWellFounded, WFMin, Zenon
<1>2. \A y \in T : ~(y < x)
  BY <1>1, LessThanPair, Zenon
<1>. QED
  BY <1>2

(* A nonempty set of positions has a largest one: the distances to n have  *)
(* a least one.                                                            *)
LEMMA MaxIn ==
  ASSUME NEW n \in Nat, NEW S \in SUBSET (1..n), S # {}
  PROVE  Max(S) \in S
<1>. DEFINE T == {n - i : i \in S}
<1>1. T \in SUBSET Nat /\ T # {}
  <2>1. ASSUME NEW i \in S PROVE n - i \in Nat
    OBVIOUS
  <2>2. T # {}
    OBVIOUS
  <2>. QED
    BY <2>1, <2>2
<1>2. PICK x \in T : \A y \in T : x <= y
  BY <1>1, LeastIn
<1>3. PICK i \in S : x = n - i
  OBVIOUS
<1>4. \A j \in S : i >= j
  BY <1>2, <1>3
<1>. QED
  BY <1>3, <1>4 DEF Max

(* A request is a sequence of user entries.                                *)
LEMMA RequestType ==
  ASSUME NEW req \in Requests
  PROVE  \E n \in Nat : DOMAIN req = 1..n /\ \A i \in 1..n : req[i] \in UserMsg
BY UserMsgsAssumption, BoundsAssumption DEF Requests

(* syncUsers and updateUsers keep the user maps well-formed.               *)
LEMMA SyncedUsersType ==
  ASSUME users \in Users, NEW n \in Nat, NEW req, DOMAIN req = 1..n,
         \A i \in 1..n : req[i] \in UserMsg
  PROVE  SyncedUsers(req) \in Users
<1>. SUFFICES ASSUME NEW in \in Inbounds, NEW e \in Emails,
                     NEW S, S = {i \in DOMAIN req : req[i].email = e /\ req[i].entry[in] # None},
                     S # {}
              PROVE  req[Max(S)].entry[in] \in MaybeCred
  BY DEF SyncedUsers, Users, MaybeCred
<1>1. Max(S) \in S
  BY MaxIn
<1>. QED
  BY <1>1 DEF UserMsg

LEMMA UpdatedUsersType ==
  ASSUME users \in Users, NEW n \in Nat, NEW req, DOMAIN req = 1..n,
         \A i \in 1..n : req[i] \in UserMsg
  PROVE  UpdatedUsers(req) \in Users
<1>. SUFFICES ASSUME NEW in \in Inbounds, NEW e \in Emails,
                     NEW S, S = {i \in DOMAIN req : req[i].email = e}, S # {}
              PROVE  req[Max(S)].entry[in] \in MaybeCred
  BY DEF UpdatedUsers, Users, MaybeCred
<1>1. Max(S) \in S
  BY MaxIn
<1>. QED
  BY <1>1 DEF UserMsg

-----------------------------------------------------------------------------
(* The inductive invariant.  NoStaleUsers is not inductive: a restart      *)
(* renders the excluded inbounds from raw, which nothing may have changed. *)

RawOK == \A in \in Excluded : raw[in] = RawUsers[in]

ServedOK ==
  process # None =>
    /\ \A in \in Excluded : process.served[in] = RawUsers[in]
    /\ (\A c \in Callers : pc[c] # "restart") => \A in \in Inbounds \ Excluded : UpToDate(in)

IInv == TypeOK /\ RawOK /\ ServedOK

\* What Restart makes of the config and the process.
Current(served) ==
  /\ \A in \in Excluded : served[in] = RawUsers[in]
  /\ \A in \in Inbounds \ Excluded :
       IF in \in Classic
       THEN UsersOf(users[in]) = {} \/
            \E e \in UsersOf(users[in]) : served[in] = [EmptyInbound EXCEPT ![e] = users[in][e]]
       ELSE served[in] = users[in]

(* A rendering has the type of the users, keeps the excluded inbounds and  *)
(* has the users of the others.                                            *)
LEMMA RenderedOK ==
  ASSUME IInv, NEW r \in Rendered
  PROVE  r \in Users /\ Current(r)
<1>1. \A in \in Inbounds : r[in] \in RenderedInbound(in)
  BY DEF Rendered
<1>2. r = [in \in Inbounds |-> r[in]]
  BY DEF Rendered
<1>3. \A in \in Inbounds : RenderedInbound(in) \subseteq [Emails -> MaybeCred]
  BY DEF RenderedInbound, IInv, TypeOK, Users, EmptyInbound, MaybeCred, UsersOf
<1>4. Current(r)
  BY <1>1, InboundsAssumption DEF RenderedInbound, Current, IInv, RawOK
<1>. QED
  BY <1>1, <1>2, <1>3, <1>4 DEF Users

(* Restart, whoever calls it and however it ends, leaves no stale process. *)
LEMMA RestartKeeps ==
  ASSUME IInv, NEW succeeds \in MaySucceed, Restart(succeeds), users' = users
  PROVE  /\ raw' \in Users /\ process' \in Process \cup {None} /\ faults' \in 0..MaxFaults
         /\ RawOK' /\ ServedOK'
<1>1. raw' \in Users /\ Current(raw')
  BY RenderedOK DEF Restart
<1>2. process' = None \/ process' = [state |-> "booting", served |-> raw']
  BY DEF Restart
<1>3. process' \in Process \cup {None}
  BY <1>1, <1>2 DEF Process
<1>4. faults' \in 0..MaxFaults
  <2>1. CASE succeeds = TRUE
    BY <2>1 DEF Restart, IInv, TypeOK
  <2>2. CASE succeeds = FALSE
    <3>1. faults < MaxFaults
      BY <2>2 DEF MaySucceed
    <3>. QED
      BY <2>2, <3>1, BoundsAssumption DEF Restart, IInv, TypeOK
  <2>. QED
    BY <2>1, <2>2 DEF MaySucceed
<1>5. RawOK'
  BY <1>1 DEF RawOK, Current
<1>6. ServedOK'
  BY <1>1, <1>2 DEF ServedOK, Current, UpToDate, UsersOf, EmptyInbound
<1>. QED
  BY <1>1, <1>3, <1>4, <1>5, <1>6

-----------------------------------------------------------------------------
(* Every step keeps the invariant.                                         *)

LEMMA MutateConfigKeeps == ASSUME IInv, NEW c \in Callers, MutateConfig(c) PROVE IInv'
<1>1. users' \in Users
  <2>1. CASE \E m \in UserMsgs : users' = SyncedUsers(<<m>>)
    <3>1. PICK m \in UserMsgs : users' = SyncedUsers(<<m>>)
      BY <2>1
    <3>2. DOMAIN <<m>> = 1..1 /\ \A i \in 1..1 : <<m>>[i] \in UserMsg
      BY UserMsgsAssumption
    <3>. QED
      BY <3>1, <3>2, SyncedUsersType DEF IInv, TypeOK
  <2>2. CASE \E req \in Requests : users' = SyncedUsers(req)
    BY <2>2, RequestType, SyncedUsersType DEF IInv, TypeOK
  <2>3. CASE users' = SyncedUsers(<<>>)
    <3>1. DOMAIN <<>> = 1..0 /\ \A i \in 1..0 : <<>>[i] \in UserMsg
      OBVIOUS
    <3>. QED
      BY <2>3, <3>1, SyncedUsersType DEF IInv, TypeOK
  <2>4. CASE \E req \in Requests : users' = UpdatedUsers(req)
    BY <2>4, RequestType, UpdatedUsersType DEF IInv, TypeOK
  <2>. QED
    BY <2>1, <2>2, <2>3, <2>4 DEF MutateConfig
<1>2. pc' = [pc EXCEPT ![c] = "restart"]
      /\ UNCHANGED <<raw, process, shut, health, failures, faults>>
  BY DEF MutateConfig
<1>3. TypeOK'
  BY <1>1, <1>2 DEF IInv, TypeOK
<1>4. RawOK' /\ ServedOK'
  BY <1>2 DEF IInv, TypeOK, RawOK, ServedOK
<1>. QED
  BY <1>3, <1>4 DEF IInv

LEMMA RestartAfterSyncKeeps == ASSUME IInv, NEW c \in Callers, RestartAfterSync(c) PROVE IInv'
<1>1. PICK succeeds \in MaySucceed :
        Restart(succeeds) /\ pc' = [pc EXCEPT ![c] = IF succeeds THEN "check" ELSE "idle"]
  BY DEF RestartAfterSync
<1>2. UNCHANGED <<users, shut, health, failures>>
  BY DEF RestartAfterSync
<1>3. pc' \in [Callers -> {"idle", "restart", "check"} \cup Kinds]
  BY <1>1 DEF IInv, TypeOK
<1>. QED
  BY <1>1, <1>2, <1>3, RestartKeeps DEF IInv, TypeOK

LEMMA HealthRestartKeeps == ASSUME IInv, HealthRestart PROVE IInv'
<1>1. PICK succeeds \in MaySucceed :
        Restart(succeeds) /\ failures' = (IF succeeds THEN 0 ELSE failures) /\ health' = "top"
  BY DEF HealthRestart
<1>2. UNCHANGED <<users, shut, pc>>
  BY DEF HealthRestart
<1>3. failures' \in 0..MaxFailures
  BY <1>1 DEF IInv, TypeOK, MaxFailures
<1>. QED
  BY <1>1, <1>2, <1>3, RestartKeeps DEF IInv, TypeOK

(* Steps that leave the config alone, and what the process serves.         *)
LEMMA ServingKeeps ==
  ASSUME IInv, TypeOK', UNCHANGED <<users, raw>>,
         process' = None \/ (process # None /\ process'.served = process.served),
         \A c \in Callers : pc'[c] # "restart" => pc[c] # "restart",
         process' # None => \A c \in Callers : pc[c] = "restart" => pc'[c] = "restart"
  PROVE  IInv'
BY DEF IInv, RawOK, ServedOK, UpToDate, UsersOf, EmptyInbound

LEMMA ProcessKeeps == ASSUME IInv, Boot \/ Fail \/ Shutdown PROVE IInv'
<1>1. TypeOK'
  <2>1. process' \in Process \cup {None}
    BY DEF IInv, TypeOK, Boot, Fail, Shutdown, Process
  <2>2. faults' \in 0..MaxFaults
    BY BoundsAssumption DEF IInv, TypeOK, Boot, Fail, Shutdown
  <2>. QED
    BY <2>1, <2>2 DEF IInv, TypeOK, Boot, Fail, Shutdown
<1>2. process' = None \/ (process # None /\ process'.served = process.served)
  BY NoneAssumption DEF IInv, TypeOK, Boot, Fail, Shutdown, Process
<1>. QED
  BY <1>1, <1>2, ServingKeeps DEF Boot, Fail, Shutdown

LEMMA CallerKeeps ==
  ASSUME IInv, NEW c \in Callers, (\E kind \in Kinds : Call(c, kind)) \/ CheckStatus(c)
  PROVE  IInv'
<1>1. TypeOK'
  BY DEF IInv, TypeOK, Call, CheckStatus, Kinds
<1>2. UNCHANGED <<users, raw, process>>
  BY DEF Call, CheckStatus
<1>3. \A d \in Callers : (pc'[d] = "restart") = (pc[d] = "restart")
  BY DEF IInv, TypeOK, Call, CheckStatus, Kinds
<1>. QED
  BY <1>1, <1>2, <1>3, ServingKeeps

LEMMA LoopKeeps == ASSUME IInv, CheckContext \/ Probe PROVE IInv'
<1>1. failures' \in 0..MaxFailures
  <2>1. ASSUME NEW x \in 1..MaxFailures + 1 PROVE Min({x, MaxFailures}) \in 0..MaxFailures
    BY DEF Min, MaxFailures
  <2>. QED
    BY <2>1 DEF IInv, TypeOK, CheckContext, Probe, MaxFailures
<1>2. TypeOK'
  BY <1>1 DEF IInv, TypeOK, CheckContext, Probe
<1>. QED
  BY <1>2, ServingKeeps DEF CheckContext, Probe

LEMMA IInvNext == IInv /\ [Next]_vars => IInv'
<1>. SUFFICES ASSUME IInv, [Next]_vars PROVE IInv'
  OBVIOUS
<1>1. CASE Next
  BY <1>1, MutateConfigKeeps, RestartAfterSyncKeeps, HealthRestartKeeps, ProcessKeeps,
     CallerKeeps, LoopKeeps DEF Next, HealthLoop
<1>2. CASE UNCHANGED vars
  BY <1>2 DEF vars, IInv, TypeOK, RawOK, ServedOK, UpToDate, UsersOf
<1>. QED
  BY <1>1, <1>2

LEMMA IInvInit == Init => IInv
<1>. SUFFICES ASSUME Init PROVE IInv
  OBVIOUS
<1>1. users \in Users /\ raw \in Users
  BY RawUsersAssumption DEF Init, Users, EmptyInbound, MaybeCred
<1>2. process \in Process
  BY <1>1 DEF Init, Process
<1>3. TypeOK
  <2>1. failures \in 0..MaxFailures /\ faults \in 0..MaxFaults
    BY BoundsAssumption DEF Init, MaxFailures
  <2>2. pc \in [Callers -> {"idle", "restart", "check"} \cup Kinds]
    BY DEF Init
  <2>. QED
    BY <1>1, <1>2, <2>1, <2>2 DEF Init, TypeOK
<1>4. RawOK
  BY InboundsAssumption DEF Init, RawOK
<1>5. ServedOK
  BY InboundsAssumption DEF Init, ServedOK, UpToDate, UsersOf, EmptyInbound
<1>. QED
  BY <1>3, <1>4, <1>5 DEF IInv

LEMMA IInvAlways == Spec => []IInv
<1>. QED
  BY IInvInit, IInvNext, PTL DEF Spec

-----------------------------------------------------------------------------
(* Theorems.                                                               *)

(* Type correctness, for requests of any size: the count of failures stays *)
(* within its limit, and what a process serves is a map of users.          *)
THEOREM TypeCorrect == Spec => []TypeOK
<1>1. IInv => TypeOK
  BY DEF IInv
<1>. QED
  BY <1>1, IInvAlways, PTL

(* For any callers, requests and faults, no change of users is lost to a   *)
(* concurrent restart: once no caller is between its change and its        *)
(* restart, the process serves the users of the config.                    *)
THEOREM NothingStale == Spec => []NoStaleUsers
<1>1. IInv => NoStaleUsers
  BY DEF IInv, ServedOK, NoStaleUsers
<1>. QED
  BY <1>1, IInvAlways, PTL

=============================================================================
