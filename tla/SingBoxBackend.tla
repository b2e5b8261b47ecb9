--------------------------- MODULE SingBoxBackend ---------------------------
(***************************************************************************)
(* The sing-box backend of the node (node-main/backend/singbox): the users *)
(* of the in-memory config, the subprocess that serves a rendering of      *)
(* them, the health loop, and the requests that change users.  sing-box    *)
(* has no call to manage users: every change mutates the config under the  *)
(* backend's mutex, and restarts the subprocess in a second critical       *)
(* section.                                                                *)
(*                                                                         *)
(* What buildUserEntry makes of a user is a credential per inbound, None   *)
(* where the user does not list the inbound or lacks credentials for its   *)
(* protocol.  The state starts where New has succeeded; logs, the startup  *)
(* diagnostics and the stats passthrough are left out.                     *)
(***************************************************************************)
EXTENDS Integers, FiniteSets, FiniteSetsExt

CONSTANTS
  Emails, Creds,   \* users and their credentials
  Inbounds,        \* tags of the inbounds
  Excluded,        \* inbounds kept out of user syncs
  RawUsers,        \* users the config itself brings for the excluded inbounds
  Classic,         \* shadowsocks inbounds that take a single password
  UserMsgs,        \* user entries a request may carry
  MaxBatch,        \* bound: entries per request
  Callers,         \* handlers calling the backend
  MaxFaults,       \* bound: faults of the subprocess
  None             \* nil

MaybeCred == Creds \cup {None}
Users == [Inbounds -> [Emails -> MaybeCred]]
UserMsg == [email : Emails, entry : [Inbounds -> MaybeCred]]
Process == [state : {"booting", "ready", "hung", "exited"}, served : Users]

ASSUME InboundsAssumption == Excluded \subseteq Inbounds /\ Classic \subseteq Inbounds \ Excluded
ASSUME UserMsgsAssumption == UserMsgs \subseteq UserMsg
ASSUME RawUsersAssumption == RawUsers \in [Excluded -> [Emails -> MaybeCred]]
ASSUME BoundsAssumption == MaxBatch \in Nat \ {0} /\ MaxFaults \in Nat
ASSUME NoneAssumption == None \notin Creds /\ None \notin Process

Requests == UNION {[1..n -> UserMsgs] : n \in 1..MaxBatch}
MaxFailures == 3

VARIABLES
  users,     \* Inbound.users of every inbound
  raw,       \* the users, or the password, of every inbound's raw JSON
  process,   \* Core.process: what it serves, and how it does
  shut,      \* Shutdown was called: the context is cancelled, the client closed
  pc,        \* what each caller does next
  health,    \* what the health loop does next
  failures,  \* consecutiveFailures
  faults     \* number of faults so far

vars == <<users, raw, process, shut, pc, health, failures, faults>>

-----------------------------------------------------------------------------
(* The config.                                                             *)

EmptyInbound == [e \in Emails |-> None]
UsersOf(f) == {e \in Emails : f[e] # None}

\* syncUsers: of the entries of one user the last usable one counts.
SyncedUsers(req) ==
  [in \in Inbounds |->
     IF in \in Excluded THEN users[in]
     ELSE [e \in Emails |->
             LET usable == {i \in DOMAIN req : req[i].email = e /\ req[i].entry[in] # None}
             IN  IF usable = {} THEN None ELSE req[Max(usable)].entry[in]]]

\* updateUsers: the last entry of a user counts, and deletes it from the inbound
\* when it is not usable there.
UpdatedUsers(req) ==
  [in \in Inbounds |->
     IF in \in Excluded THEN users[in]
     ELSE [e \in Emails |->
             LET own == {i \in DOMAIN req : req[i].email = e}
             IN  IF own = {} THEN users[in][e] ELSE req[Max(own)].entry[in]]]

\* applyUsersToRaw: a classic shadowsocks inbound gets the password of the first
\* user the map yields, and keeps the one it has when there is no user.
RenderedInbound(in) ==
  IF in \in Excluded THEN {raw[in]}
  ELSE IF in \notin Classic THEN {users[in]}
  ELSE IF UsersOf(users[in]) = {} THEN {raw[in]}
  ELSE {[EmptyInbound EXCEPT ![e] = users[in][e]] : e \in UsersOf(users[in])}

Rendered == {f \in [Inbounds -> UNION {RenderedInbound(in) : in \in Inbounds}] :
               \A in \in Inbounds : f[in] \in RenderedInbound(in)}

-----------------------------------------------------------------------------
(* The subprocess.                                                         *)

\* Fault variant of Restart: a process that is up is left alone.
Fault_RestartOnlyIfDown(succeeds) ==
  /\ raw' \in Rendered
  /\ process' = IF process # None /\ process.state # "exited" THEN process
                ELSE IF succeeds THEN [state |-> "booting", served |-> raw'] ELSE None
  /\ faults' = IF succeeds THEN faults ELSE faults + 1

\* SingBox.Restart, under the mutex: Core.Stop waits for the old process to be
\* gone, Core.Start renders the config and launches a new one, or fails.
Restart(succeeds) ==
  /\ raw' \in Rendered
  /\ process' = IF succeeds THEN [state |-> "booting", served |-> raw'] ELSE None
  /\ faults' = IF succeeds THEN faults ELSE faults + 1

MaySucceed == {TRUE} \cup (IF faults < MaxFaults THEN {FALSE} ELSE {})

\* The process opens its API (external).
Boot ==
  /\ process # None /\ process.state = "booting"
  /\ process' = [process EXCEPT !.state = "ready"]
  /\ UNCHANGED <<users, raw, shut, pc, health, failures, faults>>

\* The process dies, or stops answering (external).
Fail ==
  /\ process # None /\ process.state \in {"booting", "ready"} /\ faults < MaxFaults
  /\ faults' = faults + 1
  /\ \E state \in {"hung", "exited"} : process' = [process EXCEPT !.state = state]
  /\ UNCHANGED <<users, raw, shut, pc, health, failures>>

-----------------------------------------------------------------------------
(* Requests.  A handler has got hold of the backend before it is shut      *)
(* down, and calls it any time later.                                      *)

Kinds == {"SyncUser", "SyncUsers", "UpdateUsers"}

Call(c, kind) ==
  /\ pc[c] = "idle" /\ ~shut
  /\ pc' = [pc EXCEPT ![c] = kind]
  /\ UNCHANGED <<users, raw, process, shut, health, failures, faults>>

\* SyncUser syncs the one user as the whole set; UpdateUsersAndRestart does what
\* UpdateUsers does.
MutateConfig(c) ==
  /\ \/ pc[c] = "SyncUser" /\ \E m \in UserMsgs : users' = SyncedUsers(<<m>>)
     \/ pc[c] = "SyncUsers" /\ \E req \in Requests \cup {<<>>} : users' = SyncedUsers(req)
     \/ pc[c] = "UpdateUsers" /\ \E req \in Requests : users' = UpdatedUsers(req)
  /\ pc' = [pc EXCEPT ![c] = "restart"]
  /\ UNCHANGED <<raw, process, shut, health, failures, faults>>

RestartAfterSync(c) ==
  /\ pc[c] = "restart"
  /\ \E succeeds \in MaySucceed :
       /\ Restart(succeeds)
       /\ pc' = [pc EXCEPT ![c] = IF succeeds THEN "check" ELSE "idle"]
  /\ UNCHANGED <<users, shut, health, failures>>

\* checkStatus polls until the API answers, the process fails, or its deadline
\* or the request's context ends; only the answer to the client depends on it.
CheckStatus(c) ==
  /\ pc[c] = "check"
  /\ pc' = [pc EXCEPT ![c] = "idle"]
  /\ UNCHANGED <<users, raw, process, shut, health, failures, faults>>

-----------------------------------------------------------------------------
(* The health loop.                                                        *)

\* Fault variant of CheckContext: the context is not looked at.
Fault_IgnoresContext ==
  /\ health = "top"
  /\ health' = "probe"
  /\ UNCHANGED <<users, raw, process, shut, pc, failures, faults>>

CheckContext ==
  /\ health = "top"
  /\ health' = IF shut THEN "off" ELSE "probe"
  /\ UNCHANGED <<users, raw, process, shut, pc, failures, faults>>

\* A probe cut off by the cancelled context is a failure like any other: the
\* client wraps the error, so that errors.Is does not find context.Canceled.
Answers == process # None /\ process.state = "ready" /\ ~shut

\* Fault variant of Probe: the loop ends on a failed probe.
Fault_ProbeGivesUp ==
  /\ health = "probe"
  /\ failures' = 0
  /\ health' = IF Answers THEN "top" ELSE "off"
  /\ UNCHANGED <<users, raw, process, shut, pc, faults>>

\* Fault variant of Probe: the limit is tested for equality.
Fault_ProbeMissesLimit ==
  /\ health = "probe"
  /\ failures' = IF Answers THEN 0 ELSE failures + 1
  /\ health' = IF failures' = MaxFailures THEN "restart" ELSE "top"
  /\ UNCHANGED <<users, raw, process, shut, pc, faults>>

Probe ==
  /\ health = "probe"
  /\ failures' = IF Answers THEN 0 ELSE Min({failures + 1, MaxFailures})
  /\ health' = IF failures' = MaxFailures THEN "restart" ELSE "top"
  /\ UNCHANGED <<users, raw, process, shut, pc, faults>>

\* A failed restart leaves the counter at its limit.
HealthRestart ==
  /\ health = "restart"
  /\ \E succeeds \in MaySucceed :
       /\ Restart(succeeds)
       /\ failures' = IF succeeds THEN 0 ELSE failures
       /\ health' = "top"
  /\ UNCHANGED <<users, shut, pc>>

Shutdown ==
  /\ shut' = TRUE
  /\ process' = None
  /\ UNCHANGED <<users, raw, pc, health, failures, faults>>

-----------------------------------------------------------------------------

\* New has started the process without users and seen it answer; users given to
\* New are synced before that, as by a first SyncUsers.
Init ==
  /\ users = [in \in Inbounds |-> EmptyInbound]
  /\ raw = [in \in Inbounds |-> IF in \in Excluded THEN RawUsers[in] ELSE EmptyInbound]
  /\ process = [state |-> "ready", served |-> raw]
  /\ shut = FALSE
  /\ pc = [c \in Callers |-> "idle"]
  /\ health = "top" /\ failures = 0 /\ faults = 0

HealthLoop == CheckContext \/ Probe \/ HealthRestart

Next ==
  \/ \E c \in Callers :
       \/ \E kind \in Kinds : Call(c, kind)
       \/ MutateConfig(c) \/ RestartAfterSync(c) \/ CheckStatus(c)
  \/ HealthLoop
  \/ Shutdown
  \/ Boot \/ Fail

Spec == Init /\ [][Next]_vars

\* The health goroutine runs on, handlers run on once they have mutated the
\* config, and a process that does not fail opens its API in the end.
FairSpec == Spec /\ WF_vars(HealthLoop) /\ WF_vars(Boot)
                 /\ \A c \in Callers : WF_vars(RestartAfterSync(c) \/ CheckStatus(c))

-----------------------------------------------------------------------------
(* Properties.                                                             *)

(* Every variable has its type.                                            *)
TypeOK ==
  /\ users \in Users
  /\ raw \in Users
  /\ process \in Process \cup {None}
  /\ shut \in BOOLEAN
  /\ pc \in [Callers -> {"idle", "restart", "check"} \cup Kinds]
  /\ health \in {"top", "probe", "restart", "off"}
  /\ failures \in 0..MaxFailures
  /\ faults \in 0..MaxFaults

\* The process serves exactly the users of the config on inbound in; a classic
\* shadowsocks inbound that has users serves one of them.
UpToDate(in) ==
  IF in \in Classic
  THEN UsersOf(users[in]) = {} \/
       \E e \in UsersOf(users[in]) : process.served[in] = [EmptyInbound EXCEPT ![e] = users[in][e]]
  ELSE process.served[in] = users[in]

(* No change of users is lost between concurrent syncs, health restarts    *)
(* and failed restarts: a process, whoever started it, serves the users    *)
(* of the config, unless a caller that changed them is still to restart;   *)
(* on excluded inbounds it serves what the config brings.                  *)
NoStaleUsers ==
  process # None /\ (\A c \in Callers : pc[c] # "restart") =>
    /\ \A in \in Inbounds \ Excluded : UpToDate(in)
    /\ \A in \in Excluded : process.served[in] = RawUsers[in]

(* A process that failed, hangs or could not be started is replaced by one *)
(* that answers, until the backend is shut down.                           *)
Recovers == (process = None \/ process.state # "ready")
              ~> (shut \/ (process # None /\ process.state = "ready"))

(* The health loop ends after Shutdown.                                    *)
HealthLoopEnds == shut ~> (health = "off")

(* Shutdown is final: no process runs afterwards ("Stop terminates the     *)
(* sing-box subprocess.").                                                 *)
ShutdownIsFinal == shut => process = None

(* Syncing one user is an incremental update: it changes no other user     *)
(* ("applies an incremental user update and restarts sing-box").           *)
SyncUserIncremental ==
  [][\A c \in Callers : pc[c] = "SyncUser" /\ pc'[c] = "restart" =>
       \E e \in Emails : \A in \in Inbounds, d \in Emails \ {e} : users'[in][d] = users[in][d]]_vars

=============================================================================
