----------------------------- MODULE PanelNode -----------------------------
(***************************************************************************)
(* The panel's side of one node: its row in the database, the client that  *)
(* the node manager holds for it (app/node/__init__.py), the attempts to   *)
(* connect it (app/operation/node.py), the health check and the limit      *)
(* check (app/jobs/node_checker.py), administrators, and the changes of    *)
(* users that are sent to it (app/node/sync.py).                           *)
(*                                                                         *)
(* The work on one node does not depend on other nodes.  A user is a       *)
(* counter of its changes.  The client library and the node itself are     *)
(* modelled from how they are used: a client keeps the updates it was      *)
(* given in order while it is connected, drops them when it is not, and    *)
(* stays INVALID once it is; starting an INVALID client is refused.        *)
(***************************************************************************)
EXTENDS Naturals, Sequences, FiniteSets

CONSTANTS
  Users,
  Clients,      \* the client objects alive at a time
  None,
  Attempts,     \* attempts to connect, beside the one of the health check
  HealthCheck,  \* the attempt of the health check
  Requests,     \* requests that change users
  MaxChanges,   \* bound on changes of users
  MaxFaults,    \* bound on failed calls and crashes of the node
  MaxEvents     \* bound on those, requests of administrators and traffic peaks together

ASSUME PanelNodeAssumption ==
  /\ None \notin Clients /\ HealthCheck \notin Attempts
  /\ MaxChanges \in Nat /\ MaxFaults \in Nat /\ MaxEvents \in Nat

VARIABLES
  status,    \* the status of the node's row, "gone" when it is deleted
  over,      \* the node has used up its data limit
  version,   \* changes of each user in the database
  current,   \* the client in the node manager
  client,    \* the state of the clients
  node,      \* the node: whether its backend runs, and with which users
  attempt,   \* the attempts to connect
  checker,   \* node_health_check() for this node
  limiter,   \* check_node_limits() for this node
  admin,     \* the request of an administrator
  request,   \* requests that change users
  alone,     \* (history) no administrator and no limit worked beside an attempt or check
  calm,      \* (history) no user was changed while the node was being connected, nor
             \* while another change of it was being sent, the node was not
             \* started while an update waited in a client still to be shut down,
             \* and no start failed through a client the health check was asking
  changes, faults, events

db      == <<status, over, version>>
work    == <<attempt, checker, limiter, admin>>
bounds  == <<changes, faults, events>>
nodeVars == <<db, current, client, node, work, request, alone, calm, bounds>>

Active  == {"connected", "connecting", "error"}
Stopped == {"disabled", "limited", "gone"}
Slots   == Attempts \cup {HealthCheck}

FreshClient == [health |-> "not_connected", stop |-> "no", queue |-> <<>>, hard |-> FALSE]
IdleAttempt == [pc |-> "idle", users |-> [u \in Users |-> 0], old |-> None, client |-> None]
IdleChecker == [pc |-> "idle", status |-> "gone", client |-> None, saw |-> "invalid", retry |-> FALSE]
IdleRequest == [pc |-> "idle", user |-> None, version |-> 0]

PanelNodeTypeOK ==
  /\ status \in Active \cup Stopped
  /\ over \in BOOLEAN
  /\ version \in [Users -> 0..MaxChanges]
  /\ current \in Clients \cup {None}
  /\ client \in [Clients -> [health: {"not_connected", "healthy", "broken", "invalid"},
                             stop: {"no", "due", "sent"},
                             queue: Seq(Users \X (1..MaxChanges)), hard: BOOLEAN]]
  /\ node \in [up: BOOLEAN, users: [Users -> 0..MaxChanges]]
  /\ attempt \in [Slots -> [pc: {"idle", "read", "users", "install", "wait", "get", "start", "started", "failed"},
                            users: [Users -> 0..MaxChanges],
                            old: Clients \cup {None}, client: Clients \cup {None}]]
  /\ checker \in [pc: {"idle", "find", "health", "stats", "recover", "error", "connect"},
                  status: Active \cup {"gone"}, client: Clients \cup {None},
                  saw: {"healthy", "broken", "invalid"}, retry: BOOLEAN]
  /\ limiter \in {"idle", "disconnect", "limit"}
  /\ admin \in [pc: {"idle", "disconnect", "install", "wait", "drop", "delete"}, old: Clients \cup {None}]
  /\ request \in [Requests -> [pc: {"idle", "send"}, user: Users \cup {None}, version: 0..MaxChanges]]
  /\ alone \in BOOLEAN /\ calm \in BOOLEAN
  /\ changes \in 0..MaxChanges /\ faults \in 0..MaxFaults /\ events \in 0..MaxEvents

Op    == events < MaxEvents /\ events' = events + 1
Fault == faults < MaxFaults /\ faults' = faults + 1 /\ Op

Busy == \/ \E a \in Slots : attempt[a].pc # "idle"
        \/ checker.pc # "idle"
Stopping == admin.pc # "idle" \/ limiter # "idle"

\* A status is written by the id of the row, whatever the row holds.
Write(s) == status' = IF status = "gone" THEN "gone" ELSE s

PanelNodeInit ==
  /\ status = "connecting" /\ over = FALSE
  /\ version = [u \in Users |-> 0]
  /\ current = None
  /\ client = [c \in Clients |-> FreshClient]
  /\ node = [up |-> FALSE, users |-> [u \in Users |-> 0]]
  /\ \E a \in Attempts :
       attempt = [x \in Slots |-> IF x = a THEN [IdleAttempt EXCEPT !.pc = "read"] ELSE IdleAttempt]
  /\ checker = IdleChecker
  /\ limiter = "idle"
  /\ admin = [pc |-> "idle", old |-> None]
  /\ request = [r \in Requests |-> IdleRequest]
  /\ alone = TRUE /\ calm = TRUE
  /\ changes = 0 /\ faults = 0 /\ events = 0

-----------------------------------------------------------------------------
(* The node manager.                                                       *)

\* An object nothing refers to any more; a new one takes its place.
Unused(c) ==
  /\ c # current /\ client[c].stop = "no" /\ c # checker.client /\ c # admin.old
  /\ \A a \in Slots : c \notin {attempt[a].client, attempt[a].old}

\* _nodes.pop(): the client that was there is to be shut down.
Due(cs) == IF current = None THEN cs ELSE [cs EXCEPT ![current].stop = "due"]

\* NodeManager.update_node(), under the lock.
Install ==
  /\ \E c \in Clients : Unused(c)
  /\ current' = CHOOSE c \in Clients : Unused(c)
  /\ client' = [Due(client) EXCEPT ![current'] = FreshClient]

\* Fault variant of Remove: the client is stopped and stays in the manager.
Fault_Remove == client' = Due(client) /\ UNCHANGED current

\* NodeManager.remove_node().
Remove == current' = None /\ client' = Due(client)

\* _shutdown_node(), awaited by update_node(), a task after remove_node().
Invalidate(c) ==
  /\ client[c].stop = "due"
  /\ client' = [client EXCEPT ![c] = [FreshClient EXCEPT !.health = "invalid", !.stop = "sent"]]
  /\ UNCHANGED <<db, current, node, work, request, alone, calm, bounds>>

\* The node takes a Stop from any client; a call that fails is ignored.
StopLands(c) ==
  /\ client[c].stop = "sent"
  /\ client' = [client EXCEPT ![c].stop = "no"]
  /\ \/ node' = [node EXCEPT !.up = FALSE] /\ UNCHANGED <<faults, events>>
     \/ Fault /\ UNCHANGED node
  /\ UNCHANGED <<db, current, work, request, alone, calm, changes>>

-----------------------------------------------------------------------------
(* connect_single_node(), step by step between its awaits.                 *)

Step(a, pc) == attempt' = [attempt EXCEPT ![a].pc = pc]
End(a) == attempt' = [attempt EXCEPT ![a] = IdleAttempt]

\* Fault variant of Startable: only a disabled node is left alone.
Fault_Startable == status \notin {"disabled", "gone"}

Startable == status \notin Stopped

ReadRow(a) ==
  /\ attempt[a].pc = "read"
  /\ IF Startable THEN Step(a, "users") ELSE End(a)
  /\ UNCHANGED <<db, current, client, node, checker, limiter, admin, request, alone, calm, bounds>>

\* Fault variant of CoreUsers: the users the node was last started with.
Fault_CoreUsers == node.users

\* core_users().
CoreUsers == version

LoadUsers(a) ==
  /\ attempt[a].pc = "users"
  /\ attempt' = [attempt EXCEPT ![a].pc = "install", ![a].users = CoreUsers]
  /\ UNCHANGED <<db, current, client, node, checker, limiter, admin, request, alone, calm, bounds>>

InstallClient(a) ==
  /\ attempt[a].pc = "install"
  /\ Install
  /\ attempt' = [attempt EXCEPT ![a].pc = "wait", ![a].old = current]
  /\ UNCHANGED <<db, node, checker, limiter, admin, request, alone, calm, bounds>>

OldStopped(a) ==
  /\ attempt[a].pc = "wait"
  /\ attempt[a].old # None => client[attempt[a].old].stop = "no"
  /\ attempt' = [attempt EXCEPT ![a].pc = "get", ![a].old = None]
  /\ UNCHANGED <<db, current, client, node, checker, limiter, admin, request, alone, calm, bounds>>

\* The client that is started is the one in the manager by then.
GetClient(a) ==
  /\ attempt[a].pc = "get"
  /\ IF current = None THEN End(a)
     ELSE attempt' = [attempt EXCEPT ![a].pc = "start", ![a].client = current]
  /\ UNCHANGED <<db, current, client, node, checker, limiter, admin, request, alone, calm, bounds>>

\* No update waits in a client that is still to be shut down.
NoneLeft == \A c \in Clients : client[c].stop = "due" => client[c].queue = <<>>

StartNode(a) ==
  /\ attempt[a].pc = "start" /\ client[attempt[a].client].health # "invalid"
  /\ node' = [up |-> TRUE, users |-> attempt[a].users]
  /\ client' = [client EXCEPT ![attempt[a].client].health = "healthy", ![attempt[a].client].hard = FALSE]
  /\ attempt' = [attempt EXCEPT ![a] = [IdleAttempt EXCEPT !.pc = "started"]]
  /\ calm' = (calm /\ NoneLeft)
  /\ UNCHANGED <<db, current, checker, limiter, admin, request, alone, bounds>>

\* Code -4: somebody else replaced the client.
StartRefused(a) ==
  /\ attempt[a].pc = "start" /\ client[attempt[a].client].health = "invalid"
  /\ End(a)
  /\ UNCHANGED <<db, current, client, node, checker, limiter, admin, request, alone, calm, bounds>>

\* The health check goes by what it saw of this client, whatever becomes of it.
Asked(c) == checker.pc = "stats" /\ checker.client = c

\* The node may have stopped its backend, or even started it.
StartFails(a) ==
  /\ attempt[a].pc = "start" /\ client[attempt[a].client].health # "invalid"
  /\ Fault
  /\ node' \in {[node EXCEPT !.up = FALSE], [up |-> TRUE, users |-> attempt[a].users]}
  /\ client' = [client EXCEPT ![attempt[a].client].health = "not_connected"]
  /\ attempt' = [attempt EXCEPT ![a] = [IdleAttempt EXCEPT !.pc = "failed"]]
  /\ calm' = (calm /\ NoneLeft /\ ~Asked(attempt[a].client))
  /\ UNCHANGED <<db, current, checker, limiter, admin, request, alone, changes>>

Record(a) ==
  /\ attempt[a].pc \in {"started", "failed"}
  /\ Write(IF attempt[a].pc = "started" THEN "connected" ELSE "error")
  /\ End(a)
  /\ UNCHANGED <<over, version, current, client, node, checker, limiter, admin, request, alone, calm, bounds>>

Attempt(a) ==
  \/ ReadRow(a) \/ LoadUsers(a) \/ InstallClient(a) \/ OldStopped(a) \/ GetClient(a)
  \/ StartNode(a) \/ StartRefused(a) \/ Record(a)

-----------------------------------------------------------------------------
(* process_node_health_check().                                            *)

\* The rows are read first, the clients after.
Check ==
  /\ checker.pc = "idle" /\ status \in Active
  /\ checker' = [IdleChecker EXCEPT !.pc = "find", !.status = status]
  /\ alone' = (alone /\ ~Stopping)
  /\ UNCHANGED <<db, current, client, node, attempt, limiter, admin, request, calm, bounds>>

Reconnect ==
  /\ checker' = [IdleChecker EXCEPT !.pc = "connect"]
  /\ attempt' = [attempt EXCEPT ![HealthCheck].pc = "read"]

FindClient ==
  /\ checker.pc = "find"
  /\ IF current = None THEN checker' = IdleChecker /\ UNCHANGED attempt
     ELSE IF client[current].hard THEN Reconnect
     ELSE checker' = [checker EXCEPT !.pc = "health", !.client = current] /\ UNCHANGED attempt
  /\ UNCHANGED <<db, current, client, node, limiter, admin, request, alone, calm, bounds>>

\* Fault variant of Unconnected: a client that never connected is left alone.
Fault_Unconnected(c) == FALSE

Unconnected(c) == client[c].health = "not_connected"

GetHealth ==
  /\ checker.pc = "health"
  /\ LET c == checker.client
     IN IF Unconnected(c) THEN Reconnect
        ELSE IF client[c].health \in {"healthy", "broken"}
        THEN checker' = [checker EXCEPT !.pc = "stats", !.saw = client[c].health] /\ UNCHANGED attempt
        ELSE checker' = IdleChecker /\ UNCHANGED attempt
  /\ UNCHANGED <<db, current, client, node, limiter, admin, request, alone, calm, bounds>>

\* set_health(): an INVALID client stays INVALID.
SetHealth(c, h) ==
  client' = IF client[c].health = "invalid" THEN client ELSE [client EXCEPT ![c].health = h]

StatsOk ==
  /\ checker.pc = "stats" /\ node.up
  /\ IF checker.saw = "healthy" THEN UNCHANGED client ELSE SetHealth(checker.client, "healthy")
  /\ checker' = IF checker.status = "connected" THEN IdleChecker ELSE [checker EXCEPT !.pc = "recover"]
  /\ UNCHANGED <<db, current, node, attempt, limiter, admin, request, alone, calm, bounds>>

\* An answer that is an error leads to a new connection, silence does not.
StatsFail ==
  /\ checker.pc = "stats"
  /\ \/ ~node.up /\ checker' = [checker EXCEPT !.pc = "error", !.retry = TRUE] /\ UNCHANGED <<faults, events>>
     \/ Fault /\ checker' = [checker EXCEPT !.pc = "error", !.retry = FALSE]
  /\ SetHealth(checker.client, "broken")
  /\ UNCHANGED <<db, current, node, attempt, limiter, admin, request, alone, calm, changes>>

RecordError ==
  /\ checker.pc = "error"
  /\ Write("error")
  /\ IF checker.retry THEN Reconnect ELSE checker' = IdleChecker /\ UNCHANGED attempt
  /\ UNCHANGED <<over, version, current, client, node, limiter, admin, request, alone, calm, bounds>>

RecordRecovery ==
  /\ checker.pc = "recover"
  /\ Write("connected")
  /\ checker' = IdleChecker
  /\ UNCHANGED <<over, version, current, client, node, attempt, limiter, admin, request, alone, calm, bounds>>

Reconnected ==
  /\ checker.pc = "connect" /\ attempt[HealthCheck].pc = "idle"
  /\ checker' = IdleChecker
  /\ UNCHANGED <<db, current, client, node, attempt, limiter, admin, request, alone, calm, bounds>>

Checker == Check \/ FindClient \/ GetHealth \/ StatsOk \/ StatsFail \/ RecordError \/ RecordRecovery \/ Reconnected

-----------------------------------------------------------------------------
(* check_node_limits() and administrators.                                 *)

\* get_limited_nodes().
Limitable == over /\ status \in Active

FindOverLimit ==
  /\ limiter = "idle" /\ Limitable
  /\ limiter' = "disconnect"
  /\ alone' = (alone /\ ~Busy /\ ~Stopping)
  /\ UNCHANGED <<db, current, client, node, attempt, checker, admin, request, calm, bounds>>

DisconnectLimited ==
  /\ limiter = "disconnect"
  /\ Remove
  /\ limiter' = "limit"
  /\ UNCHANGED <<db, node, attempt, checker, admin, request, alone, calm, bounds>>

Limit ==
  /\ limiter = "limit"
  /\ Write("limited")
  /\ limiter' = "idle"
  /\ UNCHANGED <<over, version, current, client, node, attempt, checker, admin, request, alone, calm, bounds>>

Traffic ==
  /\ ~over /\ status \in Active /\ Op
  /\ over' = TRUE
  /\ UNCHANGED <<status, version, current, client, node, work, request, alone, calm, changes, faults>>

\* Fault variant of Modified: what is asked for is stored, also when nothing is.
Fault_Modified(asked) == IF over THEN "limited" ELSE asked

\* modify_node() of the database layer: the status that is asked for, or
\* none, and what the limit makes of it.
Modified(asked) ==
  IF over THEN "limited"
  ELSE IF asked = "disabled" \/ (asked = "same" /\ status = "disabled") THEN "disabled"
  ELSE "connecting"

Request == admin.pc = "idle" /\ status # "gone" /\ Op /\ alone' = (alone /\ ~Busy /\ limiter = "idle")

Modify(asked) ==
  /\ Request
  /\ status' = Modified(asked)
  /\ admin' = [admin EXCEPT !.pc = IF Modified(asked) \in Stopped THEN "disconnect" ELSE "install"]
  /\ UNCHANGED <<over, version, current, client, node, attempt, checker, limiter, request, calm, changes, faults>>

ModifyDisconnect ==
  /\ admin.pc = "disconnect"
  /\ Remove
  /\ admin' = [admin EXCEPT !.pc = "idle"]
  /\ UNCHANGED <<db, node, attempt, checker, limiter, request, alone, calm, bounds>>

ModifyInstall ==
  /\ admin.pc = "install"
  /\ Install
  /\ admin' = [pc |-> "wait", old |-> current]
  /\ UNCHANGED <<db, node, attempt, checker, limiter, request, alone, calm, bounds>>

\* The attempt to connect is a task of its own.
Begin == \E a \in Attempts : attempt[a].pc = "idle" /\ Step(a, "read")

ModifyConnect ==
  /\ admin.pc = "wait"
  /\ admin.old # None => client[admin.old].stop = "no"
  /\ admin' = [pc |-> "idle", old |-> None]
  /\ Begin
  /\ UNCHANGED <<db, current, client, node, checker, limiter, request, alone, calm, bounds>>

\* remove_node(): out of the manager first, then out of the database.
Delete ==
  /\ Request
  /\ admin' = [admin EXCEPT !.pc = "drop"]
  /\ UNCHANGED <<db, current, client, node, attempt, checker, limiter, request, calm, changes, faults>>

DeleteClient ==
  /\ admin.pc = "drop"
  /\ Remove
  /\ admin' = [admin EXCEPT !.pc = "delete"]
  /\ UNCHANGED <<db, node, attempt, checker, limiter, request, alone, calm, bounds>>

DeleteRow ==
  /\ admin.pc = "delete"
  /\ status' = "gone"
  /\ admin' = [admin EXCEPT !.pc = "idle"]
  /\ UNCHANGED <<over, version, current, client, node, attempt, checker, limiter, request, alone, calm, bounds>>

\* reset_node_usage(): a limited node is connected again.
ResetUsage ==
  /\ Request /\ over
  /\ over' = FALSE
  /\ IF status = "limited" THEN status' = "connecting" /\ Begin ELSE UNCHANGED <<status, attempt>>
  /\ UNCHANGED <<version, current, client, node, checker, limiter, admin, request, calm, changes, faults>>

\* restart_node().
Restart ==
  /\ status # "gone" /\ Op
  /\ Begin
  /\ alone' = (alone /\ ~Stopping)
  /\ UNCHANGED <<db, current, client, node, checker, limiter, admin, request, calm, changes, faults>>

Jobs == \/ DisconnectLimited \/ Limit \/ FindOverLimit
        \/ ModifyDisconnect \/ ModifyInstall \/ ModifyConnect \/ DeleteClient \/ DeleteRow

-----------------------------------------------------------------------------
(* Changes of users, and the node.                                         *)

Connecting == \E a \in Slots : attempt[a].pc \in {"install", "wait", "get", "start"}

\* A request stores a user, and serializes it before it is sent.
ChangeUser(r, u) ==
  /\ request[r].pc = "idle" /\ changes < MaxChanges
  /\ changes' = changes + 1 /\ Op
  /\ version' = [version EXCEPT ![u] = @ + 1]
  /\ request' = [request EXCEPT ![r] = [pc |-> "send", user |-> u, version |-> version[u] + 1]]
  /\ calm' = (calm /\ ~Connecting /\ \A q \in Requests : request[q].user # u)
  /\ UNCHANGED <<status, over, current, client, node, work, alone, faults>>

\* Fault variant of Receives: the health at hand decides.
Fault_Receives(c) == client[c].health = "healthy"

Receives(c) == client[c].health \in {"healthy", "broken"}

\* NodeManager.update_user(): to the client in the manager by then.
SendUser(r) ==
  /\ request[r].pc = "send"
  /\ client' = IF current # None /\ Receives(current)
               THEN [client EXCEPT ![current].queue = Append(@, <<request[r].user, request[r].version>>)]
               ELSE client
  /\ request' = [request EXCEPT ![r] = IdleRequest]
  /\ UNCHANGED <<db, current, node, work, alone, calm, bounds>>

Deliver(c) ==
  /\ client[c].queue # <<>> /\ node.up
  /\ LET m == Head(client[c].queue) IN node' = [node EXCEPT !.users[m[1]] = m[2]]
  /\ client' = [client EXCEPT ![c].queue = Tail(@)]
  /\ UNCHANGED <<db, current, work, request, alone, calm, bounds>>

\* Updates that cannot be delivered make the client ask for a hard reset.
Lose(c) ==
  /\ client[c].queue # <<>>
  /\ IF node.up THEN Fault ELSE UNCHANGED <<faults, events>>
  /\ client' = [client EXCEPT ![c].queue = Tail(@), ![c].hard = TRUE]
  /\ UNCHANGED <<db, current, node, work, request, alone, calm, changes>>

Crash ==
  /\ node.up /\ Fault
  /\ node' = [node EXCEPT !.up = FALSE]
  /\ UNCHANGED <<db, current, client, work, request, alone, calm, changes>>

PanelNodeNext ==
  \/ \E c \in Clients : Invalidate(c) \/ StopLands(c) \/ Deliver(c) \/ Lose(c)
  \/ \E a \in Slots : Attempt(a) \/ StartFails(a)
  \/ Checker
  \/ Jobs \/ Traffic \/ Delete \/ ResetUsage \/ Restart
  \/ \E asked \in {"same", "disabled", "connecting"} : Modify(asked)
  \/ \E r \in Requests : SendUser(r) \/ \E u \in Users : ChangeUser(r, u)
  \/ Crash

\* The event loop runs every task on, every call ends, and the scheduler
\* runs its jobs again and again.
PanelNodeFairness ==
  /\ \A c \in Clients : WF_nodeVars(Invalidate(c)) /\ WF_nodeVars(StopLands(c))
                        /\ WF_nodeVars(Deliver(c)) /\ WF_nodeVars(Lose(c))
  /\ \A a \in Slots : WF_nodeVars(Attempt(a))
  /\ WF_nodeVars(Checker) /\ WF_nodeVars(Jobs)
  /\ \A r \in Requests : WF_nodeVars(SendUser(r))

PanelNodeSpec == PanelNodeInit /\ [][PanelNodeNext]_nodeVars /\ PanelNodeFairness

-----------------------------------------------------------------------------
(* Properties.                                                             *)

\* Nothing is under way.
Quiet ==
  /\ ~Busy /\ ~Stopping
  /\ \A r \in Requests : request[r].pc = "idle"
  /\ \A c \in Clients : client[c].stop = "no" /\ client[c].queue = <<>>

(* A node that is disabled, over its limit or deleted has no client and,   *)
(* when no Stop was lost, does not run, unless it was stopped while it was *)
(* being connected or checked.                                             *)
StoppedNodeIsDown ==
  alone /\ Quiet /\ status \in Stopped => current = None /\ (faults = 0 => ~node.up)

(* A connected node at rest serves the users as the database has them,     *)
(* whatever reconnects, lost updates and crashes came before, if no change *)
(* fell into a connection or into another change of the same user, none    *)
(* was left in an old client when the node was started, and no start       *)
(* failed under the eyes of the health check.                              *)
ConnectedNodeServesUsers ==
  calm /\ Quiet /\ node.up /\ current # None /\ client[current].health = "healthy" /\ ~client[current].hard
    => node.users = version

(* Only an administrator takes a node out of the disabled, limited or      *)
(* deleted state: no late answer of an attempt, check or limit job does,   *)
(* when they are alone.                                                    *)
StoppedUntilEnabled ==
  [][alone' /\ status \in Stopped /\ status' # status
       => admin.pc' # admin.pc \/ over' # over]_nodeVars

(* The same without that condition: a node that is stopped stays stopped.  *)
StoppedStaysStopped ==
  [][status' # status /\ status \in Stopped
       => admin.pc' # admin.pc \/ over' # over]_nodeVars

(* What the node serves is what ServedUsers promises.                      *)
Served == INSTANCE ServedUsers WITH truth <- version, serving <- node.up, copy <- node.users
ServesUsers == Served!ServedSpec

(* Whatever fails and however attempts and checks interleave, a node that  *)
(* is meant to run ends up connected, running and healthy.                 *)
Settled ==
  \/ status \in Stopped
  \/ /\ status = "connected" /\ node.up
     /\ current # None
     /\ client[current].health = "healthy"
NodeRecovers == [](alone) => <>[]Settled
=============================================================================
