-------------------------- MODULE PanelNodeProofs --------------------------
(***************************************************************************)
(* Theorems about PanelNode: its invariants, and that it implements        *)
(* ServedUsers, for any number of users, clients, attempts and requests    *)
(* and any bounds.                                                         *)
(*                                                                         *)
(* The inductive invariant has a part for each of the two conditions the   *)
(* properties make.  While an attempt or check, an administrator and the   *)
(* limit job work alone, whoever is past its first look at the row works   *)
(* on a node that is not stopped (AloneOK).  While changes are calm, every *)
(* attempt holds the users as they are, every update on its way is the     *)
(* last of its user or comes before it in the one queue that is not empty, *)
(* and what a connected node does not serve yet is on its way (CalmOK).    *)
(***************************************************************************)
EXTENDS PanelNode, TLAPS

Linking == {"install", "wait", "get", "start"}

\* Nothing is ahead of the database.
BehindOK ==
  /\ \A u \in Users : version[u] <= changes /\ node.users[u] <= version[u]
  /\ \A a \in Slots, u \in Users : attempt[a].users[u] <= version[u]
  /\ \A r \in Requests : request[r].pc = "send" =>
       request[r].user \in Users /\ request[r].version \in 1..version[request[r].user]
  /\ \A c \in Clients : \A i \in DOMAIN client[c].queue :
       client[c].queue[i][2] <= version[client[c].queue[i][1]]

\* A client that is out of the manager keeps updates only until it is shut down.
ClientsOK ==
  /\ current # None => client[current].stop = "no" /\ client[current].health # "invalid"
  /\ \A c \in Clients : c # current /\ client[c].queue # <<>> => client[c].stop = "due"
  /\ \A a \in Slots : attempt[a].pc = "start" => attempt[a].client \in Clients
  /\ checker.pc \in {"health", "stats"} => checker.client \in Clients

\* One of an attempt or check, an administrator and the limit job works at a time.
OneAtATime ==
  /\ ~ (Busy /\ Stopping)
  /\ ~ (admin.pc # "idle" /\ limiter # "idle")

\* Who works on a node that is not stopped.
NotStopped ==
  \/ \E a \in Slots : attempt[a].pc \notin {"idle", "read"}
  \/ checker.pc \notin {"idle", "connect"}
  \/ limiter # "idle"
  \/ admin.pc \in {"install", "wait"}

AloneOK == alone =>
  /\ OneAtATime
  /\ NotStopped => status \in Active
  /\ (\E a \in Slots : attempt[a].pc \in {"wait", "get", "start"}) => current # None
  /\ limiter = "limit" \/ admin.pc = "delete" => current = None
  /\ status \in Stopped /\ admin.pc # "disconnect" => current = None
  /\ node.up /\ faults = 0 => current # None \/ \E c \in Clients : client[c].stop # "no"

\* A queue that takes no user back, from what is served on.
Ordered(q, served) ==
  /\ \A i \in DOMAIN q : served[q[i][1]] <= q[i][2]
  /\ \A i, j \in DOMAIN q : i < j /\ q[i][1] = q[j][1] => q[i][2] <= q[j][2]

UpToDate(q, truth) == \A i \in DOMAIN q : q[i][2] = truth[q[i][1]]

\* The node serves u as it is, or the last change of u is on its way.
Reflected(u) ==
  \/ node.users[u] = version[u]
  \/ \E r \in Requests : request[r].pc = "send" /\ request[r].user = u
  \/ \E i \in DOMAIN client[current].queue : client[current].queue[i] = <<u, version[u]>>

CalmOK == calm =>
  /\ \A a \in Slots : attempt[a].pc \in Linking => attempt[a].users = version
  /\ \A r \in Requests : request[r].pc = "send" => request[r].version = version[request[r].user]
  /\ \A c, d \in Clients : client[c].queue # <<>> /\ client[d].queue # <<>> => c = d
  /\ \A c \in Clients : Ordered(client[c].queue, node.users)
  /\ current # None =>
       /\ (\E a \in Slots : attempt[a].pc \in {"wait", "get", "start"})
            => UpToDate(client[current].queue, version)
       /\ Asked(current) => Receives(current)
       /\ client[current].health # "not_connected" \/ client[current].queue # <<>> => NoneLeft
       /\ node.up /\ Receives(current) /\ ~client[current].hard => \A u \in Users : Reflected(u)

PanelInv == PanelNodeTypeOK /\ BehindOK /\ ClientsOK /\ AloneOK /\ CalmOK

ClientType  == [health: {"not_connected", "healthy", "broken", "invalid"},
                stop: {"no", "due", "sent"},
                queue: Seq(Users \X (1..MaxChanges)), hard: BOOLEAN]
AttemptType == [pc: {"idle", "read", "users", "install", "wait", "get", "start", "started", "failed"},
                users: [Users -> 0..MaxChanges],
                old: Clients \cup {None}, client: Clients \cup {None}]
CheckerType == [pc: {"idle", "find", "health", "stats", "recover", "error", "connect"},
                status: Active \cup {"gone"}, client: Clients \cup {None},
                saw: {"healthy", "broken", "invalid"}, retry: BOOLEAN]

-----------------------------------------------------------------------------
(* Types.                                                                  *)

LEMMA Fresh ==
  /\ FreshClient \in ClientType /\ FreshClient.queue = <<>> /\ FreshClient.stop = "no"
  /\ FreshClient.health = "not_connected"
  /\ [FreshClient EXCEPT !.health = "invalid", !.stop = "sent"] \in ClientType
  /\ [FreshClient EXCEPT !.health = "invalid", !.stop = "sent"].queue = <<>>
  /\ [FreshClient EXCEPT !.health = "invalid", !.stop = "sent"].stop = "sent"
<1>1. <<>> \in Seq(Users \X (1..MaxChanges))
  OBVIOUS
<1>. QED
  BY <1>1 DEF FreshClient, ClientType

LEMMA IdleTypes ==
  /\ IdleAttempt \in AttemptType /\ IdleAttempt.pc = "idle" /\ IdleAttempt.client = None
  /\ \A u \in Users : IdleAttempt.users[u] = 0
  /\ \A pc \in {"read", "started", "failed"} :
       /\ [IdleAttempt EXCEPT !.pc = pc] \in AttemptType
       /\ [IdleAttempt EXCEPT !.pc = pc].pc = pc
       /\ \A u \in Users : [IdleAttempt EXCEPT !.pc = pc].users[u] = 0
  /\ IdleChecker \in CheckerType /\ IdleChecker.pc = "idle" /\ IdleChecker.client = None
<1>1. [u \in Users |-> 0] \in [Users -> 0..MaxChanges]
  BY PanelNodeAssumption
<1>. QED
  BY <1>1 DEF IdleAttempt, AttemptType, IdleChecker, CheckerType, Active

Base == PanelNodeTypeOK /\ BehindOK /\ ClientsOK

LEMMA BaseTypes ==
  ASSUME PanelNodeTypeOK
  PROVE  /\ client \in [Clients -> ClientType] /\ attempt \in [Slots -> AttemptType]
         /\ checker \in CheckerType /\ current \in Clients \cup {None} /\ None \notin Clients
         /\ status \in Active \cup Stopped /\ MaxChanges \in Nat
BY PanelNodeAssumption DEF PanelNodeTypeOK, ClientType, AttemptType, CheckerType

\* An attempt goes on to x.
LEMMA AttemptMoves ==
  ASSUME Base, NEW a \in Slots, NEW x \in AttemptType, attempt' = [attempt EXCEPT ![a] = x],
         \A u \in Users : x.users[u] <= version[u], x.pc = "start" => x.client \in Clients
  PROVE  /\ attempt' \in [Slots -> AttemptType] /\ attempt'[a] = x
         /\ \A b \in Slots : b # a => attempt'[b] = attempt[b]
         /\ \A b \in Slots, u \in Users : attempt'[b].users[u] <= version[u]
         /\ \A b \in Slots : attempt'[b].pc = "start" => attempt'[b].client \in Clients
<1>1. attempt \in [Slots -> AttemptType]
  BY BaseTypes DEF Base
<1>. QED
  BY <1>1 DEF Base, BehindOK, ClientsOK

\* It goes on with its work, or ends it.
LEMMA AttemptOn ==
  ASSUME Base, NEW a \in Slots, NEW pc \in {"users", "started", "failed", "read"}, Step(a, pc) \/ End(a)
  PROVE  /\ attempt' \in [Slots -> AttemptType]
         /\ \A b \in Slots : b # a => attempt'[b] = attempt[b]
         /\ \A b \in Slots, u \in Users : attempt'[b].users[u] <= version[u]
         /\ \A b \in Slots : attempt'[b].pc = "start" => attempt'[b].client \in Clients
         /\ attempt'[a].pc = pc \/ attempt'[a] = IdleAttempt
<1>0. /\ attempt \in [Slots -> AttemptType] /\ version \in [Users -> 0..MaxChanges]
  BY BaseTypes DEF Base, PanelNodeTypeOK
<1>1. CASE Step(a, pc)
  <2>1. [attempt[a] EXCEPT !.pc = pc] \in AttemptType
    BY <1>0 DEF AttemptType
  <2>2. attempt' = [attempt EXCEPT ![a] = [attempt[a] EXCEPT !.pc = pc]]
    BY <1>0, <1>1 DEF Step
  <2>3. \A u \in Users : [attempt[a] EXCEPT !.pc = pc].users[u] <= version[u]
    BY <1>0 DEF Base, BehindOK, AttemptType
  <2>4. [attempt[a] EXCEPT !.pc = pc].pc = pc
    BY <1>0 DEF AttemptType
  <2>. DEFINE x == [attempt[a] EXCEPT !.pc = pc]
  <2>. HIDE DEF x
  <2>. QED
    BY <2>1, <2>2, <2>3, <2>4, AttemptMoves DEF x
<1>2. CASE End(a)
  <2>1. \A u \in Users : IdleAttempt.users[u] <= version[u]
    BY <1>0, IdleTypes
  <2>. QED
    BY <1>2, <2>1, IdleTypes, AttemptMoves DEF End
<1>. QED
  BY <1>1, <1>2

\* What _nodes.pop() does to a client.
LEMMA DueFacts ==
  ASSUME PanelNodeTypeOK
  PROVE  /\ Due(client) \in [Clients -> ClientType]
         /\ \A c \in Clients : c # current => Due(client)[c] = client[c]
         /\ current # None =>
              /\ Due(client)[current].stop = "due"
              /\ Due(client)[current].queue = client[current].queue
              /\ Due(client)[current].health = client[current].health
<1>0. client \in [Clients -> ClientType] /\ current \in Clients \cup {None} /\ None \notin Clients
  BY BaseTypes
<1>1. CASE current = None
  BY <1>0, <1>1 DEF Due
<1>2. CASE current # None
  <2>1. [client[current] EXCEPT !.stop = "due"] \in ClientType
    BY <1>0, <1>2 DEF ClientType
  <2>2. Due(client) = [client EXCEPT ![current] = [client[current] EXCEPT !.stop = "due"]]
    BY <1>0, <1>2 DEF Due
  <2>3. /\ [client[current] EXCEPT !.stop = "due"].stop = "due"
        /\ [client[current] EXCEPT !.stop = "due"].queue = client[current].queue
        /\ [client[current] EXCEPT !.stop = "due"].health = client[current].health
    BY <1>0, <1>2 DEF ClientType
  <2>. DEFINE x == [client[current] EXCEPT !.stop = "due"]
  <2>. HIDE DEF x
  <2>. QED
    BY <1>0, <1>2, <2>1, <2>2, <2>3 DEF x
<1>. QED
  BY <1>1, <1>2

LEMMA RemoveFacts ==
  ASSUME Base, Remove
  PROVE  /\ current' = None /\ client' \in [Clients -> ClientType]
         /\ \A c \in Clients : c # current => client'[c] = client[c]
         /\ \A c \in Clients : client'[c].queue = client[c].queue
         /\ \A c \in Clients : c = current => client'[c].stop = "due"
BY DueFacts, BaseTypes DEF Remove, Base

LEMMA InstallFacts ==
  ASSUME Base, Install
  PROVE  /\ current' \in Clients /\ Unused(current') /\ current' # None
         /\ client' \in [Clients -> ClientType]
         /\ client'[current'] = FreshClient
         /\ \A c \in Clients : c # current /\ c # current' => client'[c] = client[c]
         /\ \A c \in Clients : c # current' => client'[c].queue = client[c].queue
         /\ \A c \in Clients : c = current => client'[c].stop = "due" /\ c # current'
<1>. DEFINE n == CHOOSE c \in Clients : Unused(c)
<1>1. n \in Clients /\ Unused(n)
  BY DEF Install
<1>2. current' = n /\ client' = [Due(client) EXCEPT ![n] = FreshClient]
  BY DEF Install
<1>3. n # current
  BY <1>1 DEF Unused
<1>. HIDE DEF n
<1>4. client' \in [Clients -> ClientType] /\ client'[n] = FreshClient
      /\ \A c \in Clients : c # n => client'[c] = Due(client)[c]
  BY <1>1, <1>2, DueFacts, Fresh DEF Base
<1>. QED
  BY <1>1, <1>2, <1>3, <1>4, DueFacts, BaseTypes DEF Base

\* The clients after a change of the client in the manager.
LEMMA ClientsChange ==
  ASSUME Base, Remove \/ Install
  PROVE  /\ current' \in Clients \cup {None} /\ client' \in [Clients -> ClientType]
         /\ current' # None => client'[current'].stop = "no" /\ client'[current'].health # "invalid"
         /\ \A c \in Clients : c # current' /\ client'[c].queue # <<>> => client'[c].stop = "due"
         /\ \A c \in Clients : \A i \in DOMAIN client'[c].queue :
              client'[c].queue[i][2] <= version[client'[c].queue[i][1]]
<1>1. CASE Remove
  BY <1>1, RemoveFacts DEF Base, BehindOK, ClientsOK
<1>2. CASE Install
  <2>1. DOMAIN <<>> = {}
    OBVIOUS
  <2>. QED
    BY <1>2, <2>1, InstallFacts, Fresh DEF Base, BehindOK, ClientsOK
<1>. QED
  BY <1>1, <1>2

\* One client is put in another state.
LEMMA ClientPut ==
  ASSUME Base, NEW c \in Clients, NEW x \in ClientType, client' = [client EXCEPT ![c] = x],
         c = current => x.stop = "no" /\ x.health # "invalid",
         c # current /\ x.queue # <<>> => x.stop = "due",
         \A i \in DOMAIN x.queue : x.queue[i][2] <= version[x.queue[i][1]]
  PROVE  /\ client' \in [Clients -> ClientType] /\ client'[c] = x
         /\ \A d \in Clients : d # c => client'[d] = client[d]
         /\ current # None => client'[current].stop = "no" /\ client'[current].health # "invalid"
         /\ \A d \in Clients : d # current /\ client'[d].queue # <<>> => client'[d].stop = "due"
         /\ \A d \in Clients : \A i \in DOMAIN client'[d].queue :
              client'[d].queue[i][2] <= version[client'[d].queue[i][1]]
<1>1. client \in [Clients -> ClientType] /\ current \in Clients \cup {None}
  BY BaseTypes DEF Base
<1>2. /\ client' \in [Clients -> ClientType] /\ client'[c] = x
      /\ \A d \in Clients : d # c => client'[d] = client[d]
  BY <1>1
<1>. QED
  BY <1>1, <1>2 DEF Base, BehindOK, ClientsOK

\* One client gets another health, and perhaps no longer asks for a reset.
LEMMA HealthPut ==
  ASSUME Base, NEW c \in Clients, NEW h \in {"not_connected", "healthy", "broken"}, NEW hard \in BOOLEAN,
         client[c].health # "invalid",
         client' = [client EXCEPT ![c].health = h, ![c].hard = hard]
  PROVE  /\ client' \in [Clients -> ClientType]
         /\ client'[c].health = h /\ client'[c].hard = hard
         /\ \A d \in Clients : d # c => client'[d] = client[d]
         /\ \A d \in Clients : client'[d].queue = client[d].queue /\ client'[d].stop = client[d].stop
         /\ current # None => client'[current].stop = "no" /\ client'[current].health # "invalid"
         /\ \A d \in Clients : d # current /\ client'[d].queue # <<>> => client'[d].stop = "due"
         /\ \A d \in Clients : \A i \in DOMAIN client'[d].queue :
              client'[d].queue[i][2] <= version[client'[d].queue[i][1]]
<1>. DEFINE x == [client[c] EXCEPT !.health = h, !.hard = hard]
<1>1. client \in [Clients -> ClientType]
  BY BaseTypes DEF Base
<1>2. /\ x \in ClientType /\ x.health = h /\ x.hard = hard /\ x.queue = client[c].queue
      /\ x.stop = client[c].stop
  BY <1>1 DEF ClientType
<1>3. client' = [client EXCEPT ![c] = x]
  BY <1>1
<1>4. /\ c = current => client[c].stop = "no"
      /\ c # current /\ client[c].queue # <<>> => client[c].stop = "due"
      /\ \A i \in DOMAIN client[c].queue : client[c].queue[i][2] <= version[client[c].queue[i][1]]
      /\ c \in Clients => (c = current => current # None)
  BY BaseTypes DEF Base, BehindOK, ClientsOK
<1>. HIDE DEF x
<1>5. /\ c = current => x.stop = "no" /\ x.health # "invalid"
      /\ c # current /\ x.queue # <<>> => x.stop = "due"
      /\ \A i \in DOMAIN x.queue : x.queue[i][2] <= version[x.queue[i][1]]
  BY <1>2, <1>4
<1>. QED
  BY <1>2, <1>3, <1>5, ClientPut

LEMMA AttemptBase ==
  ASSUME Base, NEW a \in Slots, Attempt(a) \/ StartFails(a)
  PROVE  Base'
<1>0. /\ attempt \in [Slots -> AttemptType] /\ version \in [Users -> 0..MaxChanges]
      /\ client \in [Clients -> ClientType] /\ current \in Clients \cup {None}
  BY BaseTypes DEF Base, PanelNodeTypeOK
<1>1. ASSUME NEW pc \in {"users", "started", "failed", "read"}, Step(a, pc) \/ End(a),
             status' \in Active \cup Stopped,
             UNCHANGED <<over, version, current, client, node, checker, limiter, admin, request,
                         alone, calm, bounds>>
      PROVE  Base'
  <2>1. /\ attempt' \in [Slots -> AttemptType]
        /\ \A b \in Slots, u \in Users : attempt'[b].users[u] <= version[u]
        /\ \A b \in Slots : attempt'[b].pc = "start" => attempt'[b].client \in Clients
    BY <1>1, AttemptOn
  <2>. QED
    BY <1>1, <2>1 DEF Base, PanelNodeTypeOK, BehindOK, ClientsOK, bounds, AttemptType
<1>2. ASSUME NEW x \in AttemptType, attempt' = [attempt EXCEPT ![a] = x],
             \A u \in Users : x.users[u] <= version[u], x.pc = "start" => x.client \in Clients,
             UNCHANGED <<db, current, client, node, checker, limiter, admin, request, alone, calm, bounds>>
      PROVE  Base'
  <2>1. /\ attempt' \in [Slots -> AttemptType]
        /\ \A b \in Slots, u \in Users : attempt'[b].users[u] <= version[u]
        /\ \A b \in Slots : attempt'[b].pc = "start" => attempt'[b].client \in Clients
    BY <1>2, AttemptMoves
  <2>. QED
    BY <1>2, <2>1 DEF Base, PanelNodeTypeOK, BehindOK, ClientsOK, bounds, AttemptType, db
<1>3. CASE ReadRow(a)
  BY <1>1, <1>3 DEF ReadRow, db, Base, PanelNodeTypeOK
<1>4. CASE LoadUsers(a)
  <2>. DEFINE x == [attempt[a] EXCEPT !.pc = "install", !.users = version]
  <2>1. x \in AttemptType /\ x.users = version /\ x.pc = "install"
    BY <1>0 DEF AttemptType
  <2>2. attempt' = [attempt EXCEPT ![a] = x]
    BY <1>0, <1>4 DEF LoadUsers, CoreUsers
  <2>. HIDE DEF x
  <2>3. \A u \in Users : x.users[u] <= version[u]
    BY <1>0, <2>1
  <2>. QED
    BY <1>2, <1>4, <2>1, <2>2, <2>3 DEF LoadUsers
<1>5. CASE InstallClient(a)
  <2>. DEFINE x == [attempt[a] EXCEPT !.pc = "wait", !.old = current]
  <2>1. x \in AttemptType /\ x.users = attempt[a].users /\ x.pc = "wait"
    BY <1>0 DEF AttemptType
  <2>2. attempt' = [attempt EXCEPT ![a] = x]
    BY <1>0, <1>5 DEF InstallClient
  <2>. HIDE DEF x
  <2>3. \A u \in Users : x.users[u] <= version[u]
    BY <2>1 DEF Base, BehindOK
  <2>4. /\ attempt' \in [Slots -> AttemptType]
        /\ \A b \in Slots, u \in Users : attempt'[b].users[u] <= version[u]
        /\ \A b \in Slots : attempt'[b].pc = "start" => attempt'[b].client \in Clients
    BY <2>1, <2>2, <2>3, AttemptMoves
  <2>5. Install /\ UNCHANGED <<db, node, checker, limiter, admin, request, alone, calm, bounds>>
    BY <1>5 DEF InstallClient
  <2>6. PanelNodeTypeOK'
    BY <2>4, <2>5, ClientsChange DEF Base, PanelNodeTypeOK, bounds, AttemptType, ClientType, db
  <2>7. BehindOK'
    BY <2>4, <2>5, ClientsChange DEF Base, BehindOK, bounds, db
  <2>8. ClientsOK'
    BY <2>4, <2>5, ClientsChange DEF Base, ClientsOK
  <2>. QED
    BY <2>6, <2>7, <2>8 DEF Base
<1>6. CASE OldStopped(a)
  <2>. DEFINE x == [attempt[a] EXCEPT !.pc = "get", !.old = None]
  <2>1. x \in AttemptType /\ x.users = attempt[a].users /\ x.pc = "get"
    BY <1>0 DEF AttemptType
  <2>2. attempt' = [attempt EXCEPT ![a] = x]
    BY <1>0, <1>6 DEF OldStopped
  <2>. HIDE DEF x
  <2>3. \A u \in Users : x.users[u] <= version[u]
    BY <2>1 DEF Base, BehindOK
  <2>. QED
    BY <1>2, <1>6, <2>1, <2>2, <2>3 DEF OldStopped
<1>7. CASE GetClient(a)
  <2>1. CASE current = None
    BY <1>1, <1>7, <2>1 DEF GetClient, db, Base, PanelNodeTypeOK
  <2>2. CASE current # None
    <3>. DEFINE x == [attempt[a] EXCEPT !.pc = "start", !.client = current]
    <3>1. x \in AttemptType /\ x.users = attempt[a].users /\ x.client \in Clients
      BY <1>0, <2>2 DEF AttemptType
    <3>2. attempt' = [attempt EXCEPT ![a] = x]
      BY <1>0, <1>7, <2>2 DEF GetClient
    <3>. HIDE DEF x
    <3>3. \A u \in Users : x.users[u] <= version[u]
      BY <3>1 DEF Base, BehindOK
    <3>. QED
      BY <1>2, <1>7, <3>1, <3>2, <3>3 DEF GetClient
  <2>. QED
    BY <2>1, <2>2
<1>8. ASSUME NEW h \in {"not_connected", "healthy", "broken"}, NEW hard \in BOOLEAN,
             NEW pc \in {"started", "failed"}, attempt[a].pc = "start",
             client[attempt[a].client].health # "invalid",
             client' = [client EXCEPT ![attempt[a].client].health = h, ![attempt[a].client].hard = hard],
             attempt' = [attempt EXCEPT ![a] = [IdleAttempt EXCEPT !.pc = pc]],
             node' \in {[node EXCEPT !.up = FALSE], [up |-> TRUE, users |-> attempt[a].users]},
             calm' \in BOOLEAN, changes' = changes, faults' \in 0..MaxFaults, events' \in 0..MaxEvents,
             UNCHANGED <<db, current, checker, limiter, admin, request, alone>>
      PROVE  Base'
  <2>0. attempt[a].client \in Clients
    BY <1>8 DEF Base, ClientsOK
  <2>1. /\ client' \in [Clients -> ClientType]
        /\ current # None => client'[current].stop = "no" /\ client'[current].health # "invalid"
        /\ \A d \in Clients : d # current /\ client'[d].queue # <<>> => client'[d].stop = "due"
        /\ \A d \in Clients : \A i \in DOMAIN client'[d].queue :
             client'[d].queue[i][2] <= version[client'[d].queue[i][1]]
    BY <1>8, <2>0, HealthPut
  <2>2. /\ attempt' \in [Slots -> AttemptType]
        /\ \A b \in Slots, u \in Users : attempt'[b].users[u] <= version[u]
        /\ \A b \in Slots : attempt'[b].pc = "start" => attempt'[b].client \in Clients
    <3>1. \A u \in Users : [IdleAttempt EXCEPT !.pc = pc].users[u] <= version[u]
      BY <1>0, IdleTypes
    <3>. QED
      BY <1>8, <3>1, IdleTypes, AttemptMoves
  <2>3. /\ node' \in [up: BOOLEAN, users: [Users -> 0..MaxChanges]]
        /\ \A u \in Users : node'.users[u] <= version[u]
    <3>1. node \in [up: BOOLEAN, users: [Users -> 0..MaxChanges]]
      BY DEF Base, PanelNodeTypeOK
    <3>2. CASE node' = [node EXCEPT !.up = FALSE]
      BY <3>1, <3>2 DEF Base, BehindOK
    <3>3. CASE node' = [up |-> TRUE, users |-> attempt[a].users]
      BY <1>0, <3>3 DEF Base, BehindOK, AttemptType
    <3>. QED
      BY <1>8, <3>2, <3>3
  <2>4. PanelNodeTypeOK'
    <3>1. /\ calm' \in BOOLEAN /\ changes' = changes /\ faults' \in 0..MaxFaults /\ events' \in 0..MaxEvents
          /\ UNCHANGED <<db, current, checker, limiter, admin, request, alone>>
      BY <1>8
    <3>. QED
      BY <2>1, <2>2, <2>3, <3>1 DEF Base, PanelNodeTypeOK, AttemptType, ClientType, db
  <2>5. BehindOK'
    BY <1>8, <2>1, <2>2, <2>3 DEF Base, BehindOK, db
  <2>6. ClientsOK'
    BY <1>8, <2>1, <2>2, <2>3 DEF Base, ClientsOK
  <2>. QED
    BY <2>4, <2>5, <2>6 DEF Base
<1>9. CASE StartNode(a)
  <2>1. node' = [up |-> TRUE, users |-> attempt[a].users] /\ FALSE \in BOOLEAN
    BY <1>9 DEF StartNode
  <2>. QED
    BY <1>8, <1>9, <2>1 DEF StartNode, Base, PanelNodeTypeOK, bounds
<1>10. CASE StartFails(a)
  <2>1. client[attempt[a].client].hard \in BOOLEAN
    BY <1>0, <1>10 DEF StartFails, Base, ClientsOK, ClientType
  <2>2. client' = [client EXCEPT ![attempt[a].client].health = "not_connected",
                                 ![attempt[a].client].hard = client[attempt[a].client].hard]
    <3>1. attempt[a].client \in Clients
      BY <1>10 DEF StartFails, Base, ClientsOK
    <3>. QED
      BY <1>0, <1>10, <3>1 DEF StartFails, ClientType
  <2>3. faults' \in 0..MaxFaults /\ events' \in 0..MaxEvents /\ calm' \in BOOLEAN
    BY <1>10, PanelNodeAssumption DEF StartFails, Fault, Op, Base, PanelNodeTypeOK
  <2>. QED
    BY <1>8, <1>10, <2>1, <2>2, <2>3 DEF StartFails
<1>11. CASE StartRefused(a)
  BY <1>1, <1>11 DEF StartRefused, db, Base, PanelNodeTypeOK
<1>12. CASE Record(a)
  BY <1>1, <1>12 DEF Record, db, Base, PanelNodeTypeOK, Write, Active, Stopped
<1>. QED
  BY <1>3, <1>4, <1>5, <1>6, <1>7, <1>9, <1>10, <1>11, <1>12 DEF Attempt

LEMMA CheckerBase == ASSUME Base, Checker PROVE Base'
<1>0. /\ attempt \in [Slots -> AttemptType] /\ checker \in CheckerType /\ HealthCheck \in Slots
      /\ client \in [Clients -> ClientType] /\ current \in Clients \cup {None}
      /\ status \in Active \cup Stopped /\ alone \in BOOLEAN
  BY BaseTypes DEF Base, PanelNodeTypeOK, Slots
<1>1. ASSUME checker' \in CheckerType, checker'.pc \in {"health", "stats"} => checker'.client \in Clients,
             attempt' = attempt \/ Step(HealthCheck, "read"),
             alone' \in BOOLEAN, status' \in Active \cup Stopped,
             UNCHANGED <<over, version, current, client, node, limiter, admin, request, calm, bounds>>
      PROVE  Base'
  <2>1. /\ attempt' \in [Slots -> AttemptType]
        /\ \A b \in Slots, u \in Users : attempt'[b].users[u] <= version[u]
        /\ \A b \in Slots : attempt'[b].pc = "start" => attempt'[b].client \in Clients
    <3>1. CASE attempt' = attempt
      BY <1>0, <3>1 DEF Base, BehindOK, ClientsOK
    <3>2. CASE Step(HealthCheck, "read")
      BY <1>0, <3>2, AttemptOn
    <3>. QED
      BY <1>1, <3>1, <3>2
  <2>2. PanelNodeTypeOK'
    BY <1>1, <2>1 DEF Base, PanelNodeTypeOK, bounds, AttemptType, CheckerType
  <2>3. BehindOK' /\ ClientsOK'
    BY <1>1, <2>1 DEF Base, BehindOK, ClientsOK, bounds
  <2>. QED
    BY <2>2, <2>3 DEF Base
<1>2. ASSUME NEW h \in {"healthy", "broken"}, client' = client \/ SetHealth(checker.client, h),
             checker.pc = "stats", checker' \in CheckerType, checker'.pc \notin {"health", "stats"},
             faults' \in 0..MaxFaults, events' \in 0..MaxEvents, changes' = changes,
             UNCHANGED <<db, current, node, attempt, limiter, admin, request, alone, calm>>
      PROVE  Base'
  <2>0. checker.client \in Clients
    BY <1>2 DEF Base, ClientsOK
  <2>1. /\ client' \in [Clients -> ClientType]
        /\ current # None => client'[current].stop = "no" /\ client'[current].health # "invalid"
        /\ \A d \in Clients : d # current /\ client'[d].queue # <<>> => client'[d].stop = "due"
        /\ \A d \in Clients : \A i \in DOMAIN client'[d].queue :
             client'[d].queue[i][2] <= version[client'[d].queue[i][1]]
    <3>1. CASE client' = client
      BY <1>0, <3>1 DEF Base, BehindOK, ClientsOK
    <3>2. CASE client' # client /\ SetHealth(checker.client, h)
      <4>. DEFINE c == checker.client
      <4>1. client[c].health # "invalid" /\ client' = [client EXCEPT ![c].health = h]
        BY <3>2 DEF SetHealth
      <4>2. client[c].hard \in BOOLEAN /\ client' = [client EXCEPT ![c].health = h, ![c].hard = client[c].hard]
        BY <1>0, <2>0, <4>1 DEF ClientType
      <4>. QED
        BY <2>0, <4>1, <4>2, HealthPut
    <3>. QED
      BY <1>2, <3>1, <3>2
  <2>2. PanelNodeTypeOK'
    <3>1. /\ faults' \in 0..MaxFaults /\ events' \in 0..MaxEvents /\ changes' = changes
          /\ UNCHANGED <<db, current, node, attempt, limiter, admin, request, alone, calm>>
          /\ checker' \in CheckerType
      BY <1>2
    <3>. QED
      BY <2>1, <3>1 DEF Base, PanelNodeTypeOK, ClientType, CheckerType, db
  <2>3. BehindOK' /\ ClientsOK'
    BY <1>2, <2>1 DEF Base, BehindOK, ClientsOK, db
  <2>. QED
    BY <2>2, <2>3 DEF Base
<1>3. /\ IdleChecker \in CheckerType /\ IdleChecker.pc = "idle"
      /\ \A pc \in {"find", "connect"} : /\ [IdleChecker EXCEPT !.pc = pc] \in CheckerType
                                         /\ [IdleChecker EXCEPT !.pc = pc].pc = pc
      /\ \A pc \in {"recover"} : /\ [checker EXCEPT !.pc = pc] \in CheckerType
                                 /\ [checker EXCEPT !.pc = pc].pc = pc
  BY <1>0 DEF IdleChecker, CheckerType, Active
<1>4. Reconnect => /\ checker' \in CheckerType /\ checker'.pc = "connect" /\ Step(HealthCheck, "read")
  BY <1>3 DEF Reconnect, Step
<1>5. CASE Check
  <2>1. checker' \in CheckerType /\ checker'.pc = "find"
    BY <1>5 DEF Check, IdleChecker, CheckerType
  <2>. QED
    BY <1>0, <1>1, <1>5, <2>1 DEF Check, db
<1>6. CASE FindClient
  <2>1. current # None => /\ [checker EXCEPT !.pc = "health", !.client = current] \in CheckerType
                          /\ [checker EXCEPT !.pc = "health", !.client = current].client = current
    BY <1>0 DEF CheckerType
  <2>. QED
    BY <1>0, <1>1, <1>3, <1>4, <1>6, <2>1 DEF FindClient, db
<1>7. CASE GetHealth
  <2>1. \A h \in {"healthy", "broken"} :
          /\ [checker EXCEPT !.pc = "stats", !.saw = h] \in CheckerType
          /\ [checker EXCEPT !.pc = "stats", !.saw = h].client = checker.client
    BY <1>0 DEF CheckerType
  <2>2. checker.client \in Clients
    BY <1>7 DEF GetHealth, Base, ClientsOK
  <2>. QED
    BY <1>0, <1>1, <1>3, <1>4, <1>7, <2>1, <2>2 DEF GetHealth, db
<1>8. CASE StatsOk
  BY <1>0, <1>2, <1>3, <1>8 DEF StatsOk, bounds, Base, PanelNodeTypeOK
<1>9. CASE StatsFail
  <2>1. \A r \in BOOLEAN : /\ [checker EXCEPT !.pc = "error", !.retry = r] \in CheckerType
                           /\ [checker EXCEPT !.pc = "error", !.retry = r].pc = "error"
    BY <1>0 DEF CheckerType
  <2>2. faults' \in 0..MaxFaults /\ events' \in 0..MaxEvents
    BY <1>9, PanelNodeAssumption DEF StatsFail, Fault, Op, Base, PanelNodeTypeOK
  <2>. QED
    BY <1>0, <1>2, <1>9, <2>1, <2>2 DEF StatsFail
<1>10. CASE RecordError
  BY <1>0, <1>1, <1>3, <1>4, <1>10 DEF RecordError, Write, Active, Stopped
<1>11. CASE RecordRecovery
  BY <1>0, <1>1, <1>3, <1>11 DEF RecordRecovery, Write, Active, Stopped
<1>12. CASE Reconnected
  BY <1>0, <1>1, <1>3, <1>12 DEF Reconnected, db
<1>. QED
  BY <1>5, <1>6, <1>7, <1>8, <1>9, <1>10, <1>11, <1>12 DEF Checker

LEMMA BeginFacts ==
  ASSUME Base, Begin
  PROVE  \E a \in Slots :
           /\ attempt[a].pc = "idle" /\ attempt'[a].pc = "read"
           /\ attempt' \in [Slots -> AttemptType]
           /\ \A b \in Slots : b # a => attempt'[b] = attempt[b]
           /\ \A b \in Slots, u \in Users : attempt'[b].users[u] <= version[u]
           /\ \A b \in Slots : attempt'[b].pc = "start" => attempt'[b].client \in Clients
<1>1. PICK a \in Attempts : attempt[a].pc = "idle" /\ Step(a, "read")
  BY DEF Begin
<1>2. a \in Slots /\ attempt'[a].pc = "read"
  BY <1>1, BaseTypes DEF Slots, Step, Base, AttemptType
<1>. QED
  BY <1>1, <1>2, AttemptOn

AdminType == [pc: {"idle", "disconnect", "install", "wait", "drop", "delete"}, old: Clients \cup {None}]

LEMMA JobsBase ==
  ASSUME Base,
         \/ Jobs \/ Traffic \/ Delete \/ ResetUsage \/ Restart
         \/ \E asked \in {"same", "disabled", "connecting"} : Modify(asked)
  PROVE  Base'
<1>0. /\ attempt \in [Slots -> AttemptType] /\ client \in [Clients -> ClientType]
      /\ current \in Clients \cup {None} /\ admin \in AdminType
      /\ status \in Active \cup Stopped /\ over \in BOOLEAN /\ alone \in BOOLEAN
      /\ limiter \in {"idle", "disconnect", "limit"} /\ events \in 0..MaxEvents /\ MaxEvents \in Nat
  BY BaseTypes, PanelNodeAssumption DEF Base, PanelNodeTypeOK, AdminType
<1>1. ASSUME attempt' = attempt \/ Begin, admin' \in AdminType, limiter' \in {"idle", "disconnect", "limit"},
             status' \in Active \cup Stopped, over' \in BOOLEAN, alone' \in BOOLEAN, events' \in 0..MaxEvents,
             UNCHANGED <<version, current, client, node, checker, request, calm, changes, faults>>
      PROVE  Base'
  <2>1. /\ attempt' \in [Slots -> AttemptType]
        /\ \A b \in Slots, u \in Users : attempt'[b].users[u] <= version[u]
        /\ \A b \in Slots : attempt'[b].pc = "start" => attempt'[b].client \in Clients
    BY <1>0, <1>1, BeginFacts DEF Base, BehindOK, ClientsOK
  <2>2. PanelNodeTypeOK'
    BY <1>1, <2>1 DEF Base, PanelNodeTypeOK, AttemptType, AdminType
  <2>3. BehindOK' /\ ClientsOK'
    BY <1>1, <2>1 DEF Base, BehindOK, ClientsOK
  <2>. QED
    BY <2>2, <2>3 DEF Base
<1>2. ASSUME Remove \/ Install, admin' \in AdminType, limiter' \in {"idle", "disconnect", "limit"},
             UNCHANGED <<db, node, attempt, checker, request, alone, calm, bounds>>
      PROVE  Base'
  <2>1. PanelNodeTypeOK'
    BY <1>2, ClientsChange DEF Base, PanelNodeTypeOK, ClientType, AdminType, db, bounds
  <2>2. BehindOK'
    BY <1>2, ClientsChange DEF Base, BehindOK, bounds, db
  <2>3. ClientsOK'
    BY <1>2, ClientsChange DEF Base, ClientsOK
  <2>. QED
    BY <2>1, <2>2, <2>3 DEF Base
<1>3. \A pc \in {"idle", "disconnect", "install", "drop", "delete"} : [admin EXCEPT !.pc = pc] \in AdminType
  BY <1>0 DEF AdminType
<1>4. Op => events' \in 0..MaxEvents
  BY <1>0 DEF Op
<1>5. CASE DisconnectLimited
  BY <1>0, <1>2, <1>5 DEF DisconnectLimited
<1>6. CASE Limit
  BY <1>0, <1>1, <1>6 DEF Limit, Write, Active, Stopped, bounds
<1>7. CASE FindOverLimit
  BY <1>0, <1>1, <1>7 DEF FindOverLimit, db, bounds
<1>8. CASE ModifyDisconnect
  BY <1>0, <1>2, <1>3, <1>8 DEF ModifyDisconnect
<1>9. CASE ModifyInstall
  <2>1. [pc |-> "wait", old |-> current] \in AdminType
    BY <1>0 DEF AdminType
  <2>. QED
    BY <1>0, <1>2, <1>9, <2>1 DEF ModifyInstall
<1>10. CASE ModifyConnect
  <2>1. [pc |-> "idle", old |-> None] \in AdminType
    BY DEF AdminType
  <2>. QED
    BY <1>0, <1>1, <1>10, <2>1 DEF ModifyConnect, db, bounds
<1>11. CASE DeleteClient
  BY <1>0, <1>2, <1>3, <1>11 DEF DeleteClient
<1>12. CASE DeleteRow
  BY <1>0, <1>1, <1>3, <1>12 DEF DeleteRow, bounds, Stopped
<1>13. CASE Traffic
  BY <1>0, <1>1, <1>4, <1>13 DEF Traffic, work
<1>14. CASE Delete
  BY <1>0, <1>1, <1>3, <1>4, <1>14 DEF Delete, Request, db
<1>15. CASE ResetUsage
  BY <1>0, <1>1, <1>4, <1>15 DEF ResetUsage, Request, Active
<1>16. CASE Restart
  BY <1>0, <1>1, <1>4, <1>16 DEF Restart, db
<1>17. ASSUME NEW asked \in {"same", "disabled", "connecting"}, Modify(asked) PROVE Base'
  <2>1. Modified(asked) \in Active \cup Stopped
    BY DEF Modified, Active, Stopped
  <2>2. admin' \in AdminType
    BY <1>3, <1>17 DEF Modify
  <2>. QED
    BY <1>0, <1>1, <1>4, <1>17, <2>1, <2>2 DEF Modify, Request
<1>. QED
  BY <1>5, <1>6, <1>7, <1>8, <1>9, <1>10, <1>11, <1>12, <1>13, <1>14, <1>15, <1>16, <1>17 DEF Jobs

QueueType == Seq(Users \X (1..MaxChanges))

\* The head of a queue leaves it.
LEMMA QueueTail ==
  ASSUME NEW q \in QueueType, q # <<>>
  PROVE  /\ Head(q) = q[1] /\ Head(q) \in Users \X (1..MaxChanges) /\ 1 \in DOMAIN q
         /\ Tail(q) \in QueueType
         /\ \A i \in DOMAIN Tail(q) : i + 1 \in DOMAIN q /\ i \in Nat /\ i >= 1 /\ Tail(q)[i] = q[i + 1]
         /\ \A i \in DOMAIN q : i # 1 => i - 1 \in DOMAIN Tail(q) /\ Tail(q)[i - 1] = q[i]
<1>. DEFINE S == Users \X (1..MaxChanges)
<1>1. q \in Seq(S)
  BY DEF QueueType
<1>. HIDE DEF S
<1>2. Len(q) \in Nat /\ Len(q) > 0 /\ DOMAIN q = 1..Len(q)
  BY <1>1
<1>3. Head(q) = q[1] /\ q[1] \in S /\ Tail(q) \in Seq(S) /\ Len(Tail(q)) = Len(q) - 1
  BY <1>1, <1>2
<1>4. DOMAIN Tail(q) = 1..(Len(q) - 1)
  BY <1>2, <1>3
<1>5. \A i \in 1..(Len(q) - 1) : Tail(q)[i] = q[i + 1]
  BY <1>1, <1>2
<1>. QED
  BY <1>2, <1>3, <1>4, <1>5 DEF S, QueueType

\* The effect of taking the first update out of a client.
LEMMA TakeFacts ==
  ASSUME Base, NEW c \in Clients, client[c].queue # <<>>, NEW hard \in BOOLEAN,
         client' = [client EXCEPT ![c].queue = Tail(@), ![c].hard = hard]
  PROVE  /\ client' \in [Clients -> ClientType]
         /\ client'[c].queue = Tail(client[c].queue) /\ client'[c].hard = hard
         /\ \A d \in Clients : client'[d].health = client[d].health /\ client'[d].stop = client[d].stop
         /\ \A d \in Clients : d # c => client'[d] = client[d]
         /\ current # None => client'[current].stop = "no" /\ client'[current].health # "invalid"
         /\ \A d \in Clients : d # current /\ client'[d].queue # <<>> => client'[d].stop = "due"
         /\ \A d \in Clients : \A i \in DOMAIN client'[d].queue :
              client'[d].queue[i][2] <= version[client'[d].queue[i][1]]
<1>. DEFINE q == client[c].queue
            x == [client[c] EXCEPT !.queue = Tail(q), !.hard = hard]
<1>1. client \in [Clients -> ClientType] /\ current \in Clients \cup {None} /\ None \notin Clients
  BY BaseTypes DEF Base
<1>2. q \in QueueType /\ q # <<>>
  BY <1>1 DEF ClientType, QueueType
<1>3. /\ Tail(q) \in QueueType
      /\ \A i \in DOMAIN Tail(q) : i + 1 \in DOMAIN q /\ Tail(q)[i] = q[i + 1]
  BY <1>2, QueueTail
<1>4. /\ x \in ClientType /\ x.queue = Tail(q) /\ x.hard = hard /\ x.health = client[c].health
      /\ x.stop = client[c].stop
  BY <1>1, <1>3 DEF ClientType, QueueType
<1>5. client' = [client EXCEPT ![c] = x]
  BY <1>1
<1>6. /\ c = current => client[c].stop = "no" /\ client[c].health # "invalid"
      /\ c # current => client[c].stop = "due"
      /\ \A i \in DOMAIN q : q[i][2] <= version[q[i][1]]
  BY <1>1 DEF Base, BehindOK, ClientsOK
<1>. HIDE DEF q, x
<1>7. \A i \in DOMAIN x.queue : x.queue[i][2] <= version[x.queue[i][1]]
  BY <1>3, <1>4, <1>6
<1>8. q = client[c].queue
  BY DEF q
<1>9. /\ client' \in [Clients -> ClientType] /\ client'[c] = x
      /\ \A d \in Clients : d # c => client'[d] = client[d]
      /\ current # None => client'[current].stop = "no" /\ client'[current].health # "invalid"
      /\ \A d \in Clients : d # current /\ client'[d].queue # <<>> => client'[d].stop = "due"
      /\ \A d \in Clients : \A i \in DOMAIN client'[d].queue :
           client'[d].queue[i][2] <= version[client'[d].queue[i][1]]
  <2>1. /\ c = current => x.stop = "no" /\ x.health # "invalid"
        /\ c # current /\ x.queue # <<>> => x.stop = "due"
    BY <1>4, <1>6
  <2>. QED
    BY <1>4, <1>5, <1>7, <2>1, ClientPut
<1>. QED
  BY <1>4, <1>8, <1>9

LEMMA DeliverFacts ==
  ASSUME Base, NEW c \in Clients, Deliver(c)
  PROVE  /\ client[c].queue # <<>> /\ client[c].hard \in BOOLEAN
         /\ client' = [client EXCEPT ![c].queue = Tail(@), ![c].hard = client[c].hard]
         /\ node' \in [up: BOOLEAN, users: [Users -> 0..MaxChanges]] /\ node'.up = node.up
         /\ client[c].queue[1][1] \in Users
         /\ node'.users = [node.users EXCEPT ![client[c].queue[1][1]] = client[c].queue[1][2]]
<1>1. client \in [Clients -> ClientType] /\ node \in [up: BOOLEAN, users: [Users -> 0..MaxChanges]]
  BY BaseTypes DEF Base, PanelNodeTypeOK
<1>2. client[c].queue \in QueueType /\ client[c].queue # <<>>
  BY <1>1 DEF Deliver, ClientType, QueueType
<1>3. /\ Head(client[c].queue) = client[c].queue[1]
      /\ client[c].queue[1] \in Users \X (1..MaxChanges)
  BY <1>2, QueueTail
<1>4. client' = [client EXCEPT ![c].queue = Tail(@), ![c].hard = client[c].hard]
  BY <1>1 DEF Deliver, ClientType
<1>5. node' = [node EXCEPT !.users[client[c].queue[1][1]] = client[c].queue[1][2]]
  BY <1>3 DEF Deliver
<1>6. client[c].queue[1][1] \in Users /\ client[c].queue[1][2] \in 0..MaxChanges
  BY <1>3, BaseTypes DEF Base
<1>. QED
  BY <1>1, <1>2, <1>4, <1>5, <1>6 DEF ClientType

\* An update that is sent is dropped, or waits behind the others of the client.
LEMMA SendFacts ==
  ASSUME Base, NEW r \in Requests, SendUser(r)
  PROVE  LET m == <<request[r].user, request[r].version>> IN
         /\ m \in Users \X (1..MaxChanges) /\ m[2] <= version[m[1]]
         /\ request' \in [Requests -> [pc: {"idle", "send"}, user: Users \cup {None}, version: 0..MaxChanges]]
         /\ \A s \in Requests : s # r => request'[s] = request[s]
         /\ request'[r].pc = "idle"
         /\ client' \in [Clients -> ClientType]
         /\ \A d \in Clients : /\ client'[d].health = client[d].health
                               /\ client'[d].stop = client[d].stop /\ client'[d].hard = client[d].hard
         /\ \A d \in Clients : d # current => client'[d].queue = client[d].queue
         /\ current # None => client'[current].queue =
              IF Receives(current) THEN Append(client[current].queue, m) ELSE client[current].queue
<1>. DEFINE m == <<request[r].user, request[r].version>>
<1>0. /\ client \in [Clients -> ClientType] /\ current \in Clients \cup {None}
      /\ request \in [Requests -> [pc: {"idle", "send"}, user: Users \cup {None}, version: 0..MaxChanges]]
      /\ version \in [Users -> 0..MaxChanges] /\ MaxChanges \in Nat
  BY BaseTypes DEF Base, PanelNodeTypeOK
<1>1. request[r].user \in Users /\ request[r].version \in 1..version[request[r].user]
  BY DEF SendUser, Base, BehindOK
<1>2. m \in Users \X (1..MaxChanges) /\ m[2] <= version[m[1]]
  BY <1>0, <1>1
<1>3. /\ request' \in [Requests -> [pc: {"idle", "send"}, user: Users \cup {None}, version: 0..MaxChanges]]
      /\ \A s \in Requests : s # r => request'[s] = request[s]
      /\ request'[r].pc = "idle"
  <2>1. IdleRequest \in [pc: {"idle", "send"}, user: Users \cup {None}, version: 0..MaxChanges]
        /\ IdleRequest.pc = "idle"
    BY <1>0 DEF IdleRequest
  <2>. QED
    BY <1>0, <2>1 DEF SendUser
<1>. HIDE DEF m
<1>4. CASE current # None /\ Receives(current)
  <2>. DEFINE q == Append(client[current].queue, m)
              x == [client[current] EXCEPT !.queue = q]
  <2>1. client' = [client EXCEPT ![current].queue = q]
    BY <1>4 DEF SendUser, m
  <2>2. q \in QueueType
    <3>1. client[current].queue \in QueueType
      BY <1>0, <1>4 DEF ClientType, QueueType
    <3>. QED
      BY <1>2, <3>1 DEF QueueType
  <2>. HIDE DEF q
  <2>3. /\ x \in ClientType /\ x.queue = q /\ x.health = client[current].health
        /\ x.stop = client[current].stop /\ x.hard = client[current].hard
    BY <1>0, <1>4, <2>2 DEF ClientType, QueueType
  <2>4. client' = [client EXCEPT ![current] = x]
    BY <1>0, <1>4, <2>1
  <2>5. q = Append(client[current].queue, m)
    BY DEF q
  <2>. HIDE DEF x
  <2>. QED
    BY <1>0, <1>2, <1>3, <1>4, <2>3, <2>4, <2>5 DEF m
<1>5. CASE ~ (current # None /\ Receives(current))
  BY <1>0, <1>2, <1>3, <1>5 DEF SendUser, m
<1>. QED
  BY <1>4, <1>5

LEMMA QueueAppend ==
  ASSUME NEW q \in QueueType, NEW m \in Users \X (1..MaxChanges)
  PROVE  /\ Append(q, m) # <<>>
         /\ \A i \in DOMAIN Append(q, m) : \/ i \in DOMAIN q /\ i < Len(q) + 1 /\ Append(q, m)[i] = q[i]
                                           \/ i = Len(q) + 1 /\ Append(q, m)[i] = m
         /\ Len(q) + 1 \in DOMAIN Append(q, m) /\ Append(q, m)[Len(q) + 1] = m
         /\ \A i \in DOMAIN q : i \in DOMAIN Append(q, m) /\ Append(q, m)[i] = q[i] /\ i \in Nat
<1>. DEFINE S == Users \X (1..MaxChanges)
<1>1. q \in Seq(S) /\ m \in S
  BY DEF QueueType
<1>. HIDE DEF S
<1>. QED
  BY <1>1

LEMMA ChangeFacts ==
  ASSUME Base, NEW r \in Requests, NEW u \in Users, ChangeUser(r, u)
  PROVE  /\ version' \in [Users -> 0..MaxChanges] /\ changes' \in 0..MaxChanges
         /\ version'[u] = version[u] + 1 /\ \A w \in Users : w # u => version'[w] = version[w]
         /\ \A w \in Users : version[w] <= version'[w] /\ version'[w] <= changes'
         /\ request' \in [Requests -> [pc: {"idle", "send"}, user: Users \cup {None}, version: 0..MaxChanges]]
         /\ \A s \in Requests : s # r => request'[s] = request[s]
         /\ request'[r].pc = "send" /\ request'[r].user = u /\ request'[r].version = version[u] + 1
<1>0. /\ request \in [Requests -> [pc: {"idle", "send"}, user: Users \cup {None}, version: 0..MaxChanges]]
      /\ version \in [Users -> 0..MaxChanges] /\ MaxChanges \in Nat /\ changes \in 0..MaxChanges
      /\ \A w \in Users : version[w] <= changes
  BY BaseTypes DEF Base, PanelNodeTypeOK, BehindOK
<1>1. changes < MaxChanges /\ changes' = changes + 1 /\ version' = [version EXCEPT ![u] = @ + 1]
  BY DEF ChangeUser
<1>2. version[u] + 1 \in 0..MaxChanges
  BY <1>0, <1>1
<1>3. [pc |-> "send", user |-> u, version |-> version[u] + 1]
        \in [pc: {"idle", "send"}, user: Users \cup {None}, version: 0..MaxChanges]
  BY <1>2
<1>4. request' = [request EXCEPT ![r] = [pc |-> "send", user |-> u, version |-> version[u] + 1]]
  BY DEF ChangeUser
<1>5. /\ version' \in [Users -> 0..MaxChanges] /\ changes' \in 0..MaxChanges
      /\ version'[u] = version[u] + 1 /\ \A w \in Users : w # u => version'[w] = version[w]
      /\ \A w \in Users : version[w] <= version'[w] /\ version'[w] <= changes'
  BY <1>0, <1>1, <1>2
<1>6. /\ request' \in [Requests -> [pc: {"idle", "send"}, user: Users \cup {None}, version: 0..MaxChanges]]
      /\ \A s \in Requests : s # r => request'[s] = request[s]
      /\ request'[r] = [pc |-> "send", user |-> u, version |-> version[u] + 1]
  BY <1>0, <1>3, <1>4
<1>. QED
  BY <1>5, <1>6

\* Shutting a client down.
LEMMA InvalidateFacts ==
  ASSUME Base, NEW c \in Clients, Invalidate(c)
  PROVE  /\ c # current /\ client' \in [Clients -> ClientType]
         /\ client'[c].queue = <<>> /\ client'[c].stop = "sent"
         /\ \A d \in Clients : d # c => client'[d] = client[d]
<1>1. c # current
  BY BaseTypes DEF Invalidate, Base, ClientsOK
<1>. QED
  BY <1>1, BaseTypes, Fresh DEF Invalidate, Base

LEMMA StopFacts ==
  ASSUME Base, NEW c \in Clients, StopLands(c)
  PROVE  /\ c # current /\ client' \in [Clients -> ClientType]
         /\ client[c].queue = <<>> /\ client'[c].queue = <<>> /\ client'[c].stop = "no"
         /\ \A d \in Clients : d # c => client'[d] = client[d]
         /\ node' \in [up: BOOLEAN, users: [Users -> 0..MaxChanges]] /\ node'.users = node.users
         /\ ~ node'.up \/ (node' = node /\ faults' = faults + 1)
         /\ faults' \in 0..MaxFaults /\ events' \in 0..MaxEvents
<1>0. client \in [Clients -> ClientType] /\ current \in Clients \cup {None}
      /\ node \in [up: BOOLEAN, users: [Users -> 0..MaxChanges]]
      /\ faults \in 0..MaxFaults /\ events \in 0..MaxEvents /\ MaxFaults \in Nat /\ MaxEvents \in Nat
  BY BaseTypes, PanelNodeAssumption DEF Base, PanelNodeTypeOK
<1>1. c # current /\ client[c].queue = <<>>
  BY <1>0, BaseTypes DEF StopLands, Base, ClientsOK
<1>2. /\ client' \in [Clients -> ClientType]
      /\ client'[c].queue = client[c].queue /\ client'[c].stop = "no"
      /\ \A d \in Clients : d # c => client'[d] = client[d]
  <2>. DEFINE x == [client[c] EXCEPT !.stop = "no"]
  <2>1. x \in ClientType /\ x.queue = client[c].queue /\ x.stop = "no"
    BY <1>0 DEF ClientType
  <2>2. client' = [client EXCEPT ![c] = x]
    BY <1>0 DEF StopLands
  <2>. HIDE DEF x
  <2>. QED
    BY <1>0, <2>1, <2>2
<1>3. /\ node' \in [up: BOOLEAN, users: [Users -> 0..MaxChanges]] /\ node'.users = node.users
      /\ ~ node'.up \/ (node' = node /\ faults' = faults + 1)
      /\ faults' \in 0..MaxFaults /\ events' \in 0..MaxEvents
  <2>1. CASE node' = [node EXCEPT !.up = FALSE] /\ UNCHANGED <<faults, events>>
    BY <1>0, <2>1
  <2>2. CASE Fault /\ UNCHANGED node
    BY <1>0, <2>2 DEF Fault, Op
  <2>. QED
    BY <2>1, <2>2 DEF StopLands
<1>. QED
  BY <1>1, <1>2, <1>3

LEMMA UsersBase ==
  ASSUME Base,
         \/ \E c \in Clients : Invalidate(c) \/ StopLands(c) \/ Deliver(c) \/ Lose(c)
         \/ \E r \in Requests : SendUser(r) \/ \E u \in Users : ChangeUser(r, u)
         \/ Crash
  PROVE  Base'
<1>0. /\ client \in [Clients -> ClientType] /\ current \in Clients \cup {None} /\ None \notin Clients
      /\ node \in [up: BOOLEAN, users: [Users -> 0..MaxChanges]]
      /\ version \in [Users -> 0..MaxChanges] /\ DOMAIN <<>> = {}
      /\ \A u \in Users : node.users[u] <= version[u]
      /\ faults \in 0..MaxFaults /\ events \in 0..MaxEvents /\ MaxFaults \in Nat /\ MaxEvents \in Nat
  BY BaseTypes, PanelNodeAssumption DEF Base, PanelNodeTypeOK, BehindOK
<1>1. ASSUME client' \in [Clients -> ClientType],
             current # None => client'[current].stop = "no" /\ client'[current].health # "invalid",
             \A d \in Clients : d # current /\ client'[d].queue # <<>> => client'[d].stop = "due",
             \A d \in Clients : \A i \in DOMAIN client'[d].queue :
               client'[d].queue[i][2] <= version[client'[d].queue[i][1]],
             node' \in [up: BOOLEAN, users: [Users -> 0..MaxChanges]],
             \A u \in Users : node'.users[u] <= version[u],
             request' \in [Requests -> [pc: {"idle", "send"}, user: Users \cup {None}, version: 0..MaxChanges]],
             \A r \in Requests : request'[r].pc = "send" => request'[r] = request[r],
             faults' \in 0..MaxFaults, events' \in 0..MaxEvents,
             UNCHANGED <<db, current, work, alone, calm, changes>>
      PROVE  Base'
  <2>1. PanelNodeTypeOK'
    BY <1>1 DEF Base, PanelNodeTypeOK, ClientType, db, work
  <2>2. BehindOK'
    BY <1>1 DEF Base, BehindOK, db, work
  <2>3. ClientsOK'
    BY <1>1 DEF Base, ClientsOK, work
  <2>. QED
    BY <2>1, <2>2, <2>3 DEF Base
<1>2. request \in [Requests -> [pc: {"idle", "send"}, user: Users \cup {None}, version: 0..MaxChanges]]
  BY DEF Base, PanelNodeTypeOK
<1>3. Fault => faults' \in 0..MaxFaults /\ events' \in 0..MaxEvents
  BY <1>0 DEF Fault, Op
<1>4. ASSUME NEW c \in Clients, client' \in [Clients -> ClientType], c # current, client'[c].queue = <<>>,
             \A d \in Clients : d # c => client'[d] = client[d]
      PROVE  /\ current # None => client'[current].stop = "no" /\ client'[current].health # "invalid"
             /\ \A d \in Clients : d # current /\ client'[d].queue # <<>> => client'[d].stop = "due"
             /\ \A d \in Clients : \A i \in DOMAIN client'[d].queue :
                  client'[d].queue[i][2] <= version[client'[d].queue[i][1]]
  BY <1>0, <1>4 DEF Base, BehindOK, ClientsOK
<1>5. ASSUME NEW c \in Clients, Invalidate(c) PROVE Base'
  BY <1>0, <1>1, <1>2, <1>4, <1>5, InvalidateFacts DEF Invalidate, bounds
<1>6. ASSUME NEW c \in Clients, StopLands(c) PROVE Base'
  <2>1. \A u \in Users : node'.users[u] <= version[u]
    BY <1>0, <1>6, StopFacts
  <2>. QED
    BY <1>0, <1>1, <1>2, <1>4, <1>6, <2>1, StopFacts DEF StopLands
<1>7. ASSUME NEW c \in Clients, Deliver(c) PROVE Base'
  <2>1. \A u \in Users : node'.users[u] <= version[u]
    <3>1. client[c].queue[1][2] <= version[client[c].queue[1][1]]
      <4>1. client[c].queue \in QueueType /\ client[c].queue # <<>>
        BY <1>0, <1>7 DEF Deliver, QueueType, ClientType
      <4>. QED
        BY <4>1, QueueTail DEF Base, BehindOK
    <3>. QED
      BY <1>0, <1>7, <3>1, DeliverFacts
  <2>2. /\ client[c].hard \in BOOLEAN
        /\ client' = [client EXCEPT ![c].queue = Tail(@), ![c].hard = client[c].hard]
        /\ node' \in [up: BOOLEAN, users: [Users -> 0..MaxChanges]]
    BY <1>7, DeliverFacts
  <2>3. /\ client[c].queue # <<>>
        /\ UNCHANGED <<db, current, work, request, alone, calm, bounds>>
    BY <1>7 DEF Deliver
  <2>. QED
    BY <1>0, <1>1, <1>2, <2>1, <2>2, <2>3, TakeFacts DEF bounds
<1>8. ASSUME NEW c \in Clients, Lose(c) PROVE Base'
  <2>1. /\ client[c].queue # <<>> /\ TRUE \in BOOLEAN /\ UNCHANGED <<db, current, node, work, request, alone, calm, changes>>
        /\ client' = [client EXCEPT ![c].queue = Tail(@), ![c].hard = TRUE]
    BY <1>8 DEF Lose
  <2>2. faults' \in 0..MaxFaults /\ events' \in 0..MaxEvents
    BY <1>0, <1>3, <1>8 DEF Lose
  <2>. QED
    BY <1>0, <1>1, <1>2, <2>1, <2>2, TakeFacts
<1>9. ASSUME NEW r \in Requests, SendUser(r) PROVE Base'
  <2>. DEFINE m == <<request[r].user, request[r].version>>
  <2>1. \A d \in Clients : \A i \in DOMAIN client'[d].queue :
          client'[d].queue[i][2] <= version[client'[d].queue[i][1]]
    <3>1. ASSUME NEW d \in Clients, NEW i \in DOMAIN client'[d].queue
          PROVE  client'[d].queue[i][2] <= version[client'[d].queue[i][1]]
      <4>1. client[d].queue \in QueueType /\ m \in Users \X (1..MaxChanges) /\ m[2] <= version[m[1]]
        BY <1>0, <1>9, SendFacts DEF ClientType, QueueType
      <4>2. client'[d].queue \in {client[d].queue, Append(client[d].queue, m)}
        BY <1>0, <1>9, SendFacts
      <4>3. \A j \in DOMAIN client[d].queue : client[d].queue[j][2] <= version[client[d].queue[j][1]]
        BY DEF Base, BehindOK
      <4>. HIDE DEF m
      <4>4. CASE client'[d].queue = client[d].queue
        BY <3>1, <4>3, <4>4
      <4>5. CASE client'[d].queue = Append(client[d].queue, m)
        <5>1. \/ i \in DOMAIN client[d].queue /\ client'[d].queue[i] = client[d].queue[i]
              \/ client'[d].queue[i] = m
          BY <3>1, <4>1, <4>5, QueueAppend
        <5>. QED
          BY <4>1, <4>3, <5>1
      <4>. QED
        BY <4>2, <4>4, <4>5
    <3>. QED
      BY <3>1
  <2>2. /\ current # None => client'[current].stop = "no" /\ client'[current].health # "invalid"
        /\ \A d \in Clients : d # current /\ client'[d].queue # <<>> => client'[d].stop = "due"
        /\ client' \in [Clients -> ClientType]
    BY <1>0, <1>9, SendFacts DEF Base, ClientsOK
  <2>3. /\ request' \in [Requests -> [pc: {"idle", "send"}, user: Users \cup {None}, version: 0..MaxChanges]]
        /\ \A s \in Requests : request'[s].pc = "send" => request'[s] = request[s]
    BY <1>9, SendFacts
  <2>4. UNCHANGED <<db, current, node, work, alone, calm, bounds>>
    BY <1>9 DEF SendUser
  <2>. QED
    BY <1>0, <1>1, <2>1, <2>2, <2>3, <2>4 DEF bounds
<1>10. ASSUME NEW r \in Requests, NEW u \in Users, ChangeUser(r, u) PROVE Base'
  <2>1. /\ version' \in [Users -> 0..MaxChanges] /\ changes' \in 0..MaxChanges
        /\ request' \in [Requests -> [pc: {"idle", "send"}, user: Users \cup {None}, version: 0..MaxChanges]]
        /\ \A w \in Users : version[w] <= version'[w] /\ version'[w] <= changes'
    BY <1>10, ChangeFacts
  <2>2. events' \in 0..MaxEvents /\ calm' \in BOOLEAN
        /\ UNCHANGED <<status, over, current, client, node, work, alone, faults>>
    BY <1>0, <1>10 DEF ChangeUser, Op, Base, PanelNodeTypeOK
  <2>3. PanelNodeTypeOK'
    <3>1. /\ version' \in [Users -> 0..MaxChanges] /\ changes' \in 0..MaxChanges
          /\ request' \in [Requests -> [pc: {"idle", "send"}, user: Users \cup {None}, version: 0..MaxChanges]]
      BY <2>1
    <3>2. faults' \in 0..MaxFaults
      BY <1>0, <2>2
    <3>3. /\ status' \in Active \cup Stopped /\ over' \in BOOLEAN /\ current' \in Clients \cup {None}
          /\ client' \in [Clients -> ClientType] /\ attempt' \in [Slots -> AttemptType]
          /\ node' \in [up: BOOLEAN, users: [Users -> 0..MaxChanges]]
      BY <2>2, BaseTypes DEF Base, PanelNodeTypeOK, work
    <3>4. /\ checker' \in CheckerType /\ limiter' \in {"idle", "disconnect", "limit"}
          /\ admin' \in AdminType /\ alone' \in BOOLEAN /\ calm' \in BOOLEAN /\ events' \in 0..MaxEvents
      BY <2>2 DEF Base, PanelNodeTypeOK, work, CheckerType, AdminType
    <3>. QED
      BY <3>1, <3>2, <3>3, <3>4 DEF PanelNodeTypeOK, ClientType, AttemptType, CheckerType, AdminType
  <2>4. ClientsOK'
    BY <2>2 DEF Base, ClientsOK, work
  <2>5. /\ \A w \in Users : version'[w] <= changes' /\ node'.users[w] <= version'[w]
        /\ \A a \in Slots, w \in Users : attempt'[a].users[w] <= version'[w]
    <3>1. \A a \in Slots, w \in Users : attempt[a].users[w] \in Nat
      BY BaseTypes DEF Base, AttemptType
    <3>. QED
      BY <1>0, <2>1, <2>2, <3>1 DEF Base, BehindOK, work
  <2>6. \A s \in Requests : request'[s].pc = "send" =>
          request'[s].user \in Users /\ request'[s].version \in 1..version'[request'[s].user]
    <3>1. \A s \in Requests : s # r => request'[s] = request[s]
      BY <1>10, ChangeFacts
    <3>2. request'[r].user = u /\ request'[r].version = version[u] + 1 /\ version'[u] = version[u] + 1
      BY <1>10, ChangeFacts
    <3>. QED
      BY <1>0, <2>1, <3>1, <3>2 DEF Base, BehindOK
  <2>7. \A c \in Clients : \A i \in DOMAIN client'[c].queue :
          client'[c].queue[i][2] <= version'[client'[c].queue[i][1]]
    <3>1. ASSUME NEW c \in Clients, NEW i \in DOMAIN client[c].queue
          PROVE  client[c].queue[i][2] <= version'[client[c].queue[i][1]]
      <4>1. client[c].queue[i] \in Users \X (1..MaxChanges)
        BY <1>0 DEF ClientType
      <4>2. client[c].queue[i][1] \in Users /\ client[c].queue[i][2] \in Nat
            /\ client[c].queue[i][2] <= version[client[c].queue[i][1]]
        BY <4>1 DEF Base, BehindOK
      <4>. QED
        BY <1>0, <2>1, <4>2
    <3>. QED
      BY <2>2, <3>1
  <2>. QED
    BY <2>3, <2>4, <2>5, <2>6, <2>7 DEF Base, BehindOK
<1>11. CASE Crash
  <2>1. /\ node' \in [up: BOOLEAN, users: [Users -> 0..MaxChanges]] /\ node'.users = node.users
        /\ faults' \in 0..MaxFaults /\ events' \in 0..MaxEvents
        /\ UNCHANGED <<db, current, client, work, request, alone, calm, changes>>
    BY <1>0, <1>3, <1>11 DEF Crash
  <2>2. PanelNodeTypeOK'
    BY <2>1 DEF Base, PanelNodeTypeOK, db, work
  <2>. QED
    BY <2>1, <2>2 DEF Base, BehindOK, ClientsOK, db, work
<1>. QED
  BY <1>5, <1>6, <1>7, <1>8, <1>9, <1>10, <1>11

LEMMA BaseNext == ASSUME Base, [PanelNodeNext]_nodeVars PROVE Base'
<1>1. CASE UNCHANGED nodeVars
  BY <1>1 DEF nodeVars, db, work, bounds, Base, PanelNodeTypeOK, BehindOK, ClientsOK
<1>. QED
  BY <1>1, AttemptBase, CheckerBase, JobsBase, UsersBase DEF PanelNodeNext

-----------------------------------------------------------------------------
(* One at a time.                                                          *)

\* Where an attempt goes.
LEMMA AttemptPath ==
  ASSUME Base, NEW a \in Slots, Attempt(a) \/ StartFails(a)
  PROVE  /\ \A b \in Slots : b # a => attempt'[b] = attempt[b]
         /\ UNCHANGED <<over, version, checker, limiter, admin, request, alone, changes>>
         /\ \/ /\ attempt[a].pc = "read" /\ UNCHANGED <<status, current, client, node, calm, faults>>
               /\ attempt'[a].pc = "idle" \/ (attempt'[a].pc = "users" /\ status \notin Stopped)
            \/ /\ attempt[a].pc = "users" /\ UNCHANGED <<status, current, client, node, calm, faults>>
               /\ attempt'[a].pc = "install" /\ attempt'[a].users = version
            \/ /\ attempt[a].pc = "install" /\ UNCHANGED <<status, node, calm, faults>> /\ Install
               /\ attempt'[a].pc = "wait" /\ attempt'[a].users = attempt[a].users
            \/ /\ attempt[a].pc = "wait" /\ UNCHANGED <<status, current, client, node, calm, faults>>
               /\ attempt'[a].pc = "get" /\ attempt'[a].users = attempt[a].users
            \/ /\ attempt[a].pc = "get" /\ UNCHANGED <<status, current, client, node, calm, faults>>
               /\ \/ attempt'[a].pc = "idle"
                  \/ attempt'[a].pc = "start" /\ current # None /\ attempt'[a].users = attempt[a].users
            \/ /\ attempt[a].pc = "start" /\ UNCHANGED <<status, current>>
               /\ \/ attempt'[a].pc = "idle" /\ UNCHANGED <<client, node, calm, faults>>
                  \/ StartNode(a) /\ attempt'[a].pc = "started"
                  \/ StartFails(a) /\ attempt'[a].pc = "failed"
            \/ /\ attempt[a].pc \in {"started", "failed"} /\ attempt'[a].pc = "idle"
               /\ UNCHANGED <<current, client, node, calm, faults>>
               /\ Write("connected") \/ Write("error")
<1>0. attempt \in [Slots -> AttemptType] /\ IdleAttempt.pc = "idle"
  BY BaseTypes, IdleTypes DEF Base
<1>1. CASE ReadRow(a)
  BY <1>0, <1>1 DEF ReadRow, Step, End, db, bounds, Startable, AttemptType
<1>2. CASE LoadUsers(a)
  BY <1>0, <1>2 DEF LoadUsers, CoreUsers, db, bounds, AttemptType
<1>3. CASE InstallClient(a)
  BY <1>0, <1>3 DEF InstallClient, db, bounds, AttemptType
<1>4. CASE OldStopped(a)
  BY <1>0, <1>4 DEF OldStopped, db, bounds, AttemptType
<1>5. CASE GetClient(a)
  BY <1>0, <1>5 DEF GetClient, End, db, bounds, AttemptType
<1>6. CASE StartNode(a)
  <2>1. [IdleAttempt EXCEPT !.pc = "started"].pc = "started"
    BY IdleTypes
  <2>. QED
    BY <1>0, <1>6, <2>1 DEF StartNode, db, bounds
<1>7. CASE StartFails(a)
  <2>1. [IdleAttempt EXCEPT !.pc = "failed"].pc = "failed"
    BY IdleTypes
  <2>. QED
    BY <1>0, <1>7, <2>1 DEF StartFails, db
<1>8. CASE StartRefused(a)
  BY <1>0, <1>8 DEF StartRefused, End, db, bounds
<1>9. CASE Record(a)
  BY <1>0, <1>9 DEF Record, End, bounds
<1>. QED
  BY <1>1, <1>2, <1>3, <1>4, <1>5, <1>6, <1>7, <1>8, <1>9 DEF Attempt

\* What a start leaves of the clients.
LEMMA StartFacts ==
  ASSUME Base, NEW a \in Slots, StartNode(a) \/ StartFails(a)
  PROVE  /\ attempt[a].client \in Clients
         /\ \A d \in Clients : client'[d].queue = client[d].queue /\ client'[d].stop = client[d].stop
         /\ \A d \in Clients : d # attempt[a].client => client'[d] = client[d]
         /\ client'[attempt[a].client].health = IF StartNode(a) THEN "healthy" ELSE "not_connected"
         /\ StartNode(a) => ~ client'[attempt[a].client].hard
         /\ StartFails(a) => faults' = faults + 1 /\ attempt'[a].pc = "failed"
         /\ StartNode(a) => attempt'[a].pc = "started" /\ UNCHANGED faults
<1>0. attempt \in [Slots -> AttemptType] /\ client \in [Clients -> ClientType]
  BY BaseTypes DEF Base
<1>1. attempt[a].client \in Clients /\ attempt[a].pc = "start" /\ client[attempt[a].client].health # "invalid"
  BY DEF StartNode, StartFails, Base, ClientsOK
<1>2. \A pc \in {"started", "failed"} : [IdleAttempt EXCEPT !.pc = pc].pc = pc
  BY IdleTypes
<1>3. StartNode(a) => attempt'[a].pc = "started" /\ UNCHANGED faults
  BY <1>0, <1>2 DEF StartNode, bounds
<1>4. StartFails(a) => attempt'[a].pc = "failed" /\ faults' = faults + 1
  BY <1>0, <1>2 DEF StartFails, Fault
<1>5. StartNode(a) => /\ client' = [client EXCEPT ![attempt[a].client].health = "healthy",
                                                  ![attempt[a].client].hard = FALSE]
                      /\ FALSE \in BOOLEAN
  BY DEF StartNode
<1>6. /\ client[attempt[a].client].hard \in BOOLEAN
      /\ StartFails(a) => client' = [client EXCEPT ![attempt[a].client].health = "not_connected",
                                                   ![attempt[a].client].hard = client[attempt[a].client].hard]
  BY <1>0, <1>1 DEF StartFails, ClientType
<1>7. StartFails(a) => ~ StartNode(a)
  BY <1>3, <1>4
<1>. QED
  BY <1>1, <1>3, <1>4, <1>5, <1>6, <1>7, HealthPut

LEMMA AloneAttempt ==
  ASSUME Base, AloneOK, NEW a \in Slots, Attempt(a) \/ StartFails(a)
  PROVE  AloneOK'
<1>. SUFFICES ASSUME alone' PROVE /\ OneAtATime'
                                  /\ NotStopped' => status' \in Active
                                  /\ (\E b \in Slots : attempt'[b].pc \in {"wait", "get", "start"}) => current' # None
                                  /\ limiter' = "limit" \/ admin'.pc = "delete" => current' = None
                                  /\ status' \in Stopped /\ admin'.pc # "disconnect" => current' = None
                                  /\ node'.up /\ faults' = 0 =>
                                       current' # None \/ \E c \in Clients : client'[c].stop # "no"
  BY DEF AloneOK
<1>0. /\ \A b \in Slots : b # a => attempt'[b] = attempt[b]
      /\ UNCHANGED <<checker, limiter, admin>> /\ alone
  BY AttemptPath
<1>1. attempt[a].pc # "idle" /\ Busy
  BY AttemptPath DEF Busy
<1>2. /\ admin.pc = "idle" /\ limiter = "idle" /\ ~ Stopping
      /\ NotStopped => status \in Active
      /\ (\E b \in Slots : attempt[b].pc \in {"wait", "get", "start"}) => current # None
      /\ status \in Stopped => current = None
      /\ node.up /\ faults = 0 => current # None \/ \E c \in Clients : client[c].stop # "no"
  BY <1>0, <1>1 DEF AloneOK, OneAtATime, Stopping
<1>3. OneAtATime'
  BY <1>0, <1>2 DEF OneAtATime, Stopping
<1>4. attempt[a].pc # "read" => status \in Active
  BY <1>1, <1>2 DEF NotStopped
<1>5. status' = status \/ (status \in Active /\ status' \in Active)
  BY <1>4, AttemptPath DEF Write, Active
<1>6. NotStopped' => status' \in Active
  <2>1. ASSUME NotStopped' PROVE NotStopped \/ status' \in Active
    <3>1. CASE attempt[a].pc = "read"
      <4>1. status' = status /\ status \in Active \cup Stopped
        BY <3>1, AttemptPath DEF Base, PanelNodeTypeOK
      <4>. QED
        BY <1>0, <2>1, <3>1, <4>1, AttemptPath DEF NotStopped
    <3>2. CASE attempt[a].pc # "read"
      BY <1>1, <3>2 DEF NotStopped
    <3>. QED
      BY <3>1, <3>2
  <2>. QED
    BY <1>2, <1>5, <2>1
<1>7. current' = current \/ (status \in Active /\ current' # None /\ status' = status /\ Install)
  BY <1>4, AttemptPath, InstallFacts
<1>8. (\E b \in Slots : attempt'[b].pc \in {"wait", "get", "start"}) => current' # None
  <2>1. attempt'[a].pc \in {"wait", "get", "start"} => current' # None \/ attempt[a].pc \in {"wait", "get"}
    BY AttemptPath, InstallFacts
  <2>. QED
    BY <1>0, <1>2, <1>7, <2>1
<1>9. status' \in Stopped => current' = None
  BY <1>2, <1>5, <1>7 DEF Active, Stopped
<1>10. node'.up /\ faults' = 0 => current' # None \/ \E c \in Clients : client'[c].stop # "no"
  <2>1. CASE UNCHANGED <<node, faults, client>>
    BY <1>2, <1>7, <2>1
  <2>2. CASE Install
    BY <2>2, InstallFacts
  <2>3. CASE StartNode(a) \/ StartFails(a)
    <3>1. attempt[a].pc = "start" /\ current' = current
      BY <2>3 DEF StartNode, StartFails
    <3>. QED
      BY <1>2, <3>1
  <2>. QED
    BY <2>1, <2>2, <2>3, AttemptPath
<1>. QED
  BY <1>0, <1>2, <1>3, <1>6, <1>8, <1>9, <1>10

LEMMA AloneChecker == ASSUME Base, AloneOK, Checker PROVE AloneOK'
<1>. SUFFICES ASSUME alone' PROVE AloneOK'
  BY DEF AloneOK
<1>0. /\ attempt \in [Slots -> AttemptType] /\ checker \in CheckerType /\ HealthCheck \in Slots
      /\ client \in [Clients -> ClientType] /\ status \in Active \cup Stopped
      /\ IdleChecker.pc = "idle" /\ \A pc \in {"find", "connect"} : [IdleChecker EXCEPT !.pc = pc].pc = pc
  BY BaseTypes, IdleTypes DEF Base, Slots, IdleChecker
<1>1. /\ UNCHANGED <<current, node, limiter, admin>> /\ alone /\ ~ Stopping
      /\ faults' \in {faults, faults + 1}
  <2>1. UNCHANGED <<current, node, limiter, admin>> /\ alone /\ faults' \in {faults, faults + 1}
    BY DEF Checker, Check, FindClient, GetHealth, StatsOk, StatsFail, RecordError, RecordRecovery,
       Reconnected, Fault, bounds, Reconnect
  <2>2. CASE Check
    BY <2>1, <2>2 DEF Check
  <2>3. CASE ~ Check
    <3>1. checker.pc # "idle"
      BY <2>3 DEF Checker, FindClient, GetHealth, StatsOk, StatsFail, RecordError, RecordRecovery, Reconnected
    <3>. QED
      BY <2>1, <3>1 DEF AloneOK, OneAtATime, Busy
  <2>. QED
    BY <2>1, <2>2, <2>3
<1>2. \A d \in Clients : client'[d].stop = client[d].stop
  <2>1. ASSUME NEW h \in {"healthy", "broken"}, NEW d \in Clients, SetHealth(checker.client, h)
        PROVE  client'[d].stop = client[d].stop
    BY <1>0, <2>1 DEF SetHealth, ClientType
  <2>. QED
    BY <2>1 DEF Checker, Check, FindClient, GetHealth, StatsOk, StatsFail, RecordError, RecordRecovery,
       Reconnected, Reconnect
<1>3. attempt' = attempt \/ (Step(HealthCheck, "read") /\ checker'.pc = "connect")
  BY <1>0 DEF Checker, Check, FindClient, GetHealth, StatsOk, StatsFail, RecordError, RecordRecovery,
     Reconnected, Reconnect, Step
<1>4. \A b \in Slots : attempt'[b].pc \notin {"idle", "read"} => attempt'[b].pc = attempt[b].pc
  BY <1>0, <1>3 DEF Step, AttemptType
<1>5. checker'.pc \notin {"idle", "connect"} => status \in Active
  <2>1. CASE Check
    BY <2>1 DEF Check
  <2>2. CASE ~ Check
    <3>1. checker'.pc \notin {"idle", "connect"} => checker.pc \notin {"idle", "connect"}
      BY <1>0, <2>2 DEF Checker, FindClient, GetHealth, StatsOk, StatsFail, RecordError, RecordRecovery,
         Reconnected, Reconnect
    <3>. QED
      BY <1>1, <3>1 DEF AloneOK, NotStopped
  <2>. QED
    BY <2>1, <2>2
<1>6. status' = status \/ (status \in Active /\ status' \in Active)
  <2>1. CASE RecordError \/ RecordRecovery
    <3>1. status \in Active
      BY <1>1, <2>1 DEF RecordError, RecordRecovery, AloneOK, NotStopped
    <3>. QED
      BY <2>1, <3>1 DEF RecordError, RecordRecovery, Write, Active
  <2>. QED
    BY <2>1 DEF Checker, Check, FindClient, GetHealth, StatsOk, StatsFail, Reconnected, db
<1>7. OneAtATime'
  BY <1>1 DEF OneAtATime, Stopping
<1>8. NotStopped' => status' \in Active
  BY <1>1, <1>4, <1>5, <1>6 DEF AloneOK, NotStopped
<1>9. faults \in Nat /\ (faults' = 0 => faults = 0)
  BY <1>1 DEF Base, PanelNodeTypeOK
<1>10. /\ (\E b \in Slots : attempt'[b].pc \in {"wait", "get", "start"}) => current # None
       /\ node.up /\ faults = 0 => current # None \/ \E c \in Clients : client'[c].stop # "no"
       /\ limiter = "limit" \/ admin.pc = "delete" => current = None
       /\ status' \in Stopped /\ admin.pc # "disconnect" => current = None
  BY <1>1, <1>2, <1>4, <1>6 DEF AloneOK, Active, Stopped
<1>. QED
  BY <1>1, <1>7, <1>8, <1>9, <1>10 DEF AloneOK

LEMMA AloneJobs ==
  ASSUME Base, AloneOK,
         \/ Jobs \/ Traffic \/ Delete \/ ResetUsage \/ Restart
         \/ \E asked \in {"same", "disabled", "connecting"} : Modify(asked)
  PROVE  AloneOK'
<1>. SUFFICES ASSUME alone' PROVE AloneOK'
  BY DEF AloneOK
<1>0. /\ admin \in AdminType /\ limiter \in {"idle", "disconnect", "limit"}
      /\ status \in Active \cup Stopped /\ alone \in BOOLEAN
      /\ \A pc \in {"idle", "disconnect", "install", "drop", "delete"} : [admin EXCEPT !.pc = pc].pc = pc
  BY DEF Base, PanelNodeTypeOK, AdminType
<1>1. alone /\ UNCHANGED <<node, faults, checker>>
  BY <1>0 DEF Jobs, Traffic, Delete, ResetUsage, Restart, Modify, Request, FindOverLimit, DisconnectLimited,
     Limit, ModifyDisconnect, ModifyInstall, ModifyConnect, DeleteClient, DeleteRow, work, bounds
<1>2. /\ OneAtATime
      /\ NotStopped => status \in Active
      /\ (\E a \in Slots : attempt[a].pc \in {"wait", "get", "start"}) => current # None
      /\ limiter = "limit" \/ admin.pc = "delete" => current = None
      /\ status \in Stopped /\ admin.pc # "disconnect" => current = None
      /\ node.up /\ faults = 0 => current # None \/ \E c \in Clients : client[c].stop # "no"
  BY <1>1 DEF AloneOK
<1>3. Begin => /\ \A b \in Slots : attempt'[b].pc \notin {"idle", "read"} => attempt'[b].pc = attempt[b].pc
  BY BeginFacts
<1>4. ~ Busy => ~ \E a \in Slots : attempt[a].pc \in {"wait", "get", "start"}
  BY DEF Busy
\* Steps of who has the node for himself.
<1>5. CASE \/ DisconnectLimited \/ Limit \/ ModifyDisconnect \/ ModifyInstall \/ DeleteClient \/ DeleteRow
  <2>0. /\ UNCHANGED <<attempt, checker>> /\ ~ Busy
        /\ \/ limiter # "idle" /\ admin.pc = "idle" /\ admin' = admin /\ (DisconnectLimited \/ Limit)
           \/ admin.pc # "idle" /\ limiter = "idle" /\ limiter' = limiter
              /\ (ModifyDisconnect \/ ModifyInstall \/ DeleteClient \/ DeleteRow)
    BY <1>2, <1>5 DEF DisconnectLimited, Limit, ModifyDisconnect, ModifyInstall, DeleteClient, DeleteRow,
       OneAtATime, Stopping
  <2>1. ~ Busy' /\ OneAtATime'
    BY <2>0 DEF Busy, OneAtATime
  <2>2. /\ ~ \E a \in Slots : attempt'[a].pc \notin {"idle", "read"}
        /\ checker'.pc = "idle"
    BY <2>0 DEF Busy
  <2>3. Remove => /\ current' = None
                  /\ node'.up /\ faults' = 0 => \E c \in Clients : client'[c].stop # "no"
    <3>1. CASE current = None
      BY <1>1, <1>2, <3>1 DEF Remove, Due
    <3>2. CASE current # None
      BY <3>2, RemoveFacts, BaseTypes DEF Base
    <3>. QED
      BY <3>1, <3>2 DEF Remove
  <2>4. CASE DisconnectLimited
    <3>1. current' = None /\ limiter' = "limit" /\ status' = status /\ status \in Active
      BY <1>2, <2>0, <2>4 DEF DisconnectLimited, Remove, NotStopped, db
    <3>. QED
      BY <2>0, <2>1, <2>2, <2>3, <2>4, <3>1 DEF DisconnectLimited, AloneOK, NotStopped, Active, Stopped
  <2>5. CASE Limit
    <3>1. /\ current = None /\ limiter' = "idle" /\ current' = current /\ client' = client
          /\ limiter = "limit"
      BY <1>2, <2>5 DEF Limit
    <3>2. admin'.pc = "idle"
      BY <2>0, <3>1
    <3>. QED
      BY <1>1, <1>2, <2>1, <2>2, <3>1, <3>2 DEF AloneOK, NotStopped
  <2>6. CASE ModifyDisconnect
    <3>1. current' = None /\ admin'.pc = "idle" /\ limiter' = "idle"
      BY <1>0, <2>0, <2>6 DEF ModifyDisconnect, Remove
    <3>. QED
      BY <2>1, <2>2, <2>3, <2>6, <3>1 DEF AloneOK, NotStopped, ModifyDisconnect
  <2>7. CASE ModifyInstall
    <3>1. current' # None /\ admin'.pc = "wait" /\ limiter' = "idle" /\ status' = status
      BY <1>0, <2>0, <2>7, InstallFacts DEF ModifyInstall, db
    <3>2. status \in Active
      BY <1>2, <2>7 DEF ModifyInstall, NotStopped
    <3>. QED
      BY <2>1, <2>2, <3>1, <3>2 DEF AloneOK, Active, Stopped
  <2>8. CASE DeleteClient
    <3>1. current' = None /\ admin'.pc = "delete" /\ limiter' = "idle" /\ status' = status
      BY <1>0, <2>0, <2>8 DEF DeleteClient, Remove, db
    <3>. QED
      BY <2>1, <2>2, <2>3, <2>8, <3>1 DEF AloneOK, NotStopped, DeleteClient
  <2>9. CASE DeleteRow
    <3>1. current = None /\ current' = current /\ client' = client /\ admin'.pc = "idle" /\ limiter' = "idle"
      BY <1>0, <1>2, <2>0, <2>9 DEF DeleteRow
    <3>. QED
      BY <1>1, <1>2, <2>1, <2>2, <3>1 DEF AloneOK, NotStopped
  <2>. QED
    BY <1>5, <2>4, <2>5, <2>6, <2>7, <2>8, <2>9
<1>6. CASE FindOverLimit
  <2>1. /\ ~ Busy /\ ~ Stopping /\ status \in Active /\ limiter' = "disconnect"
        /\ UNCHANGED <<status, current, client, attempt, admin>>
    BY <1>6 DEF FindOverLimit, Limitable, db
  <2>2. ~ Busy' /\ OneAtATime' /\ admin'.pc = "idle"
    BY <1>1, <2>1 DEF Busy, OneAtATime, Stopping
  <2>. QED
    BY <1>1, <1>2, <2>1, <2>2 DEF AloneOK, Active, Stopped
<1>7. CASE ModifyConnect
  <2>1. /\ admin.pc = "wait" /\ admin'.pc = "idle" /\ limiter' = limiter /\ Begin
        /\ UNCHANGED <<status, current, client, node>>
    BY <1>7 DEF ModifyConnect, db
  <2>2. limiter = "idle" /\ ~ Busy /\ status \in Active
    BY <1>2, <2>1 DEF OneAtATime, Stopping, NotStopped
  <2>3. /\ \A b \in Slots : attempt'[b].pc \in {"idle", "read"}
        /\ checker'.pc = "idle" /\ ~ Stopping'
    BY <1>1, <1>3, <2>1, <2>2 DEF Busy, Stopping
  <2>. QED
    BY <1>1, <1>2, <2>1, <2>2, <2>3 DEF AloneOK, OneAtATime, Active, Stopped
<1>8. CASE Traffic
  BY <1>1, <1>2, <1>8 DEF Traffic, work, AloneOK, OneAtATime, Busy, Stopping, NotStopped
<1>9. ASSUME Request, attempt' = attempt \/ Begin, limiter' = limiter,
             UNCHANGED <<current, client>>, ~ (admin'.pc # "idle" /\ attempt' # attempt),
             admin'.pc \notin {"wait", "delete"}, admin'.pc = "install" => status' \in Active,
             status' \in Stopped /\ admin'.pc # "disconnect" => status' = status
      PROVE  AloneOK'
  <2>1. ~ Busy /\ limiter = "idle" /\ admin.pc = "idle"
    BY <1>9 DEF Request
  <2>2. /\ \A b \in Slots : attempt'[b].pc \in {"idle", "read"}
        /\ checker'.pc = "idle"
    BY <1>1, <1>3, <1>9, <2>1 DEF Busy
  <2>3. OneAtATime'
    BY <1>1, <1>9, <2>1 DEF OneAtATime, Stopping, Busy
  <2>. QED
    BY <1>1, <1>2, <1>9, <2>1, <2>2, <2>3 DEF AloneOK, NotStopped
<1>10. CASE Delete
  BY <1>0, <1>9, <1>10 DEF Delete, db
<1>11. CASE ResetUsage
  <2>1. Request /\ admin' = admin /\ UNCHANGED <<current, client, limiter>> /\ (attempt' = attempt \/ Begin)
        /\ (status' \in Stopped => status' = status)
    BY <1>11 DEF ResetUsage, Stopped
  <2>. QED
    BY <1>9, <2>1 DEF Request
<1>12. CASE Restart
  <2>1. /\ ~ Stopping /\ Begin /\ UNCHANGED <<status, current, client, limiter, admin>>
    BY <1>12 DEF Restart, db
  <2>2. OneAtATime' /\ limiter' = "idle" /\ admin'.pc = "idle"
    BY <2>1 DEF OneAtATime, Stopping
  <2>. QED
    BY <1>1, <1>2, <1>3, <2>1, <2>2 DEF AloneOK, NotStopped
<1>13. ASSUME NEW asked \in {"same", "disabled", "connecting"}, Modify(asked) PROVE AloneOK'
  <2>1. Modified(asked) \in Active \/ Modified(asked) \in Stopped
    BY DEF Modified, Active, Stopped
  <2>2. /\ admin'.pc = IF Modified(asked) \in Stopped THEN "disconnect" ELSE "install"
        /\ status' = Modified(asked) /\ Request /\ UNCHANGED <<current, client, limiter, attempt>>
    BY <1>0, <1>13 DEF Modify
  <2>. QED
    BY <1>9, <2>1, <2>2
<1>. QED
  BY <1>5, <1>6, <1>7, <1>8, <1>10, <1>11, <1>12, <1>13 DEF Jobs

LEMMA AloneUsers ==
  ASSUME Base, AloneOK,
         \/ \E c \in Clients : Invalidate(c) \/ StopLands(c) \/ Deliver(c) \/ Lose(c)
         \/ \E r \in Requests : SendUser(r) \/ \E u \in Users : ChangeUser(r, u)
         \/ Crash
  PROVE  AloneOK'
<1>0. /\ UNCHANGED <<status, current, work, alone>> /\ faults \in Nat
      /\ client \in [Clients -> ClientType]
  <2>1. UNCHANGED <<status, current, work, alone>>
    BY DEF Invalidate, StopLands, Deliver, Lose, SendUser, ChangeUser, Crash, db
  <2>2. faults \in Nat /\ client \in [Clients -> ClientType]
    BY BaseTypes DEF Base, PanelNodeTypeOK
  <2>. QED
    BY <2>1, <2>2
<1>1. ASSUME node'.up => node.up /\ (faults' = 0 => faults = 0),
             node'.up /\ faults' = 0 => \A c \in Clients : client[c].stop # "no" => client'[c].stop # "no"
      PROVE  AloneOK'
  BY <1>0, <1>1 DEF AloneOK, OneAtATime, Busy, Stopping, NotStopped, work
<1>2. ASSUME NEW c \in Clients, Invalidate(c) PROVE AloneOK'
  <2>1. \A d \in Clients : client[d].stop # "no" => client'[d].stop # "no"
    BY <1>2, InvalidateFacts
  <2>. QED
    BY <1>1, <1>2, <2>1 DEF Invalidate, bounds
<1>3. ASSUME NEW c \in Clients, StopLands(c) PROVE AloneOK'
  <2>1. node'.up => node' = node /\ faults' # 0
    BY <1>0, <1>3, StopFacts
  <2>. QED
    BY <1>1, <2>1
<1>4. ASSUME NEW c \in Clients, Deliver(c) PROVE AloneOK'
  <2>1. node'.up = node.up /\ faults' = faults
    BY <1>4, DeliverFacts DEF Deliver, bounds
  <2>2. \A d \in Clients : client'[d].stop = client[d].stop
    BY <1>4, DeliverFacts, TakeFacts
  <2>. QED
    BY <1>1, <2>1, <2>2
<1>5. ASSUME NEW c \in Clients, Lose(c) PROVE AloneOK'
  <2>1. node' = node /\ (faults' = 0 => faults = 0)
    BY <1>0, <1>5 DEF Lose, Fault
  <2>2. \A d \in Clients : client'[d].stop = client[d].stop
    <3>1. TRUE \in BOOLEAN
      OBVIOUS
    <3>. QED
      BY <1>5, <3>1, TakeFacts DEF Lose
  <2>. QED
    BY <1>1, <2>1, <2>2
<1>6. ASSUME NEW r \in Requests, SendUser(r) PROVE AloneOK'
  BY <1>1, <1>6, SendFacts DEF SendUser, bounds
<1>7. ASSUME NEW r \in Requests, NEW u \in Users, ChangeUser(r, u) PROVE AloneOK'
  BY <1>1, <1>7 DEF ChangeUser
<1>8. CASE Crash
  <2>1. node \in [up: BOOLEAN, users: [Users -> 0..MaxChanges]]
    BY DEF Base, PanelNodeTypeOK
  <2>2. ~ node'.up
    BY <1>8, <2>1 DEF Crash
  <2>. QED
    BY <1>1, <2>2
<1>. QED
  BY <1>2, <1>3, <1>4, <1>5, <1>6, <1>7, <1>8

LEMMA AloneNext == ASSUME Base, AloneOK, [PanelNodeNext]_nodeVars PROVE AloneOK'
<1>1. CASE UNCHANGED nodeVars
  BY <1>1 DEF nodeVars, db, work, bounds, AloneOK, OneAtATime, Busy, Stopping, NotStopped
<1>. QED
  BY <1>1, AloneAttempt, AloneChecker, AloneJobs, AloneUsers DEF PanelNodeNext

-----------------------------------------------------------------------------
(* Calm changes.                                                           *)

Late == {"wait", "get", "start"}

\* Whoever connects the node goes on with the users he has.
SameUsers ==
  /\ \A a \in Slots : attempt'[a].pc \in Linking =>
       attempt'[a].users = version \/ (attempt[a].pc \in Linking /\ attempt'[a].users = attempt[a].users)
  /\ \A a \in Slots : attempt'[a].pc \in Late => attempt[a].pc \in Late

\* Nothing but attempts and the health check moves.
LEMMA CalmKept ==
  ASSUME Base, CalmOK, UNCHANGED <<current, client, node, version, request>>, calm' => calm, SameUsers,
         checker' = checker \/ (current # None /\ Asked(current)' => Receives(current))
  PROVE  CalmOK'
<1>. SUFFICES ASSUME calm' PROVE CalmOK'
  BY DEF CalmOK
<1>1. \A a \in Slots : attempt'[a].pc \in Linking => attempt'[a].users = version
  BY DEF CalmOK, SameUsers
<1>2. current # None /\ (\E a \in Slots : attempt'[a].pc \in Late) => UpToDate(client[current].queue, version)
  BY DEF CalmOK, SameUsers, Late
<1>3. current # None /\ Asked(current)' => Receives(current)
  BY DEF CalmOK, Asked
<1>. QED
  BY <1>1, <1>2, <1>3 DEF CalmOK, Late, Receives, Reflected, NoneLeft

LEMMA CalmChange ==
  ASSUME Base, CalmOK, Remove \/ Install, UNCHANGED <<node, version, request, checker>>, calm' => calm,
         \A a \in Slots : attempt'[a].pc \in Linking =>
           attempt[a].pc \in Linking /\ attempt'[a].users = attempt[a].users
  PROVE  CalmOK'
<1>. SUFFICES ASSUME calm' PROVE CalmOK'
  BY DEF CalmOK
<1>1. \A c \in Clients : client'[c].queue = client[c].queue \/ client'[c].queue = <<>>
  BY RemoveFacts, InstallFacts, Fresh
<1>2. Ordered(<<>>, node.users) /\ UpToDate(<<>>, version)
  <2>1. DOMAIN <<>> = {}
    OBVIOUS
  <2>. QED
    BY <2>1 DEF Ordered, UpToDate
<1>3. \A c \in Clients : Ordered(client'[c].queue, node'.users)
  BY <1>1, <1>2 DEF CalmOK
<1>4. current' # None => /\ current' \in Clients /\ client'[current'] = FreshClient
                         /\ checker'.client # current'
  BY RemoveFacts, InstallFacts DEF Unused
<1>5. current' # None => /\ UpToDate(client'[current'].queue, version')
                         /\ ~ Asked(current)' /\ ~ Receives(current)'
                         /\ client'[current'].health = "not_connected" /\ client'[current'].queue = <<>>
  BY <1>2, <1>4, Fresh DEF Asked, Receives
<1>6. /\ \A a \in Slots : attempt'[a].pc \in Linking => attempt'[a].users = version'
      /\ \A r \in Requests : request'[r].pc = "send" => request'[r].version = version'[request'[r].user]
      /\ \A c, d \in Clients : client'[c].queue # <<>> /\ client'[d].queue # <<>> => c = d
  BY <1>1 DEF CalmOK
<1>. QED
  BY <1>3, <1>5, <1>6 DEF CalmOK

LEMMA CalmStart ==
  ASSUME Base, CalmOK, NEW a \in Slots, StartNode(a) \/ StartFails(a)
  PROVE  CalmOK'
<1>. SUFFICES ASSUME calm' PROVE CalmOK'
  BY DEF CalmOK
<1>0. /\ client \in [Clients -> ClientType] /\ current \in Clients \cup {None}
      /\ version \in [Users -> 0..MaxChanges] /\ calm \in BOOLEAN
      /\ node \in [up: BOOLEAN, users: [Users -> 0..MaxChanges]] /\ MaxChanges \in Nat
  BY BaseTypes DEF Base, PanelNodeTypeOK
<1>1. /\ calm /\ NoneLeft /\ attempt[a].pc = "start"
      /\ StartFails(a) => ~ Asked(attempt[a].client)
      /\ UNCHANGED <<version, current, request, checker>>
  BY <1>0 DEF StartNode, StartFails, db
<1>2. /\ \A d \in Clients : client'[d].queue = client[d].queue /\ client'[d].stop = client[d].stop
      /\ \A d \in Clients : d # attempt[a].client => client'[d] = client[d]
      /\ client'[attempt[a].client].health = IF StartNode(a) THEN "healthy" ELSE "not_connected"
      /\ attempt'[a].pc \in {"started", "failed"}
  BY StartFacts
<1>3. \A b \in Slots : b # a => attempt'[b] = attempt[b]
  BY AttemptPath DEF Attempt
<1>4. \/ node'.up /\ node'.users = version
      \/ ~ node'.up /\ node'.users = node.users
  <2>1. attempt[a].users = version
    BY <1>1 DEF CalmOK, Linking
  <2>2. node' \in {[node EXCEPT !.up = FALSE], [up |-> TRUE, users |-> version]}
    BY <2>1 DEF StartNode, StartFails
  <2>3. CASE node' = [node EXCEPT !.up = FALSE]
    BY <1>0, <2>3
  <2>4. CASE node' = [up |-> TRUE, users |-> version]
    BY <2>4
  <2>. QED
    BY <2>2, <2>3, <2>4
<1>5. \A b \in Slots : attempt'[b].pc \in Linking => attempt'[b].users = version
  BY <1>1, <1>2, <1>3 DEF CalmOK, Linking
<1>6. current # None => UpToDate(client[current].queue, version)
  BY <1>1 DEF CalmOK
<1>7. NoneLeft'
  BY <1>1, <1>2 DEF NoneLeft
<1>8. ASSUME NEW c \in Clients PROVE Ordered(client'[c].queue, node'.users)
  <2>1. CASE node'.users = node.users
    BY <1>1, <1>2, <2>1 DEF CalmOK
  <2>2. CASE node'.users = version /\ c = current
    <3>1. client[c].queue \in Seq(Users \X (1..MaxChanges)) /\ UpToDate(client[c].queue, version)
      BY <1>0, <1>6, <2>2, BaseTypes DEF Base, ClientType
    <3>2. \A i \in DOMAIN client[c].queue :
            client[c].queue[i][2] = version[client[c].queue[i][1]] /\ client[c].queue[i][2] \in Nat
      <4>1. \A i \in DOMAIN client[c].queue : client[c].queue[i] \in Users \X (1..MaxChanges)
        BY <3>1
      <4>. QED
        BY <3>1, <4>1, <1>0 DEF UpToDate
    <3>. QED
      BY <1>2, <2>2, <3>2 DEF Ordered
  <2>3. CASE c # current
    <3>1. client[c].queue = <<>>
      BY <1>1, <2>3 DEF Base, ClientsOK, NoneLeft
    <3>2. DOMAIN <<>> = {}
      OBVIOUS
    <3>. QED
      BY <1>2, <3>1, <3>2 DEF Ordered
  <2>. QED
    BY <1>4, <2>1, <2>2, <2>3
<1>9. current # None /\ Asked(current)' => Receives(current)'
  <2>1. current # None /\ Asked(current) => Receives(current)
    BY <1>1 DEF CalmOK
  <2>2. current = attempt[a].client /\ Asked(current) => client'[current].health = "healthy"
    BY <1>1, <1>2
  <2>. QED
    BY <1>0, <1>1, <1>2, <2>1, <2>2 DEF Asked, Receives
<1>10. node'.up => \A u \in Users : Reflected(u)'
  BY <1>1, <1>4 DEF Reflected
<1>11. /\ \A r \in Requests : request'[r].pc = "send" => request'[r].version = version'[request'[r].user]
       /\ \A c, d \in Clients : client'[c].queue # <<>> /\ client'[d].queue # <<>> => c = d
       /\ current' # None => UpToDate(client'[current'].queue, version')
  BY <1>0, <1>1, <1>2, <1>6 DEF CalmOK
<1>. QED
  BY <1>1, <1>5, <1>7, <1>8, <1>9, <1>10, <1>11 DEF CalmOK

LEMMA CalmAttempt ==
  ASSUME Base, CalmOK, NEW a \in Slots, Attempt(a) \/ StartFails(a)
  PROVE  CalmOK'
<1>1. UNCHANGED <<version, checker, request>> /\ \A b \in Slots : b # a => attempt'[b] = attempt[b]
  BY AttemptPath
<1>2. CASE StartNode(a) \/ StartFails(a)
  BY <1>2, CalmStart
<1>3. CASE Install /\ UNCHANGED <<node, calm>> /\ attempt[a].pc = "install"
           /\ attempt'[a].users = attempt[a].users
  BY <1>1, <1>3, CalmChange DEF Linking
<1>4. CASE UNCHANGED <<current, client, node, calm>> /\ attempt[a].pc # "install"
  <2>1. SameUsers
    BY <1>1, <1>4, AttemptPath DEF SameUsers, Linking, Late
  <2>. QED
    BY <1>1, <1>4, <2>1, CalmKept
<1>. QED
  BY <1>2, <1>3, <1>4, AttemptPath

\* The health of the client in the manager: it never loses or regains a
\* connection but by a start, as far as the node is calm.
LEMMA CalmChecker == ASSUME Base, CalmOK, Checker PROVE CalmOK'
<1>. SUFFICES ASSUME calm' PROVE CalmOK'
  BY DEF CalmOK
<1>0. /\ client \in [Clients -> ClientType] /\ current \in Clients \cup {None}
      /\ attempt \in [Slots -> AttemptType] /\ checker \in CheckerType /\ HealthCheck \in Slots
      /\ IdleChecker.pc = "idle" /\ \A pc \in {"find", "connect"} : [IdleChecker EXCEPT !.pc = pc].pc = pc
  BY BaseTypes, IdleTypes DEF Base, Slots, IdleChecker
<1>1. calm /\ UNCHANGED <<current, node, version, request>>
  BY DEF Checker, Check, FindClient, GetHealth, StatsOk, StatsFail, RecordError, RecordRecovery,
     Reconnected, db
<1>2. SameUsers
  <2>1. attempt' = attempt \/ Step(HealthCheck, "read")
    BY DEF Checker, Check, FindClient, GetHealth, StatsOk, StatsFail, RecordError, RecordRecovery,
       Reconnected, Reconnect, Step
  <2>2. \A b \in Slots : attempt'[b] = attempt[b] \/ attempt'[b].pc = "read"
    BY <1>0, <2>1 DEF Step, AttemptType
  <2>. QED
    BY <2>2 DEF SameUsers, Linking, Late
<1>3. CASE checker.pc # "stats"
  <2>1. client' = client
    BY <1>3 DEF Checker, Check, FindClient, GetHealth, StatsOk, StatsFail, RecordError, RecordRecovery, Reconnected
  <2>2. checker' = checker \/ (current # None /\ Asked(current)' => Receives(current))
    <3>1. CASE GetHealth
      BY <1>0, <1>1, <3>1 DEF GetHealth, Reconnect, Asked, Receives, CheckerType
    <3>2. CASE ~ GetHealth
      <4>1. checker'.pc # "stats"
        BY <1>0, <1>3, <3>2 DEF Checker, Check, FindClient, StatsOk, StatsFail, RecordError, RecordRecovery,
           Reconnected, Reconnect, CheckerType
      <4>. QED
        BY <4>1 DEF Asked
    <3>. QED
      BY <3>1, <3>2
  <2>. QED
    BY <1>1, <1>2, <2>1, <2>2, CalmKept
<1>4. CASE checker.pc = "stats"
  <2>. DEFINE c == checker.client
  <2>1. /\ c \in Clients /\ checker'.pc # "stats" /\ attempt' = attempt
        /\ client' = client \/ \E h \in {"healthy", "broken"} : SetHealth(c, h)
    BY <1>0, <1>4 DEF Checker, Check, FindClient, GetHealth, StatsOk, StatsFail, RecordError, RecordRecovery,
       Reconnected, CheckerType, Base, ClientsOK
  <2>2. CASE client' = client
    <3>1. ~ Asked(current)'
      BY <2>1 DEF Asked
    <3>. QED
      BY <1>1, <1>2, <2>2, <3>1, CalmKept
  <2>3. CASE client' # client
    <3>1. PICK h \in {"healthy", "broken"} : client' = [client EXCEPT ![c].health = h]
      BY <2>1, <2>3 DEF SetHealth
    <3>2. /\ client'[c].health = h
          /\ \A d \in Clients : d # c => client'[d] = client[d]
          /\ \A d \in Clients : /\ client'[d].queue = client[d].queue /\ client'[d].stop = client[d].stop
                                /\ client'[d].hard = client[d].hard
      BY <1>0, <2>1, <3>1 DEF ClientType
    <3>3. current # None /\ current = c => Receives(current)
      BY <1>1, <1>4 DEF CalmOK, Asked
    <3>4. current # None => /\ Receives(current)' => Receives(current)
                            /\ client'[current].health # "not_connected" => client[current].health # "not_connected"
      BY <1>0, <1>1, <3>2, <3>3 DEF Receives
    <3>5. NoneLeft => NoneLeft'
      BY <3>2 DEF NoneLeft
    <3>6. current # None => \A u \in Users : Reflected(u) => Reflected(u)'
      BY <1>0, <1>1, <3>2 DEF Reflected
    <3>7. ~ Asked(current)'
      BY <2>1 DEF Asked
    <3>8. /\ \A a \in Slots : attempt'[a].pc \in Linking => attempt'[a].users = version'
          /\ \A r \in Requests : request'[r].pc = "send" => request'[r].version = version'[request'[r].user]
          /\ \A d, e \in Clients : client'[d].queue # <<>> /\ client'[e].queue # <<>> => d = e
          /\ \A d \in Clients : Ordered(client'[d].queue, node'.users)
      BY <1>1, <2>1, <3>2 DEF CalmOK
    <3>9. current' # None =>
            /\ (\E a \in Slots : attempt'[a].pc \in Late) => UpToDate(client'[current'].queue, version')
            /\ client'[current'].health # "not_connected" \/ client'[current'].queue # <<>> => NoneLeft'
            /\ node'.up /\ Receives(current)' /\ ~client'[current'].hard => \A u \in Users : Reflected(u)'
      BY <1>0, <1>1, <2>1, <3>2, <3>4, <3>5, <3>6 DEF CalmOK, Late
    <3>. QED
      BY <3>7, <3>8, <3>9 DEF CalmOK, Late
  <2>. QED
    BY <2>2, <2>3
<1>. QED
  BY <1>3, <1>4

LEMMA CalmJobs ==
  ASSUME Base, CalmOK,
         \/ Jobs \/ Traffic \/ Delete \/ ResetUsage \/ Restart
         \/ \E asked \in {"same", "disabled", "connecting"} : Modify(asked)
  PROVE  CalmOK'
<1>1. UNCHANGED <<node, version, request, calm, checker>>
  BY DEF Jobs, Traffic, Delete, ResetUsage, Restart, Modify, FindOverLimit, DisconnectLimited,
     Limit, ModifyDisconnect, ModifyInstall, ModifyConnect, DeleteClient, DeleteRow, work, db
<1>2. CASE Remove \/ Install
  <2>1. attempt' = attempt \/ Begin
    BY DEF Jobs, Traffic, Delete, ResetUsage, Restart, Modify, FindOverLimit, DisconnectLimited,
       Limit, ModifyDisconnect, ModifyInstall, ModifyConnect, DeleteClient, DeleteRow, work
  <2>2. \A b \in Slots : attempt'[b] = attempt[b] \/ attempt'[b].pc = "read"
    BY <2>1, BeginFacts
  <2>. QED
    BY <1>1, <1>2, <2>2, CalmChange DEF Linking
<1>3. CASE ~ (Remove \/ Install)
  <2>1. /\ UNCHANGED <<current, client>>
        /\ attempt' = attempt \/ Begin
    BY <1>3 DEF Jobs, Traffic, Delete, ResetUsage, Restart, Modify, FindOverLimit, DisconnectLimited,
       Limit, ModifyDisconnect, ModifyInstall, ModifyConnect, DeleteClient, DeleteRow, work
  <2>2. \A b \in Slots : attempt'[b] = attempt[b] \/ attempt'[b].pc = "read"
    BY <2>1, BeginFacts
  <2>3. SameUsers
    BY <2>2 DEF SameUsers, Linking, Late
  <2>. QED
    BY <1>1, <2>1, <2>3, CalmKept
<1>. QED
  BY <1>2, <1>3

\* Updates that are dropped or delivered one by one leave the queue in order.
LEMMA OrderedTail ==
  ASSUME NEW q \in QueueType, q # <<>>, NEW served, NEW next, Ordered(q, served), MaxChanges \in Nat,
         \A u \in Users : next[u] = served[u] \/ (u = q[1][1] /\ next[u] = q[1][2])
  PROVE  Ordered(Tail(q), next)
<1>1. /\ 1 \in DOMAIN q
      /\ \A i \in DOMAIN Tail(q) : i + 1 \in DOMAIN q /\ i \in Nat /\ i >= 1 /\ Tail(q)[i] = q[i + 1]
  BY QueueTail
<1>2. \A i \in DOMAIN q : q[i][1] \in Users
  BY DEF QueueType
<1>3. \A i \in DOMAIN q : served[q[i][1]] <= q[i][2]
  BY DEF Ordered
<1>4. \A i, j \in DOMAIN q : i < j /\ q[i][1] = q[j][1] => q[i][2] <= q[j][2]
  BY DEF Ordered
<1>. HIDE DEF Ordered
<1>5. ASSUME NEW i \in DOMAIN Tail(q) PROVE next[Tail(q)[i][1]] <= Tail(q)[i][2]
  <2>1. i + 1 \in DOMAIN q /\ 1 < i + 1 /\ Tail(q)[i] = q[i + 1] /\ q[i + 1][1] \in Users
    BY <1>1, <1>2
  <2>2. next[q[i + 1][1]] = served[q[i + 1][1]] \/ (q[i + 1][1] = q[1][1] /\ next[q[i + 1][1]] = q[1][2])
    BY <2>1
  <2>3. q[i + 1][1] = q[1][1] => q[1][2] <= q[i + 1][2]
    BY <1>1, <1>4, <2>1
  <2>4. served[q[i + 1][1]] <= q[i + 1][2]
    BY <1>3, <2>1
  <2>. QED
    BY <2>1, <2>2, <2>3, <2>4
<1>6. ASSUME NEW i \in DOMAIN Tail(q), NEW j \in DOMAIN Tail(q), i < j, Tail(q)[i][1] = Tail(q)[j][1]
      PROVE  Tail(q)[i][2] <= Tail(q)[j][2]
  <2>1. /\ i + 1 \in DOMAIN q /\ j + 1 \in DOMAIN q /\ i \in Nat /\ j \in Nat
        /\ Tail(q)[i] = q[i + 1] /\ Tail(q)[j] = q[j + 1]
    BY <1>1
  <2>2. i + 1 < j + 1
    BY <1>6, <2>1
  <2>. QED
    BY <1>4, <1>6, <2>1, <2>2
<1>. QED
  BY <1>5, <1>6 DEF Ordered

\* What changes of users and failures leave as it is.
LEMMA CalmFrame ==
  ASSUME Base, \/ \E c \in Clients : Invalidate(c) \/ StopLands(c) \/ Deliver(c) \/ Lose(c)
               \/ \E r \in Requests : SendUser(r)
               \/ Crash
  PROVE  UNCHANGED <<current, attempt, checker, version, calm>>
BY DEF Invalidate, StopLands, Deliver, Lose, SendUser, Crash, db, work

\* A client out of the manager goes, or the node does.
LEMMA CalmStop ==
  ASSUME Base, CalmOK,
         \/ \E c \in Clients : Invalidate(c) \/ StopLands(c)
         \/ Crash
  PROVE  CalmOK'
<1>. SUFFICES ASSUME calm' PROVE CalmOK'
  BY DEF CalmOK
<1>0. /\ UNCHANGED <<current, attempt, checker, version, calm, request>> /\ calm
      /\ client \in [Clients -> ClientType] /\ current \in Clients \cup {None}
      /\ node \in [up: BOOLEAN, users: [Users -> 0..MaxChanges]]
  BY CalmFrame, BaseTypes DEF Base, PanelNodeTypeOK, Invalidate, StopLands, Crash
<1>1. /\ node'.users = node.users /\ (node'.up => node.up)
      /\ current # None => client'[current] = client[current]
      /\ \A c \in Clients : client'[c].queue = client[c].queue \/ client'[c].queue = <<>>
      /\ \A c \in Clients : client'[c].stop = "due" => client'[c] = client[c]
  <2>1. ASSUME NEW c \in Clients, Invalidate(c)
        PROVE  /\ node'.users = node.users /\ (node'.up => node.up)
               /\ current # None => client'[current] = client[current]
               /\ \A d \in Clients : client'[d].queue = client[d].queue \/ client'[d].queue = <<>>
               /\ \A d \in Clients : client'[d].stop = "due" => client'[d] = client[d]
    <3>1. node' = node
      BY <2>1 DEF Invalidate
    <3>. QED
      BY <1>0, <2>1, <3>1, InvalidateFacts
  <2>2. ASSUME NEW c \in Clients, StopLands(c)
        PROVE  /\ node'.users = node.users /\ (node'.up => node.up)
               /\ current # None => client'[current] = client[current]
               /\ \A d \in Clients : client'[d].queue = client[d].queue \/ client'[d].queue = <<>>
               /\ \A d \in Clients : client'[d].stop = "due" => client'[d] = client[d]
    BY <1>0, <2>2, StopFacts
  <2>3. CASE Crash
    BY <1>0, <2>3 DEF Crash
  <2>. QED
    BY <2>1, <2>2, <2>3
<1>2. Ordered(<<>>, node.users)
  <2>1. DOMAIN <<>> = {}
    OBVIOUS
  <2>. QED
    BY <2>1 DEF Ordered
<1>3. /\ \A c \in Clients : Ordered(client'[c].queue, node'.users)
      /\ \A c, d \in Clients : client'[c].queue # <<>> /\ client'[d].queue # <<>> => c = d
  BY <1>0, <1>1, <1>2 DEF CalmOK
<1>4. NoneLeft => NoneLeft'
  BY <1>1 DEF NoneLeft
<1>5. current # None => /\ Asked(current)' => Receives(current)'
                        /\ Receives(current)' => Receives(current)
  BY <1>0, <1>1 DEF CalmOK, Asked, Receives
<1>6. current # None => \A u \in Users : Reflected(u) => Reflected(u)'
  BY <1>0, <1>1 DEF Reflected
<1>. QED
  BY <1>0, <1>1, <1>3, <1>4, <1>5, <1>6 DEF CalmOK

\* One update is delivered, or lost.
LEMMA CalmTake ==
  ASSUME Base, CalmOK, NEW c \in Clients, Deliver(c) \/ Lose(c)
  PROVE  CalmOK'
<1>. SUFFICES ASSUME calm' PROVE CalmOK'
  BY DEF CalmOK
<1>. DEFINE q == client[c].queue
<1>0. /\ UNCHANGED <<current, attempt, checker, version, calm, request>> /\ calm
      /\ client \in [Clients -> ClientType] /\ current \in Clients \cup {None}
      /\ node \in [up: BOOLEAN, users: [Users -> 0..MaxChanges]]
      /\ version \in [Users -> 0..MaxChanges] /\ MaxChanges \in Nat
  BY CalmFrame, BaseTypes DEF Base, PanelNodeTypeOK, Deliver, Lose
<1>1. q \in QueueType /\ q # <<>>
  BY <1>0 DEF Deliver, Lose, ClientType, QueueType
<1>2. \E hard \in BOOLEAN : client' = [client EXCEPT ![c].queue = Tail(@), ![c].hard = hard]
  <2>1. CASE Deliver(c)
    BY <2>1, DeliverFacts
  <2>2. CASE Lose(c)
    BY <2>2 DEF Lose
  <2>. QED
    BY <2>1, <2>2
<1>3. /\ client'[c].queue = Tail(q)
      /\ \A d \in Clients : client'[d].health = client[d].health /\ client'[d].stop = client[d].stop
      /\ \A d \in Clients : d # c => client'[d] = client[d]
  BY <1>1, <1>2, TakeFacts
<1>4. /\ node'.up = node.up
      /\ \A u \in Users : node'.users[u] = node.users[u] \/ (u = q[1][1] /\ node'.users[u] = q[1][2])
  <2>1. CASE Deliver(c)
    BY <1>0, <2>1, DeliverFacts
  <2>2. CASE Lose(c)
    BY <2>2 DEF Lose
  <2>. QED
    BY <2>1, <2>2
<1>5. \A d \in Clients : d # c => client[d].queue = <<>> /\ client'[d].queue = <<>>
  BY <1>0, <1>1, <1>3 DEF CalmOK
<1>6. Ordered(q, node.users) /\ \A i \in DOMAIN q : q[i] \in Users \X (1..MaxChanges)
  BY <1>0, <1>1 DEF CalmOK, QueueType
<1>7. \A d \in Clients : Ordered(client'[d].queue, node'.users)
  <2>. HIDE DEF q
  <2>1. Ordered(Tail(q), node'.users)
    <3>. DEFINE served == node.users
                next == node'.users
    <3>1. /\ Ordered(q, served)
          /\ \A u \in Users : next[u] = served[u] \/ (u = q[1][1] /\ next[u] = q[1][2])
      BY <1>4, <1>6
    <3>. HIDE DEF served, next
    <3>2. Ordered(Tail(q), next)
      BY <1>0, <1>1, <3>1, OrderedTail
    <3>. QED
      BY <3>2 DEF next
  <2>2. Ordered(<<>>, node'.users)
    <3>1. DOMAIN <<>> = {}
      OBVIOUS
    <3>. QED
      BY <3>1 DEF Ordered
  <2>. QED
    BY <1>3, <1>5, <2>1, <2>2
<1>8. current # None =>
        /\ (\E a \in Slots : attempt'[a].pc \in Late) => UpToDate(client'[current].queue, version)
        /\ Asked(current)' => Receives(current)'
        /\ Receives(current)' => Receives(current)
  <2>1. UpToDate(q, version) => UpToDate(Tail(q), version)
    <3>. HIDE DEF q
    <3>. QED
      BY <1>1, QueueTail DEF UpToDate
  <2>. QED
    BY <1>0, <1>3, <2>1 DEF CalmOK, Late, Asked, Receives
<1>9. NoneLeft => client[c].stop # "due" /\ NoneLeft'
  BY <1>1, <1>3, <1>5 DEF NoneLeft
<1>10. current # None /\ (client'[current].health # "not_connected" \/ client'[current].queue # <<>>)
         => NoneLeft /\ current = c
  <2>1. current # None /\ (client'[current].health # "not_connected" \/ client'[current].queue # <<>>)
          => client[current].health # "not_connected" \/ client[current].queue # <<>>
    BY <1>0, <1>1, <1>3, <1>5
  <2>2. current # None /\ NoneLeft => current = c
    BY <1>0, <1>1, <1>9 DEF Base, ClientsOK
  <2>. QED
    BY <1>0, <2>1, <2>2 DEF CalmOK
<1>11. ASSUME current # None, node'.up, Receives(current)', ~ client'[current].hard, NEW u \in Users
       PROVE  Reflected(u)'
  <2>1. current = c
    BY <1>0, <1>10, <1>11 DEF Receives
  <2>2. CASE Lose(c)
    <3>1. client' = [client EXCEPT ![c].queue = Tail(@), ![c].hard = TRUE] /\ TRUE \in BOOLEAN
      BY <2>2 DEF Lose
    <3>2. client'[c].hard = TRUE
      BY <1>1, <3>1, TakeFacts
    <3>. QED
      BY <1>11, <2>1, <3>2
  <2>3. CASE Deliver(c)
    <3>1. client'[c].hard = client[c].hard
      BY <1>1, <2>3, DeliverFacts, TakeFacts
    <3>2. Reflected(u)
      BY <1>0, <1>4, <1>8, <1>11, <2>1, <3>1 DEF CalmOK
    <3>3. /\ q[1][1] \in Users /\ q[1][2] \in Nat
          /\ node'.users = [node.users EXCEPT ![q[1][1]] = q[1][2]]
      <4>1. 1 \in DOMAIN q
        BY <1>1, QueueTail
      <4>2. q[1] \in Users \X (1..MaxChanges)
        BY <1>6, <4>1
      <4>3. q[1][1] \in Users /\ q[1][2] \in Nat
        BY <1>0, <4>2
      <4>4. node'.users = [node.users EXCEPT ![q[1][1]] = q[1][2]]
        BY <2>3, DeliverFacts
      <4>. QED
        BY <4>3, <4>4
    <3>4. CASE node.users[u] = version[u]
      <4>1. u = q[1][1] => q[1][2] = version[u]
        <5>1. 1 \in DOMAIN q
          BY <1>1, QueueTail
        <5>2. node.users[q[1][1]] <= q[1][2] /\ q[1][2] <= version[q[1][1]]
          BY <1>6, <5>1 DEF Ordered, Base, BehindOK
        <5>. QED
          BY <1>0, <3>3, <3>4, <5>2
      <4>2. node'.users[u] = version[u]
        BY <1>4, <3>4, <4>1
      <4>. QED
        BY <1>0, <4>2 DEF Reflected
    <3>5. CASE \E r \in Requests : request[r].pc = "send" /\ request[r].user = u
      BY <1>0, <3>5 DEF Reflected
    <3>6. CASE \E i \in DOMAIN q : q[i] = <<u, version[u]>>
      <4>1. PICK i \in DOMAIN q : q[i] = <<u, version[u]>>
        BY <3>6
      <4>2. CASE i = 1
        <5>1. node'.users[u] = version[u]
          BY <1>0, <3>3, <4>1, <4>2
        <5>. QED
          BY <1>0, <5>1 DEF Reflected
      <4>3. CASE i # 1
        <5>1. i - 1 \in DOMAIN Tail(q) /\ Tail(q)[i - 1] = q[i]
          BY <1>1, <4>3, QueueTail
        <5>2. \E j \in DOMAIN client'[current].queue : client'[current].queue[j] = <<u, version[u]>>
          BY <1>3, <2>1, <4>1, <5>1
        <5>. QED
          BY <1>0, <5>2 DEF Reflected
      <4>. QED
        BY <4>2, <4>3
    <3>. QED
      BY <2>1, <3>2, <3>4, <3>5, <3>6 DEF Reflected
  <2>. QED
    BY <2>2, <2>3
<1>12. /\ \A a \in Slots : attempt'[a].pc \in Linking => attempt'[a].users = version'
       /\ \A r \in Requests : request'[r].pc = "send" => request'[r].version = version'[request'[r].user]
       /\ \A d, e \in Clients : client'[d].queue # <<>> /\ client'[e].queue # <<>> => d = e
  BY <1>0, <1>5 DEF CalmOK
<1>. HIDE DEF q
<1>. QED
  BY <1>0, <1>7, <1>8, <1>9, <1>10, <1>11, <1>12 DEF CalmOK, Late

\* An update is put behind the others.
LEMMA CalmSend ==
  ASSUME Base, CalmOK, NEW r \in Requests, SendUser(r)
  PROVE  CalmOK'
<1>. SUFFICES ASSUME calm' PROVE CalmOK'
  BY DEF CalmOK
<1>. DEFINE m == <<request[r].user, request[r].version>>
<1>0. /\ UNCHANGED <<current, attempt, checker, version, calm, node>> /\ calm
      /\ client \in [Clients -> ClientType] /\ current \in Clients \cup {None} /\ None \notin Clients
      /\ node \in [up: BOOLEAN, users: [Users -> 0..MaxChanges]]
      /\ version \in [Users -> 0..MaxChanges] /\ MaxChanges \in Nat
      /\ request[r].pc = "send"
  BY CalmFrame, BaseTypes DEF Base, PanelNodeTypeOK, SendUser
<1>1. /\ m \in Users \X (1..MaxChanges)
      /\ \A s \in Requests : s # r => request'[s] = request[s]
      /\ request'[r].pc = "idle"
      /\ client' \in [Clients -> ClientType]
      /\ \A d \in Clients : /\ client'[d].health = client[d].health
                            /\ client'[d].stop = client[d].stop /\ client'[d].hard = client[d].hard
      /\ \A d \in Clients : d # current => client'[d].queue = client[d].queue
      /\ current # None => client'[current].queue =
           IF Receives(current) THEN Append(client[current].queue, m) ELSE client[current].queue
  BY SendFacts
<1>2. m[1] \in Users /\ m[2] = version[m[1]] /\ m = <<m[1], m[2]>>
  BY <1>0, <1>1 DEF CalmOK
<1>. HIDE DEF m
<1>3. \A d \in Clients : /\ client[d].queue \in QueueType
                         /\ \A i \in DOMAIN client[d].queue :
                              /\ client[d].queue[i] \in Users \X (1..MaxChanges)
                              /\ client[d].queue[i][2] <= version[client[d].queue[i][1]]
  BY <1>0 DEF ClientType, QueueType, Base, BehindOK
<1>4. current # None /\ Receives(current) => \A d \in Clients : d # current => client[d].queue = <<>>
  BY <1>0 DEF CalmOK, Receives, NoneLeft, Base, ClientsOK
<1>5. \A d, e \in Clients : client'[d].queue # <<>> /\ client'[e].queue # <<>> => d = e
  BY <1>0, <1>1, <1>4 DEF CalmOK
<1>6. ASSUME NEW d \in Clients PROVE Ordered(client'[d].queue, node'.users)
  <2>1. Ordered(client[d].queue, node.users)
    BY <1>0 DEF CalmOK
  <2>2. CASE client'[d].queue = client[d].queue
    BY <1>0, <2>1, <2>2
  <2>3. CASE client'[d].queue = Append(client[d].queue, m)
    <3>. DEFINE q == client[d].queue
                p == Append(q, m)
    <3>1. \A i \in DOMAIN p : \/ i \in DOMAIN q /\ i < Len(q) + 1 /\ p[i] = q[i]
                              \/ i = Len(q) + 1 /\ p[i] = m
      BY <1>1, <1>3, QueueAppend
    <3>2. \A i \in DOMAIN q : i \in Nat /\ q[i][2] <= version[q[i][1]]
      BY <1>1, <1>3, QueueAppend
    <3>3. /\ \A i \in DOMAIN q : node.users[q[i][1]] <= q[i][2]
          /\ \A i, j \in DOMAIN q : i < j /\ q[i][1] = q[j][1] => q[i][2] <= q[j][2]
      BY <2>1 DEF Ordered
    <3>4. node.users[m[1]] <= m[2] /\ m[2] \in Nat
      BY <1>0, <1>2 DEF Base, BehindOK
    <3>5. Len(q) \in Nat
      BY <1>3 DEF QueueType
    <3>. HIDE DEF q, p
    <3>6. \A i \in DOMAIN p : node.users[p[i][1]] <= p[i][2]
      BY <3>1, <3>3, <3>4
    <3>7. ASSUME NEW i \in DOMAIN p, NEW j \in DOMAIN p, i < j, p[i][1] = p[j][1]
          PROVE  p[i][2] <= p[j][2]
      <4>1. i \in DOMAIN q /\ p[i] = q[i]
        BY <3>1, <3>2, <3>5, <3>7
      <4>2. CASE j \in DOMAIN q /\ p[j] = q[j]
        BY <3>3, <3>7, <4>1, <4>2
      <4>3. CASE p[j] = m
        BY <1>2, <3>2, <3>7, <4>1, <4>3
      <4>. QED
        BY <3>1, <4>2, <4>3
    <3>8. Ordered(p, node.users)
      BY <3>6, <3>7 DEF Ordered
    <3>. QED
      BY <1>0, <2>3, <3>8 DEF p, q
  <2>. QED
    BY <1>0, <1>1, <2>2, <2>3
<1>7. current # None /\ (\E a \in Slots : attempt[a].pc \in Late) => UpToDate(client'[current].queue, version)
  <2>1. ASSUME current # None, \E a \in Slots : attempt[a].pc \in Late
        PROVE  UpToDate(client'[current].queue, version)
    <3>1. UpToDate(client[current].queue, version)
      BY <1>0, <2>1 DEF CalmOK, Late
    <3>2. CASE client'[current].queue = client[current].queue
      BY <3>1, <3>2
    <3>3. CASE client'[current].queue = Append(client[current].queue, m)
      <4>1. current \in Clients
        BY <1>0, <2>1
      <4>. QED
        BY <1>1, <1>2, <1>3, <3>1, <3>3, <4>1, QueueAppend DEF UpToDate
    <3>. QED
      BY <1>1, <2>1, <3>2, <3>3
  <2>. QED
    BY <2>1
<1>8. NoneLeft => NoneLeft'
  BY <1>0, <1>1 DEF NoneLeft, Base, ClientsOK
<1>9. current # None => /\ Asked(current)' => Receives(current)'
                        /\ Receives(current)' => Receives(current)
  BY <1>0, <1>1 DEF CalmOK, Asked, Receives
<1>10. current # None /\ (client'[current].health # "not_connected" \/ client'[current].queue # <<>>)
         => NoneLeft
  <2>1. current # None /\ Receives(current) => client[current].health # "not_connected"
    BY DEF Receives
  <2>. QED
    BY <1>0, <1>1, <2>1 DEF CalmOK
<1>11. ASSUME current # None, node'.up, Receives(current)', ~ client'[current].hard, NEW u \in Users
       PROVE  Reflected(u)'
  <2>1. Reflected(u)
    BY <1>0, <1>1, <1>9, <1>11 DEF CalmOK
  <2>2. /\ client'[current].queue = Append(client[current].queue, m)
        /\ client[current].queue \in QueueType
    BY <1>0, <1>1, <1>3, <1>9, <1>11
  <2>3. CASE node.users[u] = version[u]
    BY <1>0, <2>3 DEF Reflected
  <2>4. CASE request[r].user = u
    <3>1. m = <<u, version[u]>>
      BY <1>2, <2>4 DEF m
    <3>2. \E i \in DOMAIN client'[current].queue : client'[current].queue[i] = m
      BY <1>1, <2>2, QueueAppend
    <3>. QED
      BY <1>0, <3>1, <3>2 DEF Reflected
  <2>5. CASE \E s \in Requests : s # r /\ request[s].pc = "send" /\ request[s].user = u
    <3>1. \E s \in Requests : request'[s].pc = "send" /\ request'[s].user = u
      BY <1>1, <2>5
    <3>. QED
      BY <3>1 DEF Reflected
  <2>6. CASE \E i \in DOMAIN client[current].queue : client[current].queue[i] = <<u, version[u]>>
    <3>1. \E i \in DOMAIN client'[current].queue : client'[current].queue[i] = <<u, version[u]>>
      BY <1>1, <2>2, <2>6, QueueAppend
    <3>. QED
      BY <1>0, <3>1 DEF Reflected
  <2>. QED
    BY <2>1, <2>3, <2>4, <2>5, <2>6 DEF Reflected
<1>12. /\ \A a \in Slots : attempt'[a].pc \in Linking => attempt'[a].users = version'
       /\ \A s \in Requests : request'[s].pc = "send" => request'[s].version = version'[request'[s].user]
  BY <1>0, <1>1 DEF CalmOK
<1>. QED
  BY <1>0, <1>5, <1>6, <1>7, <1>8, <1>9, <1>10, <1>11, <1>12 DEF CalmOK, Late

\* A user is changed: the update is on its way.
LEMMA CalmUserChange ==
  ASSUME Base, CalmOK, NEW r \in Requests, NEW u \in Users, ChangeUser(r, u)
  PROVE  CalmOK'
<1>. SUFFICES ASSUME calm' PROVE CalmOK'
  BY DEF CalmOK
<1>0. /\ UNCHANGED <<current, client, node, attempt, checker>> /\ calm
      /\ \A a \in Slots : attempt[a].pc \notin Linking
      /\ \A q \in Requests : request[q].user # u
      /\ request[r].pc = "idle"
  BY DEF ChangeUser, work, Connecting, Linking, Base, PanelNodeTypeOK
<1>1. /\ version'[u] = version[u] + 1 /\ \A w \in Users : w # u => version'[w] = version[w]
      /\ \A s \in Requests : s # r => request'[s] = request[s]
      /\ request'[r].pc = "send" /\ request'[r].user = u /\ request'[r].version = version[u] + 1
  BY ChangeFacts
<1>2. \A s \in Requests : request'[s].pc = "send" => request'[s].version = version'[request'[s].user]
  <2>1. ASSUME NEW s \in Requests, s # r, request[s].pc = "send"
        PROVE  request[s].version = version'[request[s].user]
    BY <1>0, <1>1, <2>1 DEF CalmOK, Base, BehindOK
  <2>. QED
    BY <1>1, <2>1
<1>3. current # None /\ node.up /\ Receives(current) /\ ~ client[current].hard =>
        \A w \in Users : Reflected(w)'
  <2>1. ASSUME current # None, node.up, Receives(current), ~ client[current].hard, NEW w \in Users
        PROVE  Reflected(w)'
    <3>1. CASE w = u
      BY <1>1, <3>1 DEF Reflected
    <3>2. CASE w # u
      <4>1. Reflected(w)
        BY <1>0, <2>1 DEF CalmOK
      <4>2. ASSUME NEW s \in Requests, request[s].pc = "send", request[s].user = w
            PROVE  request'[s].pc = "send" /\ request'[s].user = w
        BY <1>0, <1>1, <4>2
      <4>. QED
        BY <1>0, <1>1, <3>2, <4>1, <4>2 DEF Reflected
    <3>. QED
      BY <3>1, <3>2
  <2>. QED
    BY <2>1
<1>4. current # None => /\ Asked(current)' => Receives(current)'
                        /\ Receives(current)' <=> Receives(current)
                        /\ NoneLeft' <=> NoneLeft
  BY <1>0 DEF CalmOK, Asked, Receives, NoneLeft
<1>5. \A a \in Slots : attempt'[a].pc \notin Linking /\ attempt'[a].pc \notin Late
  BY <1>0 DEF Linking, Late
<1>. QED
  BY <1>0, <1>2, <1>3, <1>4, <1>5 DEF CalmOK, Late

LEMMA CalmNext == ASSUME Base, CalmOK, [PanelNodeNext]_nodeVars PROVE CalmOK'
<1>1. CASE UNCHANGED nodeVars
  BY <1>1 DEF nodeVars, db, work, CalmOK, NoneLeft, Asked, Receives, Reflected
<1>. QED
  BY <1>1, CalmAttempt, CalmChecker, CalmJobs, CalmStop, CalmTake, CalmSend, CalmUserChange DEF PanelNodeNext

-----------------------------------------------------------------------------
(* The theorems.                                                           *)

LEMMA PanelInvInit == PanelNodeInit => PanelInv
<1>. SUFFICES ASSUME PanelNodeInit PROVE PanelInv
  OBVIOUS
<1>1. /\ status = "connecting" /\ over = FALSE /\ current = None /\ checker = IdleChecker
      /\ limiter = "idle" /\ admin = [pc |-> "idle", old |-> None] /\ alone = TRUE /\ calm = TRUE
      /\ changes = 0 /\ faults = 0 /\ events = 0
      /\ version = [u \in Users |-> 0] /\ node = [up |-> FALSE, users |-> [u \in Users |-> 0]]
      /\ client = [c \in Clients |-> FreshClient] /\ request = [r \in Requests |-> IdleRequest]
  BY DEF PanelNodeInit
<1>2. /\ attempt \in [Slots -> AttemptType]
      /\ \A a \in Slots : /\ attempt[a].pc \in {"idle", "read"}
                          /\ \A u \in Users : attempt[a].users[u] = 0
  BY IdleTypes DEF PanelNodeInit
<1>3. /\ client \in [Clients -> ClientType]
      /\ \A c \in Clients : client[c].queue = <<>> /\ client[c].stop = "no"
  BY <1>1, Fresh
<1>4. /\ request \in [Requests -> [pc: {"idle", "send"}, user: Users \cup {None}, version: 0..MaxChanges]]
      /\ \A r \in Requests : request[r].pc = "idle"
      /\ version \in [Users -> 0..MaxChanges]
      /\ node \in [up: BOOLEAN, users: [Users -> 0..MaxChanges]]
      /\ \A u \in Users : version[u] = 0 /\ node.users[u] = 0
      /\ MaxChanges \in Nat /\ MaxFaults \in Nat /\ MaxEvents \in Nat
  BY <1>1, PanelNodeAssumption DEF IdleRequest
<1>5. PanelNodeTypeOK
  <2>1. /\ checker \in CheckerType /\ admin \in AdminType
        /\ status \in Active \cup Stopped /\ over \in BOOLEAN /\ alone \in BOOLEAN /\ calm \in BOOLEAN
    BY <1>1, IdleTypes DEF Active, AdminType
  <2>2. changes \in 0..MaxChanges /\ faults \in 0..MaxFaults /\ events \in 0..MaxEvents
    BY <1>1, <1>4
  <2>3. limiter \in {"idle", "disconnect", "limit"} /\ current \in Clients \cup {None}
    BY <1>1
  <2>. QED
    BY <1>2, <1>3, <1>4, <2>1, <2>2, <2>3
       DEF PanelNodeTypeOK, ClientType, AttemptType, CheckerType, AdminType
<1>6. DOMAIN <<>> = {} /\ \A a \in Slots : attempt[a].pc \notin {"install", "wait", "get", "start"}
  BY <1>2
<1>7. BehindOK
  BY <1>1, <1>2, <1>3, <1>4, <1>6 DEF BehindOK
<1>8. ClientsOK
  BY <1>1, <1>2, <1>3, IdleTypes DEF ClientsOK
<1>9. AloneOK
  <2>1. admin.pc = "idle" /\ checker.pc = "idle" /\ ~ node.up
    BY <1>1, IdleTypes
  <2>. QED
    BY <1>1, <1>2, <2>1 DEF AloneOK, OneAtATime, Stopping, NotStopped, Active, Stopped
<1>10. CalmOK
  <2>1. \A c \in Clients : Ordered(client[c].queue, node.users)
    BY <1>3, <1>6 DEF Ordered
  <2>. QED
    BY <1>1, <1>3, <1>4, <1>6, <2>1 DEF CalmOK, Linking
<1>. QED
  BY <1>5, <1>7, <1>8, <1>9, <1>10 DEF PanelInv

LEMMA PanelInvNext == PanelInv /\ [PanelNodeNext]_nodeVars => PanelInv'
BY BaseNext, AloneNext, CalmNext DEF PanelInv, Base

LEMMA PanelInvAlways == PanelNodeSpec => []PanelInv
BY PanelInvInit, PanelInvNext, PTL DEF PanelNodeSpec

(* Type correctness; in particular no node, attempt or update is ever      *)
(* ahead of what the database can have said of a user.                     *)
THEOREM PanelNodeTypeCorrect == PanelNodeSpec => []PanelNodeTypeOK
<1>1. PanelInv => PanelNodeTypeOK
  BY DEF PanelInv
<1>. QED
  BY <1>1, PanelInvAlways, PTL

(* A node that is disabled, over its limit or deleted has no client and,   *)
(* when no Stop was lost, does not run, for any number of attempts and     *)
(* clients, unless it was stopped while it was being connected or checked. *)
THEOREM StoppedNodeStaysDown == PanelNodeSpec => []StoppedNodeIsDown
<1>1. PanelInv => StoppedNodeIsDown
  <2>. SUFFICES ASSUME PanelInv, alone, Quiet, status \in Stopped
                PROVE  current = None /\ (faults = 0 => ~node.up)
    BY DEF StoppedNodeIsDown
  <2>1. admin.pc = "idle" /\ \A c \in Clients : client[c].stop = "no"
    BY DEF Quiet, Stopping
  <2>. QED
    BY <2>1 DEF PanelInv, AloneOK
<1>. QED
  BY <1>1, PanelInvAlways, PTL

(* A connected node at rest serves the users as the database has them,     *)
(* whatever reconnects, lost updates and crashes came before, under the    *)
(* conditions of the property on when changes fell.                        *)
THEOREM ConnectedNodeIsUpToDate == PanelNodeSpec => []ConnectedNodeServesUsers
<1>1. PanelInv => ConnectedNodeServesUsers
  <2>. SUFFICES ASSUME PanelInv, calm, Quiet, node.up, current # None, client[current].health = "healthy",
                       ~client[current].hard
                PROVE  node.users = version
    BY DEF ConnectedNodeServesUsers
  <2>1. /\ current \in Clients /\ version \in [Users -> 0..MaxChanges]
        /\ node.users \in [Users -> 0..MaxChanges]
    BY DEF PanelInv, PanelNodeTypeOK
  <2>2. /\ client[current].queue = <<>> /\ DOMAIN <<>> = {}
        /\ \A r \in Requests : request[r].pc # "send"
    BY <2>1 DEF Quiet
  <2>3. \A u \in Users : Reflected(u)
    BY DEF PanelInv, CalmOK, Receives
  <2>4. \A u \in Users : node.users[u] = version[u]
    BY <2>2, <2>3 DEF Reflected
  <2>. QED
    BY <2>1, <2>4
<1>. QED
  BY <1>1, PanelInvAlways, PTL

(* Only an administrator takes a node out of the disabled, limited or      *)
(* deleted state: no late answer of an attempt, check or limit job does,   *)
(* when they are alone.                                                    *)
THEOREM StoppedNodeWaits == PanelNodeSpec => StoppedUntilEnabled
<1>1. ASSUME PanelInv, [PanelNodeNext]_nodeVars, alone', status \in Stopped, status' # status
      PROVE  admin'.pc # admin.pc \/ over' # over
  <2>0. Base /\ AloneOK /\ alone \in BOOLEAN /\ admin \in AdminType
    BY <1>1 DEF PanelInv, Base, PanelNodeTypeOK, AdminType
  <2>1. ASSUME NEW a \in Slots, Attempt(a) \/ StartFails(a) PROVE FALSE
    <3>1. alone /\ attempt[a].pc \in {"started", "failed"}
      BY <1>1, <2>0, <2>1, AttemptPath
    <3>2. status \in Active
      BY <2>0, <3>1 DEF AloneOK, NotStopped
    <3>. QED
      BY <1>1, <3>2 DEF Active, Stopped
  <2>2. CASE Checker
    <3>1. /\ alone' = alone /\ checker.pc \in {"error", "recover"}
      BY <1>1, <2>2 DEF Checker, Check, FindClient, GetHealth, StatsOk, StatsFail, RecordError, RecordRecovery,
         Reconnected, db
    <3>2. status \in Active
      BY <1>1, <2>0, <3>1 DEF AloneOK, NotStopped
    <3>. QED
      BY <1>1, <3>2 DEF Active, Stopped
  <2>3. CASE Limit
    <3>1. alone /\ limiter = "limit"
      BY <1>1, <2>3 DEF Limit
    <3>2. status \in Active
      BY <2>0, <3>1 DEF AloneOK, NotStopped
    <3>. QED
      BY <1>1, <3>2 DEF Active, Stopped
  <2>4. ASSUME NEW asked \in {"same", "disabled", "connecting"}, Modify(asked) PROVE admin'.pc # admin.pc
    BY <2>0, <2>4 DEF Modify, Request, AdminType
  <2>5. CASE DeleteRow
    BY <2>0, <2>5 DEF DeleteRow, AdminType
  <2>6. CASE ResetUsage
    BY <2>6 DEF ResetUsage
  <2>7. CASE \/ DisconnectLimited \/ FindOverLimit \/ ModifyDisconnect \/ ModifyInstall \/ ModifyConnect
             \/ DeleteClient \/ Traffic \/ Delete \/ Restart \/ Crash
             \/ \E c \in Clients : Invalidate(c) \/ StopLands(c) \/ Deliver(c) \/ Lose(c)
             \/ \E r \in Requests : SendUser(r) \/ \E u \in Users : ChangeUser(r, u)
    BY <1>1, <2>7 DEF DisconnectLimited, FindOverLimit, ModifyDisconnect, ModifyInstall, ModifyConnect,
       DeleteClient, Traffic, Delete, Restart, Crash, Invalidate, StopLands, Deliver, Lose, SendUser,
       ChangeUser, db
  <2>8. status # status' => PanelNodeNext
    BY <1>1 DEF nodeVars, db
  <2>. QED
    BY <1>1, <2>1, <2>2, <2>3, <2>4, <2>5, <2>6, <2>7, <2>8 DEF PanelNodeNext, Jobs
<1>2. PanelInv /\ [PanelNodeNext]_nodeVars
        => [alone' /\ status \in Stopped /\ status' # status => admin.pc' # admin.pc \/ over' # over]_nodeVars
  BY <1>1
<1>. QED
  BY <1>2, PanelInvAlways, PTL DEF PanelNodeSpec, StoppedUntilEnabled

-----------------------------------------------------------------------------
(* The refinement of ServedUsers.                                          *)

\* A start loads the users of the attempt; one that fails loads them or
\* leaves the node down.
LEMMA StartServes ==
  ASSUME PanelInv, NEW a \in Slots, StartNode(a) \/ StartFails(a)
  PROVE  Served!Load \/ Served!Stop
<1>0. /\ calm \in BOOLEAN /\ attempt \in [Slots -> AttemptType] /\ version \in [Users -> 0..MaxChanges]
      /\ node \in [up: BOOLEAN, users: [Users -> 0..MaxChanges]] /\ MaxChanges \in Nat
  BY BaseTypes DEF PanelInv, PanelNodeTypeOK
<1>1. calm' \in {calm, FALSE} /\ UNCHANGED version /\ attempt[a].pc = "start"
  BY <1>0 DEF StartNode, StartFails, db
<1>2. CASE node' = [up |-> TRUE, users |-> attempt[a].users]
  <2>1. node'.up /\ node'.users = attempt[a].users
    BY <1>2
  <2>2. node'.users \in [Users -> Nat] /\ \A u \in Users : node'.users[u] <= version[u]
    BY <1>0, <2>1 DEF AttemptType, PanelInv, BehindOK
  <2>3. calm' => node'.users = version
    BY <1>1, <2>1 DEF PanelInv, CalmOK, Linking
  <2>. QED
    BY <1>1, <2>1, <2>2, <2>3 DEF Served!Load
<1>3. CASE node' = [node EXCEPT !.up = FALSE]
  <2>1. node'.up = FALSE /\ node'.users = node.users
    BY <1>0, <1>3
  <2>. QED
    BY <1>1, <2>1 DEF Served!Stop
<1>. QED
  BY <1>2, <1>3 DEF StartNode, StartFails

\* An update that arrives is not ahead of the database and, while changes
\* are calm, takes no user back.
LEMMA DeliverServes ==
  ASSUME PanelInv, NEW c \in Clients, Deliver(c)
  PROVE  \E u \in Users : Served!Update(u)
<1>. DEFINE q == client[c].queue
            u == q[1][1]
            v == q[1][2]
<1>0. /\ client \in [Clients -> ClientType] /\ version \in [Users -> 0..MaxChanges]
      /\ node \in [up: BOOLEAN, users: [Users -> 0..MaxChanges]] /\ MaxChanges \in Nat
  BY BaseTypes DEF PanelInv, PanelNodeTypeOK
<1>1. q \in QueueType /\ q # <<>>
  BY <1>0 DEF Deliver, ClientType, QueueType
<1>2. 1 \in DOMAIN q /\ q[1] \in Users \X (1..MaxChanges)
  BY <1>1, QueueTail
<1>3. u \in Users /\ v \in Nat
  BY <1>0, <1>2
<1>4. v \in 0..version[u]
  <2>1. v <= version[u]
    BY <1>2 DEF PanelInv, BehindOK
  <2>. QED
    BY <1>0, <1>3, <2>1
<1>5. node.up /\ UNCHANGED <<version, calm>>
  BY DEF Deliver, db
<1>6. node'.up = node.up /\ node'.users = [node.users EXCEPT ![u] = v]
  BY DeliverFacts DEF PanelInv, Base
<1>7. calm => v >= node.users[u]
  <2>1. calm => node.users[u] <= v
    BY <1>2 DEF PanelInv, CalmOK, Ordered
  <2>. QED
    BY <1>0, <1>3, <2>1
<1>. HIDE DEF q, u, v
<1>8. node'.users[u] = v
  BY <1>0, <1>3, <1>6
<1>9. calm => node'.users[u] >= node.users[u]
  BY <1>7, <1>8
<1>. QED
  BY <1>3, <1>4, <1>5, <1>6, <1>9 DEF Served!Update

\* Every step of the panel or the node is one of ServedUsers, or does not
\* concern it.
LEMMA ServesStep ==
  ASSUME PanelInv, [PanelNodeNext]_nodeVars
  PROVE  [Served!ServedNext]_(Served!servedVars)
<1>. DEFINE Same == UNCHANGED <<version, node, calm>>
<1>0. /\ Base /\ calm \in BOOLEAN /\ node \in [up: BOOLEAN, users: [Users -> 0..MaxChanges]]
      /\ version \in [Users -> 0..MaxChanges]
  BY DEF PanelInv, Base, PanelNodeTypeOK
<1>1. Same => UNCHANGED Served!servedVars
  BY DEF Served!servedVars
<1>2. CASE UNCHANGED nodeVars
  BY <1>1, <1>2 DEF nodeVars, db
<1>3. ASSUME NEW a \in Slots, Attempt(a) \/ StartFails(a)
      PROVE  Served!Load \/ Served!Stop \/ Same
  BY <1>0, <1>3, AttemptPath, StartServes
<1>4. CASE Checker
  BY <1>1, <1>4 DEF Checker, Check, FindClient, GetHealth, StatsOk, StatsFail, RecordError, RecordRecovery,
     Reconnected, db
<1>5. CASE \/ Jobs \/ Traffic \/ Delete \/ ResetUsage \/ Restart
           \/ \E asked \in {"same", "disabled", "connecting"} : Modify(asked)
  BY <1>1, <1>5 DEF Jobs, Traffic, Delete, ResetUsage, Restart, Modify, FindOverLimit, DisconnectLimited,
     Limit, ModifyDisconnect, ModifyInstall, ModifyConnect, DeleteClient, DeleteRow, work, db
<1>6. ASSUME NEW r \in Requests, NEW u \in Users, ChangeUser(r, u) PROVE Served!Change(u)
  BY <1>0, <1>6 DEF ChangeUser, Served!Change
<1>7. ASSUME NEW c \in Clients, StopLands(c) PROVE Served!Stop \/ Same
  <2>1. UNCHANGED <<version, calm>> /\ node'.users = node.users
    BY <1>0, <1>7, CalmFrame, StopFacts
  <2>2. node'.up = FALSE \/ node' = node
    BY <1>0, <1>7, StopFacts
  <2>. QED
    BY <2>1, <2>2 DEF Served!Stop
<1>8. CASE Crash
  <2>1. UNCHANGED <<version, calm>> /\ node'.users = node.users /\ node'.up = FALSE
    BY <1>0, <1>8 DEF Crash, db
  <2>. QED
    BY <2>1 DEF Served!Stop, Served!ServedNext
<1>9. CASE \/ \E c \in Clients : Invalidate(c) \/ Lose(c)
           \/ \E r \in Requests : SendUser(r)
  BY <1>1, <1>9 DEF Invalidate, Lose, SendUser, db
<1>10. ASSUME NEW c \in Clients, Deliver(c) PROVE \E u \in Users : Served!Update(u)
  BY <1>10, DeliverServes
<1>. HIDE DEF Same
<1>. QED
  BY <1>1, <1>2, <1>3, <1>4, <1>5, <1>6, <1>7, <1>8, <1>9, <1>10 DEF PanelNodeNext, Served!ServedNext

(* The panel and its node implement ServedUsers: whatever interleaves or   *)
(* fails, the node serves of every user something the database has said    *)
(* of it, and while changes are calm a start serves the database as it is  *)
(* and no update takes a user back.                                        *)
THEOREM ImplementsServedUsers == PanelNodeSpec => ServesUsers
<1>1. PanelNodeInit => Served!ServedInit
  BY DEF PanelNodeInit, Served!ServedInit
<1>2. PanelInv /\ [PanelNodeNext]_nodeVars => [Served!ServedNext]_(Served!servedVars)
  BY ServesStep
<1>. QED
  BY <1>1, <1>2, PanelInvAlways, PTL DEF PanelNodeSpec, ServesUsers, Served!ServedSpec

=============================================================================
