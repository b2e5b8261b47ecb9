--------------------------- MODULE NodeController ---------------------------
(***************************************************************************)
(* The node's controller (node-main/controller/controller.go) and the      *)
(* services that drive it (controller/rpc, controller/rest): who owns the  *)
(* backend.  Requests run concurrently in handler goroutines, every        *)
(* session may have a keep-alive tracker of its own, and main disconnects  *)
(* when the process ends.  Start and Disconnect take the controller's      *)
(* mutex several times each, and nothing holds it in between.              *)
(*                                                                         *)
(* A backend is known by a number, and is running from the success of its  *)
(* constructor to its Shutdown.  One keep-alive period serves all          *)
(* sessions, and time is what decides whether lastRequest is older than    *)
(* it.  The client's address, the API port, API keys (a rejected request   *)
(* changes nothing) and the system stats are left out.                     *)
(***************************************************************************)
EXTENDS Integers, FiniteSets

CONSTANTS
  Handlers,    \* goroutines serving requests
  Main,        \* the goroutine of main()
  MaxStarts,   \* bound: backends ever started
  KeepAlives,  \* may a client ask for a keep-alive period, or for none
  Recovers,    \* the service recovers a panicking handler (REST does, gRPC not)
  None         \* nil

ASSUME BoundAssumption == MaxStarts \in Nat
ASSUME KeepAlivesAssumption == KeepAlives \in SUBSET BOOLEAN /\ Recovers \in BOOLEAN

\* Backends, and the sessions they are started for, with their trackers.
Ids == 1..MaxStarts
Threads == Handlers \cup Ids \cup {Main}

ASSUME ThreadsAssumption ==
  /\ None \notin Ids /\ None \notin {"start", "reply", "wait", "exit"}
  /\ Main \notin Ids /\ Main \notin Handlers
  /\ Handlers \cap Ids = {}

VARIABLES
  up,         \* "up", or how the process ended: "panicked", "exited"
  backend,    \* Controller.backend
  started,    \* number of backends started so far
  running,    \* backends started and not shut down
  cancel,     \* the session whose context cancelFunc cancels
  fresh,      \* the backend each handler started and is about to connect
  cancelled,  \* sessions whose context is cancelled
  expired,    \* lastRequest is at least a keep-alive period ago
  pc,         \* what each goroutine does next
  taken,      \* the backend a Disconnect shuts down
  ret,        \* where each Disconnect returns to
  overlap     \* history: a Start or Disconnect ran while another one did

vars == <<up, backend, started, running, cancel, fresh, cancelled, expired, pc, taken, ret, overlap>>

\* Inside Disconnect, and inside Start outside of Disconnect.
Disconnecting == {"cancel", "take", "shutdown", "clear"}
Starting == {"begin", "start", "connect"}
Busy(t) == pc[t] \in Disconnecting \cup Starting

Goto(t, label) == pc' = [pc EXCEPT ![t] = label]

\* t begins a Start or a Disconnect.
Enter(t) == overlap' = (overlap \/ \E u \in Threads \ {t} : Busy(u))

-----------------------------------------------------------------------------
(* Disconnect, in any goroutine: four steps.                               *)

\* Fault variant of Cancel: no cancelFunc is installed by New.
Fault_CancelNil(t) ==
  /\ pc[t] = "cancel"
  /\ cancelled' = cancelled \cup {cancel}
  /\ Goto(t, "take")
  /\ UNCHANGED <<up, backend, started, running, cancel, fresh, expired, taken, ret, overlap>>

\* c.cancelFunc(), read without the lock.
Cancel(t) ==
  /\ pc[t] = "cancel"
  /\ cancelled' = cancelled \cup ({cancel} \ {None})
  /\ Goto(t, "take")
  /\ UNCHANGED <<up, backend, started, running, cancel, fresh, expired, taken, ret, overlap>>

Take(t) ==
  /\ pc[t] = "take"
  /\ taken' = [taken EXCEPT ![t] = backend]
  /\ Goto(t, IF backend = None THEN "clear" ELSE "shutdown")
  /\ UNCHANGED <<up, backend, started, running, cancel, fresh, cancelled, expired, ret, overlap>>

\* Outside of the lock.
Shutdown(t) ==
  /\ pc[t] = "shutdown"
  /\ running' = running \ {taken[t]}
  /\ Goto(t, "clear")
  /\ UNCHANGED <<up, backend, started, cancel, fresh, cancelled, expired, taken, ret, overlap>>

\* Fault variant of Clear: the backend stays installed.
Fault_ClearKeepsBackend(t) ==
  /\ pc[t] = "clear"
  /\ taken' = [taken EXCEPT ![t] = None]
  /\ Goto(t, ret[t])
  /\ ret' = [ret EXCEPT ![t] = None]
  /\ up' = IF ret[t] = "exit" THEN "exited" ELSE up
  /\ UNCHANGED <<backend, started, running, cancel, fresh, cancelled, expired, overlap>>

Clear(t) ==
  /\ pc[t] = "clear"
  /\ backend' = None
  /\ taken' = [taken EXCEPT ![t] = None]
  /\ Goto(t, ret[t])
  /\ ret' = [ret EXCEPT ![t] = None]
  /\ up' = IF ret[t] = "exit" THEN "exited" ELSE up
  /\ UNCHANGED <<started, running, cancel, fresh, cancelled, expired, overlap>>

\* t calls Disconnect and goes on at label.
CallDisconnect(t, label) ==
  /\ Goto(t, "cancel")
  /\ ret' = [ret EXCEPT ![t] = label]

-----------------------------------------------------------------------------
(* Requests.  Handlers take them until main shuts the server down.         *)

Accepting(h) == pc[h] = "idle" /\ pc[Main] = "idle"

StartRequest(h) ==
  /\ Accepting(h)
  /\ Enter(h)
  /\ Goto(h, "begin")
  /\ UNCHANGED <<up, backend, started, running, cancel, fresh, cancelled, expired, taken, ret>>

\* Fault variant of Begin: the previous client's backend is not disconnected.
Fault_BeginKeepsPrevious(h) ==
  /\ pc[h] = "begin"
  /\ Goto(h, "start")
  /\ UNCHANGED <<up, backend, started, running, cancel, fresh, cancelled, expired, taken, ret, overlap>>

\* Start takes the control away from the previous client, if there is one.
Begin(h) ==
  /\ pc[h] = "begin"
  /\ IF backend # None THEN CallDisconnect(h, "start") ELSE Goto(h, "start") /\ UNCHANGED ret
  /\ UNCHANGED <<up, backend, started, running, cancel, fresh, cancelled, expired, taken, overlap>>

\* The constructor runs under the lock; an error is returned to the client.
StartBackend(h) ==
  /\ pc[h] = "start"
  /\ \/ /\ started < MaxStarts
        /\ started' = started + 1
        /\ backend' = started + 1
        /\ running' = running \cup {started + 1}
        /\ fresh' = [fresh EXCEPT ![h] = started + 1]
        /\ Goto(h, "connect")
     \/ /\ Goto(h, "idle")
        /\ UNCHANGED <<started, backend, running, fresh>>
  /\ UNCHANGED <<up, cancel, cancelled, expired, taken, ret, overlap>>

\* Fault variant of Connect: the new session's cancel function is not kept.
Fault_ConnectForgetsCancel(h) ==
  /\ pc[h] = "connect"
  /\ fresh' = [fresh EXCEPT ![h] = None]
  /\ expired' = FALSE
  /\ \E keepAlive \in KeepAlives :
       pc' = [pc EXCEPT ![h] = "reply", ![fresh[h]] = IF keepAlive THEN "wait" ELSE "untracked"]
  /\ UNCHANGED <<up, backend, started, running, cancel, cancelled, taken, ret, overlap>>

\* A new context, and a tracker of the session unless keepAlive is zero.
Connect(h) ==
  /\ pc[h] = "connect"
  /\ cancel' = fresh[h]
  /\ fresh' = [fresh EXCEPT ![h] = None]
  /\ expired' = FALSE
  /\ \E keepAlive \in KeepAlives :
       pc' = [pc EXCEPT ![h] = "reply", ![fresh[h]] = IF keepAlive THEN "wait" ELSE "untracked"]
  /\ UNCHANGED <<up, backend, started, running, cancelled, taken, ret, overlap>>

\* checkBackendStatus, in front of every request but Start and GetBaseInfo.
BackendReady == backend # None /\ backend \in running

Stop(h) ==
  /\ Accepting(h) /\ BackendReady
  /\ Enter(h)
  /\ CallDisconnect(h, "reply")
  /\ UNCHANGED <<up, backend, started, running, cancel, fresh, cancelled, expired, taken>>

BackendRequest(h) ==
  /\ Accepting(h) /\ BackendReady
  /\ Goto(h, "use")
  /\ UNCHANGED <<up, backend, started, running, cancel, fresh, cancelled, expired, taken, ret, overlap>>

\* The handler asks for the backend again: a unary call once, a stream for
\* every message.  The call may fail.
UseBackend(h) ==
  /\ pc[h] = "use" /\ backend # None
  /\ \E label \in {"reply", "use", "idle"} : Goto(h, label)
  /\ UNCHANGED <<up, backend, started, running, cancel, fresh, cancelled, expired, taken, ret, overlap>>

\* A method called on a nil Backend.
Panic(h) ==
  /\ pc[h] = "use" /\ backend = None
  /\ IF Recovers THEN Goto(h, "idle") /\ UNCHANGED up ELSE up' = "panicked" /\ UNCHANGED pc
  /\ UNCHANGED <<backend, started, running, cancel, fresh, cancelled, expired, taken, ret, overlap>>

\* GetBaseInfo, and GetSystemStats, which works on a copy of the backend.
GetBaseInfo(h) ==
  /\ Accepting(h)
  /\ Goto(h, "reply")
  /\ UNCHANGED <<up, backend, started, running, cancel, fresh, cancelled, expired, taken, ret, overlap>>

\* Every successful request counts for the keep-alive.
NewRequest(h) ==
  /\ pc[h] = "reply"
  /\ expired' = FALSE
  /\ Goto(h, "idle")
  /\ UNCHANGED <<up, backend, started, running, cancel, fresh, cancelled, taken, ret, overlap>>

-----------------------------------------------------------------------------
(* Keep-alive.                                                             *)

\* A keep-alive period passes without a successful request.
Expire ==
  /\ ~expired
  /\ expired' = TRUE
  /\ UNCHANGED <<up, backend, started, running, cancel, fresh, cancelled, pc, taken, ret, overlap>>

\* Fault variant of Tick: the tracker returns when the period is not over yet.
Fault_TickOnce(s) ==
  /\ pc[s] = "wait"
  /\ IF expired THEN Enter(s) /\ CallDisconnect(s, "wait")
                ELSE Goto(s, "off") /\ UNCHANGED <<ret, overlap>>
  /\ UNCHANGED <<up, backend, started, running, cancel, fresh, cancelled, expired, taken>>

\* The ticker of session s fires.  With the context done as well, select
\* chooses between the two at random.
Tick(s) ==
  /\ pc[s] = "wait" /\ expired
  /\ Enter(s)
  /\ CallDisconnect(s, "wait")
  /\ UNCHANGED <<up, backend, started, running, cancel, fresh, cancelled, expired, taken>>

ContextDone(s) ==
  /\ pc[s] = "wait" /\ s \in cancelled
  /\ Goto(s, "off")
  /\ UNCHANGED <<up, backend, started, running, cancel, fresh, cancelled, expired, taken, ret, overlap>>

-----------------------------------------------------------------------------
(* The end of the process.                                                 *)

\* SIGTERM: the server stops accepting requests.
Terminate ==
  /\ pc[Main] = "idle"
  /\ Goto(Main, "drain")
  /\ UNCHANGED <<up, backend, started, running, cancel, fresh, cancelled, expired, taken, ret, overlap>>

\* All handlers have returned, or the ten seconds are over: the deferred
\* Disconnect.
Drained ==
  /\ pc[Main] = "drain"
  /\ Enter(Main)
  /\ CallDisconnect(Main, "exit")
  /\ UNCHANGED <<up, backend, started, running, cancel, fresh, cancelled, expired, taken>>

-----------------------------------------------------------------------------

Init ==
  /\ up = "up"
  /\ backend = None /\ started = 0 /\ running = {}
  /\ cancel = None /\ fresh = [h \in Handlers |-> None] /\ cancelled = {}
  /\ expired = TRUE
  /\ pc = [t \in Threads |-> IF t \in Ids THEN "off" ELSE "idle"]
  /\ taken = [t \in Threads |-> None]
  /\ ret = [t \in Threads |-> None]
  /\ overlap = FALSE

Disconnect(t) == Cancel(t) \/ Take(t) \/ Shutdown(t) \/ Clear(t)
Start(h) == Begin(h) \/ StartBackend(h) \/ Connect(h)
Serve(h) == UseBackend(h) \/ Panic(h) \/ NewRequest(h)
Request(h) == StartRequest(h) \/ Stop(h) \/ BackendRequest(h) \/ GetBaseInfo(h)

Next ==
  /\ up = "up"
  /\ \/ \E t \in Threads : Disconnect(t)
     \/ \E h \in Handlers : Request(h) \/ Start(h) \/ Serve(h)
     \/ \E s \in Ids : Tick(s) \/ ContextDone(s)
     \/ Expire \/ Terminate \/ Drained

Spec == Init /\ [][Next]_vars

\* Goroutines run on: Shutdown returns (it kills the process in the end), a
\* mutex is granted, a ticker fires, and a select with both cases ready takes
\* each of them again and again.  Nothing makes clients call, the period is not
\* said to pass, and a stream's client may keep it open for ever.
Fairness ==
  /\ \A t \in Threads : WF_vars(up = "up" /\ Disconnect(t))
  /\ \A h \in Handlers : WF_vars(up = "up" /\ (Start(h) \/ NewRequest(h) \/ Panic(h)))
  /\ \A s \in Ids : WF_vars(up = "up" /\ Tick(s)) /\ SF_vars(up = "up" /\ ContextDone(s))

FairSpec == Spec /\ Fairness

-----------------------------------------------------------------------------
(* Properties.                                                             *)

Labels == Disconnecting \cup Starting \cup {"idle", "use", "reply", "off", "wait", "untracked", "drain", "exit"}

(* Every variable has its type, and handlers, trackers and main are only   *)
(* at labels of their own code.                                            *)
TypeOK ==
  /\ up \in {"up", "panicked", "exited"}
  /\ backend \in Ids \cup {None}
  /\ started \in 0..MaxStarts
  /\ running \in SUBSET Ids
  /\ cancel \in Ids \cup {None}
  /\ fresh \in [Handlers -> Ids \cup {None}]
  /\ cancelled \in SUBSET Ids
  /\ expired \in BOOLEAN
  /\ pc \in [Threads -> Labels]
  /\ taken \in [Threads -> Ids \cup {None}]
  /\ ret \in [Threads -> {None, "start", "reply", "wait", "exit"}]
  /\ overlap \in BOOLEAN

(* A backend that was shut down does not stay installed: one that is still *)
(* installed is about to be cleared by the Disconnect that shut it down.   *)
NoDeadBackendStays ==
  backend # None /\ backend \notin running => \E t \in Threads : pc[t] = "clear"

Quiet == \A t \in Threads : ~Busy(t)

(* Whatever Starts, Stops and timeouts overlapped before: an installed     *)
(* backend with no Start or Disconnect in progress belongs to a session    *)
(* whose context is live and whose tracker, if the client asked for a      *)
(* keep-alive period, is watching it.                                      *)
TrackedWhileInstalled ==
  Quiet /\ backend # None =>
    cancel \in Ids \ cancelled /\ pc[cancel] \in {"wait", "untracked"}

(* Every running backend is the installed one or is about to be shut down. *)
NoOrphan == up # "panicked" => running \subseteq {backend} \cup {taken[t] : t \in Threads}

(* While the node serves, a Start takes the control away from the previous *)
(* client: the backend it replaces is shut down, not left to run.          *)
ControlTakenAway == pc[Main] = "idle" => NoOrphan

(* Unless a Start or Disconnect overlaps another one, no backend keeps     *)
(* running with nobody to shut it down, also after the process has exited. *)
NoOrphanWhenSerial == overlap \/ NoOrphan

(* Unless they overlap, at most one session has a live tracker, so that no *)
(* earlier session's period is enforced on a later client.                 *)
OneTrackerWhenSerial ==
  overlap \/ Cardinality({s \in Ids \ cancelled : pc[s] = "wait"}) <= 1

(* The process never dies of a call on a nil backend: a request that       *)
(* checkBackendStatus let in still finds a backend.                        *)
NodeSurvives == up # "panicked"

(* When every client asks for a keep-alive period, clients that fall       *)
(* silent for good end up with no backend installed.                       *)
KeepAliveEnforced ==
  KeepAlives = {TRUE} => (<>[]expired => <>[](backend = None) \/ <>(up # "up"))

=============================================================================
