------------------------ MODULE NodeControllerProofs ------------------------
(***************************************************************************)
(* Proofs about NodeController, for any number of handlers and sessions:   *)
(* type correctness, the life of an installed backend, the tracker that    *)
(* watches it, and the properties of Starts and Disconnects that do not    *)
(* overlap.                                                                *)
(***************************************************************************)
EXTENDS NodeController, TLAPS, FiniteSetTheorems

\* Trackers run only Disconnect and their own loop, and a Disconnect has a label
\* to return to.
RoleOK ==
  /\ \A s \in Ids : pc[s] \in Disconnecting \cup {"off", "wait", "untracked"}
  /\ \A t \in Threads : pc[t] \in Disconnecting => ret[t] # None
  /\ \A s \in Ids : ret[s] \in {None, "wait"}

\* A backend about to be connected is its handler's own, and its session has not
\* begun: nobody can have cancelled it.
FreshOK ==
  /\ cancelled \subseteq 1..started
  /\ cancel # None => cancel \in 1..started
  /\ \A s \in Ids : s > started => pc[s] = "off"
  /\ \A h \in Handlers : pc[h] = "connect" =>
       /\ fresh[h] \in 1..started
       /\ fresh[h] \notin cancelled /\ fresh[h] # cancel
       /\ pc[fresh[h]] = "off"
       /\ \A g \in Handlers \ {h} : pc[g] = "connect" => fresh[g] # fresh[h]

\* An installed backend has a live session, or is about to get one, or is about
\* to be cleared.
SessionOK ==
  backend # None =>
    \/ \E t \in Threads : pc[t] \in Disconnecting
    \/ \E h \in Handlers : pc[h] = "connect"
    \/ cancel \in Ids \ cancelled /\ pc[cancel] \in {"wait", "untracked"}

\* The last session is over, or there was none.
SessionOver == cancel \in cancelled \cup {None}

\* Without overlap: one goroutine at a time is at it, and what the others may
\* count on while it is.
SerialOK ==
  ~overlap =>
    /\ \A t, u \in Threads : Busy(t) /\ Busy(u) => t = u
    /\ running \subseteq {backend}
    /\ backend = None => SessionOver
    /\ \A t \in Threads :
         /\ pc[t] = "shutdown" => taken[t] = backend
         /\ pc[t] \in {"clear", "start"} => running = {}
         /\ pc[t] = "connect" => backend # None
         /\ pc[t] \in {"take", "shutdown", "clear", "start", "connect"} => SessionOver
    /\ \A s \in Ids \ cancelled : pc[s] \in Disconnecting \cup {"wait"} => s = cancel

\* The inductive invariant.
IInv == TypeOK /\ RoleOK /\ FreshOK /\ NoDeadBackendStays /\ SessionOK /\ SerialOK

-----------------------------------------------------------------------------
(* Every step keeps the invariant: one lemma per action.                   *)

LEMMA CancelKeeps == ASSUME IInv, NEW t \in Threads, Cancel(t) PROVE IInv'
<1>1. cancelled' \in SUBSET Ids /\ (FreshOK => cancelled' \subseteq 1..started)
  BY DEF IInv, TypeOK, FreshOK, Cancel
<1>2. TypeOK'
  BY <1>1 DEF IInv, TypeOK, Labels, Disconnecting, Cancel, Goto
<1>3. RoleOK'
  BY ThreadsAssumption DEF IInv, TypeOK, RoleOK, Disconnecting, Threads, Cancel, Goto
<1>4. FreshOK'
  <2>1. \A h \in Handlers : pc'[h] = "connect" => pc[h] = "connect" /\ pc[fresh[h]] = "off"
    BY DEF IInv, TypeOK, FreshOK, Threads, Cancel, Goto
  <2>2. \A h \in Handlers : pc[h] = "connect" => pc'[fresh[h]] = "off"
    BY BoundAssumption DEF IInv, TypeOK, FreshOK, Threads, Ids, Cancel, Goto
  <2>3. \A h \in Handlers : pc[h] = "connect" => fresh[h] \notin cancelled'
    BY DEF IInv, FreshOK, Cancel
  <2>4. \A s \in Ids : s > started => pc'[s] = "off"
    BY BoundAssumption DEF IInv, TypeOK, FreshOK, Threads, Ids, Cancel, Goto
  <2>5. UNCHANGED <<started, cancel, fresh>>
    BY DEF Cancel
  <2>. QED
    BY <1>1, <2>1, <2>2, <2>3, <2>4, <2>5 DEF IInv, FreshOK
<1>5. NoDeadBackendStays'
  BY DEF IInv, TypeOK, NoDeadBackendStays, Cancel, Goto
<1>6. SessionOK'
  BY DEF IInv, TypeOK, SessionOK, Disconnecting, Cancel, Goto
<1>7. SerialOK'
  BY BoundAssumption, ThreadsAssumption
     DEF IInv, TypeOK, RoleOK, FreshOK, SerialOK, SessionOver, Busy, Disconnecting, Starting, Threads, Ids, Cancel, Goto
<1>. QED
  BY <1>2, <1>3, <1>4, <1>5, <1>6, <1>7 DEF IInv

LEMMA TakeKeeps == ASSUME IInv, NEW t \in Threads, Take(t) PROVE IInv'
<1>1. TypeOK'
  BY BoundAssumption, ThreadsAssumption DEF IInv, TypeOK, RoleOK, FreshOK, Labels, Disconnecting, Starting, Threads, Ids, Take, Goto
<1>2. RoleOK'
  BY BoundAssumption, ThreadsAssumption DEF IInv, TypeOK, RoleOK, FreshOK, Disconnecting, Threads, Ids, Take, Goto
<1>3. FreshOK'
  BY BoundAssumption, ThreadsAssumption DEF IInv, TypeOK, RoleOK, FreshOK, Disconnecting, Threads, Ids, Take, Goto
<1>4. NoDeadBackendStays'
  BY BoundAssumption, ThreadsAssumption DEF IInv, TypeOK, NoDeadBackendStays, Threads, Ids, Take, Goto
<1>5. SessionOK'
  BY BoundAssumption, ThreadsAssumption DEF IInv, TypeOK, RoleOK, FreshOK, SessionOK, Disconnecting, Threads, Ids, Take, Goto
<1>6. SerialOK'
  BY BoundAssumption, ThreadsAssumption DEF IInv, TypeOK, RoleOK, FreshOK, SerialOK, SessionOver, Busy, Disconnecting, Starting, Threads, Ids, Take, Goto
<1>. QED
  BY <1>1, <1>2, <1>3, <1>4, <1>5, <1>6 DEF IInv

LEMMA ShutdownKeeps == ASSUME IInv, NEW t \in Threads, Shutdown(t) PROVE IInv'
<1>1. TypeOK'
  BY BoundAssumption, ThreadsAssumption DEF IInv, TypeOK, RoleOK, FreshOK, Labels, Disconnecting, Starting, Threads, Ids, Shutdown, Goto
<1>2. RoleOK'
  BY BoundAssumption, ThreadsAssumption DEF IInv, TypeOK, RoleOK, FreshOK, Disconnecting, Threads, Ids, Shutdown, Goto
<1>3. FreshOK'
  BY BoundAssumption, ThreadsAssumption DEF IInv, TypeOK, RoleOK, FreshOK, Disconnecting, Threads, Ids, Shutdown, Goto
<1>4. NoDeadBackendStays'
  BY BoundAssumption, ThreadsAssumption DEF IInv, TypeOK, NoDeadBackendStays, Threads, Ids, Shutdown, Goto
<1>5. SessionOK'
  BY BoundAssumption, ThreadsAssumption DEF IInv, TypeOK, RoleOK, FreshOK, SessionOK, Disconnecting, Threads, Ids, Shutdown, Goto
<1>6. SerialOK'
  BY BoundAssumption, ThreadsAssumption DEF IInv, TypeOK, RoleOK, FreshOK, SerialOK, SessionOver, Busy, Disconnecting, Starting, Threads, Ids, Shutdown, Goto
<1>. QED
  BY <1>1, <1>2, <1>3, <1>4, <1>5, <1>6 DEF IInv

LEMMA ClearKeeps == ASSUME IInv, NEW t \in Threads, Clear(t) PROVE IInv'
<1>1. TypeOK'
  BY BoundAssumption, ThreadsAssumption DEF IInv, TypeOK, RoleOK, FreshOK, Labels, Disconnecting, Starting, Threads, Ids, Clear, Goto
<1>2. RoleOK'
  BY BoundAssumption, ThreadsAssumption DEF IInv, TypeOK, RoleOK, FreshOK, Disconnecting, Threads, Ids, Clear, Goto
<1>3. FreshOK'
  BY BoundAssumption, ThreadsAssumption DEF IInv, TypeOK, RoleOK, FreshOK, Disconnecting, Threads, Ids, Clear, Goto
<1>4. NoDeadBackendStays'
  BY BoundAssumption, ThreadsAssumption DEF IInv, TypeOK, NoDeadBackendStays, Threads, Ids, Clear, Goto
<1>5. SessionOK'
  BY BoundAssumption, ThreadsAssumption DEF IInv, TypeOK, RoleOK, FreshOK, SessionOK, Disconnecting, Threads, Ids, Clear, Goto
<1>6. SerialOK'
  BY BoundAssumption, ThreadsAssumption DEF IInv, TypeOK, RoleOK, FreshOK, SerialOK, SessionOver, Busy, Disconnecting, Starting, Threads, Ids, Clear, Goto
<1>. QED
  BY <1>1, <1>2, <1>3, <1>4, <1>5, <1>6 DEF IInv

LEMMA StartRequestKeeps == ASSUME IInv, NEW h \in Handlers, StartRequest(h) PROVE IInv'
<1>1. TypeOK'
  BY BoundAssumption, ThreadsAssumption DEF IInv, TypeOK, RoleOK, FreshOK, Labels, Disconnecting, Starting, Threads, Ids, StartRequest, Enter, Accepting, Goto
<1>2. RoleOK'
  BY BoundAssumption, ThreadsAssumption DEF IInv, TypeOK, RoleOK, FreshOK, Disconnecting, Threads, Ids, StartRequest, Enter, Accepting, Goto
<1>3. FreshOK'
  BY BoundAssumption, ThreadsAssumption DEF IInv, TypeOK, RoleOK, FreshOK, Disconnecting, Threads, Ids, StartRequest, Enter, Accepting, Goto
<1>4. NoDeadBackendStays'
  BY BoundAssumption, ThreadsAssumption DEF IInv, TypeOK, NoDeadBackendStays, Threads, Ids, StartRequest, Enter, Accepting, Goto
<1>5. SessionOK'
  BY BoundAssumption, ThreadsAssumption DEF IInv, TypeOK, RoleOK, FreshOK, SessionOK, Disconnecting, Threads, Ids, StartRequest, Enter, Accepting, Goto
<1>6. SerialOK'
  BY BoundAssumption, ThreadsAssumption DEF IInv, TypeOK, RoleOK, FreshOK, SerialOK, SessionOver, Busy, Disconnecting, Starting, Threads, Ids, StartRequest, Enter, Accepting, Goto
<1>. QED
  BY <1>1, <1>2, <1>3, <1>4, <1>5, <1>6 DEF IInv

LEMMA BeginKeeps == ASSUME IInv, NEW h \in Handlers, Begin(h) PROVE IInv'
<1>1. TypeOK'
  BY BoundAssumption, ThreadsAssumption DEF IInv, TypeOK, RoleOK, FreshOK, Labels, Disconnecting, Starting, Threads, Ids, Begin, CallDisconnect, Goto
<1>2. RoleOK'
  BY BoundAssumption, ThreadsAssumption DEF IInv, TypeOK, RoleOK, FreshOK, Disconnecting, Threads, Ids, Begin, CallDisconnect, Goto
<1>3. FreshOK'
  BY BoundAssumption, ThreadsAssumption DEF IInv, TypeOK, RoleOK, FreshOK, Disconnecting, Threads, Ids, Begin, CallDisconnect, Goto
<1>4. NoDeadBackendStays'
  BY BoundAssumption, ThreadsAssumption DEF IInv, TypeOK, NoDeadBackendStays, Threads, Ids, Begin, CallDisconnect, Goto
<1>5. SessionOK'
  BY BoundAssumption, ThreadsAssumption DEF IInv, TypeOK, RoleOK, FreshOK, SessionOK, Disconnecting, Threads, Ids, Begin, CallDisconnect, Goto
<1>6. SerialOK'
  BY BoundAssumption, ThreadsAssumption DEF IInv, TypeOK, RoleOK, FreshOK, SerialOK, SessionOver, Busy, Disconnecting, Starting, Threads, Ids, Begin, CallDisconnect, Goto
<1>. QED
  BY <1>1, <1>2, <1>3, <1>4, <1>5, <1>6 DEF IInv

LEMMA StartBackendKeeps == ASSUME IInv, NEW h \in Handlers, StartBackend(h) PROVE IInv'
<1>. DEFINE n == started + 1
<1>1. pc[h] = "start" /\ UNCHANGED <<up, cancel, cancelled, expired, taken, ret, overlap>>
  BY DEF StartBackend
<1>2. h \notin Ids /\ h \in Threads /\ None \notin Ids
  BY ThreadsAssumption DEF Threads
<1>3. CASE /\ n \in Ids /\ n > started
           /\ started' = n /\ backend' = n /\ running' = running \cup {n}
           /\ fresh' = [fresh EXCEPT ![h] = n] /\ pc' = [pc EXCEPT ![h] = "connect"]
  <2>1. started' \in 0..MaxStarts /\ n \in 1..started' /\ 1..started \subseteq 1..started'
    BY <1>3, BoundAssumption DEF IInv, TypeOK, Ids
  <2>2. n \notin 1..started /\ pc[n] = "off" /\ n # h
    BY <1>2, <1>3, BoundAssumption DEF IInv, TypeOK, FreshOK, Ids
  <2>3. TypeOK'
    BY <1>1, <1>2, <1>3, <2>1 DEF IInv, TypeOK, Labels, Starting
  <2>4. RoleOK'
    BY <1>1, <1>2, <1>3 DEF IInv, TypeOK, RoleOK, Disconnecting
  <2>5. FreshOK'
    <3>1. \A g \in Handlers : pc'[g] = "connect" /\ g # h =>
            /\ pc[g] = "connect" /\ fresh'[g] = fresh[g] /\ fresh[g] \in 1..started
            /\ fresh[g] # h /\ pc'[fresh[g]] = "off"
      BY <1>2, <1>3, BoundAssumption DEF IInv, TypeOK, FreshOK, Ids
    <3>2. fresh'[h] = n /\ pc'[n] = "off" /\ n \notin cancelled' /\ n # cancel'
      BY <1>1, <1>2, <1>3, <2>2 DEF IInv, TypeOK, FreshOK
    <3>3. \A s \in Ids : s > started' => pc'[s] = "off"
      BY <1>2, <1>3, BoundAssumption DEF IInv, TypeOK, FreshOK, Ids
    <3>4. cancelled' \subseteq 1..started' /\ (cancel' # None => cancel' \in 1..started')
      BY <1>1, <2>1 DEF IInv, FreshOK
    <3>. QED
      BY <1>1, <2>1, <2>2, <3>1, <3>2, <3>3, <3>4 DEF IInv, FreshOK
  <2>6. NoDeadBackendStays'
    BY <1>3 DEF NoDeadBackendStays
  <2>7. SessionOK'
    BY <1>2, <1>3 DEF IInv, TypeOK, SessionOK
  <2>8. SerialOK'
    <3>. SUFFICES ASSUME ~overlap PROVE SerialOK'
      BY <1>1 DEF SerialOK
    <3>1. \A t \in Threads : Busy(t)' <=> Busy(t)
      BY <1>1, <1>2, <1>3 DEF IInv, TypeOK, Busy, Disconnecting, Starting
    <3>2. Busy(h) /\ running = {} /\ SessionOver
      BY <1>1, <1>2 DEF IInv, SerialOK, Busy, Starting
    <3>3. \A t \in Threads : t # h => pc'[t] \notin {"shutdown", "clear", "start", "take", "connect"}
      BY <1>2, <3>1, <3>2 DEF IInv, SerialOK, Busy, Disconnecting, Starting
    <3>4. pc'[h] = "connect" /\ SessionOver' /\ running' \subseteq {backend'} /\ backend' # None
      BY <1>1, <1>2, <1>3, <3>2 DEF IInv, TypeOK, SessionOver
    <3>5. \A s \in Ids : pc'[s] = pc[s]
      BY <1>2, <1>3 DEF IInv, TypeOK
    <3>. QED
      BY <1>1, <1>3, <3>1, <3>3, <3>4, <3>5 DEF IInv, SerialOK
  <2>. QED
    BY <2>3, <2>4, <2>5, <2>6, <2>7, <2>8 DEF IInv
<1>4. CASE pc' = [pc EXCEPT ![h] = "idle"] /\ UNCHANGED <<started, backend, running, fresh>>
  <2>1. TypeOK' /\ RoleOK'
    BY <1>1, <1>2, <1>4 DEF IInv, TypeOK, RoleOK, Labels, Disconnecting
  <2>2. FreshOK'
    BY <1>1, <1>2, <1>4, BoundAssumption DEF IInv, TypeOK, FreshOK, Ids
  <2>3. NoDeadBackendStays'
    BY <1>1, <1>4 DEF IInv, TypeOK, NoDeadBackendStays
  <2>4. SessionOK'
    BY <1>1, <1>2, <1>4 DEF IInv, TypeOK, SessionOK, Disconnecting
  <2>5. SerialOK'
    BY <1>1, <1>2, <1>4 DEF IInv, TypeOK, SerialOK, SessionOver, Busy, Disconnecting, Starting
  <2>. QED
    BY <2>1, <2>2, <2>3, <2>4, <2>5 DEF IInv
<1>. QED
  BY <1>3, <1>4, BoundAssumption DEF IInv, TypeOK, Ids, StartBackend, Goto

LEMMA ConnectKeeps == ASSUME IInv, NEW h \in Handlers, Connect(h) PROVE IInv'
<1>. DEFINE s == fresh[h]
<1>1. /\ s \in Ids /\ s \in 1..started /\ s \notin cancelled /\ s # cancel /\ pc[s] = "off"
      /\ \A g \in Handlers \ {h} : pc[g] = "connect" => fresh[g] # s
      /\ pc[h] = "connect"
  BY BoundAssumption DEF IInv, TypeOK, FreshOK, Ids, Connect
<1>2. h \notin Ids /\ h \in Threads /\ s \in Threads /\ None \notin Ids /\ h # s
  BY <1>1, ThreadsAssumption DEF Threads
<1>3. PICK label \in {"wait", "untracked"} : pc' = [pc EXCEPT ![h] = "reply", ![s] = label]
  BY DEF Connect
<1>4. /\ pc' \in [Threads -> Labels] /\ pc'[h] = "reply" /\ pc'[s] = label
      /\ \A t \in Threads : t # h /\ t # s => pc'[t] = pc[t]
  BY <1>1, <1>2, <1>3 DEF IInv, TypeOK, Labels
<1>5. /\ cancel' = s /\ expired' = FALSE /\ fresh' = [fresh EXCEPT ![h] = None]
      /\ UNCHANGED <<up, backend, started, running, cancelled, taken, ret, overlap>>
  BY DEF Connect
<1>6. TypeOK'
  BY <1>1, <1>4, <1>5 DEF IInv, TypeOK
<1>7. RoleOK'
  BY <1>2, <1>4, <1>5, ThreadsAssumption DEF IInv, RoleOK, Disconnecting, Threads
<1>8. FreshOK'
  <2>1. \A g \in Handlers : pc'[g] = "connect" =>
          /\ g # h /\ pc[g] = "connect" /\ fresh'[g] = fresh[g] /\ fresh[g] # s
          /\ fresh[g] \in Ids /\ fresh[g] # h
    BY <1>1, <1>2, <1>4, <1>5, ThreadsAssumption, BoundAssumption DEF IInv, TypeOK, FreshOK, Ids, Threads
  <2>2. \A u \in Ids : u > started' => pc'[u] = "off"
    BY <1>1, <1>2, <1>4, <1>5, BoundAssumption DEF IInv, TypeOK, FreshOK, Ids, Threads
  <2>3. \A g \in Handlers : pc'[g] = "connect" => pc'[fresh'[g]] = "off"
    BY <1>4, <2>1 DEF IInv, FreshOK, Threads
  <2>. QED
    BY <1>1, <1>5, <2>1, <2>2, <2>3 DEF IInv, FreshOK
<1>9. NoDeadBackendStays'
  BY <1>1, <1>4, <1>5 DEF IInv, NoDeadBackendStays
<1>10. SessionOK'
  BY <1>1, <1>4, <1>5 DEF SessionOK
<1>11. SerialOK'
  <2>. SUFFICES ASSUME ~overlap PROVE SerialOK'
    BY <1>5 DEF SerialOK
  <2>1. Busy(h) /\ SessionOver
    BY <1>1, <1>2 DEF IInv, SerialOK, Busy, Starting
  <2>2. \A t \in Threads : t # h => ~Busy(t)
    BY <1>2, <2>1 DEF IInv, SerialOK
  <2>3. \A t \in Threads : ~Busy(t)'
    BY <1>1, <1>2, <1>4, <2>2 DEF Busy, Disconnecting, Starting
  <2>4. backend # None
    BY <1>1, <1>2 DEF IInv, SerialOK
  <2>5. \A u \in Ids \ cancelled' : pc'[u] \in Disconnecting \cup {"wait"} => u = cancel'
    BY <1>2, <1>4, <1>5, <2>1 DEF IInv, SerialOK, SessionOver, Threads
  <2>. QED
    BY <1>5, <2>3, <2>4, <2>5 DEF IInv, SerialOK, Busy, Disconnecting, Starting
<1>. QED
  BY <1>6, <1>7, <1>8, <1>9, <1>10, <1>11 DEF IInv

LEMMA StopKeeps == ASSUME IInv, NEW h \in Handlers, Stop(h) PROVE IInv'
<1>1. TypeOK'
  BY BoundAssumption, ThreadsAssumption DEF IInv, TypeOK, RoleOK, FreshOK, Labels, Disconnecting, Starting, Threads, Ids, Stop, Enter, CallDisconnect, Accepting, Goto
<1>2. RoleOK'
  BY BoundAssumption, ThreadsAssumption DEF IInv, TypeOK, RoleOK, FreshOK, Disconnecting, Threads, Ids, Stop, Enter, CallDisconnect, Accepting, Goto
<1>3. FreshOK'
  BY BoundAssumption, ThreadsAssumption DEF IInv, TypeOK, RoleOK, FreshOK, Disconnecting, Threads, Ids, Stop, Enter, CallDisconnect, Accepting, Goto
<1>4. NoDeadBackendStays'
  BY BoundAssumption, ThreadsAssumption DEF IInv, TypeOK, NoDeadBackendStays, Threads, Ids, Stop, Enter, CallDisconnect, Accepting, Goto
<1>5. SessionOK'
  BY BoundAssumption, ThreadsAssumption DEF IInv, TypeOK, RoleOK, FreshOK, SessionOK, Disconnecting, Threads, Ids, Stop, Enter, CallDisconnect, Accepting, Goto
<1>6. SerialOK'
  BY BoundAssumption, ThreadsAssumption DEF IInv, TypeOK, RoleOK, FreshOK, SerialOK, SessionOver, Busy, Disconnecting, Starting, Threads, Ids, Stop, Enter, CallDisconnect, Accepting, Goto
<1>. QED
  BY <1>1, <1>2, <1>3, <1>4, <1>5, <1>6 DEF IInv

LEMMA BackendRequestKeeps == ASSUME IInv, NEW h \in Handlers, BackendRequest(h) PROVE IInv'
<1>1. TypeOK'
  BY BoundAssumption, ThreadsAssumption DEF IInv, TypeOK, RoleOK, FreshOK, Labels, Disconnecting, Starting, Threads, Ids, BackendRequest, Accepting, Goto
<1>2. RoleOK'
  BY BoundAssumption, ThreadsAssumption DEF IInv, TypeOK, RoleOK, FreshOK, Disconnecting, Threads, Ids, BackendRequest, Accepting, Goto
<1>3. FreshOK'
  BY BoundAssumption, ThreadsAssumption DEF IInv, TypeOK, RoleOK, FreshOK, Disconnecting, Threads, Ids, BackendRequest, Accepting, Goto
<1>4. NoDeadBackendStays'
  BY BoundAssumption, ThreadsAssumption DEF IInv, TypeOK, NoDeadBackendStays, Threads, Ids, BackendRequest, Accepting, Goto
<1>5. SessionOK'
  BY BoundAssumption, ThreadsAssumption DEF IInv, TypeOK, RoleOK, FreshOK, SessionOK, Disconnecting, Threads, Ids, BackendRequest, Accepting, Goto
<1>6. SerialOK'
  BY BoundAssumption, ThreadsAssumption DEF IInv, TypeOK, RoleOK, FreshOK, SerialOK, SessionOver, Busy, Disconnecting, Starting, Threads, Ids, BackendRequest, Accepting, Goto
<1>. QED
  BY <1>1, <1>2, <1>3, <1>4, <1>5, <1>6 DEF IInv

LEMMA UseBackendKeeps == ASSUME IInv, NEW h \in Handlers, UseBackend(h) PROVE IInv'
<1>1. TypeOK'
  BY BoundAssumption, ThreadsAssumption DEF IInv, TypeOK, RoleOK, FreshOK, Labels, Disconnecting, Starting, Threads, Ids, UseBackend, Goto
<1>2. RoleOK'
  BY BoundAssumption, ThreadsAssumption DEF IInv, TypeOK, RoleOK, FreshOK, Disconnecting, Threads, Ids, UseBackend, Goto
<1>3. FreshOK'
  BY BoundAssumption, ThreadsAssumption DEF IInv, TypeOK, RoleOK, FreshOK, Disconnecting, Threads, Ids, UseBackend, Goto
<1>4. NoDeadBackendStays'
  BY BoundAssumption, ThreadsAssumption DEF IInv, TypeOK, NoDeadBackendStays, Threads, Ids, UseBackend, Goto
<1>5. SessionOK'
  BY BoundAssumption, ThreadsAssumption DEF IInv, TypeOK, RoleOK, FreshOK, SessionOK, Disconnecting, Threads, Ids, UseBackend, Goto
<1>6. SerialOK'
  BY BoundAssumption, ThreadsAssumption DEF IInv, TypeOK, RoleOK, FreshOK, SerialOK, SessionOver, Busy, Disconnecting, Starting, Threads, Ids, UseBackend, Goto
<1>. QED
  BY <1>1, <1>2, <1>3, <1>4, <1>5, <1>6 DEF IInv

LEMMA PanicKeeps == ASSUME IInv, NEW h \in Handlers, Panic(h) PROVE IInv'
<1>1. TypeOK'
  BY BoundAssumption, ThreadsAssumption DEF IInv, TypeOK, RoleOK, FreshOK, Labels, Disconnecting, Starting, Threads, Ids, Panic, Goto
<1>2. RoleOK'
  BY BoundAssumption, ThreadsAssumption DEF IInv, TypeOK, RoleOK, FreshOK, Disconnecting, Threads, Ids, Panic, Goto
<1>3. FreshOK'
  BY BoundAssumption, ThreadsAssumption DEF IInv, TypeOK, RoleOK, FreshOK, Disconnecting, Threads, Ids, Panic, Goto
<1>4. NoDeadBackendStays'
  BY BoundAssumption, ThreadsAssumption DEF IInv, TypeOK, NoDeadBackendStays, Threads, Ids, Panic, Goto
<1>5. SessionOK'
  BY BoundAssumption, ThreadsAssumption DEF IInv, TypeOK, RoleOK, FreshOK, SessionOK, Disconnecting, Threads, Ids, Panic, Goto
<1>6. SerialOK'
  BY BoundAssumption, ThreadsAssumption DEF IInv, TypeOK, RoleOK, FreshOK, SerialOK, SessionOver, Busy, Disconnecting, Starting, Threads, Ids, Panic, Goto
<1>. QED
  BY <1>1, <1>2, <1>3, <1>4, <1>5, <1>6 DEF IInv

LEMMA GetBaseInfoKeeps == ASSUME IInv, NEW h \in Handlers, GetBaseInfo(h) PROVE IInv'
<1>1. TypeOK'
  BY BoundAssumption, ThreadsAssumption DEF IInv, TypeOK, RoleOK, FreshOK, Labels, Disconnecting, Starting, Threads, Ids, GetBaseInfo, Accepting, Goto
<1>2. RoleOK'
  BY BoundAssumption, ThreadsAssumption DEF IInv, TypeOK, RoleOK, FreshOK, Disconnecting, Threads, Ids, GetBaseInfo, Accepting, Goto
<1>3. FreshOK'
  BY BoundAssumption, ThreadsAssumption DEF IInv, TypeOK, RoleOK, FreshOK, Disconnecting, Threads, Ids, GetBaseInfo, Accepting, Goto
<1>4. NoDeadBackendStays'
  BY BoundAssumption, ThreadsAssumption DEF IInv, TypeOK, NoDeadBackendStays, Threads, Ids, GetBaseInfo, Accepting, Goto
<1>5. SessionOK'
  BY BoundAssumption, ThreadsAssumption DEF IInv, TypeOK, RoleOK, FreshOK, SessionOK, Disconnecting, Threads, Ids, GetBaseInfo, Accepting, Goto
<1>6. SerialOK'
  BY BoundAssumption, ThreadsAssumption DEF IInv, TypeOK, RoleOK, FreshOK, SerialOK, SessionOver, Busy, Disconnecting, Starting, Threads, Ids, GetBaseInfo, Accepting, Goto
<1>. QED
  BY <1>1, <1>2, <1>3, <1>4, <1>5, <1>6 DEF IInv

LEMMA NewRequestKeeps == ASSUME IInv, NEW h \in Handlers, NewRequest(h) PROVE IInv'
<1>1. TypeOK'
  BY BoundAssumption, ThreadsAssumption DEF IInv, TypeOK, RoleOK, FreshOK, Labels, Disconnecting, Starting, Threads, Ids, NewRequest, Goto
<1>2. RoleOK'
  BY BoundAssumption, ThreadsAssumption DEF IInv, TypeOK, RoleOK, FreshOK, Disconnecting, Threads, Ids, NewRequest, Goto
<1>3. FreshOK'
  BY BoundAssumption, ThreadsAssumption DEF IInv, TypeOK, RoleOK, FreshOK, Disconnecting, Threads, Ids, NewRequest, Goto
<1>4. NoDeadBackendStays'
  BY BoundAssumption, ThreadsAssumption DEF IInv, TypeOK, NoDeadBackendStays, Threads, Ids, NewRequest, Goto
<1>5. SessionOK'
  BY BoundAssumption, ThreadsAssumption DEF IInv, TypeOK, RoleOK, FreshOK, SessionOK, Disconnecting, Threads, Ids, NewRequest, Goto
<1>6. SerialOK'
  BY BoundAssumption, ThreadsAssumption DEF IInv, TypeOK, RoleOK, FreshOK, SerialOK, SessionOver, Busy, Disconnecting, Starting, Threads, Ids, NewRequest, Goto
<1>. QED
  BY <1>1, <1>2, <1>3, <1>4, <1>5, <1>6 DEF IInv

LEMMA TickKeeps == ASSUME IInv, NEW s \in Ids, Tick(s) PROVE IInv'
<1>1. TypeOK'
  BY BoundAssumption, ThreadsAssumption DEF IInv, TypeOK, RoleOK, FreshOK, Labels, Disconnecting, Starting, Threads, Ids, Tick, Enter, CallDisconnect, Goto
<1>2. RoleOK'
  BY BoundAssumption, ThreadsAssumption DEF IInv, TypeOK, RoleOK, FreshOK, Disconnecting, Threads, Ids, Tick, Enter, CallDisconnect, Goto
<1>3. FreshOK'
  BY BoundAssumption, ThreadsAssumption DEF IInv, TypeOK, RoleOK, FreshOK, Disconnecting, Threads, Ids, Tick, Enter, CallDisconnect, Goto
<1>4. NoDeadBackendStays'
  BY BoundAssumption, ThreadsAssumption DEF IInv, TypeOK, NoDeadBackendStays, Threads, Ids, Tick, Enter, CallDisconnect, Goto
<1>5. SessionOK'
  BY BoundAssumption, ThreadsAssumption DEF IInv, TypeOK, RoleOK, FreshOK, SessionOK, Disconnecting, Threads, Ids, Tick, Enter, CallDisconnect, Goto
<1>6. SerialOK'
  BY BoundAssumption, ThreadsAssumption DEF IInv, TypeOK, RoleOK, FreshOK, SerialOK, SessionOver, Busy, Disconnecting, Starting, Threads, Ids, Tick, Enter, CallDisconnect, Goto
<1>. QED
  BY <1>1, <1>2, <1>3, <1>4, <1>5, <1>6 DEF IInv

LEMMA ContextDoneKeeps == ASSUME IInv, NEW s \in Ids, ContextDone(s) PROVE IInv'
<1>1. TypeOK'
  BY BoundAssumption, ThreadsAssumption DEF IInv, TypeOK, RoleOK, FreshOK, Labels, Disconnecting, Starting, Threads, Ids, ContextDone, Goto
<1>2. RoleOK'
  BY BoundAssumption, ThreadsAssumption DEF IInv, TypeOK, RoleOK, FreshOK, Disconnecting, Threads, Ids, ContextDone, Goto
<1>3. FreshOK'
  BY BoundAssumption, ThreadsAssumption DEF IInv, TypeOK, RoleOK, FreshOK, Disconnecting, Threads, Ids, ContextDone, Goto
<1>4. NoDeadBackendStays'
  BY BoundAssumption, ThreadsAssumption DEF IInv, TypeOK, NoDeadBackendStays, Threads, Ids, ContextDone, Goto
<1>5. SessionOK'
  BY BoundAssumption, ThreadsAssumption DEF IInv, TypeOK, RoleOK, FreshOK, SessionOK, Disconnecting, Threads, Ids, ContextDone, Goto
<1>6. SerialOK'
  BY BoundAssumption, ThreadsAssumption DEF IInv, TypeOK, RoleOK, FreshOK, SerialOK, SessionOver, Busy, Disconnecting, Starting, Threads, Ids, ContextDone, Goto
<1>. QED
  BY <1>1, <1>2, <1>3, <1>4, <1>5, <1>6 DEF IInv

LEMMA ExpireKeeps == ASSUME IInv, Expire PROVE IInv'
<1>1. TypeOK'
  BY BoundAssumption, ThreadsAssumption DEF IInv, TypeOK, RoleOK, FreshOK, Labels, Disconnecting, Starting, Threads, Ids, Expire, Goto
<1>2. RoleOK'
  BY BoundAssumption, ThreadsAssumption DEF IInv, TypeOK, RoleOK, FreshOK, Disconnecting, Threads, Ids, Expire, Goto
<1>3. FreshOK'
  BY BoundAssumption, ThreadsAssumption DEF IInv, TypeOK, RoleOK, FreshOK, Disconnecting, Threads, Ids, Expire, Goto
<1>4. NoDeadBackendStays'
  BY BoundAssumption, ThreadsAssumption DEF IInv, TypeOK, NoDeadBackendStays, Threads, Ids, Expire, Goto
<1>5. SessionOK'
  BY BoundAssumption, ThreadsAssumption DEF IInv, TypeOK, RoleOK, FreshOK, SessionOK, Disconnecting, Threads, Ids, Expire, Goto
<1>6. SerialOK'
  BY BoundAssumption, ThreadsAssumption DEF IInv, TypeOK, RoleOK, FreshOK, SerialOK, SessionOver, Busy, Disconnecting, Starting, Threads, Ids, Expire, Goto
<1>. QED
  BY <1>1, <1>2, <1>3, <1>4, <1>5, <1>6 DEF IInv

LEMMA TerminateKeeps == ASSUME IInv, Terminate PROVE IInv'
<1>1. TypeOK'
  BY BoundAssumption, ThreadsAssumption DEF IInv, TypeOK, RoleOK, FreshOK, Labels, Disconnecting, Starting, Threads, Ids, Terminate, Goto
<1>2. RoleOK'
  BY BoundAssumption, ThreadsAssumption DEF IInv, TypeOK, RoleOK, FreshOK, Disconnecting, Threads, Ids, Terminate, Goto
<1>3. FreshOK'
  BY BoundAssumption, ThreadsAssumption DEF IInv, TypeOK, RoleOK, FreshOK, Disconnecting, Threads, Ids, Terminate, Goto
<1>4. NoDeadBackendStays'
  BY BoundAssumption, ThreadsAssumption DEF IInv, TypeOK, NoDeadBackendStays, Threads, Ids, Terminate, Goto
<1>5. SessionOK'
  BY BoundAssumption, ThreadsAssumption DEF IInv, TypeOK, RoleOK, FreshOK, SessionOK, Disconnecting, Threads, Ids, Terminate, Goto
<1>6. SerialOK'
  BY BoundAssumption, ThreadsAssumption DEF IInv, TypeOK, RoleOK, FreshOK, SerialOK, SessionOver, Busy, Disconnecting, Starting, Threads, Ids, Terminate, Goto
<1>. QED
  BY <1>1, <1>2, <1>3, <1>4, <1>5, <1>6 DEF IInv

LEMMA DrainedKeeps == ASSUME IInv, Drained PROVE IInv'
<1>1. TypeOK'
  BY BoundAssumption, ThreadsAssumption DEF IInv, TypeOK, RoleOK, FreshOK, Labels, Disconnecting, Starting, Threads, Ids, Drained, Enter, CallDisconnect, Goto
<1>2. RoleOK'
  BY BoundAssumption, ThreadsAssumption DEF IInv, TypeOK, RoleOK, FreshOK, Disconnecting, Threads, Ids, Drained, Enter, CallDisconnect, Goto
<1>3. FreshOK'
  BY BoundAssumption, ThreadsAssumption DEF IInv, TypeOK, RoleOK, FreshOK, Disconnecting, Threads, Ids, Drained, Enter, CallDisconnect, Goto
<1>4. NoDeadBackendStays'
  BY BoundAssumption, ThreadsAssumption DEF IInv, TypeOK, NoDeadBackendStays, Threads, Ids, Drained, Enter, CallDisconnect, Goto
<1>5. SessionOK'
  BY BoundAssumption, ThreadsAssumption DEF IInv, TypeOK, RoleOK, FreshOK, SessionOK, Disconnecting, Threads, Ids, Drained, Enter, CallDisconnect, Goto
<1>6. SerialOK'
  BY BoundAssumption, ThreadsAssumption DEF IInv, TypeOK, RoleOK, FreshOK, SerialOK, SessionOver, Busy, Disconnecting, Starting, Threads, Ids, Drained, Enter, CallDisconnect, Goto
<1>. QED
  BY <1>1, <1>2, <1>3, <1>4, <1>5, <1>6 DEF IInv

LEMMA IInvNext == IInv /\ [Next]_vars => IInv'
<1>. SUFFICES ASSUME IInv, [Next]_vars PROVE IInv'
  OBVIOUS
<1>1. CASE Next
  <2>1. ASSUME NEW t \in Threads, Disconnect(t) PROVE IInv'
    BY <2>1, CancelKeeps, TakeKeeps, ShutdownKeeps, ClearKeeps DEF Disconnect
  <2>2. ASSUME NEW h \in Handlers, Request(h) PROVE IInv'
    BY <2>2, StartRequestKeeps, StopKeeps, BackendRequestKeeps, GetBaseInfoKeeps DEF Request
  <2>3. ASSUME NEW h \in Handlers, Start(h) PROVE IInv'
    BY <2>3, BeginKeeps, StartBackendKeeps, ConnectKeeps DEF Start
  <2>4. ASSUME NEW h \in Handlers, Serve(h) PROVE IInv'
    BY <2>4, UseBackendKeeps, PanicKeeps, NewRequestKeeps DEF Serve
  <2>5. ASSUME NEW s \in Ids, Tick(s) \/ ContextDone(s) PROVE IInv'
    BY <2>5, TickKeeps, ContextDoneKeeps
  <2>. QED
    BY <1>1, <2>1, <2>2, <2>3, <2>4, <2>5, ExpireKeeps, TerminateKeeps, DrainedKeeps DEF Next
<1>2. CASE UNCHANGED vars
  BY <1>2 DEF vars, IInv, TypeOK, RoleOK, FreshOK, NoDeadBackendStays, SessionOK, SerialOK,
              SessionOver, Busy
<1>. QED
  BY <1>1, <1>2

LEMMA IInvInit == Init => IInv
<1>. SUFFICES ASSUME Init PROVE IInv
  OBVIOUS
<1>1. \A t \in Threads : pc[t] \in {"off", "idle"} /\ (t \in Ids => pc[t] = "off")
  BY DEF Init
<1>2. TypeOK
  <2>1. pc \in [Threads -> Labels]
    BY DEF Init, Labels
  <2>2. started \in 0..MaxStarts
    BY BoundAssumption DEF Init
  <2>. QED
    BY <2>1, <2>2 DEF Init, TypeOK
<1>3. RoleOK
  BY <1>1 DEF Init, RoleOK, Disconnecting, Threads
<1>4. FreshOK
  BY <1>1 DEF Init, FreshOK, Threads
<1>5. NoDeadBackendStays /\ SessionOK
  BY DEF Init, NoDeadBackendStays, SessionOK
<1>6. SerialOK
  BY <1>1 DEF Init, SerialOK, SessionOver, Busy, Disconnecting, Starting, Threads
<1>. QED
  BY <1>2, <1>3, <1>4, <1>5, <1>6 DEF IInv

LEMMA IInvAlways == Spec => []IInv
<1>. QED
  BY IInvInit, IInvNext, PTL DEF Spec

-----------------------------------------------------------------------------
(* Theorems.                                                               *)

(* Type correctness, for any number of handlers and sessions: goroutines   *)
(* are only at labels of their own code, and every Disconnect returns.     *)
THEOREM TypeCorrect == Spec => []TypeOK
<1>1. IInv => TypeOK
  BY DEF IInv
<1>. QED
  BY <1>1, IInvAlways, PTL

(* However Starts, Stops, timeouts and the end of the process interleave,  *)
(* a backend that was shut down does not stay installed.                   *)
THEOREM DeadBackendLeaves == Spec => []NoDeadBackendStays
<1>1. IInv => NoDeadBackendStays
  BY DEF IInv
<1>. QED
  BY <1>1, IInvAlways, PTL

(* However they interleave, once no Start or Disconnect is in progress an  *)
(* installed backend has a live session, watched if the client asked so.   *)
THEOREM InstalledIsTracked == Spec => []TrackedWhileInstalled
<1>1. IInv => TrackedWhileInstalled
  BY DEF IInv, SessionOK, TrackedWhileInstalled, Quiet, Busy, Starting, Threads
<1>. QED
  BY <1>1, IInvAlways, PTL

(* As long as no Start or Disconnect overlaps another, every running       *)
(* backend is installed, in any number of sessions.                        *)
THEOREM SerialNoOrphan == Spec => []NoOrphanWhenSerial
<1>1. IInv => NoOrphanWhenSerial
  BY DEF IInv, SerialOK, NoOrphanWhenSerial, NoOrphan
<1>. QED
  BY <1>1, IInvAlways, PTL

(* As long as they do not overlap, one session at most is watched.         *)
THEOREM SerialOneTracker == Spec => []OneTrackerWhenSerial
<1>1. IInv => OneTrackerWhenSerial
  <2>. SUFFICES ASSUME IInv, ~overlap
                PROVE  Cardinality({s \in Ids \ cancelled : pc[s] = "wait"}) <= 1
    BY DEF OneTrackerWhenSerial
  <2>1. {s \in Ids \ cancelled : pc[s] = "wait"} \subseteq {cancel}
    BY DEF IInv, SerialOK
  <2>2. IsFiniteSet({cancel}) /\ Cardinality({cancel}) = 1
    BY FS_Singleton
  <2>. QED
    BY <2>1, <2>2, FS_Subset
<1>. QED
  BY <1>1, IInvAlways, PTL

=============================================================================
