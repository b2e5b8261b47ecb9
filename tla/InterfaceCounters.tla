------------------------- MODULE InterfaceCounters -------------------------
(***************************************************************************)
(* Interface-level traffic accounting of the WireGuard backend             *)
(* (node-main/pkg/stats/interface_counters.go): a request for outbound     *)
(* stats reads the interface's counters, then asks the tracker for the     *)
(* delta.  The two are not one critical section, so concurrent requests    *)
(* may reach the tracker in another order than they read the counters.     *)
(* A request that fails to read the interface changes nothing; the kernel  *)
(* always sends the counters of a link it finds.                           *)
(***************************************************************************)
EXTENDS Integers

CONSTANTS
  Handlers,      \* goroutines serving GetStats requests
  MaxMoved,      \* bound: bytes moved in each direction
  NoRequest      \* no request

Directions == {"rx", "tx"}
NoBytes == [d \in Directions |-> 0]
Sample == [Directions -> Nat]

ASSUME RequestAssumption == NoRequest \notin Sample
ASSUME MovedAssumption == MaxMoved \in Sample

VARIABLES
  counters,  \* the interface's counters
  base,      \* InterfaceCountersTracker.baseRx, baseTx
  baseSet,   \* InterfaceCountersTracker.baseSet
  request,   \* what the request of each handler has read
  moved,     \* history: bytes the interface has moved, over its resets
  billed,    \* history: bytes reported by requests with reset
  late,      \* history: requests overtaken by a Delta since they read
  reordered  \* history: some Delta came with the sample of such a request

interfaceVars == <<counters, base, baseSet, request, moved, billed, late, reordered>>

\* The interface moves a byte (external).
MoveByte(d) ==
  /\ moved[d] < MaxMoved[d]
  /\ counters' = [counters EXCEPT ![d] = @ + 1]
  /\ moved' = [moved EXCEPT ![d] = @ + 1]
  /\ UNCHANGED <<base, baseSet, request, billed, late, reordered>>

\* Something outside the node resets the interface (external); the tracker stays.
InterfaceReset ==
  /\ counters # NoBytes
  /\ counters' = NoBytes
  /\ UNCHANGED <<base, baseSet, request, moved, billed, late, reordered>>

\* getInterfaceCounters.
GetInterfaceStats(h) ==
  /\ request[h] = NoRequest
  /\ request' = [request EXCEPT ![h] = counters]
  /\ UNCHANGED <<counters, base, baseSet, moved, billed, late, reordered>>

\* The baseline Delta works with: the current counters on the first sample and
\* after a rollback in either direction.
Rebased(c) == IF ~baseSet \/ \E d \in Directions : c[d] < base[d] THEN c ELSE base

\* The request of h is over; the others in flight have been overtaken.
Leave(h) ==
  /\ request' = [request EXCEPT ![h] = NoRequest]
  /\ late' = {g \in Handlers \ {h} : request[g] # NoRequest}
  /\ reordered' = (reordered \/ h \in late)

\* Fault variant of Delta: a reset reports but keeps the baseline.
Fault_DeltaKeepsBase(h, reset) ==
  LET c == request[h]
      b == Rebased(c)
  IN /\ c # NoRequest
     /\ baseSet' = TRUE
     /\ base' = b
     /\ billed' = IF reset THEN [d \in Directions |-> billed[d] + c[d] - b[d]] ELSE billed
     /\ Leave(h)
     /\ UNCHANGED <<counters, moved>>

Delta(h, reset) ==
  LET c == request[h]
      b == Rebased(c)
  IN /\ c # NoRequest
     /\ baseSet' = TRUE
     /\ base' = IF reset THEN c ELSE b
     /\ billed' = IF reset THEN [d \in Directions |-> billed[d] + c[d] - b[d]] ELSE billed
     /\ Leave(h)
     /\ UNCHANGED <<counters, moved>>

\* The interface exists before the tracker and may have counted already.
InterfaceInit ==
  /\ counters \in [Directions -> 0..1] /\ moved = counters
  /\ base = NoBytes /\ baseSet = FALSE
  /\ request = [h \in Handlers |-> NoRequest]
  /\ billed = NoBytes
  /\ late = {} /\ reordered = FALSE

InterfaceNext ==
  \/ \E d \in Directions : MoveByte(d)
  \/ InterfaceReset
  \/ \E h \in Handlers : GetInterfaceStats(h)
  \/ \E h \in Handlers, reset \in BOOLEAN : Delta(h, reset)

InterfaceSpec == InterfaceInit /\ [][InterfaceNext]_interfaceVars

-----------------------------------------------------------------------------
(* Properties.                                                             *)

(* Every variable has its type; a reported delta is never negative.      *)
InterfaceTypeOK ==
  /\ counters \in Sample
  /\ base \in Sample
  /\ baseSet \in BOOLEAN
  /\ request \in [Handlers -> Sample \cup {NoRequest}]
  /\ moved \in Sample
  /\ billed \in Sample
  /\ late \in SUBSET Handlers
  /\ reordered \in BOOLEAN

(* Requests with reset never report more than the interface has moved,     *)
(* over resets of the interface, as long as no request reaches Delta       *)
(* with a sample read before another one's Delta.                          *)
InterfaceTrafficOnce == reordered \/ \A d \in Directions : billed[d] <= moved[d]

=============================================================================
