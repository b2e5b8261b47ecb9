--------------------------- MODULE MCStatsTracker ---------------------------
(***************************************************************************)
(* Instances of StatsTracker and InterfaceCounters for TLC.  The two       *)
(* trackers of the WireGuard backend share no state and no lock, so that   *)
(* what is true of each by itself is true of both: a behaviour moves one   *)
(* of them, chosen at the start, while the other rests.                    *)
(***************************************************************************)
EXTENDS StatsTracker, InterfaceCounters

CONSTANTS h1, h2, k1

VARIABLE moving

trackersVars == <<moving, vars, interfaceVars>>

TrackersInit ==
  /\ moving \in {"peers", "interface"}
  /\ Init /\ InterfaceInit
  /\ moving = "peers" => counters = NoBytes
  /\ moving = "interface" => store = {}

PeersNext == moving = "peers" /\ Next /\ UNCHANGED <<moving, interfaceVars>>
OutboundNext == moving = "interface" /\ InterfaceNext /\ UNCHANGED <<moving, vars>>

TrackersSpec ==
  /\ TrackersInit /\ [][PeersNext \/ OutboundNext]_trackersVars
  /\ WF_trackersVars(moving = "peers" /\ GetUsersStats /\ UNCHANGED <<moving, interfaceVars>>)

\* Enough for two samples, a rollback and a re-add in one direction, while the
\* other one moves or not.
OneKeyTraffic == [rx |-> 3, tx |-> 1]

\* Room for two resets of the interface with traffic between them, in both
\* directions.
MCTraffic == [rx |-> 3, tx |-> 2]
=============================================================================
