-------------------------------- MODULE MCFleet --------------------------------
(***************************************************************************)
(* Model checking of the fleet: which nodes workloads, volumes and ports   *)
(* go to (Placement), and what becomes of the commands about a workload    *)
(* that one node got (NodeAgent).                                          *)
(*                                                                         *)
(* The two share no state here, so a behaviour is one of one of them:      *)
(* "moving" says of which, and the other stays as it began.                *)
(***************************************************************************)
EXTENDS NodeAgent, MCPlacement, TLC

VARIABLE moving

FleetInit == moving \in {"placement", "agents"} /\ PlcInit /\ Init

FleetNext ==
  /\ UNCHANGED moving
  /\ IF moving = "placement" THEN PlcNext ELSE UNCHANGED plcVars
  /\ IF moving = "agents" THEN Next ELSE UNCHANGED vars

FleetSpec == FleetInit /\ [][FleetNext]_<<plcVars, vars, moving>>

-----------------------------------------------------------------------------
(* Bounds: API calls of the agents in progress at the same time; volume    *)
(* requests and revisions being made at the same time; one revision and    *)
(* one pass where a volume is caught while it is deleted, and one pass     *)
(* where a stopped workload runs again; a second volume is attached before *)
(* there is a revision, stays, and lives on nodes that do not fail.        *)
TwoCallsAtATime == Cardinality(handlers) + Cardinality(results) + Cardinality(requests) <= 2
TwoRequestsAtATime == Cardinality(volumeCall) + Cardinality(DOMAIN gathered) <= 2
FewPasses ==
  /\ tooLate # {} => passes <= 1 /\ Cardinality(DOMAIN revision) <= 1
  /\ recounted => passes <= 1
OneVolumeChanges ==
  \A v \in Volumes \ {CHOOSE u \in Volumes : TRUE} :
    /\ VolumeListed(v) => nodeReady = Nodes
    /\ \A op \in {"attach", "detach", "delete"} :
         <<op, v>> \in volumeCall =>
           op = "attach" /\ revision = <<>> /\ gathered = <<>> /\ Cardinality(volumeCall) = 1
(* A workload without a host port behaves like one whose reservation       *)
(* nobody reads.                                                           *)
AllExposed == \A w \in Workloads : desired[w] # "none" => reservation[w].port # NoPort
Explored == AllExposed /\ TwoCallsAtATime /\ TwoRequestsAtATime /\ FewPasses /\ OneVolumeChanges

(* Nodes are interchangeable, and no property of the run is about the end. *)
Interchangeable == Permutations(Nodes)
=============================================================================
