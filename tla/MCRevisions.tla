----------------------------- MODULE MCRevisions -----------------------------
(***************************************************************************)
(* Model checking of what several actors compete for: the version numbers  *)
(* of an application's revisions (Rollout), and the only host port of a    *)
(* node that two workloads want (NodeAgent).                               *)
(*                                                                         *)
(* The two share no state, so a behaviour is one of one of them: "moving"  *)
(* says of which, and the other stays as it began.                         *)
(***************************************************************************)
EXTENDS Rollout, TLC

CONSTANTS Workloads, Stateful, Always, HostPorts, Requesters, CommandDeadline, DeliveryLease,
          TimeoutLag, UnhealthyAfter, OfflineAfter, MaxInFlight, Rival

VARIABLES node, desired, reservation, command, handlers, requests, eviction,
          container, agent, results, moving

Ports == INSTANCE MCNodeAgent

agentVars ==
  <<node, desired, reservation, command, handlers, requests, eviction, container, agent, results>>

RevisionsInit == moving \in {"revisions", "ports"} /\ Init /\ Ports!Init

RevisionsNext ==
  \/ moving = "revisions" /\ Next /\ UNCHANGED <<agentVars, moving>>
  \/ moving = "ports" /\ Ports!Next /\ UNCHANGED <<vars, moving>>

RevisionsSpec == RevisionsInit /\ [][RevisionsNext]_<<vars, agentVars, moving>>

(* The bounds of MCNodeAgent, and every workload wants the port, because   *)
(* one that does not is no rival. A tick changes neither versions nor      *)
(* builds, so it is followed as long as SerialRollout says something.      *)
(* Requests are interchangeable.                                           *)
FewCalls ==
  /\ moving = "ports" =>
       Ports!Explored /\ \A w \in Workloads : desired[w] # "none" => reservation[w].port # Ports!NoPort
  /\ moving = "revisions" /\ ~serial => \A t \in Ticks : At(t, "idle")
Interchangeable == Permutations(Users)

-----------------------------------------------------------------------------
(* NodeAgent!PortNotShared: a port that a running container binds is not   *)
(* reserved for the other workload, unless its start was given up.         *)
PortNotShared == Ports!PortNotShared
=============================================================================
