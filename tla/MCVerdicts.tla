------------------------------ MODULE MCVerdicts ------------------------------
(***************************************************************************)
(* Model checking of what is always decided in the end, and by whom: the   *)
(* runs of the builder (BuilderQueue), and the commands of one workload    *)
(* whose agent, network and Docker do as they like (NodeAgent).            *)
(*                                                                         *)
(* The two share no state, so a behaviour is one of one of them: "moving"  *)
(* says of which, and the other stays as it began.                         *)
(***************************************************************************)
EXTENDS BuilderQueue

CONSTANT Workload

VARIABLES node, desired, reservation, command, handlers, requests, eviction,
          container, agent, results, moving

Agents == INSTANCE NodeAgent WITH
  Workloads <- {Workload}, Stateful <- {}, Always <- {Workload}, HostPorts <- {1},
  Requesters <- {}, CommandDeadline <- 1, DeliveryLease <- 2, TimeoutLag <- 0,
  UnhealthyAfter <- 0, OfflineAfter <- 0, MaxInFlight <- 1

agentVars ==
  <<node, desired, reservation, command, handlers, requests, eviction, container, agent, results>>
verdictVars == <<vars, agentVars, moving>>

VerdictsInit == moving \in {"builder", "agents"} /\ Init /\ Agents!Init

VerdictsNext ==
  /\ UNCHANGED moving
  /\ IF moving = "builder" THEN Next ELSE UNCHANGED vars
  /\ IF moving = "agents" THEN Agents!Next ELSE UNCHANGED agentVars

(* The fairness of either module, in the behaviours of that module.        *)
VerdictsFairness ==
  /\ \A s \in Slots :
       /\ WF_vars(moving = "builder" /\ Proceeds(s))
       /\ WF_vars(moving = "builder" /\ PollCancellation(s))
       /\ WF_vars(moving = "builder" /\ Heartbeat(s))
       /\ WF_vars(moving = "builder" /\ slot[s].aborted /\ CheckoutFails(s))
  /\ \A r \in Runs : WF_vars(moving = "builder" /\ Abandoned(r) /\ ExpireLease(r))
  /\ WF_agentVars(moving = "agents" /\ Agents!Tick)
  /\ \A c \in Agents!Commands : WF_agentVars(moving = "agents" /\ Agents!FailExpired(c))

VerdictsSpec == VerdictsInit /\ [][VerdictsNext]_verdictVars /\ VerdictsFairness

-----------------------------------------------------------------------------
(* NodeAgent!EveryCommandDecided: whatever the agent, the network and      *)
(* Docker do, the timeout controller alone decides every command.          *)
EveryCommandDecided == Agents!EveryCommandDecided
=============================================================================
