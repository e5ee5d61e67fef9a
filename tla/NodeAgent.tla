------------------------------ MODULE NodeAgent ------------------------------
(***************************************************************************)
(* One node of the fleet: the rows the control plane keeps for it, the     *)
(* agent process that polls for commands, and the Docker engine behind it. *)
(*                                                                         *)
(* The API server and the agent only meet over HTTP.  Every request of the *)
(* agent may be answered, be answered too late (apiFetch aborts it) or     *)
(* never be answered; a handler of the API is cut where other handlers,    *)
(* controllers or a restart of the API process can run between two of its  *)
(* database statements.                                                    *)
(*                                                                         *)
(* A command is named by the workload it is for and by who inserts it:     *)
(* "start" for the reconciler's workload.start, "offline" for the          *)
(* workload.stop of the node liveness controller, and a member of          *)
(* Requesters for a workload.stop of requestStateChange.  A requester      *)
(* stops a workload at most once, because the stop leaves the workload's   *)
(* desired state "stopped" for good.                                       *)
(*                                                                         *)
(* Time is kept as ages, the distance of a timestamp to now, which Tick    *)
(* advances together.  The actualState and health columns, which nothing   *)
(* here reads, belong to module Reconciler.                                *)
(***************************************************************************)
EXTENDS Naturals, FiniteSets

CONSTANTS
  Workloads,        \* workload rows that may be placed on this node
  Stateful,         \* those whose deployment mounts a volume
  Always,           \* those whose restart policy is "always"
  HostPorts,        \* public host ports of the node
  Requesters,       \* concurrent callers of requestStateChange
  CommandDeadline,  \* COMMAND_DEADLINE_MS
  DeliveryLease,    \* the five minutes of the command poll
  TimeoutLag,       \* how late the timeout controller may be
  UnhealthyAfter,   \* NODE_UNHEALTHY_AFTER_MS
  OfflineAfter,     \* NODE_OFFLINE_AFTER_MS
  MaxInFlight       \* bound of the model: results on the wire at once

NoPort == 0

ASSUME WorkloadAssumption == Stateful \subseteq Workloads /\ Always \subseteq Workloads
ASSUME PortAssumption == HostPorts \subseteq Nat \ {NoPort}
ASSUME RequesterAssumption == Requesters \cap {"start", "offline"} = {}
(* Two minutes against five: the timeout controller decides a command      *)
(* before its delivery lease can expire.                                   *)
ASSUME TimeAssumption ==
  /\ CommandDeadline \in Nat /\ DeliveryLease \in Nat /\ TimeoutLag \in Nat
  /\ UnhealthyAfter \in Nat /\ OfflineAfter \in Nat
  /\ CommandDeadline + TimeoutLag < DeliveryLease

Kinds == {"start", "offline"} \cup Requesters
Stops == {"offline"} \cup Requesters
Commands == Workloads \X Kinds
StartOf(w) == <<w, "start">>

VARIABLES
  node,         \* nodes row: status, and the age of lastHeartbeatAt
  desired,      \* desiredState of the workloads rows
  reservation,  \* nodePortReservations rows
  command,      \* agentCommands rows, with the ages of createdAt and deliveredAt
  handlers,     \* API handlers that still have to write the reservations
  requests,     \* requestStateChange calls between their reads and their write
  eviction,     \* the liveness controller between its statements for an offline node
  container,    \* Docker's state of each workload's container
  agent,        \* the agent process
  results       \* command results on the wire

rowVars == <<node, desired, reservation, command>>
apiVars == <<handlers, requests, eviction>>
vars == <<rowVars, apiVars, container, agent, results>>

Verdicts == {"succeeded", "failed"}
CommandRow == [status: {"none", "pending", "delivered"} \cup Verdicts,
               age: Nat, leased: Nat, attempts: Nat]
ReservationRow == [port: HostPorts \cup {NoPort},
                   status: {"none", "reserved", "bound", "released"}]
Result == [cmd: Commands, verdict: Verdicts]
Handler == [cmd: Commands, verdict: Verdicts, by: {"agent", "timeout"}]
ContainerStates == {"absent", "running", "stopping", "exited"}
NoReport == [cmd |-> <<>>, verdict |-> "none"]
AgentState == [pc: {"idle", "poll", "execute", "report", "await"},
               batch: SUBSET Commands,
               report: Result \cup {NoReport}]

TypeOK ==
  /\ node \in [status: {"ready", "unhealthy", "offline"}, heartbeat: Nat]
  /\ desired \in [Workloads -> {"none", "running", "stopped"}]
  /\ reservation \in [Workloads -> ReservationRow]
  /\ command \in [Commands -> CommandRow]
  /\ handlers \subseteq Handler
  /\ requests \subseteq Requesters \X Workloads
  /\ eviction \in [pc: {"idle", "select", "retire"}, assigned: SUBSET Workloads]
  /\ container \in [Workloads -> ContainerStates]
  /\ agent \in AgentState
  /\ agent.pc \in {"report", "await"} => agent.report \in Result
  /\ results \subseteq Result

-----------------------------------------------------------------------------
(* State formulae                                                          *)

Outstanding(c) == command[c].status \in {"pending", "delivered"}

Active(w) == reservation[w].status \in {"reserved", "bound"}

(* The partial unique index on active (node, host port) reservations.      *)
PortTaken(w, p) == \E v \in Workloads \ {w} : Active(v) /\ reservation[v].port = p

(* A container Docker counts as running; "stopping" is one whose stop has  *)
(* been requested but has not ended.                                       *)
Live(w) == container[w] \in {"running", "stopping"}

(* Docker's own view: another live container binds the host port p.        *)
PortBusy(w, p) ==
  p # NoPort /\ \E v \in Workloads \ {w} : Live(v) /\ reservation[v].port = p

(* Faulty variant of Expired: the controller forgets undelivered commands. *)
ExpiredIfDelivered(c) ==
  command[c].status = "delivered" /\ command[c].age > CommandDeadline

Expired(c) == Outstanding(c) /\ command[c].age > CommandDeadline

(* Faulty variant of Eligible: the delivery lease is not looked at.        *)
EligibleWhileOpen(c) == Outstanding(c)

(* The guard of the command poll: never delivered, or leased too long ago. *)
Eligible(c) ==
  \/ command[c].status = "pending"
  \/ command[c].status = "delivered" /\ command[c].leased > DeliveryLease

NewCommand == [status |-> "pending", age |-> 0, leased |-> 0, attempts |-> 0]

Delivered(row) ==
  [row EXCEPT !.status = "delivered", !.leased = 0, !.attempts = row.attempts + 1]

(* Faulty variant of Decided: a status the schema does not know.           *)
DecidedTimedOut(row, verdict) ==
  [row EXCEPT !.status = IF verdict = "failed" THEN "timed_out" ELSE verdict]

(* A command that receives its verdict; its ages are never read again.     *)
Decided(row, verdict) == [row EXCEPT !.status = verdict, !.age = 0, !.leased = 0]

NoEviction == [pc |-> "idle", assigned |-> {}]

Init ==
  /\ node = [status |-> "ready", heartbeat |-> 0]
  /\ desired = [w \in Workloads |-> "none"]
  /\ reservation = [w \in Workloads |-> [port |-> NoPort, status |-> "none"]]
  /\ command = [c \in Commands |-> [NewCommand EXCEPT !.status = "none"]]
  /\ handlers = {} /\ requests = {} /\ eviction = NoEviction
  /\ container = [w \in Workloads |-> "absent"]
  /\ agent = [pc |-> "idle", batch |-> {}, report |-> NoReport]
  /\ results = {}

-----------------------------------------------------------------------------
(* Control plane: placing and retiring workloads                           *)

(* The scheduling transaction of the reconciler: workload row, port        *)
(* reservation and workload.start command commit together; a host port     *)
(* that is already reserved aborts all three (unique violation).           *)
Place(w, p) ==
  /\ desired[w] = "none"
  /\ p # NoPort => ~PortTaken(w, p)
  /\ desired' = [desired EXCEPT ![w] = "running"]
  /\ reservation' = [reservation EXCEPT ![w] =
       [port |-> p, status |-> IF p = NoPort THEN "none" ELSE "reserved"]]
  /\ command' = [command EXCEPT ![StartOf(w)] = NewCommand]
  /\ UNCHANGED <<node, apiVars, container, agent, results>>

(* requestStateChange up to its reads: the row is still desired running    *)
(* and no stop is outstanding.                                             *)
DecideStop(r, w) ==
  /\ desired[w] = "running"
  /\ \A k \in Stops : ~Outstanding(<<w, k>>)
  /\ requests' = requests \cup {<<r, w>>}
  /\ UNCHANGED <<rowVars, handlers, eviction, container, agent, results>>

(* requestStateChange's transaction, on what it read before.               *)
CommitStop(r, w) ==
  /\ <<r, w>> \in requests
  /\ requests' = requests \ {<<r, w>>}
  /\ desired' = [desired EXCEPT ![w] = "stopped"]
  /\ command' = [command EXCEPT ![<<w, r>>] = NewCommand]
  /\ UNCHANGED <<node, reservation, handlers, eviction, container, agent, results>>

-----------------------------------------------------------------------------
(* Control plane: node liveness controller                                 *)

MarkUnhealthy ==
  /\ node.status = "ready" /\ node.heartbeat > UnhealthyAfter
  /\ node' = [node EXCEPT !.status = "unhealthy"]
  /\ UNCHANGED <<desired, reservation, command, apiVars, container, agent, results>>

(* The heartbeat predicate is part of the UPDATE, so a late heartbeat      *)
(* wins.  One tick of the controller ends before the next one can find the *)
(* node stale again.                                                       *)
MarkOffline ==
  /\ node.status = "unhealthy" /\ node.heartbeat > OfflineAfter
  /\ eviction.pc = "idle"
  /\ node' = [node EXCEPT !.status = "offline"]
  /\ eviction' = [eviction EXCEPT !.pc = "select"]
  /\ UNCHANGED <<desired, reservation, command, handlers, requests, container, agent, results>>

(* The tick then reads the workloads of the node.                          *)
SelectAssigned ==
  /\ eviction.pc = "select"
  /\ eviction' = [pc |-> "retire", assigned |-> {w \in Workloads : desired[w] = "running"}]
  /\ UNCHANGED <<rowVars, handlers, requests, container, agent, results>>

(* Stateless workloads are retired with a stop; stateful ones stay desired. *)
Evict ==
  LET retired == eviction.assigned \ Stateful IN
  /\ eviction.pc = "retire"
  /\ desired' = [w \in Workloads |-> IF w \in retired THEN "stopped" ELSE desired[w]]
  /\ command' = [c \in Commands |->
       IF c[2] = "offline" /\ c[1] \in retired THEN NewCommand ELSE command[c]]
  /\ eviction' = NoEviction
  /\ UNCHANGED <<node, reservation, handlers, requests, container, agent, results>>

-----------------------------------------------------------------------------
(* Control plane: command timeout controller and result route              *)

(* Faulty variant of FollowUp: a failed stop also frees the host port.     *)
FollowUpAlways(h) == {h}

(* What is left to do once h.cmd is decided: a start always updates the    *)
(* workload's reservation, a stop only when it succeeded.                  *)
FollowUp(h) == IF h.cmd[2] = "start" \/ h.verdict = "succeeded" THEN {h} ELSE {}

(* The compare-and-set that fails a command past its deadline.             *)
FailExpired(c) ==
  /\ Expired(c)
  /\ command' = [command EXCEPT ![c] = Decided(@, "failed")]
  /\ handlers' = handlers \cup
       FollowUp([cmd |-> c, verdict |-> "failed", by |-> "timeout"])
  /\ UNCHANGED <<node, desired, reservation, requests, eviction, container, agent, results>>

(* Faulty variant of ReceiveResult: the update forgets the status check.   *)
ReceiveResultBlindly(m) ==
  /\ m \in results
  /\ results' = results \ {m}
  /\ command' = [command EXCEPT ![m.cmd] = Decided(@, m.verdict)]
  /\ handlers' = handlers \cup
       FollowUp([cmd |-> m.cmd, verdict |-> m.verdict, by |-> "agent"])
  /\ UNCHANGED <<node, desired, reservation, requests, eviction, container, agent>>

(* The result route decides a delivered command; any other answer is 404.  *)
ReceiveResult(m) ==
  LET accepted == command[m.cmd].status = "delivered" IN
  /\ m \in results
  /\ results' = results \ {m}
  /\ command' = IF accepted
                THEN [command EXCEPT ![m.cmd] = Decided(@, m.verdict)]
                ELSE command
  /\ handlers' = IF accepted
                 THEN handlers \cup
                      FollowUp([cmd |-> m.cmd, verdict |-> m.verdict, by |-> "agent"])
                 ELSE handlers
  /\ UNCHANGED <<node, desired, reservation, requests, eviction, container, agent>>

(* What a decided command means for the workload's reservation.  A start   *)
(* that succeeded binds it, which fails on the index when somebody else    *)
(* reserved the port meanwhile; a failed start or a successful stop gives  *)
(* it back, except that a timeout only gives back what was never bound.    *)
NextReservation(h, row, taken) ==
  LET binds == h.cmd[2] = "start" /\ h.verdict = "succeeded"
      keeps == \/ row.status = "none"
               \/ binds /\ taken
               \/ h.by = "timeout" /\ row.status # "reserved" IN
  IF keeps THEN row.status ELSE IF binds THEN "bound" ELSE "released"

(* The last write of the result route and of the timeout controller.       *)
WriteReservation(h) ==
  LET w == h.cmd[1] IN
  /\ h \in handlers
  /\ handlers' = handlers \ {h}
  /\ reservation' = [reservation EXCEPT ![w].status =
       NextReservation(h, reservation[w], PortTaken(w, reservation[w].port))]
  /\ UNCHANGED <<node, desired, command, requests, eviction, container, agent, results>>

-----------------------------------------------------------------------------
(* Agent: one tick at a time                                               *)

(* report() threw.  Inside the try block of execute() the catch block now  *)
(* reports a failure; when that throws too, the whole tick is abandoned    *)
(* with the commands it had not executed yet.                              *)
Thrown(a) ==
  IF a.report.verdict = "succeeded"
  THEN [a EXCEPT !.pc = "report", !.report = [a.report EXCEPT !.verdict = "failed"]]
  ELSE [pc |-> "idle", batch |-> {}, report |-> NoReport]

(* The tick starts with a heartbeat; if the answer is lost it ends there.  *)
Heartbeat ==
  /\ agent.pc = "idle"
  /\ node' = [status |-> "ready", heartbeat |-> 0]
  /\ \E pc \in {"poll", "idle"} : agent' = [agent EXCEPT !.pc = pc]
  /\ UNCHANGED <<desired, reservation, command, apiVars, container, results>>

(* The poll leases the eligible commands and answers with them; if the     *)
(* answer is lost, the leases taken so far stay and the agent has nothing. *)
Poll ==
  LET eligible == {c \in Commands : Eligible(c)} IN
  \E leased \in SUBSET eligible :
    /\ agent.pc = "poll"
    /\ command' = [c \in Commands |-> IF c \in leased THEN Delivered(command[c]) ELSE command[c]]
    /\ \/ leased = eligible /\ agent' = [agent EXCEPT !.pc = "execute", !.batch = leased]
       \/ agent' = [agent EXCEPT !.pc = "idle"]
    /\ UNCHANGED <<node, desired, reservation, apiVars, container, results>>

(* The agent ends command c, in any order of its batch, with Docker        *)
(* leaving the container in state s; verdict is what it will report.       *)
Finish(c, s, verdict) ==
  /\ agent.pc = "execute" /\ c \in agent.batch
  /\ container' = [container EXCEPT ![c[1]] = s]
  /\ agent' = [pc |-> "report", batch |-> agent.batch \ {c},
               report |-> [cmd |-> c, verdict |-> verdict]]
  /\ UNCHANGED <<rowVars, apiVars, results>>

(* ContainerRuntime.start: a running container is success; otherwise it is *)
(* removed, the image pulled, the container created and started.  It can   *)
(* fail before the create, at the start (the host port is bound), or after *)
(* the container already runs (the final inspect).  So it may leave the    *)
(* container in state s and end with this verdict.                         *)
StartMayLeave(w, s, verdict) ==
  \/ Live(w) /\ s = container[w]
  \/ ~Live(w) /\ s \in {"absent", "exited"} /\ verdict = "failed"
  \/ ~Live(w) /\ s = "running" /\ ~PortBusy(w, reservation[w].port)

ExecuteStart(w) ==
  \E s \in ContainerStates, verdict \in Verdicts :
    StartMayLeave(w, s, verdict) /\ Finish(StartOf(w), s, verdict)

(* Faulty variant of ExecuteStop: an absent container counts as stopped.   *)
ExecuteStopIfAbsent(w, k) ==
  LET c == <<w, k>> IN
  \/ Live(w) /\ Finish(c, "exited", "succeeded")
  \/ ~Live(w) /\ Finish(c, container[w], "succeeded")

(* ContainerRuntime.stop: Docker answers 404 for an absent container and   *)
(* 304 for one that does not run, both errors to the runtime adapter.  The *)
(* request may also time out while Docker goes on stopping the container.  *)
ExecuteStop(w, k) ==
  LET c == <<w, k>> IN
  \/ Live(w) /\ Finish(c, "exited", "succeeded")
  \/ Live(w) /\ Finish(c, "stopping", "failed")
  \/ Finish(c, container[w], "failed")

SendResult ==
  /\ agent.pc = "report" /\ Cardinality(results) < MaxInFlight
  /\ results' = results \cup {agent.report}
  /\ agent' = [agent EXCEPT !.pc = "await"]
  /\ UNCHANGED <<rowVars, apiVars, container>>

(* The API answered (the status of the answer is ignored): its handler has *)
(* made all its writes.                                                    *)
ResultAnswered ==
  /\ agent.pc = "await" /\ agent.report \notin results
  /\ \A h \in handlers : h.by = "agent" => h.cmd # agent.report.cmd
  /\ agent' = [agent EXCEPT !.pc = "execute", !.report = NoReport]
  /\ UNCHANGED <<rowVars, apiVars, container, results>>

(* The request timed out; the result may still reach the API, or never.    *)
ResultTimesOut ==
  /\ agent.pc = "await"
  /\ agent' = Thrown(agent)
  /\ UNCHANGED <<rowVars, apiVars, container, results>>

(* The commands are done; telemetry and metrics end the tick.              *)
EndTick ==
  /\ agent.pc = "execute" /\ agent.batch = {}
  /\ agent' = [agent EXCEPT !.pc = "idle"]
  /\ UNCHANGED <<rowVars, apiVars, container, results>>

-----------------------------------------------------------------------------
(* Environment                                                             *)

(* The agent process dies and is restarted; its batch is gone.             *)
AgentRestart ==
  /\ agent.pc # "idle"
  /\ agent' = [pc |-> "idle", batch |-> {}, report |-> NoReport]
  /\ UNCHANGED <<rowVars, apiVars, container, results>>

(* The API process dies: handlers and controllers stop between two writes  *)
(* and open connections are reset.                                         *)
ApiRestart ==
  /\ handlers' = {} /\ requests' = {} /\ eviction' = NoEviction /\ results' = {}
  /\ agent' = IF agent.pc = "await" THEN Thrown(agent) ELSE agent
  /\ UNCHANGED <<rowVars, container>>

(* A container's process ends for good (Docker itself restarts it under    *)
(* the default policy), or Docker completes a stop that timed out.         *)
ContainerExits(w) ==
  /\ Live(w)
  /\ container' = [container EXCEPT ![w] = "exited"]
  /\ UNCHANGED <<rowVars, apiVars, agent, results>>

(* The Docker daemon restarts and, under the policy "always", starts even  *)
(* a container that was stopped.                                           *)
DaemonRestart(w) ==
  /\ w \in Always /\ container[w] = "exited"
  /\ ~PortBusy(w, reservation[w].port)
  /\ container' = [container EXCEPT ![w] = "running"]
  /\ UNCHANGED <<rowVars, apiVars, agent, results>>

Older(row) ==
  [row EXCEPT !.age = row.age + 1,
              !.leased = IF row.status = "delivered" THEN row.leased + 1 ELSE row.leased]

(* Time passes, but not so far that the timeout controller, which runs     *)
(* every 15 seconds, would be later than TimeoutLag.  The age of a         *)
(* heartbeat matters only up to OfflineAfter.                              *)
Tick ==
  /\ \A c \in Commands : Outstanding(c) => command[c].age <= CommandDeadline + TimeoutLag
  /\ command' = [c \in Commands |-> IF Outstanding(c) THEN Older(command[c]) ELSE command[c]]
  /\ node' = [node EXCEPT !.heartbeat =
       IF node.heartbeat > OfflineAfter THEN node.heartbeat ELSE node.heartbeat + 1]
  /\ UNCHANGED <<desired, reservation, apiVars, container, agent, results>>

Controllers ==
  \/ \E w \in Workloads, p \in HostPorts \cup {NoPort} : Place(w, p)
  \/ \E r \in Requesters, w \in Workloads : DecideStop(r, w) \/ CommitStop(r, w)
  \/ MarkUnhealthy \/ MarkOffline \/ SelectAssigned \/ Evict
  \/ \E c \in Commands : FailExpired(c)
  \/ \E h \in handlers : WriteReservation(h)
  \/ \E m \in results : ReceiveResult(m)

AgentSteps ==
  \/ Heartbeat \/ Poll \/ SendResult \/ ResultAnswered \/ EndTick
  \/ \E w \in Workloads : ExecuteStart(w) \/ \E k \in Stops : ExecuteStop(w, k)

Faults ==
  \/ ResultTimesOut \/ AgentRestart \/ ApiRestart
  \/ \E w \in Workloads : ContainerExits(w) \/ DaemonRestart(w)

Next == Controllers \/ AgentSteps \/ Faults \/ Tick

Spec == Init /\ [][Next]_vars

(* The timeout controller runs on an interval of the API process, which is *)
(* restarted when it dies, so it acts on every expired command; and time   *)
(* passes.                                                                 *)
ControllerFairness ==
  /\ WF_vars(Tick)
  /\ \A c \in Commands : WF_vars(FailExpired(c))

FairSpec == Spec /\ ControllerFairness

(* In addition the agent keeps ticking: it is restarted when it dies.      *)
AgentFairSpec == FairSpec /\ WF_vars(Heartbeat) /\ SF_vars(Poll)

-----------------------------------------------------------------------------
(* Properties                                                              *)

(* However often the agent crashes, loses an answer or comes back late,    *)
(* the poll route hands a workload command out at most once: the deadline  *)
(* ends the command before its delivery lease does.                        *)
AtMostOneDelivery == \A c \in Commands : command[c].attempts <= 1

(* A workload whose stop was accepted as successful never runs again: no   *)
(* late, repeated or reordered workload.start brings its container back.   *)
(* (Docker itself may, under the restart policy "always".)                 *)
NoResurrection ==
  \A w \in Workloads \ Always :
    (\E k \in Stops : command[<<w, k>>].status = "succeeded") => ~Live(w)

(* A host port that a live container binds stays reserved for it, so that  *)
(* the reconciler hands it to nobody else, unless the API has been told,   *)
(* or has concluded from the deadline, that the start failed.              *)
PortHeld ==
  \A w \in Workloads \ Always :
    Live(w) /\ reservation[w].port # NoPort =>
      Active(w) \/ command[StartOf(w)].status = "failed"

(* Hence the control plane never reserves, for another workload, a port    *)
(* that a container it has not given up on still binds.                    *)
PortNotShared ==
  \A w \in Workloads \ Always, v \in Workloads :
    /\ w # v /\ Live(w) /\ Active(v)
    /\ reservation[w].port # NoPort /\ reservation[v].port = reservation[w].port
    => command[StartOf(w)].status = "failed"

(* The command table behaves as its abstract specification promises:       *)
(* issued once, leased before it is reported on, one final verdict.        *)
Ledger == INSTANCE CommandLedger WITH status <- [c \in Commands |-> command[c].status]

LedgerRefinement == Ledger!Spec

(* Every command is decided, whatever the agent does.                      *)
EveryCommandDecided ==
  \A c \in Commands : Outstanding(c) ~> command[c].status \in Verdicts

(* The comment in the liveness controller, "Stateless workloads are        *)
(* retired so a returning node cannot revive a duplicate": once the node   *)
(* is back and the stop that retired a workload is decided, the            *)
(* workload's container does not run.                                      *)
NoDuplicateOnReturn ==
  \A w \in Workloads \ Stateful :
    /\ node.status = "ready"
    /\ command[<<w, "offline">>].status \in Verdicts
    => ~Live(w)

(* The agent process no longer has, and is not reporting on, c.            *)
Forgotten(c) ==
  /\ c \notin agent.batch /\ agent.report.cmd # c
  /\ \A m \in results : m.cmd # c

(* The comment in the schema, "A delivery lease prevents repeat execution  *)
(* while still allowing recovery after an agent crash": a leased command   *)
(* that the agent has lost is leased again.                                *)
LeaseRecovers ==
  \A c \in Commands :
    command[c].status = "delivered" /\ Forgotten(c) ~> command[c].attempts > 1
=============================================================================
