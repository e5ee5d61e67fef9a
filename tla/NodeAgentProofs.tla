--------------------------- MODULE NodeAgentProofs ---------------------------
(***************************************************************************)
(* Proofs about NodeAgent, for any number of workloads, host ports and     *)
(* concurrent requests and for any deadline shorter than the lease.        *)
(***************************************************************************)
EXTENDS NodeAgent, TLAPS

(* No stop command is confused with the start command.                     *)
LEMMA KindFacts ==
  /\ "start" \in Kinds /\ "offline" \in Kinds /\ Requesters \subseteq Kinds
  /\ \A k \in Stops : k \in Kinds /\ k # "start"
  /\ \A k \in Kinds : k # "start" => k \in Stops
  /\ "offline" \notin Requesters
BY RequesterAssumption DEF Kinds, Stops

(* What the four writes to a command row do to its fields.                 *)
LEMMA RowFacts ==
  /\ NewCommand \in CommandRow
  /\ \A row \in CommandRow, v \in Verdicts :
       /\ Decided(row, v) \in CommandRow
       /\ Decided(row, v).status = v /\ Decided(row, v).attempts = row.attempts
  /\ \A row \in CommandRow :
       /\ Delivered(row) \in CommandRow
       /\ Delivered(row).status = "delivered" /\ Delivered(row).age = row.age
       /\ Delivered(row).leased = 0 /\ Delivered(row).attempts = row.attempts + 1
  /\ \A row \in CommandRow :
       /\ Older(row) \in CommandRow
       /\ Older(row).status = row.status /\ Older(row).age = row.age + 1
       /\ Older(row).leased = (IF row.status = "delivered" THEN row.leased + 1 ELSE row.leased)
       /\ Older(row).attempts = row.attempts
<1>1. NewCommand \in CommandRow
  BY DEF NewCommand, CommandRow
<1>2. \A row \in CommandRow, v \in Verdicts :
        /\ Decided(row, v) \in CommandRow
        /\ Decided(row, v).status = v /\ Decided(row, v).attempts = row.attempts
  BY DEF Decided, CommandRow, Verdicts
<1>3. ASSUME NEW row \in CommandRow
      PROVE  /\ Delivered(row) \in CommandRow
             /\ Delivered(row).status = "delivered" /\ Delivered(row).age = row.age
             /\ Delivered(row).leased = 0 /\ Delivered(row).attempts = row.attempts + 1
  <2>1. row.attempts + 1 \in Nat
    BY DEF CommandRow
  <2> QED
    BY <2>1 DEF CommandRow, Delivered
<1>4. ASSUME NEW row \in CommandRow
      PROVE  /\ Older(row) \in CommandRow
             /\ Older(row).status = row.status /\ Older(row).age = row.age + 1
             /\ Older(row).leased = (IF row.status = "delivered" THEN row.leased + 1 ELSE row.leased)
             /\ Older(row).attempts = row.attempts
  <2>1. row.age + 1 \in Nat /\ row.leased + 1 \in Nat
    BY DEF CommandRow
  <2> QED
    BY <2>1 DEF CommandRow, Older
<1> QED
  BY <1>1, <1>2, <1>3, <1>4

-----------------------------------------------------------------------------
(* Type correctness                                                        *)

(* Every step of the node, its agent and the control plane keeps the rows  *)
(* and the messages well formed.                                           *)
LEMMA TypeStep == TypeOK /\ [Next]_vars => TypeOK'
<1> SUFFICES ASSUME TypeOK, [Next]_vars PROVE TypeOK'
  OBVIOUS
<1> USE KindFacts DEF TypeOK, ContainerStates
<1>1. NewCommand \in CommandRow
  BY RowFacts
<1>2. \A row \in CommandRow, v \in Verdicts : Decided(row, v) \in CommandRow
  BY RowFacts
<1>3. ASSUME NEW a \in AgentState, a.pc = "await", a.report \in Result
      PROVE  /\ Thrown(a) \in AgentState
             /\ Thrown(a).pc \in {"report", "await"} => Thrown(a).report \in Result
  BY <1>3 DEF Thrown, AgentState, Result, Verdicts, NoReport
<1>4. ASSUME NEW w \in Workloads, NEW p \in HostPorts \cup {NoPort}, Place(w, p) PROVE TypeOK'
  BY <1>1, <1>4 DEF Place, ReservationRow, StartOf, Commands, apiVars
<1>5. ASSUME NEW r \in Requesters, NEW w \in Workloads, DecideStop(r, w) PROVE TypeOK'
  BY <1>5 DEF DecideStop, rowVars
<1>6. ASSUME NEW r \in Requesters, NEW w \in Workloads, CommitStop(r, w) PROVE TypeOK'
  BY <1>1, <1>6 DEF CommitStop, Commands
<1>7. CASE MarkUnhealthy
  BY <1>7 DEF MarkUnhealthy, apiVars
<1>8. CASE MarkOffline
  BY <1>8 DEF MarkOffline
<1>9. CASE SelectAssigned
  BY <1>9 DEF SelectAssigned, rowVars
<1>10. CASE Evict
  BY <1>1, <1>10 DEF Evict, NoEviction
<1>11. ASSUME NEW c \in Commands, FailExpired(c) PROVE TypeOK'
  BY <1>2, <1>11 DEF FailExpired, FollowUp, Handler, Verdicts
<1>12. ASSUME NEW h \in handlers, WriteReservation(h) PROVE TypeOK'
  BY <1>12 DEF WriteReservation, NextReservation, Handler, ReservationRow, Commands
<1>13. ASSUME NEW m \in results, ReceiveResult(m) PROVE TypeOK'
  BY <1>2, <1>13 DEF ReceiveResult, FollowUp, Handler, Result
<1>14. CASE Heartbeat
  BY <1>14 DEF Heartbeat, AgentState, apiVars
<1>15. CASE Poll
  <2>1. \A row \in CommandRow : Delivered(row) \in CommandRow
    BY RowFacts
  <2>2. command' \in [Commands -> CommandRow]
    BY <1>15, <2>1 DEF Poll
  <2>3. agent' \in AgentState /\ agent'.pc \in {"execute", "idle"}
    BY <1>15 DEF Poll, AgentState
  <2> QED
    BY <1>15, <2>2, <2>3 DEF Poll, apiVars
<1>16. CASE SendResult
  BY <1>16 DEF SendResult, AgentState, apiVars, rowVars
<1>17. CASE ResultAnswered
  BY <1>17 DEF ResultAnswered, AgentState, apiVars, rowVars
<1>18. CASE EndTick
  BY <1>18 DEF EndTick, AgentState, apiVars, rowVars
<1>19. ASSUME NEW c \in Commands, NEW s \in {"absent", "running", "stopping", "exited"},
              NEW v \in Verdicts, Finish(c, s, v)
       PROVE  TypeOK'
  BY <1>19 DEF Finish, AgentState, Result, Commands, apiVars, rowVars
<1>20. ASSUME NEW w \in Workloads, ExecuteStart(w) PROVE TypeOK'
  BY <1>19, <1>20 DEF ExecuteStart, StartOf, Commands, Verdicts
<1>21. ASSUME NEW w \in Workloads, NEW k \in Stops, ExecuteStop(w, k) PROVE TypeOK'
  BY <1>19, <1>21 DEF ExecuteStop, Commands, Verdicts
<1>22. CASE ResultTimesOut
  BY <1>3, <1>22 DEF ResultTimesOut, apiVars, rowVars
<1>23. CASE AgentRestart
  BY <1>23 DEF AgentRestart, AgentState, apiVars, rowVars
<1>24. CASE ApiRestart
  BY <1>3, <1>24 DEF ApiRestart, rowVars, NoEviction
<1>25. ASSUME NEW w \in Workloads, ContainerExits(w) \/ DaemonRestart(w) PROVE TypeOK'
  BY <1>25 DEF ContainerExits, DaemonRestart, apiVars, rowVars
<1>26. CASE Tick
  <2>1. \A row \in CommandRow : Older(row) \in CommandRow
    BY RowFacts
  <2>2. command' \in [Commands -> CommandRow]
    BY <1>26, <2>1 DEF Tick
  <2>3. node' \in [status: {"ready", "unhealthy", "offline"}, heartbeat: Nat]
    BY <1>26 DEF Tick
  <2> QED
    BY <1>26, <2>2, <2>3 DEF Tick, apiVars
<1>27. CASE UNCHANGED vars
  BY <1>27 DEF vars, rowVars, apiVars
<1> QED
  BY <1>4, <1>5, <1>6, <1>7, <1>8, <1>9, <1>10, <1>11, <1>12, <1>13, <1>14, <1>15, <1>16,
     <1>17, <1>18, <1>20, <1>21, <1>22, <1>23, <1>24, <1>25, <1>26, <1>27
     DEF Next, Controllers, AgentSteps, Faults

(* Type correctness of the node, its agent and their rows.                 *)
THEOREM TypeCorrectness == Spec => []TypeOK
<1>1. Init => TypeOK
  BY DEF Init, TypeOK, NewCommand, CommandRow, ReservationRow, NoEviction, AgentState, ContainerStates
<1> QED
  BY <1>1, TypeStep, PTL DEF Spec

-----------------------------------------------------------------------------
(* The inductive invariant                                                 *)

(* An undecided command is never old enough for its lease to end.          *)
Young ==
  \A c \in Commands : Outstanding(c) =>
    /\ command[c].age <= CommandDeadline + TimeoutLag + 1
    /\ command[c].leased <= command[c].age

(* The status of a command tells how often it was delivered.               *)
Counted ==
  \A c \in Commands :
    /\ command[c].status \in {"none", "pending"} => command[c].attempts = 0
    /\ command[c].status = "delivered" => command[c].attempts = 1
    /\ command[c].attempts <= 1

(* Whoever is about to insert a command is the first to do so.             *)
Unissued ==
  /\ \A w \in Workloads : desired[w] = "none" =>
       \A k \in Kinds : command[<<w, k>>].status = "none"
  /\ \A w \in Workloads : desired[w] = "running" =>
       \A k \in Stops : command[<<w, k>>].status = "none"
  /\ \A r \in Requesters, w \in Workloads : <<r, w>> \in requests =>
       desired[w] # "none" /\ command[<<w, r>>].status = "none"
  /\ \A w \in eviction.assigned :
       desired[w] # "none" /\ command[<<w, "offline">>].status = "none"

(* The agent holds only delivered commands, and no start that it has       *)
(* already carried out.                                                    *)
HeldOnce ==
  /\ \A c \in agent.batch : command[c].attempts = 1
  /\ \A w \in Workloads : container[w] # "absent" =>
       command[StartOf(w)].attempts = 1 /\ StartOf(w) \notin agent.batch

(* If v is the verdict on the stop c then the container is down.           *)
TrueStop(c, v) ==
  c[2] \in Stops /\ c[1] \notin Always /\ v = "succeeded" => container[c[1]] = "exited"

(* Every claim, on its way or recorded, that a stop succeeded is true.     *)
StopsTrue ==
  /\ agent.pc \in {"report", "await"} => TrueStop(agent.report.cmd, agent.report.verdict)
  /\ \A m \in results : TrueStop(m.cmd, m.verdict)
  /\ \A c \in Commands : TrueStop(c, command[c].status)

(* A handler finishes what the verdict in the table calls for.             *)
HandlersAgree ==
  \A h \in handlers :
    /\ command[h.cmd].status = h.verdict
    /\ h.cmd[2] = "start" \/ h.verdict = "succeeded"

(* A host port is given up only for a failed start or a stopped container. *)
PortsKept ==
  \A w \in Workloads \ Always :
    reservation[w].port # NoPort /\ ~Active(w) =>
      command[StartOf(w)].status = "failed" \/ container[w] = "exited"

(* The unique index on active reservations.                                *)
PortsUnique ==
  \A w, v \in Workloads :
    w # v /\ Active(w) /\ Active(v) /\ reservation[w].port # NoPort =>
      reservation[w].port # reservation[v].port

Inductive ==
  /\ TypeOK /\ Young /\ Counted /\ Unissued /\ HeldOnce /\ StopsTrue
  /\ HandlersAgree /\ PortsKept /\ PortsUnique

(* The life of one command row: it is inserted once, delivered once and    *)
(* decided once, and grows older only while it is undecided.               *)
RowStep(c) ==
  \/ command'[c] = command[c]
  \/ command[c].status = "none" /\ command'[c] = NewCommand
  \/ command[c].status = "pending" /\ command'[c] = Delivered(command[c])
  \/ \E v \in Verdicts :
       /\ Outstanding(c) /\ command'[c] = Decided(command[c], v)
       /\ v = "succeeded" => [cmd |-> c, verdict |-> v] \in results
  \/ /\ Outstanding(c) /\ command[c].age <= CommandDeadline + TimeoutLag
     /\ command'[c] = Older(command[c])

(* A young command is eligible for the poll only if it is pending.         *)
LEMMA EligibleIsPending ==
  TypeOK /\ Young => \A c \in Commands : Eligible(c) => command[c].status = "pending"
<1> SUFFICES ASSUME TypeOK, Young, NEW c \in Commands, Eligible(c), command[c].status = "delivered"
    PROVE FALSE
  BY DEF Eligible
<1>1. command[c] \in CommandRow
  BY DEF TypeOK
<1>2. command[c].age \in Nat /\ command[c].leased \in Nat
  BY <1>1 DEF CommandRow
<1>3. command[c].leased > DeliveryLease
  BY DEF Eligible
<1>4. command[c].leased <= command[c].age /\ command[c].age <= CommandDeadline + TimeoutLag + 1
  BY DEF Young, Outstanding
<1> QED
  BY <1>2, <1>3, <1>4, TimeAssumption

(* Every step of the system moves each command row along that life.        *)
LEMMA CommandStep == Inductive /\ [Next]_vars => \A c \in Commands : RowStep(c)
<1> SUFFICES ASSUME Inductive, [Next]_vars, NEW c \in Commands PROVE RowStep(c)
  OBVIOUS
<1> USE KindFacts DEF RowStep
<1>0. TypeOK /\ Young /\ Unissued
  BY DEF Inductive
<1>1. command \in [Commands -> CommandRow]
  BY <1>0 DEF TypeOK
<1>2. PICK w0 \in Workloads, k0 \in Kinds : c = <<w0, k0>>
  BY DEF Commands
<1>3. CASE UNCHANGED command
  BY <1>3
<1>4. ASSUME NEW w \in Workloads, NEW p \in HostPorts \cup {NoPort}, Place(w, p) PROVE RowStep(c)
  BY <1>0, <1>1, <1>4 DEF Place, Unissued, StartOf, Commands
<1>5. ASSUME NEW r \in Requesters, NEW w \in Workloads, CommitStop(r, w) PROVE RowStep(c)
  BY <1>0, <1>1, <1>5 DEF CommitStop, Unissued, Commands
<1>6. CASE Evict
  <2>1. c[2] = "offline" /\ c[1] \in eviction.assigned => command[c].status = "none"
    BY <1>0, <1>2 DEF Unissued
  <2> QED
    BY <1>1, <1>6, <2>1 DEF Evict
<1>7. ASSUME NEW d \in Commands, FailExpired(d) PROVE RowStep(c)
  BY <1>1, <1>7 DEF FailExpired, Expired, Verdicts
<1>8. ASSUME NEW m \in results, ReceiveResult(m) PROVE RowStep(c)
  <2>1. m.cmd \in Commands /\ m.verdict \in Verdicts /\ m = [cmd |-> m.cmd, verdict |-> m.verdict]
    BY <1>0 DEF TypeOK, Result
  <2> QED
    BY <1>1, <1>8, <2>1 DEF ReceiveResult, Outstanding
<1>9. CASE Poll
  BY <1>0, <1>1, <1>9, EligibleIsPending DEF Poll
<1>10. CASE Tick
  BY <1>1, <1>10 DEF Tick
<1> QED
  BY <1>3, <1>4, <1>5, <1>6, <1>7, <1>8, <1>9, <1>10
     DEF Next, Controllers, AgentSteps, Faults, DecideStop, MarkUnhealthy, MarkOffline,
         SelectAssigned, WriteReservation, Heartbeat, SendResult, ResultAnswered, EndTick,
         ExecuteStart, ExecuteStop, Finish, ResultTimesOut, AgentRestart, ApiRestart,
         ContainerExits, DaemonRestart, vars, rowVars

(* What a step can never undo in the command table.                        *)
LEMMA CommandForward ==
  Inductive /\ [Next]_vars =>
    \A c \in Commands :
      /\ command[c].attempts = 1 => command'[c].attempts = 1
      /\ command[c].status \in Verdicts => command'[c].status = command[c].status
      /\ command'[c].status = "none" => command[c].status = "none"
<1> SUFFICES ASSUME Inductive, [Next]_vars, NEW c \in Commands
    PROVE /\ command[c].attempts = 1 => command'[c].attempts = 1
          /\ command[c].status \in Verdicts => command'[c].status = command[c].status
          /\ command'[c].status = "none" => command[c].status = "none"
  OBVIOUS
<1> DEFINE Goal == /\ command[c].attempts = 1 => command'[c].attempts = 1
                   /\ command[c].status \in Verdicts => command'[c].status = command[c].status
                   /\ command'[c].status = "none" => command[c].status = "none"
<1>1. RowStep(c)
  BY CommandStep
<1>2. command[c] \in CommandRow
  BY DEF Inductive, TypeOK
<1>3. /\ command[c].status \in {"none", "pending"} => command[c].attempts = 0
      /\ command[c].status = "delivered" => command[c].attempts = 1
  BY DEF Inductive, Counted
<1>4. /\ command[c].status \in {"none", "pending", "delivered"} \cup Verdicts
      /\ command[c].age \in Nat /\ command[c].leased \in Nat /\ command[c].attempts \in Nat
  BY <1>2 DEF CommandRow
<1>5. CASE command'[c] = command[c]
  BY <1>5, <1>3, <1>4 DEF Outstanding, Verdicts
<1>6. CASE command[c].status = "none" /\ command'[c] = NewCommand
  BY <1>6, <1>3, <1>4 DEF Outstanding, Verdicts, NewCommand
<1>7. CASE command[c].status = "pending" /\ command'[c] = Delivered(command[c])
  <2>1. /\ command'[c].status = "delivered" /\ command'[c].age = command[c].age
        /\ command'[c].leased = 0 /\ command'[c].attempts = command[c].attempts + 1
    BY <1>2, <1>7, RowFacts
  <2> QED
    BY <1>7, <2>1, <1>3, <1>4 DEF Outstanding, Verdicts
<1>8. ASSUME NEW v \in Verdicts, Outstanding(c), command'[c] = Decided(command[c], v)
      PROVE  Goal
  <2>1. command'[c].status = v /\ command'[c].attempts = command[c].attempts
    BY <1>2, <1>8, RowFacts
  <2> QED
    BY <1>8, <2>1, <1>3, <1>4 DEF Outstanding, Verdicts
<1>9. CASE /\ Outstanding(c) /\ command[c].age <= CommandDeadline + TimeoutLag
            /\ command'[c] = Older(command[c])
  <2>1. /\ command'[c].status = command[c].status /\ command'[c].age = command[c].age + 1
        /\ command'[c].leased \in {command[c].leased, command[c].leased + 1}
        /\ command'[c].attempts = command[c].attempts
    BY <1>2, <1>9, RowFacts
  <2> QED
    BY <1>9, <2>1, <1>3, <1>4 DEF Outstanding, Verdicts
<1> QED
  BY <1>1, <1>5, <1>6, <1>7, <1>8, <1>9 DEF RowStep

(* Undecided commands stay young and deliveries stay counted: the timeout  *)
(* controller holds time back until it has failed the expired ones.        *)
LEMMA YoungStep == Inductive /\ [Next]_vars => Young' /\ Counted'
<1> SUFFICES ASSUME Inductive, [Next]_vars, NEW c \in Commands
    PROVE /\ Outstanding(c)' => /\ command'[c].age <= CommandDeadline + TimeoutLag + 1
                                /\ command'[c].leased <= command'[c].age
          /\ command'[c].status \in {"none", "pending"} => command'[c].attempts = 0
          /\ command'[c].status = "delivered" => command'[c].attempts = 1
          /\ command'[c].attempts <= 1
  BY DEF Young, Counted
<1> DEFINE Goal ==
          /\ Outstanding(c)' => /\ command'[c].age <= CommandDeadline + TimeoutLag + 1
                                /\ command'[c].leased <= command'[c].age
          /\ command'[c].status \in {"none", "pending"} => command'[c].attempts = 0
          /\ command'[c].status = "delivered" => command'[c].attempts = 1
          /\ command'[c].attempts <= 1
<1>1. RowStep(c)
  BY CommandStep
<1>2. command[c] \in CommandRow
  BY DEF Inductive, TypeOK
<1>3. /\ Outstanding(c) => /\ command[c].age <= CommandDeadline + TimeoutLag + 1
                           /\ command[c].leased <= command[c].age
      /\ command[c].status \in {"none", "pending"} => command[c].attempts = 0
      /\ command[c].status = "delivered" => command[c].attempts = 1
      /\ command[c].attempts <= 1
  BY DEF Inductive, Young, Counted
<1>4. CommandDeadline \in Nat /\ TimeoutLag \in Nat
  BY TimeAssumption
<1>5. /\ command[c].status \in {"none", "pending", "delivered"} \cup Verdicts
      /\ command[c].age \in Nat /\ command[c].leased \in Nat /\ command[c].attempts \in Nat
  BY <1>2 DEF CommandRow
<1>6. CASE command'[c] = command[c]
  BY <1>6, <1>3, <1>4, <1>5 DEF Outstanding, Verdicts
<1>7. CASE command[c].status = "none" /\ command'[c] = NewCommand
  BY <1>7, <1>3, <1>4, <1>5 DEF Outstanding, Verdicts, NewCommand
<1>8. CASE command[c].status = "pending" /\ command'[c] = Delivered(command[c])
  <2>1. /\ command'[c].status = "delivered" /\ command'[c].age = command[c].age
        /\ command'[c].leased = 0 /\ command'[c].attempts = command[c].attempts + 1
    BY <1>2, <1>8, RowFacts
  <2> QED
    BY <1>8, <2>1, <1>3, <1>4, <1>5 DEF Outstanding, Verdicts
<1>9. ASSUME NEW v \in Verdicts, Outstanding(c), command'[c] = Decided(command[c], v)
      PROVE  Goal
  <2>1. command'[c].status = v /\ command'[c].attempts = command[c].attempts
    BY <1>2, <1>9, RowFacts
  <2> QED
    BY <1>9, <2>1, <1>3, <1>4, <1>5 DEF Outstanding, Verdicts
<1>10. CASE /\ Outstanding(c) /\ command[c].age <= CommandDeadline + TimeoutLag
            /\ command'[c] = Older(command[c])
  <2>1. /\ command'[c].status = command[c].status /\ command'[c].age = command[c].age + 1
        /\ command'[c].leased \in {command[c].leased, command[c].leased + 1}
        /\ command'[c].attempts = command[c].attempts
    BY <1>2, <1>10, RowFacts
  <2> QED
    BY <1>10, <2>1, <1>3, <1>4, <1>5 DEF Outstanding, Verdicts
<1> QED
  BY <1>1, <1>6, <1>7, <1>8, <1>9, <1>10 DEF RowStep

(* The reconciler, requestStateChange and the liveness controller insert   *)
(* each of their commands at most once, although they write on stale reads. *)
LEMMA UnissuedStep == Inductive /\ [Next]_vars => Unissued'
<1> SUFFICES ASSUME Inductive, [Next]_vars PROVE Unissued'
  OBVIOUS
<1> USE KindFacts
<1>0. TypeOK /\ Unissued /\ Young /\ Counted
  BY DEF Inductive
<1>1. command \in [Commands -> CommandRow] /\ desired \in [Workloads -> {"none", "running", "stopped"}]
  BY <1>0 DEF TypeOK
<1>2. ASSUME desired' = desired, requests' \subseteq requests,
             eviction'.assigned \subseteq eviction.assigned,
             \A c \in Commands : command[c].status = "none" => command'[c].status = "none"
      PROVE  Unissued'
  <2>1. eviction.assigned \subseteq Workloads
    BY <1>0 DEF TypeOK
  <2> QED
    BY <1>0, <1>2, <2>1 DEF Unissued, Commands
<1>3. ASSUME NEW w \in Workloads, NEW p \in HostPorts \cup {NoPort}, Place(w, p) PROVE Unissued'
  <2>1. \A v \in Workloads : v # w => desired'[v] = desired[v]
    BY <1>1, <1>3 DEF Place
  <2>2. desired'[w] = "running" /\ desired[w] = "none"
    BY <1>1, <1>3 DEF Place
  <2>3. \A v \in Workloads, k \in Kinds : <<v, k>> # StartOf(w) => command'[<<v, k>>] = command[<<v, k>>]
    BY <1>1, <1>3 DEF Place, StartOf, Commands
  <2>4. requests' = requests /\ eviction' = eviction
    BY <1>3 DEF Place, apiVars
  <2>5. eviction.assigned \subseteq Workloads
    BY <1>0 DEF TypeOK
  <2> QED
    BY <1>0, <2>1, <2>2, <2>3, <2>4, <2>5 DEF Unissued, StartOf
<1>4. ASSUME NEW r \in Requesters, NEW w \in Workloads, DecideStop(r, w) PROVE Unissued'
  <2>1. eviction' = eviction /\ command' = command /\ desired' = desired /\ desired[w] = "running"
    BY <1>4 DEF DecideStop, rowVars
  <2>2. r \in Stops
    BY DEF Stops
  <2>3. requests' = requests \cup {<<r, w>>}
    BY <1>4 DEF DecideStop
  <2> QED
    BY <1>0, <2>1, <2>2, <2>3 DEF Unissued
<1>5. ASSUME NEW r \in Requesters, NEW w \in Workloads, CommitStop(r, w) PROVE Unissued'
  <2>1. \A v \in Workloads : v # w => desired'[v] = desired[v]
    BY <1>1, <1>5 DEF CommitStop
  <2>2. desired'[w] = "stopped"
    BY <1>1, <1>5 DEF CommitStop
  <2>3. \A v \in Workloads, k \in Kinds : <<v, k>> # <<w, r>> => command'[<<v, k>>] = command[<<v, k>>]
    BY <1>1, <1>5 DEF CommitStop, Commands
  <2>4. requests' = requests \ {<<r, w>>} /\ eviction' = eviction
    BY <1>5 DEF CommitStop
  <2>5. eviction.assigned \subseteq Workloads
    BY <1>0 DEF TypeOK
  <2>6. ASSUME NEW v \in Workloads, desired'[v] = "none"
        PROVE  \A k \in Kinds : command'[<<v, k>>].status = "none"
    BY <1>0, <2>1, <2>2, <2>3, <2>6 DEF Unissued
  <2>7. ASSUME NEW v \in Workloads, desired'[v] = "running"
        PROVE  \A k \in Stops : command'[<<v, k>>].status = "none"
    BY <1>0, <2>1, <2>2, <2>3, <2>7 DEF Unissued
  <2>8. ASSUME NEW q \in Requesters, NEW v \in Workloads, <<q, v>> \in requests'
        PROVE  desired'[v] # "none" /\ command'[<<v, q>>].status = "none"
    BY <1>0, <2>1, <2>2, <2>3, <2>4, <2>8 DEF Unissued
  <2>9. ASSUME NEW v \in eviction'.assigned
        PROVE  desired'[v] # "none" /\ command'[<<v, "offline">>].status = "none"
    BY <1>0, <2>1, <2>2, <2>3, <2>4, <2>5 DEF Unissued
  <2> QED
    BY <2>6, <2>7, <2>8, <2>9 DEF Unissued
<1>6. CASE SelectAssigned
  <2>1. desired' = desired /\ command' = command /\ requests' = requests
    BY <1>6 DEF SelectAssigned, rowVars
  <2>2. \A w \in eviction'.assigned : w \in Workloads /\ desired[w] = "running"
    BY <1>6 DEF SelectAssigned
  <2>3. "offline" \in Stops
    BY DEF Stops
  <2> QED
    BY <1>0, <2>1, <2>2, <2>3 DEF Unissued
<1>7. CASE Evict
  <2>1. \A w \in Workloads : desired'[w] # desired[w] => w \in eviction.assigned \ Stateful
    BY <1>1, <1>7 DEF Evict
  <2>2. \A w \in eviction.assigned \ Stateful : w \in Workloads => desired'[w] = "stopped"
    BY <1>1, <1>7 DEF Evict
  <2>3. \A w \in Workloads, k \in Kinds :
          k # "offline" \/ w \notin eviction.assigned \ Stateful => command'[<<w, k>>] = command[<<w, k>>]
    BY <1>7 DEF Evict, Commands
  <2>4. requests' = requests /\ eviction'.assigned = {}
    BY <1>7 DEF Evict, NoEviction
  <2>6. ASSUME NEW v \in Workloads, desired'[v] = "none"
        PROVE  \A k \in Kinds : command'[<<v, k>>].status = "none"
    BY <1>0, <2>1, <2>2, <2>3, <2>6 DEF Unissued
  <2>7. ASSUME NEW v \in Workloads, desired'[v] = "running"
        PROVE  \A k \in Stops : command'[<<v, k>>].status = "none"
    BY <1>0, <2>1, <2>2, <2>3, <2>7 DEF Unissued
  <2>8. ASSUME NEW q \in Requesters, NEW v \in Workloads, <<q, v>> \in requests'
        PROVE  desired'[v] # "none" /\ command'[<<v, q>>].status = "none"
    BY <1>0, <2>1, <2>2, <2>3, <2>4, <2>8 DEF Unissued
  <2> QED
    BY <2>4, <2>6, <2>7, <2>8 DEF Unissued
<1>8. ASSUME NEW c \in Commands, FailExpired(c) PROVE Unissued'
  BY <1>1, <1>2, <1>8 DEF FailExpired, Expired, Outstanding
<1>9. ASSUME NEW m \in results, ReceiveResult(m) PROVE Unissued'
  BY <1>1, <1>2, <1>9 DEF ReceiveResult
<1>10. CASE Poll
  <2>1. \A c \in Commands : command[c].status = "none" => command'[c] = command[c]
    BY <1>1, <1>10 DEF Poll, Eligible
  <2> QED
    BY <1>2, <1>10, <2>1 DEF Poll, apiVars
<1>11. CASE Tick
  <2>1. \A c \in Commands : command[c].status = "none" => command'[c] = command[c]
    BY <1>1, <1>11 DEF Tick, Outstanding
  <2> QED
    BY <1>2, <1>11, <2>1 DEF Tick, apiVars
<1>12. CASE ApiRestart
  BY <1>2, <1>12 DEF ApiRestart, rowVars, NoEviction
<1>13. CASE MarkOffline
  BY <1>0, <1>2, <1>13 DEF MarkOffline, TypeOK
<1>14. CASE UNCHANGED <<desired, command, requests, eviction>>
  BY <1>2, <1>14
<1> QED
  BY <1>3, <1>4, <1>5, <1>6, <1>7, <1>8, <1>9, <1>10, <1>11, <1>12, <1>13, <1>14
     DEF Next, Controllers, AgentSteps, Faults, MarkUnhealthy, WriteReservation, Heartbeat,
         SendResult, ResultAnswered, EndTick, ExecuteStart, ExecuteStop, Finish, ResultTimesOut,
         AgentRestart, ContainerExits, DaemonRestart, vars, rowVars, apiVars

(* A container comes into being only with the start that the agent then    *)
(* no longer holds; one that has exited stays down, but for "always".      *)
LEMMA ContainerStep ==
  Inductive /\ [Next]_vars =>
    \A w \in Workloads :
      /\ container[w] = "absent" /\ container'[w] # "absent" =>
           StartOf(w) \in agent.batch /\ StartOf(w) \notin agent'.batch
      /\ w \notin Always /\ container[w] = "exited" => container'[w] = "exited"
<1> SUFFICES ASSUME Inductive, [Next]_vars, NEW w \in Workloads
    PROVE /\ container[w] = "absent" /\ container'[w] # "absent" =>
               StartOf(w) \in agent.batch /\ StartOf(w) \notin agent'.batch
          /\ w \notin Always /\ container[w] = "exited" => container'[w] = "exited"
  OBVIOUS
<1> DEFINE Goal == /\ container[w] = "absent" /\ container'[w] # "absent" =>
                        StartOf(w) \in agent.batch /\ StartOf(w) \notin agent'.batch
                   /\ w \notin Always /\ container[w] = "exited" => container'[w] = "exited"
<1>1. /\ container \in [Workloads -> {"absent", "running", "stopping", "exited"}]
      /\ container[w] = "exited" => StartOf(w) \notin agent.batch
  BY DEF Inductive, TypeOK, HeldOnce, ContainerStates
<1>2. ASSUME NEW v \in Workloads, NEW k, NEW s, NEW verdict, Finish(<<v, k>>, s, verdict)
      PROVE  /\ \A u \in Workloads : u # v => container'[u] = container[u]
             /\ container'[v] = s
             /\ <<v, k>> \in agent.batch /\ agent'.batch = agent.batch \ {<<v, k>>}
  BY <1>1, <1>2 DEF Finish
<1>3. ASSUME NEW v \in Workloads, ExecuteStart(v) PROVE Goal
  <2>1. \E s, verdict : Finish(<<v, "start">>, s, verdict)
    BY <1>3 DEF ExecuteStart, StartOf
  <2> QED
    BY <1>1, <1>2, <2>1 DEF StartOf
<1>4. ASSUME NEW v \in Workloads, NEW k \in Stops, ExecuteStop(v, k) PROVE Goal
  <2>1. \E s, verdict : Finish(<<v, k>>, s, verdict) /\ (s = container[v] \/ Live(v))
    BY <1>4 DEF ExecuteStop
  <2> QED
    BY <1>1, <1>2, <2>1 DEF Live
<1>5. ASSUME NEW v \in Workloads, ContainerExits(v) \/ DaemonRestart(v) PROVE Goal
  BY <1>1, <1>5 DEF ContainerExits, DaemonRestart, Live
<1>6. CASE UNCHANGED container
  BY <1>6
<1> QED
  BY <1>3, <1>4, <1>5, <1>6
     DEF Next, Controllers, AgentSteps, Faults, Place, DecideStop, CommitStop, MarkUnhealthy,
         MarkOffline, SelectAssigned, Evict, FailExpired, WriteReservation, ReceiveResult,
         Heartbeat, Poll, SendResult, ResultAnswered, EndTick, ResultTimesOut, AgentRestart,
         ApiRestart, Tick, vars

(* The agent never holds a start that it already carried out.              *)
LEMMA HeldOnceStep == Inductive /\ [Next]_vars => HeldOnce'
<1> SUFFICES ASSUME Inductive, [Next]_vars PROVE HeldOnce'
  OBVIOUS
<1>0. TypeOK /\ HeldOnce /\ Young /\ Counted
  BY DEF Inductive
<1>1. \A c \in Commands : command[c].attempts = 1 => command'[c].attempts = 1
  BY CommandForward
<1>2. agent.batch \subseteq Commands /\ \A w \in Workloads : StartOf(w) \in Commands
  BY <1>0, KindFacts DEF TypeOK, AgentState, StartOf, Commands
<1>3. ASSUME agent'.batch \subseteq agent.batch PROVE HeldOnce'
  BY <1>0, <1>1, <1>2, <1>3, ContainerStep DEF HeldOnce
<1>4. CASE Poll
  <2>1. PICK leased \in SUBSET {c \in Commands : Eligible(c)} :
          /\ command' = [c \in Commands |-> IF c \in leased THEN Delivered(command[c]) ELSE command[c]]
          /\ agent'.batch = leased \/ agent'.batch = agent.batch
    BY <1>0, <1>4 DEF Poll, TypeOK, AgentState
  <2>2. CASE agent'.batch = leased
    <3>1. ASSUME NEW c \in leased
          PROVE  command[c].attempts = 0 /\ command'[c].attempts = 1
      <4>1. c \in Commands /\ command[c] \in CommandRow /\ command[c].status = "pending"
        BY <1>0, EligibleIsPending DEF TypeOK
      <4>2. command[c].attempts = 0
        BY <1>0, <4>1 DEF Counted
      <4>3. command'[c].attempts = command[c].attempts + 1
        BY <2>1, <4>1, RowFacts
      <4> QED
        BY <4>2, <4>3
    <3>2. container' = container
      BY <1>4 DEF Poll
    <3> QED
      BY <1>0, <1>1, <1>2, <2>2, <3>1, <3>2 DEF HeldOnce
  <2> QED
    BY <1>3, <2>1, <2>2
<1>a. agent \in AgentState
  BY <1>0 DEF TypeOK
<1>5. CASE ApiRestart \/ ResultTimesOut
  <2>1. Thrown(agent).batch \subseteq agent.batch
    BY <1>a DEF Thrown, AgentState
  <2>2. agent' = agent \/ agent' = Thrown(agent)
    BY <1>5 DEF ApiRestart, ResultTimesOut
  <2> QED
    BY <1>3, <2>1, <2>2
<1>6. ASSUME NEW w \in Workloads, ExecuteStart(w) PROVE HeldOnce'
  BY <1>3, <1>6 DEF ExecuteStart, Finish
<1>7. ASSUME NEW w \in Workloads, NEW k \in Stops, ExecuteStop(w, k) PROVE HeldOnce'
  BY <1>3, <1>7 DEF ExecuteStop, Finish
<1>8. CASE Heartbeat \/ SendResult \/ ResultAnswered \/ EndTick \/ AgentRestart
  <2>1. Heartbeat => agent'.batch = agent.batch
    BY <1>a DEF Heartbeat, AgentState
  <2>2. SendResult \/ ResultAnswered \/ EndTick => agent'.batch = agent.batch
    BY <1>a DEF SendResult, ResultAnswered, EndTick, AgentState
  <2>3. AgentRestart => agent'.batch = {}
    BY DEF AgentRestart
  <2> QED
    BY <1>3, <1>8, <2>1, <2>2, <2>3
<1>9. CASE agent' = agent
  BY <1>3, <1>9
<1> QED
  BY <1>4, <1>5, <1>6, <1>7, <1>8, <1>9
     DEF Next, Controllers, AgentSteps, Faults, Place, DecideStop, CommitStop, MarkUnhealthy,
         MarkOffline, SelectAssigned, Evict, FailExpired, WriteReservation, ReceiveResult,
         ContainerExits, DaemonRestart, Tick, vars

(* No retry, delay or restart turns a false claim of a stop into a result. *)
LEMMA StopsTrueStep == Inductive /\ [Next]_vars => StopsTrue'
<1> SUFFICES ASSUME Inductive, [Next]_vars PROVE StopsTrue'
  OBVIOUS
<1> DEFINE Still(c, v) ==
             c[2] \in Stops /\ c[1] \notin Always /\ v = "succeeded" => container'[c[1]] = "exited"
           Reported == agent'.pc \in {"report", "await"} =>
                         Still(agent'.report.cmd, agent'.report.verdict)
           OnTheWire == \A m \in results' : Still(m.cmd, m.verdict)
<1>0. TypeOK /\ StopsTrue
  BY DEF Inductive
<1>1. \A c \in Commands : c[1] \in Workloads
  BY DEF Commands
<1>2. ASSUME NEW c \in Commands, NEW v, TrueStop(c, v) PROVE Still(c, v)
  BY <1>1, <1>2, ContainerStep DEF TrueStop
<1>3. /\ results \subseteq Result /\ agent \in AgentState
      /\ agent.pc \in {"report", "await"} => agent.report \in Result
  BY <1>0 DEF TypeOK
<1>4. \A m \in Result : m.cmd \in Commands /\ m.verdict \in Verdicts
  BY DEF Result
<1>5. ASSUME NEW c \in Commands PROVE Still(c, command'[c].status)
  <2>1. command[c] \in CommandRow /\ RowStep(c)
    BY <1>0, CommandStep DEF TypeOK
  <2>2. CASE command'[c].status = "succeeded" /\ command[c].status = "succeeded"
    BY <1>0, <1>2, <2>2 DEF StopsTrue
  <2>3. CASE command'[c].status = "succeeded" /\ command[c].status # "succeeded"
    <3>1. command'[c] # command[c] /\ command'[c] # NewCommand
      BY <2>3 DEF NewCommand
    <3>2. command'[c] # Delivered(command[c]) /\ command'[c] # Older(command[c])
      BY <2>1, <2>3, RowFacts
    <3>3. PICK v \in Verdicts : /\ command'[c] = Decided(command[c], v)
                                /\ v = "succeeded" => [cmd |-> c, verdict |-> v] \in results
      BY <2>1, <3>1, <3>2 DEF RowStep
    <3>4. v = "succeeded"
      BY <2>1, <2>3, <3>3, RowFacts
    <3>5. TrueStop(c, "succeeded")
      BY <1>0, <3>3, <3>4 DEF StopsTrue
    <3> QED
      BY <1>2, <2>3, <3>5
  <2>4. CASE command'[c].status # "succeeded"
    BY <2>4
  <2> QED
    BY <2>2, <2>3, <2>4
<1>6. ASSUME results' \subseteq results PROVE OnTheWire
  BY <1>0, <1>2, <1>3, <1>4, <1>6 DEF StopsTrue
<1>7. ASSUME agent' = agent PROVE Reported
  BY <1>0, <1>2, <1>3, <1>4, <1>7 DEF StopsTrue
<1>8. ASSUME Reported, OnTheWire PROVE StopsTrue'
  BY <1>5, <1>8 DEF StopsTrue, TrueStop
<1> HIDE DEF Reported, OnTheWire
<1>9. ASSUME NEW c \in Commands, NEW s, NEW v \in Verdicts, Finish(c, s, v),
             c[2] \in Stops /\ v = "succeeded" => s = "exited"
      PROVE  StopsTrue'
  <2>1. results' = results /\ agent'.report.cmd = c /\ agent'.report.verdict = v
    BY <1>9 DEF Finish
  <2>2. container'[c[1]] = s
    BY <1>0, <1>1, <1>9 DEF Finish, TypeOK
  <2>3. Reported
    BY <1>9, <2>1, <2>2 DEF Reported
  <2> QED
    BY <1>6, <1>8, <2>1, <2>3
<1>10. ASSUME NEW w \in Workloads, ExecuteStart(w) PROVE StopsTrue'
  <2>1. StartOf(w) \in Commands /\ StartOf(w)[2] \notin Stops
    BY KindFacts DEF StartOf, Commands
  <2> QED
    BY <1>9, <1>10, <2>1 DEF ExecuteStart, Verdicts
<1>11. ASSUME NEW w \in Workloads, NEW k \in Stops, ExecuteStop(w, k) PROVE StopsTrue'
  <2>1. <<w, k>> \in Commands
    BY KindFacts DEF Commands
  <2> QED
    BY <1>9, <1>11, <2>1 DEF ExecuteStop, Verdicts
<1>12. CASE SendResult
  <2>1. /\ agent.report \in Result /\ TrueStop(agent.report.cmd, agent.report.verdict)
        /\ agent'.report = agent.report /\ results' = results \cup {agent.report}
    BY <1>0, <1>3, <1>12 DEF SendResult, StopsTrue, AgentState
  <2>2. Still(agent.report.cmd, agent.report.verdict)
    BY <1>2, <1>4, <2>1
  <2>3. Reported
    BY <2>1, <2>2 DEF Reported
  <2>4. OnTheWire
    BY <1>0, <1>2, <1>3, <1>4, <2>1, <2>2 DEF OnTheWire, StopsTrue
  <2> QED
    BY <1>8, <2>3, <2>4
<1>13. ASSUME agent' = Thrown(agent), results' \subseteq results PROVE StopsTrue'
  <2>1. Thrown(agent).pc \in {"report", "await"} => Thrown(agent).report.verdict = "failed"
    <3>1. CASE agent.report.verdict = "succeeded"
      <4>1. agent.report \in Result
        BY <1>3, <3>1 DEF AgentState, NoReport
      <4> QED
        BY <1>3, <3>1, <4>1 DEF Thrown, AgentState, Result
    <3>2. CASE agent.report.verdict # "succeeded"
      BY <3>2 DEF Thrown
    <3> QED
      BY <3>1, <3>2
  <2>2. Reported
    BY <1>13, <2>1 DEF Reported
  <2> QED
    BY <1>6, <1>8, <1>13, <2>2
<1>14. ASSUME agent'.pc \notin {"report", "await"}, results' \subseteq results PROVE StopsTrue'
  BY <1>6, <1>8, <1>14 DEF Reported
<1>15. CASE Heartbeat
  <2>1. agent'.pc \in {"poll", "idle"} /\ results' = results
    BY <1>3, <1>15 DEF Heartbeat, AgentState
  <2> QED
    BY <1>14, <2>1
<1>16. CASE Poll
  <2>1. agent'.pc \in {"execute", "idle"} /\ results' = results
    BY <1>3, <1>16 DEF Poll, AgentState
  <2> QED
    BY <1>14, <2>1
<1>17. CASE ResultAnswered \/ EndTick \/ AgentRestart
  <2>1. ResultAnswered => agent'.pc = "execute" /\ results' = results
    BY <1>3 DEF ResultAnswered, AgentState
  <2>2. EndTick \/ AgentRestart => agent'.pc = "idle" /\ results' = results
    BY <1>3 DEF EndTick, AgentRestart, AgentState
  <2> QED
    BY <1>14, <1>17, <2>1, <2>2
<1>18. ASSUME agent' = agent, results' \subseteq results PROVE StopsTrue'
  BY <1>6, <1>7, <1>8, <1>18
<1>19. CASE ResultTimesOut
  BY <1>13, <1>19 DEF ResultTimesOut
<1>20. CASE ApiRestart
  BY <1>13, <1>18, <1>20 DEF ApiRestart
<1>21. ASSUME NEW m \in results, ReceiveResult(m) PROVE StopsTrue'
  BY <1>18, <1>21 DEF ReceiveResult
<1>22. CASE agent' = agent /\ results' = results
  BY <1>18, <1>22
<1> QED
  BY <1>10, <1>11, <1>12, <1>15, <1>16, <1>17, <1>19, <1>20, <1>21, <1>22
     DEF Next, Controllers, AgentSteps, Faults, Place, DecideStop, CommitStop, MarkUnhealthy,
         MarkOffline, SelectAssigned, Evict, FailExpired, WriteReservation,
         ContainerExits, DaemonRestart, Tick, vars

(* The verdict a handler acts on stays the one in the table.               *)
LEMMA HandlersStep == Inductive /\ [Next]_vars => HandlersAgree'
<1> SUFFICES ASSUME Inductive, [Next]_vars PROVE HandlersAgree'
  OBVIOUS
<1>0. TypeOK /\ HandlersAgree
  BY DEF Inductive
<1>1. handlers \subseteq Handler /\ command \in [Commands -> CommandRow] /\ results \subseteq Result
  BY <1>0 DEF TypeOK
<1>2. ASSUME NEW h \in handlers
      PROVE  command'[h.cmd].status = h.verdict /\ (h.cmd[2] = "start" \/ h.verdict = "succeeded")
  BY <1>0, <1>1, CommandForward DEF HandlersAgree, Handler
<1>3. ASSUME NEW c \in Commands, FailExpired(c) PROVE HandlersAgree'
  <2>1. command'[c].status = "failed"
    BY <1>1, <1>3, RowFacts DEF FailExpired, Verdicts
  <2> QED
    BY <1>2, <1>3, <2>1 DEF FailExpired, FollowUp, HandlersAgree
<1>4. ASSUME NEW m \in results, ReceiveResult(m) PROVE HandlersAgree'
  <2>1. m.cmd \in Commands /\ m.verdict \in Verdicts
    BY <1>1 DEF Result
  <2>2. CASE command[m.cmd].status = "delivered"
    <3>1. command'[m.cmd].status = m.verdict
      BY <1>1, <1>4, <2>1, <2>2, RowFacts DEF ReceiveResult
    <3> QED
      BY <1>2, <1>4, <2>2, <3>1 DEF ReceiveResult, FollowUp, HandlersAgree
  <2>3. CASE command[m.cmd].status # "delivered"
    BY <1>2, <1>4, <2>3 DEF ReceiveResult, HandlersAgree
  <2> QED
    BY <2>2, <2>3
<1>5. CASE handlers' \subseteq handlers
  BY <1>2, <1>5 DEF HandlersAgree
<1> QED
  BY <1>3, <1>4, <1>5
     DEF Next, Controllers, AgentSteps, Faults, Place, DecideStop, CommitStop, MarkUnhealthy,
         MarkOffline, SelectAssigned, Evict, WriteReservation, Heartbeat, Poll, SendResult,
         ResultAnswered, EndTick, ExecuteStart, ExecuteStop, Finish, ResultTimesOut, AgentRestart,
         ApiRestart, ContainerExits, DaemonRestart, Tick, vars, apiVars

(* Placing a workload and the last write of a handler keep the ports.      *)
LEMMA PortsStep == Inductive /\ [Next]_vars => PortsKept' /\ PortsUnique'
<1> SUFFICES ASSUME Inductive, [Next]_vars PROVE PortsKept' /\ PortsUnique'
  OBVIOUS
<1>0. TypeOK /\ HandlersAgree /\ PortsKept /\ PortsUnique /\ StopsTrue
  BY DEF Inductive
<1>1. reservation \in [Workloads -> ReservationRow] /\ handlers \subseteq Handler
  BY <1>0 DEF TypeOK
<1>2. \A w \in Workloads : StartOf(w) \in Commands
  BY KindFacts DEF StartOf, Commands
<1>3. ASSUME NEW w \in Workloads \ Always,
             command[StartOf(w)].status = "failed" \/ container[w] = "exited"
      PROVE  command'[StartOf(w)].status = "failed" \/ container'[w] = "exited"
  BY <1>2, <1>3, CommandForward, ContainerStep DEF Verdicts
<1>4. CASE reservation' = reservation
  BY <1>0, <1>3, <1>4 DEF PortsKept, PortsUnique, Active
<1>5. ASSUME NEW w \in Workloads, NEW p \in HostPorts \cup {NoPort}, Place(w, p)
      PROVE  PortsKept' /\ PortsUnique'
  <2>1. /\ reservation'[w].port = p
        /\ reservation'[w].status = IF p = NoPort THEN "none" ELSE "reserved"
        /\ \A v \in Workloads : v # w => reservation'[v] = reservation[v]
    BY <1>1, <1>5 DEF Place
  <2>2. p # NoPort => ~PortTaken(w, p)
    BY <1>5 DEF Place
  <2>3. PortsKept'
    BY <1>0, <1>3, <2>1 DEF PortsKept, Active
  <2>4. PortsUnique'
    BY <1>0, <2>1, <2>2 DEF PortsUnique, Active, PortTaken
  <2> QED
    BY <2>3, <2>4
<1>6. ASSUME NEW h \in handlers, WriteReservation(h) PROVE PortsKept' /\ PortsUnique'
  <2> DEFINE w == h.cmd[1]
             row == reservation[w]
             taken == PortTaken(w, row.port)
             next == NextReservation(h, row, taken)
  <2>1. h.cmd \in Commands /\ w \in Workloads /\ h.verdict \in Verdicts
    BY <1>1 DEF Handler, Commands
  <2>2. /\ reservation'[w].port = row.port /\ reservation'[w].status = next
        /\ \A v \in Workloads : v # w => reservation'[v] = reservation[v]
    BY <1>1, <1>6, <2>1 DEF WriteReservation, ReservationRow
  <2>3. \/ next = row.status
        \/ next = "released" /\ ~(h.cmd[2] = "start" /\ h.verdict = "succeeded")
        \/ next = "bound" /\ ~taken
    BY DEF NextReservation
  <2>4. ASSUME next = "released", ~(h.cmd[2] = "start" /\ h.verdict = "succeeded"), w \notin Always
        PROVE  command[StartOf(w)].status = "failed" \/ container[w] = "exited"
    <3>1. command[h.cmd].status = h.verdict /\ (h.cmd[2] = "start" \/ h.verdict = "succeeded")
      BY <1>0 DEF HandlersAgree
    <3>2. PICK k \in Kinds : h.cmd = <<w, k>>
      BY <2>1 DEF Commands
    <3>3. CASE k = "start"
      BY <2>1, <2>4, <3>1, <3>2, <3>3 DEF StartOf, Verdicts
    <3>4. CASE k # "start"
      <4>1. h.cmd[2] \in Stops /\ h.cmd[1] \notin Always /\ command[h.cmd].status = "succeeded"
        BY <2>4, <3>1, <3>2, <3>4, KindFacts
      <4>2. TrueStop(h.cmd, command[h.cmd].status)
        BY <1>0, <2>1 DEF StopsTrue
      <4> QED
        BY <4>1, <4>2 DEF TrueStop
    <3> QED
      BY <3>3, <3>4
  <2>5. PortsKept'
    <3> SUFFICES ASSUME NEW v \in Workloads \ Always,
                        reservation'[v].port # NoPort, ~Active(v)'
                 PROVE  command'[StartOf(v)].status = "failed" \/ container'[v] = "exited"
      BY DEF PortsKept
    <3>1. CASE v # w
      BY <1>0, <1>3, <2>2, <3>1 DEF PortsKept, Active
    <3>2. CASE v = w /\ next = row.status
      BY <1>0, <1>3, <2>2, <3>2 DEF PortsKept, Active
    <3>3. CASE v = w /\ next # row.status
      BY <1>3, <2>2, <2>3, <2>4, <3>3 DEF Active
    <3> QED
      BY <3>1, <3>2, <3>3
  <2>6. PortsUnique'
    <3>1. Active(w)' => Active(w) \/ ~taken
      BY <2>2, <2>3 DEF Active
    <3>2. \A v \in Workloads : v # w => (Active(v)' <=> Active(v))
      BY <2>2 DEF Active
    <3>3. \A v \in Workloads : reservation'[v].port = reservation[v].port
      BY <2>2
    <3>4. ASSUME NEW v \in Workloads, v # w, Active(w)', Active(v), row.port # NoPort
          PROVE  reservation[v].port # row.port
      BY <1>0, <2>1, <3>1, <3>4 DEF PortsUnique, PortTaken
    <3> HIDE DEF w, row, taken, next
    <3> QED
      BY <1>0, <2>1, <3>2, <3>3, <3>4 DEF PortsUnique, row
  <2> QED
    BY <2>5, <2>6
<1> QED
  BY <1>4, <1>5, <1>6
     DEF Next, Controllers, AgentSteps, Faults, DecideStop, CommitStop, MarkUnhealthy,
         MarkOffline, SelectAssigned, Evict, FailExpired, ReceiveResult, Heartbeat, Poll, SendResult,
         ResultAnswered, EndTick, ExecuteStart, ExecuteStop, Finish, ResultTimesOut, AgentRestart,
         ApiRestart, ContainerExits, DaemonRestart, Tick, vars, rowVars

(* The invariant holds on an empty node.                                   *)
LEMMA InductiveInit == Init => Inductive
<1> SUFFICES ASSUME Init PROVE Inductive
  OBVIOUS
<1>1. TypeOK
  BY DEF Init, TypeOK, NewCommand, CommandRow, ReservationRow, NoEviction, AgentState, ContainerStates
<1>2. \A c \in Commands : command[c].status = "none" /\ command[c].attempts = 0
  BY DEF Init, NewCommand
<1>3. Young /\ Counted
  BY <1>2 DEF Young, Counted, Outstanding
<1>4. Unissued
  BY <1>2, KindFacts DEF Unissued, Init, NoEviction, Commands
<1>5. HeldOnce /\ HandlersAgree
  BY DEF Init, HeldOnce, HandlersAgree
<1>6. StopsTrue
  BY <1>2 DEF Init, StopsTrue, TrueStop
<1>7. PortsKept /\ PortsUnique
  BY DEF Init, PortsKept, PortsUnique, Active
<1> QED
  BY <1>1, <1>3, <1>4, <1>5, <1>6, <1>7 DEF Inductive

(* Every step preserves the invariant.                                     *)
LEMMA InductiveStep == Inductive /\ [Next]_vars => Inductive'
<1>1. Inductive => TypeOK
  BY DEF Inductive
<1> QED
  BY <1>1, TypeStep, YoungStep, UnissuedStep, HeldOnceStep, StopsTrueStep, HandlersStep, PortsStep
     DEF Inductive

(* The invariant holds in every reachable state.                           *)
LEMMA InductiveInvariance == Spec => []Inductive
BY InductiveInit, InductiveStep, PTL DEF Spec

-----------------------------------------------------------------------------
(* The theorems                                                            *)

(* The poll route delivers no workload command twice, whatever crashes and *)
(* however messages are delayed.                                           *)
THEOREM DeliveredOnce == Spec => []AtMostOneDelivery
<1>1. Inductive => AtMostOneDelivery
  BY DEF Inductive, Counted, AtMostOneDelivery
<1> QED
  BY <1>1, InductiveInvariance, PTL

(* A workload whose stop was accepted as successful never runs again.      *)
THEOREM StoppedForGood == Spec => []NoResurrection
<1>1. Inductive => NoResurrection
  BY KindFacts DEF Inductive, StopsTrue, TrueStop, NoResurrection, Live, Commands
<1> QED
  BY <1>1, InductiveInvariance, PTL

(* The port of a live container stays reserved until its start is known or *)
(* presumed to have failed.                                                *)
THEOREM PortStaysHeld == Spec => []PortHeld
<1>1. Inductive => PortHeld
  BY DEF Inductive, PortsKept, PortHeld, Live
<1> QED
  BY <1>1, InductiveInvariance, PTL

(* No other workload reserves such a port.                                 *)
THEOREM PortExclusive == Spec => []PortNotShared
<1>1. Inductive => PortNotShared
  BY DEF Inductive, PortsKept, PortsUnique, PortNotShared, Live
<1> QED
  BY <1>1, InductiveInvariance, PTL

-----------------------------------------------------------------------------
(* Refinement                                                              *)

(* Every step of the system is a step of the abstract command table, or    *)
(* does not touch it.                                                      *)
LEMMA LedgerStep == Inductive /\ [Next]_vars => [Ledger!Next]_[c \in Commands |-> command[c].status]
<1> SUFFICES ASSUME Inductive, [Next]_vars
    PROVE Ledger!Next \/ UNCHANGED [c \in Commands |-> command[c].status]
  OBVIOUS
<1> DEFINE old == [c \in Commands |-> command[c].status]
           new == [c \in Commands |-> command'[c].status]
           Abs == Ledger!Next \/ UNCHANGED [c \in Commands |-> command[c].status]
<1> USE KindFacts
<1>0. TypeOK /\ Young /\ Unissued
  BY DEF Inductive
<1>1. command \in [Commands -> CommandRow]
  BY <1>0 DEF TypeOK
<1>2. ASSUME NEW S \in SUBSET Commands, \A c \in S : command[c].status = "none",
             \A c \in Commands : command'[c] = IF c \in S THEN NewCommand ELSE command[c]
      PROVE  Abs
  <2>1. Ledger!Issue(S)
    BY <1>2 DEF Ledger!Issue, Ledger!Move, NewCommand
  <2> QED
    BY <2>1 DEF Ledger!Next
<1>3. ASSUME NEW w \in Workloads, NEW p \in HostPorts \cup {NoPort}, Place(w, p) PROVE Abs
  <2>1. {StartOf(w)} \in SUBSET Commands /\ command[StartOf(w)].status = "none"
    BY <1>0, <1>3 DEF Place, Unissued, StartOf, Commands
  <2> QED
    BY <1>1, <1>2, <1>3, <2>1 DEF Place
<1>4. ASSUME NEW r \in Requesters, NEW w \in Workloads, CommitStop(r, w) PROVE Abs
  <2>1. {<<w, r>>} \in SUBSET Commands /\ command[<<w, r>>].status = "none"
    BY <1>0, <1>4 DEF CommitStop, Unissued, Commands
  <2> QED
    BY <1>1, <1>2, <1>4, <2>1 DEF CommitStop
<1>5. CASE Evict
  <2> DEFINE S == {c \in Commands : c[2] = "offline" /\ c[1] \in eviction.assigned \ Stateful}
  <2>1. \A c \in S : command[c].status = "none"
    BY <1>0 DEF Unissued, Commands
  <2>2. \A c \in Commands : command'[c] = IF c \in S THEN NewCommand ELSE command[c]
    BY <1>5 DEF Evict
  <2>3. S \in SUBSET Commands
    OBVIOUS
  <2> HIDE DEF S
  <2> QED
    BY <1>2, <2>1, <2>2, <2>3
<1>6. ASSUME NEW c \in Commands, FailExpired(c) PROVE Abs
  <2>1. \A d \in Commands : command'[d].status = IF d = c THEN "failed" ELSE command[d].status
    BY <1>1, <1>6, RowFacts DEF FailExpired, Verdicts
  <2>2. Ledger!Expire(c)
    BY <1>6, <2>1 DEF FailExpired, Expired, Outstanding, Ledger!Expire, Ledger!Open
  <2> QED
    BY <2>2 DEF Ledger!Next
<1>7. ASSUME NEW m \in results, ReceiveResult(m) PROVE Abs
  <2>1. m.cmd \in Commands /\ m.verdict \in Verdicts
    BY <1>0 DEF TypeOK, Result
  <2>2. CASE command[m.cmd].status = "delivered"
    <3>1. \A d \in Commands : command'[d].status = IF d = m.cmd THEN m.verdict ELSE command[d].status
      BY <1>1, <1>7, <2>1, <2>2, RowFacts DEF ReceiveResult
    <3>2. Ledger!Decide(m.cmd, m.verdict)
      BY <2>1, <2>2, <3>1 DEF Ledger!Decide, Ledger!Move
    <3> QED
      BY <2>1, <3>2 DEF Ledger!Next, Ledger!Verdicts, Verdicts
  <2>3. CASE command[m.cmd].status # "delivered"
    BY <1>7, <2>3 DEF ReceiveResult
  <2> QED
    BY <2>2, <2>3
<1>8. CASE Poll
  <2>1. PICK leased \in SUBSET {c \in Commands : Eligible(c)} :
          command' = [c \in Commands |-> IF c \in leased THEN Delivered(command[c]) ELSE command[c]]
    BY <1>8 DEF Poll
  <2>2. \A c \in leased : command[c].status = "pending"
    BY <1>0, EligibleIsPending
  <2>3. \A c \in Commands : command'[c].status = IF c \in leased THEN "delivered" ELSE command[c].status
    BY <1>1, <2>1, RowFacts
  <2>4. Ledger!Lease(leased) /\ leased \in SUBSET Commands
    BY <2>2, <2>3 DEF Ledger!Lease, Ledger!Move
  <2> QED
    BY <2>4 DEF Ledger!Next
<1>9. CASE Tick
  <2>1. \A c \in Commands : command'[c].status = command[c].status
    BY <1>1, <1>9, RowFacts DEF Tick
  <2> QED
    BY <2>1
<1>10. CASE UNCHANGED command
  BY <1>10
<1> QED
  BY <1>3, <1>4, <1>5, <1>6, <1>7, <1>8, <1>9, <1>10
     DEF Next, Controllers, AgentSteps, Faults, DecideStop, MarkUnhealthy, MarkOffline,
         SelectAssigned, WriteReservation, Heartbeat, SendResult, ResultAnswered, EndTick,
         ExecuteStart, ExecuteStop, Finish, ResultTimesOut, AgentRestart, ApiRestart,
         ContainerExits, DaemonRestart, vars, rowVars

(* The command rows implement the abstract command table.                  *)
THEOREM ImplementsLedger == Spec => LedgerRefinement
<1>1. Init => Ledger!Init
  BY DEF Init, Ledger!Init, NewCommand
<1> QED
  BY <1>1, LedgerStep, InductiveInvariance, PTL DEF Spec, Ledger!Spec, LedgerRefinement
=============================================================================
