----------------------------- MODULE Reconciler -----------------------------
(***************************************************************************)
(* One deployment: its row, the rows of its workloads, and the calls that  *)
(* work on them concurrently.  A call is a controller tick, a user request *)
(* (start, stop or restart) or the handler of a report about a workload;   *)
(* it is cut at its database statements, and decides on what it has read.  *)
(*                                                                         *)
(* Nodes, ports and volumes appear as the outcome of a placement only.     *)
(* The workload rows that are desired running are kept in slots.  Of the   *)
(* rows that no longer are, and never are again, "retired" keeps what the  *)
(* decisions still see of them.                                            *)
(***************************************************************************)
EXTENDS Naturals, FiniteSets

CONSTANTS
  Slots,             \* bound of the model: rows desired running at once
  Replicas,          \* replicas of the deployment
  Controllers,       \* controller ticks that may overlap
  Requests,          \* user requests in progress at once
  Reporters,         \* report handlers in progress at once
  HealthThreshold,   \* HEALTH_FAILURE_THRESHOLD
  MaxRecovery,       \* MAX_RECOVERY_ATTEMPTS
  MaxBackoff,        \* RECOVERY_BACKOFF_MAX_MS, in units of the base
  LeaseTime,         \* reconcileLeaseUntil - now
  PassFits           \* whether every pass ends within its lease

ASSUME ReplicaAssumption == Replicas \in Nat \ {0} /\ PassFits \in BOOLEAN
ASSUME LimitAssumption ==
  /\ HealthThreshold \in Nat \ {0} /\ MaxRecovery \in Nat
  /\ MaxBackoff \in Nat \ {0} /\ LeaseTime \in Nat \ {0}
ASSUME SessionAssumption ==
  /\ Controllers \cap Requests = {} /\ Controllers \cap Reporters = {} /\ Requests \cap Reporters = {}
  /\ "nobody" \notin Controllers \cup Requests \cup Reporters

Sessions == Controllers \cup Requests \cup Reporters

VARIABLES
  deployment,  \* deployments row
  lease,       \* its reconcileLeaseId and the time to reconcileLeaseUntil
  workloads,   \* rows that are desired running, by slot
  retired,     \* what there is among the rows desired stopped
  session,     \* calls in progress
  replaced     \* history: recovery placements since the last reset

vars == <<deployment, lease, workloads, retired, session, replaced>>

(* Some row has been retired, one of them is broken, one is not stopped.   *)
Traces == {"some", "broken", "unsettled"}

Statuses == {"queued", "scheduling", "starting", "running", "degraded", "failed",
             "stopping", "stopped"}
Deployment == [volumes: BOOLEAN, desired: {"running", "stopped"}, status: Statuses,
               recovery: {"idle", "backoff", "manual_intervention"},
               attempts: Nat, wait: Nat]
Health == {"good", "unhealthy", "other"}
Reported == {"running", "stopped", "failed", "unknown"}
Row == [actual: Reported \cup {"none", "pending", "lost"}, health: Health,
        failures: 0..HealthThreshold]

NoRow == [actual |-> "none", health |-> "good", failures |-> 0]
NewRow == [NoRow EXCEPT !.actual = "pending"]

Session == [pc: {"idle", "restart", "claim", "read", "decide", "stop", "place",
                 "refresh", "derive", "write", "release"},
            holds: BOOLEAN, snap: Deployment, todo: SUBSET Slots, missing: Nat,
            replaces: BOOLEAN, next: Statuses]

TypeOK ==
  /\ deployment \in Deployment
  /\ lease \in [holder: Sessions \cup {"nobody"}, left: Nat]
  /\ workloads \in [Slots -> Row]
  /\ retired \subseteq Traces
  /\ session \in [Sessions -> Session]
  /\ replaced \in Nat

-----------------------------------------------------------------------------
(* What the reconciler concludes from the rows it reads                    *)

Wanted == {w \in Slots : workloads[w] # NoRow}

(* Whether the runtime configuration of the deployment mounts volumes.     *)
Persistent == deployment.volumes

(* A row that a replacement is recorded for.                               *)
Broken(row) == row.actual \in {"lost", "failed"} \/ row.failures >= HealthThreshold

(* What a retired row adds to "retired".                                   *)
Remains(row) ==
  {"some"} \cup (IF Broken(row) THEN {"broken"} ELSE {})
           \cup (IF row.actual # "stopped" THEN {"unsettled"} ELSE {})

AnyBroken == "broken" \in retired \/ \E w \in Wanted : Broken(workloads[w])
AnyUnsettled == "unsettled" \in retired \/ \E w \in Wanted : workloads[w].actual # "stopped"

(* Desired rows that automatic recovery retires.                           *)
Unhealthy ==
  {w \in Wanted : workloads[w].actual = "failed" \/ workloads[w].failures >= HealthThreshold}

(* Desired rows that count as replicas: a lost one only if it is pinned.   *)
ActiveRows == {w \in Wanted : Persistent \/ workloads[w].actual # "lost"}

Fit(w) == workloads[w].actual = "running" /\ workloads[w].health = "good"

(* deriveDeploymentStatus.                                                 *)
Derived(desired) ==
  LET is(state) == \E w \in Wanted : workloads[w].actual = state
      number == Cardinality(Wanted) IN
  IF desired # "running" THEN
    IF AnyUnsettled THEN "stopping" ELSE "stopped"
  ELSE CASE is("lost") -> "degraded"
         [] ~is("lost") /\ is("failed") -> IF is("running") THEN "degraded" ELSE "failed"
         [] ~is("lost") /\ ~is("failed") /\ (\E w \in Wanted : workloads[w].health = "unhealthy") -> "degraded"
         [] OTHER -> IF number < Replicas THEN IF number = 0 THEN "scheduling" ELSE "starting"
                     ELSE IF \A w \in Wanted : Fit(w) THEN "running" ELSE "starting"

(* RECOVERY_BACKOFF: doubles with every attempt, up to the maximum.        *)
Doubled[n \in Nat] == IF n = 0 THEN 1 ELSE 2 * Doubled[n - 1]
Backoff(attempt) ==
  IF Doubled[attempt - 1] <= MaxBackoff THEN Doubled[attempt - 1] ELSE MaxBackoff

NoDeployment == [volumes |-> FALSE, desired |-> "running", status |-> "queued", recovery |-> "idle",
                 attempts |-> 0, wait |-> 0]
Idle == [pc |-> "idle", holds |-> FALSE, snap |-> NoDeployment, todo |-> {}, missing |-> 0,
         replaces |-> FALSE, next |-> "queued"]

(* createDeployment has just committed a desired running deployment.       *)
Init ==
  /\ \E volumes \in BOOLEAN : deployment = [NoDeployment EXCEPT !.volumes = volumes]
  /\ lease = [holder |-> "nobody", left |-> 0]
  /\ workloads = [w \in Slots |-> NoRow]
  /\ retired = {}
  /\ session = [s \in Sessions |-> Idle]
  /\ replaced = 0

-----------------------------------------------------------------------------
(* Steps of a call                                                         *)

At(s, pc) == session[s].pc = pc
Goto(s, pc) ==
  session' = [session EXCEPT ![s] = [Idle EXCEPT !.pc = pc, !.holds = session[s].holds]]

StopAll(s, W) ==
  session' = [session EXCEPT ![s] = [Idle EXCEPT !.pc = "stop", !.holds = session[s].holds, !.todo = W]]

(* Where a call goes when it is through with reconcileDeployment.          *)
AfterPass(s) == IF s \in Requests THEN [Idle EXCEPT !.pc = "refresh"] ELSE Idle

StartTick(s) ==
  /\ s \in Controllers /\ At(s, "idle")
  /\ Goto(s, "claim")
  /\ UNCHANGED <<deployment, lease, workloads, retired, replaced>>

(* runDeploymentAction for start and stop.                                 *)
UserRequest(s, desired) ==
  /\ s \in Requests /\ At(s, "idle")
  /\ deployment' = [deployment EXCEPT !.desired = desired,
       !.status = IF desired = "stopped" THEN "stopping" ELSE "queued"]
  /\ Goto(s, "claim")
  /\ UNCHANGED <<lease, workloads, retired, replaced>>

(* runDeploymentAction for restart: restartDeploymentWorkloads reads the   *)
(* rows and stops them without the lease, then reconciles.                 *)
UserRestart(s) ==
  /\ s \in Requests /\ At(s, "idle")
  /\ deployment' = [deployment EXCEPT !.desired = "running", !.status = "queued"]
  /\ Goto(s, "restart")
  /\ UNCHANGED <<lease, workloads, retired, replaced>>

ReadForRestart(s) ==
  /\ At(s, "restart")
  /\ StopAll(s, Wanted)
  /\ UNCHANGED <<deployment, lease, workloads, retired, replaced>>

(* Faulty variant of Claim: the lease of another call is not respected.    *)
ClaimAlways(s) ==
  /\ At(s, "claim")
  /\ lease' = [holder |-> s, left |-> LeaseTime]
  /\ session' = [session EXCEPT ![s] = [Idle EXCEPT !.pc = "read", !.holds = TRUE]]
  /\ UNCHANGED <<deployment, workloads, retired, replaced>>

(* The compare-and-set that takes the lease, or the early return.          *)
Claim(s) ==
  /\ At(s, "claim")
  /\ IF lease.left = 0
     THEN /\ lease' = [holder |-> s, left |-> LeaseTime]
          /\ session' = [session EXCEPT ![s] = [Idle EXCEPT !.pc = "read", !.holds = TRUE]]
     ELSE /\ session' = [session EXCEPT ![s] = AfterPass(s)]
          /\ UNCHANGED lease
  /\ UNCHANGED <<deployment, workloads, retired, replaced>>

ReadDeployment(s) ==
  /\ At(s, "read")
  /\ session' = [session EXCEPT ![s].pc = "decide",
                                ![s].snap = [deployment EXCEPT !.status = "queued"]]
  /\ UNCHANGED <<deployment, lease, workloads, retired, replaced>>

(* A deployment that is not desired: stop what is desired.                 *)
DecideStop(s) ==
  /\ At(s, "decide") /\ session[s].snap.desired # "running"
  /\ StopAll(s, Wanted)
  /\ UNCHANGED <<deployment, lease, workloads, retired, replaced>>

(* Fixed host ports of several replicas, or a volume that is unavailable   *)
(* or on another node, rule the placement out.                             *)
DecideRefused(s) ==
  /\ At(s, "decide") /\ session[s].snap.desired = "running"
  /\ Replicas > 1 \/ Persistent
  /\ deployment' = [deployment EXCEPT !.status = "failed"]
  /\ Goto(s, "release")
  /\ UNCHANGED <<lease, workloads, retired, replaced>>

(* Faulty variant of DecideRetire: rows with volumes are not spared.       *)
DecideRetireAny(s) ==
  /\ At(s, "decide") /\ session[s].snap.desired = "running"
  /\ Unhealthy # {}
  /\ StopAll(s, Unhealthy)
  /\ UNCHANGED <<deployment, lease, workloads, retired, replaced>>

(* Retire the unhealthy; their replacements wait for the next pass.        *)
DecideRetire(s) ==
  /\ At(s, "decide") /\ session[s].snap.desired = "running"
  /\ ~Persistent /\ Unhealthy # {}
  /\ StopAll(s, Unhealthy)
  /\ UNCHANGED <<deployment, lease, workloads, retired, replaced>>

(* Nothing is missing; recovery is over once all replicas are fit.         *)
DecideComplete(s) ==
  /\ At(s, "decide") /\ session[s].snap.desired = "running"
  /\ Persistent \/ Unhealthy = {}
  /\ Cardinality(ActiveRows) >= Replicas
  /\ LET over == session[s].snap.recovery # "idle" /\ \A w \in ActiveRows : Fit(w) IN
     /\ deployment' = IF over
                      THEN [deployment EXCEPT !.recovery = "idle", !.attempts = 0, !.wait = 0]
                      ELSE deployment
     /\ replaced' = IF over THEN 0 ELSE replaced
  /\ Goto(s, "refresh")
  /\ UNCHANGED <<lease, workloads, retired>>

(* Faulty variant of DecidePlace: it goes on when nothing is missing.      *)
DecidePlaceAlways(s) ==
  /\ At(s, "decide") /\ session[s].snap.desired = "running"
  /\ session' = [session EXCEPT ![s].pc = "place",
                                ![s].missing = Replicas - Cardinality(ActiveRows),
                                ![s].replaces = AnyBroken]
  /\ UNCHANGED <<deployment, lease, workloads, retired, replaced>>

(* Some replicas are missing.                                              *)
DecidePlace(s) ==
  /\ At(s, "decide") /\ session[s].snap.desired = "running"
  /\ Persistent \/ Unhealthy = {}
  /\ Cardinality(ActiveRows) < Replicas
  /\ session' = [session EXCEPT ![s].pc = "place",
                                ![s].missing = Replicas - Cardinality(ActiveRows),
                                ![s].replaces = AnyBroken]
  /\ UNCHANGED <<deployment, lease, workloads, retired, replaced>>

(* The row in slot w, last reading row, becomes desired stopped.           *)
Retire(w, row) ==
  /\ workloads' = [workloads EXCEPT ![w] = NoRow]
  /\ retired' = retired \cup Remains(row)

(* Whoever else is about to stop that row will change nothing.             *)
SessionsWithout(w) ==
  [s \in Sessions |-> [session[s] EXCEPT !.todo = session[s].todo \ {w}]]

(* requestStateChange for one of the workloads to stop.                    *)
StopOne(s, w) ==
  /\ At(s, "stop") /\ w \in session[s].todo
  /\ Retire(w, workloads[w])
  /\ session' = SessionsWithout(w)
  /\ UNCHANGED <<deployment, lease, replaced>>

(* All stopped: a pass refreshes the status, a restart reconciles.         *)
StopsDone(s) ==
  /\ At(s, "stop") /\ session[s].todo = {}
  /\ Goto(s, IF session[s].holds THEN "refresh" ELSE "claim")
  /\ UNCHANGED <<deployment, lease, workloads, retired, replaced>>

-----------------------------------------------------------------------------
(* Steps of a call: one iteration of the placement loop                    *)

Attempt(s) == session[s].snap.attempts + (IF session[s].replaces THEN 1 ELSE 0)

(* Faulty variant of MayPlace: exhausted recovery is tried again.          *)
MayPlaceAgain(s) == At(s, "place") /\ session[s].snap.wait = 0

(* Faulty variant of MayPlace: a deployment in backoff is never retried.   *)
MayPlaceIdle(s) ==
  At(s, "place") /\ session[s].snap.recovery = "idle" /\ session[s].snap.wait = 0

(* The checks at the top of the loop, on the deployment as it was read.    *)
MayPlace(s) ==
  /\ At(s, "place")
  /\ session[s].snap.recovery # "manual_intervention"
  /\ session[s].snap.wait = 0

GiveUp(s) ==
  /\ At(s, "place") /\ session[s].snap.recovery = "manual_intervention"
  /\ deployment' = [deployment EXCEPT !.status = "failed"]
  /\ Goto(s, "release")
  /\ UNCHANGED <<lease, workloads, retired, replaced>>

BackOff(s) ==
  /\ At(s, "place") /\ session[s].snap.recovery # "manual_intervention"
  /\ session[s].snap.wait > 0
  /\ Goto(s, "release")
  /\ UNCHANGED <<deployment, lease, workloads, retired, replaced>>

NoNode(s) ==
  /\ MayPlace(s)
  /\ Goto(s, "refresh")
  /\ UNCHANGED <<deployment, lease, workloads, retired, replaced>>

(* A volume is claimed elsewhere, no dynamic port is left, or the unique   *)
(* index refuses the port.                                                 *)
PlacementFails(s) ==
  /\ MayPlace(s)
  /\ deployment' = [deployment EXCEPT !.status = "failed"]
  /\ Goto(s, "release")
  /\ UNCHANGED <<lease, workloads, retired, replaced>>

Exhausted(s) ==
  /\ MayPlace(s) /\ Attempt(s) > MaxRecovery
  /\ deployment' = [deployment EXCEPT !.recovery = "manual_intervention", !.status = "failed"]
  /\ Goto(s, "release")
  /\ UNCHANGED <<lease, workloads, retired, replaced>>

(* Faulty variant of Place: recoveryAttempts is not written back.          *)
PlaceUncounted(s, w) ==
  /\ MayPlace(s) /\ Attempt(s) <= MaxRecovery
  /\ w \notin Wanted
  /\ workloads' = [workloads EXCEPT ![w] = NewRow]
  /\ deployment' = IF session[s].replaces
                   THEN [deployment EXCEPT !.recovery = "backoff"]
                   ELSE deployment
  /\ replaced' = IF session[s].replaces THEN replaced + 1 ELSE replaced
  /\ IF session[s].missing = 1
     THEN Goto(s, "refresh")
     ELSE session' = [session EXCEPT ![s].missing = session[s].missing - 1]
  /\ UNCHANGED <<lease, retired>>

(* The scheduling transaction.                                             *)
Place(s, w) ==
  /\ MayPlace(s) /\ Attempt(s) <= MaxRecovery
  /\ w \notin Wanted
  /\ workloads' = [workloads EXCEPT ![w] = NewRow]
  /\ deployment' = IF session[s].replaces
                   THEN [deployment EXCEPT !.recovery = "backoff", !.attempts = Attempt(s),
                                           !.wait = Backoff(Attempt(s))]
                   ELSE deployment
  /\ replaced' = IF session[s].replaces THEN replaced + 1 ELSE replaced
  /\ IF session[s].missing = 1
     THEN Goto(s, "refresh")
     ELSE session' = [session EXCEPT ![s].missing = session[s].missing - 1]
  /\ UNCHANGED <<lease, retired>>

-----------------------------------------------------------------------------
(* Steps of a call: refreshDeploymentStatus, and the end of the lease      *)

(* Faulty variant of ReadStatus: only a running deployment is refreshed.   *)
ReadStatusOnce(s) ==
  /\ At(s, "refresh")
  /\ IF deployment.status = "running"
     THEN Goto(s, IF session[s].holds THEN "release" ELSE "idle")
     ELSE session' = [session EXCEPT ![s].pc = "derive",
                                ![s].snap = [NoDeployment EXCEPT !.desired = deployment.desired,
                                                                 !.status = deployment.status]]
  /\ UNCHANGED <<deployment, lease, workloads, retired, replaced>>

ReadStatus(s) ==
  /\ At(s, "refresh")
  /\ session' = [session EXCEPT ![s].pc = "derive",
                                ![s].snap = [NoDeployment EXCEPT !.desired = deployment.desired,
                                                                 !.status = deployment.status]]
  /\ UNCHANGED <<deployment, lease, workloads, retired, replaced>>

Derive(s) ==
  /\ At(s, "derive")
  /\ session' = [session EXCEPT ![s].pc = "write",
                                ![s].next = Derived(session[s].snap.desired)]
  /\ UNCHANGED <<deployment, lease, workloads, retired, replaced>>

(* The status is written only over the status that was read.               *)
WriteStatus(s) ==
  /\ At(s, "write")
  /\ deployment' = IF deployment.status = session[s].snap.status
                   THEN [deployment EXCEPT !.status = session[s].next]
                   ELSE deployment
  /\ Goto(s, IF session[s].holds THEN "release" ELSE "idle")
  /\ UNCHANGED <<lease, workloads, retired, replaced>>

Release(s) ==
  /\ At(s, "release")
  /\ lease' = IF lease.holder = s THEN [holder |-> "nobody", left |-> 0] ELSE lease
  /\ session' = [session EXCEPT ![s] = AfterPass(s)]
  /\ UNCHANGED <<deployment, workloads, retired, replaced>>

-----------------------------------------------------------------------------
(* Reports about workloads; each handler then refreshes the deployment     *)

ReportRow(s, w, row) ==
  /\ s \in Reporters /\ At(s, "idle") /\ w \in Wanted
  /\ workloads' = [workloads EXCEPT ![w] = row]
  /\ Goto(s, "refresh")
  /\ UNCHANGED <<deployment, lease, retired, replaced>>

(* The result of the workload.start command, or its timeout.               *)
CommandOutcome(s, w, actual) ==
  ReportRow(s, w, [workloads[w] EXCEPT !.actual = actual])

(* Health telemetry of the agent.                                          *)
Telemetry(s, w, actual, health) ==
  LET failures == workloads[w].failures
      count == IF health # "unhealthy" THEN 0
               ELSE IF failures < HealthThreshold THEN failures + 1 ELSE failures IN
  ReportRow(s, w, [workloads[w] EXCEPT !.actual = actual, !.health = health, !.failures = count])

(* A result, a timeout or late telemetry about a retired workload.         *)
LateReport(s) ==
  /\ s \in Reporters /\ At(s, "idle") /\ retired # {}
  /\ \E traces \in SUBSET Traces : retired' = traces \cup {"some"}
  /\ Goto(s, "refresh")
  /\ UNCHANGED <<deployment, lease, workloads, replaced>>

LostRow == [actual |-> "lost", health |-> "other", failures |-> 0]

(* The node liveness controller marks the workloads of an offline node     *)
(* lost, and retires those that no volume pins to it.                      *)
NodeLost(s, w) ==
  LET row == [LostRow EXCEPT !.failures = workloads[w].failures] IN
  IF Persistent THEN ReportRow(s, w, row)
  ELSE /\ s \in Reporters /\ At(s, "idle") /\ w \in Wanted
       /\ Retire(w, row)
       /\ session' = [SessionsWithout(w) EXCEPT ![s] = [Idle EXCEPT !.pc = "refresh"]]
       /\ UNCHANGED <<deployment, lease, replaced>>

-----------------------------------------------------------------------------
(* Environment                                                             *)

(* The API process dies: every call is gone, a lease it held is left.      *)
ApiRestart ==
  /\ session' = [s \in Sessions |-> Idle]
  /\ UNCHANGED <<deployment, lease, workloads, retired, replaced>>

Less(n) == IF n = 0 THEN 0 ELSE n - 1

(* The instants in the rows, and in what the calls have read, come closer. *)
Tick ==
  /\ lease.left > 0 \/ deployment.wait > 0
  /\ PassFits /\ lease.left = 1 => \A s \in Sessions : lease.holder = s => ~session[s].holds
  /\ lease' = [lease EXCEPT !.left = Less(lease.left)]
  /\ deployment' = [deployment EXCEPT !.wait = Less(deployment.wait)]
  /\ session' = [s \in Sessions |-> [session[s] EXCEPT !.snap.wait = Less(session[s].snap.wait)]]
  /\ UNCHANGED <<workloads, retired, replaced>>

Pass(s) ==
  \/ Claim(s) \/ ReadDeployment(s) \/ ReadForRestart(s)
  \/ DecideStop(s) \/ DecideRefused(s) \/ DecideRetire(s) \/ DecideComplete(s) \/ DecidePlace(s)
  \/ StopsDone(s) \/ \E w \in Slots : StopOne(s, w)
  \/ GiveUp(s) \/ BackOff(s) \/ NoNode(s) \/ PlacementFails(s) \/ Exhausted(s)
  \/ \E w \in Slots : Place(s, w)
  \/ ReadStatus(s) \/ Derive(s) \/ WriteStatus(s) \/ Release(s)

Users == \E s \in Requests : UserRestart(s) \/ \E d \in {"running", "stopped"} : UserRequest(s, d)

Reports ==
  \E s \in Reporters, w \in Slots :
    \/ LateReport(s) \/ NodeLost(s, w)
    \/ \E a \in {"running", "failed"} : CommandOutcome(s, w, a)
    \/ \E a \in Reported, h \in Health : Telemetry(s, w, a, h)

Next ==
  \/ \E s \in Sessions : Pass(s)
  \/ \E s \in Controllers : StartTick(s)
  \/ Users \/ Reports \/ ApiRestart \/ Tick

Spec == Init /\ [][Next]_vars

(* What follows once a node with room and free ports is found.             *)
NodeFound(s) == Exhausted(s) \/ \E w \in Slots : Place(s, w)

(* Calls that have begun go on and the controller keeps ticking; time      *)
(* passes; the API is restarted finitely often; and a placement that is    *)
(* tried again and again finds its volumes available and a node with room. *)
Fairness ==
  /\ \A s \in Sessions : WF_vars(Pass(s))
  /\ \A s \in Controllers \cup Requests : SF_vars(DecidePlace(s)) /\ SF_vars(NodeFound(s))
  /\ \A s \in Controllers : WF_vars(StartTick(s))
  /\ SF_vars(Tick)
  /\ <>[][~ApiRestart]_vars

FairSpec == Spec /\ Fairness

-----------------------------------------------------------------------------
(* Properties                                                              *)

(* The reconcile lease keeps overlapping ticks and requests from placing   *)
(* more workloads than the deployment has replicas, although each of them  *)
(* counts on rows it read earlier.                                         *)
ReplicaBound == Cardinality(Wanted) <= Replicas

(* Between two resets, automatic recovery places at most MaxRecovery       *)
(* rounds of replacements, however failures, losses, restarts of the API   *)
(* and user requests interleave.                                           *)
RecoveryBudget == replaced <= Replicas * MaxRecovery

(* Unless a user asks for it, no workload with volumes is given up,        *)
(* whatever its node, its container or its health check reports: it would  *)
(* be moved while its old container may still write to the volume.         *)
PinnedStays ==
  [][Persistent /\ Requests = {} => \A w \in Wanted : workloads'[w] # NoRow]_vars

(* Once recovery is exhausted nothing is placed for this deployment again: *)
(* neither a controller tick nor start, stop and restart lead out of       *)
(* manual_intervention.                                                    *)
ManualIsFinal ==
  [][deployment.recovery = "manual_intervention" =>
       /\ deployment'.recovery = "manual_intervention"
       /\ \A w \in Slots : workloads[w] = NoRow => workloads'[w] = NoRow]_vars

(* A deployment that is desired running gets its replicas, unless recovery *)
(* gives up or the user stops it.                                          *)
ReplicasArrive ==
  deployment.desired = "running" ~>
    \/ Cardinality(ActiveRows) >= Replicas
    \/ deployment.recovery = "manual_intervention"
    \/ deployment.desired # "running"

(* Although refreshes race and may lose their compare-and-set, a status    *)
(* "running" that is no longer true does not stay.                         *)
NoStaleRunning ==
  deployment.status = "running" /\ Derived(deployment.desired) # "running" ~>
    deployment.status # "running" \/ Derived(deployment.desired) = "running"
=============================================================================
