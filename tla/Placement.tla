------------------------------ MODULE Placement ------------------------------
(***************************************************************************)
(* Where workloads go: the part of a reconcile pass that chooses a node,   *)
(* binds volumes and host ports to it and inserts the workload, and the    *)
(* life of the volumes of one application (deployments/controller.ts,      *)
(* scheduler.ts, ports.ts, modules/volumes, volumes.routes.ts and the      *)
(* attachments of applications.routes.ts).                                 *)
(*                                                                         *)
(* Passes of different revisions run concurrently; those of one revision   *)
(* hold its lease (Reconciler).  A pass is cut at its database statements. *)
(*                                                                         *)
(* Simplifications: one replica each; one resource stands for processor,   *)
(* memory and storage, and what the agents report as reserved is below it; *)
(* runtime, region, architecture and labels are hard constraints like the  *)
(* readiness of a node.                                                    *)
(***************************************************************************)
EXTENDS FiniteSets, Naturals, FiniteSetsExt

CONSTANTS
  Nodes, Capacity,     \* allocatable units of every node
  Revisions, Demand,   \* units that a workload of each revision needs
  PortRange,           \* the dynamic range
  FixedPort,           \* requested host port of each revision, or Dynamic
  Volumes,
  NoNode, Dynamic,
  ScarcePasses         \* bound of the model: placements ever begun

ASSUME PlacementAssumption ==
  /\ Capacity \in [Nodes -> Nat \ {0}] /\ Demand \in [Revisions -> Nat \ {0}]
  /\ FixedPort \in [Revisions -> PortRange \cup {Dynamic}]
  /\ NoNode \notin Nodes /\ Dynamic \notin PortRange /\ ScarcePasses \in Nat

VARIABLES
  nodeReady,     \* nodes whose status is ready
  volume,        \* volumes rows
  mounted,       \* volumes attached to the application
  gathered,      \* volumes read for revisions that are yet to be inserted
  revision,      \* the existing revisions and the volumes they captured
  placed,        \* workload rows: [of, node, port, wanted, stopped]
  placing,       \* passes in progress
  volumeCommand, \* the last volume.delete command of every volume
  volumeCall,    \* volume requests between their checks and their write
  passes,        \* passes begun
  passesMet,     \* history: two passes were in progress together
  recounted,     \* history: a workload left out as stopped counted again
  tooLate        \* history: volumes attached or captured while being deleted

plcVars == <<nodeReady, volume, mounted, gathered, revision, placed, placing, volumeCommand,
             volumeCall, passes, passesMet, recounted, tooLate>>

VolumeStatus == {"absent", "available", "in_use", "unavailable", "error", "deleting", "gone"}
(* "wanted": desired running; "stopped": the agent says that it is not.    *)
WorkloadRow == [of : Revisions, node : Nodes, port : PortRange, wanted : BOOLEAN, stopped : BOOLEAN]
Snapshot == [ready : SUBSET Nodes, load : [Nodes -> Nat], busy : SUBSET (Nodes \X PortRange)]
NoSnapshot == [ready |-> {}, load |-> [n \in Nodes |-> 0], busy |-> {}]
NoPlacing == [pc |-> "idle", required |-> NoNode, seen |-> NoSnapshot, node |-> NoNode, occupied |-> {}]
NoVolume == [status |-> "absent", node |-> NoNode]

PlcInit ==
  /\ nodeReady = Nodes
  /\ volume = [v \in Volumes |-> NoVolume]
  /\ mounted = {} /\ gathered = <<>> /\ revision = <<>> /\ placed = {}
  /\ placing = [r \in Revisions |-> NoPlacing]
  /\ volumeCommand = [v \in Volumes |-> "none"]
  /\ volumeCall = {} /\ passes = 0
  /\ passesMet = FALSE /\ recounted = FALSE /\ tooLate = {}

-----------------------------------------------------------------------------
(* The volumes of the application.                                         *)

VolumeListed(v) == volume[v].status \notin {"absent", "gone"}
Retained(v) == v \in mounted \/ \E r \in DOMAIN revision : v \in revision[r]
(* Its deletion has passed its checks.                                     *)
Doomed(v) == \/ <<"delete", v>> \in volumeCall \/ volume[v].status = "deleting"
             \/ volumeCommand[v] # "none"

(* Ids are random: that of a deleted row does not come back.               *)
CreateVolume(v) ==
  /\ volume[v].status = "absent"
  /\ volume' = [volume EXCEPT ![v] = [status |-> "available", node |-> NoNode]]
  /\ UNCHANGED <<nodeReady, mounted, gathered, revision, placed, placing, volumeCommand, volumeCall, passes, passesMet, recounted, tooLate>>

VolumeRequest(op, v) == volumeCall' = volumeCall \cup {<<op, v>>}

AttachVolume(v) ==
  /\ volume[v].status = "available"
  /\ VolumeRequest("attach", v)
  /\ UNCHANGED <<nodeReady, volume, mounted, gathered, revision, placed, placing, volumeCommand, passes, passesMet, recounted, tooLate>>

(* Faulty variant of DeleteVolume: the snapshots of revisions are not      *)
(* looked at.                                                              *)
DeleteVolumeDetached(v) ==
  /\ VolumeListed(v) /\ v \notin mounted
  /\ VolumeRequest("delete", v)
  /\ UNCHANGED <<nodeReady, volume, mounted, gathered, revision, placed, placing, volumeCommand, passes, passesMet, recounted, tooLate>>

DeleteVolume(v) ==
  /\ VolumeListed(v) /\ ~Retained(v)
  /\ VolumeRequest("delete", v)
  /\ UNCHANGED <<nodeReady, volume, mounted, gathered, revision, placed, placing, volumeCommand, passes, passesMet, recounted, tooLate>>

DetachVolume(v) ==
  /\ v \in mounted
  /\ mounted' = mounted \ {v}
  /\ VolumeRequest("detach", v)
  /\ UNCHANGED <<nodeReady, volume, gathered, revision, placed, placing, volumeCommand, passes, passesMet, recounted, tooLate>>

(* The updates of the status do not ask what it is by then.                *)
VolumeWritten(op, v) ==
  /\ <<op, v>> \in volumeCall /\ volumeCall' = volumeCall \ {<<op, v>>}
  /\ volume' = [volume EXCEPT ![v].status =
       IF VolumeListed(v) /\ op = "delete" THEN "deleting"
       ELSE IF VolumeListed(v) /\ v \notin mounted THEN "in_use" ELSE @]
  /\ LET new == IF op = "attach" /\ VolumeListed(v) THEN {v} ELSE {} IN
       /\ mounted' = mounted \cup new
       /\ tooLate' = tooLate \cup {u \in new : Doomed(u)}
  /\ UNCHANGED <<nodeReady, gathered, revision, placed, placing, volumeCommand, passes, passesMet, recounted>>

(* One volume in a tick of the volume controller.  Deleting the row fails  *)
(* while something refers to it, and ends the tick.                        *)
VolumeTick(v) ==
  /\ volume[v].status = "deleting"
  /\ \/ /\ volume[v].node = NoNode \/ volumeCommand[v] = "succeeded"
        /\ ~Retained(v)
        /\ volume' = [volume EXCEPT ![v] = [status |-> "gone", node |-> NoNode]]
        /\ volumeCommand' = [volumeCommand EXCEPT ![v] = "none"]
     \/ /\ volume[v].node # NoNode /\ volumeCommand[v] = "failed"
        /\ volume' = [volume EXCEPT ![v].status = "error"]
        /\ UNCHANGED volumeCommand
     \/ /\ volume[v].node # NoNode /\ volumeCommand[v] = "none"
        /\ volumeCommand' = [volumeCommand EXCEPT ![v] = "pending"]
        /\ UNCHANGED volume
  /\ UNCHANGED <<nodeReady, mounted, gathered, revision, placed, placing, volumeCall, passes, passesMet, recounted, tooLate>>

(* Docker refuses to remove a volume that a container still has.           *)
RemoveVolume(v) ==
  /\ volumeCommand[v] = "pending"
  /\ \E status \in {"succeeded", "failed"} :
       /\ status = "succeeded" =>
            ~\E w \in placed : w.node = volume[v].node /\ v \in revision[w.of]
       /\ volumeCommand' = [volumeCommand EXCEPT ![v] = status]
  /\ UNCHANGED <<nodeReady, volume, mounted, gathered, revision, placed, placing, volumeCall, passes, passesMet, recounted, tooLate>>

(* A deploy request reads the mounts of the application, a build when it   *)
(* is created, and a rollback or redeployment those of its source.         *)
ReadMounts(r) ==
  /\ r \notin DOMAIN revision \cup DOMAIN gathered
  /\ \E V \in {mounted} \cup {revision[source] : source \in DOMAIN revision} :
       gathered' = [x \in DOMAIN gathered \cup {r} |-> IF x = r THEN V ELSE gathered[x]]
  /\ UNCHANGED <<nodeReady, volume, mounted, revision, placed, placing, volumeCommand, volumeCall, passes, passesMet, recounted, tooLate>>

(* Much later for a build, createDeployment captures what was read; it     *)
(* fails where a row is gone, as does a build that is not deployed.        *)
CreateRevision(r) ==
  /\ r \in DOMAIN gathered
  /\ gathered' = [x \in DOMAIN gathered \ {r} |-> gathered[x]]
  /\ \/ UNCHANGED <<revision, tooLate>>
     \/ /\ \A v \in gathered[r] : VolumeListed(v)
        /\ revision' = [x \in DOMAIN revision \cup {r} |-> IF x = r THEN gathered[r] ELSE revision[x]]
        /\ tooLate' = tooLate \cup {v \in gathered[r] : Doomed(v)}
  /\ UNCHANGED <<nodeReady, volume, mounted, placed, placing, volumeCommand, volumeCall, passes, passesMet, recounted>>

-----------------------------------------------------------------------------
(* Nodes and workloads.                                                    *)

(* What is wanted there is lost; without volumes it is to be replaced.     *)
AfterLoss(w) == [w EXCEPT !.wanted = revision[w.of] # {}, !.stopped = FALSE]
NodeOffline(n) ==
  /\ n \in nodeReady
  /\ nodeReady' = nodeReady \ {n}
  /\ volume' = [v \in Volumes |-> IF volume[v].node = n /\ volume[v].status \in {"available", "in_use"}
                                  THEN [volume[v] EXCEPT !.status = "unavailable"] ELSE volume[v]]
  /\ placed' = {IF w.node = n /\ w.wanted THEN AfterLoss(w) ELSE w : w \in placed}
  /\ recounted' = (recounted \/ \E w \in placed : w.node = n /\ w.wanted /\ w.stopped)
  /\ UNCHANGED <<mounted, gathered, revision, placing, volumeCommand, volumeCall, passes, passesMet, tooLate>>

NodeReturns(n) ==
  /\ n \notin nodeReady
  /\ nodeReady' = nodeReady \cup {n}
  /\ volume' = [v \in Volumes |-> IF volume[v].node = n /\ volume[v].status = "unavailable"
                                  THEN [volume[v] EXCEPT !.status = "in_use"] ELSE volume[v]]
  /\ UNCHANGED <<mounted, gathered, revision, placed, placing, volumeCommand, volumeCall, passes, passesMet, recounted, tooLate>>

(* Reports about a workload that is to run: the agent calls a container    *)
(* stopped that has exited, is being restarted by Docker or is not found.  *)
ReportState(w, stopped) ==
  /\ w.wanted /\ w.stopped # stopped
  /\ placed' = (placed \ {w}) \cup {[w EXCEPT !.stopped = stopped]}
  /\ recounted' = (recounted \/ ~stopped)
  /\ UNCHANGED <<nodeReady, volume, mounted, gathered, revision, placing, volumeCommand, volumeCall, passes, passesMet, tooLate>>

(* A stop request, and the report of its success, which frees the port.    *)
RetireWorkload(w) ==
  /\ w.wanted
  /\ placed' = (placed \ {w}) \cup {[w EXCEPT !.wanted = FALSE]}
  /\ UNCHANGED <<nodeReady, volume, mounted, gathered, revision, placing, volumeCommand, volumeCall, passes, passesMet, recounted, tooLate>>

WorkloadStopped(w) ==
  /\ ~w.wanted
  /\ placed' = placed \ {w}
  /\ UNCHANGED <<nodeReady, volume, mounted, gathered, revision, placing, volumeCommand, volumeCall, passes, passesMet, recounted, tooLate>>

-----------------------------------------------------------------------------
(* A pass: volumes, candidates, claim, ports, insert.                      *)

PassStep(r, pc) == placing' = [placing EXCEPT ![r].pc = pc]
(* The deployment fails, or no node is found: the pass ends either way.    *)
EndPass(r) == placing' = [placing EXCEPT ![r] = NoPlacing]
NodesOf(V) == {volume[v].node : v \in V} \ {NoNode}

BeginPass(r) ==
  /\ r \in DOMAIN revision /\ placing[r].pc = "idle"
  /\ ~\E w \in placed : w.of = r /\ w.wanted
  /\ passes < ScarcePasses /\ passes' = passes + 1
  /\ PassStep(r, "volumes")
  /\ passesMet' = (passesMet \/ \E other \in Revisions : placing[other].pc # "idle")
  /\ UNCHANGED <<nodeReady, volume, mounted, gathered, revision, placed, volumeCommand, volumeCall, recounted, tooLate>>

CheckVolumes(r) ==
  /\ placing[r].pc = "volumes"
  /\ IF \/ \E v \in revision[r] : volume[v].status \notin {"available", "in_use"}
        \/ Cardinality(NodesOf(revision[r])) > 1
     THEN EndPass(r)
     ELSE placing' = [placing EXCEPT ![r].pc = "load", ![r].required =
            IF NodesOf(revision[r]) = {} THEN NoNode ELSE CHOOSE n \in NodesOf(revision[r]) : TRUE]
  /\ UNCHANGED <<nodeReady, volume, mounted, gathered, revision, placed, volumeCommand, volumeCall, passes, passesMet, recounted, tooLate>>

(* The room that loadCandidates counts as taken: a workload that was       *)
(* reported as stopped is left out, also one that is to run again.         *)
Load(n) == MapThenSumSet(LAMBDA w : Demand[w.of], {w \in placed : w.node = n /\ ~w.stopped})

(* Faulty variant of loadCandidates: only wanted workloads take room.      *)
loadCandidatesWanted(r) ==
  /\ placing[r].pc = "load"
  /\ placing' = [placing EXCEPT ![r].pc = "schedule", ![r].seen =
       [ready |-> nodeReady, busy |-> {<<w.node, w.port>> : w \in placed},
        load |-> [n \in Nodes |-> MapThenSumSet(LAMBDA w : Demand[w.of],
                                    {w \in placed : w.node = n /\ ~w.stopped /\ w.wanted})]]]
  /\ UNCHANGED <<nodeReady, volume, mounted, gathered, revision, placed, volumeCommand, volumeCall, passes, passesMet, recounted, tooLate>>

loadCandidates(r) ==
  /\ placing[r].pc = "load"
  /\ placing' = [placing EXCEPT ![r].pc = "schedule", ![r].seen =
       [ready |-> nodeReady, load |-> [n \in Nodes |-> Load(n)],
        busy |-> {<<w.node, w.port>> : w \in placed}]]
  /\ UNCHANGED <<nodeReady, volume, mounted, gathered, revision, placed, volumeCommand, volumeCall, passes, passesMet, recounted, tooLate>>

Fitting(r) ==
  LET seen == placing[r].seen IN
  {n \in seen.ready :
     /\ placing[r].required \in {NoNode, n}
     /\ <<n, FixedPort[r]>> \notin seen.busy
     /\ seen.load[n] + Demand[r] <= Capacity[n]}

(* The share of the node that is free, compared without division.          *)
scoreNodeAtLeast(seen, n, m) ==
  (Capacity[n] - seen.load[n]) * Capacity[m] >= (Capacity[m] - seen.load[m]) * Capacity[n]

(* The least loaded; ties are broken by ids, which are random.             *)
scheduleWorkload(r) ==
  {n \in Fitting(r) : \A m \in Fitting(r) : scoreNodeAtLeast(placing[r].seen, n, m)}

ScheduleWorkload(r) ==
  /\ placing[r].pc = "schedule"
  /\ \/ Fitting(r) = {} /\ EndPass(r)
     \/ \E n \in scheduleWorkload(r) :
          placing' = [placing EXCEPT ![r].node = n,
                        ![r].pc = IF revision[r] = {} THEN "ports" ELSE "claim"]
  /\ UNCHANGED <<nodeReady, volume, mounted, gathered, revision, placed, volumeCommand, volumeCall, passes, passesMet, recounted, tooLate>>

(* Volumes without a node are bound to the one that was chosen.            *)
ClaimVolumes(r) ==
  /\ placing[r].pc = "claim"
  /\ volume' = [v \in Volumes |-> IF v \in revision[r] /\ VolumeListed(v) /\ volume[v].node = NoNode
                  THEN [status |-> "in_use", node |-> placing[r].node] ELSE volume[v]]
  /\ PassStep(r, "claimed")
  /\ UNCHANGED <<nodeReady, mounted, gathered, revision, placed, volumeCommand, volumeCall, passes, passesMet, recounted, tooLate>>

(* Faulty variant of ReadClaim: the claim is not read back.                *)
ReadClaimTrusted(r) ==
  /\ placing[r].pc = "claimed"
  /\ PassStep(r, "ports")
  /\ UNCHANGED <<nodeReady, volume, mounted, gathered, revision, placed, volumeCommand, volumeCall, passes, passesMet, recounted, tooLate>>

(* Another pass may have won: schedule again on the node it has chosen.    *)
ReadClaim(r) ==
  /\ placing[r].pc = "claimed"
  /\ LET claimed == NodesOf(revision[r]) IN
     \/ Cardinality(claimed) # 1 /\ EndPass(r)
     \/ /\ claimed = {placing[r].node}
        /\ placing' = [placing EXCEPT ![r].pc = "ports", ![r].required = placing[r].node]
     \/ \E n \in Nodes \ {placing[r].node} :
          /\ claimed = {n}
          /\ placing' = [placing EXCEPT ![r].pc = "schedule", ![r].required = n]
  /\ UNCHANGED <<nodeReady, volume, mounted, gathered, revision, placed, volumeCommand, volumeCall, passes, passesMet, recounted, tooLate>>

ReadPorts(r) ==
  /\ placing[r].pc = "ports"
  /\ placing' = [placing EXCEPT ![r].pc = "insert",
                   ![r].occupied = {w.port : w \in {x \in placed : x.node = placing[r].node}}]
  /\ UNCHANGED <<nodeReady, volume, mounted, gathered, revision, placed, volumeCommand, volumeCall, passes, passesMet, recounted, tooLate>>

(* Some port that is not occupied, as the hash of the workload decides.    *)
chooseDynamicHostPort(occupied) == PortRange \ occupied

PortsFor(r) == IF FixedPort[r] = Dynamic THEN chooseDynamicHostPort(placing[r].occupied)
               ELSE {FixedPort[r]}

(* One transaction; the unique index on active ports may refuse it.        *)
InsertWorkload(r) ==
  /\ placing[r].pc = "insert"
  /\ EndPass(r)
  /\ \/ PortsFor(r) = {} /\ UNCHANGED placed
     \/ \E port \in PortsFor(r) :
          placed' = IF \E w \in placed : w.node = placing[r].node /\ w.port = port
                    THEN placed
                    ELSE placed \cup {[of |-> r, node |-> placing[r].node, port |-> port, wanted |-> TRUE, stopped |-> FALSE]}
  /\ UNCHANGED <<nodeReady, volume, mounted, gathered, revision, volumeCommand, volumeCall, passes, passesMet, recounted, tooLate>>

PlcNext ==
  \/ \E v \in Volumes : \/ CreateVolume(v) \/ AttachVolume(v) \/ DetachVolume(v) \/ DeleteVolume(v)
                        \/ VolumeTick(v) \/ RemoveVolume(v)
                        \/ \E op \in {"attach", "detach", "delete"} : VolumeWritten(op, v)
  \/ \E n \in Nodes : NodeOffline(n) \/ NodeReturns(n)
  \/ \E w \in placed : \/ RetireWorkload(w) \/ WorkloadStopped(w)
                       \/ \E stopped \in BOOLEAN : ReportState(w, stopped)
  \/ \E r \in Revisions :
       \/ ReadMounts(r) \/ CreateRevision(r) \/ BeginPass(r) \/ CheckVolumes(r) \/ loadCandidates(r)
       \/ ScheduleWorkload(r) \/ ClaimVolumes(r) \/ ReadClaim(r) \/ ReadPorts(r) \/ InsertWorkload(r)

PlcSpec == PlcInit /\ [][PlcNext]_plcVars

-----------------------------------------------------------------------------
PlcTypeOK ==
  /\ nodeReady \subseteq Nodes /\ mounted \subseteq Volumes
  /\ volume \in [Volumes -> [status : VolumeStatus, node : Nodes \cup {NoNode}]]
  /\ DOMAIN revision \subseteq Revisions /\ \A r \in DOMAIN revision : revision[r] \subseteq Volumes
  /\ DOMAIN gathered \subseteq Revisions /\ \A r \in DOMAIN gathered : gathered[r] \subseteq Volumes
  /\ placed \subseteq WorkloadRow
  /\ \A r \in Revisions :
       /\ placing[r].pc \in {"idle", "volumes", "load", "schedule", "claim", "claimed", "ports", "insert"}
       /\ placing[r].seen \in Snapshot
       /\ placing[r].occupied \subseteq PortRange
       /\ {placing[r].required, placing[r].node} \subseteq Nodes \cup {NoNode}
  /\ volumeCommand \in [Volumes -> {"none", "pending", "succeeded", "failed"}]
  /\ volumeCall \subseteq {"attach", "detach", "delete"} \X Volumes
  /\ passes \in Nat /\ passesMet \in BOOLEAN /\ recounted \in BOOLEAN /\ tooLate \subseteq Volumes

(* Every workload that was placed lies on the node of each of its volumes, *)
(* whichever passes, requests and failures of nodes came in between        *)
(* ("retry scheduling with that durable node affinity instead of creating  *)
(* a second same-named Docker volume", controller.ts:145).                 *)
VolumeAffinity ==
  \A w \in placed : \A v \in revision[w.of] : volume[v].node = w.node

(* The same, with the types of the rows it is about.                       *)
BesideVolumes == PlcTypeOK /\ VolumeAffinity

(* What counts as placed on a node, stopping workloads included, never     *)
(* needs more than it has, unless passes overlapped or a workload that had *)
(* been left out as stopped ran again or was lost (loadCandidates,         *)
(* controller.ts:353): every other pass counts what it has read.           *)
RoomWithoutOverlap == ~passesMet /\ ~recounted => \A n \in Nodes : Load(n) <= Capacity[n]

(* What is desired to run on a node fits it as long as passes do not       *)
(* overlap ("Resource reservations are recomputed from unfinished          *)
(* workloads, preventing independent deployments from overcommitting a     *)
(* node", docs/control-plane.md:72).                                       *)
NoOvercommit ==
  ~passesMet => \A n \in Nodes :
    MapThenSumSet(LAMBDA w : Demand[w.of], {w \in placed : w.node = n /\ w.wanted}) <= Capacity[n]

(* A volume that the application mounts or a revision captured is not      *)
(* being deleted, however requests, builds, ticks and passes overlap,      *)
(* unless it was attached or captured after its deletion had been accepted *)
(* ("Volume is retained by a deployment snapshot", volumes.routes.ts:69).  *)
RetainedKept ==
  \A v \in Volumes \ tooLate :
    Retained(v) => volume[v].status # "deleting" /\ volumeCommand[v] = "none"
=============================================================================
