------------------------------- MODULE Rollout -------------------------------
(***************************************************************************)
(* One application and its revisions: the deployments rows that deploys,   *)
(* rollbacks and finished builds create, and the calls that start, stop    *)
(* and supersede them while the deployment controller reconciles them.     *)
(*                                                                         *)
(* A pass of reconcileDeployment appears here as the reading of the        *)
(* desired state and the effect it then has on the revision's workloads;   *)
(* module Reconciler has its details.                                      *)
(***************************************************************************)
EXTENDS Naturals, Sequences, FiniteSets, FiniteSetsExt

CONSTANTS
  Users,         \* requests and build reconciliations in progress at once
  Ticks,         \* overlapping ticks of the deployment controller
  Builds,        \* builds of the application that deploy their artifact
  MaxAttempts,   \* transactions createDeployment tries
  MaxRevisions   \* bound of the model: revisions created

ASSUME CallAssumption == Users \cap Ticks = {}
ASSUME LimitAssumption == MaxAttempts \in Nat \ {0} /\ MaxRevisions \in Nat

NoBuild == "none"
ASSUME BuildAssumption == NoBuild \notin Builds

Calls == Users \cup Ticks

VARIABLES
  revisions,  \* deployments rows of the application, in the order of their insertion
  builds,     \* status of the builds whose run has succeeded
  call,       \* calls in progress
  serial,     \* history: only fresh revisions were rolled out, one after the other
  touched     \* history: something else was requested, or a rollout was cut off

vars == <<revisions, builds, call, serial, touched>>

(* "live" says that the revision has workloads that are desired running;   *)
(* of the status only "superseded" decides anything here.                  *)
Revision == [version: Nat, desired: {"running", "stopped"}, status: {"superseded", "other"},
             build: Builds \cup {NoBuild}, live: BOOLEAN]

Positions == 1..Len(revisions)

Call == [pc: {"idle", "commit", "create", "number", "insert", "select", "supersede", "stop",
              "update", "stopAll", "tick", "reconcile", "act"},
         kind: {"none", "rollout", "start", "stop", "restart", "stopAll", "tick"},
         build: Builds \cup {NoBuild}, attempt: Nat, version: Nat,
         rev: Nat, target: Nat, todo: SUBSET Nat, sees: {"running", "stopped"}]

TypeOK ==
  /\ revisions \in Seq(Revision)
  /\ builds \in [Builds -> {"built", "succeeded", "failed"}]
  /\ call \in [Calls -> Call]
  /\ \A c \in Calls : call[c].todo \subseteq Positions /\ {call[c].rev, call[c].target} \subseteq {0} \cup Positions
  /\ serial \in BOOLEAN /\ touched \in BOOLEAN

-----------------------------------------------------------------------------
Idle == [pc |-> "idle", kind |-> "none", build |-> NoBuild, attempt |-> 0, version |-> 0,
         rev |-> 0, target |-> 0, todo |-> {}, sees |-> "stopped"]

Init ==
  /\ revisions = <<>>
  /\ builds = [b \in Builds |-> "built"]
  /\ call = [c \in Calls |-> Idle]
  /\ serial = TRUE /\ touched = FALSE

At(c, pc) == call[c].pc = pc
Becomes(c, state) == call' = [call EXCEPT ![c] = state]
Goto(c, pc) == Becomes(c, [call[c] EXCEPT !.pc = pc])

OfBuild(b) == {i \in Positions : revisions[i].build = b}
Running == {i \in Positions : revisions[i].desired = "running"}
LastVersion == Max({0} \cup {revisions[i].version : i \in Positions})

AllUsersIdle == \A u \in Users : At(u, "idle")
Creating == {u \in Users : call[u].kind = "rollout" /\ call[u].rev = 0}

-----------------------------------------------------------------------------
(* Rolling out a revision: deploy, redeploy, rollback, finished build      *)

(* The deploy route, and createRedeployment of a stored revision.          *)
Deploy(u) ==
  /\ At(u, "idle") /\ Len(revisions) + Cardinality(Creating) < MaxRevisions
  /\ Becomes(u, [Idle EXCEPT !.pc = "create", !.kind = "rollout"])
  /\ serial' = (serial /\ AllUsersIdle)
  /\ UNCHANGED <<revisions, builds, touched>>

(* createRollbackDeployment of revision i carries its build over.          *)
Rollback(u, i) ==
  /\ At(u, "idle") /\ Len(revisions) + Cardinality(Creating) < MaxRevisions
  /\ Becomes(u, [Idle EXCEPT !.pc = "create", !.kind = "rollout", !.build = revisions[i].build])
  /\ serial' = (serial /\ AllUsersIdle /\ revisions[i].build = NoBuild)
  /\ UNCHANGED <<revisions, builds, touched>>

(* reconcileBuild reads in its transaction that build b is not deployed.   *)
ReadBuild(u, b) ==
  /\ At(u, "idle") /\ Len(revisions) + Cardinality(Creating) < MaxRevisions
  /\ builds[b] = "built"
  /\ Becomes(u, [Idle EXCEPT !.pc = "commit", !.kind = "rollout", !.build = b])
  /\ serial' = (serial /\ AllUsersIdle)
  /\ UNCHANGED <<revisions, builds, touched>>

(* It marks the build succeeded, or finds a revision created meanwhile.    *)
CommitBuild(u) ==
  LET b == call[u].build IN
  /\ At(u, "commit")
  /\ IF OfBuild(b) = {}
     THEN /\ builds' = [builds EXCEPT ![b] = "succeeded"]
          /\ Goto(u, "create")
     ELSE /\ \E i \in OfBuild(b) : Becomes(u, [call[u] EXCEPT !.pc = "reconcile", !.rev = i])
          /\ UNCHANGED builds
  /\ UNCHANGED <<revisions, serial, touched>>

(* createDeployment returns the revision that already deploys the build.   *)
ReadExisting(u) ==
  LET b == call[u].build IN
  /\ At(u, "create")
  /\ IF b # NoBuild /\ OfBuild(b) # {}
     THEN \E i \in OfBuild(b) : Becomes(u, [call[u] EXCEPT !.pc = "select", !.rev = i])
     ELSE Goto(u, "number")
  /\ UNCHANGED <<revisions, builds, serial, touched>>

ReadVersion(u) ==
  /\ At(u, "number")
  /\ Becomes(u, [call[u] EXCEPT !.pc = "insert", !.version = LastVersion + 1])
  /\ UNCHANGED <<revisions, builds, serial, touched>>

(* Faulty variants of Conflict: without one of the indexes.                *)
ConflictOfBuilds(u) ==
  \E i \in Positions : call[u].build # NoBuild /\ revisions[i].build = call[u].build
ConflictOfVersions(u) ==
  \E i \in Positions : revisions[i].version = call[u].version

(* The unique indexes on the version and on the build.                     *)
Conflict(u) ==
  \E i \in Positions :
    \/ revisions[i].version = call[u].version
    \/ call[u].build # NoBuild /\ revisions[i].build = call[u].build

NewRevision(u) ==
  [version |-> call[u].version, desired |-> "running", status |-> "other",
   build |-> call[u].build, live |-> FALSE]

Insert(u) ==
  /\ At(u, "insert") /\ ~Conflict(u)
  /\ revisions' = Append(revisions, NewRevision(u))
  /\ Becomes(u, [call[u] EXCEPT !.pc = "select", !.rev = Len(revisions) + 1, !.version = 0])
  /\ UNCHANGED <<builds, serial, touched>>

(* A conflict is tried again in a new transaction; the last one throws,    *)
(* which fails the build the revision was for.                             *)
InsertConflicts(u) ==
  LET b == call[u].build
      last == call[u].attempt + 1 = MaxAttempts IN
  /\ At(u, "insert") /\ Conflict(u)
  /\ Becomes(u, IF last THEN Idle
                ELSE [call[u] EXCEPT !.pc = "create", !.attempt = call[u].attempt + 1, !.version = 0])
  /\ builds' = IF last /\ b # NoBuild THEN [builds EXCEPT ![b] = "failed"] ELSE builds
  /\ UNCHANGED <<revisions, serial, touched>>

(* Faulty variant of SelectPrevious: looks for workloads, not for intent.  *)
SelectPlaced(u) ==
  /\ At(u, "select")
  /\ Becomes(u, [call[u] EXCEPT !.pc = "supersede",
                                !.todo = {i \in Running : revisions[i].live} \ {call[u].rev}])
  /\ UNCHANGED <<revisions, builds, serial, touched>>

(* supersedePreviousDeployments: reads the other desired revisions.        *)
SelectPrevious(u) ==
  /\ At(u, "select")
  /\ Becomes(u, [call[u] EXCEPT !.pc = "supersede", !.todo = Running \ {call[u].rev}])
  /\ UNCHANGED <<revisions, builds, serial, touched>>

(* Faulty variant of Supersede: the revision is to be deleted.             *)
SupersedeDeleting(u, i) ==
  /\ At(u, "supersede") /\ i \in call[u].todo
  /\ revisions' = [revisions EXCEPT ![i].desired = "deleted", ![i].status = "superseded"]
  /\ Becomes(u, [call[u] EXCEPT !.pc = "stop", !.target = i, !.todo = call[u].todo \ {i}])
  /\ UNCHANGED <<builds, serial, touched>>

Supersede(u, i) ==
  /\ At(u, "supersede") /\ i \in call[u].todo
  /\ revisions' = [revisions EXCEPT ![i].desired = "stopped", ![i].status = "superseded"]
  /\ Becomes(u, [call[u] EXCEPT !.pc = "stop", !.target = i, !.todo = call[u].todo \ {i}])
  /\ UNCHANGED <<builds, serial, touched>>

SupersedeDone(u) ==
  /\ At(u, "supersede") /\ call[u].todo = {}
  /\ Goto(u, "reconcile")
  /\ UNCHANGED <<revisions, builds, serial, touched>>

(* Where a call continues once the workloads of its target are stopped.    *)
AfterStop(c) ==
  CASE call[c].kind = "rollout" -> "supersede"
    [] call[c].kind = "restart" -> "reconcile"
    [] call[c].kind = "stopAll" -> "stopAll"

(* requestStateChange for the workloads of the target.                     *)
StopWorkloads(c) ==
  /\ At(c, "stop")
  /\ revisions' = [revisions EXCEPT ![call[c].target].live = FALSE]
  /\ Becomes(c, [call[c] EXCEPT !.pc = AfterStop(c), !.target = 0])
  /\ UNCHANGED <<builds, serial, touched>>

-----------------------------------------------------------------------------
(* Requests for one revision, and for the whole application                *)

(* runDeploymentAction reads the revision; only start looks at its status. *)
Request(u, action, i) ==
  /\ At(u, "idle")
  /\ action = "start" => revisions[i].status # "superseded"
  /\ Becomes(u, [Idle EXCEPT !.pc = "update", !.kind = action, !.rev = i])
  /\ serial' = FALSE /\ touched' = TRUE
  /\ UNCHANGED <<revisions, builds>>

UpdateDesired(u) ==
  LET i == call[u].rev IN
  /\ At(u, "update")
  /\ revisions' = [revisions EXCEPT ![i].status = "other",
       ![i].desired = IF call[u].kind = "stop" THEN "stopped" ELSE "running"]
  /\ Becomes(u, IF call[u].kind = "restart" THEN [call[u] EXCEPT !.pc = "stop", !.target = i]
                ELSE [call[u] EXCEPT !.pc = "reconcile"])
  /\ UNCHANGED <<builds, serial, touched>>

(* stopApplicationWorkloads.                                               *)
StopApplication(u) ==
  /\ At(u, "idle")
  /\ Becomes(u, [Idle EXCEPT !.pc = "stopAll", !.kind = "stopAll", !.todo = Positions])
  /\ serial' = FALSE /\ touched' = TRUE
  /\ UNCHANGED <<revisions, builds>>

StopRevision(u, i) ==
  /\ At(u, "stopAll") /\ i \in call[u].todo
  /\ revisions' = [revisions EXCEPT ![i].desired = "stopped"]
  /\ Becomes(u, [call[u] EXCEPT !.pc = "stop", !.target = i, !.todo = call[u].todo \ {i}])
  /\ UNCHANGED <<builds, serial, touched>>

StopApplicationDone(u) ==
  /\ At(u, "stopAll") /\ call[u].todo = {}
  /\ Becomes(u, Idle)
  /\ UNCHANGED <<revisions, builds, serial, touched>>

-----------------------------------------------------------------------------
(* The deployment controller, and a pass of reconcileDeployment            *)

StartTick(t) ==
  /\ At(t, "idle")
  /\ Becomes(t, [Idle EXCEPT !.pc = "tick", !.kind = "tick", !.todo = Positions])
  /\ UNCHANGED <<revisions, builds, serial, touched>>

NextRevision(t, i) ==
  /\ At(t, "tick") /\ i \in call[t].todo
  /\ Becomes(t, [call[t] EXCEPT !.pc = "reconcile", !.rev = i, !.todo = call[t].todo \ {i}])
  /\ UNCHANGED <<revisions, builds, serial, touched>>

EndTick(t) ==
  /\ At(t, "tick") /\ call[t].todo = {}
  /\ Becomes(t, Idle)
  /\ UNCHANGED <<revisions, builds, serial, touched>>

AfterPass(c) ==
  IF call[c].kind = "tick" THEN [call[c] EXCEPT !.pc = "tick", !.rev = 0, !.sees = "stopped"] ELSE Idle

(* Another call holds the reconcile lease of this revision.                *)
Leased(c) == \E d \in Calls \ {c} : At(d, "act") /\ call[d].rev = call[c].rev

ReadDesired(c) ==
  /\ At(c, "reconcile")
  /\ Becomes(c, IF Leased(c) THEN AfterPass(c)
                ELSE [call[c] EXCEPT !.pc = "act", !.sees = revisions[call[c].rev].desired])
  /\ UNCHANGED <<revisions, builds, serial, touched>>

(* Faulty variant of ReconcileStop: stopped revisions are not visited.     *)
ReconcileNothing(c) ==
  /\ At(c, "act") /\ call[c].sees = "stopped"
  /\ Becomes(c, AfterPass(c))
  /\ UNCHANGED <<revisions, builds, serial, touched>>

(* The pass stops the workloads of a revision it read as not desired...    *)
ReconcileStop(c) ==
  /\ At(c, "act") /\ call[c].sees = "stopped"
  /\ revisions' = [revisions EXCEPT ![call[c].rev].live = FALSE]
  /\ Becomes(c, AfterPass(c))
  /\ UNCHANGED <<builds, serial, touched>>

(* ... places or retires workloads of a desired one, or sets it failed,    *)
(* possibly after it placed some.                                          *)
ReconcilePlace(c) ==
  LET i == call[c].rev IN
  /\ At(c, "act") /\ call[c].sees = "running"
  /\ \/ \E live \in BOOLEAN : revisions' = [revisions EXCEPT ![i].live = live]
     \/ \E live \in {revisions[i].live, TRUE} :
          revisions' = [revisions EXCEPT ![i].live = live, ![i].status = "other"]
  /\ Becomes(c, AfterPass(c))
  /\ UNCHANGED <<builds, serial, touched>>

(* The API process dies; no call is resumed.                               *)
ApiRestart ==
  /\ \E c \in Calls : ~At(c, "idle")
  /\ call' = [c \in Calls |-> Idle]
  /\ serial' = (serial /\ AllUsersIdle)
  /\ touched' = (touched \/ ~AllUsersIdle)
  /\ UNCHANGED <<revisions, builds>>

-----------------------------------------------------------------------------
Steps(c) ==
  \/ ReadDesired(c) \/ ReconcileStop(c) \/ ReconcilePlace(c)
  \/ CommitBuild(c) \/ ReadExisting(c) \/ ReadVersion(c) \/ Insert(c) \/ InsertConflicts(c)
  \/ SelectPrevious(c) \/ SupersedeDone(c) \/ StopWorkloads(c)
  \/ UpdateDesired(c) \/ StopApplicationDone(c) \/ EndTick(c)
  \/ \E i \in Positions : Supersede(c, i) \/ StopRevision(c, i) \/ NextRevision(c, i)

NewCalls ==
  \/ \E u \in Users :
       \/ Deploy(u) \/ StopApplication(u)
       \/ \E b \in Builds : ReadBuild(u, b)
       \/ \E i \in Positions : Rollback(u, i) \/ \E a \in {"start", "stop", "restart"} : Request(u, a, i)
  \/ \E t \in Ticks : StartTick(t)

Next == NewCalls \/ ApiRestart \/ \E c \in Calls : Steps(c)

Spec == Init /\ [][Next]_vars

(* A call that has begun goes on, and the controller keeps ticking; the    *)
(* API is restarted finitely often.                                        *)
FairSpec ==
  /\ Spec
  /\ \A c \in Calls : WF_vars(Steps(c))
  /\ \A t \in Ticks : WF_vars(StartTick(t))
  /\ <>[][~ApiRestart]_vars

-----------------------------------------------------------------------------
(* Properties                                                              *)

(* However creations race, the revisions are numbered 1, 2, 3, ... in the  *)
(* order in which they were inserted.                                      *)
VersionsInOrder == \A i \in Positions : revisions[i].version = i

(* A build is deployed by one revision only, however often and however     *)
(* concurrently it is reconciled or rolled back to.                        *)
BuildDeployedOnce == \A b \in Builds : Cardinality(OfBuild(b)) <= 1

(* Fresh revisions rolled out one after the other replace each other: when *)
(* the last rollout has ended, its revision alone is desired running,      *)
(* whatever the controller did in between.                                 *)
SerialRollout ==
  serial /\ AllUsersIdle => Running = {Len(revisions)} \ {0}

(* Workloads are desired of a revision that is not.                        *)
Orphaned(i) ==
  i \in Positions /\ revisions[i].desired = "stopped" /\ revisions[i].live

(* A pass that read the desired state before a revision was superseded or  *)
(* stopped may still place workloads for it; they do not stay.             *)
OrphansStop ==
  \A i \in 1..MaxRevisions : Orphaned(i) ~> ~Orphaned(i)

(* The comment on supersedePreviousDeployments, "A new revision becomes    *)
(* the sole desired running revision for an application": once rollouts    *)
(* have ended, and nobody started or stopped anything else, one revision   *)
(* is desired running.                                                     *)
SoleRunningRevision ==
  AllUsersIdle /\ ~touched /\ revisions # <<>> => Cardinality(Running) = 1
=============================================================================
