---------------------------- MODULE BuildPipeline ----------------------------
(***************************************************************************)
(* A build as the API sees it: the requests that create, cancel and retry  *)
(* it (builds.routes.ts), the run that the builder keeps for it, and the   *)
(* controller that copies the state of the run and deploys the image       *)
(* (modules/builds/controller.ts).  The ticks of the controller are not    *)
(* serialised: a call to the builder may take 15 seconds, a tick starts    *)
(* every 5.  BuilderQueue says how the builder arrives at its verdict.     *)
(***************************************************************************)
CONSTANTS
  Builds,         \* bound of the model: builds ever created
  NoBuildId,
  BuildHandlers,  \* requests in progress at once
  FailedBefore,   \* builds that the builder could not be reached for
  BuildTicks      \* passes of the controller in progress at once

ASSUME BuildPipelineAssumption == NoBuildId \notin Builds /\ FailedBefore \subseteq Builds

VARIABLES
  build,          \* rows of builds
  builderRun,     \* the builder's runs, by the build that is their key
  revisionOf,     \* builds that have a deployment
  buildRequest,   \* handlers of requests
  buildPass       \* passes of the controller, each at one build

bpVars == <<build, builderRun, revisionOf, buildRequest, buildPass>>

BuildActive == {"queued", "running", "pushing"}
BuildEnded == {"succeeded", "failed", "cancelled"}
RunType == [status : {"absent"} \cup BuildActive \cup BuildEnded,
            image : BOOLEAN,   \* the metadata name a digest and a commit
            cancel : BOOLEAN]  \* the builder accepted a cancellation
NoBuilderRun == [status |-> "absent", image |-> FALSE, cancel |-> FALSE]

BpTypeOK ==
  /\ build \in [Builds -> [status : {"none", "created"} \cup BuildActive \cup BuildEnded,
                           job : BOOLEAN,      \* builderJobId is set
                           deploy : BOOLEAN]]  \* deployment.enabled of its configuration
  /\ builderRun \in [Builds -> RunType]
  /\ revisionOf \subseteq Builds
  /\ buildRequest \in [BuildHandlers -> [pc : {"idle", "submit", "queue", "refuse", "cancel", "mark"},
                                         of : Builds \cup {NoBuildId}]]
  /\ buildPass \in [BuildTicks -> [pc : {"idle", "ask", "apply", "commit", "deploy", "follow"},
                                   of : Builds \cup {NoBuildId}, saw : RunType]]

NoRequest == [pc |-> "idle", of |-> NoBuildId]
NoPass == [pc |-> "idle", of |-> NoBuildId, saw |-> NoBuilderRun]

BpInit ==
  /\ build = [b \in Builds |-> [status |-> IF b \in FailedBefore THEN "failed" ELSE "none",
                                job |-> FALSE, deploy |-> FALSE]]
  /\ builderRun = [b \in Builds |-> NoBuilderRun]
  /\ revisionOf = {}
  /\ buildRequest = [c \in BuildHandlers |-> NoRequest]
  /\ buildPass = [t \in BuildTicks |-> NoPass]

-----------------------------------------------------------------------------
(* Requests to the API                                                     *)

RequestAt(c, pc) == buildRequest[c].pc = pc
RequestGoes(c, pc) == buildRequest' = [buildRequest EXCEPT ![c].pc = pc]
RequestEnds(c) == buildRequest' = [buildRequest EXCEPT ![c] = NoRequest]

(* createBuild inserts the row before it calls the builder.                *)
InsertBuild(c, b, deploy) ==
  /\ RequestAt(c, "idle")
  /\ build[b].status = "none"
  /\ build' = [build EXCEPT ![b] = [status |-> "created", job |-> FALSE, deploy |-> deploy]]
  /\ buildRequest' = [buildRequest EXCEPT ![c] = [pc |-> "submit", of |-> b]]
  /\ UNCHANGED <<builderRun, revisionOf, buildPass>>

TriggerBuild(c, b) == \E deploy \in BOOLEAN : InsertBuild(c, b, deploy)

(* A retry is a new build.  It deploys: its trigger is not "build",        *)
(* whatever the build that it repeats was made for.                        *)
RetryBuild(c, b) ==
  /\ \E old \in Builds : build[old].status \in {"failed", "cancelled"}
  /\ InsertBuild(c, b, TRUE)

(* createBuilderRun: the builder creates the run, and answers in time ...  *)
SubmitRun(c) ==
  LET b == buildRequest[c].of IN
  /\ RequestAt(c, "submit")
  /\ builderRun' = [builderRun EXCEPT ![b].status = "queued"]
  /\ RequestGoes(c, "queue")
  /\ UNCHANGED <<build, revisionOf, buildPass>>

(* ... or not, and then the run may exist.                                 *)
SubmitFails(c) ==
  LET b == buildRequest[c].of IN
  /\ RequestAt(c, "submit")
  /\ builderRun' \in {builderRun, [builderRun EXCEPT ![b].status = "queued"]}
  /\ RequestGoes(c, "refuse")
  /\ UNCHANGED <<build, revisionOf, buildPass>>

(* The end of createBuild, with the row queued or failed.                  *)
RecordSubmit(c) ==
  /\ \/ /\ RequestAt(c, "queue")
        /\ build' = [build EXCEPT ![buildRequest[c].of].status = "queued",
                                  ![buildRequest[c].of].job = TRUE]
     \/ /\ RequestAt(c, "refuse")
        /\ build' = [build EXCEPT ![buildRequest[c].of].status = "failed"]
  /\ RequestEnds(c)
  /\ UNCHANGED <<builderRun, revisionOf, buildPass>>

(* The cancel route reads the build ...                                    *)
CancelBuild(c, b) ==
  /\ RequestAt(c, "idle")
  /\ build[b].job /\ build[b].status \in BuildActive
  /\ buildRequest' = [buildRequest EXCEPT ![c] = [pc |-> "cancel", of |-> b]]
  /\ UNCHANGED <<build, builderRun, revisionOf, buildPass>>

(* ... and asks the builder, which ends a queued run, marks one that is    *)
(* claimed and refuses one that has ended.  Without its answer the route   *)
(* raises.                                                                 *)
CancelRun(c) ==
  LET b == buildRequest[c].of
      r == builderRun[b] IN
  /\ RequestAt(c, "cancel")
  /\ \/ /\ r.status \in BuildActive
        /\ builderRun' = [builderRun EXCEPT ![b].cancel = TRUE,
                                            ![b].status = IF @ = "queued" THEN "cancelled" ELSE @]
        /\ RequestGoes(c, "mark") \/ RequestEnds(c)
     \/ RequestEnds(c) /\ UNCHANGED builderRun
  /\ UNCHANGED <<build, revisionOf, buildPass>>

(* The update does not look at what the row says by now.                   *)
MarkCancelled(c) ==
  /\ RequestAt(c, "mark")
  /\ build' = [build EXCEPT ![buildRequest[c].of].status = "cancelled"]
  /\ RequestEnds(c)
  /\ UNCHANGED <<builderRun, revisionOf, buildPass>>

-----------------------------------------------------------------------------
(* The builder: a run is claimed, pushes its image and is decided; a       *)
(* marked run can only end as cancelled.                                   *)
RunNext(r) ==
  CASE r.status = "queued"  -> {[r EXCEPT !.status = "running"]}
    [] r.status = "running" -> {[r EXCEPT !.status = s] : s \in {"pushing", "failed", "queued"}}
    [] r.status = "pushing" -> {[r EXCEPT !.status = "succeeded", !.image = i] : i \in BOOLEAN}
                                 \cup {[r EXCEPT !.status = "failed"]}
    [] OTHER -> {}

RunAdvances(b) ==
  LET r == builderRun[b] IN
  /\ IF r.cancel /\ r.status \in BuildActive
     THEN builderRun' = [builderRun EXCEPT ![b].status = "cancelled"]
     ELSE \E next \in RunNext(r) : builderRun' = [builderRun EXCEPT ![b] = next]
  /\ UNCHANGED <<build, revisionOf, buildRequest, buildPass>>

-----------------------------------------------------------------------------
(* reconcileBuild                                                          *)

PassAt(t, pc) == buildPass[t].pc = pc
PassGoes(t, pc) == buildPass' = [buildPass EXCEPT ![t].pc = pc]
PassEnds(t) == buildPass' = [buildPass EXCEPT ![t] = NoPass]

(* Faulty variant of VisitBuild: every build that has not ended is visited,*)
(* also one that the builder was not asked to run.                         *)
VisitBuildUnsubmitted(t, b) ==
  /\ PassAt(t, "idle")
  /\ build[b].status \in {"created"} \cup BuildActive
  /\ buildPass' = [buildPass EXCEPT ![t].pc = "ask", ![t].of = b]
  /\ UNCHANGED <<build, builderRun, revisionOf, buildRequest>>

(* Faulty variant of VisitBuild: pushing is not among the listed states.   *)
VisitBuildNotPushing(t, b) ==
  /\ PassAt(t, "idle")
  /\ build[b].job /\ build[b].status \in {"queued", "running"}
  /\ buildPass' = [buildPass EXCEPT ![t].pc = "ask", ![t].of = b]
  /\ UNCHANGED <<build, builderRun, revisionOf, buildRequest>>

(* A tick comes to a build that it listed and that has not ended.          *)
VisitBuild(t, b) ==
  /\ PassAt(t, "idle")
  /\ build[b].job /\ build[b].status \in BuildActive
  /\ buildPass' = [buildPass EXCEPT ![t].pc = "ask", ![t].of = b]
  /\ UNCHANGED <<build, builderRun, revisionOf, buildRequest>>

(* getBuilderRun.                                                          *)
AskBuilder(t) ==
  LET r == builderRun[buildPass[t].of] IN
  /\ PassAt(t, "ask")
  /\ IF r.status = "queued" THEN PassEnds(t)
     ELSE buildPass' = [buildPass EXCEPT ![t].pc = "apply", ![t].saw = r]
  /\ UNCHANGED <<build, builderRun, revisionOf, buildRequest>>

(* No answer, or a statement that raises before the transaction commits.   *)
PassRaises(t) ==
  /\ buildPass[t].pc \in {"ask", "apply", "commit"}
  /\ PassEnds(t)
  /\ UNCHANGED <<build, builderRun, revisionOf, buildRequest>>

(* The status that the controller writes when there is nothing to deploy.  *)
StatusFor(r) ==
  IF r.status = "succeeded" /\ ~r.image THEN "failed" ELSE r.status

(* The update for a run that goes on, that failed or was cancelled, or     *)
(* whose image is not to be deployed; it does not look at the row.         *)
CopyStatus(t) ==
  LET b == buildPass[t].of
      r == buildPass[t].saw IN
  /\ PassAt(t, "apply")
  /\ r.status = "succeeded" /\ r.image => ~build[b].deploy
  /\ build' = [build EXCEPT ![b].status = StatusFor(r)]
  /\ PassEnds(t)
  /\ UNCHANGED <<builderRun, revisionOf, buildRequest>>

(* Faulty variant of ReadForDeploy: a run without an image is deployed.    *)
ReadForDeployAny(t) ==
  LET b == buildPass[t].of
      r == buildPass[t].saw IN
  /\ PassAt(t, "apply")
  /\ r.status = "succeeded" /\ build[b].deploy
  /\ IF build[b].status = "succeeded" THEN PassEnds(t)
     ELSE PassGoes(t, IF b \in revisionOf THEN "follow" ELSE "commit")
  /\ UNCHANGED <<build, builderRun, revisionOf, buildRequest>>

(* The reads of the transaction; another transaction may read the same.    *)
ReadForDeploy(t) ==
  LET b == buildPass[t].of
      r == buildPass[t].saw IN
  /\ PassAt(t, "apply")
  /\ r.status = "succeeded" /\ r.image /\ build[b].deploy
  /\ IF build[b].status = "succeeded" THEN PassEnds(t)
     ELSE PassGoes(t, IF b \in revisionOf THEN "follow" ELSE "commit")
  /\ UNCHANGED <<build, builderRun, revisionOf, buildRequest>>

(* Its updates.                                                            *)
CommitSucceeded(t) ==
  /\ PassAt(t, "commit")
  /\ build' = [build EXCEPT ![buildPass[t].of].status = "succeeded"]
  /\ PassGoes(t, "deploy")
  /\ UNCHANGED <<builderRun, revisionOf, buildRequest>>

(* createDeployment; the index on build_id refuses a second one.           *)
DeployBuild(t) ==
  LET b == buildPass[t].of IN
  /\ PassAt(t, "deploy")
  /\ b \notin revisionOf
  /\ revisionOf' = revisionOf \cup {b}
  /\ PassGoes(t, "follow")
  /\ UNCHANGED <<build, builderRun, buildRequest>>

(* The deployment cannot be created, or a statement after it raises, up to *)
(* the audit record: the build is failed.                                  *)
DeployFails(t) ==
  LET b == buildPass[t].of IN
  /\ PassAt(t, "deploy")
  /\ revisionOf' \in {revisionOf, revisionOf \cup {b}}
  /\ build' = [build EXCEPT ![b].status = "failed"]
  /\ PassEnds(t)
  /\ UNCHANGED <<builderRun, buildRequest>>

(* reconcileDeployment, which Reconciler describes.                        *)
FollowDeployment(t) ==
  /\ PassAt(t, "follow")
  /\ PassEnds(t)
  /\ UNCHANGED <<build, builderRun, revisionOf, buildRequest>>

(* The API stops in the middle of a request, or of a pass (PassDies): what *)
(* the handler has written stays.                                          *)
RequestDies(c) ==
  /\ ~RequestAt(c, "idle")
  /\ RequestEnds(c)
  /\ UNCHANGED <<build, builderRun, revisionOf, buildPass>>

PassDies(t) ==
  /\ PassAt(t, "deploy")
  /\ PassEnds(t)
  /\ UNCHANGED <<build, builderRun, revisionOf, buildRequest>>

-----------------------------------------------------------------------------
BuildPassStep(t) ==
  AskBuilder(t) \/ CopyStatus(t) \/ ReadForDeploy(t) \/ CommitSucceeded(t)
    \/ DeployBuild(t) \/ DeployFails(t) \/ FollowDeployment(t)

BuildRequestStep(c) ==
  SubmitRun(c) \/ SubmitFails(c) \/ RecordSubmit(c) \/ CancelRun(c) \/ MarkCancelled(c)

BpNext ==
  \/ \E c \in BuildHandlers :
       BuildRequestStep(c) \/ RequestDies(c)
         \/ \E b \in Builds : TriggerBuild(c, b) \/ RetryBuild(c, b) \/ CancelBuild(c, b)
  \/ \E t \in BuildTicks : BuildPassStep(t) \/ PassRaises(t) \/ PassDies(t) \/ \E b \in Builds : VisitBuild(t, b)
  \/ \E b \in Builds : RunAdvances(b)

(* A handler and a pass come to their end; every tick lists all active     *)
(* builds; the builder and the database answer again and again; a marked   *)
(* run ends, which BuilderQueue!CancelEnds shows of the builder.           *)
BpFairness ==
  /\ \A c \in BuildHandlers : WF_bpVars(BuildRequestStep(c))
  /\ \A t \in BuildTicks : WF_bpVars(BuildPassStep(t))
  /\ \A b \in Builds :
       /\ SF_bpVars(\E t \in BuildTicks : VisitBuild(t, b))
       /\ SF_bpVars(\E t \in BuildTicks : buildPass[t].of = b /\ AskBuilder(t))
       /\ SF_bpVars(\E t \in BuildTicks : buildPass[t].of = b /\ CopyStatus(t))
       /\ WF_bpVars(builderRun[b].cancel /\ RunAdvances(b))

BpSpec == BpInit /\ [][BpNext]_bpVars /\ BpFairness

-----------------------------------------------------------------------------
(* A cancellation that the builder accepted decides the build: whatever a  *)
(* late pass or a lost answer writes meanwhile (a cancelled build may turn *)
(* to running again), the build is cancelled in the end and stays so, and  *)
(* it is never deployed.                                                   *)
CancelDecides ==
  \A b \in Builds :
    builderRun[b].cancel ~> [](build[b].status = "cancelled" /\ b \notin revisionOf)

(* "Failures before an artifact exists create no deployment"               *)
(* (docs/git-deployment-pipeline.md): what is deployed has a run that      *)
(* succeeded with an image and was not cancelled, and a build is           *)
(* successful only then, whichever passes overlapped.                      *)
DeployedFromImage ==
  \A b \in Builds :
    b \in revisionOf \/ build[b].status = "succeeded" =>
      builderRun[b].status = "succeeded" /\ builderRun[b].image
=============================================================================
