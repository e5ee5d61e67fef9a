---------------------------- MODULE SettleProofs -----------------------------
(***************************************************************************)
(* Proofs about the parts that MCSettle composes: BuildPipeline, for any   *)
(* number of builds, requests and passes of the controller; Domains, for   *)
(* any number of domains, hostnames and handlers; and Rollout, for the     *)
(* instance that MCSettle makes of it (RolloutProofs is general).          *)
(***************************************************************************)
EXTENDS MCSettle, Naturals, TLAPS

-----------------------------------------------------------------------------
(* The inductive invariant                                                 *)

(* The builder knows of b.                                                 *)
HasRun(b) == builderRun[b].status # "absent"

(* The builder has decided that the run of b succeeded with an image.      *)
HasImage(b) == builderRun[b].status = "succeeded" /\ builderRun[b].image

(* A build has no run before it is submitted, and one request submits it.  *)
Creating(c) == buildRequest[c].pc \in {"submit", "queue", "refuse"}
SubmittedOnce ==
  /\ \A b \in Builds : /\ build[b].status = "none" => ~HasRun(b)
                       /\ build[b].job => HasRun(b)
  /\ \A c \in BuildHandlers :
       /\ buildRequest[c].pc # "idle" => buildRequest[c].of \in Builds
       /\ Creating(c) => build[buildRequest[c].of].status # "none"
       /\ RequestAt(c, "submit") => ~HasRun(buildRequest[c].of)
       /\ RequestAt(c, "queue") => HasRun(buildRequest[c].of)
       /\ \A d \in BuildHandlers :
            Creating(c) /\ Creating(d) /\ buildRequest[c].of = buildRequest[d].of => c = d

(* What a pass saw of a run that succeeded is still so when it applies it. *)
SawRight ==
  \A t \in BuildTicks :
    /\ buildPass[t].pc # "idle" => buildPass[t].of \in Builds
    /\ PassAt(t, "ask") => HasRun(buildPass[t].of)
    /\ PassAt(t, "apply") => buildPass[t].saw.status # "absent"
    /\ PassAt(t, "apply") /\ buildPass[t].saw.status = "succeeded" =>
         /\ builderRun[buildPass[t].of].status = "succeeded"
         /\ builderRun[buildPass[t].of].image = buildPass[t].saw.image
    /\ buildPass[t].pc \in {"commit", "deploy"} => HasImage(buildPass[t].of)

(* The types of the rows, the requests and the passes.                     *)
StatusType == {"none", "created"} \cup BuildActive \cup BuildEnded
RowType == [status : StatusType, job : BOOLEAN, deploy : BOOLEAN]
RequestType == [pc : {"idle", "submit", "queue", "refuse", "cancel", "mark"},
                of : Builds \cup {NoBuildId}]
PassType == [pc : {"idle", "ask", "apply", "commit", "deploy", "follow"},
             of : Builds \cup {NoBuildId}, saw : RunType]

BpInv == BpTypeOK /\ SubmittedOnce /\ SawRight /\ DeployedFromImage

(* The steps that every proof below opens.                                 *)
USE DEF RequestAt, RequestGoes, RequestEnds, PassAt, PassGoes, PassEnds

-----------------------------------------------------------------------------
(* What an idle handler, an idle pass and an unknown run are               *)

LEMMA IdleIs ==
  /\ NoRequest \in RequestType /\ NoRequest.pc = "idle"
  /\ NoPass \in PassType /\ NoPass.pc = "idle"
  /\ NoBuilderRun \in RunType /\ NoBuilderRun.status = "absent"
BY DEF NoRequest, NoPass, NoBuilderRun, RequestType, PassType, RunType

(* The types, by field.                                                    *)
LEMMA FieldTypes ==
  ASSUME BpTypeOK
  PROVE  /\ build \in [Builds -> RowType]
         /\ buildRequest \in [BuildHandlers -> RequestType]
         /\ buildPass \in [BuildTicks -> PassType]
BY DEF BpTypeOK, RowType, StatusType, RequestType, PassType

LEMMA Initially == BpInit => BpInv
<1> SUFFICES ASSUME BpInit PROVE BpInv
  OBVIOUS
<1>1. BpTypeOK
  BY IdleIs DEF BpInit, BpTypeOK, BuildEnded, RequestType, PassType
<1>2. SubmittedOnce
  BY IdleIs DEF BpInit, SubmittedOnce, HasRun, Creating
<1>3. SawRight
  BY IdleIs DEF BpInit, SawRight
<1>4. DeployedFromImage
  BY DEF BpInit, DeployedFromImage
<1> QED  BY <1>1, <1>2, <1>3, <1>4 DEF BpInv

-----------------------------------------------------------------------------
(* A request or a pass that ends with nothing else changed: the ends of    *)
(* several actions.                                                        *)

LEMMA RequestLeaves ==
  ASSUME NEW c \in BuildHandlers, BpInv, RequestEnds(c),
         UNCHANGED <<build, builderRun, revisionOf, buildPass>>
  PROVE  BpInv'
<1>1. BpTypeOK'
  BY IdleIs DEF BpInv, BpTypeOK, RequestType
<1>2. SubmittedOnce' /\ SawRight' /\ DeployedFromImage'
  BY IdleIs DEF BpInv, BpTypeOK, SubmittedOnce, SawRight, DeployedFromImage, HasRun, HasImage, Creating
<1> QED  BY <1>1, <1>2 DEF BpInv

LEMMA PassLeaves ==
  ASSUME NEW t \in BuildTicks, BpInv, PassEnds(t),
         UNCHANGED <<build, builderRun, revisionOf, buildRequest>>
  PROVE  BpInv'
<1>1. BpTypeOK'
  BY IdleIs DEF BpInv, BpTypeOK, PassType
<1>2. SubmittedOnce' /\ SawRight' /\ DeployedFromImage'
  BY IdleIs DEF BpInv, BpTypeOK, SubmittedOnce, SawRight, DeployedFromImage, HasRun, HasImage, Creating
<1> QED  BY <1>1, <1>2 DEF BpInv

(* A run that the builder knows and that has not succeeded may change, as  *)
(* long as the builder still knows it.                                     *)
LEMMA RunMoves ==
  ASSUME NEW b \in Builds, NEW r \in RunType, BpInv, r.status # "absent",
         HasRun(b), builderRun[b].status # "succeeded",
         builderRun' = [builderRun EXCEPT ![b] = r],
         UNCHANGED <<build, revisionOf, buildPass>>,
         \/ UNCHANGED buildRequest
         \/ \E c \in BuildHandlers : \/ RequestEnds(c)
                                     \/ RequestAt(c, "cancel") /\ RequestGoes(c, "mark")
  PROVE  BpInv'
<1>1. buildRequest' \in [BuildHandlers -> RequestType]
  BY IdleIs, FieldTypes DEF BpInv, RequestType
<1>2. BpTypeOK'
  BY <1>1 DEF BpInv, BpTypeOK, RequestType
<1>3. /\ \A a \in Builds : HasRun(a) => HasRun(a)'
      /\ HasRun(b)'
      /\ \A a \in Builds : a # b => builderRun'[a] = builderRun[a]
  BY DEF BpInv, BpTypeOK, HasRun
<1>4. \A c \in BuildHandlers :
        \/ buildRequest'[c] = buildRequest[c]
        \/ buildRequest'[c].pc = "idle"
        \/ /\ buildRequest[c].pc = "cancel" /\ buildRequest'[c].pc = "mark"
           /\ buildRequest'[c].of = buildRequest[c].of
  BY IdleIs, FieldTypes DEF BpInv, RequestType
<1>5. SubmittedOnce'
  BY <1>3, <1>4 DEF BpInv, SubmittedOnce, HasRun, Creating
<1>6. SawRight' /\ DeployedFromImage'
  BY DEF BpInv, BpTypeOK, SawRight, DeployedFromImage, HasRun, HasImage
<1> QED  BY <1>2, <1>5, <1>6 DEF BpInv

(* An update of the status of a build: what it writes, and what it leaves. *)
LEMMA StatusWritten ==
  ASSUME NEW b \in Builds, NEW written \in StatusType, BpTypeOK,
         build' = [build EXCEPT ![b].status = written]
  PROVE  /\ build' \in [Builds -> RowType]
         /\ \A a \in Builds : a # b => build'[a] = build[a]
         /\ build'[b].status = written /\ build'[b].job = build[b].job
BY FieldTypes DEF RowType

-----------------------------------------------------------------------------
(* The requests                                                            *)

LEMMA InsertKeeps ==
  ASSUME NEW c \in BuildHandlers, NEW b \in Builds, NEW deploy \in BOOLEAN, BpInv,
         InsertBuild(c, b, deploy)
  PROVE  BpInv'
<1>1. BpTypeOK'
  BY DEF BpInv, BpTypeOK, InsertBuild
<1>2. SubmittedOnce'
  BY DEF BpInv, BpTypeOK, SubmittedOnce, HasRun, Creating, InsertBuild
<1>3. SawRight' /\ DeployedFromImage'
  BY DEF BpInv, BpTypeOK, SawRight, DeployedFromImage, HasRun, HasImage, InsertBuild
<1> QED  BY <1>1, <1>2, <1>3 DEF BpInv

(* The builder learns of a build that it did not know.                     *)
LEMMA RunCreatedKeeps ==
  ASSUME NEW c \in BuildHandlers, NEW to \in {"queue", "refuse"}, BpInv,
         RequestAt(c, "submit"), RequestGoes(c, to),
         \/ builderRun' = [builderRun EXCEPT ![buildRequest[c].of].status = "queued"]
         \/ UNCHANGED builderRun /\ to = "refuse",
         UNCHANGED <<build, revisionOf, buildPass>>
  PROVE  BpInv'
<1> DEFINE b == buildRequest[c].of
<1>1. b \in Builds /\ ~HasRun(b) /\ build[b].status # "none"
  BY DEF BpInv, SubmittedOnce, Creating
<1>2. builderRun' \in [Builds -> RunType] /\ buildRequest' \in [BuildHandlers -> RequestType]
  <2>1. builderRun' \in [Builds -> RunType]
    BY <1>1 DEF BpInv, BpTypeOK, RunType, BuildActive
  <2> QED  BY <2>1, FieldTypes DEF BpInv, RequestType
<1>3. BpTypeOK'
  BY <1>2 DEF BpInv, BpTypeOK, RequestType
<1>4. /\ \A a \in Builds : a # b => builderRun'[a] = builderRun[a]
      /\ HasRun(b)' \/ to = "refuse"
  <2>1. CASE builderRun' = [builderRun EXCEPT ![b].status = "queued"]
    BY <1>1, <2>1 DEF BpInv, BpTypeOK, HasRun, RunType
  <2>2. CASE UNCHANGED builderRun /\ to = "refuse"
    BY <2>2
  <2> QED  BY <2>1, <2>2
<1>5. /\ \A d \in BuildHandlers : d # c => buildRequest'[d] = buildRequest[d]
      /\ buildRequest'[c].pc = to /\ buildRequest'[c].of = b
  BY FieldTypes DEF BpInv, RequestType
<1>6. SubmittedOnce'
  BY <1>1, <1>4, <1>5 DEF BpInv, SubmittedOnce, HasRun, Creating
<1>7. SawRight' /\ DeployedFromImage'
  BY <1>1, <1>4 DEF BpInv, SawRight, DeployedFromImage, HasRun, HasImage
<1> QED  BY <1>3, <1>6, <1>7 DEF BpInv

LEMMA RecordSubmitKeeps ==
  ASSUME NEW c \in BuildHandlers, BpInv, RecordSubmit(c)
  PROVE  BpInv'
<1> DEFINE b == buildRequest[c].of
<1>1. b \in Builds /\ build[b].status # "none"
  BY DEF BpInv, SubmittedOnce, Creating, RecordSubmit
<1>2. /\ build' \in [Builds -> RowType]
      /\ \A a \in Builds : a # b => build'[a] = build[a]
      /\ build'[b].status \in {"queued", "failed"}
      /\ build'[b].job => build[b].job \/ RequestAt(c, "queue")
  <2>1. CASE build' = [build EXCEPT ![b].status = "failed"]
    BY <1>1, <2>1, StatusWritten DEF BpInv, StatusType, BuildEnded
  <2>2. CASE RequestAt(c, "queue") /\ build' = [build EXCEPT ![b].status = "queued", ![b].job = TRUE]
    BY <1>1, <2>2, FieldTypes DEF BpInv, RowType, StatusType, BuildActive
  <2> QED  BY <2>1, <2>2 DEF RecordSubmit
<1>3. /\ buildRequest' \in [BuildHandlers -> RequestType]
      /\ \A d \in BuildHandlers : d # c => buildRequest'[d] = buildRequest[d]
      /\ buildRequest'[c].pc = "idle"
  BY IdleIs, FieldTypes DEF BpInv, RecordSubmit
<1>4. UNCHANGED <<builderRun, revisionOf, buildPass>>
  BY DEF RecordSubmit
<1>5. BpTypeOK'
  BY <1>2, <1>3, <1>4 DEF BpInv, BpTypeOK, RowType, StatusType, RequestType
<1>6. SubmittedOnce'
  BY <1>1, <1>2, <1>3, <1>4 DEF BpInv, SubmittedOnce, HasRun, Creating
<1>7. SawRight' /\ DeployedFromImage'
  BY <1>1, <1>2, <1>4 DEF BpInv, SawRight, DeployedFromImage, HasRun, HasImage
<1> QED  BY <1>5, <1>6, <1>7 DEF BpInv

LEMMA CancelBuildKeeps ==
  ASSUME NEW c \in BuildHandlers, NEW b \in Builds, BpInv, CancelBuild(c, b)
  PROVE  BpInv'
<1>1. BpTypeOK'
  BY DEF BpInv, BpTypeOK, CancelBuild
<1>2. SubmittedOnce' /\ SawRight' /\ DeployedFromImage'
  BY DEF BpInv, BpTypeOK, SubmittedOnce, SawRight, DeployedFromImage, HasRun, HasImage,
         Creating, CancelBuild
<1> QED  BY <1>1, <1>2 DEF BpInv

LEMMA CancelRunKeeps ==
  ASSUME NEW c \in BuildHandlers, BpInv, CancelRun(c)
  PROVE  BpInv'
<1> DEFINE b == buildRequest[c].of
           r == builderRun[b]
<1>1. b \in Builds /\ r \in RunType
  BY DEF BpInv, BpTypeOK, SubmittedOnce, CancelRun
<1>2. CASE RequestEnds(c) /\ UNCHANGED builderRun
  BY <1>2, RequestLeaves DEF CancelRun
<1>3. ASSUME r.status \in BuildActive,
             builderRun' = [builderRun EXCEPT ![b].cancel = TRUE,
                                              ![b].status = IF @ = "queued" THEN "cancelled" ELSE @],
             RequestGoes(c, "mark") \/ RequestEnds(c)
      PROVE  BpInv'
  <2> DEFINE next == [r EXCEPT !.cancel = TRUE, !.status = IF @ = "queued" THEN "cancelled" ELSE @]
  <2>1. next \in RunType /\ next.status # "absent"
    BY <1>1, <1>3 DEF RunType, BuildActive, BuildEnded
  <2>2. builderRun' = [builderRun EXCEPT ![b] = next]
    BY <1>1, <1>3 DEF BpInv, BpTypeOK, RunType
  <2>3. HasRun(b) /\ r.status # "succeeded"
    BY <1>3 DEF HasRun, BuildActive
  <2> HIDE DEF next
  <2> QED  BY <1>1, <1>3, <2>1, <2>2, <2>3, RunMoves DEF CancelRun
<1> QED  BY <1>2, <1>3 DEF CancelRun

LEMMA MarkCancelledKeeps ==
  ASSUME NEW c \in BuildHandlers, BpInv, MarkCancelled(c)
  PROVE  BpInv'
<1> DEFINE b == buildRequest[c].of
<1>1. b \in Builds
  BY DEF BpInv, SubmittedOnce, MarkCancelled
<1>2. /\ build' \in [Builds -> RowType]
      /\ \A a \in Builds : a # b => build'[a] = build[a]
      /\ build'[b].status = "cancelled" /\ build'[b].job = build[b].job
  BY <1>1, StatusWritten DEF BpInv, StatusType, BuildEnded, MarkCancelled
<1>3. /\ buildRequest' \in [BuildHandlers -> RequestType]
      /\ \A d \in BuildHandlers : d # c => buildRequest'[d] = buildRequest[d]
      /\ buildRequest'[c].pc = "idle"
  BY IdleIs, FieldTypes DEF BpInv, MarkCancelled
<1>4. UNCHANGED <<builderRun, revisionOf, buildPass>>
  BY DEF MarkCancelled
<1>5. BpTypeOK'
  BY <1>2, <1>3, <1>4 DEF BpInv, BpTypeOK, RowType, StatusType, RequestType
<1>6. SubmittedOnce'
  BY <1>1, <1>2, <1>3, <1>4 DEF BpInv, SubmittedOnce, HasRun, Creating
<1>7. SawRight' /\ DeployedFromImage'
  BY <1>1, <1>2, <1>4 DEF BpInv, SawRight, DeployedFromImage, HasRun, HasImage
<1> QED  BY <1>5, <1>6, <1>7 DEF BpInv

LEMMA RequestsKeep ==
  ASSUME NEW c \in BuildHandlers, BpInv, BuildRequestStep(c)
  PROVE  BpInv'
<1>1. CASE SubmitRun(c)
  BY <1>1, RunCreatedKeeps DEF SubmitRun
<1>2. CASE SubmitFails(c)
  BY <1>2, RunCreatedKeeps DEF SubmitFails
<1>3. CASE RecordSubmit(c)
  BY <1>3, RecordSubmitKeeps
<1>4. CASE CancelRun(c)
  BY <1>4, CancelRunKeeps
<1>5. CASE MarkCancelled(c)
  BY <1>5, MarkCancelledKeeps
<1> QED  BY <1>1, <1>2, <1>3, <1>4, <1>5 DEF BuildRequestStep

-----------------------------------------------------------------------------
(* The builder                                                             *)

LEMMA RunAdvancesKeeps ==
  ASSUME NEW b \in Builds, BpInv, RunAdvances(b)
  PROVE  BpInv'
<1> DEFINE r == builderRun[b]
<1>1. r \in RunType
  BY DEF BpInv, BpTypeOK
<1>2. PICK next \in RunType :
        /\ builderRun' = [builderRun EXCEPT ![b] = next]
        /\ next.status # "absent" /\ HasRun(b) /\ r.status # "succeeded"
  <2>1. CASE r.cancel /\ r.status \in BuildActive
    <3> DEFINE ended == [r EXCEPT !.status = "cancelled"]
    <3>1. ended \in RunType /\ ended.status = "cancelled"
      BY <1>1 DEF RunType, BuildEnded
    <3>2. builderRun' = [builderRun EXCEPT ![b] = ended]
      BY <2>1, <1>1 DEF BpInv, BpTypeOK, RunAdvances, RunType
    <3>3. HasRun(b) /\ r.status # "succeeded"
      BY <2>1 DEF HasRun, BuildActive
    <3> HIDE DEF ended
    <3> QED  BY <3>1, <3>2, <3>3
  <2>2. CASE ~(r.cancel /\ r.status \in BuildActive)
    <3>1. PICK next \in RunNext(r) : builderRun' = [builderRun EXCEPT ![b] = next]
      BY <2>2 DEF RunAdvances
    <3>2. next \in RunType /\ next.status # "absent"
      <4>1. CASE r.status = "queued"
        BY <1>1, <3>1, <4>1 DEF RunNext, RunType, BuildActive
      <4>2. CASE r.status = "running"
        <5>1. PICK s \in {"pushing", "failed", "queued"} : next = [r EXCEPT !.status = s]
          BY <3>1, <4>2 DEF RunNext
        <5> QED  BY <1>1, <5>1 DEF RunType, BuildActive, BuildEnded
      <4>3. CASE r.status = "pushing"
        <5>1. CASE next = [r EXCEPT !.status = "failed"]
          BY <1>1, <5>1 DEF RunType, BuildEnded
        <5>2. ASSUME NEW i \in BOOLEAN, next = [r EXCEPT !.status = "succeeded", !.image = i]
              PROVE  next \in RunType /\ next.status # "absent"
          BY <1>1, <5>2 DEF RunType, BuildEnded
        <5> QED  BY <3>1, <4>3, <5>1, <5>2 DEF RunNext
      <4>4. r.status \in {"queued", "running", "pushing"}
        BY <3>1 DEF RunNext
      <4> QED  BY <4>1, <4>2, <4>3, <4>4
    <3>3. r.status \in BuildActive
      BY <3>1 DEF RunNext, BuildActive
    <3> QED  BY <3>1, <3>2, <3>3 DEF HasRun, BuildActive
  <2> QED  BY <2>1, <2>2
<1> QED  BY <1>2, RunMoves DEF RunAdvances

-----------------------------------------------------------------------------
(* The passes of the controller                                            *)

(* A pass that only moves, to where what it knows is so.                   *)
LEMMA PassMoves ==
  ASSUME NEW t \in BuildTicks, NEW p \in PassType, BpInv,
         buildPass' = [buildPass EXCEPT ![t] = p],
         UNCHANGED <<build, builderRun, revisionOf, buildRequest>>,
         p.pc # "idle" => p.of \in Builds,
         p.pc = "ask" => HasRun(p.of),
         p.pc = "apply" => p.saw = builderRun[p.of] /\ HasRun(p.of),
         p.pc \in {"commit", "deploy"} => HasImage(p.of)
  PROVE  BpInv'
<1>1. BpTypeOK'
  BY DEF BpInv, BpTypeOK, PassType
<1>2. SubmittedOnce' /\ DeployedFromImage'
  BY DEF BpInv, SubmittedOnce, DeployedFromImage, HasRun, Creating
<1>3. SawRight'
  BY FieldTypes DEF BpInv, SawRight, HasRun, HasImage
<1> QED  BY <1>1, <1>2, <1>3 DEF BpInv

LEMMA VisitKeeps ==
  ASSUME NEW t \in BuildTicks, NEW b \in Builds, BpInv, VisitBuild(t, b)
  PROVE  BpInv'
<1> DEFINE p == [buildPass[t] EXCEPT !.pc = "ask", !.of = b]
<1>1. p \in PassType /\ p.pc = "ask" /\ p.of = b
  BY FieldTypes DEF BpInv, PassType
<1>2. buildPass' = [buildPass EXCEPT ![t] = p]
  BY FieldTypes DEF BpInv, PassType, VisitBuild
<1>3. HasRun(b)
  BY DEF BpInv, SubmittedOnce, VisitBuild
<1> HIDE DEF p
<1> QED  BY <1>1, <1>2, <1>3, PassMoves DEF VisitBuild

LEMMA AskKeeps ==
  ASSUME NEW t \in BuildTicks, BpInv, AskBuilder(t)
  PROVE  BpInv'
<1> DEFINE b == buildPass[t].of
           p == [buildPass[t] EXCEPT !.pc = "apply", !.saw = builderRun[b]]
<1>1. b \in Builds /\ HasRun(b) /\ builderRun[b] \in RunType
  BY DEF BpInv, BpTypeOK, SawRight, AskBuilder
<1>2. CASE PassEnds(t)
  BY <1>2, PassLeaves DEF AskBuilder
<1>3. CASE buildPass' = [buildPass EXCEPT ![t].pc = "apply", ![t].saw = builderRun[b]]
  <2>1. p \in PassType /\ p.pc = "apply" /\ p.of = b /\ p.saw = builderRun[b]
    BY <1>1, FieldTypes DEF BpInv, PassType
  <2>2. buildPass' = [buildPass EXCEPT ![t] = p]
    BY <1>3, FieldTypes DEF BpInv, PassType
  <2> HIDE DEF p
  <2> QED  BY <1>1, <2>1, <2>2, PassMoves DEF AskBuilder
<1> QED  BY <1>2, <1>3 DEF AskBuilder

LEMMA ReadForDeployKeeps ==
  ASSUME NEW t \in BuildTicks, BpInv, ReadForDeploy(t)
  PROVE  BpInv'
<1> DEFINE b == buildPass[t].of
<1>1. b \in Builds /\ HasImage(b)
  BY DEF BpInv, SawRight, HasImage, ReadForDeploy
<1>2. CASE PassEnds(t)
  BY <1>2, PassLeaves DEF ReadForDeploy
<1>3. ASSUME NEW to \in {"follow", "commit"}, PassGoes(t, to)
      PROVE  BpInv'
  <2> DEFINE p == [buildPass[t] EXCEPT !.pc = to]
  <2>1. p \in PassType /\ p.pc = to /\ p.of = b
    BY FieldTypes DEF BpInv, PassType
  <2>2. buildPass' = [buildPass EXCEPT ![t] = p]
    BY <1>3, FieldTypes DEF BpInv, PassType
  <2> HIDE DEF p
  <2> QED  BY <1>1, <2>1, <2>2, PassMoves DEF ReadForDeploy
<1> QED  BY <1>2, <1>3 DEF ReadForDeploy

(* The passes that write a status that the run of the build justifies.     *)
LEMMA PassWrites ==
  ASSUME NEW t \in BuildTicks, NEW written \in StatusType, NEW p \in PassType, BpInv,
         buildPass[t].pc # "idle",
         build' = [build EXCEPT ![buildPass[t].of].status = written],
         buildPass' = [buildPass EXCEPT ![t] = p],
         written # "none",
         written = "succeeded" => HasImage(buildPass[t].of),
         p.pc # "idle" => p.pc = "deploy" /\ p.of = buildPass[t].of /\ HasImage(p.of),
         \/ UNCHANGED revisionOf
         \/ revisionOf' = revisionOf \cup {buildPass[t].of} /\ HasImage(buildPass[t].of),
         UNCHANGED <<builderRun, buildRequest>>
  PROVE  BpInv'
<1> DEFINE b == buildPass[t].of
<1>1. b \in Builds
  BY DEF BpInv, SawRight
<1>2. /\ build' \in [Builds -> RowType]
      /\ \A a \in Builds : a # b => build'[a] = build[a]
      /\ build'[b].status = written /\ build'[b].job = build[b].job
  BY <1>1, StatusWritten DEF BpInv
<1>3. BpTypeOK'
  BY <1>1, <1>2, FieldTypes DEF BpInv, BpTypeOK, RowType, StatusType, PassType
<1>4. SubmittedOnce'
  BY <1>1, <1>2 DEF BpInv, SubmittedOnce, HasRun, Creating
<1>5. SawRight'
  BY <1>1, FieldTypes DEF BpInv, SawRight, HasRun, HasImage
<1>6. DeployedFromImage'
  BY <1>1, <1>2 DEF BpInv, DeployedFromImage, HasImage
<1> QED  BY <1>3, <1>4, <1>5, <1>6 DEF BpInv

LEMMA CopyKeeps ==
  ASSUME NEW t \in BuildTicks, BpInv, CopyStatus(t)
  PROVE  BpInv'
<1> DEFINE b == buildPass[t].of
           r == buildPass[t].saw
<1>1. r \in RunType /\ r.status # "absent"
  BY FieldTypes DEF BpInv, SawRight, PassType, CopyStatus
<1>2. StatusFor(r) \in StatusType /\ StatusFor(r) # "none"
  BY <1>1 DEF StatusFor, RunType, StatusType, BuildActive, BuildEnded
<1>3. StatusFor(r) = "succeeded" => HasImage(b)
  BY DEF BpInv, SawRight, HasImage, StatusFor, CopyStatus
<1> QED  BY <1>2, <1>3, IdleIs, PassWrites DEF CopyStatus

LEMMA CommitKeeps ==
  ASSUME NEW t \in BuildTicks, BpInv, CommitSucceeded(t)
  PROVE  BpInv'
<1> DEFINE p == [buildPass[t] EXCEPT !.pc = "deploy"]
<1>1. p \in PassType /\ p.pc = "deploy" /\ p.of = buildPass[t].of
  BY FieldTypes DEF BpInv, PassType
<1>2. buildPass' = [buildPass EXCEPT ![t] = p]
  BY FieldTypes DEF BpInv, PassType, CommitSucceeded
<1>3. HasImage(buildPass[t].of)
  BY DEF BpInv, SawRight, CommitSucceeded
<1>4. "succeeded" \in StatusType
  BY DEF StatusType, BuildEnded
<1> HIDE DEF p
<1> QED  BY <1>1, <1>2, <1>3, <1>4, PassWrites DEF CommitSucceeded

LEMMA DeployFailsKeeps ==
  ASSUME NEW t \in BuildTicks, BpInv, DeployFails(t)
  PROVE  BpInv'
<1>1. HasImage(buildPass[t].of)
  BY DEF BpInv, SawRight, DeployFails
<1>2. "failed" \in StatusType
  BY DEF StatusType, BuildEnded
<1> QED  BY <1>1, <1>2, IdleIs, PassWrites DEF DeployFails

LEMMA DeployKeeps ==
  ASSUME NEW t \in BuildTicks, BpInv, DeployBuild(t)
  PROVE  BpInv'
<1> DEFINE b == buildPass[t].of
<1>1. b \in Builds /\ HasImage(b)
  BY DEF BpInv, SawRight, DeployBuild
<1>2. buildPass' \in [BuildTicks -> PassType]
  BY FieldTypes DEF BpInv, PassType, DeployBuild
<1>3. BpTypeOK'
  BY <1>1, <1>2 DEF BpInv, BpTypeOK, PassType, DeployBuild
<1>4. SubmittedOnce' /\ DeployedFromImage'
  BY <1>1 DEF BpInv, SubmittedOnce, DeployedFromImage, HasRun, HasImage, Creating, DeployBuild
<1>5. /\ \A s \in BuildTicks : s # t => buildPass'[s] = buildPass[s]
      /\ buildPass'[t].pc = "follow" /\ buildPass'[t].of = b
  BY FieldTypes DEF BpInv, PassType, DeployBuild
<1>6. SawRight'
  BY <1>1, <1>5 DEF BpInv, SawRight, HasRun, HasImage, DeployBuild
<1> QED  BY <1>3, <1>4, <1>6 DEF BpInv

LEMMA PassesKeep ==
  ASSUME NEW t \in BuildTicks, BpInv, BuildPassStep(t)
  PROVE  BpInv'
<1>1. CASE AskBuilder(t)
  BY <1>1, AskKeeps
<1>2. CASE CopyStatus(t)
  BY <1>2, CopyKeeps
<1>3. CASE ReadForDeploy(t)
  BY <1>3, ReadForDeployKeeps
<1>4. CASE CommitSucceeded(t)
  BY <1>4, CommitKeeps
<1>5. CASE DeployBuild(t)
  BY <1>5, DeployKeeps
<1>6. CASE DeployFails(t)
  BY <1>6, DeployFailsKeeps
<1>7. CASE FollowDeployment(t)
  BY <1>7, PassLeaves DEF FollowDeployment
<1> QED  BY <1>1, <1>2, <1>3, <1>4, <1>5, <1>6, <1>7 DEF BuildPassStep

-----------------------------------------------------------------------------
(* Every step                                                              *)

LEMMA BpStep == BpInv /\ [BpNext]_bpVars => BpInv'
<1> SUFFICES ASSUME BpInv, [BpNext]_bpVars PROVE BpInv'
  OBVIOUS
<1>1. ASSUME NEW c \in BuildHandlers, BuildRequestStep(c)
      PROVE  BpInv'
  BY <1>1, RequestsKeep
<1>2. ASSUME NEW c \in BuildHandlers, RequestDies(c)
      PROVE  BpInv'
  BY <1>2, RequestLeaves DEF RequestDies
<1>3. ASSUME NEW c \in BuildHandlers, NEW b \in Builds, TriggerBuild(c, b)
      PROVE  BpInv'
  BY <1>3, InsertKeeps DEF TriggerBuild
<1>4. ASSUME NEW c \in BuildHandlers, NEW b \in Builds, RetryBuild(c, b)
      PROVE  BpInv'
  BY <1>4, InsertKeeps DEF RetryBuild
<1>5. ASSUME NEW c \in BuildHandlers, NEW b \in Builds, CancelBuild(c, b)
      PROVE  BpInv'
  BY <1>5, CancelBuildKeeps
<1>6. ASSUME NEW t \in BuildTicks, BuildPassStep(t)
      PROVE  BpInv'
  BY <1>6, PassesKeep
<1>7. ASSUME NEW t \in BuildTicks, PassRaises(t) \/ PassDies(t)
      PROVE  BpInv'
  BY <1>7, PassLeaves DEF PassRaises, PassDies
<1>8. ASSUME NEW t \in BuildTicks, NEW b \in Builds, VisitBuild(t, b)
      PROVE  BpInv'
  BY <1>8, VisitKeeps
<1>9. ASSUME NEW b \in Builds, RunAdvances(b)
      PROVE  BpInv'
  BY <1>9, RunAdvancesKeeps
<1>10. CASE UNCHANGED bpVars
  BY <1>10 DEF bpVars, BpInv, BpTypeOK, SubmittedOnce, SawRight, DeployedFromImage, HasRun,
               HasImage, Creating
<1> QED  BY <1>1, <1>2, <1>3, <1>4, <1>5, <1>6, <1>7, <1>8, <1>9, <1>10 DEF BpNext

LEMMA BpInvHolds == BpSpec => []BpInv
<1>1. BpInit => BpInv
  BY Initially
<1>2. BpInv /\ [BpNext]_bpVars => BpInv'
  BY BpStep
<1> QED  BY <1>1, <1>2, PTL DEF BpSpec

-----------------------------------------------------------------------------
(* The results                                                             *)

(* The rows, the runs and the handlers keep their types; above all a build *)
(* never takes over the state of a run that the builder does not have.     *)
THEOREM BpTypeCorrectness == BpSpec => []BpTypeOK
<1>1. BpInv => BpTypeOK
  BY DEF BpInv
<1> QED  BY <1>1, BpInvHolds, PTL

(* However many requests and overlapping passes of the controller work on  *)
(* the builds (a pass applies what the builder said seconds ago, and may   *)
(* write over what another one wrote), only a build whose run succeeded    *)
(* with an image is successful or deployed.                                *)
THEOREM ImageBeforeDeployment == BpSpec => []DeployedFromImage
<1>1. BpInv => DeployedFromImage
  BY DEF BpInv
<1> QED  BY <1>1, BpInvHolds, PTL

-----------------------------------------------------------------------------
(* Domains: the types                                                      *)

DomInv ==
  /\ domain \in [DomainIds -> DomainRow]
  /\ routeFile \subseteq DomainIds \X Hostnames
  /\ serving \in BOOLEAN
  /\ routeCall \in [RouteCalls -> RouteCallType]

(* The hostnames that the legacy rows began with exist, and so do those of *)
(* rows that are absent.                                                   *)
LEMMA HostsExist ==
  /\ FirstHost \in [DomainIds -> Hostnames]
  /\ NoDomainRow \in DomainRow /\ IdleCall \in RouteCallType
<1>1. FirstHost \in [DomainIds -> Hostnames]
  BY DomainsAssumption DEF FirstHost
<1>2. NoDomainRow.hostname \in Hostnames /\ IdleCall.id \in DomainIds
  BY <1>1, DomainsAssumption DEF NoDomainRow, IdleCall
<1>3. NoDomainRow \in DomainRow
  BY <1>2 DEF NoDomainRow, DomainRow, DomainStatus
<1> QED
  BY <1>1, <1>2, <1>3 DEF IdleCall, RouteCallType

LEMMA DomainsStart == DomInit => DomInv
BY HostsExist, DomainsAssumption
  DEF DomInit, DomInv, DomainRow, DomainStatus

(* A row is written as a whole, or its status alone.                       *)
LEMMA RowWritten ==
  ASSUME DomInv, NEW d \in DomainIds, NEW h \in Hostnames, NEW legacy \in BOOLEAN,
         NEW status \in DomainStatus
  PROVE  /\ [domain EXCEPT ![d] = [hostname |-> h, status |-> status, legacy |-> legacy]]
               \in [DomainIds -> DomainRow]
         /\ [domain EXCEPT ![d].status = status] \in [DomainIds -> DomainRow]
         /\ [domain EXCEPT ![d].legacy = legacy] \in [DomainIds -> DomainRow]
BY DEF DomInv, DomainRow

LEMMA StatusSet ==
  ASSUME DomInv, NEW d \in DomainIds, NEW status \in DomainStatus, SetStatus(d, status)
  PROVE  domain' \in [DomainIds -> DomainRow]
BY RowWritten DEF SetStatus, DomInv, DomainRow

(* A call begins, goes on or ends.                                         *)
LEMMA CallMoves ==
  ASSUME DomInv, NEW c \in RouteCalls,
         NEW pc \in {"idle", "dns", "activate", "sync", "route", "unpublish"},
         NEW op \in {"create", "verify", "patch", "delete", "tick"}, NEW d \in DomainIds,
         BeginCall(c, op, d, pc) \/ Goto(c, pc) \/ FinishRouting(c)
  PROVE  routeCall' \in [RouteCalls -> RouteCallType]
<1>1. [IdleCall EXCEPT !.pc = pc, !.op = op, !.id = d] \in RouteCallType
  BY HostsExist DEF RouteCallType
<1>2. routeCall[c] \in RouteCallType /\ [routeCall[c] EXCEPT !.pc = pc] \in RouteCallType
  BY DEF DomInv, RouteCallType
<1>3. CASE BeginCall(c, op, d, pc)
  BY <1>1, <1>3 DEF BeginCall, DomInv
<1>4. CASE Goto(c, pc)
  BY <1>2, <1>4 DEF Goto, DomInv
<1>5. CASE FinishRouting(c)
  BY HostsExist, <1>5 DEF FinishRouting, DomInv
<1> QED
  BY <1>3, <1>4, <1>5

LEMMA DomainRequests ==
  ASSUME DomInv, NEW c \in RouteCalls, NEW d \in DomainIds,
         VerifyDomain(c, d) \/ DeleteDomain(c, d)
           \/ \E h \in Hostnames : CreateDomain(c, d, h) \/ PatchDomain(c, d, h)
  PROVE  DomInv'
<1>1. CASE VerifyDomain(c, d)
  BY <1>1, CallMoves DEF VerifyDomain, DomInv
<1>2. CASE DeleteDomain(c, d)
  <2>1. domain' \in [DomainIds -> DomainRow]
    BY <1>2, HostsExist DEF DeleteDomain, DomInv
  <2> QED
    BY <1>2, <2>1, CallMoves DEF DeleteDomain, DomInv
<1>3. ASSUME NEW h \in Hostnames, CreateDomain(c, d, h) PROVE DomInv'
  <2>1. domain' \in [DomainIds -> DomainRow]
    BY <1>3, RowWritten DEF CreateDomain, DomainStatus
  <2> QED
    BY <1>3, <2>1, CallMoves DEF CreateDomain, DomInv
<1>4. ASSUME NEW h \in Hostnames, PatchDomain(c, d, h) PROVE DomInv'
  <2>1. CASE domain' = [domain EXCEPT ![d].legacy = FALSE]
    <3>1. domain' \in [DomainIds -> DomainRow]
      BY <2>1 DEF DomInv, DomainRow
    <3> QED
      BY <1>4, <3>1, CallMoves DEF PatchDomain, DomInv
  <2>2. CASE domain' = [domain EXCEPT ![d] = [hostname |-> h, status |-> "pending", legacy |-> FALSE]]
    <3>1. domain' \in [DomainIds -> DomainRow]
      BY <2>2 DEF DomInv, DomainRow, DomainStatus
    <3> QED
      BY <1>4, <3>1, CallMoves DEF PatchDomain, DomInv
  <2> QED
    BY <1>4, <2>1, <2>2 DEF PatchDomain
<1> QED
  BY <1>1, <1>2, <1>3, <1>4

LEMMA SyncReads ==
  ASSUME DomInv, NEW c \in RouteCalls, SyncRead(c)
  PROVE  DomInv'
<1>1. UNCHANGED <<domain, routeFile, serving>>
  BY DEF SyncRead
<1>2. CASE Goto(c, "unpublish") \/ FinishRouting(c)
  BY <1>1, <1>2, CallMoves, HostsExist, DomainsAssumption DEF DomInv
<1>3. CASE \E todo \in SUBSET DomainIds :
         routeCall' = [routeCall EXCEPT ![c] = [IdleCall EXCEPT
           !.pc = "route", !.todo = todo,
           !.snapshot = [d \in DomainIds |-> IF d \in todo THEN domain[d] ELSE NoDomainRow]]]
  <2>1. PICK todo \in SUBSET DomainIds :
         routeCall' = [routeCall EXCEPT ![c] = [IdleCall EXCEPT
           !.pc = "route", !.todo = todo,
           !.snapshot = [d \in DomainIds |-> IF d \in todo THEN domain[d] ELSE NoDomainRow]]]
    BY <1>3
  <2>2. [d \in DomainIds |-> IF d \in todo THEN domain[d] ELSE NoDomainRow] \in [DomainIds -> DomainRow]
    BY HostsExist DEF DomInv
  <2>3. \A snapshot \in [DomainIds -> DomainRow] :
         [IdleCall EXCEPT !.pc = "route", !.todo = todo, !.snapshot = snapshot] \in RouteCallType
    BY HostsExist DEF RouteCallType
  <2>4. routeCall' \in [RouteCalls -> RouteCallType]
    BY <2>1, <2>2, <2>3 DEF DomInv
  <2> QED
    BY <1>1, <2>4 DEF DomInv
<1> QED
  BY <1>2, <1>3 DEF SyncRead

LEMMA DomainRouted ==
  ASSUME DomInv, NEW c \in RouteCalls, NEW d \in DomainIds, RouteDomain(c, d)
  PROVE  DomInv'
<1>1. domain' \in [DomainIds -> DomainRow]
  BY StatusSet DEF RouteDomain, RouteStatus, DomInv, DomainStatus
<1>2. routeCall[c] \in RouteCallType
  BY DEF DomInv
<1>3. <<d, routeCall[c].snapshot[d].hostname>> \in DomainIds \X Hostnames
  BY <1>2 DEF RouteCallType, DomainRow
<1>4. \A added \in SUBSET (DomainIds \X Hostnames) :
        [routeCall[c] EXCEPT !.todo = @ \ {d}, !.snapshot[d] = NoDomainRow, !.routes = @ \cup added]
          \in RouteCallType
  BY <1>2, HostsExist DEF RouteCallType
<1>5. routeCall' \in [RouteCalls -> RouteCallType]
  BY <1>2, <1>3, <1>4 DEF RouteDomain, DomInv
<1> QED
  BY <1>1, <1>5 DEF RouteDomain, DomInv

LEMMA DomainsContinue ==
  ASSUME DomInv, NEW c \in RouteCalls, Continue(c)
  PROVE  DomInv'
<1> routeCall[c] \in RouteCallType
  BY DEF DomInv
<1>1. CASE CheckDns(c)
  <2>1. domain' \in [DomainIds -> DomainRow]
    BY <1>1, StatusSet DEF CheckDns, DomInv, RouteCallType, DomainStatus
  <2> QED
    BY <1>1, <2>1, CallMoves, HostsExist DEF CheckDns, DomInv, RouteCallType
<1>2. CASE Activate(c)
  <2>1. domain' \in [DomainIds -> DomainRow]
    BY <1>2, StatusSet DEF Activate, RouteCallType, DomainStatus
  <2> QED
    BY <1>2, <2>1, CallMoves DEF Activate, DomInv, RouteCallType
<1>3. CASE WriteRoutes(c)
  BY <1>3, CallMoves DEF WriteRoutes, DomInv, RouteCallType
<1>4. CASE Unpublish(c)
  <2>1. domain' \in [DomainIds -> DomainRow]
    BY <1>4, StatusSet DEF Unpublish, RouteCallType, DomainStatus
  <2> QED
    BY <1>4, <2>1, CallMoves DEF Unpublish, DomInv, RouteCallType
<1> QED
  BY <1>1, <1>2, <1>3, <1>4, SyncReads, DomainRouted DEF Continue

LEMMA DomStep == DomInv /\ [DomNext]_domVars => DomInv'
<1> SUFFICES ASSUME DomInv, [DomNext]_domVars PROVE DomInv'
  OBVIOUS
<1>1. ASSUME NEW c \in Requests, DomainRequest(c) PROVE DomInv'
  BY <1>1, DomainRequests DEF DomainRequest, RouteCalls
<1>2. ASSUME NEW c \in RouteTicks, RouteTick(c) PROVE DomInv'
  BY <1>2, CallMoves, HostsExist DEF RouteTick, RouteCalls, DomInv, RouteCallType
<1>3. ASSUME NEW c \in RouteCalls, Continue(c) PROVE DomInv'
  BY <1>3, DomainsContinue
<1>4. CASE RouteApiRestart
  BY <1>4, HostsExist DEF RouteApiRestart, DomInv
<1>5. CASE UpstreamChange \/ UNCHANGED domVars
  BY <1>5 DEF UpstreamChange, domVars, DomInv
<1> QED
  BY <1>1, <1>2, <1>3, <1>4, <1>5 DEF DomNext

-----------------------------------------------------------------------------
(* All parts together                                                      *)

(* The instance of Rollout meets the assumptions that its lemmas rest on:  *)
(* CallAssumption, LimitAssumption and BuildAssumption.                    *)
LEMMA InstanceMeetsAssumptions ==
  /\ {"request"} \cap {"tick"} = {}
  /\ 2 \in Nat \ {0} /\ 2 \in Nat
  /\ Revisions!NoBuild \notin {}
OBVIOUS

(* However the handlers of builds, of domains and of revisions overlap and *)
(* die, the rows, the route file and what every handler has read keep      *)
(* their types: a handler holds only ids, rows and routes that it found,   *)
(* and a status, hostname or version is never one the others cannot read   *)
(* (builds.routes.ts, projects.routes.ts, features/routing, service.ts).   *)
THEOREM SettleTypesHold == SettleSpec => []SettleTypeOK
<1> DEFINE Typed == BpInv /\ DomInv /\ Revisions!Base
<1>1. SettleInit => Typed
  BY Initially, DomainsStart, Revisions!BaseInit DEF SettleInit
<1>2. Typed /\ [SettleNext]_settleVars => Typed'
  <2> SUFFICES ASSUME Typed, [SettleNext]_settleVars PROVE Typed'
    OBVIOUS
  <2>1. [BpNext]_bpVars /\ [DomNext]_domVars
    BY DEF SettleNext, settleVars
  <2>2. [Revisions!Next]_(Revisions!vars)
    BY DEF SettleNext, settleVars, rolloutVars, Revisions!vars
  <2> QED
    BY <2>1, <2>2, BpStep, DomStep, Revisions!BaseStep
<1>3. Typed => SettleTypeOK
  <2> SUFFICES ASSUME Typed PROVE SettleTypeOK
    OBVIOUS
  <2>1. Revisions!TypeOK
    BY DEF Revisions!Base, Revisions!TypeOK, Revisions!Sound, Revisions!Positions
  <2>2. DomTypeOK
    BY DEF DomInv, DomTypeOK
  <2> QED
    BY <2>1, <2>2 DEF BpInv, SettleTypeOK
<1> QED
  BY <1>1, <1>2, <1>3, PTL DEF SettleSpec
=============================================================================
