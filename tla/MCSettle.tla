------------------------------- MODULE MCSettle -------------------------------
(***************************************************************************)
(* Model checking of what a reconciler must bring about in the end: the    *)
(* workloads of a superseded revision stop (Rollout, with one request and  *)
(* one tick), a cancelled build is cancelled (BuildPipeline) and the       *)
(* routes follow the domains (Domains).                                    *)
(*                                                                         *)
(* The three share no state here, so a behaviour is one of one of them:    *)
(* "part" says of which, and the others stay as they began.                *)
(***************************************************************************)
EXTENDS BuildPipeline, Domains

VARIABLES revisions, builds, call, serial, touched, part

(* RolloutProofs is Rollout with the lemmas about it.                      *)
Revisions == INSTANCE RolloutProofs WITH
  Users <- {"request"}, Ticks <- {"tick"}, Builds <- {}, MaxAttempts <- 2, MaxRevisions <- 2

rolloutVars == <<revisions, builds, call, serial, touched>>
settleVars == <<bpVars, domVars, rolloutVars, part>>

SettleInit ==
  /\ part \in {"pipeline", "domains", "rollout"}
  /\ BpInit /\ DomInit /\ Revisions!Init

SettleNext ==
  /\ UNCHANGED part
  /\ IF part = "pipeline" THEN BpNext ELSE UNCHANGED bpVars
  /\ IF part = "domains" THEN DomNext ELSE UNCHANGED domVars
  /\ IF part = "rollout" THEN Revisions!Next ELSE UNCHANGED rolloutVars

(* The fairness of every module, in the behaviours of that module.         *)
SettleFairness ==
  /\ \A c \in Revisions!Calls : WF_rolloutVars(part = "rollout" /\ Revisions!Steps(c))
  /\ WF_rolloutVars(part = "rollout" /\ Revisions!StartTick("tick"))
  /\ <>[][~Revisions!ApiRestart]_rolloutVars
  /\ \A c \in BuildHandlers : WF_bpVars(part = "pipeline" /\ BuildRequestStep(c))
  /\ \A t \in BuildTicks : WF_bpVars(part = "pipeline" /\ BuildPassStep(t))
  /\ \A b \in Builds :
       /\ SF_bpVars(part = "pipeline" /\ \E t \in BuildTicks : VisitBuild(t, b))
       /\ SF_bpVars(part = "pipeline" /\ \E t \in BuildTicks : buildPass[t].of = b /\ AskBuilder(t))
       /\ SF_bpVars(part = "pipeline" /\ \E t \in BuildTicks : buildPass[t].of = b /\ CopyStatus(t))
       /\ WF_bpVars(part = "pipeline" /\ builderRun[b].cancel /\ RunAdvances(b))
  /\ \A c \in RouteCalls : WF_domVars(part = "domains" /\ Continue(c))
  /\ \A c \in RouteTicks : WF_domVars(part = "domains" /\ RouteTick(c))
  /\ <>[][~RouteApiRestart]_domVars

SettleSpec == SettleInit /\ [][SettleNext]_settleVars /\ SettleFairness

-----------------------------------------------------------------------------
(* Rollout!OrphansStop: workloads that a late pass places for a revision   *)
(* that is no longer desired do not stay.                                  *)
OrphansStop == Revisions!OrphansStop

(* The types of the parts; BuildPipeline!DeployedFromImage is checked as   *)
(* it stands there.                                                        *)
SettleTypeOK == BpTypeOK /\ DomTypeOK /\ Revisions!TypeOK

(* Domains!StaleWithdrawn and Domains!ActiveServed: routes that should be  *)
(* gone are withdrawn, and domains shown as active are served or marked.   *)
RoutesSettle == StaleWithdrawn /\ ActiveServed
=============================================================================
