------------------------------- MODULE Workflow -------------------------------
(***************************************************************************)
(* A workflow of the builder: what validateWorkflow accepts, and how       *)
(* WorkflowExecutor.runGraph executes the steps, in rounds of the steps    *)
(* that are ready.  BuilderQueue has the run around it.                    *)
(***************************************************************************)
EXTENDS FiniteSetsExt

CONSTANTS
  WfSteps,      \* ids of the steps
  Unknown,      \* an id that no step has
  WfConditions, \* values of a step's if
  BuildSteps,   \* steps that build an image; the others run or deploy
  Retried,      \* steps that have one retry
  Tolerant      \* steps with continueOnError

ASSUME WorkflowAssumption ==
  /\ IsFiniteSet(WfSteps) /\ Unknown \notin WfSteps
  /\ BuildSteps \cup Retried \cup Tolerant \subseteq WfSteps
  /\ "success()" \in WfConditions
  /\ WfConditions \subseteq {"success()", "always()", "failure()", "false", "true", "unsupported"}

VARIABLES
  wfNeeds,      \* needs of the steps
  wfDuplicate,  \* two steps have one id
  wfIf,         \* conditions of the steps
  wfPhase,      \* where the workflow is
  wfPending, wfOutcome,
  wfWork,       \* steps of the round that are not settled, and their attempt
  wfRejected,   \* a step of the round was rejected
  wfPushing,    \* the run has been marked as pushing
  wfAborted     \* the signal of the run

workflow == <<wfNeeds, wfDuplicate, wfIf>>
wfVars ==
  <<workflow, wfPhase, wfPending, wfOutcome, wfWork, wfRejected, wfPushing, wfAborted>>

WfTypeOK ==
  /\ wfNeeds \in [WfSteps -> SUBSET (WfSteps \cup {Unknown})]
  /\ wfDuplicate \in BOOLEAN
  /\ wfIf \in [WfSteps -> WfConditions]
  /\ wfPhase \in {"none", "refused", "running", "deadlock", "failed", "succeeded"}
  /\ wfPending \subseteq WfSteps
  /\ wfOutcome \in [WfSteps -> {"none", "succeeded", "failed", "skipped"}]
  /\ wfWork \in [WfSteps -> [pc : {"none", "begin", "work"}, attempt : 0..2]]
  /\ {wfRejected, wfPushing, wfAborted} \subseteq BOOLEAN

NoWork == [pc |-> "none", attempt |-> 0]

WfInit ==
  /\ wfNeeds = [s \in WfSteps |-> {}]
  /\ wfDuplicate = FALSE
  /\ wfIf = [s \in WfSteps |-> "success()"]
  /\ wfPhase = "none"
  /\ wfPending = {}
  /\ wfOutcome = [s \in WfSteps |-> "none"]
  /\ wfWork = [s \in WfSteps |-> NoWork]
  /\ wfRejected = FALSE /\ wfPushing = FALSE /\ wfAborted = FALSE

-----------------------------------------------------------------------------
(* Validation                                                              *)

(* Where the search is: the ids it has yet to look at, the path to them,   *)
(* the steps it has left, and whether it met a step on its own path.       *)
Search ==
  [todo : SUBSET WfSteps, visiting : SUBSET WfSteps, visited : SUBSET WfSteps, cycle : BOOLEAN]

(* Faulty variant of visit: a step counts as visited when it is entered,   *)
(* and is looked up as such first.                                         *)
visitMarksEarly(needs) ==
  LET go[at \in Search] ==
        IF at.todo = {} THEN at
        ELSE LET id == CHOOSE s \in at.todo : TRUE
                 next == [at EXCEPT !.todo = @ \ {id}]
             IN IF id \in at.visited THEN go[next]
                ELSE IF id \in at.visiting THEN go[[next EXCEPT !.cycle = TRUE]]
                ELSE LET below == go[[at EXCEPT !.todo = needs[id] \cap WfSteps,
                                                !.visiting = @ \cup {id}, !.visited = @ \cup {id}]]
                     IN go[[next EXCEPT !.visited = below.visited, !.cycle = below.cycle]]
  IN go

(* The depth-first search of validateGraph: a step is left, and counts as  *)
(* visited, when the steps it needs have been visited.                     *)
visit(needs) ==
  LET go[at \in Search] ==
        IF at.todo = {} THEN at
        ELSE LET id == CHOOSE s \in at.todo : TRUE
                 next == [at EXCEPT !.todo = @ \ {id}]
             IN IF id \in at.visiting THEN go[[next EXCEPT !.cycle = TRUE]]
                ELSE IF id \in at.visited THEN go[next]
                ELSE LET below == go[[at EXCEPT !.todo = needs[id] \cap WfSteps,
                                                !.visiting = @ \cup {id}]]
                     IN go[[next EXCEPT !.visited = below.visited \cup {id}, !.cycle = below.cycle]]
  IN go

AllSteps == [todo |-> WfSteps, visiting |-> {}, visited |-> {}, cycle |-> FALSE]
CycleFound(needs) == visit(needs)[AllSteps].cycle

validateGraph(needs, duplicate) ==
  /\ ~duplicate
  /\ \A s \in WfSteps : needs[s] \subseteq WfSteps
  /\ ~CycleFound(needs)

(* POST /v1/runs refuses what is not valid; a valid run is claimed and     *)
(* checked out, and runGraph begins.                                       *)
SubmitWorkflow ==
  /\ wfPhase = "none"
  /\ wfNeeds' \in [WfSteps -> SUBSET (WfSteps \cup {Unknown})]
  /\ wfDuplicate' \in BOOLEAN
  /\ IF validateGraph(wfNeeds', wfDuplicate')
     THEN /\ wfPhase' = "running" /\ wfPending' = WfSteps
          /\ wfIf' \in [WfSteps -> WfConditions]
     ELSE wfPhase' = "refused" /\ UNCHANGED <<wfPending, wfIf>>
  /\ UNCHANGED <<wfOutcome, wfWork, wfRejected, wfPushing, wfAborted>>

-----------------------------------------------------------------------------
(* Execution                                                               *)

Settled == \A s \in WfSteps : wfWork[s].pc = "none"
AnyFailed == \E s \in WfSteps : wfOutcome[s] = "failed"
ReadySteps == {s \in wfPending : \A n \in wfNeeds[s] : wfOutcome[n] # "none"}

conditionMatches(s) ==
  CASE wfIf[s] = "success()" -> ~AnyFailed
    [] wfIf[s] = "failure()" -> AnyFailed
    [] wfIf[s] \in {"always()", "true"} -> TRUE
    [] OTHER -> FALSE

SkippedSteps ==
  {s \in ReadySteps : \/ \E n \in wfNeeds[s] : wfOutcome[n] # "succeeded"
                      \/ wfIf[s] # "unsupported" /\ ~conditionMatches(s)}

(* Conditions that cannot be read reject their step.                       *)
UnreadableSteps == {s \in ReadySteps \ SkippedSteps : wfIf[s] = "unsupported"}

(* The head of the loop.  The conditions of a round are all evaluated      *)
(* before any of its steps does something.                                 *)
StartRound ==
  LET going == ReadySteps \ (SkippedSteps \cup UnreadableSteps) IN
  /\ wfPhase = "running" /\ Settled /\ ~wfRejected
  /\ wfPending # {} /\ ~wfAborted
  /\ IF ReadySteps = {} THEN wfPhase' = "deadlock" ELSE UNCHANGED wfPhase
  /\ wfPending' = wfPending \ ReadySteps
  /\ wfOutcome' = [s \in WfSteps |-> IF s \in SkippedSteps THEN "skipped" ELSE wfOutcome[s]]
  /\ wfWork' = [s \in WfSteps |-> IF s \in going THEN [pc |-> "begin", attempt |-> 1] ELSE NoWork]
  /\ wfRejected' = (UnreadableSteps # {})
  /\ UNCHANGED <<workflow, wfPushing, wfAborted>>

Settle(s, outcome) ==
  /\ wfOutcome' = [wfOutcome EXCEPT ![s] = outcome]
  /\ wfWork' = [wfWork EXCEPT ![s] = NoWork]

(* An attempt of a build begins with markPushing, which only a run that is *)
(* not pushing passes.                                                     *)
BeginStep(s) ==
  /\ wfWork[s].pc = "begin"
  /\ s \in BuildSteps => ~wfPushing
  /\ wfWork' = [wfWork EXCEPT ![s].pc = "work"]
  /\ wfPushing' = (wfPushing \/ s \in BuildSteps)
  /\ UNCHANGED <<workflow, wfPhase, wfPending, wfOutcome, wfRejected, wfAborted>>

StepSucceeds(s) ==
  /\ wfWork[s].pc = "work"
  /\ Settle(s, "succeeded")
  /\ UNCHANGED <<workflow, wfPhase, wfPending, wfRejected, wfPushing, wfAborted>>

(* An attempt fails, or is refused or aborted, and a retry is left.        *)
RetryStep(s) ==
  /\ wfWork[s].pc # "none"
  /\ s \in Retried /\ wfWork[s].attempt = 1
  /\ wfWork' = [wfWork EXCEPT ![s] = [pc |-> "begin", attempt |-> 2]]
  /\ UNCHANGED <<workflow, wfPhase, wfPending, wfOutcome, wfRejected, wfPushing, wfAborted>>

StepFails(s) ==
  /\ wfWork[s].pc # "none"
  /\ s \in Retried => wfWork[s].attempt = 2
  /\ Settle(s, IF s \in Tolerant THEN "succeeded" ELSE "failed")
  /\ wfRejected' = (wfRejected \/ s \notin Tolerant)
  /\ UNCHANGED <<workflow, wfPhase, wfPending, wfPushing, wfAborted>>

(* The round has settled: a rejection, or the signal if steps are left,    *)
(* ends the graph, and so does the last step.                              *)
EndGraph ==
  /\ wfPhase = "running" /\ Settled
  /\ \/ wfRejected /\ wfPhase' = "failed"
     \/ ~wfRejected /\ wfPending # {} /\ wfAborted /\ wfPhase' = "failed"
     \/ ~wfRejected /\ wfPending = {} /\ wfPhase' = "succeeded"
  /\ UNCHANGED <<workflow, wfPending, wfOutcome, wfWork, wfRejected, wfPushing, wfAborted>>

AbortRun ==
  /\ wfPhase = "running" /\ ~wfAborted
  /\ wfAborted' = TRUE
  /\ UNCHANGED <<workflow, wfPhase, wfPending, wfOutcome, wfWork, wfRejected, wfPushing>>

WfNext ==
  \/ SubmitWorkflow \/ StartRound \/ EndGraph \/ AbortRun
  \/ \E s \in WfSteps : BeginStep(s) \/ StepSucceeds(s) \/ RetryStep(s) \/ StepFails(s)

-----------------------------------------------------------------------------
(* A set of steps each of which waits for another one of the set.          *)
Circular == \E loop \in SUBSET WfSteps \ {{}} : \A s \in loop : wfNeeds[s] \cap loop # {}

(* What the search of validateGraph accepts never runs into "Workflow      *)
(* dependency deadlock", whichever steps are skipped, fail or are retried, *)
(* and it refuses no other workflow.  A workflow succeeds only when every  *)
(* step was executed with success, was tolerated or was skipped; a step    *)
(* that waits for one that failed or was skipped is never executed, and a  *)
(* step for the case of failure() is not executed either.                  *)
WorkflowSound ==
  /\ wfPhase # "deadlock"
  /\ wfPhase = "refused" => wfDuplicate \/ Circular \/ \E s \in WfSteps : Unknown \in wfNeeds[s]
  /\ wfPhase = "succeeded" => \A s \in WfSteps : wfOutcome[s] \in {"succeeded", "skipped"}
  /\ \A s \in WfSteps :
       wfWork[s].pc # "none" \/ wfOutcome[s] \in {"succeeded", "failed"} =>
         wfIf[s] # "failure()" /\ \A n \in wfNeeds[s] : wfOutcome[n] = "succeeded"
=============================================================================
