----------------------------- MODULE BuilderQueue -----------------------------
(***************************************************************************)
(* The builder service: the table builder_runs, the requests that create   *)
(* and cancel runs, and the slots of the workers that claim runs under a   *)
(* lease, execute their workflow and write the verdict.                    *)
(*                                                                         *)
(* All workers share one volume of workspaces, with a directory per run.   *)
(***************************************************************************)
EXTENDS Naturals, FiniteSets

CONSTANTS
  Runs,         \* runs, one for each idempotency key
  Slots,        \* worker ids: a worker has a loop, and an id, for each slot
  MaxAttempts   \* bound of the model: claims of a run

ASSUME RunAssumption == IsFiniteSet(Runs)
ASSUME AttemptAssumption == MaxAttempts \in Nat \ {0}

NoSlot == "no slot"
NoRun == "no run"
ASSUME NameAssumption == NoSlot \notin Slots /\ NoRun \notin Runs

VARIABLES
  run,        \* rows of builder_runs
  workspace,  \* runs that have files in their directory
  slot        \* local state of the slots

vars == <<run, workspace, slot>>

Active == {"running", "pushing"}
Terminal == {"succeeded", "failed", "cancelled"}

(* The attempts whose commit and whose image the metadata of a run name.   *)
Metadata == [commit: 0..MaxAttempts, artifact: 0..MaxAttempts]

Row == [status: {"absent", "queued"} \cup Active \cup Terminal,
        created: Nat,
        worker_id: Slots \cup {NoSlot},
        attempt: 0..MaxAttempts,
        lease: {"none", "held", "expired"},
        cancel_requested: BOOLEAN,
        secrets: BOOLEAN,
        metadata: Metadata]

Slot == [pc: {"recover", "claim", "clone", "checkout", "record", "graph", "build",
              "succeed", "fail"},
         run: Runs \cup {NoRun},
         attempt: 0..MaxAttempts,
         aborted: BOOLEAN,
         metadata: Metadata]

(* Rows and slots have their types; a lease is running exactly while a run *)
(* is claimed, and only a claimed or decided run names a worker.           *)
TypeOK ==
  /\ run \in [Runs -> Row]
  /\ workspace \subseteq Runs
  /\ slot \in [Slots -> Slot]
  /\ \A r \in Runs :
       /\ run[r].lease # "none" <=> run[r].status \in Active
       /\ run[r].status \in Active => run[r].worker_id # NoSlot
       /\ run[r].status \in {"absent", "queued"} => run[r].worker_id = NoSlot
  /\ \A s \in Slots : slot[s].run = NoRun <=> slot[s].pc \in {"recover", "claim"}

-----------------------------------------------------------------------------
NoMetadata == [commit |-> 0, artifact |-> 0]

NoRow == [status |-> "absent", created |-> 0, worker_id |-> NoSlot, attempt |-> 0, lease |-> "none",
          cancel_requested |-> FALSE, secrets |-> FALSE, metadata |-> NoMetadata]

(* The slot at the head of its loop.                                       *)
Looping == [pc |-> "recover", run |-> NoRun, attempt |-> 0, aborted |-> FALSE, metadata |-> NoMetadata]

Init ==
  /\ run = [r \in Runs |-> NoRow]
  /\ workspace = {}
  /\ slot = [s \in Slots |-> Looping]

Goes(s, pc) == slot' = [slot EXCEPT ![s].pc = pc]

(* Faulty variant of Claimed: the statements match on the run alone.       *)
ClaimedByAnyone(r, s) == run[r].worker_id # NoSlot

(* The row is claimed by slot s, in the guard of the worker's statements.  *)
Claimed(r, s) == run[r].worker_id = s

-----------------------------------------------------------------------------
(* Requests to the builder's API                                           *)

(* create; a repeated key finds the row and leaves it alone.               *)
Create(r) ==
  /\ run[r].status = "absent"
  /\ run' = [run EXCEPT ![r].status = "queued",
                        ![r].created = Cardinality({q \in Runs : run[q].status # "absent"}) + 1,
                        ![r].secrets = TRUE]
  /\ UNCHANGED <<workspace, slot>>

(* Faulty variant of RequestCancel: a run that has ended is marked too.    *)
RequestCancelAnytime(r) ==
  /\ run[r].status # "absent"
  /\ ~run[r].cancel_requested
  /\ run' = [run EXCEPT ![r].cancel_requested = TRUE,
                        ![r].status = IF @ = "queued" THEN "cancelled" ELSE @]
  /\ UNCHANGED <<workspace, slot>>

(* requestCancel ends a queued run; a claimed one is only marked.          *)
RequestCancel(r) ==
  /\ run[r].status \in {"queued"} \cup Active
  /\ ~run[r].cancel_requested
  /\ run' = [run EXCEPT ![r].cancel_requested = TRUE,
                        ![r].status = IF @ = "queued" THEN "cancelled" ELSE @]
  /\ UNCHANGED <<workspace, slot>>

-----------------------------------------------------------------------------
(* The loop of a slot                                                      *)

(* Faulty variant of Requeued: the run keeps the id of the slot.           *)
RequeuedInPlace(row) == [row EXCEPT !.status = "queued", !.lease = "none"]

(* The row after recoverExpiredLeases.                                     *)
Requeued(row) == [row EXCEPT !.status = "queued", !.worker_id = NoSlot, !.lease = "none"]

(* Faulty variant of Lost: an ended run, which has no lease, counts too.   *)
LostOrDecided(r) == run[r].attempt > 0 /\ run[r].lease # "held"

(* Faulty variant of Lost: a run that was pushing does not count.          *)
LostRunning(r) == run[r].status = "running" /\ run[r].lease = "expired"

(* A claimed run whose lease has expired.                                  *)
Lost(r) == run[r].status \in Active /\ run[r].lease = "expired"

(* recoverExpiredLeases: every claimed run whose lease has expired.        *)
Recover(s) ==
  /\ slot[s].pc = "recover"
  /\ run' = [r \in Runs |-> IF Lost(r) THEN Requeued(run[r]) ELSE run[r]]
  /\ Goes(s, "claim")
  /\ UNCHANGED workspace

Queued == {r \in Runs : run[r].status = "queued"}

(* claim takes the oldest queued run.                                      *)
Claim(s, r) ==
  /\ slot[s].pc = "claim"
  /\ r \in Queued
  /\ \A q \in Queued : run[r].created <= run[q].created
  /\ run' = [run EXCEPT ![r].status = "running", ![r].worker_id = s,
                        ![r].attempt = @ + 1, ![r].lease = "held"]
  /\ slot' = [slot EXCEPT ![s] = [pc |-> "clone", run |-> r, attempt |-> run[r].attempt + 1,
                                  aborted |-> FALSE, metadata |-> run[r].metadata]]
  /\ UNCHANGED workspace

(* Nothing is queued: the slot sleeps and begins again.                    *)
Sleep(s) ==
  /\ slot[s].pc = "claim"
  /\ Queued = {}
  /\ Goes(s, "recover")
  /\ UNCHANGED <<run, workspace>>

(* Faulty variant of PollCancellation: not before the checkout is done.    *)
PollCancellationOfSteps(s) ==
  /\ slot[s].run # NoRun /\ slot[s].pc \notin {"clone", "checkout"}
  /\ ~slot[s].aborted
  /\ run[slot[s].run].cancel_requested
  /\ slot' = [slot EXCEPT ![s].aborted = TRUE]
  /\ UNCHANGED <<run, workspace>>

(* The timer that polls for cancellation.                                  *)
PollCancellation(s) ==
  /\ slot[s].run # NoRun
  /\ ~slot[s].aborted
  /\ run[slot[s].run].cancel_requested
  /\ slot' = [slot EXCEPT ![s].aborted = TRUE]
  /\ UNCHANGED <<run, workspace>>

(* The heartbeat timer renews the lease, expired or not, or learns that    *)
(* the run is another slot's.                                              *)
Heartbeat(s) ==
  LET r == slot[s].run IN
  /\ r # NoRun
  /\ IF Claimed(r, s) /\ run[r].status \in Active
     THEN /\ run[r].lease = "expired"
          /\ run' = [run EXCEPT ![r].lease = "held"]
          /\ UNCHANGED slot
     ELSE /\ ~slot[s].aborted
          /\ slot' = [slot EXCEPT ![s].aborted = TRUE]
          /\ UNCHANGED run
  /\ UNCHANGED workspace

-----------------------------------------------------------------------------
(* WorkflowExecutor.execute                                                *)

(* The finally clause removes the workspace, whoever filled it.            *)
Ends(s, pc) ==
  /\ Goes(s, pc)
  /\ workspace' = workspace \ {slot[s].run}

(* git clone starts to write into the workspace; it refuses a directory    *)
(* that has files in it.                                                   *)
Clone(s) ==
  LET r == slot[s].run IN
  /\ slot[s].pc = "clone"
  /\ IF r \in workspace \/ slot[s].aborted
     THEN Ends(s, "fail")
     ELSE Goes(s, "checkout") /\ workspace' = workspace \cup {r}
  /\ UNCHANGED run

(* git has ended, and its commit is resolved.                              *)
Checkout(s) ==
  /\ slot[s].pc = "checkout"
  /\ ~slot[s].aborted
  /\ slot[s].run \in workspace
  /\ slot' = [slot EXCEPT ![s].pc = "record", ![s].metadata.commit = slot[s].attempt]
  /\ UNCHANGED <<run, workspace>>

(* git fails, or is killed by the signal.                                  *)
CheckoutFails(s) ==
  /\ slot[s].pc = "checkout"
  /\ Ends(s, "fail")
  /\ UNCHANGED run

(* updateMetadata, after the checkout and after each build: it does not    *)
(* ask whose run it is.                                                    *)
Record(s) ==
  /\ slot[s].pc = "record"
  /\ run' = [run EXCEPT ![slot[s].run].metadata = slot[s].metadata]
  /\ Goes(s, "graph")
  /\ UNCHANGED workspace

(* A build step marks the run as pushing before it builds and exports,     *)
(* which a run that is pushing already refuses.                            *)
MarkPushing(s) ==
  LET r == slot[s].run IN
  /\ slot[s].pc = "graph"
  /\ Claimed(r, s) /\ run[r].status = "running"
  /\ run' = [run EXCEPT ![r].status = "pushing"]
  /\ Goes(s, "build")
  /\ UNCHANGED workspace

(* BuildKit has exported the image; the metadata name it if BuildKit       *)
(* reported its digest.                                                    *)
BuildDone(s) ==
  \E artifact \in {slot[s].attempt, slot[s].metadata.artifact} :
    /\ slot[s].pc = "build"
    /\ ~slot[s].aborted
    /\ slot[s].run \in workspace
    /\ slot' = [slot EXCEPT ![s].pc = "record", ![s].metadata.artifact = artifact]
    /\ UNCHANGED <<run, workspace>>

(* BuildKit fails, times out or is killed, and the failure is tolerated.   *)
BuildTolerated(s) ==
  /\ slot[s].pc = "build"
  /\ Goes(s, "graph")
  /\ UNCHANGED <<run, workspace>>

(* The other steps of the graph leave the tables alone.  The graph ends    *)
(* when every step has its outcome, even after the signal ...              *)
GraphDone(s) ==
  /\ slot[s].pc = "graph"
  /\ Ends(s, "succeed")
  /\ UNCHANGED run

(* ... or with a step that fails, is refused the mark, or is not begun     *)
(* because of the signal.                                                  *)
GraphFails(s) ==
  /\ slot[s].pc \in {"graph", "build", "record"}
  /\ Ends(s, "fail")
  /\ UNCHANGED run

-----------------------------------------------------------------------------
(* The verdict                                                             *)

(* The row after complete or fail by slot s: a cancelled run stays         *)
(* cancelled, secrets are erased.  For a slot that the row does not name   *)
(* the statement matches no row.                                           *)
Decided(r, s, verdict) ==
  IF Claimed(r, s)
  THEN [run EXCEPT ![r].status = IF run[r].cancel_requested THEN "cancelled" ELSE verdict,
                   ![r].lease = "none", ![r].secrets = FALSE]
  ELSE run

Complete(s) ==
  /\ slot[s].pc = "succeed"
  /\ run' = Decided(slot[s].run, s, "succeeded")
  /\ slot' = [slot EXCEPT ![s] = Looping]
  /\ UNCHANGED workspace

(* The statement of complete raises, committed or not: the run is failed.  *)
CompleteRaises(s) ==
  /\ slot[s].pc = "succeed"
  /\ run' \in {run, Decided(slot[s].run, s, "succeeded")}
  /\ Goes(s, "fail")
  /\ UNCHANGED workspace

Fail(s) ==
  /\ slot[s].pc = "fail"
  /\ run' = Decided(slot[s].run, s, "failed")
  /\ slot' = [slot EXCEPT ![s] = Looping]
  /\ UNCHANGED workspace

-----------------------------------------------------------------------------
(* Failures                                                                *)

(* The worker dies and is started again; the workspace stays.  Also what   *)
(* an error of fail, of a log flush or of the loop's statements does.      *)
Crash(s) ==
  /\ slot[s].run # NoRun
  /\ slot[s].attempt < MaxAttempts
  /\ slot' = [slot EXCEPT ![s] = Looping]
  /\ UNCHANGED <<run, workspace>>

(* No heartbeat came in time.                                              *)
ExpireLease(r) ==
  /\ run[r].status \in Active /\ run[r].lease = "held"
  /\ run[r].attempt < MaxAttempts
  /\ run' = [run EXCEPT ![r].lease = "expired"]
  /\ UNCHANGED <<workspace, slot>>

-----------------------------------------------------------------------------
(* What a slot does by itself: every step ends by its timeout, but nothing *)
(* bounds the time git takes.                                              *)
Proceeds(s) ==
  \/ Recover(s) \/ Sleep(s) \/ \E r \in Runs : Claim(s, r)
  \/ Clone(s) \/ Record(s) \/ MarkPushing(s)
  \/ BuildDone(s) \/ BuildTolerated(s) \/ GraphDone(s) \/ GraphFails(s)
  \/ Complete(s) \/ CompleteRaises(s) \/ Fail(s)

Next ==
  \/ \E r \in Runs : Create(r) \/ RequestCancel(r) \/ ExpireLease(r)
  \/ \E s \in Slots :
       \/ Proceeds(s) \/ Checkout(s) \/ CheckoutFails(s)
       \/ PollCancellation(s) \/ Heartbeat(s) \/ Crash(s)

Spec == Init /\ [][Next]_vars

(* The slot that executes the run under its lease.                         *)
Executes(s, r) == slot[s].run = r /\ Claimed(r, s)

(* A run is claimed and nobody executes it: its worker has died.           *)
Abandoned(r) ==
  run[r].status \in Active /\ \A s \in Slots : ~Executes(s, r)

(* The loops and their timers run; a signal kills git; a lease that nobody *)
(* renews expires.                                                         *)
FairSpec ==
  /\ Spec
  /\ \A s \in Slots :
       /\ WF_vars(Proceeds(s))
       /\ WF_vars(PollCancellation(s)) /\ WF_vars(Heartbeat(s))
       /\ WF_vars(slot[s].aborted /\ CheckoutFails(s))
  /\ \A r \in Runs : WF_vars(Abandoned(r) /\ ExpireLease(r))

-----------------------------------------------------------------------------
(* Properties                                                              *)

(* The verdict of a run is written by the latest attempt at it, never by a *)
(* slot that lost its lease and works on: fail and complete ask only for   *)
(* the slot's id.  The one other end is the cancellation of a queued run.  *)
FencedVerdict ==
  [][\A r \in Runs :
       run[r].status \notin Terminal /\ run'[r].status \in Terminal =>
         \/ run[r].status = "queued" /\ run'[r].status = "cancelled"
         \/ \E s \in Slots : /\ slot[s].run = r /\ slot[s].attempt = run[r].attempt
                             /\ slot'[s].pc # slot[s].pc]_vars

(* A decided run is not queued, claimed or cancelled again, whichever      *)
(* slots still work on it; only a success whose statement raised turns     *)
(* into a failure.                                                         *)
TerminalStays ==
  [][\A r \in Runs :
       run[r].status \in Terminal /\ run'[r].status # run[r].status =>
         run[r].status = "succeeded" /\ run'[r].status = "failed"]_vars

(* A cancellation the builder accepted is never overtaken by another       *)
(* verdict, wherever the attempt was when it arrived.                      *)
CancelWins ==
  \A r \in Runs : run[r].cancel_requested => run[r].status \notin {"succeeded", "failed"}

(* Slots come back to the head of their loop; only a git that hangs in all *)
(* of them prevents it.                                                    *)
SlotsReturn == []<>(\E s \in Slots : slot[s].pc = "recover")

(* An accepted cancellation takes effect, also on an attempt that hangs in *)
(* git, and on a run whose worker has died: the run then returns to the    *)
(* queue, and the next attempt sees the mark.                              *)
CancelEnds ==
  SlotsReturn => \A r \in Runs : run[r].cancel_requested ~> run[r].status = "cancelled"

(* "a job whose worker crashes returns to the queue after its lease        *)
(* expires" (apps/builder/README.md), whether it was running or pushing.   *)
CrashedReturns ==
  SlotsReturn => \A r \in Runs : Abandoned(r) ~> run[r].status \notin Active
=============================================================================
