-------------------------- MODULE BuilderQueueProofs --------------------------
(***************************************************************************)
(* Proofs about BuilderQueue, for any number of runs and slots and any     *)
(* bound on the attempts.                                                  *)
(***************************************************************************)
EXTENDS BuilderQueue, FiniteSetTheorems, TLAPS

(* A run that may be claimed again has an attempt left.                    *)
Room ==
  \A r \in Runs :
    run[r].status \in {"absent", "queued"} \/ run[r].lease = "expired" => run[r].attempt < MaxAttempts

(* The slot that a row names, if it still works on it, works on the        *)
(* latest attempt.                                                         *)
Current ==
  \A s \in Slots, r \in Runs : Executes(s, r) => slot[s].attempt = run[r].attempt

(* A slot is still at work on a run it has decided only if its statement   *)
(* raised after a success; it can then only fail.                          *)
Finished ==
  \A s \in Slots, r \in Runs :
    Executes(s, r) /\ run[r].status \in Terminal =>
      slot[s].pc = "fail" /\ run[r].status \in {"succeeded", "cancelled"}

(* A run is cancelled only on request.                                     *)
Requested == \A r \in Runs : run[r].status = "cancelled" => run[r].cancel_requested

Inductive == TypeOK /\ Room /\ Current /\ Finished /\ Requested /\ CancelWins

-----------------------------------------------------------------------------
LEMMA InitInductive == Init => Inductive
<1> SUFFICES ASSUME Init PROVE Inductive
  OBVIOUS
<1> USE AttemptAssumption, NameAssumption DEF Init, NoRow, Looping, NoMetadata, Active, Terminal
<1>1. TypeOK
  BY DEF TypeOK, Row, Slot, Metadata
<1>2. Room /\ Requested /\ CancelWins
  BY DEF Room, Requested, CancelWins
<1>3. Current /\ Finished
  BY DEF Current, Finished, Executes, Claimed
<1> QED
  BY <1>1, <1>2, <1>3 DEF Inductive

(* The number a new row is given is a natural number.                      *)
LEMMA CreatedType == Cardinality({q \in Runs : run[q].status # "absent"}) \in Nat
<1>1. {q \in Runs : run[q].status # "absent"} \subseteq Runs
  OBVIOUS
<1> QED
  BY <1>1, RunAssumption, FS_Subset, FS_CardinalityType

-----------------------------------------------------------------------------
(* Type correctness                                                        *)

(* What TypeOK says of a row beyond its type, and of a slot.               *)
RowFits(row) ==
  /\ row.lease # "none" <=> row.status \in Active
  /\ row.status \in Active => row.worker_id # NoSlot
  /\ row.status \in {"absent", "queued"} => row.worker_id = NoSlot

SlotFits(e) == e.run = NoRun <=> e.pc \in {"recover", "claim"}

(* The type invariant, in parts that a step changes separately.            *)
RunsOK == run \in [Runs -> Row] /\ \A r \in Runs : RowFits(run[r])
SlotsOK == slot \in [Slots -> Slot] /\ \A s \in Slots : SlotFits(slot[s])

LEMMA TypeParts == TypeOK <=> RunsOK /\ workspace \subseteq Runs /\ SlotsOK
BY DEF TypeOK, RunsOK, SlotsOK, RowFits, SlotFits

(* Replacing one row, or the state of one slot, by a fitting one.          *)
LEMMA PutRow ==
  ASSUME RunsOK, NEW r \in Runs, NEW row \in Row, RowFits(row), run' = [run EXCEPT ![r] = row]
  PROVE  RunsOK'
BY DEF RunsOK, RowFits

LEMMA PutSlot ==
  ASSUME SlotsOK, NEW s \in Slots, NEW e \in Slot, SlotFits(e), slot' = [slot EXCEPT ![s] = e]
  PROVE  SlotsOK'
BY DEF SlotsOK, SlotFits

(* A slot at work moves on in its work.                                    *)
LEMMA MoveSlot ==
  ASSUME SlotsOK, NEW s \in Slots, slot[s].run # NoRun,
         NEW pc \in {"clone", "checkout", "record", "graph", "build", "succeed", "fail"}, Goes(s, pc)
  PROVE  SlotsOK'
<1> DEFINE e == [slot[s] EXCEPT !.pc = pc]
<1>1. e \in Slot /\ SlotFits(e)
  BY DEF SlotsOK, Slot, SlotFits
<1>2. slot' = [slot EXCEPT ![s] = e]
  BY DEF Goes, SlotsOK, Slot
<1> QED
  BY <1>1, <1>2, PutSlot

(* The slot has a run exactly while it is at work.                         *)
LEMMA AtWork ==
  ASSUME SlotsOK, NEW s \in Slots
  PROVE  /\ slot[s] \in Slot
         /\ slot[s].pc \notin {"recover", "claim"} => slot[s].run \in Runs /\ slot[s].run # NoRun
         /\ slot[s].run # NoRun => slot[s].pc \notin {"recover", "claim"}
BY NameAssumption DEF SlotsOK, SlotFits, Slot

LEMMA LoopSlot ==
  ASSUME SlotsOK, NEW s \in Slots, slot' = [slot EXCEPT ![s] = Looping]
  PROVE  SlotsOK'
<1>1. Looping \in Slot /\ SlotFits(Looping)
  BY AttemptAssumption DEF Looping, NoMetadata, Slot, Metadata, SlotFits
<1> QED
  BY <1>1, PutSlot

(* A verdict keeps the table well typed.                                   *)
LEMMA DecidedType ==
  ASSUME RunsOK, NEW r \in Runs, NEW s \in Slots, NEW verdict \in {"succeeded", "failed"},
         run' = Decided(r, s, verdict)
  PROVE  RunsOK'
<1> DEFINE row == [run[r] EXCEPT !.status = IF run[r].cancel_requested THEN "cancelled" ELSE verdict,
                                 !.lease = "none", !.secrets = FALSE]
<1>1. CASE ~Claimed(r, s)
  BY <1>1 DEF Decided, RunsOK, RowFits
<1>2. CASE Claimed(r, s)
  <2>1. row \in Row /\ RowFits(row)
    BY DEF RunsOK, Row, RowFits, Active, Terminal
  <2>2. run' = [run EXCEPT ![r] = row]
    BY <1>2 DEF Decided, RunsOK, Row
  <2> QED
    BY <2>1, <2>2, PutRow
<1> QED
  BY <1>1, <1>2

(* Rows, workspaces and slots keep their types in every step; the bound of *)
(* the model needs Room.                                                   *)
LEMMA TypeStep == TypeOK /\ Room /\ [Next]_vars => TypeOK'
<1> SUFFICES ASSUME RunsOK, workspace \subseteq Runs, SlotsOK, Room, [Next]_vars
             PROVE  RunsOK' /\ workspace' \subseteq Runs /\ SlotsOK'
  BY DEF TypeOK, RunsOK, SlotsOK, RowFits, SlotFits
<1>0. ASSUME UNCHANGED run PROVE RunsOK'
  BY <1>0 DEF RunsOK, RowFits
<1>00. ASSUME UNCHANGED slot PROVE SlotsOK'
  BY <1>00 DEF SlotsOK, SlotFits
<1>1. ASSUME NEW r \in Runs, Create(r) PROVE RunsOK' /\ workspace' \subseteq Runs /\ SlotsOK'
  <2> DEFINE n == Cardinality({q \in Runs : run[q].status # "absent"})
             row == [run[r] EXCEPT !.status = "queued", !.created = n + 1, !.secrets = TRUE]
  <2>1. n + 1 \in Nat
    BY CreatedType
  <2>2. run' = [run EXCEPT ![r] = row]
    BY <1>1 DEF Create, RunsOK, Row
  <2> HIDE DEF n
  <2>3. row \in Row /\ RowFits(row)
    BY <1>1, <2>1 DEF Create, RunsOK, Row, RowFits, Active
  <2> QED
    BY <1>00, <1>1, <2>2, <2>3, PutRow DEF Create
<1>2. ASSUME NEW r \in Runs, RequestCancel(r) PROVE RunsOK' /\ workspace' \subseteq Runs /\ SlotsOK'
  <2> DEFINE row == [run[r] EXCEPT !.cancel_requested = TRUE,
                                   !.status = IF run[r].status = "queued" THEN "cancelled" ELSE run[r].status]
  <2>1. run' = [run EXCEPT ![r] = row]
    BY <1>2 DEF RequestCancel, RunsOK, Row
  <2>2. row \in Row /\ RowFits(row)
    BY <1>2 DEF RequestCancel, RunsOK, Row, RowFits, Active, Terminal
  <2> QED
    BY <1>00, <1>2, <2>1, <2>2, PutRow DEF RequestCancel
<1>3. ASSUME NEW r \in Runs, ExpireLease(r) PROVE RunsOK' /\ workspace' \subseteq Runs /\ SlotsOK'
  <2> DEFINE row == [run[r] EXCEPT !.lease = "expired"]
  <2>1. run' = [run EXCEPT ![r] = row]
    BY <1>3 DEF ExpireLease, RunsOK, Row
  <2>2. row \in Row /\ RowFits(row)
    BY <1>3 DEF ExpireLease, RunsOK, Row, RowFits, Active
  <2> QED
    BY <1>00, <1>3, <2>1, <2>2, PutRow DEF ExpireLease
<1>4. ASSUME NEW s \in Slots, Recover(s) PROVE RunsOK' /\ workspace' \subseteq Runs /\ SlotsOK'
  <2>1. ASSUME NEW r \in Runs PROVE Requeued(run[r]) \in Row /\ RowFits(Requeued(run[r]))
    <3>1. run[r] \in Row
      BY DEF RunsOK
    <3>2. Requeued(run[r]) \in Row
      BY <3>1 DEF Requeued, Row
    <3>3. LET row == Requeued(run[r]) IN row.status = "queued" /\ row.worker_id = NoSlot /\ row.lease = "none"
      BY <3>1 DEF Requeued, Row
    <3> QED
      BY <3>2, <3>3 DEF RowFits, Active
  <2>2. RunsOK'
    BY <1>4, <2>1 DEF Recover, RunsOK
  <2> DEFINE e == [slot[s] EXCEPT !.pc = "claim"]
  <2>3. slot' = [slot EXCEPT ![s] = e]
    BY <1>4 DEF Recover, Goes, SlotsOK, Slot
  <2>4. e \in Slot /\ SlotFits(e)
    BY <1>4 DEF Recover, SlotsOK, Slot, SlotFits
  <2> QED
    BY <1>4, <2>2, <2>3, <2>4, PutSlot DEF Recover
<1>5. ASSUME NEW s \in Slots, NEW r \in Runs, Claim(s, r)
      PROVE  RunsOK' /\ workspace' \subseteq Runs /\ SlotsOK'
  <2> DEFINE n == run[r].attempt + 1
             row == [run[r] EXCEPT !.status = "running", !.worker_id = s,
                                   !.attempt = n, !.lease = "held"]
             e == [pc |-> "clone", run |-> r, attempt |-> n,
                   aborted |-> FALSE, metadata |-> run[r].metadata]
  <2>1. n \in 0..MaxAttempts
    BY <1>5, AttemptAssumption DEF Claim, Queued, Room, RunsOK, Row
  <2>2. run' = [run EXCEPT ![r] = row] /\ slot' = [slot EXCEPT ![s] = e]
    BY <1>5 DEF Claim, RunsOK, Row
  <2> HIDE DEF n
  <2>3. row \in Row /\ RowFits(row)
    <3>1. run[r] \in Row /\ s # NoSlot
      BY NameAssumption DEF RunsOK
    <3>2. row \in Row
      BY <2>1, <3>1 DEF Row, Active
    <3>3. row.status = "running" /\ row.worker_id = s /\ row.lease = "held"
      BY <3>1 DEF Row
    <3> QED
      BY <3>1, <3>2, <3>3 DEF RowFits, Active
  <2>4. e \in Slot /\ SlotFits(e)
    BY <2>1, NameAssumption DEF RunsOK, Row, Slot, SlotFits
  <2> QED
    BY <1>5, <2>2, <2>3, <2>4, PutRow, PutSlot DEF Claim
<1>6. ASSUME NEW s \in Slots, Sleep(s) PROVE RunsOK' /\ workspace' \subseteq Runs /\ SlotsOK'
  <2> DEFINE e == [slot[s] EXCEPT !.pc = "recover"]
  <2>1. slot' = [slot EXCEPT ![s] = e]
    BY <1>6 DEF Sleep, Goes, SlotsOK, Slot
  <2>2. e \in Slot /\ SlotFits(e)
    BY <1>6 DEF Sleep, SlotsOK, Slot, SlotFits
  <2> QED
    BY <1>0, <1>6, <2>1, <2>2, PutSlot DEF Sleep
<1>7. ASSUME NEW s \in Slots, slot' = [slot EXCEPT ![s].aborted = TRUE] PROVE SlotsOK'
  <2> DEFINE e == [slot[s] EXCEPT !.aborted = TRUE]
  <2>1. slot' = [slot EXCEPT ![s] = e] /\ e \in Slot /\ SlotFits(e)
    BY <1>7 DEF SlotsOK, Slot, SlotFits
  <2> QED
    BY <2>1, PutSlot
<1>8. ASSUME NEW s \in Slots, PollCancellation(s) PROVE RunsOK' /\ workspace' \subseteq Runs /\ SlotsOK'
  BY <1>0, <1>7, <1>8 DEF PollCancellation
<1>9. ASSUME NEW s \in Slots, Heartbeat(s) PROVE RunsOK' /\ workspace' \subseteq Runs /\ SlotsOK'
  <2> DEFINE r == slot[s].run
             row == [run[r] EXCEPT !.lease = "held"]
  <2>1. r \in Runs
    BY <1>9, AtWork DEF Heartbeat
  <2>2. CASE Claimed(r, s) /\ run[r].status \in Active
    <3>1. run' = [run EXCEPT ![r] = row] /\ UNCHANGED <<workspace, slot>>
      BY <1>9, <2>1, <2>2 DEF Heartbeat, RunsOK, Row
    <3>2. row \in Row /\ RowFits(row)
      BY <2>1, <2>2 DEF RunsOK, Row, RowFits, Active
    <3> QED
      BY <1>00, <2>1, <3>1, <3>2, PutRow
  <2>3. CASE ~(Claimed(r, s) /\ run[r].status \in Active)
    BY <1>0, <1>7, <1>9, <2>3 DEF Heartbeat
  <2> QED
    BY <2>2, <2>3
<1>10. ASSUME NEW s \in Slots, Clone(s) PROVE RunsOK' /\ workspace' \subseteq Runs /\ SlotsOK'
  BY <1>0, <1>10, AtWork, MoveSlot DEF Clone, Ends
<1>11. ASSUME NEW s \in Slots, Checkout(s) PROVE RunsOK' /\ workspace' \subseteq Runs /\ SlotsOK'
  <2> DEFINE e == [slot[s] EXCEPT !.pc = "record",
                                  !.metadata = [slot[s].metadata EXCEPT !.commit = slot[s].attempt]]
  <2>1. slot' = [slot EXCEPT ![s] = e]
    BY <1>11 DEF Checkout, SlotsOK, Slot, Metadata
  <2>2. e \in Slot /\ SlotFits(e)
    BY <1>11 DEF Checkout, SlotsOK, Slot, Metadata, SlotFits
  <2> QED
    BY <1>0, <1>11, <2>1, <2>2, PutSlot DEF Checkout
<1>12. ASSUME NEW s \in Slots, CheckoutFails(s) PROVE RunsOK' /\ workspace' \subseteq Runs /\ SlotsOK'
  BY <1>0, <1>12, AtWork, MoveSlot DEF CheckoutFails, Ends
<1>13. ASSUME NEW s \in Slots, Record(s) PROVE RunsOK' /\ workspace' \subseteq Runs /\ SlotsOK'
  <2> DEFINE r == slot[s].run
             row == [run[r] EXCEPT !.metadata = slot[s].metadata]
  <2>1. r \in Runs /\ r # NoRun /\ slot[s].metadata \in Metadata
    BY <1>13, AtWork DEF Record, Slot
  <2>2. run' = [run EXCEPT ![r] = row]
    BY <1>13, <2>1 DEF Record, RunsOK, Row
  <2>3. row \in Row /\ RowFits(row)
    BY <2>1 DEF RunsOK, Row, RowFits
  <2> QED
    BY <1>13, <2>1, <2>2, <2>3, PutRow, MoveSlot DEF Record
<1>14. ASSUME NEW s \in Slots, MarkPushing(s) PROVE RunsOK' /\ workspace' \subseteq Runs /\ SlotsOK'
  <2> DEFINE r == slot[s].run
             row == [run[r] EXCEPT !.status = "pushing"]
  <2>1. r \in Runs /\ r # NoRun
    BY <1>14, AtWork DEF MarkPushing
  <2>2. run' = [run EXCEPT ![r] = row]
    BY <1>14, <2>1 DEF MarkPushing, RunsOK, Row
  <2>3. row \in Row /\ RowFits(row)
    BY <1>14, <2>1 DEF MarkPushing, RunsOK, Row, RowFits, Active
  <2> QED
    BY <1>14, <2>1, <2>2, <2>3, PutRow, MoveSlot DEF MarkPushing
<1>15. ASSUME NEW s \in Slots, BuildDone(s) PROVE RunsOK' /\ workspace' \subseteq Runs /\ SlotsOK'
  <2>1. PICK artifact \in {slot[s].attempt, slot[s].metadata.artifact} :
          slot' = [slot EXCEPT ![s].pc = "record", ![s].metadata.artifact = artifact]
    BY <1>15 DEF BuildDone
  <2> DEFINE e == [slot[s] EXCEPT !.pc = "record",
                                  !.metadata = [slot[s].metadata EXCEPT !.artifact = artifact]]
  <2>2. slot' = [slot EXCEPT ![s] = e]
    BY <2>1 DEF SlotsOK, Slot, Metadata
  <2>3. artifact \in 0..MaxAttempts /\ slot[s].pc = "build"
    BY <1>15, AtWork DEF BuildDone, Slot, Metadata
  <2>4. e \in Slot /\ SlotFits(e)
    BY <2>3 DEF SlotsOK, Slot, Metadata, SlotFits
  <2> QED
    BY <1>0, <1>15, <2>2, <2>4, PutSlot DEF BuildDone
<1>16. ASSUME NEW s \in Slots, BuildTolerated(s) PROVE RunsOK' /\ workspace' \subseteq Runs /\ SlotsOK'
  BY <1>0, <1>16, AtWork, MoveSlot DEF BuildTolerated
<1>17. ASSUME NEW s \in Slots, GraphDone(s) \/ GraphFails(s)
       PROVE  RunsOK' /\ workspace' \subseteq Runs /\ SlotsOK'
  BY <1>0, <1>17, AtWork, MoveSlot DEF GraphDone, GraphFails, Ends
<1>18. ASSUME NEW s \in Slots, Complete(s) \/ Fail(s)
       PROVE  RunsOK' /\ workspace' \subseteq Runs /\ SlotsOK'
  BY <1>18, AtWork, DecidedType, LoopSlot DEF Complete, Fail
<1>19. ASSUME NEW s \in Slots, CompleteRaises(s) PROVE RunsOK' /\ workspace' \subseteq Runs /\ SlotsOK'
  BY <1>0, <1>19, AtWork, DecidedType, MoveSlot DEF CompleteRaises
<1>20. ASSUME NEW s \in Slots, Crash(s) PROVE RunsOK' /\ workspace' \subseteq Runs /\ SlotsOK'
  BY <1>0, <1>20, LoopSlot DEF Crash
<1>21. ASSUME UNCHANGED vars PROVE RunsOK' /\ workspace' \subseteq Runs /\ SlotsOK'
  BY <1>0, <1>00, <1>21 DEF vars
<1> QED
  BY <1>1, <1>2, <1>3, <1>4, <1>5, <1>6, <1>8, <1>9, <1>10, <1>11, <1>12, <1>13, <1>14, <1>15,
     <1>16, <1>17, <1>18, <1>19, <1>20, <1>21 DEF Next, Proceeds
-----------------------------------------------------------------------------
(* The inductive invariant                                                 *)

(* What a verdict leaves of the row of run r, field by field.              *)
LEMMA DecidedFields ==
  ASSUME TypeOK, NEW r \in Runs, NEW s \in Slots, NEW verdict \in {"succeeded", "failed"},
         run' = Decided(r, s, verdict), Claimed(r, s)
  PROVE  /\ \A q \in Runs : q # r => run'[q] = run[q]
         /\ run'[r].status = IF run[r].cancel_requested THEN "cancelled" ELSE verdict
         /\ run'[r].lease = "none" /\ run'[r].attempt = run[r].attempt
         /\ run'[r].worker_id = run[r].worker_id
         /\ run'[r].cancel_requested = run[r].cancel_requested
<1>1. run[r] \in Row
  BY DEF TypeOK
<1> DEFINE row == [run[r] EXCEPT !.status = IF run[r].cancel_requested THEN "cancelled" ELSE verdict,
                                 !.lease = "none", !.secrets = FALSE]
<1>2. run' = [run EXCEPT ![r] = row]
  BY <1>1 DEF Decided, TypeOK, Row
<1>3. /\ row.status = IF run[r].cancel_requested THEN "cancelled" ELSE verdict
      /\ row.lease = "none" /\ row.attempt = run[r].attempt
      /\ row.worker_id = run[r].worker_id /\ row.cancel_requested = run[r].cancel_requested
  BY <1>1 DEF Row
<1> HIDE DEF row
<1> QED
  BY <1>2, <1>3 DEF TypeOK

(* A verdict keeps what the invariant says of rows alone.                  *)
LEMMA DecidedInvariant ==
  ASSUME TypeOK, Room, Requested, CancelWins,
         NEW r \in Runs, NEW s \in Slots, NEW verdict \in {"succeeded", "failed"},
         run' = Decided(r, s, verdict)
  PROVE  Room' /\ Requested' /\ CancelWins'
<1>1. CASE ~Claimed(r, s)
  BY <1>1 DEF Decided, Room, Requested, CancelWins
<1>2. CASE Claimed(r, s)
  BY <1>2, DecidedFields DEF Room, Requested, CancelWins
<1> QED
  BY <1>1, <1>2

(* The bound on attempts, and the two facts about cancellations.           *)
LEMMA RowStep ==
  TypeOK /\ Room /\ Requested /\ CancelWins /\ [Next]_vars => Room' /\ Requested' /\ CancelWins'
<1> SUFFICES ASSUME TypeOK, Room, Requested, CancelWins, [Next]_vars
             PROVE  Room' /\ Requested' /\ CancelWins'
  OBVIOUS
<1> DEFINE Goal == Room' /\ Requested' /\ CancelWins'
<1>0. ASSUME UNCHANGED run PROVE Goal
  BY <1>0 DEF Room, Requested, CancelWins
<1>r. run \in [Runs -> Row]
  BY DEF TypeOK
<1>1. ASSUME NEW r \in Runs, Create(r) PROVE Goal
  BY <1>1, <1>r DEF Create, Room, Requested, CancelWins, Row
<1>2. ASSUME NEW r \in Runs, RequestCancel(r) PROVE Goal
  BY <1>2, <1>r DEF RequestCancel, Room, Requested, CancelWins, Row, Active
<1>3. ASSUME NEW r \in Runs, ExpireLease(r) PROVE Goal
  BY <1>3, <1>r DEF ExpireLease, Room, Requested, CancelWins, Row, Active
<1>4. ASSUME NEW s \in Slots, Recover(s) PROVE Goal
  BY <1>4, <1>r DEF Recover, Lost, Requeued, Room, Requested, CancelWins, Row, Active
<1>5. ASSUME NEW s \in Slots, NEW r \in Runs, Claim(s, r) PROVE Goal
  BY <1>5, <1>r DEF Claim, Room, Requested, CancelWins, Row
<1>6. ASSUME NEW s \in Slots, Heartbeat(s) PROVE Goal
  BY <1>0, <1>6, <1>r DEF Heartbeat, Room, Requested, CancelWins, Row, Active
<1>7. ASSUME NEW s \in Slots, Record(s) PROVE Goal
  BY <1>7, <1>r DEF Record, Room, Requested, CancelWins, Row
<1>8. ASSUME NEW s \in Slots, MarkPushing(s) PROVE Goal
  BY <1>8, <1>r DEF MarkPushing, Room, Requested, CancelWins, Row
<1>9. ASSUME NEW s \in Slots, Complete(s) \/ Fail(s) \/ CompleteRaises(s) PROVE Goal
  <2>1. slot[s].run \in Runs
    BY <1>9, AtWork, TypeParts DEF Complete, Fail, CompleteRaises
  <2> QED
    BY <1>0, <1>9, <2>1, DecidedInvariant DEF Complete, Fail, CompleteRaises
<1>10. ASSUME NEW s \in Slots,
              \/ Sleep(s) \/ PollCancellation(s) \/ Clone(s) \/ Checkout(s) \/ CheckoutFails(s) \/ BuildDone(s)
              \/ BuildTolerated(s) \/ GraphDone(s) \/ GraphFails(s) \/ Crash(s)
       PROVE  Goal
  BY <1>0, <1>10 DEF Sleep, PollCancellation, Clone, Checkout, CheckoutFails, BuildDone, BuildTolerated,
     GraphDone, GraphFails, Crash
<1>11. ASSUME UNCHANGED vars PROVE Goal
  BY <1>0, <1>11 DEF vars
<1> HIDE DEF Goal
<1>12. Goal
  BY <1>1, <1>2, <1>3, <1>4, <1>5, <1>6, <1>7, <1>8, <1>9, <1>10, <1>11 DEF Next, Proceeds
<1> QED
  BY <1>12 DEF Goal

(* The slot that a row names is at work on the latest attempt, and does    *)
(* not outlive its verdict except to fail.                                 *)
LEMMA SlotStep == Inductive /\ [Next]_vars => Current' /\ Finished'
<1> SUFFICES ASSUME Inductive, [Next]_vars,
                    NEW t \in Slots, NEW q \in Runs, Executes(t, q)'
             PROVE  /\ slot'[t].attempt = run'[q].attempt
                    /\ run'[q].status \in Terminal =>
                         slot'[t].pc = "fail" /\ run'[q].status \in {"succeeded", "cancelled"}
  BY DEF Current, Finished
<1> DEFINE Goal == /\ slot'[t].attempt = run'[q].attempt
                   /\ run'[q].status \in Terminal =>
                        slot'[t].pc = "fail" /\ run'[q].status \in {"succeeded", "cancelled"}
<1>r. run \in [Runs -> Row] /\ slot \in [Slots -> Slot] /\ run[q] \in Row /\ slot[t] \in Slot /\ q # NoRun
  BY NameAssumption DEF Inductive, TypeOK
<1>e. slot'[t].run = q /\ run'[q].worker_id = t
  BY DEF Executes, Claimed
<1>i. slot[t].run = q /\ run[q].worker_id = t =>
        /\ slot[t].attempt = run[q].attempt
        /\ run[q].status \in Terminal => slot[t].pc = "fail" /\ run[q].status \in {"succeeded", "cancelled"}
  BY DEF Inductive, Current, Finished, Executes, Claimed
<1>w. SlotsOK
  BY TypeParts DEF Inductive
<1>n. run[q].status \in {"absent", "queued"} => run[q].worker_id # t
  BY NameAssumption DEF Inductive, TypeOK
<1>1. ASSUME NEW r \in Runs, Create(r) PROVE Goal
  BY <1>1, <1>r, <1>e, <1>i, <1>n DEF Create, Row
<1>2. ASSUME NEW r \in Runs, RequestCancel(r) PROVE Goal
  BY <1>2, <1>r, <1>e, <1>i, <1>n DEF RequestCancel, Row, Active, Terminal
<1>3. ASSUME NEW r \in Runs, ExpireLease(r) PROVE Goal
  BY <1>3, <1>r, <1>e, <1>i DEF ExpireLease, Row
<1>4. ASSUME NEW s \in Slots, Recover(s) PROVE Goal
  BY <1>4, <1>r, <1>e, <1>i, NameAssumption DEF Recover, Lost, Requeued, Goes, Row, Slot
<1>5. ASSUME NEW s \in Slots, NEW r \in Runs, Claim(s, r) PROVE Goal
  BY <1>5, <1>r, <1>e, <1>i DEF Claim, Row, Slot, Terminal
<1>6. ASSUME NEW s \in Slots, Heartbeat(s) PROVE Goal
  <2>1. slot'[t].run = slot[t].run /\ slot'[t].attempt = slot[t].attempt /\ slot'[t].pc = slot[t].pc
    BY <1>6, <1>r DEF Heartbeat, Slot
  <2>2. /\ run'[q].status = run[q].status /\ run'[q].attempt = run[q].attempt
        /\ run'[q].worker_id = run[q].worker_id
    BY <1>6, <1>r, <1>w, AtWork DEF Heartbeat, Row
  <2> QED
    BY <1>e, <1>i, <2>1, <2>2
<1>7. ASSUME NEW s \in Slots, Record(s) PROVE Goal
  BY <1>7, <1>r, <1>e, <1>i DEF Record, Goes, Row, Slot
<1>8. ASSUME NEW s \in Slots, MarkPushing(s) PROVE Goal
  BY <1>8, <1>r, <1>e, <1>i DEF MarkPushing, Goes, Row, Slot, Terminal
<1>9. ASSUME NEW s \in Slots, Complete(s) \/ Fail(s) PROVE Goal
  <2>1. slot[s].run \in Runs /\ slot' = [slot EXCEPT ![s] = Looping]
    BY <1>9, <1>w, AtWork DEF Complete, Fail
  <2>2. t # s /\ slot'[t] = slot[t]
    BY <1>r, <1>e, <2>1 DEF Looping
  <2>3. run' = run \/ Claimed(slot[s].run, s)
    BY <1>9 DEF Complete, Fail, Decided
  <2>4. Claimed(slot[s].run, s) => run'[slot[s].run].worker_id = s /\ (slot[s].run # q => run'[q] = run[q])
    BY <1>9, <2>1, DecidedFields DEF Complete, Fail, Inductive, Claimed
  <2> QED
    BY <1>r, <1>e, <1>i, <2>2, <2>3, <2>4
<1>10. ASSUME NEW s \in Slots, CompleteRaises(s) PROVE Goal
  <2>1. slot[s].run \in Runs /\ slot[s].pc = "succeed"
    BY <1>10, <1>w, AtWork DEF CompleteRaises
  <2>2. /\ slot'[t].run = slot[t].run /\ slot'[t].attempt = slot[t].attempt
        /\ t # s => slot'[t] = slot[t]
        /\ slot'[s].pc = "fail"
    BY <1>10, <1>r DEF CompleteRaises, Goes, Slot
  <2>3. CASE run' = run
    BY <1>r, <1>e, <1>i, <2>1, <2>2, <2>3
  <2>4. CASE run' = Decided(slot[s].run, s, "succeeded") /\ run' # run
    <3>1. Claimed(slot[s].run, s)
      BY <2>4 DEF Decided
    <3>2. CASE slot[s].run # q
      BY <1>r, <1>e, <1>i, <2>1, <2>2, <2>4, <3>1, <3>2, DecidedFields DEF Inductive
    <3>3. CASE slot[s].run = q
      <4>1. /\ run'[q].status \in {"succeeded", "cancelled"} /\ run'[q].attempt = run[q].attempt
            /\ run'[q].worker_id = run[q].worker_id
        BY <2>1, <2>4, <3>1, <3>3, DecidedFields DEF Inductive
      <4>2. t = s
        BY <1>e, <3>1, <3>3, <4>1 DEF Claimed
      <4> QED
        BY <1>e, <1>i, <2>2, <4>1, <4>2
    <3> QED
      BY <3>2, <3>3
  <2> QED
    BY <1>10, <2>3, <2>4 DEF CompleteRaises
<1>11. ASSUME NEW s \in Slots, Crash(s) PROVE Goal
  BY <1>11, <1>r, <1>e, <1>i DEF Crash, Looping
<1>12. ASSUME NEW s \in Slots, Sleep(s) \/ PollCancellation(s) PROVE Goal
  BY <1>12, <1>r, <1>e, <1>i, <1>w, AtWork DEF Sleep, PollCancellation, Goes, Slot
<1>13. ASSUME NEW s \in Slots, Clone(s) \/ CheckoutFails(s) \/ BuildTolerated(s) \/ GraphDone(s) \/ GraphFails(s)
       PROVE  Goal
  <2>1. /\ UNCHANGED run /\ slot[s].pc # "fail"
        /\ \E pc \in {"checkout", "graph", "succeed", "fail"} : Goes(s, pc)
    BY <1>13 DEF Clone, CheckoutFails, BuildTolerated, GraphDone, GraphFails, Ends
  <2> QED
    BY <1>r, <1>e, <1>i, <2>1 DEF Goes, Slot
<1>14. ASSUME NEW s \in Slots, Checkout(s) \/ BuildDone(s) PROVE Goal
  <2>1. /\ UNCHANGED run /\ slot[s].pc # "fail"
        /\ t # s => slot'[t] = slot[t]
        /\ slot'[t].run = slot[t].run /\ slot'[t].attempt = slot[t].attempt
    BY <1>14, <1>r DEF Checkout, BuildDone, Slot
  <2> QED
    BY <1>r, <1>e, <1>i, <2>1
<1>15. ASSUME UNCHANGED vars PROVE Goal
  BY <1>15, <1>e, <1>i DEF vars
<1> HIDE DEF Goal
<1>16. Goal
  BY <1>1, <1>2, <1>3, <1>4, <1>5, <1>6, <1>7, <1>8, <1>9, <1>10, <1>11, <1>12, <1>13, <1>14, <1>15
     DEF Next, Proceeds
<1> QED
  BY <1>16 DEF Goal

-----------------------------------------------------------------------------
(* The theorems                                                            *)

LEMMA InductiveStep == Inductive /\ [Next]_vars => Inductive'
BY TypeStep, RowStep, SlotStep DEF Inductive

LEMMA Invariance == Spec => []Inductive
BY InitInductive, InductiveStep, PTL DEF Spec

(* Every row of builder_runs, every slot and the workspaces keep their     *)
(* types, and a lease runs exactly while a run is claimed.                 *)
THEOREM TypeCorrectness == Spec => []TypeOK
<1>1. Inductive => TypeOK
  BY DEF Inductive
<1> QED
  BY <1>1, Invariance, PTL

(* A cancellation that requestCancel accepted is never overtaken by the    *)
(* verdict of an attempt.                                                  *)
THEOREM CancellationWins == Spec => []CancelWins
<1>1. Inductive => CancelWins
  BY DEF Inductive
<1> QED
  BY <1>1, Invariance, PTL

(* The ways in which the status of a run changes: between the statuses of  *)
(* an open run, by the cancellation of a queued run, or by a verdict of    *)
(* the slot that the row names.                                            *)
LEMMA StatusChanges ==
  ASSUME Inductive, [Next]_vars, NEW q \in Runs
  PROVE  \/ run'[q].status = run[q].status
         \/ run[q].status \notin Terminal /\ run'[q].status \notin Terminal
         \/ run[q].status = "queued" /\ run'[q].status = "cancelled"
         \/ \E s \in Slots, verdict \in {"succeeded", "failed"} :
              /\ Executes(s, q) /\ slot[s].pc \in {"succeed", "fail"} /\ slot'[s].pc # slot[s].pc
              /\ verdict = "failed" <=> slot[s].pc = "fail"
              /\ run'[q].status = IF run[q].cancel_requested THEN "cancelled" ELSE verdict
<1> DEFINE Goal == \/ run'[q].status = run[q].status
                   \/ run[q].status \notin Terminal /\ run'[q].status \notin Terminal
                   \/ run[q].status = "queued" /\ run'[q].status = "cancelled"
                   \/ \E s \in Slots, verdict \in {"succeeded", "failed"} :
                        /\ Executes(s, q) /\ slot[s].pc \in {"succeed", "fail"} /\ slot'[s].pc # slot[s].pc
                        /\ verdict = "failed" <=> slot[s].pc = "fail"
                        /\ run'[q].status = IF run[q].cancel_requested THEN "cancelled" ELSE verdict
<1>r. run \in [Runs -> Row] /\ slot \in [Slots -> Slot] /\ run[q] \in Row /\ TypeOK
  BY DEF Inductive, TypeOK
<1>w. SlotsOK
  BY TypeParts DEF Inductive
<1>1. ASSUME NEW r \in Runs, Create(r) PROVE Goal
  BY <1>1, <1>r DEF Create, Row, Terminal
<1>2. ASSUME NEW r \in Runs, RequestCancel(r) PROVE Goal
  BY <1>2, <1>r DEF RequestCancel, Row
<1>3. ASSUME NEW r \in Runs, ExpireLease(r) PROVE Goal
  BY <1>3, <1>r DEF ExpireLease, Row
<1>4. ASSUME NEW s \in Slots, Recover(s) PROVE Goal
  BY <1>4, <1>r DEF Recover, Lost, Requeued, Row, Active, Terminal
<1>5. ASSUME NEW s \in Slots, NEW r \in Runs, Claim(s, r) PROVE Goal
  BY <1>5, <1>r DEF Claim, Queued, Row, Terminal
<1>6. ASSUME NEW s \in Slots, Heartbeat(s) PROVE Goal
  BY <1>6, <1>r, <1>w, AtWork DEF Heartbeat, Row
<1>7. ASSUME NEW s \in Slots, Record(s) PROVE Goal
  BY <1>7, <1>r DEF Record, Row
<1>8. ASSUME NEW s \in Slots, MarkPushing(s) PROVE Goal
  BY <1>8, <1>r DEF MarkPushing, Row, Terminal
<1>9. ASSUME NEW s \in Slots, NEW verdict \in {"succeeded", "failed"},
             run' = Decided(slot[s].run, s, verdict), slot[s].pc \in {"succeed", "fail"},
             verdict = "failed" <=> slot[s].pc = "fail", slot'[s].pc # slot[s].pc
      PROVE  Goal
  <2>1. slot[s].run \in Runs
    BY <1>9, <1>w, AtWork
  <2>2. CASE ~Claimed(slot[s].run, s)
    BY <1>9, <2>2 DEF Decided
  <2>3. CASE Claimed(slot[s].run, s) /\ slot[s].run # q
    BY <1>9, <1>r, <2>1, <2>3, DecidedFields
  <2>4. CASE Claimed(slot[s].run, s) /\ slot[s].run = q
    <3>1. run'[q].status = IF run[q].cancel_requested THEN "cancelled" ELSE verdict
      BY <1>9, <1>r, <2>1, <2>4, DecidedFields
    <3> QED
      BY <1>9, <2>4, <3>1 DEF Executes
  <2> QED
    BY <2>2, <2>3, <2>4
<1>10. ASSUME NEW s \in Slots, Complete(s) \/ Fail(s) \/ CompleteRaises(s) PROVE Goal
  <2>1. slot[s].pc \in {"succeed", "fail"} /\ slot'[s].pc # slot[s].pc
    BY <1>10, <1>r DEF Complete, Fail, CompleteRaises, Looping, Goes, Slot
  <2>2. CASE run' = run
    BY <2>2
  <2>3. CASE slot[s].pc = "succeed" /\ run' # run
    <3>1. run' = Decided(slot[s].run, s, "succeeded")
      BY <1>10, <2>3 DEF Complete, Fail, CompleteRaises
    <3> QED
      BY <1>9, <2>1, <2>3, <3>1
  <2>4. CASE slot[s].pc = "fail"
    <3>1. run' = Decided(slot[s].run, s, "failed")
      BY <1>10, <2>4 DEF Complete, Fail, CompleteRaises
    <3> QED
      BY <1>9, <2>1, <2>4, <3>1
  <2> QED
    BY <2>1, <2>2, <2>3, <2>4
<1>11. ASSUME NEW s \in Slots,
              \/ Sleep(s) \/ PollCancellation(s) \/ Clone(s) \/ Checkout(s) \/ CheckoutFails(s) \/ BuildDone(s)
              \/ BuildTolerated(s) \/ GraphDone(s) \/ GraphFails(s) \/ Crash(s)
       PROVE  Goal
  <2>1. UNCHANGED run
    BY <1>11 DEF Sleep, PollCancellation, Clone, Checkout, CheckoutFails, BuildDone, BuildTolerated,
       GraphDone, GraphFails, Crash
  <2> QED
    BY <2>1
<1>12. ASSUME UNCHANGED vars PROVE Goal
  BY <1>12 DEF vars
<1> HIDE DEF Goal
<1>13. Goal
  BY <1>1, <1>2, <1>3, <1>4, <1>5, <1>6, <1>7, <1>8, <1>10, <1>11, <1>12 DEF Next, Proceeds
<1> QED
  BY <1>13 DEF Goal

(* The verdict of a run is written by its latest attempt, however many     *)
(* slots lost its lease before and are still at work on it.                *)
THEOREM VerdictsFenced == Spec => FencedVerdict
<1> DEFINE A == \A r \in Runs :
                  run[r].status \notin Terminal /\ run'[r].status \in Terminal =>
                    \/ run[r].status = "queued" /\ run'[r].status = "cancelled"
                    \/ \E s \in Slots : /\ slot[s].run = r /\ slot[s].attempt = run[r].attempt
                                        /\ slot'[s].pc # slot[s].pc
<1>1. Inductive /\ [Next]_vars => [A]_vars
  <2> SUFFICES ASSUME Inductive, [Next]_vars, NEW r \in Runs,
                      run[r].status \notin Terminal, run'[r].status \in Terminal
               PROVE  \/ run[r].status = "queued" /\ run'[r].status = "cancelled"
                      \/ \E s \in Slots : /\ slot[s].run = r /\ slot[s].attempt = run[r].attempt
                                          /\ slot'[s].pc # slot[s].pc
    OBVIOUS
  <2>1. \A s \in Slots : Executes(s, r) => slot[s].run = r /\ slot[s].attempt = run[r].attempt
    BY DEF Inductive, Current, Executes
  <2> QED
    BY <2>1, StatusChanges
<1> QED
  BY <1>1, Invariance, PTL DEF Spec, FencedVerdict

(* A decided run keeps its verdict; only a success whose statement raised  *)
(* in the worker becomes a failure.                                        *)
THEOREM VerdictsStay == Spec => TerminalStays
<1> DEFINE A == \A r \in Runs :
                  run[r].status \in Terminal /\ run'[r].status # run[r].status =>
                    run[r].status = "succeeded" /\ run'[r].status = "failed"
<1>1. Inductive /\ [Next]_vars => [A]_vars
  <2> SUFFICES ASSUME Inductive, [Next]_vars, NEW r \in Runs,
                      run[r].status \in Terminal, run'[r].status # run[r].status
               PROVE  run[r].status = "succeeded" /\ run'[r].status = "failed"
    OBVIOUS
  <2>1. run[r].status # "queued"
    BY DEF Terminal
  <2>2. PICK s \in Slots, verdict \in {"succeeded", "failed"} :
          /\ Executes(s, r)
          /\ verdict = "failed" <=> slot[s].pc = "fail"
          /\ run'[r].status = IF run[r].cancel_requested THEN "cancelled" ELSE verdict
    BY <2>1, StatusChanges
  <2>3. slot[s].pc = "fail" /\ run[r].status \in {"succeeded", "cancelled"}
    BY <2>2 DEF Inductive, Finished
  <2>4. run[r].status = "cancelled" => run[r].cancel_requested
    BY DEF Inductive, Requested
  <2>5. run[r].status = "succeeded" => ~run[r].cancel_requested
    BY DEF Inductive, CancelWins
  <2> QED
    BY <2>2, <2>3, <2>4, <2>5
<1> QED
  BY <1>1, Invariance, PTL DEF Spec, TerminalStays
=============================================================================
