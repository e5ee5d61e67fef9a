--------------------------- MODULE ReconcilerProofs ---------------------------
(***************************************************************************)
(* Proofs about Reconciler, for any number of replicas, slots and calls,   *)
(* and any value of the limits.                                            *)
(***************************************************************************)
EXTENDS Reconciler, SetInduction, FiniteSetTheorems, TLAPS

-----------------------------------------------------------------------------
(* The inductive invariants                                                *)

(* A placement has something to place.                                     *)
Missing == \A s \in Sessions : At(s, "place") => session[s].missing >= 1

(* Rows of lost nodes stay desired only if a volume pins them.             *)
LostPinned == Persistent \/ \A w \in Wanted : workloads[w].actual # "lost"

Base == TypeOK /\ IsFiniteSet(Wanted) /\ Missing /\ LostPinned

(* One call at a time works under the lease, and its lease is not over.    *)
UnderLease ==
  \A s \in Sessions :
    /\ session[s].holds => lease.holder = s /\ lease.left > 0
    /\ session[s].pc \in {"read", "decide", "place", "release"} => session[s].holds

(* A pass that places has room for all that it found to be missing.        *)
RoomLeft ==
  \A s \in Sessions : At(s, "place") => Cardinality(Wanted) + session[s].missing <= Replicas

(* The attempts that are recorded pay for the replacements there were, and *)
(* one more attempt for those of the pass that is placing.                 *)
Budgeted ==
  /\ deployment.attempts <= MaxRecovery
  /\ replaced <= Replicas * deployment.attempts
  /\ \A s \in Sessions :
       /\ At(s, "decide") => session[s].snap.attempts = deployment.attempts
       /\ At(s, "place") /\ session[s].replaces =>
            replaced + session[s].missing <= Replicas * (session[s].snap.attempts + 1)

(* Recovery is given up while a replica is missing, and by the one call    *)
(* that could still place it.                                              *)
Manual ==
  /\ \A s \in Sessions :
       /\ At(s, "decide") => session[s].snap.recovery = deployment.recovery
       /\ At(s, "place") /\ deployment.recovery = "manual_intervention" =>
            session[s].snap.recovery = "manual_intervention"
  /\ deployment.recovery = "manual_intervention" => Cardinality(Wanted) < Replicas

Leased == Base /\ UnderLease /\ RoomLeft /\ ReplicaBound /\ Budgeted /\ Manual

(* Where no user asks for anything, nobody is about to stop a workload     *)
(* that has volumes.                                                       *)
Unasked ==
  Persistent /\ Requests = {} =>
    /\ deployment.desired = "running"
    /\ \A s \in Sessions : /\ ~At(s, "restart") /\ session[s].todo = {}
                           /\ At(s, "decide") => session[s].snap.desired = "running"

-----------------------------------------------------------------------------
(* The backoff                                                             *)

PowersUpTo(n, g) == g = [k \in 0..n |-> IF k = 0 THEN 1 ELSE 2 * g[k - 1]]

(* There are powers up to any number...                                    *)
LEMMA PowersExist == \A n \in Nat : \E g : PowersUpTo(n, g)
<1> DEFINE G == {n \in Nat : \E g : PowersUpTo(n, g)}
<1>1. 0 \in G
  <2>1. PowersUpTo(0, [k \in 0..0 |-> 1])
    BY DEF PowersUpTo
  <2> QED
    BY <2>1
<1>2. ASSUME NEW n \in Nat, n \in G PROVE n + 1 \in G
  <2>1. PICK g : PowersUpTo(n, g)
    BY <1>2
  <2> DEFINE h == [k \in 0..(n + 1) |-> IF k = n + 1 THEN 2 * g[n] ELSE g[k]]
  <2>2. ASSUME NEW k \in 0..(n + 1) PROVE h[k] = IF k = 0 THEN 1 ELSE 2 * h[k - 1]
    <3>1. CASE k = n + 1
      BY <3>1
    <3>2. CASE k # n + 1
      <4>1. k \in 0..n /\ (k # 0 => k - 1 \in 0..n)
        BY <3>2
      <4>2. g[k] = IF k = 0 THEN 1 ELSE 2 * g[k - 1]
        BY <2>1, <4>1 DEF PowersUpTo
      <4> QED
        BY <3>2, <4>1, <4>2
    <3> QED
      BY <3>1, <3>2
  <2>3. h = [k \in 0..(n + 1) |-> h[k]]
    OBVIOUS
  <2> HIDE DEF h
  <2>4. PowersUpTo(n + 1, h)
    BY <2>2, <2>3 DEF PowersUpTo
  <2> QED
    BY <2>4
<1> HIDE DEF G
<1>3. Nat \subseteq G
  BY <1>1, <1>2, CountingUp
<1> QED
  BY <1>3 DEF G

(* ... and they agree.                                                     *)
LEMMA PowersAgree ==
  ASSUME NEW n \in Nat, NEW m \in Nat, NEW g, NEW h, PowersUpTo(n, g), PowersUpTo(m, h)
  PROVE  \A k \in Nat : k <= n /\ k <= m => g[k] = h[k]
<1> DEFINE G == {k \in Nat : k <= n /\ k <= m => g[k] = h[k]}
<1>1. 0 \in G
  BY DEF PowersUpTo
<1>2. ASSUME NEW k \in Nat, k \in G PROVE k + 1 \in G
  <2> SUFFICES ASSUME k + 1 <= n, k + 1 <= m PROVE g[k + 1] = h[k + 1]
    OBVIOUS
  <2>1. g[k] = h[k] /\ k + 1 \in 0..n /\ k + 1 \in 0..m /\ (k + 1) - 1 = k /\ k + 1 # 0
    BY <1>2
  <2> QED
    BY <2>1 DEF PowersUpTo
<1> HIDE DEF G
<1>3. Nat \subseteq G
  BY <1>1, <1>2, CountingUp
<1> QED
  BY <1>3 DEF G

(* The powers of two are positive.                                         *)
LEMMA DoubledType == \A n \in Nat : Doubled[n] \in Nat \ {0}
<1> DEFINE Up(k) == CHOOSE g : PowersUpTo(k, g)
           f == [k \in Nat |-> Up(k)[k]]
<1>1. ASSUME NEW k \in Nat PROVE PowersUpTo(k, Up(k))
  BY PowersExist
<1>2. ASSUME NEW k \in Nat PROVE f[k] = IF k = 0 THEN 1 ELSE 2 * f[k - 1]
  <2>1. PowersUpTo(k, Up(k))
    BY <1>1
  <2>2. Up(k)[k] = IF k = 0 THEN 1 ELSE 2 * Up(k)[k - 1]
    <3> HIDE DEF Up
    <3>1. k \in 0..k
      OBVIOUS
    <3> QED
      BY <2>1, <3>1 DEF PowersUpTo
  <2>3. ASSUME k # 0 PROVE Up(k)[k - 1] = Up(k - 1)[k - 1]
    <3>1. k - 1 \in Nat /\ k - 1 <= k
      BY <2>3
    <3>2. PowersUpTo(k - 1, Up(k - 1))
      BY <1>1, <3>1
    <3> HIDE DEF Up
    <3> QED
      BY <2>1, <3>1, <3>2, PowersAgree
  <2>4. k # 0 => f[k - 1] = Up(k - 1)[k - 1]
    OBVIOUS
  <2> HIDE DEF Up
  <2> QED
    BY <2>2, <2>3, <2>4
<1>3. f = [k \in Nat |-> IF k = 0 THEN 1 ELSE 2 * f[k - 1]]
  <2>1. f = [k \in Nat |-> f[k]]
    OBVIOUS
  <2> HIDE DEF f
  <2> QED
    BY <1>2, <2>1
<1>4. Doubled = [k \in Nat |-> IF k = 0 THEN 1 ELSE 2 * Doubled[k - 1]]
  <2>1. \E g : g = [k \in Nat |-> IF k = 0 THEN 1 ELSE 2 * g[k - 1]]
    BY <1>3
  <2> QED
    BY <2>1, Zenon DEF Doubled
<1> DEFINE G == {n \in Nat : Doubled[n] \in Nat \ {0}}
<1>5. 0 \in G
  BY <1>4
<1>6. ASSUME NEW n \in Nat, n \in G PROVE n + 1 \in G
  <2>1. Doubled[n + 1] = 2 * Doubled[n]
    BY <1>4
  <2> QED
    BY <1>6, <2>1
<1> HIDE DEF G
<1>7. Nat \subseteq G
  BY <1>5, <1>6, CountingUp
<1> QED
  BY <1>7 DEF G

LEMMA BackoffType == ASSUME NEW attempt \in Nat, attempt >= 1 PROVE Backoff(attempt) \in Nat
BY DoubledType, LimitAssumption DEF Backoff

-----------------------------------------------------------------------------
(* What the steps do to the calls                                          *)

Points == {"idle", "restart", "claim", "read", "decide", "stop", "place", "refresh", "derive", "write", "release"}

(* Nobody acts on anything at these.                                       *)
Quiet == Points \ {"read", "decide", "place"}

(* But for its share of the time and of the rows still to stop, a call is  *)
(* where it was.                                                           *)
Keeps(t) ==
  /\ session'[t].pc = session[t].pc /\ session'[t].holds = session[t].holds
  /\ session'[t].missing = session[t].missing /\ session'[t].replaces = session[t].replaces
  /\ session'[t].snap.attempts = session[t].snap.attempts
  /\ session'[t].snap.recovery = session[t].snap.recovery
  /\ session'[t].snap.desired = session[t].snap.desired
  /\ session'[t].todo \subseteq session[t].todo

OthersKeep(s) == \A t \in Sessions \ {s} : Keeps(t)

(* A call goes to where it neither decides nor places...                   *)
Leaves(s) ==
  /\ session'[s].pc \in Quiet
  /\ session'[s].holds => session[s].holds
  /\ session'[s].pc = "release" =>
       session'[s].holds = session[s].holds /\ (session[s].holds \/ session[s].pc \in {"decide", "place"})
  /\ session'[s].pc = "restart" => s \in Requests
  /\ \/ session'[s].todo \subseteq session[s].todo
     \/ ReadForRestart(s) \/ DecideStop(s) \/ DecideRetire(s)

(* ... takes the lease, reads the deployment, counts what is missing, or   *)
(* goes on to place another workload.                                      *)
Begins(s) ==
  /\ lease.left = 0 /\ lease'.holder = s /\ lease'.left = LeaseTime
  /\ session'[s].pc = "read" /\ session'[s].holds /\ session'[s].todo = {}

Reads(s) ==
  /\ session[s].pc = "read" /\ session'[s].pc = "decide"
  /\ session'[s].holds = session[s].holds /\ session'[s].todo = session[s].todo
  /\ session'[s].snap.attempts = deployment.attempts
  /\ session'[s].snap.recovery = deployment.recovery
  /\ session'[s].snap.desired = deployment.desired
  /\ UNCHANGED <<deployment, workloads, replaced>>

Counts(s) ==
  /\ DecidePlace(s) /\ session'[s].pc = "place"
  /\ session'[s].holds = session[s].holds /\ session'[s].todo = session[s].todo
  /\ session'[s].snap = session[s].snap
  /\ session'[s].missing = Replicas - Cardinality(ActiveRows)

GoesOn(s) ==
  /\ \E w \in Slots : Place(s, w)
  /\ session'[s].pc = "place" /\ session'[s].snap = session[s].snap
  /\ session'[s].holds = session[s].holds /\ session'[s].todo = session[s].todo
  /\ session'[s].replaces = session[s].replaces
  /\ session[s].missing # 1 /\ session'[s].missing = session[s].missing - 1

Moves(s) == OthersKeep(s) /\ (Leaves(s) \/ Begins(s) \/ Reads(s) \/ Counts(s) \/ GoesOn(s))

LEMMA IdleType ==
  /\ Idle \in Session /\ NoDeployment \in Deployment
  /\ Idle.pc = "idle" /\ Idle.holds = FALSE /\ Idle.todo = {}
BY DEF Idle, NoDeployment, Session, Deployment, Statuses

LEMMA SameKeeps ==
  ASSUME NEW t, session'[t] = session[t]
  PROVE  Keeps(t)
BY DEF Keeps

LEMMA PutKeeps ==
  ASSUME session \in [Sessions -> Session], NEW s \in Sessions, NEW row \in Session,
         session' = [session EXCEPT ![s] = row]
  PROVE  session' \in [Sessions -> Session] /\ session'[s] = row /\ OthersKeep(s)
BY SameKeeps DEF OthersKeep

LEMMA GotoIs ==
  ASSUME session \in [Sessions -> Session], NEW s \in Sessions, NEW pc \in Points, Goto(s, pc)
  PROVE  /\ session' \in [Sessions -> Session] /\ OthersKeep(s)
         /\ session'[s].pc = pc /\ session'[s].holds = session[s].holds /\ session'[s].todo = {}
<1>1. PICK holds \in BOOLEAN : holds = session[s].holds
  BY DEF Session
<1> DEFINE row == [Idle EXCEPT !.pc = pc, !.holds = holds]
<1>2. row \in Session /\ row.pc = pc /\ row.holds = holds /\ row.todo = {}
  BY DEF Idle, NoDeployment, Session, Deployment, Statuses, Points
<1>3. session' = [session EXCEPT ![s] = row]
  BY <1>1 DEF Goto
<1> HIDE DEF row
<1> QED
  BY <1>1, <1>2, <1>3, PutKeeps

LEMMA StopAllIs ==
  ASSUME session \in [Sessions -> Session], NEW s \in Sessions, NEW W \in SUBSET Slots, StopAll(s, W)
  PROVE  /\ session' \in [Sessions -> Session] /\ OthersKeep(s)
         /\ session'[s].pc = "stop" /\ session'[s].holds = session[s].holds /\ session'[s].todo = W
<1>1. PICK holds \in BOOLEAN : holds = session[s].holds
  BY DEF Session
<1> DEFINE row == [Idle EXCEPT !.pc = "stop", !.holds = holds, !.todo = W]
<1>2. row \in Session /\ row.pc = "stop" /\ row.holds = holds /\ row.todo = W
  BY DEF Idle, NoDeployment, Session, Deployment, Statuses, Points
<1>3. session' = [session EXCEPT ![s] = row]
  BY <1>1 DEF StopAll
<1> HIDE DEF row
<1> QED
  BY <1>1, <1>2, <1>3, PutKeeps

LEMMA AfterPassIs ==
  ASSUME NEW s \in Sessions
  PROVE  /\ AfterPass(s) \in Session /\ AfterPass(s).pc \in {"idle", "refresh"}
         /\ AfterPass(s).holds = FALSE /\ AfterPass(s).todo = {}
<1> DEFINE row == [Idle EXCEPT !.pc = "refresh"]
<1>2. row \in Session /\ row.pc = "refresh" /\ row.holds = FALSE /\ row.todo = {}
  BY DEF Idle, NoDeployment, Session, Deployment, Statuses, Points
<1>3. AfterPass(s) = row \/ AfterPass(s) = Idle
  BY DEF AfterPass
<1> HIDE DEF row
<1> QED
  BY <1>2, <1>3, IdleType

LEMMA WithoutIs ==
  ASSUME session \in [Sessions -> Session], NEW w
  PROVE  /\ SessionsWithout(w) \in [Sessions -> Session]
         /\ \A t \in Sessions :
              /\ SessionsWithout(w)[t].pc = session[t].pc /\ SessionsWithout(w)[t].holds = session[t].holds
              /\ SessionsWithout(w)[t].missing = session[t].missing
              /\ SessionsWithout(w)[t].replaces = session[t].replaces
              /\ SessionsWithout(w)[t].snap = session[t].snap
              /\ SessionsWithout(w)[t].todo = session[t].todo \ {w}
<1> SUFFICES ASSUME NEW t \in Sessions
             PROVE  /\ SessionsWithout(w)[t] \in Session
                    /\ SessionsWithout(w)[t].pc = session[t].pc /\ SessionsWithout(w)[t].holds = session[t].holds
                    /\ SessionsWithout(w)[t].missing = session[t].missing
                    /\ SessionsWithout(w)[t].replaces = session[t].replaces
                    /\ SessionsWithout(w)[t].snap = session[t].snap
                    /\ SessionsWithout(w)[t].todo = session[t].todo \ {w}
  BY DEF SessionsWithout
<1>1. SessionsWithout(w)[t] = [session[t] EXCEPT !.todo = session[t].todo \ {w}]
  BY DEF SessionsWithout
<1>2. session[t] \in Session /\ session[t].todo \ {w} \in SUBSET Slots
  BY DEF Session
<1> QED
  BY <1>1, <1>2 DEF Session

LEMMA TickIs ==
  ASSUME TypeOK, Tick
  PROVE  session' \in [Sessions -> Session] /\ \A t \in Sessions : Keeps(t)
<1> SUFFICES ASSUME NEW t \in Sessions PROVE session'[t] \in Session /\ Keeps(t)
  BY DEF Tick
<1>1. session'[t] = [session[t] EXCEPT !.snap.wait = Less(session[t].snap.wait)]
  BY DEF Tick
<1>2. session[t] \in Session /\ Less(session[t].snap.wait) \in Nat
  BY DEF TypeOK, Session, Deployment, Less
<1>3. [session[t] EXCEPT !.snap.wait = Less(session[t].snap.wait)] =
        [session[t] EXCEPT !.snap = [session[t].snap EXCEPT !.wait = Less(session[t].snap.wait)]]
  BY <1>2 DEF Session
<1>4. [session[t].snap EXCEPT !.wait = Less(session[t].snap.wait)] \in Deployment
  BY <1>2 DEF Session, Deployment
<1> QED
  BY <1>1, <1>2, <1>3, <1>4 DEF Keeps, Session, Deployment

LEMMA DerivedType == \A desired : Derived(desired) \in Statuses
BY DEF Derived, Statuses

LEMMA ActiveCount ==
  ASSUME IsFiniteSet(Wanted)
  PROVE  /\ IsFiniteSet(ActiveRows) /\ Cardinality(ActiveRows) \in Nat
         /\ Cardinality(ActiveRows) <= Cardinality(Wanted) /\ Cardinality(Wanted) \in Nat
BY FS_Subset, FS_CardinalityType DEF ActiveRows

(* Every step moves one call, or keeps them all, or is the end of them.    *)
LEMMA SessionStep ==
  ASSUME Base, [Next]_vars
  PROVE  /\ session' \in [Sessions -> Session]
         /\ \/ \A t \in Sessions : Keeps(t)
            \/ \E s \in Sessions : Moves(s)
            \/ \A t \in Sessions : session'[t] = Idle
<1> DEFINE Typed == session' \in [Sessions -> Session]
           Goal == /\ Typed
                   /\ \/ \A t \in Sessions : Keeps(t)
                      \/ \E s \in Sessions : Moves(s)
                      \/ \A t \in Sessions : session'[t] = Idle
<1>0. session \in [Sessions -> Session] /\ deployment \in Deployment /\ Wanted \subseteq Slots
  BY DEF Base, TypeOK, Wanted
<1>1. ASSUME NEW s \in Sessions, NEW pc \in Quiet, Goto(s, pc),
             pc = "release" => session[s].holds \/ session[s].pc \in {"decide", "place"},
             pc = "restart" => s \in Requests
      PROVE  Goal
  <2>0. pc \in Points
    BY DEF Quiet
  <2>1. /\ Typed /\ OthersKeep(s) /\ session'[s].pc = pc
        /\ session'[s].holds = session[s].holds /\ session'[s].todo = {}
    BY <1>0, <1>1, <2>0, GotoIs
  <2>2. Leaves(s)
    BY <1>1, <2>1 DEF Leaves
  <2> QED
    BY <2>1, <2>2 DEF Moves
<1>2. ASSUME NEW s \in Sessions, ReadForRestart(s) \/ DecideStop(s) \/ DecideRetire(s) PROVE Goal
  <2>1. PICK W \in SUBSET Slots : StopAll(s, W)
    BY <1>0, <1>2 DEF ReadForRestart, DecideStop, DecideRetire, Unhealthy
  <2>2. /\ Typed /\ OthersKeep(s) /\ session'[s].pc = "stop" /\ session'[s].holds = session[s].holds
    BY <1>0, <2>1, StopAllIs
  <2>3. Leaves(s)
    BY <1>2, <2>2 DEF Leaves, Quiet, Points
  <2> QED
    BY <2>2, <2>3 DEF Moves
<1>3. ASSUME NEW s \in Sessions, session' = [session EXCEPT ![s] = AfterPass(s)] PROVE Goal
  <2>1. Typed /\ session'[s] = AfterPass(s) /\ OthersKeep(s)
    BY <1>0, <1>3, AfterPassIs, PutKeeps
  <2>2. Leaves(s)
    BY <2>1, AfterPassIs DEF Leaves, Quiet, Points
  <2> QED
    BY <2>1, <2>2 DEF Moves
<1>4. ASSUME NEW s \in Sessions, Claim(s) PROVE Goal
  <2>1. CASE lease.left = 0
    <3> DEFINE row == [Idle EXCEPT !.pc = "read", !.holds = TRUE]
    <3>1. row \in Session /\ row.pc = "read" /\ row.holds /\ row.todo = {}
      BY DEF Idle, NoDeployment, Session, Deployment, Statuses
    <3>2. session' = [session EXCEPT ![s] = row] /\ lease' = [holder |-> s, left |-> LeaseTime]
      BY <1>4, <2>1 DEF Claim
    <3> HIDE DEF row
    <3>3. Typed /\ session'[s] = row /\ OthersKeep(s)
      BY <1>0, <3>1, <3>2, PutKeeps
    <3>4. Begins(s)
      BY <2>1, <3>1, <3>2, <3>3 DEF Begins
    <3> QED
      BY <3>3, <3>4 DEF Moves
  <2>2. CASE lease.left # 0
    BY <1>3, <1>4, <2>2 DEF Claim
  <2> QED
    BY <2>1, <2>2
<1>5. ASSUME NEW s \in Sessions, ReadDeployment(s) PROVE Goal
  <2> DEFINE read == [deployment EXCEPT !.status = "queued"]
             row == [session[s] EXCEPT !.pc = "decide", !.snap = read]
  <2>1. /\ read \in Deployment /\ read.attempts = deployment.attempts
        /\ read.recovery = deployment.recovery /\ read.desired = deployment.desired
    BY <1>0 DEF Deployment, Statuses
  <2>2. session' = [session EXCEPT ![s] = row]
    BY <1>5 DEF ReadDeployment
  <2> HIDE DEF read
  <2>3. /\ row \in Session /\ row.pc = "decide" /\ row.holds = session[s].holds /\ row.todo = session[s].todo
        /\ row.snap = read
    BY <1>0, <2>1 DEF Session
  <2> HIDE DEF row
  <2>4. Typed /\ session'[s] = row /\ OthersKeep(s)
    BY <1>0, <2>2, <2>3, PutKeeps
  <2>5. Reads(s)
    BY <1>5, <2>1, <2>3, <2>4 DEF Reads, ReadDeployment, At
  <2> QED
    BY <2>4, <2>5 DEF Moves
<1>6. ASSUME NEW s \in Sessions, DecidePlace(s) PROVE Goal
  <2> DEFINE missing == Replicas - Cardinality(ActiveRows)
             row == [session[s] EXCEPT !.pc = "place", !.missing = missing, !.replaces = AnyBroken]
  <2>1. missing \in Nat
    BY <1>6, ActiveCount, ReplicaAssumption DEF DecidePlace, Base
  <2>2. AnyBroken \in BOOLEAN
    BY Zenon DEF AnyBroken
  <2>3. session' = [session EXCEPT ![s] = row]
    BY <1>6 DEF DecidePlace
  <2> HIDE DEF missing
  <2>4. /\ row \in Session /\ row.pc = "place" /\ row.holds = session[s].holds /\ row.todo = session[s].todo
        /\ row.snap = session[s].snap /\ row.missing = missing
    BY <1>0, <2>1, <2>2 DEF Session
  <2> HIDE DEF row
  <2>5. Typed /\ session'[s] = row /\ OthersKeep(s)
    BY <1>0, <2>3, <2>4, PutKeeps
  <2>6. Counts(s)
    BY <1>6, <2>4, <2>5 DEF Counts, missing
  <2> QED
    BY <2>5, <2>6 DEF Moves
<1>7. ASSUME NEW s \in Sessions, NEW w \in Slots, Place(s, w) PROVE Goal
  <2>1. CASE session[s].missing = 1
    BY <1>1, <1>7, <2>1 DEF Place, Quiet, Points
  <2>2. CASE session[s].missing # 1
    <3> DEFINE row == [session[s] EXCEPT !.missing = session[s].missing - 1]
    <3>1. session[s].pc = "place" /\ session[s].missing - 1 \in Nat
      BY <1>0, <1>7 DEF Base, Missing, Session, Place, MayPlace, At
    <3>2. session' = [session EXCEPT ![s] = row]
      BY <1>7, <2>2 DEF Place
    <3>3. /\ row \in Session /\ row.pc = "place" /\ row.holds = session[s].holds /\ row.todo = session[s].todo
          /\ row.snap = session[s].snap /\ row.replaces = session[s].replaces
          /\ row.missing = session[s].missing - 1
      BY <1>0, <3>1 DEF Session
    <3> HIDE DEF row
    <3>4. Typed /\ session'[s] = row /\ OthersKeep(s)
      BY <1>0, <3>2, <3>3, PutKeeps
    <3>5. GoesOn(s)
      BY <1>7, <2>2, <3>3, <3>4 DEF GoesOn
    <3> QED
      BY <3>4, <3>5 DEF Moves
  <2> QED
    BY <2>1, <2>2
<1>8. ASSUME NEW s \in Sessions, ReadStatus(s) PROVE Goal
  <2> DEFINE d == [NoDeployment EXCEPT !.desired = deployment.desired, !.status = deployment.status]
             row == [session[s] EXCEPT !.pc = "derive", !.snap = d]
  <2>1. d \in Deployment
    BY <1>0 DEF NoDeployment, Deployment
  <2>2. session' = [session EXCEPT ![s] = row]
    BY <1>8 DEF ReadStatus
  <2> HIDE DEF d
  <2>3. row \in Session /\ row.pc = "derive" /\ row.holds = session[s].holds /\ row.todo = session[s].todo
    BY <1>0, <2>1 DEF Session
  <2> HIDE DEF row
  <2>4. Typed /\ session'[s] = row /\ OthersKeep(s)
    BY <1>0, <2>2, <2>3, PutKeeps
  <2>5. Leaves(s)
    BY <2>3, <2>4 DEF Leaves, Quiet, Points
  <2> QED
    BY <2>4, <2>5 DEF Moves
<1>9. ASSUME NEW s \in Sessions, Derive(s) PROVE Goal
  <2> DEFINE next == Derived(session[s].snap.desired)
             row == [session[s] EXCEPT !.pc = "write", !.next = next]
  <2>1. next \in Statuses
    BY DerivedType
  <2>2. session' = [session EXCEPT ![s] = row]
    BY <1>9 DEF Derive
  <2> HIDE DEF next
  <2>3. row \in Session /\ row.pc = "write" /\ row.holds = session[s].holds /\ row.todo = session[s].todo
    BY <1>0, <2>1 DEF Session
  <2> HIDE DEF row
  <2>4. Typed /\ session'[s] = row /\ OthersKeep(s)
    BY <1>0, <2>2, <2>3, PutKeeps
  <2>5. Leaves(s)
    BY <2>3, <2>4 DEF Leaves, Quiet, Points
  <2> QED
    BY <2>4, <2>5 DEF Moves
<1>10. ASSUME NEW w, session' = SessionsWithout(w) PROVE Goal
  <2>1. Typed /\ \A t \in Sessions : Keeps(t)
    BY <1>0, <1>10, WithoutIs DEF Keeps
  <2> QED
    BY <2>1
<1>11. ASSUME NEW s \in Sessions, NEW w \in Slots, NodeLost(s, w) PROVE Goal
  <2>1. CASE Persistent
    BY <1>1, <1>11, <2>1 DEF NodeLost, ReportRow, Quiet, Points
  <2>2. CASE ~Persistent
    <3> DEFINE row == [Idle EXCEPT !.pc = "refresh"]
    <3>1. row \in Session /\ row.pc = "refresh" /\ row.holds = FALSE /\ row.todo = {}
      BY DEF Idle, NoDeployment, Session, Deployment, Statuses
    <3>2. session' = [SessionsWithout(w) EXCEPT ![s] = row]
      BY <1>11, <2>2 DEF NodeLost
    <3> HIDE DEF row
    <3>3. Typed /\ session'[s] = row
      BY <1>0, <3>1, <3>2, WithoutIs
    <3>4. OthersKeep(s)
      BY <1>0, <3>2, WithoutIs DEF OthersKeep, Keeps
    <3>5. Leaves(s)
      BY <3>1, <3>3 DEF Leaves, Quiet, Points
    <3> QED
      BY <3>3, <3>4, <3>5 DEF Moves
  <2> QED
    BY <2>1, <2>2
<1>12. ASSUME Tick PROVE Goal
  BY <1>12, TickIs DEF Base
<1>13. ASSUME ApiRestart PROVE Goal
  BY <1>13, IdleType DEF ApiRestart
<1>14. ASSUME UNCHANGED vars PROVE Goal
  BY <1>0, <1>14, SameKeeps DEF vars
<1>15. ASSUME NEW s \in Sessions, Pass(s) PROVE Goal
  <2>1. ASSUME \/ DecideRefused(s) \/ DecideComplete(s) \/ GiveUp(s) \/ BackOff(s) \/ NoNode(s)
               \/ PlacementFails(s) \/ Exhausted(s)
        PROVE  \E pc \in {"release", "refresh"} : Goto(s, pc) /\ session[s].pc \in {"decide", "place"}
    BY <2>1 DEF DecideRefused, DecideComplete, GiveUp, BackOff, NoNode, PlacementFails, Exhausted, MayPlace, At
  <2>2. ASSUME \/ DecideRefused(s) \/ DecideComplete(s) \/ GiveUp(s) \/ BackOff(s) \/ NoNode(s)
               \/ PlacementFails(s) \/ Exhausted(s)
        PROVE  Goal
    <3> HIDE DEF Goal
    <3> QED
      BY <2>1, <2>2, <1>1 DEF Quiet, Points
  <2>3. ASSUME StopsDone(s) \/ WriteStatus(s) PROVE Goal
    <3>1. ASSUME session[s].holds PROVE Goal
      <4>1. \E pc \in {"release", "refresh"} : Goto(s, pc)
        BY <2>3, <3>1 DEF StopsDone, WriteStatus
      <4> HIDE DEF Goal
      <4> QED
        BY <1>1, <3>1, <4>1 DEF Quiet, Points
    <3>2. ASSUME ~session[s].holds PROVE Goal
      <4>1. \E pc \in {"claim", "idle"} : Goto(s, pc)
        BY <2>3, <3>2 DEF StopsDone, WriteStatus
      <4> HIDE DEF Goal
      <4> QED
        BY <1>1, <3>2, <4>1 DEF Quiet, Points
    <3> QED
      BY <3>1, <3>2
  <2>4. ASSUME Release(s) PROVE Goal
    BY <1>3, <2>4 DEF Release
  <2>5. ASSUME NEW w \in Slots, StopOne(s, w) PROVE Goal
    BY <1>10, <2>5 DEF StopOne
  <2> HIDE DEF Goal
  <2> QED
    BY <1>2, <1>4, <1>5, <1>6, <1>7, <1>8, <1>9, <1>15, <2>2, <2>3, <2>4, <2>5 DEF Pass
<1>16. ASSUME NEW s \in Controllers, StartTick(s) PROVE Goal
  BY <1>1, <1>16 DEF StartTick, Sessions, Quiet, Points
<1>17. ASSUME Users PROVE Goal
  <2>1. ASSUME NEW s \in Requests, UserRestart(s) PROVE Goal
    BY <1>1, <2>1 DEF UserRestart, Sessions, Quiet, Points
  <2>2. ASSUME NEW s \in Requests, NEW d, UserRequest(s, d) PROVE Goal
    BY <1>1, <2>2 DEF UserRequest, Sessions, Quiet, Points
  <2> HIDE DEF Goal
  <2> QED
    BY <1>17, <2>1, <2>2 DEF Users
<1>18. ASSUME Reports PROVE Goal
  <2>1. ASSUME NEW s \in Reporters, Goto(s, "refresh") PROVE Goal
    BY <1>1, <2>1 DEF Sessions, Quiet, Points
  <2>2. Reporters \subseteq Sessions
    BY DEF Sessions
  <2> HIDE DEF Goal
  <2> QED
    BY <1>11, <1>18, <2>1, <2>2 DEF Reports, LateReport, CommandOutcome, Telemetry, ReportRow
<1> HIDE DEF Goal
<1>19. Goal
  BY <1>12, <1>13, <1>14, <1>15, <1>16, <1>17, <1>18 DEF Next
<1> QED
  BY <1>19 DEF Goal

-----------------------------------------------------------------------------
(* What the steps do to the rows                                           *)

LEMMA RowTypes ==
  /\ NoRow \in Row /\ NewRow \in Row /\ NoRow.actual = "none" /\ NewRow.actual = "pending"
BY LimitAssumption DEF NoRow, NewRow, Row, Health

(* The row of the deployment, and who changes what of it.                  *)
LEMMA DeploymentStep ==
  ASSUME Base, [Next]_vars
  PROVE  /\ deployment' \in Deployment /\ deployment'.volumes = deployment.volumes
         /\ \/ deployment'.desired = deployment.desired
            \/ \E s \in Requests : UserRestart(s) \/ \E d \in {"running", "stopped"} : UserRequest(s, d)
         /\ \/ /\ deployment'.attempts = deployment.attempts /\ deployment'.recovery = deployment.recovery
               /\ replaced' = replaced
            \/ \E s \in Sessions : DecideComplete(s) \/ Exhausted(s) \/ \E w \in Slots : Place(s, w)
         /\ replaced' \in Nat
<1> USE DEF Deployment, Statuses
<1> DEFINE Goal == /\ deployment' \in Deployment /\ deployment'.volumes = deployment.volumes
                   /\ \/ deployment'.desired = deployment.desired
                      \/ \E s \in Requests : UserRestart(s) \/ \E d \in {"running", "stopped"} : UserRequest(s, d)
                   /\ \/ /\ deployment'.attempts = deployment.attempts /\ deployment'.recovery = deployment.recovery
                         /\ replaced' = replaced
                      \/ \E s \in Sessions : DecideComplete(s) \/ Exhausted(s) \/ \E w \in Slots : Place(s, w)
                   /\ replaced' \in Nat
<1>0. deployment \in Deployment /\ replaced \in Nat /\ session \in [Sessions -> Session]
  BY DEF Base, TypeOK
<1>1. ASSUME UNCHANGED <<deployment, replaced>> PROVE Goal
  BY <1>0, <1>1
<1>2. ASSUME NEW status \in Statuses, deployment' = [deployment EXCEPT !.status = status], UNCHANGED replaced
      PROVE  Goal
  BY <1>0, <1>2
<1>3. ASSUME NEW s \in Requests, UserRestart(s) \/ \E d \in {"running", "stopped"} : UserRequest(s, d) PROVE Goal
  BY <1>0, <1>3 DEF UserRestart, UserRequest
<1>4. ASSUME NEW s \in Sessions, DecideComplete(s) PROVE Goal
  BY <1>0, <1>4 DEF DecideComplete
<1>5. ASSUME NEW s \in Sessions, Exhausted(s) PROVE Goal
  BY <1>0, <1>5 DEF Exhausted
<1>r. ASSUME NEW a \in Nat, NEW b \in Nat,
             deployment' = [deployment EXCEPT !.recovery = "backoff", !.attempts = a, !.wait = b]
      PROVE  /\ deployment' \in Deployment /\ deployment'.volumes = deployment.volumes
             /\ deployment'.desired = deployment.desired
  BY <1>0, <1>r
<1>6. ASSUME NEW s \in Sessions, NEW w \in Slots, Place(s, w) PROVE Goal
  <2>1. CASE session[s].replaces
    <3> DEFINE a == Attempt(s)
               b == Backoff(a)
    <3>1. a \in Nat /\ a >= 1
      BY <1>0, <2>1 DEF Attempt, Session
    <3>2. b \in Nat
      <4> HIDE DEF a
      <4> QED
        BY <3>1, BackoffType
    <3>3. /\ deployment' = [deployment EXCEPT !.recovery = "backoff", !.attempts = a, !.wait = b]
          /\ replaced' = replaced + 1
      BY <1>6, <2>1 DEF Place
    <3> HIDE DEF a, b
    <3>5. PICK x \in Nat, y \in Nat : x = a /\ y = b
      BY <3>1, <3>2
    <3>6. deployment' = [deployment EXCEPT !.recovery = "backoff", !.attempts = x, !.wait = y]
      BY <3>3, <3>5
    <3>4. /\ deployment' \in Deployment /\ deployment'.volumes = deployment.volumes
          /\ deployment'.desired = deployment.desired
      BY <1>r, <3>6
    <3>7. replaced' \in Nat
      BY <1>0, <3>3
    <3> QED
      BY <1>6, <3>4, <3>7
  <2>2. CASE ~session[s].replaces
    BY <1>0, <1>6, <2>2 DEF Place
  <2> QED
    BY <2>1, <2>2
<1>7. ASSUME NEW s \in Sessions, WriteStatus(s) PROVE Goal
  <2>1. session[s].next \in Statuses
    BY <1>0 DEF Session
  <2> HIDE DEF Goal
  <2> QED
    BY <1>1, <1>2, <1>7, <2>1 DEF WriteStatus
<1>8. ASSUME Tick PROVE Goal
  BY <1>0, <1>8 DEF Tick, Less
<1>9. ASSUME NEW s \in Reporters, NEW w \in Slots,
             \/ LateReport(s) \/ NodeLost(s, w)
             \/ \E a \in {"running", "failed"} : CommandOutcome(s, w, a)
             \/ \E a \in Reported, h \in Health : Telemetry(s, w, a, h)
      PROVE  Goal
  BY <1>1, <1>9 DEF LateReport, NodeLost, CommandOutcome, Telemetry, ReportRow
<1> HIDE DEF Goal
<1>10. ASSUME NEW s \in Sessions, Pass(s) PROVE Goal
  BY <1>1, <1>2, <1>4, <1>5, <1>6, <1>7, <1>10
  DEF Pass, Claim, ReadDeployment, ReadForRestart, DecideStop, DecideRefused, DecideRetire,
      DecidePlace, StopsDone, StopOne, GiveUp, BackOff, NoNode, PlacementFails, ReadStatus, Derive, Release
<1>11. Goal
  BY <1>1, <1>3, <1>8, <1>9, <1>10 DEF Next, Users, Reports, StartTick, ApiRestart, vars
<1> QED
  BY <1>11 DEF Goal

(* What a report writes over a row that is desired.                        *)
LEMMA Reporting ==
  ASSUME Base, NEW s, NEW w \in Slots,
         \/ \E a \in {"running", "failed"} : CommandOutcome(s, w, a)
         \/ \E a \in Reported, h \in Health : Telemetry(s, w, a, h)
         \/ Persistent /\ NodeLost(s, w)
  PROVE  /\ UNCHANGED <<deployment, lease, retired, replaced>> /\ w \in Wanted
         /\ \E row \in Row : /\ row.actual \in Reported \/ (Persistent /\ row.actual = "lost")
                             /\ workloads' = [workloads EXCEPT ![w] = row]
<1> DEFINE Goal == /\ UNCHANGED <<deployment, lease, retired, replaced>> /\ w \in Wanted
                   /\ \E row \in Row : /\ row.actual \in Reported \/ (Persistent /\ row.actual = "lost")
                                       /\ workloads' = [workloads EXCEPT ![w] = row]
<1>0. workloads[w] \in Row /\ workloads[w].failures \in 0..HealthThreshold
  BY DEF Base, TypeOK, Row
<1>r. ASSUME NEW row \in Row, row.actual \in Reported \/ (Persistent /\ row.actual = "lost"), ReportRow(s, w, row)
      PROVE  Goal
  BY <1>r DEF ReportRow
<1>1. ASSUME NEW a \in {"running", "failed"}, CommandOutcome(s, w, a) PROVE Goal
  <2> DEFINE row == [workloads[w] EXCEPT !.actual = a]
  <2>1. row \in Row /\ row.actual \in Reported
    BY <1>0 DEF Row, Reported
  <2>2. ReportRow(s, w, row)
    BY <1>1 DEF CommandOutcome
  <2> HIDE DEF row, Goal
  <2> QED
    BY <1>r, <2>1, <2>2
<1>2. ASSUME NEW a \in Reported, NEW h \in Health, Telemetry(s, w, a, h) PROVE Goal
  <2> DEFINE failures == workloads[w].failures
             count == IF h # "unhealthy" THEN 0
                      ELSE IF failures < HealthThreshold THEN failures + 1 ELSE failures
             row == [workloads[w] EXCEPT !.actual = a, !.health = h, !.failures = count]
  <2>1. count \in 0..HealthThreshold
    BY <1>0, LimitAssumption
  <2>2. ReportRow(s, w, row)
    BY <1>2 DEF Telemetry
  <2> HIDE DEF count
  <2>3. row \in Row /\ row.actual \in Reported
    BY <1>0, <2>1 DEF Row, Reported, Health
  <2> HIDE DEF row, Goal
  <2> QED
    BY <1>r, <2>2, <2>3
<1>3. ASSUME Persistent, NodeLost(s, w) PROVE Goal
  <2> DEFINE row == [LostRow EXCEPT !.failures = workloads[w].failures]
  <2>1. row \in Row /\ row.actual = "lost"
    BY <1>0 DEF LostRow, Row, Health
  <2>2. ReportRow(s, w, row)
    BY <1>3 DEF NodeLost
  <2> HIDE DEF row, Goal
  <2> QED
    BY <1>r, <1>3, <2>1, <2>2
<1> HIDE DEF Goal
<1>4. Goal
  BY <1>1, <1>2, <1>3
<1> QED
  BY <1>4 DEF Goal

(* A row is retired, another one desired, or the rows desired are those    *)
(* that were.                                                              *)
LEMMA WorkloadsStep ==
  ASSUME Base, [Next]_vars
  PROVE  /\ workloads' \in [Slots -> Row] /\ retired' \subseteq Traces
         /\ LostPinned'
         /\ \/ Wanted' = Wanted
            \/ \E w \in Slots : /\ Wanted' = Wanted \ {w}
                                /\ \/ \E s \in Sessions : w \in session[s].todo
                                   \/ ~Persistent
            \/ \E s \in Sessions, w \in Slots \ Wanted : Place(s, w) /\ Wanted' = Wanted \cup {w}
<1> DEFINE Goal == /\ workloads' \in [Slots -> Row] /\ retired' \subseteq Traces
                   /\ LostPinned'
                   /\ \/ Wanted' = Wanted
                      \/ \E w \in Slots : /\ Wanted' = Wanted \ {w}
                                          /\ \/ \E s \in Sessions : w \in session[s].todo
                                             \/ ~Persistent
                      \/ \E s \in Sessions, w \in Slots \ Wanted : Place(s, w) /\ Wanted' = Wanted \cup {w}
<1>0. /\ workloads \in [Slots -> Row] /\ retired \subseteq Traces /\ LostPinned
      /\ deployment \in Deployment
  BY DEF Base, TypeOK
<1>v. Persistent' = Persistent
  BY DeploymentStep DEF Persistent
<1>1. ASSUME UNCHANGED workloads, retired' \subseteq Traces PROVE Goal
  BY <1>0, <1>1, <1>v DEF LostPinned, Wanted
<1>2. ASSUME NEW w \in Slots, NEW row, Retire(w, row),
             (\E s \in Sessions : w \in session[s].todo) \/ ~Persistent
      PROVE  Goal
  <2>1. workloads' = [workloads EXCEPT ![w] = NoRow] /\ retired' \subseteq Traces
    BY <1>0, <1>2 DEF Retire, Remains, Traces
  <2>2. Wanted' = Wanted \ {w}
    BY <1>0, <2>1 DEF Wanted
  <2>3. LostPinned'
    BY <1>0, <1>v, <2>1, <2>2 DEF LostPinned
  <2> QED
    BY <1>0, <1>2, <2>1, <2>2, <2>3, RowTypes
<1>3. ASSUME NEW s \in Sessions, NEW w \in Slots, Place(s, w) PROVE Goal
  <2>1. w \notin Wanted /\ workloads' = [workloads EXCEPT ![w] = NewRow] /\ UNCHANGED retired
    BY <1>3 DEF Place
  <2>2. NewRow # NoRow /\ NewRow \in Row /\ NewRow.actual # "lost"
    BY RowTypes
  <2>3. Wanted' = Wanted \cup {w}
    BY <1>0, <2>1, <2>2 DEF Wanted
  <2>4. LostPinned'
    BY <1>0, <1>v, <2>1, <2>2, <2>3 DEF LostPinned
  <2> QED
    BY <1>0, <1>3, <2>1, <2>2, <2>3, <2>4
<1>4. ASSUME NEW w \in Slots, w \in Wanted, NEW row \in Row, workloads' = [workloads EXCEPT ![w] = row],
             row.actual \in Reported \/ (Persistent /\ row.actual = "lost"), UNCHANGED retired
      PROVE  Goal
  <2>1. row # NoRow
    BY <1>4, RowTypes DEF Reported
  <2>2. Wanted' = Wanted
    BY <1>0, <1>4, <2>1 DEF Wanted
  <2>3. LostPinned'
    BY <1>0, <1>v, <1>4, <2>2 DEF LostPinned, Wanted, Reported
  <2> QED
    BY <1>0, <1>4, <2>2, <2>3
<1> HIDE DEF Goal
<1>5. ASSUME NEW s \in Sessions, NEW w \in Slots, StopOne(s, w) PROVE Goal
  BY <1>2, <1>5 DEF StopOne
<1>6. ASSUME NEW s \in Reporters, NEW w \in Slots, LateReport(s) PROVE Goal
  BY <1>1, <1>6 DEF LateReport, Traces
<1>7. ASSUME NEW s \in Reporters, NEW w \in Slots, NodeLost(s, w) PROVE Goal
  <2>1. CASE Persistent
    BY <1>4, <1>7, <2>1, Reporting
  <2>2. CASE ~Persistent
    BY <1>2, <1>7, <2>2 DEF NodeLost
  <2> QED
    BY <2>1, <2>2
<1>8. ASSUME NEW s \in Reporters, NEW w \in Slots,
             \/ \E a \in {"running", "failed"} : CommandOutcome(s, w, a)
             \/ \E a \in Reported, h \in Health : Telemetry(s, w, a, h)
      PROVE  Goal
  BY <1>4, <1>8, Reporting
<1>9. ASSUME NEW s \in Sessions, Pass(s) PROVE Goal
  BY <1>0, <1>1, <1>3, <1>5, <1>9
  DEF Pass, Claim, ReadDeployment, ReadForRestart, DecideStop, DecideRefused, DecideRetire, DecideComplete,
      DecidePlace, StopsDone, GiveUp, BackOff, NoNode, PlacementFails, Exhausted, ReadStatus, Derive,
      WriteStatus, Release
<1> QED
  BY <1>0, <1>1, <1>6, <1>7, <1>8, <1>9
  DEF Goal, Next, Users, Reports, StartTick, UserRequest, UserRestart, ApiRestart, Tick, vars

(* What a step does to the number of rows that are desired.                *)
LEMMA WantedCount ==
  ASSUME Base, [Next]_vars
  PROVE  /\ IsFiniteSet(Wanted') /\ Cardinality(Wanted) \in Nat /\ Cardinality(Wanted') \in Nat
         /\ \/ Cardinality(Wanted') <= Cardinality(Wanted)
            \/ \E s \in Sessions, w \in Slots : Place(s, w) /\ Cardinality(Wanted') = Cardinality(Wanted) + 1
<1>1. IsFiniteSet(Wanted)
  BY DEF Base
<1>2. CASE \E w \in Slots : Wanted' = Wanted \ {w}
  <2>1. PICK w \in Slots : Wanted' = Wanted \ {w}
    BY <1>2
  <2>2. Wanted' \subseteq Wanted
    BY <2>1
  <2> QED
    BY <1>1, <2>2, FS_Subset, FS_CardinalityType
<1>3. CASE Wanted' = Wanted
  <2>1. Wanted' \subseteq Wanted
    BY <1>3
  <2> QED
    BY <1>1, <2>1, FS_Subset, FS_CardinalityType
<1>4. CASE \E s \in Sessions, w \in Slots \ Wanted : Place(s, w) /\ Wanted' = Wanted \cup {w}
  <2>1. PICK s \in Sessions, w \in Slots \ Wanted : Place(s, w) /\ Wanted' = Wanted \cup {w}
    BY <1>4
  <2>2. IsFiniteSet(Wanted') /\ Cardinality(Wanted') = Cardinality(Wanted) + 1
    BY <1>1, <2>1, FS_AddElement
  <2> QED
    BY <1>1, <2>1, <2>2, FS_CardinalityType
<1> QED
  BY <1>2, <1>3, <1>4, WorkloadsStep

LEMMA LeaseStep ==
  ASSUME Base, [Next]_vars
  PROVE  /\ lease' \in [holder : Sessions \cup {"nobody"}, left : Nat]
         /\ \/ lease' = lease
            \/ \E s \in Sessions : Claim(s) /\ lease.left = 0
            \/ \E s \in Sessions : Release(s) /\ lease.holder = s
            \/ Tick
<1> DEFINE Goal == /\ lease' \in [holder : Sessions \cup {"nobody"}, left : Nat]
                   /\ \/ lease' = lease
                      \/ \E s \in Sessions : Claim(s) /\ lease.left = 0
                      \/ \E s \in Sessions : Release(s) /\ lease.holder = s
                      \/ Tick
<1>0. lease \in [holder : Sessions \cup {"nobody"}, left : Nat]
  BY DEF Base, TypeOK
<1>1. ASSUME UNCHANGED lease PROVE Goal
  BY <1>0, <1>1
<1>2. ASSUME NEW s \in Sessions, Claim(s) PROVE Goal
  BY <1>0, <1>2, LimitAssumption DEF Claim
<1>3. ASSUME NEW s \in Sessions, Release(s) PROVE Goal
  BY <1>0, <1>3 DEF Release
<1>4. ASSUME Tick PROVE Goal
  BY <1>0, <1>4 DEF Tick, Less
<1> HIDE DEF Goal
<1>5. ASSUME NEW s \in Reporters, NEW w \in Slots,
             \/ LateReport(s) \/ NodeLost(s, w)
             \/ \E a \in {"running", "failed"} : CommandOutcome(s, w, a)
             \/ \E a \in Reported, h \in Health : Telemetry(s, w, a, h)
      PROVE  Goal
  BY <1>1, <1>5 DEF LateReport, NodeLost, CommandOutcome, Telemetry, ReportRow
<1>6. ASSUME NEW s \in Sessions, Pass(s) PROVE Goal
  BY <1>1, <1>2, <1>3, <1>6
  DEF Pass, ReadDeployment, ReadForRestart, DecideStop, DecideRefused, DecideRetire, DecideComplete,
      DecidePlace, StopsDone, StopOne, GiveUp, BackOff, NoNode, PlacementFails, Exhausted, Place,
      ReadStatus, Derive, WriteStatus
<1>7. Goal
  BY <1>1, <1>4, <1>5, <1>6 DEF Next, Users, Reports, StartTick, UserRestart, UserRequest, ApiRestart, vars
<1> QED
  BY <1>7 DEF Goal

LEMMA BaseInit == Init => Base
<1> SUFFICES ASSUME Init PROVE Base
  OBVIOUS
<1>1. PICK volumes \in BOOLEAN : deployment = [NoDeployment EXCEPT !.volumes = volumes]
  BY DEF Init
<1>2. deployment \in Deployment
  BY <1>1 DEF NoDeployment, Deployment, Statuses
<1>3. Wanted = {}
  BY DEF Init, Wanted
<1>4. TypeOK
  BY <1>2, RowTypes, IdleType DEF Init, TypeOK
<1>5. Missing /\ LostPinned /\ IsFiniteSet(Wanted)
  BY <1>3, IdleType, FS_EmptySet DEF Init, Missing, LostPinned, At
<1> QED
  BY <1>4, <1>5 DEF Base

LEMMA BaseStep == Base /\ [Next]_vars => Base'
<1> SUFFICES ASSUME Base, [Next]_vars PROVE Base'
  OBVIOUS
<1>1. TypeOK'
  BY SessionStep, DeploymentStep, WorkloadsStep, LeaseStep DEF TypeOK
<1>2. IsFiniteSet(Wanted') /\ LostPinned'
  BY WantedCount, WorkloadsStep
<1>3. ASSUME NEW t \in Sessions, session'[t].pc = "place" PROVE session'[t].missing >= 1
  <2>0. session[t].pc = "place" => session[t].missing \in Nat /\ session[t].missing >= 1
    BY DEF Base, TypeOK, Missing, Session, At
  <2>1. Keeps(t) => session'[t].missing >= 1
    BY <1>3, <2>0 DEF Keeps
  <2>2. ASSUME NEW s \in Sessions, Moves(s) PROVE session'[t].missing >= 1
    <3>1. CASE t # s
      BY <2>1, <2>2, <3>1 DEF Moves, OthersKeep
    <3>2. CASE t = s
      <4>1. Counts(s) => session'[s].missing >= 1
        BY ActiveCount, ReplicaAssumption DEF Base, Counts, DecidePlace
      <4>2. GoesOn(s) => session'[s].missing >= 1
        BY <2>0, <3>2 DEF GoesOn, Place, MayPlace, At
      <4>3. ~Leaves(s) /\ ~Begins(s) /\ ~Reads(s)
        BY <1>3, <3>2 DEF Leaves, Quiet, Begins, Reads
      <4> QED
        BY <2>2, <3>2, <4>1, <4>2, <4>3 DEF Moves
    <3> QED
      BY <3>1, <3>2
  <2> QED
    BY <1>3, <2>1, <2>2, SessionStep, IdleType
<1> QED
  BY <1>1, <1>2, <1>3 DEF Base, Missing, At

LEMMA BaseInvariance == Spec => []Base
BY BaseInit, BaseStep, PTL DEF Spec

(* The row of the deployment, its lease, the rows of its workloads and     *)
(* what every call has read keep their types (controller.ts).              *)
THEOREM TypeCorrectness == Spec => []TypeOK
<1>1. Base => TypeOK
  BY DEF Base
<1> QED
  BY <1>1, BaseInvariance, PTL

-----------------------------------------------------------------------------
(* Exclusion: every pass ends within its lease                             *)

LEMMA PlaceMoves ==
  ASSUME Base, NEW s \in Sessions, NEW w \in Slots, Place(s, w)
  PROVE  /\ session[s].pc = "place"
         /\ session'[s].pc = "refresh" \/ session'[s].missing # session[s].missing
<1>0. session \in [Sessions -> Session] /\ session[s].missing \in Nat
  BY DEF Base, TypeOK, Session
<1>1. CASE session[s].missing = 1
  BY <1>0, <1>1, GotoIs DEF Place, MayPlace, At, Points
<1>2. CASE session[s].missing # 1
  <2>1. session'[s].missing = session[s].missing - 1
    BY <1>0, <1>2 DEF Place, Session
  <2> QED
    BY <1>0, <2>1 DEF Place, MayPlace, At
<1> QED
  BY <1>1, <1>2

LEMMA Exclusive ==
  ASSUME UnderLease, NEW s \in Sessions, NEW t \in Sessions,
         session[s].pc \in {"decide", "place"}, session[t].pc \in {"decide", "place"}
  PROVE  s = t
BY DEF UnderLease

LEMMA LeasedStep ==
  ASSUME PassFits, Base, UnderLease, [Next]_vars
  PROVE  UnderLease'
<1> SUFFICES ASSUME NEW t \in Sessions
             PROVE  /\ session'[t].holds => lease'.holder = t /\ lease'.left > 0
                    /\ session'[t].pc \in {"read", "decide", "place", "release"} => session'[t].holds
  BY DEF UnderLease
<1>0. lease.left \in Nat /\ session \in [Sessions -> Session]
  BY DEF Base, TypeOK
<1>1. /\ session'[t].holds => session[t].holds \/ Begins(t)
      /\ session'[t].pc \in {"read", "decide", "place", "release"} => session'[t].holds
  <2>1. ASSUME Keeps(t)
        PROVE  /\ session'[t].holds => session[t].holds
               /\ session'[t].pc \in {"read", "decide", "place", "release"} => session'[t].holds
    BY <2>1 DEF Keeps, UnderLease
  <2>2. ASSUME Moves(t)
        PROVE  /\ session'[t].holds => session[t].holds \/ Begins(t)
               /\ session'[t].pc \in {"read", "decide", "place", "release"} => session'[t].holds
    <3>1. CASE Leaves(t)
      BY <3>1 DEF Leaves, Quiet, UnderLease
    <3>2. CASE Begins(t)
      BY <3>2 DEF Begins
    <3>3. CASE Reads(t)
      BY <3>3 DEF Reads, UnderLease
    <3>4. CASE Counts(t)
      BY <3>4 DEF Counts, DecidePlace, At, UnderLease
    <3>5. CASE GoesOn(t)
      BY <3>5 DEF GoesOn, Place, MayPlace, At, UnderLease
    <3> QED
      BY <2>2, <3>1, <3>2, <3>3, <3>4, <3>5 DEF Moves
  <2>3. ASSUME session'[t] = Idle
        PROVE  ~session'[t].holds /\ session'[t].pc = "idle"
    BY <2>3, IdleType
  <2>4. Keeps(t) \/ Moves(t) \/ session'[t] = Idle
    BY SessionStep DEF Moves, OthersKeep
  <2> QED
    BY <2>1, <2>2, <2>3, <2>4
<1>2. CASE Begins(t)
  BY <1>1, <1>2, LimitAssumption DEF Begins
<1>3. ASSUME session[t].holds, session'[t].holds PROVE lease'.holder = t /\ lease'.left > 0
  <2>1. lease.holder = t /\ lease.left > 0
    BY <1>3 DEF UnderLease
  <2>2. ASSUME Release(t) PROVE FALSE
    BY <1>0, <1>3, <2>2, AfterPassIs DEF Release
  <2>3. ASSUME Tick PROVE lease'.holder = t /\ lease'.left > 0
    <3>1. lease.left # 1
      BY <1>3, <2>1, <2>3 DEF Tick
    <3>2. lease'.holder = lease.holder /\ lease'.left = lease.left - 1
      BY <1>0, <2>1, <2>3 DEF Tick, Less, Base, TypeOK
    <3> QED
      BY <1>0, <2>1, <3>1, <3>2
  <2> QED
    BY <2>1, <2>2, <2>3, LeaseStep
<1> QED
  BY <1>1, <1>2, <1>3

(* While a call decides or places, what it decides on does not change.     *)
LEMMA Undisturbed ==
  ASSUME Base, UnderLease, [Next]_vars, NEW t \in Sessions, session[t].pc \in {"decide", "place"}, Keeps(t)
  PROVE  /\ deployment'.attempts = deployment.attempts /\ deployment'.recovery = deployment.recovery
         /\ replaced' = replaced /\ Cardinality(Wanted') <= Cardinality(Wanted)
<1>0. session \in [Sessions -> Session]
  BY DEF Base, TypeOK
<1>1. ASSUME NEW s \in Sessions, DecideComplete(s) \/ Exhausted(s) PROVE FALSE
  <2>1. session[s].pc \in {"decide", "place"}
    BY <1>1 DEF DecideComplete, Exhausted, MayPlace, At
  <2>2. s = t
    BY <2>1, Exclusive
  <2>3. session'[s].pc \in {"refresh", "release"}
    BY <1>0, <1>1, GotoIs DEF DecideComplete, Exhausted, Points
  <2> QED
    BY <2>2, <2>3 DEF Keeps
<1>2. ASSUME NEW s \in Sessions, NEW w \in Slots, Place(s, w) PROVE FALSE
  <2>1. session[s].pc = "place" /\ (session'[s].pc = "refresh" \/ session'[s].missing # session[s].missing)
    BY <1>2, PlaceMoves
  <2>2. s = t
    BY <2>1, Exclusive
  <2> QED
    BY <2>1, <2>2 DEF Keeps
<1> QED
  BY <1>1, <1>2, DeploymentStep, WantedCount

(* Where a call that decides or places after a step was before it.         *)
LEMMA Deciding ==
  ASSUME Base, UnderLease, [Next]_vars, NEW t \in Sessions, session'[t].pc \in {"decide", "place"}
  PROVE  \/ Keeps(t) /\ session[t].pc = session'[t].pc
         \/ session'[t].pc = "decide" /\ Reads(t)
         \/ session'[t].pc = "place" /\ (Counts(t) \/ GoesOn(t))
<1>1. Keeps(t) \/ Moves(t) \/ session'[t] = Idle
  BY SessionStep DEF Moves, OthersKeep
<1>2. CASE Keeps(t)
  BY <1>2 DEF Keeps
<1>3. CASE Moves(t)
  BY <1>3 DEF Moves, Leaves, Quiet, Begins, Reads, Counts, GoesOn
<1>4. CASE session'[t] = Idle
  BY <1>4, IdleType
<1> QED
  BY <1>1, <1>2, <1>3, <1>4

LEMMA RoomStep ==
  ASSUME Leased, [Next]_vars
  PROVE  RoomLeft' /\ ReplicaBound'
<1> USE DEF Leased
<1>0. Cardinality(Wanted) \in Nat /\ Cardinality(Wanted') \in Nat /\ Replicas \in Nat
  BY WantedCount, ReplicaAssumption
<1>1. ASSUME NEW t \in Sessions PROVE session[t].missing \in Nat
  BY DEF Base, TypeOK, Session
<1>2. ASSUME NEW t \in Sessions, session'[t].pc = "place"
      PROVE  Cardinality(Wanted') + session'[t].missing <= Replicas
  <2>1. CASE Keeps(t) /\ session[t].pc = "place"
    <3>1. Cardinality(Wanted') <= Cardinality(Wanted) /\ session'[t].missing = session[t].missing
      BY <2>1, Undisturbed DEF Keeps
    <3>2. Cardinality(Wanted) + session[t].missing <= Replicas
      BY <2>1 DEF RoomLeft, At
    <3> QED
      BY <1>0, <1>1, <3>1, <3>2
  <2>2. CASE Counts(t)
    <3>1. Wanted' = Wanted /\ ActiveRows = Wanted
      BY <2>2 DEF Counts, DecidePlace, Base, LostPinned, ActiveRows, Wanted, Persistent
    <3>2. session'[t].missing = Replicas - Cardinality(Wanted)
      BY <2>2, <3>1 DEF Counts
    <3> QED
      BY <1>0, <3>1, <3>2
  <2>3. CASE GoesOn(t)
    <3>1. session'[t].missing = session[t].missing - 1 /\ session[t].pc = "place"
      BY <2>3 DEF GoesOn, Place, MayPlace, At
    <3>2. Cardinality(Wanted) + session[t].missing <= Replicas
      BY <3>1 DEF RoomLeft, At
    <3>3. Cardinality(Wanted') <= Cardinality(Wanted) + 1
      BY <1>0, WantedCount
    <3> QED
      BY <1>0, <1>1, <3>1, <3>2, <3>3
  <2> QED
    BY <1>2, <2>1, <2>2, <2>3, Deciding
<1>3. Cardinality(Wanted') <= Replicas
  <2>1. CASE Cardinality(Wanted') <= Cardinality(Wanted)
    BY <1>0, <2>1 DEF ReplicaBound
  <2>2. ASSUME NEW s \in Sessions, NEW w \in Slots, Place(s, w),
               Cardinality(Wanted') = Cardinality(Wanted) + 1
        PROVE  Cardinality(Wanted') <= Replicas
    <3>1. At(s, "place")
      BY <2>2 DEF Place, MayPlace
    <3>2. session[s].missing >= 1 /\ Cardinality(Wanted) + session[s].missing <= Replicas
      BY <3>1 DEF Base, Missing, RoomLeft
    <3> QED
      BY <1>0, <1>1, <2>2, <3>2
  <2> QED
    BY <2>1, <2>2, WantedCount
<1> QED
  BY <1>2, <1>3 DEF RoomLeft, ReplicaBound, At

LEMMA Times ==
  ASSUME NEW m \in Nat, NEW n \in Nat, m <= n
  PROVE  /\ Replicas * m \in Nat /\ Replicas * m <= Replicas * n
         /\ Replicas * (m + 1) = Replicas * m + Replicas
BY ReplicaAssumption

LEMMA BudgetStep ==
  ASSUME Leased, [Next]_vars
  PROVE  Budgeted'
<1> USE DEF Leased
<1>0. /\ deployment.attempts \in Nat /\ deployment'.attempts \in Nat /\ replaced \in Nat /\ replaced' \in Nat
      /\ Replicas \in Nat /\ MaxRecovery \in Nat
  BY DeploymentStep, ReplicaAssumption, LimitAssumption DEF Base, TypeOK, Deployment
<1>1. ASSUME NEW t \in Sessions PROVE session[t].missing \in Nat /\ session[t].snap.attempts \in Nat
  BY DEF Base, TypeOK, Session, Deployment
<1>2. ASSUME NEW s \in Sessions, NEW w \in Slots, Place(s, w)
      PROVE  /\ replaced' <= replaced + 1
             /\ deployment'.attempts <= MaxRecovery /\ replaced' <= Replicas * deployment'.attempts
  <2>1. session[s].pc = "place" /\ session[s].missing >= 1
    BY <1>2 DEF Place, MayPlace, At, Base, Missing
  <2>2. CASE session[s].replaces
    <3>1. /\ deployment'.attempts = session[s].snap.attempts + 1 /\ replaced' = replaced + 1
          /\ session[s].snap.attempts + 1 <= MaxRecovery
      BY <1>2, <2>2 DEF Place, Attempt, Base, TypeOK, Deployment
    <3>2. replaced + session[s].missing <= Replicas * (session[s].snap.attempts + 1)
      BY <2>1, <2>2 DEF Budgeted, At
    <3>3. Replicas * (session[s].snap.attempts + 1) \in Nat
      BY <1>0, <1>1, Times
    <3> QED
      BY <1>0, <1>1, <2>1, <3>1, <3>2, <3>3
  <2>3. CASE ~session[s].replaces
    BY <1>0, <1>2, <2>3 DEF Place, Budgeted
  <2> QED
    BY <2>2, <2>3
<1>3. deployment'.attempts <= MaxRecovery /\ replaced' <= Replicas * deployment'.attempts
  <2>1. ASSUME NEW s \in Sessions, DecideComplete(s)
        PROVE  \/ deployment'.attempts = 0 /\ replaced' = 0
               \/ deployment'.attempts = deployment.attempts /\ replaced' = replaced
    BY <2>1 DEF DecideComplete, Base, TypeOK, Deployment
  <2>2. ASSUME NEW s \in Sessions, Exhausted(s)
        PROVE  deployment'.attempts = deployment.attempts /\ replaced' = replaced
    BY <2>2 DEF Exhausted, Base, TypeOK, Deployment
  <2>3. Replicas * 0 = 0
    BY <1>0
  <2>4. CASE deployment'.attempts = deployment.attempts /\ replaced' = replaced
    BY <2>4 DEF Budgeted
  <2> QED
    BY <1>0, <1>2, <2>1, <2>2, <2>3, <2>4, DeploymentStep
<1>4. ASSUME NEW t \in Sessions, session'[t].pc = "decide"
      PROVE  session'[t].snap.attempts = deployment'.attempts
  <2>1. CASE Keeps(t) /\ session[t].pc = "decide"
    BY <2>1, Undisturbed DEF Keeps, Budgeted, At
  <2>2. CASE Reads(t)
    BY <2>2 DEF Reads
  <2> QED
    BY <1>4, <2>1, <2>2, Deciding
<1>5. ASSUME NEW t \in Sessions, session'[t].pc = "place", session'[t].replaces
      PROVE  replaced' + session'[t].missing <= Replicas * (session'[t].snap.attempts + 1)
  <2>1. CASE Keeps(t) /\ session[t].pc = "place"
    BY <1>5, <2>1, Undisturbed DEF Keeps, Budgeted, At
  <2>2. CASE Counts(t)
    <3>1. /\ replaced' = replaced /\ session'[t].snap.attempts = deployment.attempts
          /\ session'[t].missing = Replicas - Cardinality(ActiveRows)
      BY <2>2 DEF Counts, DecidePlace, Budgeted
    <3>2. Cardinality(ActiveRows) \in Nat
      BY ActiveCount DEF Base
    <3>3. /\ replaced <= Replicas * deployment.attempts /\ Replicas * deployment.attempts \in Nat
          /\ Replicas * (deployment.attempts + 1) = Replicas * deployment.attempts + Replicas
      BY <1>0, Times DEF Budgeted
    <3> QED
      BY <1>0, <3>1, <3>2, <3>3
  <2>3. CASE GoesOn(t)
    <3>1. PICK w \in Slots : Place(t, w)
      BY <2>3 DEF GoesOn
    <3>2. /\ session'[t].snap.attempts = session[t].snap.attempts /\ session[t].replaces
          /\ session'[t].missing = session[t].missing - 1
      BY <1>5, <2>3 DEF GoesOn
    <3>3. replaced + session[t].missing <= Replicas * (session[t].snap.attempts + 1)
      BY <3>1, <3>2 DEF Place, MayPlace, Budgeted
    <3>4. Replicas * (session[t].snap.attempts + 1) \in Nat /\ replaced' <= replaced + 1
      BY <1>0, <1>1, <1>2, <3>1, Times
    <3> QED
      BY <1>0, <1>1, <3>2, <3>3, <3>4
  <2> QED
    BY <1>5, <2>1, <2>2, <2>3, Deciding
<1> QED
  BY <1>3, <1>4, <1>5 DEF Budgeted, At

(* Nothing is placed once recovery is given up.                            *)
LEMMA NoPlacing ==
  ASSUME Leased, deployment.recovery = "manual_intervention", NEW s \in Sessions, NEW w \in Slots
  PROVE  ~Place(s, w)
BY DEF Leased, Manual, Place, MayPlace

LEMMA ManualStep ==
  ASSUME Leased, [Next]_vars
  PROVE  Manual'
<1> USE DEF Leased
<1>0. Cardinality(Wanted) \in Nat /\ Cardinality(Wanted') \in Nat /\ Replicas \in Nat
  BY WantedCount, ReplicaAssumption
<1>1. ASSUME NEW s \in Sessions, NEW w \in Slots, Place(s, w)
      PROVE  deployment'.recovery = "backoff" \/ deployment' = deployment
  BY <1>1 DEF Place, Base, TypeOK, Deployment
<1>2. ASSUME NEW t \in Sessions, session'[t].pc = "decide"
      PROVE  session'[t].snap.recovery = deployment'.recovery
  <2>1. CASE Keeps(t) /\ session[t].pc = "decide"
    BY <2>1, Undisturbed DEF Keeps, Manual, At
  <2>2. CASE Reads(t)
    BY <2>2 DEF Reads
  <2> QED
    BY <1>2, <2>1, <2>2, Deciding
<1>3. ASSUME NEW t \in Sessions, session'[t].pc = "place", deployment'.recovery = "manual_intervention"
      PROVE  session'[t].snap.recovery = "manual_intervention"
  <2>1. CASE Keeps(t) /\ session[t].pc = "place"
    BY <1>3, <2>1, Undisturbed DEF Keeps, Manual, At
  <2>2. CASE Counts(t)
    BY <1>3, <2>2 DEF Counts, DecidePlace, Manual
  <2>3. CASE GoesOn(t)
    <3>1. PICK w \in Slots : Place(t, w)
      BY <2>3 DEF GoesOn
    <3>2. deployment.recovery = "manual_intervention"
      BY <1>1, <1>3, <3>1
    <3> QED
      BY <3>1, <3>2, NoPlacing
  <2> QED
    BY <1>3, <2>1, <2>2, <2>3, Deciding
<1>4. ASSUME deployment'.recovery = "manual_intervention" PROVE Cardinality(Wanted') < Replicas
  <2>1. CASE deployment.recovery = "manual_intervention"
    <3>1. Cardinality(Wanted) < Replicas
      BY <2>1 DEF Manual
    <3>2. Cardinality(Wanted') <= Cardinality(Wanted)
      BY <2>1, NoPlacing, WantedCount
    <3> QED
      BY <1>0, <3>1, <3>2
  <2>2. CASE deployment.recovery # "manual_intervention"
    <3>1. ASSUME NEW s \in Sessions, DecideComplete(s) PROVE FALSE
      BY <1>4, <2>2, <3>1 DEF DecideComplete, Base, TypeOK, Deployment
    <3>2. ASSUME NEW s \in Sessions, Exhausted(s) PROVE Cardinality(Wanted') < Replicas
      <4>1. Wanted' = Wanted /\ At(s, "place")
        BY <3>2 DEF Exhausted, MayPlace, Wanted
      <4>2. session[s].missing \in Nat /\ session[s].missing >= 1
        BY <4>1 DEF Base, TypeOK, Session, Missing
      <4>3. Cardinality(Wanted) + session[s].missing <= Replicas
        BY <4>1 DEF RoomLeft
      <4> QED
        BY <1>0, <4>1, <4>2, <4>3
    <3> QED
      BY <1>1, <1>4, <2>2, <3>1, <3>2, DeploymentStep
  <2> QED
    BY <2>1, <2>2
<1> QED
  BY <1>2, <1>3, <1>4 DEF Manual, At

LEMMA LeasedInit == Init => Leased
<1> SUFFICES ASSUME Init PROVE Leased
  OBVIOUS
<1>0. Base
  BY BaseInit
<1>1. ASSUME NEW s \in Sessions PROVE session[s].pc = "idle" /\ ~session[s].holds
  BY IdleType DEF Init
<1>2. UnderLease /\ RoomLeft
  BY <1>1 DEF UnderLease, RoomLeft, At
<1>3. Cardinality(Wanted) = 0
  <2>1. Wanted = {}
    BY DEF Init, Wanted
  <2> QED
    BY <2>1, FS_EmptySet
<1>4. deployment.attempts = 0 /\ deployment.recovery = "idle" /\ replaced = 0
  BY DEF Init, NoDeployment
<1>5. Replicas * 0 = 0
  BY ReplicaAssumption
<1>6. Budgeted /\ Manual /\ ReplicaBound
  BY <1>1, <1>3, <1>4, <1>5, ReplicaAssumption, LimitAssumption DEF Budgeted, Manual, ReplicaBound, At
<1> QED
  BY <1>0, <1>2, <1>6 DEF Leased

LEMMA LeasedInvariance ==
  ASSUME PassFits
  PROVE  Spec => []Leased
<1>1. Leased /\ [Next]_vars => Leased'
  <2> SUFFICES ASSUME Leased, [Next]_vars PROVE Leased'
    OBVIOUS
  <2>1. Base' /\ UnderLease'
    BY BaseStep, LeasedStep DEF Leased
  <2> QED
    BY <2>1, RoomStep, BudgetStep, ManualStep DEF Leased
<1> QED
  BY <1>1, LeasedInit, PTL DEF Spec

(* Where every pass ends within its lease, overlapping ticks and requests  *)
(* never place more workloads than there are replicas (controller.ts).     *)
THEOREM ReplicasBounded ==
  ASSUME PassFits
  PROVE  Spec => []ReplicaBound
<1>1. Leased => ReplicaBound
  BY DEF Leased
<1> QED
  BY <1>1, LeasedInvariance, PTL

(* Where every pass ends within its lease, the replacements between two    *)
(* resets stay within the attempts that MAX_RECOVERY_ATTEMPTS allows.      *)
THEOREM RecoveryBounded ==
  ASSUME PassFits
  PROVE  Spec => []RecoveryBudget
<1>1. Leased => RecoveryBudget
  <2> SUFFICES ASSUME Leased PROVE RecoveryBudget
    OBVIOUS
  <2>1. /\ deployment.attempts \in Nat /\ replaced \in Nat /\ MaxRecovery \in Nat /\ Replicas \in Nat
        /\ deployment.attempts <= MaxRecovery /\ replaced <= Replicas * deployment.attempts
    BY ReplicaAssumption, LimitAssumption DEF Leased, Base, TypeOK, Deployment, Budgeted
  <2>2. /\ Replicas * deployment.attempts <= Replicas * MaxRecovery
        /\ Replicas * deployment.attempts \in Nat /\ Replicas * MaxRecovery \in Nat
    BY <2>1, Times
  <2> QED
    BY <2>1, <2>2 DEF RecoveryBudget
<1> QED
  BY <1>1, LeasedInvariance, PTL

(* Where every pass ends within its lease, manual_intervention is final:   *)
(* no call leads out of it, and none places a workload in it.              *)
THEOREM ManualStays ==
  ASSUME PassFits
  PROVE  Spec => ManualIsFinal
<1> DEFINE Final == deployment.recovery = "manual_intervention" =>
                      /\ deployment'.recovery = "manual_intervention"
                      /\ \A w \in Slots : workloads[w] = NoRow => workloads'[w] = NoRow
<1>1. Leased /\ [Next]_vars => Final
  <2> SUFFICES ASSUME Leased, [Next]_vars, deployment.recovery = "manual_intervention"
               PROVE  /\ deployment'.recovery = "manual_intervention"
                      /\ \A w \in Slots : workloads[w] = NoRow => workloads'[w] = NoRow
    OBVIOUS
  <2> USE DEF Leased
  <2>1. ASSUME NEW s \in Sessions, DecideComplete(s) PROVE FALSE
    <3>1. Cardinality(ActiveRows) >= Replicas /\ Cardinality(Wanted) < Replicas
      BY <2>1 DEF DecideComplete, Manual
    <3> QED
      BY <3>1, ActiveCount, ReplicaAssumption DEF Base
  <2>2. ASSUME NEW s \in Sessions, Exhausted(s) PROVE deployment'.recovery = "manual_intervention"
    BY <2>2 DEF Exhausted, Base, TypeOK, Deployment
  <2>3. deployment'.recovery = "manual_intervention"
    BY <2>1, <2>2, NoPlacing, DeploymentStep
  <2>4. Wanted' \subseteq Wanted
    BY NoPlacing, WorkloadsStep
  <2> QED
    BY <2>3, <2>4 DEF Wanted
<1>2. Leased /\ [Next]_vars => [Final]_vars
  BY <1>1
<1> QED
  BY <1>2, LeasedInvariance, PTL DEF Spec, ManualIsFinal

-----------------------------------------------------------------------------
(* Volumes                                                                 *)

LEMMA UnaskedInit == Init => Unasked
BY IdleType DEF Init, Unasked, At, NoDeployment

LEMMA UnaskedStep == Base /\ Unasked /\ [Next]_vars => Unasked'
<1> SUFFICES ASSUME Base, Unasked, [Next]_vars, Persistent', Requests = {}
             PROVE  /\ deployment'.desired = "running"
                    /\ \A t \in Sessions :
                         /\ session'[t].pc # "restart" /\ session'[t].todo = {}
                         /\ session'[t].pc = "decide" => session'[t].snap.desired = "running"
  BY DEF Unasked, At
<1>1. Persistent /\ deployment'.desired = deployment.desired
  BY DeploymentStep DEF Persistent
<1>2. deployment.desired = "running"
  BY <1>1 DEF Unasked
<1>3. ASSUME NEW t \in Sessions
      PROVE  /\ session[t].pc # "restart" /\ session[t].todo = {}
             /\ session[t].pc = "decide" => session[t].snap.desired = "running"
  BY <1>1 DEF Unasked, At
<1> SUFFICES ASSUME NEW t \in Sessions
             PROVE  /\ session'[t].pc # "restart" /\ session'[t].todo = {}
                    /\ session'[t].pc = "decide" => session'[t].snap.desired = "running"
  BY <1>1, <1>2
<1>4. Keeps(t) \/ Moves(t) \/ session'[t] = Idle
  BY SessionStep DEF Moves, OthersKeep
<1>5. CASE Keeps(t)
  BY <1>3, <1>5 DEF Keeps
<1>6. CASE session'[t] = Idle
  BY <1>6, IdleType
<1>7. CASE Leaves(t)
  <2>1. ~ReadForRestart(t) /\ ~DecideStop(t) /\ ~DecideRetire(t)
    BY <1>1, <1>3 DEF ReadForRestart, DecideStop, DecideRetire, At
  <2> QED
    BY <1>3, <1>7, <2>1 DEF Leaves, Quiet
<1>8. CASE Begins(t)
  BY <1>8 DEF Begins
<1>9. CASE Reads(t)
  BY <1>2, <1>3, <1>9 DEF Reads
<1>10. CASE Counts(t) \/ GoesOn(t)
  BY <1>3, <1>10 DEF Counts, GoesOn
<1> QED
  BY <1>4, <1>5, <1>6, <1>7, <1>8, <1>9, <1>10 DEF Moves

(* Unless a user asks for it, no step gives up a workload that has         *)
(* volumes, whatever is reported about it (controller.ts).                 *)
THEOREM PinnedKept == Spec => PinnedStays
<1> DEFINE Stays == Persistent /\ Requests = {} => \A w \in Wanted : workloads'[w] # NoRow
<1>1. Base /\ Unasked /\ [Next]_vars => Stays
  <2> SUFFICES ASSUME Base, Unasked, [Next]_vars, Persistent, Requests = {}, NEW w \in Wanted
               PROVE  workloads'[w] # NoRow
    OBVIOUS
  <2>1. \A s \in Sessions : session[s].todo = {}
    BY DEF Unasked
  <2>2. Wanted \subseteq Wanted'
    BY <2>1, WorkloadsStep
  <2> QED
    BY <2>2 DEF Wanted
<1>2. Base /\ Unasked /\ [Next]_vars => [Stays]_vars
  BY <1>1
<1> QED
  BY <1>2, BaseInvariance, UnaskedInit, UnaskedStep, PTL DEF Spec, PinnedStays
=============================================================================
