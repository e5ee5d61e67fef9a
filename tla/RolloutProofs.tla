---------------------------- MODULE RolloutProofs ----------------------------
(***************************************************************************)
(* Proofs about Rollout, for any number of users, ticks, builds and        *)
(* revisions.                                                              *)
(***************************************************************************)
EXTENDS Rollout, SequenceTheorems, FiniteSetTheorems, TLAPS

-----------------------------------------------------------------------------
(* The inductive invariants                                                *)

(* What a call holds that has come to a point, among n revisions: the      *)
(* revision it is about, the one it stops, the build it deploys and a      *)
(* version that no revision is numbered beyond.                            *)
Sound(n, c, r) ==
  /\ r \in Call /\ r.todo \subseteq 1..n /\ r.rev \in 0..n /\ r.target \in 0..n
  /\ r.pc \in {"commit", "create", "number", "insert", "select", "supersede"} => r.kind = "rollout"
  /\ r.pc = "commit" => r.build \in Builds
  /\ r.pc = "insert" => r.version \in 1..(n + 1)
  /\ r.pc = "update" => r.kind \in {"start", "stop", "restart"}
  /\ r.pc = "stopAll" => r.kind = "stopAll"
  /\ r.pc = "tick" => r.kind = "tick"
  /\ r.pc = "stop" => r.target \in 1..n /\ r.kind \in {"rollout", "restart", "stopAll"}
  /\ (r.pc \in {"select", "supersede", "update", "reconcile", "act"}
       \/ (r.pc = "stop" /\ r.kind \in {"rollout", "restart"})) => r.rev \in 1..n
  /\ c \in Users => r.kind # "tick"
  /\ c \in Ticks => r.pc \in {"idle", "tick", "reconcile", "act"}

UniqueBuilds ==
  \A i \in Positions, j \in Positions :
    revisions[i].build = revisions[j].build /\ revisions[i].build # NoBuild => i = j

Base ==
  /\ revisions \in Seq(Revision)
  /\ builds \in [Builds -> {"built", "succeeded", "failed"}]
  /\ call \in [Calls -> Call]
  /\ \A c \in Calls : Sound(Len(revisions), c, call[c])
  /\ serial \in BOOLEAN /\ touched \in BOOLEAN
  /\ VersionsInOrder /\ UniqueBuilds

(* The last revision alone is desired running.                             *)
LastRuns == Running = {Len(revisions)} \ {0}

(* Rollouts one after the other: one call at a time, for a fresh revision, *)
(* which it stops the others for.                                          *)
RollsOut(u) ==
  /\ call[u].kind = "rollout"
  /\ call[u].pc \in {"commit", "create", "number", "insert", "reconcile", "act"} => LastRuns
  /\ call[u].pc \in {"create", "number", "insert"} /\ call[u].build # NoBuild => OfBuild(call[u].build) = {}
  /\ call[u].pc \in {"select", "supersede", "stop"} =>
       call[u].rev = Len(revisions) /\ Len(revisions) \in Running
  /\ call[u].pc \in {"supersede", "stop"} =>
       Running \ {Len(revisions)} \subseteq call[u].todo /\ Len(revisions) \notin call[u].todo

InTurn ==
  serial =>
    /\ AllUsersIdle => LastRuns
    /\ \A u \in Users, v \in Users : ~At(u, "idle") /\ ~At(v, "idle") => u = v
    /\ \A u \in Users : ~At(u, "idle") => RollsOut(u)

-----------------------------------------------------------------------------
(* What the steps do to the revisions                                      *)

SameRows ==
  /\ Len(revisions') = Len(revisions)
  /\ \A i \in Positions : revisions'[i].version = revisions[i].version /\ revisions'[i].build = revisions[i].build

SameDesired == \A i \in Positions : revisions'[i].desired = revisions[i].desired

LEMMA RowsAre ==
  ASSUME revisions \in Seq(Revision)
  PROVE  Len(revisions) \in Nat /\ \A i \in Positions : revisions[i] \in Revision
BY LenProperties, ElementOfSeq DEF Positions

LEMMA PutRow ==
  ASSUME revisions \in Seq(Revision), NEW i \in Positions, NEW row \in Revision,
         revisions' = [revisions EXCEPT ![i] = row],
         row.version = revisions[i].version, row.build = revisions[i].build
  PROVE  /\ revisions' \in Seq(Revision) /\ SameRows /\ revisions'[i] = row
         /\ \A j \in Positions : j # i => revisions'[j] = revisions[j]
BY ExceptSeq DEF Positions, SameRows

(* A step writes desired, status or live of one revision.                  *)
LEMMA Rewritten ==
  ASSUME revisions \in Seq(Revision), NEW i \in Positions, NEW desired \in {"running", "stopped"},
         NEW status \in {"superseded", "other"}, NEW live \in BOOLEAN,
         \/ revisions' = [revisions EXCEPT ![i].live = live] /\ desired = revisions[i].desired
         \/ revisions' = [revisions EXCEPT ![i].live = live, ![i].status = status] /\ desired = revisions[i].desired
         \/ revisions' = [revisions EXCEPT ![i].desired = desired]
         \/ revisions' = [revisions EXCEPT ![i].desired = desired, ![i].status = status]
         \/ revisions' = [revisions EXCEPT ![i].status = status, ![i].desired = desired]
  PROVE  /\ revisions' \in Seq(Revision) /\ SameRows /\ revisions'[i].desired = desired
         /\ \A j \in Positions : j # i => revisions'[j] = revisions[j]
<1>1. revisions[i] \in Revision
  BY RowsAre
<1>2. ASSUME NEW row \in Revision, revisions' = [revisions EXCEPT ![i] = row], row.desired = desired,
             row.version = revisions[i].version, row.build = revisions[i].build
      PROVE  /\ revisions' \in Seq(Revision) /\ SameRows /\ revisions'[i].desired = desired
             /\ \A j \in Positions : j # i => revisions'[j] = revisions[j]
  BY <1>2, PutRow
<1>3. \E row \in Revision : /\ revisions' = [revisions EXCEPT ![i] = row] /\ row.desired = desired
                            /\ row.version = revisions[i].version /\ row.build = revisions[i].build
  <2> DEFINE r1 == [revisions[i] EXCEPT !.live = live]
             r2 == [revisions[i] EXCEPT !.live = live, !.status = status]
             r3 == [revisions[i] EXCEPT !.desired = desired]
             r4 == [revisions[i] EXCEPT !.desired = desired, !.status = status]
  <2>1. \A r \in {r1, r2, r3, r4} : r \in Revision /\ r.version = revisions[i].version /\ r.build = revisions[i].build
    BY <1>1 DEF Revision
  <2>2. /\ r1.desired = revisions[i].desired /\ r2.desired = revisions[i].desired
        /\ r3.desired = desired /\ r4.desired = desired
    BY <1>1 DEF Revision
  <2>3. \/ revisions' = [revisions EXCEPT ![i] = r1] /\ desired = revisions[i].desired
        \/ revisions' = [revisions EXCEPT ![i] = r2] /\ desired = revisions[i].desired
        \/ revisions' = [revisions EXCEPT ![i] = r3]
        \/ revisions' = [revisions EXCEPT ![i] = r4]
    BY <1>1 DEF Revision
  <2> HIDE DEF r1, r2, r3, r4
  <2> QED
    BY <2>1, <2>2, <2>3
<1> QED
  BY <1>2, <1>3

-----------------------------------------------------------------------------
(* What the steps do to the calls                                          *)

OthersSame(c) == \A d \in Calls \ {c} : call'[d] = call[d]

(* What a call holds is sound among more revisions too.                    *)
LEMMA SoundAmongMore ==
  ASSUME NEW n \in Nat, NEW m \in Nat, n <= m, NEW c, NEW r, Sound(n, c, r)
  PROVE  Sound(m, c, r)
<1>1. 1..n \subseteq 1..m /\ 0..n \subseteq 0..m /\ 1..(n + 1) \subseteq 1..(m + 1)
  OBVIOUS
<1> QED
  BY <1>1 DEF Sound

LEMMA CallPut ==
  ASSUME Base, NEW c \in Calls, NEW state, Becomes(c, state), Len(revisions') \in Nat,
         Len(revisions) <= Len(revisions'), Sound(Len(revisions'), c, state)
  PROVE  /\ call' \in [Calls -> Call] /\ call'[c] = state /\ OthersSame(c)
         /\ \A d \in Calls : Sound(Len(revisions'), d, call'[d])
<1>1. state \in Call /\ call \in [Calls -> Call] /\ Len(revisions) \in Nat
  BY RowsAre DEF Sound, Base
<1>2. call' \in [Calls -> Call] /\ call'[c] = state /\ OthersSame(c)
  BY <1>1 DEF Becomes, OthersSame
<1>3. ASSUME NEW d \in Calls \ {c} PROVE Sound(Len(revisions'), d, call'[d])
  BY <1>1, <1>2, SoundAmongMore DEF Base, OthersSame
<1> QED
  BY <1>2, <1>3

LEMMA IdleIs ==
  /\ Idle \in Call /\ Idle.pc = "idle" /\ Idle.kind = "none" /\ Idle.build = NoBuild /\ Idle.attempt = 0
  /\ Idle.version = 0 /\ Idle.rev = 0 /\ Idle.target = 0 /\ Idle.todo = {} /\ Idle.sees = "stopped"
BY DEF Idle, Call

LEMMA IdleSound == \A n \in Nat, c \in Calls : Sound(n, c, Idle)
BY DEF Sound, Idle, Call

(* Numbered 1, 2, 3, ..., the last revision has the highest version.       *)
LEMMA LastIs ==
  ASSUME Base
  PROVE  LastVersion = Len(revisions)
<1> DEFINE n == Len(revisions)
<1>1. n \in Nat
  BY RowsAre DEF Base
<1>2. {0} \cup {revisions[i].version : i \in Positions} = 0..n
  BY <1>1 DEF Base, VersionsInOrder, Positions
<1>3. Max(0..n) = n
  <2>1. n \in 0..n /\ \A y \in 0..n : n >= y
    BY <1>1
  <2> HIDE DEF n
  <2>2. \A x \in 0..n : (\A y \in 0..n : x >= y) => x = n
    BY <1>1
  <2> QED
    BY <2>1, <2>2 DEF Max
<1> QED
  BY <1>2, <1>3 DEF LastVersion

(* The point that a call comes to is sound.                                *)
LEMMA NewCallsStep ==
  ASSUME Base, NewCalls
  PROVE  /\ UNCHANGED <<revisions, builds>> /\ serial' \in BOOLEAN /\ touched' \in BOOLEAN
         /\ \E c \in Calls : \E state : Becomes(c, state) /\ At(c, "idle") /\ Sound(Len(revisions), c, state)
<1> DEFINE Goal == /\ UNCHANGED <<revisions, builds>> /\ serial' \in BOOLEAN /\ touched' \in BOOLEAN
                   /\ \E c \in Calls : \E state : Becomes(c, state) /\ At(c, "idle") /\ Sound(Len(revisions), c, state)
<1>0. Len(revisions) \in Nat /\ Users \cap Ticks = {} /\ serial \in BOOLEAN /\ touched \in BOOLEAN
  BY RowsAre, CallAssumption DEF Base
<1>r. \A i \in Positions : revisions[i] \in Revision /\ i \in 1..Len(revisions)
  BY RowsAre DEF Base, Positions
<1>1. ASSUME NEW c \in Calls, NEW state, Becomes(c, state), At(c, "idle"), Sound(Len(revisions), c, state),
             UNCHANGED <<revisions, builds>>, serial' \in BOOLEAN, touched' \in BOOLEAN
      PROVE  Goal
  BY <1>1
<1>p. Positions \in SUBSET Nat
  BY DEF Positions
<1>c. Users \subseteq Calls /\ Ticks \subseteq Calls
  BY DEF Calls
<1> HIDE DEF Goal
<1>2. ASSUME NEW u \in Users, Deploy(u) PROVE Goal
  <2> DEFINE state == [Idle EXCEPT !.pc = "create", !.kind = "rollout"]
  <2>2. Becomes(u, state) /\ At(u, "idle") /\ UNCHANGED <<revisions, builds>> /\ serial' \in BOOLEAN
        /\ touched' \in BOOLEAN
    BY <1>0, <1>2 DEF Deploy
  <2>3. /\ state \in Call
        /\ state.pc = "create" /\ state.kind = "rollout" /\ state.rev = 0 /\ state.target = 0 /\ state.todo = {}
    BY IdleIs DEF Call
  <2> HIDE DEF state
  <2>1. Sound(Len(revisions), u, state)
    BY <1>0, <2>3 DEF Sound
  <2> QED
    BY <1>1, <1>c, <2>1, <2>2
<1>3. ASSUME NEW u \in Users, NEW i \in Positions, Rollback(u, i) PROVE Goal
  <2> DEFINE b == revisions[i].build
             state == [Idle EXCEPT !.pc = "create", !.kind = "rollout", !.build = b]
  <2>0. b \in Builds \cup {NoBuild}
    BY <1>r DEF Revision
  <2>2. Becomes(u, state) /\ At(u, "idle") /\ UNCHANGED <<revisions, builds>> /\ serial' \in BOOLEAN
        /\ touched' \in BOOLEAN
    BY <1>0, <1>3 DEF Rollback
  <2> HIDE DEF b
  <2>3. /\ state \in Call
        /\ state.pc = "create" /\ state.kind = "rollout" /\ state.rev = 0 /\ state.target = 0 /\ state.todo = {}
    BY <2>0, IdleIs DEF Call
  <2> HIDE DEF state
  <2>1. Sound(Len(revisions), u, state)
    BY <1>0, <2>3 DEF Sound
  <2> QED
    BY <1>1, <1>c, <2>1, <2>2
<1>4. ASSUME NEW u \in Users, NEW b \in Builds, ReadBuild(u, b) PROVE Goal
  <2> DEFINE state == [Idle EXCEPT !.pc = "commit", !.kind = "rollout", !.build = b]
  <2>2. Becomes(u, state) /\ At(u, "idle") /\ UNCHANGED <<revisions, builds>> /\ serial' \in BOOLEAN
        /\ touched' \in BOOLEAN
    BY <1>0, <1>4 DEF ReadBuild
  <2>3. /\ state \in Call
        /\ state.pc = "commit" /\ state.kind = "rollout" /\ state.rev = 0 /\ state.target = 0 /\ state.todo = {}
        /\ state.build = b
    BY IdleIs DEF Call
  <2> HIDE DEF state
  <2>1. Sound(Len(revisions), u, state)
    BY <1>0, <2>3 DEF Sound
  <2> QED
    BY <1>1, <1>c, <2>1, <2>2
<1>5. ASSUME NEW u \in Users, NEW a \in {"start", "stop", "restart"}, NEW i \in Positions, Request(u, a, i) PROVE Goal
  <2> DEFINE state == [Idle EXCEPT !.pc = "update", !.kind = a, !.rev = i]
  <2>2. Becomes(u, state) /\ At(u, "idle") /\ UNCHANGED <<revisions, builds>> /\ serial' \in BOOLEAN
        /\ touched' \in BOOLEAN
    BY <1>5 DEF Request
  <2>3. /\ state \in Call
        /\ state.pc = "update" /\ state.kind = a /\ state.rev = i /\ state.target = 0 /\ state.todo = {}
    BY <1>p, IdleIs DEF Call
  <2> HIDE DEF state
  <2>1. Sound(Len(revisions), u, state)
    BY <1>0, <1>r, <2>3 DEF Sound
  <2> QED
    BY <1>1, <1>c, <2>1, <2>2
<1>6. ASSUME NEW u \in Users, StopApplication(u) PROVE Goal
  <2> DEFINE state == [Idle EXCEPT !.pc = "stopAll", !.kind = "stopAll", !.todo = Positions]
  <2>2. Becomes(u, state) /\ At(u, "idle") /\ UNCHANGED <<revisions, builds>> /\ serial' \in BOOLEAN
        /\ touched' \in BOOLEAN
    BY <1>6 DEF StopApplication
  <2>3. /\ state \in Call
        /\ state.pc = "stopAll" /\ state.kind = "stopAll" /\ state.rev = 0 /\ state.target = 0
        /\ state.todo = Positions
    BY <1>p, IdleIs DEF Call
  <2> HIDE DEF state
  <2>1. Sound(Len(revisions), u, state)
    BY <1>0, <2>3 DEF Sound, Positions
  <2> QED
    BY <1>1, <1>c, <2>1, <2>2
<1>7. ASSUME NEW t \in Ticks, StartTick(t) PROVE Goal
  <2> DEFINE state == [Idle EXCEPT !.pc = "tick", !.kind = "tick", !.todo = Positions]
  <2>2. Becomes(t, state) /\ At(t, "idle") /\ UNCHANGED <<revisions, builds>> /\ serial' \in BOOLEAN
        /\ touched' \in BOOLEAN
    BY <1>0, <1>7 DEF StartTick
  <2>3. /\ state \in Call
        /\ state.pc = "tick" /\ state.kind = "tick" /\ state.rev = 0 /\ state.target = 0
        /\ state.todo = Positions
    BY <1>p, IdleIs DEF Call
  <2> HIDE DEF state
  <2>1. Sound(Len(revisions), t, state)
    BY <1>0, <2>3 DEF Sound, Positions
  <2> QED
    BY <1>1, <1>c, <2>1, <2>2
<1>8. Goal
  BY <1>2, <1>3, <1>4, <1>5, <1>6, <1>7 DEF NewCalls
<1> QED
  BY <1>8 DEF Goal

LEMMA SameRowsIfSame ==
  ASSUME revisions \in Seq(Revision), revisions' = revisions
  PROVE  revisions' \in Seq(Revision) /\ SameRows
BY DEF SameRows


(* A call that works on a rollout, and what it comes to.                   *)
LEMMA RolloutStep ==
  ASSUME Base, NEW c \in Calls,
         \/ CommitBuild(c) \/ ReadExisting(c) \/ ReadVersion(c) \/ InsertConflicts(c)
         \/ SelectPrevious(c) \/ SupersedeDone(c)
  PROVE  \E state : Becomes(c, state) /\ Sound(Len(revisions), c, state)
<1> DEFINE Goal == \E state : Becomes(c, state) /\ Sound(Len(revisions), c, state)
           r == call[c]
           n == Len(revisions)
<1>0. n \in Nat /\ r \in Call /\ Sound(n, c, r) /\ c \notin Users \cap Ticks
  BY RowsAre, CallAssumption DEF Base
<1>p. Positions = 1..n /\ Positions \in SUBSET Nat
  BY DEF Positions
<1>s. Sound(n, c, Idle)
  BY <1>0, IdleSound
<1>1. ASSUME NEW state, Becomes(c, state), Sound(n, c, state) PROVE Goal
  BY <1>1
<1>v. LastVersion = n
  BY LastIs
<1> HIDE DEF Goal, n
<1>2. ASSUME CommitBuild(c) PROVE Goal
  <2>1. r.pc = "commit" /\ c \notin Ticks /\ r.kind = "rollout"
    BY <1>0, <1>2 DEF CommitBuild, At, Sound
  <2>2. CASE OfBuild(r.build) = {}
    <3> DEFINE state == [r EXCEPT !.pc = "create"]
    <3>1. Becomes(c, state)
      BY <1>2, <2>2 DEF CommitBuild, Goto
    <3>2. /\ state \in Call /\ state.pc = "create" /\ state.kind = r.kind /\ state.rev = r.rev
          /\ state.target = r.target /\ state.todo = r.todo
      BY <1>0 DEF Call
    <3> HIDE DEF state, r
    <3>3. Sound(n, c, state)
      BY <1>0, <2>1, <3>2 DEF Sound
    <3> QED
      BY <1>1, <3>1, <3>3
  <2>3. CASE OfBuild(r.build) # {}
    <3>0. PICK i \in OfBuild(r.build) : Becomes(c, [r EXCEPT !.pc = "reconcile", !.rev = i])
      BY <1>2, <2>3 DEF CommitBuild
    <3>i. i \in Nat /\ i \in 1..n /\ i \in 0..n
      BY <1>0, <1>p DEF OfBuild
    <3> DEFINE state == [r EXCEPT !.pc = "reconcile", !.rev = i]
    <3>1. Becomes(c, state)
      BY <3>0
    <3>2. /\ state \in Call /\ state.pc = "reconcile" /\ state.kind = r.kind /\ state.rev = i
          /\ state.target = r.target /\ state.todo = r.todo
      BY <1>0, <3>i DEF Call
    <3> HIDE DEF state, r
    <3>3. Sound(n, c, state)
      BY <1>0, <2>1, <3>i, <3>2 DEF Sound
    <3> QED
      BY <1>1, <3>1, <3>3
  <2> QED
    BY <2>2, <2>3
<1>3. ASSUME ReadExisting(c) PROVE Goal
  <2>1. r.pc = "create" /\ c \notin Ticks /\ r.kind = "rollout"
    BY <1>0, <1>3 DEF ReadExisting, At, Sound
  <2>2. CASE ~(r.build # NoBuild /\ OfBuild(r.build) # {})
    <3> DEFINE state == [r EXCEPT !.pc = "number"]
    <3>1. Becomes(c, state)
      BY <1>3, <2>2 DEF ReadExisting, Goto
    <3>2. /\ state \in Call /\ state.pc = "number" /\ state.kind = r.kind /\ state.rev = r.rev
          /\ state.target = r.target /\ state.todo = r.todo
      BY <1>0 DEF Call
    <3> HIDE DEF state, r
    <3>3. Sound(n, c, state)
      BY <1>0, <2>1, <3>2 DEF Sound
    <3> QED
      BY <1>1, <3>1, <3>3
  <2>3. CASE r.build # NoBuild /\ OfBuild(r.build) # {}
    <3>0. PICK i \in OfBuild(r.build) : Becomes(c, [r EXCEPT !.pc = "select", !.rev = i])
      BY <1>3, <2>3 DEF ReadExisting
    <3>i. i \in Nat /\ i \in 1..n /\ i \in 0..n
      BY <1>0, <1>p DEF OfBuild
    <3> DEFINE state == [r EXCEPT !.pc = "select", !.rev = i]
    <3>1. Becomes(c, state)
      BY <3>0
    <3>2. /\ state \in Call /\ state.pc = "select" /\ state.kind = r.kind /\ state.rev = i
          /\ state.target = r.target /\ state.todo = r.todo
      BY <1>0, <3>i DEF Call
    <3> HIDE DEF state, r
    <3>3. Sound(n, c, state)
      BY <1>0, <2>1, <3>i, <3>2 DEF Sound
    <3> QED
      BY <1>1, <3>1, <3>3
  <2> QED
    BY <2>2, <2>3
<1>4. ASSUME ReadVersion(c) PROVE Goal
  <2>1. r.pc = "number" /\ c \notin Ticks /\ r.kind = "rollout"
    BY <1>0, <1>4 DEF ReadVersion, At, Sound
  <2> DEFINE k == n + 1
             state == [r EXCEPT !.pc = "insert", !.version = k]
  <2>k. k \in Nat /\ k \in 1..(n + 1)
    BY <1>0
  <2>2. Becomes(c, state)
    BY <1>4, <1>v DEF ReadVersion
  <2> HIDE DEF k
  <2>3. /\ state \in Call /\ state.pc = "insert" /\ state.kind = r.kind /\ state.rev = r.rev
        /\ state.target = r.target /\ state.todo = r.todo /\ state.version = k
    BY <1>0, <2>k DEF Call
  <2> HIDE DEF state, r
  <2>4. Sound(n, c, state)
    BY <1>0, <2>1, <2>3, <2>k DEF Sound
  <2> QED
    BY <1>1, <2>2, <2>4
<1>5. ASSUME InsertConflicts(c) PROVE Goal
  <2>1. r.pc = "insert" /\ c \notin Ticks /\ r.kind = "rollout"
    BY <1>0, <1>5 DEF InsertConflicts, At, Sound
  <2>2. CASE r.attempt + 1 = MaxAttempts
    BY <1>1, <1>5, <1>s, <2>2 DEF InsertConflicts
  <2>3. CASE r.attempt + 1 # MaxAttempts
    <3> DEFINE k == r.attempt + 1
               state == [r EXCEPT !.pc = "create", !.attempt = k, !.version = 0]
    <3>k. k \in Nat
      BY <1>0 DEF Call
    <3>1. Becomes(c, state)
      BY <1>5, <2>3 DEF InsertConflicts
    <3> HIDE DEF k
    <3>2. /\ state \in Call /\ state.pc = "create" /\ state.kind = r.kind /\ state.rev = r.rev
          /\ state.target = r.target /\ state.todo = r.todo
      BY <1>0, <3>k DEF Call
    <3> HIDE DEF state, r
    <3>3. Sound(n, c, state)
      BY <1>0, <2>1, <3>2 DEF Sound
    <3> QED
      BY <1>1, <3>1, <3>3
  <2> QED
    BY <2>2, <2>3
<1>6. ASSUME SelectPrevious(c) PROVE Goal
  <2>1. r.pc = "select" /\ c \notin Ticks /\ r.kind = "rollout"
    BY <1>0, <1>6 DEF SelectPrevious, At, Sound
  <2> DEFINE W == Running \ {r.rev}
             state == [r EXCEPT !.pc = "supersede", !.todo = W]
  <2>w. W \subseteq 1..n /\ W \in SUBSET Nat
    BY <1>p DEF Running
  <2>2. Becomes(c, state)
    BY <1>6 DEF SelectPrevious
  <2> HIDE DEF W
  <2>3. /\ state \in Call /\ state.pc = "supersede" /\ state.kind = r.kind /\ state.rev = r.rev
        /\ state.target = r.target /\ state.todo = W
    BY <1>0, <2>w DEF Call
  <2> HIDE DEF state, r
  <2>4. Sound(n, c, state)
    BY <1>0, <2>1, <2>3, <2>w DEF Sound
  <2> QED
    BY <1>1, <2>2, <2>4
<1>7. ASSUME SupersedeDone(c) PROVE Goal
  <2>1. r.pc = "supersede" /\ c \notin Ticks /\ r.kind = "rollout"
    BY <1>0, <1>7 DEF SupersedeDone, At, Sound
  <2> DEFINE state == [r EXCEPT !.pc = "reconcile"]
  <2>2. Becomes(c, state)
    BY <1>7 DEF SupersedeDone, Goto
  <2>3. /\ state \in Call /\ state.pc = "reconcile" /\ state.kind = r.kind /\ state.rev = r.rev
        /\ state.target = r.target /\ state.todo = r.todo
    BY <1>0 DEF Call
  <2> HIDE DEF state, r
  <2>4. Sound(n, c, state)
    BY <1>0, <2>1, <2>3 DEF Sound
  <2> QED
    BY <1>1, <2>2, <2>4
<1>8. Goal
  BY <1>2, <1>3, <1>4, <1>5, <1>6, <1>7
<1> QED
  BY <1>8 DEF Goal, n

(* A call that stops, updates or visits revisions, and what it comes to.   *)
LEMMA VisitStep ==
  ASSUME Base, NEW c \in Calls,
         \/ ReadDesired(c) \/ ReconcileStop(c) \/ ReconcilePlace(c)
         \/ StopWorkloads(c) \/ UpdateDesired(c) \/ StopApplicationDone(c) \/ EndTick(c)
         \/ \E i \in Positions : Supersede(c, i) \/ StopRevision(c, i) \/ NextRevision(c, i)
  PROVE  \E state : Becomes(c, state) /\ Sound(Len(revisions), c, state)
<1> DEFINE Goal == \E state : Becomes(c, state) /\ Sound(Len(revisions), c, state)
           r == call[c]
           n == Len(revisions)
<1>0. n \in Nat /\ r \in Call /\ Sound(n, c, r) /\ c \notin Users \cap Ticks
  BY RowsAre, CallAssumption DEF Base
<1>p. Positions = 1..n /\ Positions \in SUBSET Nat /\ \A i \in Positions : revisions[i] \in Revision
  BY RowsAre DEF Positions, Base
<1>s. Sound(n, c, Idle)
  BY <1>0, IdleSound
<1>1. ASSUME NEW state, Becomes(c, state), Sound(n, c, state) PROVE Goal
  BY <1>1
<1> HIDE DEF Goal, n
<1>2. r.pc \in {"reconcile", "act"} => Sound(n, c, AfterPass(c))
  <2>1. CASE r.kind # "tick"
    BY <1>s, <2>1 DEF AfterPass
  <2>2. CASE r.kind = "tick" /\ r.pc \in {"reconcile", "act"}
    <3> DEFINE state == [r EXCEPT !.pc = "tick", !.rev = 0, !.sees = "stopped"]
    <3>1. /\ state \in Call /\ state.pc = "tick" /\ state.kind = r.kind /\ state.rev = 0
          /\ state.target = r.target /\ state.todo = r.todo
      BY <1>0 DEF Call
    <3>2. AfterPass(c) = state
      BY <2>2 DEF AfterPass
    <3> HIDE DEF state, r
    <3>3. Sound(n, c, state)
      BY <1>0, <2>2, <3>1 DEF Sound
    <3> QED
      BY <3>2, <3>3
  <2> QED
    BY <2>1, <2>2
<1>3. ASSUME ReadDesired(c) PROVE Goal
  <2>1. r.pc = "reconcile" /\ r.rev \in 1..n
    BY <1>0, <1>3 DEF ReadDesired, At, Sound
  <2>2. CASE Leased(c)
    BY <1>1, <1>2, <1>3, <2>1, <2>2 DEF ReadDesired
  <2>3. CASE ~Leased(c)
    <3> DEFINE d == revisions[r.rev].desired
               state == [r EXCEPT !.pc = "act", !.sees = d]
    <3>d. d \in {"running", "stopped"}
      BY <1>p, <2>1 DEF Revision
    <3>1. Becomes(c, state)
      BY <1>3, <2>3 DEF ReadDesired
    <3> HIDE DEF d
    <3>2. /\ state \in Call /\ state.pc = "act" /\ state.kind = r.kind /\ state.rev = r.rev
          /\ state.target = r.target /\ state.todo = r.todo
      BY <1>0, <3>d DEF Call
    <3> HIDE DEF state, r
    <3>3. Sound(n, c, state)
      BY <1>0, <2>1, <3>2 DEF Sound
    <3> QED
      BY <1>1, <3>1, <3>3
  <2> QED
    BY <2>2, <2>3
<1>4. ASSUME ReconcileStop(c) \/ ReconcilePlace(c) PROVE Goal
  BY <1>1, <1>2, <1>4 DEF ReconcileStop, ReconcilePlace, At
<1>5. ASSUME StopWorkloads(c) PROVE Goal
  <2> DEFINE pc == AfterStop(c)
             state == [r EXCEPT !.pc = pc, !.target = 0]
  <2>1. r.pc = "stop" /\ c \notin Ticks /\ r.kind \in {"rollout", "restart", "stopAll"}
    BY <1>0, <1>5 DEF StopWorkloads, At, Sound
  <2>2. \/ pc = "supersede" /\ r.kind = "rollout" /\ r.rev \in 1..n
        \/ pc = "reconcile" /\ r.kind = "restart" /\ r.rev \in 1..n
        \/ pc = "stopAll" /\ r.kind = "stopAll"
    BY <1>0, <2>1 DEF AfterStop, Sound
  <2>3. Becomes(c, state)
    BY <1>5 DEF StopWorkloads
  <2> HIDE DEF pc
  <2>4. /\ state \in Call /\ state.pc = pc /\ state.kind = r.kind /\ state.rev = r.rev
        /\ state.target = 0 /\ state.todo = r.todo
    BY <1>0, <2>2 DEF Call
  <2> HIDE DEF state, r
  <2>5. Sound(n, c, state)
    BY <1>0, <2>1, <2>2, <2>4 DEF Sound
  <2> QED
    BY <1>1, <2>3, <2>5
<1>6. ASSUME UpdateDesired(c) PROVE Goal
  <2>1. r.pc = "update" /\ c \notin Ticks /\ r.rev \in 1..n /\ r.kind \in {"start", "stop", "restart"}
    BY <1>0, <1>6 DEF UpdateDesired, At, Sound
  <2>2. CASE r.kind = "restart"
    <3> DEFINE i == r.rev
               state == [r EXCEPT !.pc = "stop", !.target = i]
    <3>i. i \in Nat /\ i \in 1..n /\ i \in 0..n
      BY <1>0, <2>1
    <3>1. Becomes(c, state)
      BY <1>6, <2>2 DEF UpdateDesired
    <3>2. state.target = i /\ state.rev = i
      BY <1>0 DEF Call
    <3> HIDE DEF i
    <3>3. /\ state \in Call /\ state.pc = "stop" /\ state.kind = r.kind /\ state.todo = r.todo
      BY <1>0, <3>i DEF Call
    <3> HIDE DEF state, r
    <3>4. Sound(n, c, state)
      BY <1>0, <2>1, <2>2, <3>i, <3>2, <3>3 DEF Sound
    <3> QED
      BY <1>1, <3>1, <3>4
  <2>3. CASE r.kind # "restart"
    <3> DEFINE state == [r EXCEPT !.pc = "reconcile"]
    <3>1. Becomes(c, state)
      BY <1>6, <2>3 DEF UpdateDesired
    <3>2. /\ state \in Call /\ state.pc = "reconcile" /\ state.kind = r.kind /\ state.rev = r.rev
          /\ state.target = r.target /\ state.todo = r.todo
      BY <1>0 DEF Call
    <3> HIDE DEF state, r
    <3>3. Sound(n, c, state)
      BY <1>0, <2>1, <3>2 DEF Sound
    <3> QED
      BY <1>1, <3>1, <3>3
  <2> QED
    BY <2>2, <2>3
<1>7. ASSUME StopApplicationDone(c) \/ EndTick(c) PROVE Goal
  BY <1>1, <1>7, <1>s DEF StopApplicationDone, EndTick
<1>8. ASSUME NEW i \in Positions, Supersede(c, i) \/ StopRevision(c, i) PROVE Goal
  <2>i. i \in Nat /\ i \in 1..n /\ i \in 0..n
    BY <1>0, <1>p
  <2>1. /\ c \notin Ticks
        /\ \/ r.pc = "supersede" /\ r.kind = "rollout" /\ r.rev \in 1..n
           \/ r.pc = "stopAll" /\ r.kind = "stopAll"
    BY <1>0, <1>8 DEF Supersede, StopRevision, At, Sound
  <2> DEFINE W == r.todo \ {i}
             state == [r EXCEPT !.pc = "stop", !.target = i, !.todo = W]
  <2>w. W \subseteq 1..n /\ W \in SUBSET Nat
    BY <1>0 DEF Sound
  <2>2. Becomes(c, state)
    BY <1>8 DEF Supersede, StopRevision
  <2> HIDE DEF W
  <2>3. /\ state \in Call /\ state.pc = "stop" /\ state.kind = r.kind /\ state.rev = r.rev
        /\ state.target = i /\ state.todo = W
    BY <1>0, <2>i, <2>w DEF Call
  <2> HIDE DEF state, r
  <2>4. Sound(n, c, state)
    BY <1>0, <2>1, <2>3, <2>i, <2>w DEF Sound
  <2> QED
    BY <1>1, <2>2, <2>4
<1>9. ASSUME NEW i \in Positions, NextRevision(c, i) PROVE Goal
  <2>i. i \in Nat /\ i \in 1..n /\ i \in 0..n
    BY <1>0, <1>p
  <2>1. r.pc = "tick" /\ r.kind = "tick" /\ c \notin Users
    BY <1>0, <1>9 DEF NextRevision, At, Sound
  <2> DEFINE W == r.todo \ {i}
             state == [r EXCEPT !.pc = "reconcile", !.rev = i, !.todo = W]
  <2>w. W \subseteq 1..n /\ W \in SUBSET Nat
    BY <1>0 DEF Sound
  <2>2. Becomes(c, state)
    BY <1>9 DEF NextRevision
  <2> HIDE DEF W
  <2>3. /\ state \in Call /\ state.pc = "reconcile" /\ state.kind = r.kind /\ state.rev = i
        /\ state.target = r.target /\ state.todo = W
    BY <1>0, <2>i, <2>w DEF Call
  <2> HIDE DEF state, r
  <2>4. Sound(n, c, state)
    BY <1>0, <2>1, <2>3, <2>i, <2>w DEF Sound
  <2> QED
    BY <1>1, <2>2, <2>4
<1>10. Goal
  BY <1>3, <1>4, <1>5, <1>6, <1>7, <1>8, <1>9
<1> QED
  BY <1>10 DEF Goal, n

(* Every other step of a call leaves the number and the build of the       *)
(* revisions alone, and all but these what is desired of them.             *)
LEMMA RowsStep ==
  ASSUME Base, NEW c \in Calls, Steps(c), ~Insert(c)
  PROVE  /\ revisions' \in Seq(Revision) /\ SameRows
         /\ builds' \in [Builds -> {"built", "succeeded", "failed"}] /\ UNCHANGED <<serial, touched>>
         /\ \/ SameDesired \/ UpdateDesired(c)
            \/ \E i \in Positions : Supersede(c, i) \/ StopRevision(c, i)
<1> DEFINE Goal == /\ revisions' \in Seq(Revision) /\ SameRows
                   /\ builds' \in [Builds -> {"built", "succeeded", "failed"}] /\ UNCHANGED <<serial, touched>>
                   /\ \/ SameDesired \/ UpdateDesired(c)
                      \/ \E i \in Positions : Supersede(c, i) \/ StopRevision(c, i)
           r == call[c]
<1>0. /\ revisions \in Seq(Revision) /\ r \in Call /\ Sound(Len(revisions), c, r)
      /\ builds \in [Builds -> {"built", "succeeded", "failed"}]
  BY DEF Base
<1>p. \A i \in Positions : revisions[i] \in Revision
  BY RowsAre, <1>0
<1>q. Positions = 1..Len(revisions)
  BY DEF Positions
<1>1. ASSUME UNCHANGED revisions, builds' \in [Builds -> {"built", "succeeded", "failed"}],
             UNCHANGED <<serial, touched>>
      PROVE  Goal
  BY <1>0, <1>1, SameRowsIfSame DEF SameDesired
<1>2. ASSUME NEW i \in Positions, NEW status \in {"superseded", "other"}, NEW live \in BOOLEAN,
             \/ revisions' = [revisions EXCEPT ![i].live = live]
             \/ revisions' = [revisions EXCEPT ![i].live = live, ![i].status = status],
             UNCHANGED <<builds, serial, touched>>
      PROVE  Goal
  <2>1. PICK desired \in {"running", "stopped"} : desired = revisions[i].desired
    BY <1>p DEF Revision
  <2>2. /\ revisions' \in Seq(Revision) /\ SameRows /\ revisions'[i].desired = desired
        /\ \A j \in Positions : j # i => revisions'[j] = revisions[j]
    BY <1>0, <1>2, <2>1, Rewritten
  <2>3. SameDesired
    BY <2>1, <2>2 DEF SameDesired
  <2> QED
    BY <1>0, <1>2, <2>2, <2>3
<1>3. ASSUME NEW i \in Positions, NEW desired \in {"running", "stopped"}, NEW status \in {"superseded", "other"},
             \/ revisions' = [revisions EXCEPT ![i].desired = desired]
             \/ revisions' = [revisions EXCEPT ![i].desired = desired, ![i].status = status]
             \/ revisions' = [revisions EXCEPT ![i].status = status, ![i].desired = desired],
             UNCHANGED <<builds, serial, touched>>,
             UpdateDesired(c) \/ \E j \in Positions : Supersede(c, j) \/ StopRevision(c, j)
      PROVE  Goal
  <2>1. revisions' \in Seq(Revision) /\ SameRows
    BY <1>0, <1>3, Rewritten
  <2> QED
    BY <1>0, <1>3, <2>1
<1> HIDE DEF Goal, r
<1>4. ASSUME ReconcileStop(c) \/ StopWorkloads(c) PROVE Goal
  <2>1. \E i \in Positions : revisions' = [revisions EXCEPT ![i].live = FALSE]
    BY <1>0, <1>4, <1>q DEF ReconcileStop, StopWorkloads, At, Sound, r
  <2> QED
    BY <1>2, <1>4, <2>1 DEF ReconcileStop, StopWorkloads
<1>5. ASSUME ReconcilePlace(c) PROVE Goal
  <2>1. r.rev \in Positions
    BY <1>0, <1>5, <1>q DEF ReconcilePlace, At, Sound, r
  <2>2. revisions[r.rev].live \in BOOLEAN
    BY <1>p, <2>1 DEF Revision
  <2>3. PICK i \in Positions : i = r.rev
    BY <2>1
  <2>4. \E live \in BOOLEAN : \/ revisions' = [revisions EXCEPT ![i].live = live]
                              \/ revisions' = [revisions EXCEPT ![i].live = live, ![i].status = "other"]
    BY <1>5, <2>2, <2>3 DEF ReconcilePlace, r
  <2> QED
    BY <1>2, <1>5, <2>4 DEF ReconcilePlace
<1>6. ASSUME UpdateDesired(c) PROVE Goal
  <2>1. r.rev \in Positions
    BY <1>0, <1>6, <1>q DEF UpdateDesired, At, Sound, r
  <2>2. \E desired \in {"running", "stopped"} :
          revisions' = [revisions EXCEPT ![r.rev].status = "other", ![r.rev].desired = desired]
    BY <1>6 DEF UpdateDesired, r
  <2> QED
    BY <1>3, <1>6, <2>1, <2>2 DEF UpdateDesired
<1>7. ASSUME NEW i \in Positions, Supersede(c, i) PROVE Goal
  BY <1>3, <1>7 DEF Supersede
<1>8. ASSUME NEW i \in Positions, StopRevision(c, i) PROVE Goal
  BY <1>3, <1>8 DEF StopRevision
<1>9. ASSUME CommitBuild(c) \/ InsertConflicts(c) PROVE Goal
  <2>1. builds' \in [Builds -> {"built", "succeeded", "failed"}]
    BY <1>0, <1>9 DEF CommitBuild, InsertConflicts
  <2> QED
    BY <1>1, <1>9, <2>1 DEF CommitBuild, InsertConflicts
<1>10. ASSUME \/ ReadDesired(c) \/ ReadExisting(c) \/ ReadVersion(c) \/ SelectPrevious(c) \/ SupersedeDone(c)
              \/ StopApplicationDone(c) \/ EndTick(c) \/ \E i \in Positions : NextRevision(c, i)
       PROVE  Goal
  BY <1>0, <1>1, <1>10
  DEF ReadDesired, ReadExisting, ReadVersion, SelectPrevious, SupersedeDone, StopApplicationDone, EndTick,
      NextRevision
<1>11. Goal
  BY <1>4, <1>5, <1>6, <1>7, <1>8, <1>9, <1>10 DEF Steps
<1> QED
  BY <1>11 DEF Goal

(* The revision inserted is the last, and it has the next version.         *)
LEMMA InsertStep ==
  ASSUME Base, NEW c \in Calls, Insert(c)
  PROVE  /\ revisions' \in Seq(Revision) /\ Len(revisions') = Len(revisions) + 1
         /\ \A i \in Positions : revisions'[i] = revisions[i]
         /\ revisions'[Len(revisions) + 1] = NewRevision(c)
         /\ VersionsInOrder' /\ UniqueBuilds'
         /\ \E state : Becomes(c, state) /\ Sound(Len(revisions'), c, state)
<1> DEFINE r == call[c]
           n == Len(revisions)
<1>0. n \in Nat /\ r \in Call /\ Sound(n, c, r) /\ c \notin Users \cap Ticks /\ revisions \in Seq(Revision)
  BY RowsAre, CallAssumption DEF Base
<1>p. Positions = 1..n /\ \A i \in Positions : revisions[i] \in Revision /\ revisions[i].version = i
  BY RowsAre DEF Positions, Base, VersionsInOrder
<1>1. r.pc = "insert" /\ c \notin Ticks /\ r.kind = "rollout" /\ r.version \in 1..(n + 1)
  BY <1>0 DEF Insert, At, Sound
<1>2. r.version = n + 1
  <2>1. \A i \in Positions : revisions[i].version # r.version
    BY DEF Insert, Conflict
  <2>2. \A i \in 1..n : i # r.version
    BY <1>p, <2>1
  <2> HIDE DEF n, r
  <2> QED
    BY <1>0, <1>1, <2>2
<1>3. NewRevision(c) \in Revision /\ NewRevision(c).version = n + 1 /\ NewRevision(c).build = r.build
  BY <1>0, <1>2 DEF NewRevision, Revision, Call
<1>4. /\ revisions' \in Seq(Revision) /\ Len(revisions') = n + 1
      /\ \A i \in Positions : revisions'[i] = revisions[i]
      /\ revisions'[n + 1] = NewRevision(c)
  BY <1>0, <1>3, <1>p, AppendProperties DEF Insert
<1>5. Positions' = 1..(n + 1)
  BY <1>4 DEF Positions
<1>6. VersionsInOrder'
  <2> SUFFICES ASSUME NEW i \in 1..(n + 1) PROVE revisions'[i].version = i
    BY <1>5 DEF VersionsInOrder
  <2>1. CASE i = n + 1
    BY <1>3, <1>4, <2>1
  <2>2. CASE i \in 1..n
    BY <1>p, <1>4, <2>2
  <2> QED
    BY <1>0, <2>1, <2>2
<1>7. UniqueBuilds'
  <2>1. \A i \in 1..n : r.build # NoBuild => revisions[i].build # r.build
    BY <1>p DEF Insert, Conflict
  <2>2. \A i \in 1..n, j \in 1..n : revisions[i].build = revisions[j].build /\ revisions[i].build # NoBuild => i = j
    BY <1>p DEF Base, UniqueBuilds
  <2> SUFFICES ASSUME NEW i \in 1..(n + 1), NEW j \in 1..(n + 1),
                      revisions'[i].build = revisions'[j].build, revisions'[i].build # NoBuild
               PROVE  i = j
    BY <1>5 DEF UniqueBuilds
  <2>3. \A k \in 1..n : revisions'[k].build = revisions[k].build
    BY <1>p, <1>4
  <2>4. revisions'[n + 1].build = r.build
    BY <1>3, <1>4
  <2> HIDE DEF n, r
  <2>5. i \in 1..n \/ i = n + 1
    BY <1>0
  <2>6. j \in 1..n \/ j = n + 1
    BY <1>0
  <2> QED
    BY <2>1, <2>2, <2>3, <2>4, <2>5, <2>6
<1>8. \E state : Becomes(c, state) /\ Sound(n + 1, c, state)
  <2> DEFINE k == n + 1
             state == [r EXCEPT !.pc = "select", !.rev = k, !.version = 0]
  <2>1. Becomes(c, state)
    BY DEF Insert
  <2>2. k \in Nat /\ k \in 1..k /\ k \in 0..k
    BY <1>0
  <2>k. Sound(k, c, r)
    BY <1>0, <2>2, SoundAmongMore
  <2> HIDE DEF k
  <2>3. /\ state \in Call /\ state.pc = "select" /\ state.kind = r.kind /\ state.rev = k
        /\ state.target = r.target /\ state.todo = r.todo
    BY <1>0, <2>2 DEF Call
  <2> HIDE DEF state, r
  <2>4. Sound(k, c, state)
    BY <1>1, <2>k, <2>2, <2>3 DEF Sound
  <2> QED
    BY <2>1, <2>4 DEF k
<1> QED
  BY <1>4, <1>6, <1>7, <1>8

LEMMA BaseInit == Init => Base
<1> SUFFICES ASSUME Init PROVE Base
  OBVIOUS
<1>1. revisions = <<>> /\ revisions \in Seq(Revision) /\ Len(revisions) = 0 /\ Positions = {}
  BY EmptySeq DEF Init, Positions
<1>2. \A c \in Calls : call[c] = Idle /\ Sound(Len(revisions), c, call[c])
  BY <1>1, IdleSound DEF Init
<1>3. VersionsInOrder /\ UniqueBuilds
  BY <1>1 DEF VersionsInOrder, UniqueBuilds
<1> QED
  BY <1>1, <1>2, <1>3, IdleIs DEF Base, Init

LEMMA BaseStep == Base /\ [Next]_vars => Base'
<1> SUFFICES ASSUME Base, [Next]_vars PROVE Base'
  OBVIOUS
<1>0. Len(revisions) \in Nat /\ revisions \in Seq(Revision) /\ Positions = 1..Len(revisions)
  BY RowsAre DEF Base, Positions
<1>1. ASSUME SameRows PROVE VersionsInOrder' /\ UniqueBuilds'
  <2>1. Positions' = Positions
    BY <1>1 DEF SameRows, Positions
  <2> QED
    BY <1>1, <2>1 DEF SameRows, Base, VersionsInOrder, UniqueBuilds
<1>2. ASSUME NEW c \in Calls, Steps(c) PROVE Base'
  <2>1. CASE Insert(c)
    <3>1. /\ revisions' \in Seq(Revision) /\ Len(revisions') = Len(revisions) + 1
          /\ VersionsInOrder' /\ UniqueBuilds'
          /\ \E state : Becomes(c, state) /\ Sound(Len(revisions'), c, state)
      BY <2>1, InsertStep
    <3>2. Len(revisions') \in Nat /\ Len(revisions) <= Len(revisions')
      BY <1>0, <3>1
    <3>3. call' \in [Calls -> Call] /\ \A d \in Calls : Sound(Len(revisions'), d, call'[d])
      BY <3>1, <3>2, CallPut
    <3>4. UNCHANGED <<builds, serial, touched>>
      BY <2>1 DEF Insert
    <3> QED
      BY <3>1, <3>3, <3>4 DEF Base
  <2>2. CASE ~Insert(c)
    <3>1. /\ revisions' \in Seq(Revision) /\ SameRows
          /\ builds' \in [Builds -> {"built", "succeeded", "failed"}] /\ UNCHANGED <<serial, touched>>
      BY <1>2, <2>2, RowsStep
    <3>2. \E state : Becomes(c, state) /\ Sound(Len(revisions), c, state)
      BY <1>2, <2>2, RolloutStep, VisitStep DEF Steps
    <3>3. call' \in [Calls -> Call] /\ \A d \in Calls : Sound(Len(revisions'), d, call'[d])
      BY <1>0, <3>1, <3>2, CallPut DEF SameRows
    <3> QED
      BY <1>1, <3>1, <3>3 DEF Base
  <2> QED
    BY <2>1, <2>2
<1>3. CASE NewCalls
  <2>1. /\ UNCHANGED <<revisions, builds>> /\ serial' \in BOOLEAN /\ touched' \in BOOLEAN
        /\ \E c \in Calls : \E state : Becomes(c, state) /\ Sound(Len(revisions), c, state)
    BY <1>3, NewCallsStep
  <2>2. call' \in [Calls -> Call] /\ \A d \in Calls : Sound(Len(revisions'), d, call'[d])
    BY <1>0, <2>1, CallPut
  <2>3. SameRows
    BY <1>0, <2>1, SameRowsIfSame
  <2> QED
    BY <1>1, <2>1, <2>2, <2>3 DEF Base
<1>4. CASE ApiRestart
  <2>1. UNCHANGED <<revisions, builds>> /\ serial' \in BOOLEAN /\ touched' \in BOOLEAN
    BY <1>4 DEF ApiRestart, Base
  <2>2. call' \in [Calls -> Call] /\ \A d \in Calls : Sound(Len(revisions'), d, call'[d])
    BY <1>0, <1>4, <2>1, IdleIs, IdleSound DEF ApiRestart
  <2>3. SameRows
    BY <1>0, <2>1, SameRowsIfSame
  <2> QED
    BY <1>1, <2>1, <2>2, <2>3 DEF Base
<1>5. CASE UNCHANGED vars
  <2>1. SameRows
    BY <1>0, <1>5, SameRowsIfSame DEF vars
  <2> QED
    BY <1>1, <1>5, <2>1 DEF Base, vars
<1> QED
  BY <1>2, <1>3, <1>4, <1>5 DEF Next

LEMMA BaseInvariance == Spec => []Base
BY BaseInit, BaseStep, PTL DEF Spec

(* The rows of an application and its builds, and what every call holds of *)
(* them, keep their types; no call names a revision that is not there      *)
(* (service.ts, applications.routes.ts).                                   *)
THEOREM TypeCorrectness == Spec => []TypeOK
<1>1. Base => TypeOK
  BY DEF Base, TypeOK, Sound, Positions
<1> QED
  BY <1>1, BaseInvariance, PTL

(* However creations race for a version, the revisions are numbered in the *)
(* order of their insertion, without a gap (createDeployment).             *)
THEOREM Numbered == Spec => []VersionsInOrder
<1>1. Base => VersionsInOrder
  BY DEF Base
<1> QED
  BY <1>1, BaseInvariance, PTL

(* However often a build is reconciled or rolled back to, and however many *)
(* retries that takes, one revision deploys it (createDeployment).         *)
THEOREM DeployedOnce == Spec => []BuildDeployedOnce
<1>1. Base => BuildDeployedOnce
  <2> SUFFICES ASSUME Base, NEW b \in Builds PROVE Cardinality(OfBuild(b)) <= 1
    BY DEF BuildDeployedOnce
  <2>1. \A i \in OfBuild(b), j \in OfBuild(b) : i = j
    BY BuildAssumption DEF Base, UniqueBuilds, OfBuild
  <2>2. CASE OfBuild(b) = {}
    BY <2>2, FS_EmptySet
  <2>3. CASE OfBuild(b) # {}
    <3>1. PICK i \in OfBuild(b) : OfBuild(b) = {i}
      BY <2>1, <2>3
    <3>2. Cardinality({i}) = 1
      BY FS_Singleton
    <3> QED
      BY <3>1, <3>2
  <2> QED
    BY <2>2, <2>3
<1> QED
  BY <1>1, BaseInvariance, PTL

-----------------------------------------------------------------------------
(* Rollouts one after the other                                            *)

LEMMA BecomesIs ==
  ASSUME Base, NEW c \in Calls, NEW state, Becomes(c, state)
  PROVE  call'[c] = state /\ OthersSame(c)
BY DEF Base, Becomes, OthersSame

(* What a rollout sees of the revisions.                                   *)
SameView ==
  /\ Len(revisions') = Len(revisions) /\ Running' = Running
  /\ \A b : OfBuild(b)' = OfBuild(b)

LEMMA ViewIsSame ==
  ASSUME SameRows, SameDesired
  PROVE  SameView
<1>1. Positions' = Positions
  BY DEF SameRows, Positions
<1>2. Running' = Running
  BY <1>1 DEF SameDesired, Running
<1>3. ASSUME NEW b PROVE OfBuild(b)' = OfBuild(b)
  BY <1>1 DEF SameRows, OfBuild
<1> QED
  BY <1>2, <1>3 DEF SameRows, SameView

(* Nothing is out of turn where no call of a user moves.                   *)
LEMMA UsersWait ==
  ASSUME InTurn, SameView, serial' => serial, \A u \in Users : call'[u] = call[u]
  PROVE  InTurn'
<1> SUFFICES ASSUME serial'
             PROVE  /\ AllUsersIdle' => LastRuns'
                    /\ \A u \in Users, v \in Users : call'[u].pc # "idle" /\ call'[v].pc # "idle" => u = v
                    /\ \A u \in Users : call'[u].pc # "idle" => RollsOut(u)'
  BY DEF InTurn, At
<1>1. LastRuns' = LastRuns /\ AllUsersIdle' = AllUsersIdle
  BY DEF LastRuns, SameView, AllUsersIdle, At
<1>2. ASSUME NEW u \in Users, call[u].pc # "idle" PROVE RollsOut(u)'
  <2>1. RollsOut(u)
    BY <1>2 DEF InTurn, At
  <2>2. call'[u] = call[u]
    OBVIOUS
  <2> QED
    BY <1>1, <2>1, <2>2 DEF RollsOut, SameView
<1> QED
  BY <1>1, <1>2 DEF InTurn, At

(* Nor where the one call that is not idle moves on in its rollout, or has *)
(* ended it.                                                               *)
LEMMA UserMoves ==
  ASSUME NEW u \in Users, OthersSame(u), \A v \in Users \ {u} : At(v, "idle"),
         IF call'[u].pc = "idle" THEN LastRuns' ELSE RollsOut(u)'
  PROVE  InTurn'
<1>1. \A v \in Users \ {u} : call'[v].pc = "idle"
  BY DEF OthersSame, At, Calls
<1> QED
  BY <1>1 DEF InTurn, AllUsersIdle, At

(* A rollout keeps to its turn.                                            *)
LEMMA RolloutTurn ==
  ASSUME Base, InTurn, serial, NEW u \in Users, Steps(u)
  PROVE  InTurn'
<1> DEFINE r == call[u]
           n == Len(revisions)
           Goal == IF call'[u].pc = "idle" THEN LastRuns' ELSE RollsOut(u)'
<1>0. u \in Calls /\ n \in Nat /\ r \in Call /\ Sound(n, u, r) /\ revisions \in Seq(Revision) /\ Positions = 1..n
  BY RowsAre DEF Base, Calls, Positions
<1>1. r.pc # "idle"
  BY DEF Steps, ReadDesired, ReconcileStop, ReconcilePlace, CommitBuild, ReadExisting, ReadVersion, Insert,
         InsertConflicts, SelectPrevious, SupersedeDone, StopWorkloads, UpdateDesired, StopApplicationDone,
         EndTick, Supersede, StopRevision, NextRevision, At
<1>2. RollsOut(u) /\ \A v \in Users \ {u} : At(v, "idle")
  BY <1>1 DEF InTurn, At
<1>k. r.kind = "rollout"
  BY <1>2 DEF RollsOut
<1>3. OthersSame(u)
  <2>1. \E state : Becomes(u, state)
    BY <1>0, RolloutStep, VisitStep, InsertStep DEF Steps
  <2> QED
    BY <1>0, <2>1, BecomesIs
<1>v. ASSUME ~Insert(u), \A i \in Positions : ~Supersede(u, i) PROVE SameView
  <2>1. ~UpdateDesired(u) /\ \A i \in Positions : ~StopRevision(u, i)
    BY <1>0, <1>k DEF UpdateDesired, StopRevision, At, Sound
  <2> QED
    BY <1>0, <1>v, <2>1, RowsStep, ViewIsSame
<1>w. SameView => LastRuns' = LastRuns /\ Len(revisions') = n /\ Running' = Running
  BY DEF LastRuns, SameView
<1>i. Idle.pc = "idle"
  BY IdleIs
<1>4. ASSUME NEW pc, NEW rev, NEW todo, r.pc # "insert", \A i \in Positions : ~Supersede(u, i),
             call'[u].pc = pc, call'[u].kind = "rollout", call'[u].build = r.build,
             call'[u].rev = rev, call'[u].todo = todo,
             pc \in {"create", "number", "insert", "reconcile", "act"} => LastRuns,
             pc = "commit" => FALSE,
             pc \in {"create", "number", "insert"} /\ r.build # NoBuild => OfBuild(r.build) = {},
             pc \in {"select", "supersede", "stop"} => rev = n /\ n \in Running,
             pc \in {"supersede", "stop"} => Running \ {n} \subseteq todo /\ n \notin todo
      PROVE  RollsOut(u)'
  <2>1. SameView
    BY <1>4, <1>v DEF Insert, At
  <2>2. PICK b : b = call[u].build
    OBVIOUS
  <2>3. OfBuild(b)' = OfBuild(b)
    BY <2>1 DEF SameView
  <2>4. OfBuild(call[u].build)' = OfBuild(b)'
    BY <1>4, <2>2 DEF OfBuild
  <2> QED
    BY <1>4, <1>w, <2>1, <2>2, <2>3, <2>4 DEF RollsOut
<1> HIDE DEF n, r
<1>f. ASSUME NEW pc, pc \in {"create", "number", "reconcile", "act"}
      PROVE  LET state == [r EXCEPT !.pc = pc] IN
             /\ state.pc = pc /\ state.kind = r.kind /\ state.build = r.build
             /\ state.rev = r.rev /\ state.todo = r.todo
  BY <1>0 DEF Call
<1>5. ASSUME CommitBuild(u) PROVE Goal
  <2>1. r.pc = "commit" /\ LastRuns
    BY <1>2, <1>5 DEF CommitBuild, At, RollsOut, r
  <2>0. \A i \in Positions : ~Supersede(u, i)
    BY <2>1 DEF Supersede, At, r
  <2>2. CASE OfBuild(r.build) = {}
    <3> DEFINE state == [r EXCEPT !.pc = "create"]
    <3>1. call'[u] = state
      BY <1>0, <1>5, <2>2, BecomesIs DEF CommitBuild, Goto, r
    <3>2. /\ state.pc = "create" /\ state.kind = r.kind /\ state.build = r.build
          /\ state.rev = r.rev /\ state.todo = r.todo
      BY <1>f
    <3> HIDE DEF state
    <3> QED
      BY <1>4, <1>k, <2>0, <2>1, <2>2, <3>1, <3>2
  <2>3. CASE OfBuild(r.build) # {}
    <3>0. PICK i : Becomes(u, [r EXCEPT !.pc = "reconcile", !.rev = i])
      BY <1>5, <2>3 DEF CommitBuild, r
    <3> DEFINE state == [r EXCEPT !.pc = "reconcile", !.rev = i]
    <3>1. call'[u] = state
      BY <1>0, <3>0, BecomesIs
    <3>2. state.pc = "reconcile" /\ state.kind = r.kind /\ state.build = r.build /\ state.todo = r.todo
      BY <1>0 DEF Call
    <3> HIDE DEF state
    <3> QED
      BY <1>4, <1>k, <2>0, <2>1, <3>1, <3>2
  <2> QED
    BY <2>2, <2>3
<1>6. ASSUME ReadExisting(u) PROVE Goal
  <2>1. r.pc = "create" /\ LastRuns /\ (r.build # NoBuild => OfBuild(r.build) = {})
    BY <1>2, <1>6 DEF ReadExisting, At, RollsOut, r
  <2>0. \A i \in Positions : ~Supersede(u, i)
    BY <2>1 DEF Supersede, At, r
  <2> DEFINE state == [r EXCEPT !.pc = "number"]
  <2>2. call'[u] = state
    BY <1>0, <1>6, <2>1, BecomesIs DEF ReadExisting, Goto, r
  <2>3. /\ state.pc = "number" /\ state.kind = r.kind /\ state.build = r.build
        /\ state.rev = r.rev /\ state.todo = r.todo
    BY <1>f
  <2> HIDE DEF state
  <2> QED
    BY <1>4, <1>k, <2>0, <2>1, <2>2, <2>3
<1>7. ASSUME ReadVersion(u) PROVE Goal
  <2>1. r.pc = "number" /\ LastRuns /\ (r.build # NoBuild => OfBuild(r.build) = {})
    BY <1>2, <1>7 DEF ReadVersion, At, RollsOut, r
  <2>0. \A i \in Positions : ~Supersede(u, i)
    BY <2>1 DEF Supersede, At, r
  <2> DEFINE k == LastVersion + 1
             state == [r EXCEPT !.pc = "insert", !.version = k]
  <2>2. call'[u] = state
    BY <1>0, <1>7, BecomesIs DEF ReadVersion, r
  <2> HIDE DEF k
  <2>3. /\ state.pc = "insert" /\ state.kind = r.kind /\ state.build = r.build
        /\ state.rev = r.rev /\ state.todo = r.todo
    BY <1>0 DEF Call
  <2> HIDE DEF state
  <2> QED
    BY <1>4, <1>k, <2>0, <2>1, <2>2, <2>3
<1>8. ASSUME InsertConflicts(u) PROVE Goal
  <2>1. r.pc = "insert" /\ LastRuns /\ (r.build # NoBuild => OfBuild(r.build) = {})
    BY <1>2, <1>8 DEF InsertConflicts, At, RollsOut, r
  <2>0. /\ \A i \in Positions : ~Supersede(u, i)
        /\ ~Insert(u)
    BY <1>8, <2>1 DEF Supersede, At, InsertConflicts, Insert, r
  <2>v. SameView
    BY <1>v, <2>0
  <2>2. CASE call'[u] = Idle
    BY <1>i, <1>w, <2>1, <2>2, <2>v
  <2>3. CASE r.attempt + 1 # MaxAttempts
    <3> DEFINE k == r.attempt + 1
               state == [r EXCEPT !.pc = "create", !.attempt = k, !.version = 0]
    <3>1. call'[u] = state
      BY <1>0, <1>8, <2>3, BecomesIs DEF InsertConflicts, r
    <3> HIDE DEF k
    <3>2. /\ state.pc = "create" /\ state.kind = r.kind /\ state.build = r.build
          /\ state.rev = r.rev /\ state.todo = r.todo
      BY <1>0 DEF Call
    <3> HIDE DEF state
    <3>3. OfBuild(call[u].build)' = {i \in Positions' : revisions'[i].build = r.build}
      BY <1>k, <3>1, <3>2 DEF OfBuild
    <3>4. r.build # NoBuild => OfBuild(call[u].build)' = {}
      BY <2>1, <2>v, <3>3 DEF SameView, OfBuild
    <3> QED
      BY <1>k, <1>w, <2>1, <2>v, <3>1, <3>2, <3>4 DEF RollsOut
  <2>4. CASE r.attempt + 1 = MaxAttempts
    BY <1>0, <1>8, <2>2, <2>4, BecomesIs DEF InsertConflicts, r
  <2> QED
    BY <2>3, <2>4
<1>9. ASSUME Insert(u) PROVE Goal
  <2>1. r.pc = "insert" /\ LastRuns
    BY <1>2, <1>9 DEF Insert, At, RollsOut, r
  <2>2. Len(revisions') = n + 1 /\ revisions'[n + 1] = NewRevision(u)
    BY <1>0, <1>9, InsertStep DEF n
  <2>3. n + 1 \in Running'
    <3>1. revisions'[n + 1].desired = "running"
      BY <2>2 DEF NewRevision
    <3>2. n + 1 \in Positions'
      BY <1>0, <2>2 DEF Positions
    <3> QED
      BY <3>1, <3>2 DEF Running
  <2> DEFINE k == n + 1
             state == [r EXCEPT !.pc = "select", !.rev = k, !.version = 0]
  <2>4. call'[u] = state
    BY <1>0, <1>9, BecomesIs DEF Insert, r, n
  <2> HIDE DEF k
  <2>5. state.pc = "select" /\ state.kind = r.kind /\ state.rev = k
    BY <1>0 DEF Call
  <2> HIDE DEF state
  <2> QED
    BY <1>k, <2>2, <2>3, <2>4, <2>5 DEF RollsOut, k
<1>10. ASSUME SelectPrevious(u) PROVE Goal
  <2>1. r.pc = "select" /\ r.rev = n /\ n \in Running
    BY <1>2, <1>10 DEF SelectPrevious, At, RollsOut, r, n
  <2>0. \A i \in Positions : ~Supersede(u, i)
    BY <2>1 DEF Supersede, At, r
  <2> DEFINE W == Running \ {r.rev}
             state == [r EXCEPT !.pc = "supersede", !.todo = W]
  <2>2. call'[u] = state
    BY <1>0, <1>10, BecomesIs DEF SelectPrevious, r
  <2>w. Running \ {n} \subseteq W /\ n \notin W
    BY <2>1
  <2> HIDE DEF W
  <2>3. /\ state.pc = "supersede" /\ state.kind = r.kind /\ state.build = r.build
        /\ state.rev = r.rev /\ state.todo = W
    BY <1>0 DEF Call
  <2> HIDE DEF state
  <2> QED
    BY <1>4, <1>k, <2>0, <2>1, <2>2, <2>3, <2>w
<1>11. ASSUME SupersedeDone(u) PROVE Goal
  <2>1. /\ r.pc = "supersede" /\ r.rev = n /\ n \in Running /\ Running \ {n} \subseteq r.todo
        /\ r.todo = {}
    BY <1>2, <1>11 DEF SupersedeDone, At, RollsOut, r, n
  <2>0. \A i \in Positions : ~Supersede(u, i)
    BY <2>1 DEF Supersede, r
  <2>2. LastRuns
    <3>1. Running = {n} /\ n # 0
      BY <1>0, <2>1 DEF Running
    <3> QED
      BY <3>1 DEF LastRuns, n
  <2> DEFINE state == [r EXCEPT !.pc = "reconcile"]
  <2>3. call'[u] = state
    BY <1>0, <1>11, BecomesIs DEF SupersedeDone, Goto, r
  <2>4. /\ state.pc = "reconcile" /\ state.kind = r.kind /\ state.build = r.build
        /\ state.rev = r.rev /\ state.todo = r.todo
    BY <1>f
  <2> HIDE DEF state
  <2> QED
    BY <1>4, <1>k, <2>0, <2>1, <2>2, <2>3, <2>4
<1>12. ASSUME NEW i \in Positions, Supersede(u, i) PROVE Goal
  <2>1. /\ r.pc = "supersede" /\ r.rev = n /\ n \in Running /\ Running \ {n} \subseteq r.todo
        /\ n \notin r.todo /\ i \in r.todo
    BY <1>2, <1>12 DEF Supersede, At, RollsOut, r, n
  <2>2. /\ SameRows /\ revisions'[i].desired = "stopped"
        /\ \A j \in Positions : j # i => revisions'[j] = revisions[j]
    BY <1>0, <1>12, Rewritten DEF Supersede
  <2>3. Running' = Running \ {i} /\ Len(revisions') = n
    <3>1. Positions' = Positions /\ Len(revisions') = n
      BY <2>2 DEF SameRows, Positions, n
    <3> QED
      BY <2>2, <3>1 DEF Running
  <2> DEFINE W == r.todo \ {i}
             state == [r EXCEPT !.pc = "stop", !.target = i, !.todo = W]
  <2>4. call'[u] = state
    BY <1>0, <1>12, BecomesIs DEF Supersede, r
  <2>w. Running' \ {n} \subseteq W /\ n \notin W /\ n \in Running'
    BY <2>1, <2>3
  <2> HIDE DEF W
  <2>5. state.pc = "stop" /\ state.kind = r.kind /\ state.rev = r.rev /\ state.todo = W
    BY <1>0 DEF Call
  <2> HIDE DEF state
  <2> QED
    BY <1>k, <2>1, <2>3, <2>4, <2>5, <2>w DEF RollsOut
<1>13. ASSUME StopWorkloads(u) PROVE Goal
  <2>1. /\ r.pc = "stop" /\ r.rev = n /\ n \in Running /\ Running \ {n} \subseteq r.todo
        /\ n \notin r.todo
    BY <1>2, <1>13 DEF StopWorkloads, At, RollsOut, r, n
  <2>0. \A i \in Positions : ~Supersede(u, i)
    BY <2>1 DEF Supersede, At, r
  <2>2. AfterStop(u) = "supersede"
    BY <1>k DEF AfterStop, r
  <2> DEFINE state == [r EXCEPT !.pc = "supersede", !.target = 0]
  <2>3. call'[u] = state
    BY <1>0, <1>13, <2>2, BecomesIs DEF StopWorkloads, r
  <2>4. /\ state.pc = "supersede" /\ state.kind = r.kind /\ state.build = r.build
        /\ state.rev = r.rev /\ state.todo = r.todo
    BY <1>0 DEF Call
  <2> HIDE DEF state
  <2> QED
    BY <1>4, <1>k, <2>0, <2>1, <2>3, <2>4
<1>14. ASSUME r.pc \in {"reconcile", "act"}, Becomes(u, AfterPass(u)) PROVE Goal
  <2>1. call'[u] = Idle
    BY <1>0, <1>14, <1>k, BecomesIs DEF AfterPass, r
  <2>2. SameView /\ LastRuns
    BY <1>2, <1>14, <1>v DEF RollsOut, Insert, Supersede, At, r
  <2> QED
    BY <1>i, <1>w, <2>1, <2>2
<1>15. ASSUME ReadDesired(u) PROVE Goal
  <2>1. r.pc = "reconcile" /\ LastRuns
    BY <1>2, <1>15 DEF ReadDesired, At, RollsOut, r
  <2>2. CASE Leased(u)
    BY <1>14, <1>15, <2>1, <2>2 DEF ReadDesired
  <2>3. CASE ~Leased(u)
    <3> DEFINE d == revisions[r.rev].desired
               state == [r EXCEPT !.pc = "act", !.sees = d]
    <3>1. call'[u] = state
      BY <1>0, <1>15, <2>3, BecomesIs DEF ReadDesired, r
    <3> HIDE DEF d
    <3>2. /\ state.pc = "act" /\ state.kind = r.kind /\ state.build = r.build
          /\ state.rev = r.rev /\ state.todo = r.todo
      BY <1>0 DEF Call
    <3>3. \A i \in Positions : ~Supersede(u, i)
      BY <2>1 DEF Supersede, At, r
    <3> HIDE DEF state
    <3> QED
      BY <1>4, <1>k, <2>1, <3>1, <3>2, <3>3
  <2> QED
    BY <2>2, <2>3
<1>16. ASSUME ReconcileStop(u) \/ ReconcilePlace(u) PROVE Goal
  BY <1>14, <1>16 DEF ReconcileStop, ReconcilePlace, At, r
<1>17. /\ ~UpdateDesired(u) /\ ~StopApplicationDone(u) /\ ~EndTick(u)
       /\ \A i \in Positions : ~StopRevision(u, i) /\ ~NextRevision(u, i)
  BY <1>0, <1>k DEF UpdateDesired, StopApplicationDone, EndTick, StopRevision, NextRevision, At, Sound, r
<1> HIDE DEF Goal
<1>18. Goal
  BY <1>5, <1>6, <1>7, <1>8, <1>9, <1>10, <1>11, <1>12, <1>13, <1>15, <1>16, <1>17 DEF Steps
<1> QED
  BY <1>2, <1>3, <1>18, UserMoves DEF Goal

(* A rollout begins when nobody else is at it.                             *)
LEMMA BeginTurn ==
  ASSUME Base, InTurn, serial, serial', NEW u \in Users,
         \/ Deploy(u) \/ StopApplication(u)
         \/ \E b \in Builds : ReadBuild(u, b)
         \/ \E i \in Positions : Rollback(u, i) \/ \E a \in {"start", "stop", "restart"} : Request(u, a, i)
  PROVE  InTurn'
<1>0. u \in Calls /\ revisions \in Seq(Revision)
  BY DEF Base, Calls
<1>1. /\ AllUsersIdle /\ UNCHANGED revisions
      /\ \/ Becomes(u, [Idle EXCEPT !.pc = "create", !.kind = "rollout"])
         \/ \E b \in Builds : Becomes(u, [Idle EXCEPT !.pc = "commit", !.kind = "rollout", !.build = b])
         \/ Becomes(u, [Idle EXCEPT !.pc = "create", !.kind = "rollout", !.build = NoBuild])
  BY DEF Deploy, StopApplication, ReadBuild, Rollback, Request
<1>2. \E state : Becomes(u, state) /\ state.kind = "rollout"
                 /\ (state.pc = "commit" \/ (state.pc = "create" /\ state.build = NoBuild))
  <2>1. ASSUME NEW b
        PROVE  /\ [Idle EXCEPT !.pc = "commit", !.kind = "rollout", !.build = b].kind = "rollout"
               /\ [Idle EXCEPT !.pc = "commit", !.kind = "rollout", !.build = b].pc = "commit"
    BY IdleIs DEF Call
  <2>2. /\ [Idle EXCEPT !.pc = "create", !.kind = "rollout"].kind = "rollout"
        /\ [Idle EXCEPT !.pc = "create", !.kind = "rollout"].pc = "create"
        /\ [Idle EXCEPT !.pc = "create", !.kind = "rollout"].build = NoBuild
    BY IdleIs DEF Call
  <2>3. /\ [Idle EXCEPT !.pc = "create", !.kind = "rollout", !.build = NoBuild].kind = "rollout"
        /\ [Idle EXCEPT !.pc = "create", !.kind = "rollout", !.build = NoBuild].pc = "create"
        /\ [Idle EXCEPT !.pc = "create", !.kind = "rollout", !.build = NoBuild].build = NoBuild
    BY IdleIs DEF Call
  <2> QED
    BY <1>1, <2>1, <2>2, <2>3
<1>3. PICK state : Becomes(u, state) /\ state.kind = "rollout"
                   /\ (state.pc = "commit" \/ (state.pc = "create" /\ state.build = NoBuild))
  BY <1>2
<1>4. call'[u] = state /\ OthersSame(u)
  BY <1>0, <1>3, BecomesIs
<1>5. LastRuns /\ LastRuns' = LastRuns
  <2>1. SameView
    BY <1>0, <1>1, SameRowsIfSame, ViewIsSame DEF SameDesired
  <2> QED
    BY <1>1, <2>1 DEF InTurn, LastRuns, SameView
<1>6. RollsOut(u)'
  BY <1>3, <1>4, <1>5 DEF RollsOut
<1> QED
  BY <1>1, <1>3, <1>4, <1>6, UserMoves DEF AllUsersIdle

LEMMA InTurnInit == Init => InTurn
<1> SUFFICES ASSUME Init PROVE InTurn
  OBVIOUS
<1>1. \A u \in Users : call[u].pc = "idle"
  BY IdleIs DEF Init, Calls
<1>2. LastRuns
  <2>1. Len(revisions) = 0
    BY EmptySeq DEF Init
  <2> QED
    BY <2>1 DEF LastRuns, Running, Positions
<1> QED
  BY <1>1, <1>2 DEF InTurn, At

LEMMA InTurnStep == Base /\ InTurn /\ [Next]_vars => InTurn'
<1> SUFFICES ASSUME Base, InTurn, [Next]_vars PROVE InTurn'
  OBVIOUS
<1>0. revisions \in Seq(Revision) /\ Users \cap Ticks = {} /\ Users \subseteq Calls /\ Ticks \subseteq Calls
  BY CallAssumption DEF Base, Calls
<1>1. ASSUME UNCHANGED revisions PROVE SameView
  BY <1>0, <1>1, SameRowsIfSame, ViewIsSame DEF SameDesired
<1>2. ASSUME ~serial' PROVE InTurn'
  BY <1>2 DEF InTurn
<1>3. ASSUME NEW t \in Ticks, Steps(t) PROVE InTurn'
  <2>1. Sound(Len(revisions), t, call[t]) /\ t \in Calls
    BY <1>0 DEF Base
  <2>2. /\ ~Insert(t) /\ ~UpdateDesired(t)
        /\ \A i \in Positions : ~Supersede(t, i) /\ ~StopRevision(t, i)
    BY <2>1 DEF Insert, UpdateDesired, Supersede, StopRevision, At, Sound
  <2>3. SameView /\ UNCHANGED serial
    BY <1>3, <2>1, <2>2, RowsStep, ViewIsSame
  <2>4. \E state : Becomes(t, state)
    BY <1>3, <2>1, <2>2, RolloutStep, VisitStep DEF Steps
  <2>5. OthersSame(t)
    BY <2>1, <2>4, BecomesIs
  <2> QED
    BY <1>0, <2>3, <2>5, UsersWait DEF OthersSame
<1>4. ASSUME NEW t \in Ticks, StartTick(t) PROVE InTurn'
  <2>1. OthersSame(t) /\ SameView /\ UNCHANGED serial
    BY <1>0, <1>1, <1>4, BecomesIs DEF StartTick
  <2> QED
    BY <1>0, <2>1, UsersWait DEF OthersSame
<1>5. ASSUME NEW u \in Users, Steps(u) PROVE InTurn'
  <2>1. UNCHANGED serial
    BY <1>0, <1>5, RowsStep DEF Insert
  <2> QED
    BY <1>2, <1>5, <2>1, RolloutTurn DEF Base
<1>6. ASSUME NEW u \in Users,
             \/ Deploy(u) \/ StopApplication(u)
             \/ \E b \in Builds : ReadBuild(u, b)
             \/ \E i \in Positions : Rollback(u, i) \/ \E a \in {"start", "stop", "restart"} : Request(u, a, i)
      PROVE  InTurn'
  <2>1. serial' => serial
    BY <1>6 DEF Deploy, StopApplication, ReadBuild, Rollback, Request
  <2> QED
    BY <1>2, <1>6, <2>1, BeginTurn DEF Base
<1>7. CASE ApiRestart
  <2>1. /\ \A u \in Users : call'[u] = Idle
        /\ SameView /\ (serial' => serial /\ AllUsersIdle)
    BY <1>0, <1>1, <1>7 DEF ApiRestart
  <2>2. serial' => LastRuns'
    BY <2>1 DEF InTurn, LastRuns, SameView
  <2> QED
    BY <2>1, <2>2, IdleIs DEF InTurn, At
<1>8. CASE UNCHANGED vars
  BY <1>1, <1>8, UsersWait DEF vars
<1> QED
  BY <1>3, <1>4, <1>5, <1>6, <1>7, <1>8 DEF Next, NewCalls, Calls

(* When fresh revisions were rolled out one after the other, the last of   *)
(* them alone is desired running, whatever the deployment controller did   *)
(* and whenever the API was restarted in between                           *)
(* (supersedePreviousDeployments).                                         *)
THEOREM LastRolloutRuns == Spec => []SerialRollout
<1>1. InTurn => SerialRollout
  BY DEF InTurn, LastRuns, SerialRollout
<1> QED
  BY <1>1, BaseInvariance, InTurnInit, InTurnStep, PTL DEF Spec
=============================================================================
