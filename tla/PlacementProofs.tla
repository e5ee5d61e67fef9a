--------------------------- MODULE PlacementProofs ---------------------------
(***************************************************************************)
(* Proofs about Placement, for every set of nodes, revisions, volumes and  *)
(* ports, every capacity and every demand.                                 *)
(***************************************************************************)
EXTENDS Placement, SetInduction, FiniteSetTheorems, TLAPS

-----------------------------------------------------------------------------
(* The load of a node is a sum over a set (MapThenSumSet), defined by a    *)
(* recursive function on its subsets: that there is one, and that the      *)
(* order of the elements does not matter.                                  *)

Some(S) == CHOOSE x \in S : TRUE
Units(w) == Demand[w.of]
Taken(S) == MapThenSumSet(LAMBDA w : Demand[w.of], S)
SumFrom(S, g) == [s \in SUBSET S |-> IF s = {} THEN 0 ELSE Units(Some(s)) + g[s \ {Some(s)}]]

(* There is a function that sums over every subset of a finite set: one    *)
(* for the sets of at most n elements, for every n.                        *)
LEMMA SumExists ==
  ASSUME NEW S, IsFiniteSet(S)
  PROVE  \E g : g = SumFrom(S, g)
<1> DEFINE Small(n) == {T \in SUBSET S : Cardinality(T) <= n}
           SumsUpTo(n, g) == g = [s \in Small(n) |-> IF s = {} THEN 0 ELSE Units(Some(s)) + g[s \ {Some(s)}]]
           G == {n \in Nat : \E g : SumsUpTo(n, g)}
<1>1. ASSUME NEW T \in SUBSET S
      PROVE  /\ Cardinality(T) \in Nat
             /\ Cardinality(T) = 0 <=> T = {}
             /\ T # {} => Some(T) \in T /\ T \ {Some(T)} \in SUBSET S /\ Cardinality(T \ {Some(T)}) = Cardinality(T) - 1
  <2>1. IsFiniteSet(T)
    BY FS_Subset
  <2>2. T # {} => Some(T) \in T
    BY DEF Some
  <2>3. Cardinality(T) \in Nat /\ (Cardinality(T) = 0 <=> T = {})
    BY <2>1, FS_CardinalityType, FS_EmptySet
  <2> QED
    BY <2>1, <2>2, <2>3, FS_RemoveElement
<1>2. 0 \in G
  <2> DEFINE g0 == [s \in Small(0) |-> 0]
  <2>1. ASSUME NEW s \in Small(0) PROVE s = {}
    <3>1. s \in SUBSET S /\ Cardinality(s) <= 0
      OBVIOUS
    <3>2. Cardinality(s) \in Nat /\ (Cardinality(s) = 0 <=> s = {})
      BY <1>1, <3>1
    <3>3. Cardinality(s) = 0
      BY <3>1, <3>2
    <3> QED
      BY <3>2, <3>3
  <2>2. SumsUpTo(0, g0)
    BY <2>1
  <2> QED
    BY <2>2
<1>3. ASSUME NEW n \in Nat, n \in G PROVE n + 1 \in G
  <2>1. PICK g : SumsUpTo(n, g)
    BY <1>3
  <2> DEFINE h == [s \in Small(n + 1) |-> IF s \in Small(n) THEN g[s]
                                          ELSE Units(Some(s)) + g[s \ {Some(s)}]]
  <2>2. ASSUME NEW s \in Small(n + 1)
        PROVE  h[s] = IF s = {} THEN 0 ELSE Units(Some(s)) + h[s \ {Some(s)}]
    <3>1. CASE s = {}
      <4>1. s \in Small(n)
        BY <3>1, FS_EmptySet
      <4> QED
        BY <2>1, <3>1, <4>1
    <3>2. CASE s # {}
      <4> DEFINE t == s \ {Some(s)}
      <4>1. t \in Small(n) /\ t \in Small(n + 1)
        BY <1>1, <3>2
      <4>2. h[t] = g[t]
        BY <4>1
      <4>3. s \in Small(n) => g[s] = Units(Some(s)) + g[t]
        BY <2>1, <3>2
      <4> QED
        BY <3>2, <4>2, <4>3
    <3> QED
      BY <3>1, <3>2
  <2>3. SumsUpTo(n + 1, h)
    <3>1. h = [s \in Small(n + 1) |-> h[s]]
      OBVIOUS
    <3> HIDE DEF h
    <3> QED
      BY <2>2, <3>1
  <2>4. n + 1 \in Nat
    OBVIOUS
  <2> HIDE DEF SumsUpTo, h
  <2> QED
    BY <2>3, <2>4
<1>4. Cardinality(S) \in Nat /\ Cardinality(S) \in G
  <2> HIDE DEF G
  <2>1. Nat \subseteq G
    BY <1>2, <1>3, CountingUp
  <2>2. Cardinality(S) \in Nat
    BY FS_CardinalityType
  <2> QED
    BY <2>1, <2>2
<1>5. Small(Cardinality(S)) = SUBSET S
  BY FS_Subset
<1> QED
  BY <1>4, <1>5 DEF SumFrom

(* Those of a set and of a part of it agree on the part.                   *)
LEMMA SumsAgree ==
  ASSUME NEW S, IsFiniteSet(S), NEW T \in SUBSET S, NEW g, NEW h, g = SumFrom(S, g), h = SumFrom(T, h)
  PROVE  \A U \in SUBSET T : g[U] = h[U]
<1> DEFINE G == {U \in SUBSET T : g[U] = h[U]}
<1>1. IsFiniteSet(T)
  BY FS_Subset
<1>2. ASSUME NEW U \in SUBSET T, \A V \in SUBSET U : V # U => V \in G PROVE U \in G
  <2>1. U # {} => Some(U) \in U
    BY DEF Some
  <2>2. U # {} => U \ {Some(U)} \in G
    BY <1>2, <2>1
  <2>3. g[U] = IF U = {} THEN 0 ELSE Units(Some(U)) + g[U \ {Some(U)}]
    BY DEF SumFrom
  <2>4. h[U] = IF U = {} THEN 0 ELSE Units(Some(U)) + h[U \ {Some(U)}]
    BY DEF SumFrom
  <2> QED
    BY <2>2, <2>3, <2>4
<1>3. \A U \in SUBSET T : U \in G
  <2> HIDE DEF G
  <2> QED
    BY <1>1, <1>2, Shrinking
<1> QED
  BY <1>3

(* The sum is the value of such a function.                                *)
LEMMA TakenIs ==
  ASSUME NEW S, IsFiniteSet(S)
  PROVE  \E g : g = SumFrom(S, g) /\ Taken(S) = g[S]
<1> DEFINE g == CHOOSE g : g = SumFrom(S, g)
<1>1. g = SumFrom(S, g)
  BY SumExists
<1>2. Taken(S) = g[S]
  BY Zenon DEF Taken, MapThenSumSet, MapThenFoldSet, SumFrom, Units, Some
<1> QED
  BY <1>1, <1>2

(* The sum of a set is that of one element and of the others.              *)
LEMMA TakenStep ==
  /\ Taken({}) = 0
  /\ \A S : IsFiniteSet(S) /\ S # {} => Taken(S) = Units(Some(S)) + Taken(S \ {Some(S)})
<1>1. Taken({}) = 0
  <2>1. PICK g : g = SumFrom({}, g) /\ Taken({}) = g[{}]
    BY TakenIs, FS_EmptySet
  <2> QED
    BY <2>1 DEF SumFrom
<1>2. ASSUME NEW S, IsFiniteSet(S), S # {}
      PROVE  Taken(S) = Units(Some(S)) + Taken(S \ {Some(S)})
  <2> DEFINE T == S \ {Some(S)}
  <2>1. T \in SUBSET S /\ IsFiniteSet(T)
    BY <1>2, FS_Subset
  <2>2. PICK g : g = SumFrom(S, g) /\ Taken(S) = g[S]
    BY <1>2, TakenIs
  <2>3. PICK h : h = SumFrom(T, h) /\ Taken(T) = h[T]
    BY <2>1, TakenIs
  <2>4. g[T] = h[T]
    <3> HIDE DEF T
    <3> QED
      BY <1>2, <2>1, <2>2, <2>3, SumsAgree
  <2>5. g[S] = Units(Some(S)) + g[T]
    BY <1>2, <2>2 DEF SumFrom
  <2> QED
    BY <2>2, <2>3, <2>4, <2>5
<1> QED
  BY <1>1, <1>2

(* The sums are natural numbers.                                           *)
LEMMA TakenType ==
  ASSUME NEW S, IsFiniteSet(S), \A w \in S : w.of \in Revisions
  PROVE  Taken(S) \in Nat
<1> DEFINE G == {T \in SUBSET S : Taken(T) \in Nat}
<1>1. ASSUME NEW T \in SUBSET S, \A U \in SUBSET T : U # T => U \in G PROVE T \in G
  <2>1. CASE T = {}
    BY <2>1, TakenStep
  <2>2. CASE T # {}
    <3>1. Some(T) \in T
      BY <2>2 DEF Some
    <3>2. Units(Some(T)) \in Nat
      BY <3>1, PlacementAssumption DEF Units
    <3>3. Taken(T \ {Some(T)}) \in Nat
      BY <1>1, <3>1
    <3>4. Taken(T) = Units(Some(T)) + Taken(T \ {Some(T)})
      BY <2>2, FS_Subset, TakenStep
    <3> QED
      BY <3>2, <3>3, <3>4
  <2> QED
    BY <2>1, <2>2
<1>2. \A T \in SUBSET S : T \in G
  <2> HIDE DEF G
  <2> QED
    BY <1>1, Shrinking
<1> QED
  BY <1>2

(* Any element may be taken out first.                                     *)
LEMMA TakenOut ==
  ASSUME NEW S, IsFiniteSet(S), \A w \in S : w.of \in Revisions, NEW x \in S
  PROVE  Taken(S) = Units(x) + Taken(S \ {x})
<1> DEFINE G == {T \in SUBSET S : \A y \in T : Taken(T) = Units(y) + Taken(T \ {y})}
<1>1. ASSUME NEW T \in SUBSET S, \A U \in SUBSET T : U # T => U \in G PROVE T \in G
  <2> SUFFICES ASSUME NEW y \in T PROVE Taken(T) = Units(y) + Taken(T \ {y})
    OBVIOUS
  <2> DEFINE c == Some(T)
             R == T \ {y, c}
  <2>1. c \in T
    BY DEF Some
  <2>2. Taken(T) = Units(c) + Taken(T \ {c})
    BY FS_Subset, TakenStep
  <2>3. CASE y = c
    BY <2>2, <2>3
  <2>4. CASE y # c
    <3>1. T \ {c} \in G /\ y \in T \ {c} /\ (T \ {c}) \ {y} = R
      BY <1>1, <2>1, <2>4
    <3>2. T \ {y} \in G /\ c \in T \ {y} /\ (T \ {y}) \ {c} = R
      BY <1>1, <2>1, <2>4
    <3>3. Taken(T \ {c}) = Units(y) + Taken(R)
      BY <3>1
    <3>4. Taken(T \ {y}) = Units(c) + Taken(R)
      BY <3>2
    <3>5. Taken(R) \in Nat
      BY FS_Subset, TakenType
    <3>6. Units(c) \in Nat /\ Units(y) \in Nat
      BY <2>1, PlacementAssumption DEF Units
    <3> HIDE DEF c, R
    <3> QED
      BY <2>2, <3>3, <3>4, <3>5, <3>6
  <2> QED
    BY <2>3, <2>4
<1>2. \A T \in SUBSET S : T \in G
  <2> HIDE DEF G
  <2> QED
    BY <1>1, Shrinking
<1> QED
  BY <1>2

(* An element that is added counts its units...                            *)
LEMMA TakenAdd ==
  ASSUME NEW S, IsFiniteSet(S), NEW x, x \notin S, \A w \in S \cup {x} : w.of \in Revisions
  PROVE  /\ IsFiniteSet(S \cup {x})
         /\ Taken(S \cup {x}) = Units(x) + Taken(S)
<1>1. (S \cup {x}) \ {x} = S
  OBVIOUS
<1>2. IsFiniteSet(S \cup {x})
  BY FS_AddElement
<1> QED
  BY <1>1, <1>2, TakenOut

(* ... and a part counts no more than the whole.                           *)
LEMMA TakenPart ==
  ASSUME NEW S, IsFiniteSet(S), \A w \in S : w.of \in Revisions, NEW T \in SUBSET S
  PROVE  Taken(T) <= Taken(S)
<1> DEFINE G == {U \in SUBSET S : Taken(U \cap T) <= Taken(U)}
<1>1. {} \in G
  <2>1. {} \cap T = {}
    OBVIOUS
  <2> QED
    BY <2>1, TakenStep
<1>2. ASSUME NEW U \in SUBSET S, NEW x \in S \ U, U \in G PROVE U \cup {x} \in G
  <2>1. IsFiniteSet(U) /\ IsFiniteSet(U \cap T)
    BY FS_Subset
  <2>2. Taken(U) \in Nat /\ Taken(U \cap T) \in Nat /\ Units(x) \in Nat
    BY <2>1, TakenType, PlacementAssumption DEF Units
  <2>3. Taken(U \cup {x}) = Units(x) + Taken(U)
    BY <2>1, TakenAdd
  <2>0. Taken(U \cap T) <= Taken(U)
    BY <1>2
  <2>4. ASSUME x \in T PROVE Taken((U \cup {x}) \cap T) <= Taken(U \cup {x})
    <3>1. (U \cup {x}) \cap T = (U \cap T) \cup {x}
      BY <2>4
    <3>2. Taken((U \cap T) \cup {x}) = Units(x) + Taken(U \cap T)
      BY <2>1, TakenAdd
    <3>3. Taken((U \cup {x}) \cap T) = Units(x) + Taken(U \cap T)
      BY <3>1, <3>2
    <3> QED
      BY <2>0, <2>2, <2>3, <3>3
  <2>5. ASSUME x \notin T PROVE Taken((U \cup {x}) \cap T) <= Taken(U \cup {x})
    <3>1. (U \cup {x}) \cap T = U \cap T
      BY <2>5
    <3>2. Taken((U \cup {x}) \cap T) = Taken(U \cap T)
      BY <3>1
    <3> QED
      BY <2>0, <2>2, <2>3, <3>2
  <2> QED
    BY <2>4, <2>5
<1>3. S \in G
  <2> HIDE DEF G
  <2> QED
    BY <1>1, <1>2, AddingUp
<1>4. S \cap T = T
  OBVIOUS
<1> QED
  BY <1>3, <1>4

(* Rewriting rows does not add any units, as long as they stay rows of     *)
(* their revisions; two of them may become one.                            *)
LEMMA TakenRewritten ==
  ASSUME NEW S, IsFiniteSet(S), NEW f, \A w \in S : w.of \in Revisions /\ f[w].of = w.of
  PROVE  /\ IsFiniteSet({f[w] : w \in S})
         /\ Taken({f[w] : w \in S}) <= Taken(S)
<1> DEFINE Rows(T) == {f[w] : w \in T}
           G == {T \in SUBSET S : IsFiniteSet(Rows(T)) /\ Taken(Rows(T)) <= Taken(T)}
<1>1. {} \in G
  <2>1. Rows({}) = {}
    OBVIOUS
  <2> HIDE DEF Rows
  <2> QED
    BY <2>1, TakenStep, FS_EmptySet
<1>2. ASSUME NEW T \in SUBSET S, NEW x \in S \ T, T \in G PROVE T \cup {x} \in G
  <2>1. IsFiniteSet(T) /\ IsFiniteSet(Rows(T)) /\ Taken(Rows(T)) <= Taken(T)
    BY <1>2, FS_Subset
  <2>2. \A w \in Rows(T) \cup {f[x]} : w.of \in Revisions
    OBVIOUS
  <2>3. Taken(T) \in Nat /\ Taken(Rows(T)) \in Nat /\ Units(x) \in Nat /\ Units(f[x]) = Units(x)
    <3>1. Taken(T) \in Nat
      BY <2>1, TakenType
    <3>2. Taken(Rows(T)) \in Nat
      <4> HIDE DEF Rows
      <4> QED
        BY <2>1, <2>2, TakenType
    <3> QED
      BY <3>1, <3>2, PlacementAssumption DEF Units
  <2>4. Taken(T \cup {x}) = Units(x) + Taken(T)
    BY <2>1, TakenAdd
  <2>5. Rows(T \cup {x}) = Rows(T) \cup {f[x]}
    OBVIOUS
  <2> HIDE DEF Rows
  <2>6. ASSUME f[x] \in Rows(T) PROVE IsFiniteSet(Rows(T \cup {x})) /\ Taken(Rows(T \cup {x})) <= Taken(T \cup {x})
    <3>1. Rows(T) \cup {f[x]} = Rows(T)
      BY <2>6
    <3>2. Rows(T \cup {x}) = Rows(T)
      BY <2>5, <3>1
    <3>3. Taken(Rows(T \cup {x})) = Taken(Rows(T))
      BY <3>2
    <3>4. IsFiniteSet(Rows(T \cup {x}))
      BY <2>1, <3>2
    <3> QED
      BY <2>1, <2>3, <2>4, <3>3, <3>4
  <2>7. ASSUME f[x] \notin Rows(T) PROVE IsFiniteSet(Rows(T \cup {x})) /\ Taken(Rows(T \cup {x})) <= Taken(T \cup {x})
    <3>1. /\ IsFiniteSet(Rows(T) \cup {f[x]})
          /\ Taken(Rows(T) \cup {f[x]}) = Units(f[x]) + Taken(Rows(T))
      BY <2>1, <2>2, <2>7, TakenAdd
    <3>2. Taken(Rows(T \cup {x})) = Units(f[x]) + Taken(Rows(T)) /\ IsFiniteSet(Rows(T \cup {x}))
      BY <2>5, <3>1
    <3> QED
      BY <2>1, <2>3, <2>4, <3>2
  <2> QED
    BY <2>6, <2>7
<1>3. S \in G
  <2> HIDE DEF G
  <2> QED
    BY <1>1, <1>2, AddingUp
<1> QED
  BY <1>3

-----------------------------------------------------------------------------
(* The inductive invariant                                                 *)

PlacingRow == [pc : {"idle", "volumes", "load", "schedule", "claim", "claimed", "ports", "insert"},
               required : Nodes \cup {NoNode}, seen : Snapshot, node : Nodes \cup {NoNode},
               occupied : SUBSET PortRange]

(* What the pass of r has, by the step it is at.                           *)
HasChosen(r) == placing[r].pc \in {"claim", "claimed", "ports", "insert"}
HasClaimed(r) == placing[r].pc \in {"claimed", "ports", "insert"}
HasAgreed(r) == placing[r].pc \in {"ports", "insert"}
HasCounted(r) == placing[r].pc \in {"schedule", "claim", "claimed"}
Passing(r) == placing[r].pc # "idle"

Shaped == PlcTypeOK /\ placing \in [Revisions -> PlacingRow] /\ IsFiniteSet(placed)

(* Passes and workloads are of revisions that exist, and what was read is  *)
(* for others.                                                             *)
Existing ==
  /\ DOMAIN gathered \cap DOMAIN revision = {}
  /\ \A r \in Revisions : Passing(r) => r \in DOMAIN revision
  /\ \A w \in placed : w.of \in DOMAIN revision

(* The foreign keys: what is mounted or captured has a row.                *)
RetainedListed == \A v \in Volumes : Retained(v) => VolumeListed(v)

(* A pass that has chosen a node has one; after its claim every volume of  *)
(* its revision has a node; after it has read the claim back, its own.     *)
Claims ==
  \A r \in Revisions :
    /\ HasChosen(r) => placing[r].node \in Nodes
    /\ HasClaimed(r) => \A v \in revision[r] : volume[v].node # NoNode
    /\ HasAgreed(r) => \A v \in revision[r] : volume[v].node = placing[r].node

Beside == Shaped /\ Existing /\ RetainedListed /\ Claims /\ VolumeAffinity

(* A volume that is retained is not about to be deleted, unless it was so  *)
(* when it was attached or captured.                                       *)
Kept == \A v \in Volumes \ tooLate : Retained(v) => ~Doomed(v)

(* Without overlapping passes, the one there is has counted no less than   *)
(* what is placed, and leaves room for what it places.                     *)
Counted ==
  ~passesMet /\ ~recounted =>
    /\ \A r, s \in Revisions : Passing(r) /\ Passing(s) => r = s
    /\ \A r \in Revisions, n \in Nodes : HasCounted(r) => Load(n) <= placing[r].seen.load[n]
    /\ \A r \in Revisions : HasChosen(r) => Load(placing[r].node) + Demand[r] <= Capacity[placing[r].node]
    /\ \A n \in Nodes : Load(n) <= Capacity[n]

-----------------------------------------------------------------------------
(* Type correctness                                                        *)

On(n) == {w \in placed : w.node = n /\ ~w.stopped}

(* The load of a node is the sum of the demands of what is placed there.   *)
LEMMA LoadIs ==
  ASSUME NEW n
  PROVE  Load(n) = Taken(On(n)) /\ Load(n)' = Taken(On(n)')
<1>1. Load(n) = Taken(On(n))
  BY Zenon DEF Load, Taken, On
<1>2. Load(n)' = Taken({w \in placed' : w.node = n /\ ~w.stopped})
  BY Zenon DEF Load, Taken, MapThenSumSet, MapThenFoldSet
<1>3. On(n)' = {w \in placed' : w.node = n /\ ~w.stopped}
  BY Zenon DEF On
<1> QED
  BY Zenon, <1>1, <1>2, <1>3

(* A load is a natural number.                                             *)
LEMMA LoadType ==
  ASSUME Shaped, NEW n
  PROVE  /\ IsFiniteSet(On(n)) /\ \A w \in On(n) : w.of \in Revisions
         /\ Load(n) \in Nat
<1>1. IsFiniteSet(On(n)) /\ \A w \in On(n) : w.of \in Revisions
  BY FS_Subset DEF Shaped, PlcTypeOK, WorkloadRow, On
<1> QED
  BY <1>1, LoadIs, TakenType

(* A row that is written anew is a workload row of the same revision, node *)
(* and port.                                                               *)
LEMMA Rewritten ==
  ASSUME NEW w \in WorkloadRow, NEW b \in BOOLEAN
  PROVE  /\ [w EXCEPT !.wanted = b] \in WorkloadRow
         /\ [w EXCEPT !.wanted = b].of = w.of
         /\ [w EXCEPT !.wanted = b].node = w.node
         /\ [w EXCEPT !.wanted = b].stopped = w.stopped
         /\ [w EXCEPT !.stopped = b] \in WorkloadRow
         /\ [w EXCEPT !.stopped = b].of = w.of
         /\ [w EXCEPT !.stopped = b].node = w.node
         /\ [w EXCEPT !.stopped = b].stopped = b
         /\ [w EXCEPT !.wanted = b, !.stopped = FALSE] \in WorkloadRow
         /\ [w EXCEPT !.wanted = b, !.stopped = FALSE].of = w.of
         /\ [w EXCEPT !.wanted = b, !.stopped = FALSE].node = w.node
BY DEF WorkloadRow

(* The rows that NodeOffline(n) leaves.                                    *)
Left(n) == [w \in placed |-> IF w.node = n /\ w.wanted THEN AfterLoss(w) ELSE w]
(* NodeOffline rewrites the rows of its node one by one; where none of     *)
(* them was stopped, the same rows count as before.                        *)
LEMMA LossRewrites ==
  ASSUME Shaped, NEW n \in Nodes, NodeOffline(n)
  PROVE  /\ placed' = {Left(n)[w] : w \in placed}
         /\ \A w \in placed : /\ Left(n)[w] \in WorkloadRow
                              /\ Left(n)[w].of = w.of
                              /\ Left(n)[w].node = w.node
                              /\ ~recounted' /\ ~Left(n)[w].stopped => ~w.stopped
         /\ IsFiniteSet(placed')
<1>1. placed' = {Left(n)[w] : w \in placed}
  BY Zenon DEF NodeOffline, Left
<1>2. ASSUME NEW w \in placed
      PROVE  /\ Left(n)[w] \in WorkloadRow
             /\ Left(n)[w].of = w.of
             /\ Left(n)[w].node = w.node
             /\ ~recounted' /\ ~Left(n)[w].stopped => ~w.stopped
  <2>1. w \in WorkloadRow
    BY DEF Shaped, PlcTypeOK
  <2>2. /\ AfterLoss(w) \in WorkloadRow
        /\ AfterLoss(w).of = w.of
        /\ AfterLoss(w).node = w.node
    <3> DEFINE b == (revision[w.of] # {})
    <3>1. b \in BOOLEAN
      OBVIOUS
    <3>2. AfterLoss(w) = [w EXCEPT !.wanted = b, !.stopped = FALSE]
      BY DEF AfterLoss
    <3> HIDE DEF b
    <3> QED
      BY <2>1, <3>1, <3>2 DEF WorkloadRow
  <2>3. Left(n)[w] = AfterLoss(w) \/ Left(n)[w] = w
    BY Zenon DEF Left
  <2>4. ASSUME ~recounted', w.node = n, w.wanted PROVE ~w.stopped
    BY <2>4 DEF NodeOffline
  <2>5. ~(w.node = n /\ w.wanted) => Left(n)[w] = w
    BY Zenon DEF Left
  <2> QED
    BY <2>1, <2>2, <2>3, <2>4, <2>5
<1>3. \A w \in placed : w.of \in Revisions
  BY DEF Shaped, PlcTypeOK, WorkloadRow
<1>4. IsFiniteSet(placed')
  BY <1>1, <1>2, <1>3, TakenRewritten DEF Shaped
<1> QED
  BY <1>1, <1>2, <1>4

(* What a pass keeps is well formed if its row is.                         *)
LEMMA PlacingKept ==
  ASSUME Shaped, placing' \in [Revisions -> PlacingRow],
         UNCHANGED <<nodeReady, volume, mounted, gathered, revision, placed, volumeCommand, volumeCall,
                     passes, passesMet, recounted, tooLate>>
  PROVE  Shaped'
<1>1. ASSUME NEW r \in Revisions
      PROVE  /\ placing[r].pc \in {"idle", "volumes", "load", "schedule", "claim", "claimed", "ports", "insert"}
             /\ placing[r].seen \in Snapshot
             /\ placing[r].occupied \subseteq PortRange
             /\ {placing[r].required, placing[r].node} \subseteq Nodes \cup {NoNode}
             /\ (placing[r])'.pc \in {"idle", "volumes", "load", "schedule", "claim", "claimed", "ports", "insert"}
             /\ (placing[r])'.seen \in Snapshot
             /\ (placing[r])'.occupied \subseteq PortRange
             /\ {(placing[r])'.required, (placing[r])'.node} \subseteq Nodes \cup {NoNode}
  BY DEF Shaped, PlacingRow
<1> QED
  BY <1>1 DEF Shaped, PlcTypeOK, WorkloadRow

(* The updates that the steps of a pass make to its row.                   *)
LEMMA PlacingPut ==
  ASSUME placing \in [Revisions -> PlacingRow], NEW r \in Revisions,
         NEW pc \in {"idle", "volumes", "load", "schedule", "claim", "claimed", "ports", "insert"}
  PROVE  /\ [placing EXCEPT ![r].pc = pc] \in [Revisions -> PlacingRow]
         /\ \A n \in Nodes \cup {NoNode} :
              /\ [placing EXCEPT ![r].pc = pc, ![r].required = n] \in [Revisions -> PlacingRow]
              /\ [placing EXCEPT ![r].node = n, ![r].pc = pc] \in [Revisions -> PlacingRow]
         /\ \A seen \in Snapshot :
              [placing EXCEPT ![r].pc = pc, ![r].seen = seen] \in [Revisions -> PlacingRow]
         /\ \A V \in SUBSET PortRange :
              [placing EXCEPT ![r].pc = pc, ![r].occupied = V] \in [Revisions -> PlacingRow]
<1>1. [placing EXCEPT ![r].pc = pc] \in [Revisions -> PlacingRow]
  BY DEF PlacingRow
<1>2. ASSUME NEW n \in Nodes \cup {NoNode}
      PROVE  /\ [placing EXCEPT ![r].pc = pc, ![r].required = n] \in [Revisions -> PlacingRow]
             /\ [placing EXCEPT ![r].node = n, ![r].pc = pc] \in [Revisions -> PlacingRow]
  <2>1. [placing EXCEPT ![r].pc = pc, ![r].required = n] \in [Revisions -> PlacingRow]
    BY DEF PlacingRow
  <2>2. [placing EXCEPT ![r].node = n, ![r].pc = pc] \in [Revisions -> PlacingRow]
    BY DEF PlacingRow
  <2> QED
    BY <2>1, <2>2
<1>3. ASSUME NEW seen \in Snapshot
      PROVE  [placing EXCEPT ![r].pc = pc, ![r].seen = seen] \in [Revisions -> PlacingRow]
  BY DEF PlacingRow
<1>4. ASSUME NEW V \in SUBSET PortRange
      PROVE  [placing EXCEPT ![r].pc = pc, ![r].occupied = V] \in [Revisions -> PlacingRow]
  BY DEF PlacingRow
<1> QED
  BY <1>1, <1>2, <1>3, <1>4

LEMMA NoPlacingType == NoPlacing \in PlacingRow
BY DEF NoPlacing, NoSnapshot, Snapshot, PlacingRow

LEMMA ShapedStep == Beside /\ [PlcNext]_plcVars => Shaped'
<1> SUFFICES ASSUME Beside, [PlcNext]_plcVars PROVE Shaped'
  OBVIOUS
<1> USE DEF Beside, Shaped, PlcTypeOK
<1>1. ASSUME NEW v \in Volumes, CreateVolume(v) PROVE Shaped'
  BY <1>1 DEF CreateVolume, VolumeStatus
<1>2. ASSUME NEW v \in Volumes, AttachVolume(v) \/ DetachVolume(v) \/ DeleteVolume(v) PROVE Shaped'
  <2>2. volumeCall' \subseteq {"attach", "detach", "delete"} \X Volumes
    BY <1>2 DEF AttachVolume, DetachVolume, DeleteVolume, VolumeRequest
  <2> QED
    BY <1>2, <2>2 DEF AttachVolume, DetachVolume, DeleteVolume
<1>3. ASSUME NEW v \in Volumes, VolumeTick(v) PROVE Shaped'
  BY <1>3 DEF VolumeTick, VolumeStatus, NoVolume
<1>4. ASSUME NEW v \in Volumes, RemoveVolume(v) PROVE Shaped'
  BY <1>4 DEF RemoveVolume
<1>5. ASSUME NEW v \in Volumes, NEW op \in {"attach", "detach", "delete"}, VolumeWritten(op, v) PROVE Shaped'
  BY <1>5 DEF VolumeWritten, VolumeStatus
<1>6. ASSUME NEW n \in Nodes, NodeOffline(n) PROVE Shaped'
  <2>1. placed' \subseteq WorkloadRow /\ IsFiniteSet(placed')
    BY <1>6, LossRewrites
  <2>2. volume' \in [Volumes -> [status : VolumeStatus, node : Nodes \cup {NoNode}]]
    BY <1>6 DEF NodeOffline, VolumeStatus
  <2>3. recounted' \in BOOLEAN
    BY Zenon, <1>6 DEF NodeOffline
  <2> QED
    BY <1>6, <2>1, <2>2, <2>3 DEF NodeOffline
<1>7. ASSUME NEW n \in Nodes, NodeReturns(n) PROVE Shaped'
  BY <1>7 DEF NodeReturns, VolumeStatus
<1>8. ASSUME NEW w \in placed, RetireWorkload(w) PROVE Shaped'
  <2>1. [w EXCEPT !.wanted = FALSE] \in WorkloadRow
    BY Rewritten
  <2>2. IsFiniteSet(placed')
    BY <1>8, FS_RemoveElement, FS_AddElement DEF RetireWorkload
  <2> QED
    BY <1>8, <2>1, <2>2 DEF RetireWorkload
<1>9. ASSUME NEW w \in placed, WorkloadStopped(w) PROVE Shaped'
  BY <1>9, FS_RemoveElement DEF WorkloadStopped
<1>20. ASSUME NEW w \in placed, NEW stopped \in BOOLEAN, ReportState(w, stopped) PROVE Shaped'
  <2>1. [w EXCEPT !.stopped = stopped] \in WorkloadRow
    BY Rewritten
  <2>2. IsFiniteSet(placed')
    BY <1>20, FS_RemoveElement, FS_AddElement DEF ReportState
  <2>3. recounted' \in BOOLEAN
    BY Zenon, <1>20 DEF ReportState
  <2> QED
    BY <1>20, <2>1, <2>2, <2>3 DEF ReportState
<1>10. ASSUME NEW r \in Revisions, CreateRevision(r) PROVE Shaped'
  BY <1>10 DEF CreateRevision
<1>21. ASSUME NEW r \in Revisions, ReadMounts(r) PROVE Shaped'
  BY <1>21 DEF ReadMounts
<1>11. ASSUME NEW r \in Revisions, BeginPass(r) PROVE Shaped'
  BY <1>11 DEF BeginPass, PassStep, PlacingRow
<1>12. ASSUME NEW r \in Revisions, CheckVolumes(r) PROVE Shaped'
  <2>1. NodesOf(revision[r]) # {} => (CHOOSE n \in NodesOf(revision[r]) : TRUE) \in Nodes
    <3> SUFFICES NodesOf(revision[r]) \subseteq Nodes
      OBVIOUS
    <3>1. r \in DOMAIN revision
      BY <1>12 DEF CheckVolumes, Existing, Passing
    <3> QED
      BY <3>1 DEF NodesOf
  <2> DEFINE required == IF NodesOf(revision[r]) = {} THEN NoNode ELSE CHOOSE n \in NodesOf(revision[r]) : TRUE
  <2>3. required \in Nodes \cup {NoNode}
    BY <2>1
  <2>4. [placing EXCEPT ![r] = NoPlacing] \in [Revisions -> PlacingRow]
    BY NoPlacingType
  <2>5. placing' = [placing EXCEPT ![r] = NoPlacing] \/ placing' = [placing EXCEPT ![r].pc = "load", ![r].required = required]
    BY <1>12 DEF CheckVolumes, EndPass
  <2>6. [placing EXCEPT ![r].pc = "load", ![r].required = required] \in [Revisions -> PlacingRow]
    <3> HIDE DEF required
    <3> QED
      BY <2>3, PlacingPut
  <2>2. placing' \in [Revisions -> PlacingRow]
    BY <2>4, <2>5, <2>6
  <2> QED
    BY <1>12, <2>2, PlacingKept DEF CheckVolumes
<1>13. ASSUME NEW r \in Revisions, loadCandidates(r) PROVE Shaped'
  <2> DEFINE seen == [ready |-> nodeReady, load |-> [n \in Nodes |-> Load(n)],
                      busy |-> {<<w.node, w.port>> : w \in placed}]
  <2>1. {<<w.node, w.port>> : w \in placed} \subseteq Nodes \X PortRange
    BY DEF WorkloadRow
  <2>2. [n \in Nodes |-> Load(n)] \in [Nodes -> Nat]
    BY LoadType
  <2>3. seen \in Snapshot
    BY <2>1, <2>2 DEF Snapshot
  <2>4. placing' = [placing EXCEPT ![r].pc = "schedule", ![r].seen = seen]
    BY <1>13 DEF loadCandidates
  <2> HIDE DEF seen
  <2>5. placing' \in [Revisions -> PlacingRow]
    BY <2>3, <2>4, PlacingPut
  <2> QED
    BY <1>13, <2>5, PlacingKept DEF loadCandidates
<1>14. ASSUME NEW r \in Revisions, ScheduleWorkload(r) PROVE Shaped'
  <2>1. scheduleWorkload(r) \subseteq Nodes
    BY DEF scheduleWorkload, Fitting, Snapshot
  <2>2. ASSUME EndPass(r) PROVE placing' \in [Revisions -> PlacingRow]
    BY <2>2, NoPlacingType DEF EndPass
  <2>3. ASSUME NEW n \in scheduleWorkload(r), NEW pc \in {"ports", "claim"},
               placing' = [placing EXCEPT ![r].node = n, ![r].pc = pc]
        PROVE  placing' \in [Revisions -> PlacingRow]
    <3>1. n \in Nodes \cup {NoNode}
      BY <2>1
    <3>2. [placing EXCEPT ![r].node = n, ![r].pc = pc] \in [Revisions -> PlacingRow]
      BY <3>1, PlacingPut
    <3> QED
      BY <2>3, <3>2
  <2>4. placing' \in [Revisions -> PlacingRow]
    <3>1. CASE \E n \in scheduleWorkload(r) :
                 placing' = [placing EXCEPT ![r].node = n, ![r].pc = IF revision[r] = {} THEN "ports" ELSE "claim"]
      <4>1. PICK n \in scheduleWorkload(r) :
                 placing' = [placing EXCEPT ![r].node = n, ![r].pc = IF revision[r] = {} THEN "ports" ELSE "claim"]
        BY <3>1
      <4>2. CASE revision[r] = {}
        BY <2>3, <4>1, <4>2
      <4>3. CASE revision[r] # {}
        BY <2>3, <4>1, <4>3
      <4> QED
        BY <4>2, <4>3
    <3> QED
      BY <1>14, <2>2, <3>1 DEF ScheduleWorkload
  <2> QED
    BY <1>14, <2>4, PlacingKept DEF ScheduleWorkload
<1>15. ASSUME NEW r \in Revisions, ClaimVolumes(r) PROVE Shaped'
  BY <1>15 DEF ClaimVolumes, PassStep, PlacingRow, VolumeStatus
<1>16. ASSUME NEW r \in Revisions, ReadClaim(r) PROVE Shaped'
  <2>1. ASSUME EndPass(r) PROVE placing' \in [Revisions -> PlacingRow]
    BY <2>1, NoPlacingType DEF EndPass
  <2>2. ASSUME NEW n \in Nodes \cup {NoNode}, NEW pc \in {"ports", "schedule"},
               placing' = [placing EXCEPT ![r].pc = pc, ![r].required = n]
        PROVE  placing' \in [Revisions -> PlacingRow]
    BY <2>2, PlacingPut
  <2>3. placing' \in [Revisions -> PlacingRow]
    BY <1>16, <2>1, <2>2 DEF ReadClaim
  <2> QED
    BY <1>16, <2>3, PlacingKept DEF ReadClaim
<1>17. ASSUME NEW r \in Revisions, ReadPorts(r) PROVE Shaped'
  <2>1. {w.port : w \in {x \in placed : x.node = placing[r].node}} \subseteq PortRange
    BY DEF WorkloadRow
  <2>2. ASSUME NEW V \in SUBSET PortRange, placing' = [placing EXCEPT ![r].pc = "insert", ![r].occupied = V]
        PROVE  placing' \in [Revisions -> PlacingRow]
    BY <2>2, PlacingPut
  <2>3. placing' \in [Revisions -> PlacingRow]
    BY <1>17, <2>1, <2>2 DEF ReadPorts
  <2> QED
    BY <1>17, <2>3, PlacingKept DEF ReadPorts
<1>18. ASSUME NEW r \in Revisions, InsertWorkload(r) PROVE Shaped'
  <2> DEFINE row(port) == [of |-> r, node |-> placing[r].node, port |-> port, wanted |-> TRUE, stopped |-> FALSE]
  <2>1. PortsFor(r) \subseteq PortRange
    BY PlacementAssumption DEF PortsFor, chooseDynamicHostPort
  <2>2. placing[r].node \in Nodes
    BY <1>18 DEF InsertWorkload, Claims, HasChosen
  <2>3. \A port \in PortsFor(r) : row(port) \in WorkloadRow
    BY <2>1, <2>2 DEF WorkloadRow
  <2> HIDE DEF row
  <2>4. placed' = placed \/ \E port \in PortsFor(r) : placed' = placed \cup {row(port)}
    BY <1>18 DEF InsertWorkload, row
  <2>7. placed' \subseteq WorkloadRow /\ IsFiniteSet(placed')
    BY <2>3, <2>4, FS_AddElement
  <2>5. placing' \in [Revisions -> PlacingRow]
    BY <1>18, NoPlacingType DEF InsertWorkload, EndPass
  <2>6. ASSUME NEW s \in Revisions
        PROVE  /\ (placing[s])'.pc \in {"idle", "volumes", "load", "schedule", "claim", "claimed", "ports", "insert"}
               /\ (placing[s])'.seen \in Snapshot
               /\ (placing[s])'.occupied \subseteq PortRange
               /\ {(placing[s])'.required, (placing[s])'.node} \subseteq Nodes \cup {NoNode}
    BY <2>5 DEF PlacingRow
  <2> QED
    BY <1>18, <2>5, <2>6, <2>7 DEF InsertWorkload
<1>19. CASE UNCHANGED plcVars
  BY <1>19 DEF plcVars
<1> QED
  BY <1>1, <1>2, <1>3, <1>4, <1>5, <1>6, <1>7, <1>8, <1>9, <1>10, <1>11, <1>12, <1>13, <1>14,
     <1>15, <1>16, <1>17, <1>18, <1>19, <1>20, <1>21 DEF PlcNext

-----------------------------------------------------------------------------
(* Affinity                                                                *)

(* What a revision captured stays as it was.                               *)
LEMMA CapturedStays ==
  ASSUME Beside, [PlcNext]_plcVars, NEW r \in DOMAIN revision
  PROVE  r \in DOMAIN revision' /\ revision'[r] = revision[r]
<1>1. ASSUME NEW q \in Revisions, CreateRevision(q) PROVE r \in DOMAIN revision' /\ revision'[r] = revision[r]
  <2>1. q # r
    BY <1>1 DEF CreateRevision, Beside, Existing
  <2> QED
    BY <1>1, <2>1 DEF CreateRevision
<1>2. ASSUME UNCHANGED revision PROVE r \in DOMAIN revision' /\ revision'[r] = revision[r]
  BY <1>2
<1> QED
  BY <1>1, <1>2
  DEF PlcNext, plcVars, CreateVolume, AttachVolume, DetachVolume, DeleteVolume, VolumeTick, RemoveVolume,
      VolumeWritten, NodeOffline, NodeReturns, RetireWorkload, WorkloadStopped, ReportState, ReadMounts, BeginPass, CheckVolumes,
      loadCandidates, ScheduleWorkload, ClaimVolumes, ReadClaim, ReadPorts, InsertWorkload

(* A volume that is retained keeps the node it is bound to, and its row.   *)
LEMMA BoundStays ==
  ASSUME Beside, [PlcNext]_plcVars, NEW v \in Volumes, Retained(v)
  PROVE  /\ volume[v].node # NoNode => volume'[v].node = volume[v].node
         /\ VolumeListed(v)'
<1> DEFINE Bound == /\ volume[v].node # NoNode => volume'[v].node = volume[v].node
                    /\ volume'[v].status \notin {"absent", "gone"}
<1>0. /\ volume \in [Volumes -> [status : VolumeStatus, node : Nodes \cup {NoNode}]]
      /\ volume[v].status \notin {"absent", "gone"}
  BY DEF Beside, Shaped, PlcTypeOK, RetainedListed, VolumeListed
<1>1. ASSUME NEW u \in Volumes, CreateVolume(u) PROVE Bound
  BY <1>0, <1>1 DEF CreateVolume, VolumeListed
<1>2. ASSUME NEW u \in Volumes, VolumeTick(u) PROVE Bound
  BY <1>0, <1>2 DEF VolumeTick
<1>3. ASSUME NEW u \in Volumes, NEW op \in {"attach", "detach", "delete"}, VolumeWritten(op, u) PROVE Bound
  BY <1>0, <1>3 DEF VolumeWritten
<1>4. ASSUME NEW n \in Nodes, NodeOffline(n) \/ NodeReturns(n) PROVE Bound
  BY <1>0, <1>4 DEF NodeOffline, NodeReturns
<1>5. ASSUME NEW r \in Revisions, ClaimVolumes(r) PROVE Bound
  BY <1>0, <1>5 DEF ClaimVolumes
<1>6. ASSUME UNCHANGED volume PROVE Bound
  BY <1>0, <1>6
<1> HIDE DEF Bound
<1>7. Bound
  BY <1>1, <1>2, <1>3, <1>4, <1>5, <1>6
  DEF PlcNext, plcVars, AttachVolume, DetachVolume, DeleteVolume, RemoveVolume,
      RetireWorkload, WorkloadStopped, ReportState, ReadMounts, CreateRevision, BeginPass, CheckVolumes,
      loadCandidates, ScheduleWorkload, ReadClaim, ReadPorts, InsertWorkload
<1> QED
  BY <1>7 DEF Bound, VolumeListed

(* The steps of a pass.                                                    *)
LEMMA PassMoves ==
  ASSUME Beside, [PlcNext]_plcVars, NEW r \in Revisions
  PROVE  \/ placing'[r] = placing[r]
         \/ Passing(r) /\ placing'[r].pc \in {"idle", "load"}
         \/ BeginPass(r) \/ loadCandidates(r) \/ ScheduleWorkload(r)
         \/ ClaimVolumes(r) \/ ReadClaim(r) \/ ReadPorts(r)
<1> DEFINE Moved == \/ placing'[r] = placing[r]
                    \/ Passing(r) /\ placing'[r].pc \in {"idle", "load"}
                    \/ BeginPass(r) \/ loadCandidates(r) \/ ScheduleWorkload(r)
                    \/ ClaimVolumes(r) \/ ReadClaim(r) \/ ReadPorts(r)
<1>0. placing \in [Revisions -> PlacingRow]
  BY DEF Beside, Shaped
<1>1. ASSUME NEW q \in Revisions,
             \/ BeginPass(q) \/ loadCandidates(q) \/ ScheduleWorkload(q)
             \/ ClaimVolumes(q) \/ ReadClaim(q) \/ ReadPorts(q)
      PROVE  Moved
  <2>1. q # r => placing'[r] = placing[r]
    BY <1>0, <1>1 DEF BeginPass, loadCandidates, ScheduleWorkload, ClaimVolumes, ReadClaim, ReadPorts, PassStep, EndPass
  <2> QED
    BY <1>1, <2>1
<1>2. ASSUME NEW q \in Revisions, CheckVolumes(q) PROVE Moved
  BY <1>0, <1>2 DEF CheckVolumes, EndPass, NoPlacing, Passing, PlacingRow
<1>3. ASSUME NEW q \in Revisions, InsertWorkload(q) PROVE Moved
  BY <1>0, <1>3 DEF InsertWorkload, EndPass, NoPlacing, Passing
<1>4. ASSUME UNCHANGED placing PROVE Moved
  BY <1>4
<1> HIDE DEF Moved
<1>5. Moved
  BY <1>1, <1>2, <1>3, <1>4
  DEF PlcNext, plcVars, CreateVolume, AttachVolume, DetachVolume, DeleteVolume, VolumeTick, RemoveVolume,
      VolumeWritten, NodeOffline, NodeReturns, RetireWorkload, WorkloadStopped, ReportState, ReadMounts, CreateRevision
<1> QED
  BY <1>5 DEF Moved

(* A workload that is placed was so before, but for the value of "wanted", *)
(* or a pass inserts it on the node it agreed on.                          *)
LEMMA PlacedBefore ==
  ASSUME Beside, [PlcNext]_plcVars, NEW x \in placed'
  PROVE  \/ \E w \in placed : x.of = w.of /\ x.node = w.node
         \/ \E r \in Revisions : placing[r].pc = "insert" /\ x.of = r /\ x.node = placing[r].node
<1> DEFINE Known == \/ \E w \in placed : x.of = w.of /\ x.node = w.node
                    \/ \E r \in Revisions : placing[r].pc = "insert" /\ x.of = r /\ x.node = placing[r].node
<1>0. Shaped /\ \A w \in placed : w \in WorkloadRow
  BY DEF Beside, Shaped, PlcTypeOK
<1>1. ASSUME NEW n \in Nodes, NodeOffline(n) PROVE Known
  <2>1. PICK w \in placed : x = Left(n)[w]
    BY <1>0, <1>1, LossRewrites
  <2>2. x.of = w.of /\ x.node = w.node
    BY <1>0, <1>1, <2>1, LossRewrites
  <2> QED
    BY <2>2
<1>2. ASSUME NEW w \in placed, RetireWorkload(w) PROVE Known
  <2>1. x \in placed \/ x = [w EXCEPT !.wanted = FALSE]
    BY <1>2 DEF RetireWorkload
  <2>2. [w EXCEPT !.wanted = FALSE].of = w.of /\ [w EXCEPT !.wanted = FALSE].node = w.node
    BY <1>0, Rewritten
  <2> QED
    BY <2>1, <2>2
<1>3. ASSUME NEW w \in placed, WorkloadStopped(w) PROVE Known
  BY <1>3 DEF WorkloadStopped
<1>7. ASSUME NEW w \in placed, NEW stopped \in BOOLEAN, ReportState(w, stopped) PROVE Known
  <2>1. x \in placed \/ x = [w EXCEPT !.stopped = stopped]
    BY <1>7 DEF ReportState
  <2>2. [w EXCEPT !.stopped = stopped].of = w.of /\ [w EXCEPT !.stopped = stopped].node = w.node
    BY <1>0 DEF WorkloadRow
  <2> QED
    BY <2>1, <2>2
<1>4. ASSUME NEW r \in Revisions, InsertWorkload(r) PROVE Known
  BY <1>4 DEF InsertWorkload
<1>5. ASSUME UNCHANGED placed PROVE Known
  BY <1>5
<1> HIDE DEF Known
<1>6. Known
  BY <1>1, <1>2, <1>3, <1>4, <1>5, <1>7
  DEF PlcNext, plcVars, CreateVolume, AttachVolume, DetachVolume, DeleteVolume, VolumeTick, RemoveVolume,
      VolumeWritten, NodeReturns, ReadMounts, CreateRevision, BeginPass, CheckVolumes,
      loadCandidates, ScheduleWorkload, ClaimVolumes, ReadClaim, ReadPorts
<1> QED
  BY <1>6 DEF Known

(* Revisions are never removed, so what is of one stays so.                *)
LEMMA ExistingStep == Beside /\ [PlcNext]_plcVars => Existing'
<1> SUFFICES ASSUME Beside, [PlcNext]_plcVars PROVE Existing'
  OBVIOUS
<1>1. ASSUME NEW r \in Revisions, Passing(r)' PROVE r \in DOMAIN revision'
  <2>1. ASSUME placing'[r] = placing[r] \/ Passing(r) PROVE r \in DOMAIN revision
    BY <1>1, <2>1 DEF Passing, Beside, Existing
  <2>2. BeginPass(r) => r \in DOMAIN revision
    BY DEF BeginPass
  <2>3. loadCandidates(r) \/ ScheduleWorkload(r) \/ ClaimVolumes(r) \/ ReadClaim(r) \/ ReadPorts(r) => Passing(r)
    BY DEF loadCandidates, ScheduleWorkload, ClaimVolumes, ReadClaim, ReadPorts, Passing
  <2>4. r \in DOMAIN revision
    BY <1>1, <2>1, <2>2, <2>3, PassMoves DEF Passing, Beside, Existing
  <2> QED
    BY <2>4, CapturedStays
<1>2. ASSUME NEW x \in placed' PROVE x.of \in DOMAIN revision'
  <2>1. x.of \in DOMAIN revision
    BY PlacedBefore DEF Beside, Existing, Passing
  <2> QED
    BY <2>1, CapturedStays
<1>3. DOMAIN gathered' \cap DOMAIN revision' = {}
  <2>1. DOMAIN gathered \cap DOMAIN revision = {}
    BY DEF Beside, Existing
  <2>2. ASSUME NEW r \in Revisions, ReadMounts(r) \/ CreateRevision(r)
        PROVE  DOMAIN gathered' \cap DOMAIN revision' = {}
    BY <2>1, <2>2 DEF ReadMounts, CreateRevision
  <2>3. ASSUME UNCHANGED <<gathered, revision>> PROVE DOMAIN gathered' \cap DOMAIN revision' = {}
    BY <2>1, <2>3
  <2> QED
    BY <2>2, <2>3
    DEF PlcNext, plcVars, CreateVolume, AttachVolume, DetachVolume, DeleteVolume, VolumeTick, RemoveVolume,
        VolumeWritten, NodeOffline, NodeReturns, RetireWorkload, WorkloadStopped, ReportState, BeginPass,
        CheckVolumes, loadCandidates, ScheduleWorkload, ClaimVolumes, ReadClaim, ReadPorts, InsertWorkload
<1> QED
  BY <1>1, <1>2, <1>3 DEF Existing

(* Rows that are mounted or captured are not deleted.                      *)
LEMMA ListedStep == Beside /\ [PlcNext]_plcVars => RetainedListed'
<1> SUFFICES ASSUME Beside, [PlcNext]_plcVars, NEW v \in Volumes, Retained(v)' PROVE VolumeListed(v)'
  BY DEF RetainedListed
<1>1. CASE Retained(v)
  BY <1>1, BoundStays DEF VolumeListed
<1>2. CASE ~Retained(v)
  <2>1. ASSUME NEW u \in Volumes, NEW op \in {"attach", "detach", "delete"}, VolumeWritten(op, u)
        PROVE  VolumeListed(v)'
    BY <1>2, <2>1 DEF VolumeWritten, Retained, VolumeListed, Beside, Shaped, PlcTypeOK, VolumeStatus
  <2>2. ASSUME NEW r \in Revisions, CreateRevision(r) PROVE VolumeListed(v)'
    <3>1. UNCHANGED <<volume, mounted>>
      BY <2>2 DEF CreateRevision
    <3>2. \A u \in gathered[r] : (\E q \in DOMAIN revision' : u \in revision'[q] /\ revision' # revision) => VolumeListed(u)
      BY <2>2 DEF CreateRevision
    <3>3. v \in gathered[r] /\ VolumeListed(v)
      <4>1. PICK q \in DOMAIN revision' : v \in revision'[q]
        BY <1>2, <3>1 DEF Retained
      <4>2. revision' # revision
        BY <1>2, <3>1, <4>1 DEF Retained
      <4>3. q = r /\ revision'[r] = gathered[r]
        BY <1>2, <2>2, <4>1, <4>2 DEF CreateRevision, Retained
      <4> QED
        BY <3>2, <4>1, <4>2, <4>3
    <3> QED
      BY <3>1, <3>3 DEF VolumeListed
  <2>3. ASSUME mounted' \subseteq mounted, UNCHANGED revision PROVE FALSE
    BY <1>2, <2>3 DEF Retained
  <2> QED
    BY <2>1, <2>2, <2>3
    DEF PlcNext, plcVars, CreateVolume, AttachVolume, DetachVolume, DeleteVolume, VolumeTick, RemoveVolume,
        NodeOffline, NodeReturns, RetireWorkload, WorkloadStopped, ReportState, ReadMounts, BeginPass, CheckVolumes,
        loadCandidates, ScheduleWorkload, ClaimVolumes, ReadClaim, ReadPorts, InsertWorkload
<1> QED
  BY <1>1, <1>2

(* A claim read back is the one that the volumes keep.                     *)
LEMMA ClaimsStep == Beside /\ [PlcNext]_plcVars => Claims'
<1> SUFFICES ASSUME Beside, [PlcNext]_plcVars, NEW r \in Revisions, HasChosen(r)'
             PROVE  /\ (placing[r].node)' \in Nodes
                    /\ HasClaimed(r)' => \A v \in revision'[r] : (volume[v].node)' # NoNode
                    /\ HasAgreed(r)' => \A v \in revision'[r] : (volume[v].node)' = (placing[r].node)'
  BY DEF Claims, HasChosen, HasClaimed, HasAgreed
<1> DEFINE Goal == /\ (placing[r].node)' \in Nodes
                   /\ HasClaimed(r)' => \A v \in revision'[r] : (volume[v].node)' # NoNode
                   /\ HasAgreed(r)' => \A v \in revision'[r] : (volume[v].node)' = (placing[r].node)'
<1>0. /\ placing \in [Revisions -> PlacingRow]
      /\ volume \in [Volumes -> [status : VolumeStatus, node : Nodes \cup {NoNode}]]
      /\ Claims
  BY DEF Beside, Shaped, PlcTypeOK
<1>1. Passing(r) => /\ r \in DOMAIN revision /\ revision'[r] = revision[r]
                    /\ \A v \in revision[r] : v \in Volumes /\ Retained(v)
  BY CapturedStays DEF Beside, Existing, Shaped, PlcTypeOK, Retained
<1>2. ASSUME placing'[r] = placing[r] PROVE Goal
  <2>1. HasChosen(r) /\ Passing(r)
    BY <1>2 DEF HasChosen, Passing
  <2>2. \A v \in revision[r] : volume[v].node # NoNode => volume'[v].node = volume[v].node
    BY <1>1, <2>1, BoundStays
  <2> QED
    BY <1>0, <1>1, <1>2, <2>1, <2>2 DEF Claims, HasClaimed, HasAgreed, HasChosen, Beside, Shaped, PlcTypeOK
<1>3. ASSUME ScheduleWorkload(r) PROVE Goal
  <2>1. Passing(r) /\ placing'[r].pc # "idle"
    BY <1>3 DEF ScheduleWorkload, Passing, HasChosen
  <2>2. PICK n \in scheduleWorkload(r) :
          placing' = [placing EXCEPT ![r].node = n, ![r].pc = IF revision[r] = {} THEN "ports" ELSE "claim"]
    <3>1. ~EndPass(r)
      BY <1>0, <2>1 DEF EndPass, NoPlacing
    <3> QED
      BY <1>3, <3>1 DEF ScheduleWorkload
  <2>3. n \in Nodes
    <3>1. placing[r].seen \in Snapshot
      BY <1>0 DEF PlacingRow
    <3> QED
      BY <3>1 DEF scheduleWorkload, Fitting, Snapshot
  <2>4. (placing[r].node)' = n /\ placing'[r].pc = IF revision[r] = {} THEN "ports" ELSE "claim"
    BY <1>0, <2>2 DEF PlacingRow
  <2> QED
    BY <1>1, <2>1, <2>3, <2>4 DEF HasClaimed, HasAgreed
<1>4. ASSUME ClaimVolumes(r) PROVE Goal
  <2>1. placing[r].pc = "claim" /\ placing'[r].pc = "claimed" /\ placing'[r].node = placing[r].node
    BY <1>0, <1>4 DEF ClaimVolumes, PassStep, PlacingRow
  <2>2. placing[r].node \in Nodes
    BY <1>0, <2>1 DEF Claims, HasChosen
  <2>3. \A v \in revision[r] : v \in Volumes /\ VolumeListed(v)
    BY <1>1, <2>1 DEF Passing, Beside, RetainedListed
  <2>4. \A v \in revision[r] : volume'[v].node # NoNode
    BY <1>0, <1>4, <2>2, <2>3, PlacementAssumption DEF ClaimVolumes
  <2> QED
    BY <1>1, <2>1, <2>2, <2>4 DEF Passing, HasAgreed
<1>5. ASSUME ReadClaim(r) PROVE Goal
  <2>1. placing[r].pc = "claimed" /\ Passing(r)
    BY <1>5 DEF ReadClaim, Passing
  <2>2. placing'[r].pc \notin {"idle", "schedule"}
    BY DEF HasChosen
  <2>3. /\ NodesOf(revision[r]) = {placing[r].node}
        /\ placing' = [placing EXCEPT ![r].pc = "ports", ![r].required = placing[r].node]
    <3>1. ~EndPass(r)
      BY <1>0, <2>2 DEF EndPass, NoPlacing
    <3>2. ASSUME NEW n, placing' = [placing EXCEPT ![r].pc = "schedule", ![r].required = n] PROVE FALSE
      BY <1>0, <2>2, <3>2 DEF PlacingRow
    <3> QED
      BY <1>5, <3>1, <3>2 DEF ReadClaim
  <2>4. placing'[r].node = placing[r].node /\ UNCHANGED volume
    BY <1>0, <1>5, <2>3 DEF ReadClaim, PlacingRow
  <2>5. \A v \in revision[r] : volume[v].node # NoNode
    BY <1>0, <2>1 DEF Claims, HasClaimed
  <2>6. \A v \in revision[r] : volume[v].node = placing[r].node
    BY <2>3, <2>5 DEF NodesOf
  <2>7. placing[r].node \in Nodes
    BY <1>0, <2>1 DEF Claims, HasChosen
  <2> QED
    BY <1>1, <2>1, <2>4, <2>5, <2>6, <2>7
<1>6. ASSUME ReadPorts(r) PROVE Goal
  <2>1. placing[r].pc = "ports" /\ placing'[r].node = placing[r].node /\ UNCHANGED <<volume, revision>>
    BY <1>0, <1>6 DEF ReadPorts, PlacingRow
  <2> QED
    BY <1>0, <2>1 DEF Claims, HasChosen, HasClaimed, HasAgreed
<1>7. ASSUME BeginPass(r) \/ loadCandidates(r) \/ placing'[r].pc \in {"idle", "load"} PROVE Goal
  <2>1. placing'[r].pc \in {"idle", "volumes", "load", "schedule"}
    <3>1. BeginPass(r) => placing'[r].pc = "volumes"
      BY <1>0 DEF BeginPass, PassStep, PlacingRow
    <3>2. loadCandidates(r) => placing'[r].pc = "schedule"
      BY <1>0 DEF loadCandidates, PlacingRow
    <3> QED
      BY <1>7, <3>1, <3>2
  <2> QED
    BY <2>1 DEF HasChosen
<1> HIDE DEF Goal
<1>8. Goal
  BY <1>2, <1>3, <1>4, <1>5, <1>6, <1>7, PassMoves DEF Goal
<1> QED
  BY <1>8 DEF Goal

LEMMA AffinityStep == Beside /\ [PlcNext]_plcVars => VolumeAffinity'
<1> SUFFICES ASSUME Beside, [PlcNext]_plcVars, NEW x \in placed', NEW v \in revision'[x.of]
             PROVE  volume'[v].node = x.node
  BY DEF VolumeAffinity
<1>1. ASSUME NEW q \in DOMAIN revision, q = x.of PROVE v \in Volumes /\ Retained(v) /\ v \in revision[q]
  BY <1>1, CapturedStays DEF Retained, Beside, Shaped, PlcTypeOK
<1>2. ASSUME NEW w \in placed, x.of = w.of, x.node = w.node PROVE volume'[v].node = x.node
  <2>1. w.of \in DOMAIN revision /\ w.node \in Nodes
    BY DEF Beside, Existing, Shaped, PlcTypeOK, WorkloadRow
  <2>2. v \in Volumes /\ Retained(v) /\ v \in revision[w.of]
    BY <1>1, <1>2, <2>1
  <2>3. volume[v].node = w.node
    BY <2>2 DEF Beside, VolumeAffinity
  <2> QED
    BY <1>2, <2>1, <2>2, <2>3, BoundStays, PlacementAssumption
<1>3. ASSUME NEW r \in Revisions, placing[r].pc = "insert", x.of = r, x.node = placing[r].node
      PROVE  volume'[v].node = x.node
  <2>1. r \in DOMAIN revision /\ placing[r].node \in Nodes
    BY <1>3 DEF Beside, Existing, Passing, Claims, HasChosen
  <2>2. v \in Volumes /\ Retained(v) /\ v \in revision[r]
    BY <1>1, <1>3, <2>1
  <2>3. volume[v].node = placing[r].node
    BY <1>3, <2>2 DEF Beside, Claims, HasAgreed
  <2> QED
    BY <1>3, <2>1, <2>2, <2>3, BoundStays, PlacementAssumption
<1> QED
  BY <1>2, <1>3, PlacedBefore

LEMMA BesideInit == PlcInit => Beside
<1> SUFFICES ASSUME PlcInit PROVE Beside
  OBVIOUS
<1> USE DEF PlcInit
<1>1. DOMAIN revision = {}
  OBVIOUS
<1>2. placing \in [Revisions -> PlacingRow]
  BY NoPlacingType
<1>3. \A r \in Revisions : placing[r] = NoPlacing /\ NoPlacing \in PlacingRow
  BY NoPlacingType
<1>4. \A r \in Revisions :
        /\ placing[r].pc \in {"idle", "volumes", "load", "schedule", "claim", "claimed", "ports", "insert"}
        /\ placing[r].seen \in Snapshot
        /\ placing[r].occupied \subseteq PortRange
        /\ {placing[r].required, placing[r].node} \subseteq Nodes \cup {NoNode}
  BY <1>3 DEF PlacingRow
<1>9. DOMAIN gathered = {}
  OBVIOUS
<1>5. Shaped
  BY <1>1, <1>2, <1>4, <1>9, FS_EmptySet DEF Shaped, PlcTypeOK, NoVolume, VolumeStatus
<1>6. \A r \in Revisions : placing[r].pc = "idle"
  BY <1>3 DEF NoPlacing
<1>7. Existing /\ Claims /\ VolumeAffinity
  BY <1>1, <1>6 DEF Existing, Passing, Claims, HasChosen, HasClaimed, HasAgreed, VolumeAffinity
<1>8. RetainedListed
  BY <1>1 DEF RetainedListed, Retained
<1> QED
  BY <1>5, <1>7, <1>8 DEF Beside

LEMMA BesideStep == Beside /\ [PlcNext]_plcVars => Beside'
BY ShapedStep, ExistingStep, ListedStep, ClaimsStep, AffinityStep DEF Beside

LEMMA BesideInvariance == PlcSpec => []Beside
BY BesideInit, BesideStep, PTL DEF PlcSpec

(* A workload runs on the node of every volume it mounts, whichever        *)
(* passes, requests and failures of nodes come between the reading of the  *)
(* volumes, the claim and the insertion (deployments/controller.ts:145).   *)
THEOREM AffinityHolds == PlcSpec => []BesideVolumes
<1>1. Beside => BesideVolumes
  BY DEF Beside, Shaped, BesideVolumes
<1> QED
  BY <1>1, BesideInvariance, PTL

-----------------------------------------------------------------------------
(* Retention                                                               *)

(* Who comes to be retained while it is about to be deleted is noted, and  *)
(* nothing that is retained comes to be deleted.                           *)
LEMMA KeptStep == Beside /\ Kept /\ [PlcNext]_plcVars => Kept'
<1> SUFFICES ASSUME Beside, Kept, [PlcNext]_plcVars PROVE Kept'
  OBVIOUS
<1>0. /\ volume \in [Volumes -> [status : VolumeStatus, node : Nodes \cup {NoNode}]]
      /\ volumeCommand \in [Volumes -> {"none", "pending", "succeeded", "failed"}]
  BY DEF Beside, Shaped, PlcTypeOK
<1>1. ASSUME tooLate \subseteq tooLate',
             \A v \in Volumes \ tooLate' : /\ Retained(v)' => Retained(v) \/ ~Doomed(v)
                                           /\ Doomed(v)' => Doomed(v) \/ ~Retained(v)'
      PROVE  Kept'
  BY <1>1 DEF Kept
<1>2. ASSUME NEW u \in Volumes, AttachVolume(u) \/ DetachVolume(u) PROVE Kept'
  <2>1. UNCHANGED <<volume, volumeCommand, tooLate>>
    BY <1>2 DEF AttachVolume, DetachVolume
  <2>2. \A v \in Volumes : Retained(v)' => Retained(v)
    BY <1>2 DEF AttachVolume, DetachVolume, Retained
  <2>3. \A v \in Volumes : Doomed(v)' => Doomed(v)
    BY <1>2, <2>1 DEF AttachVolume, DetachVolume, VolumeRequest, Doomed
  <2> QED
    BY <1>1, <2>1, <2>2, <2>3
<1>3. ASSUME NEW u \in Volumes, DeleteVolume(u) PROVE Kept'
  <2>1. UNCHANGED <<volume, volumeCommand, mounted, revision, tooLate>> /\ ~Retained(u)
    BY <1>3 DEF DeleteVolume
  <2>2. \A v \in Volumes : Retained(v)' = Retained(v)
    BY <2>1 DEF Retained
  <2>3. \A v \in Volumes : Doomed(v)' => Doomed(v) \/ v = u
    BY <1>3, <2>1 DEF DeleteVolume, VolumeRequest, Doomed
  <2> QED
    BY <1>1, <2>1, <2>2, <2>3
<1>4. ASSUME NEW u \in Volumes, NEW op \in {"attach", "detach", "delete"}, VolumeWritten(op, u) PROVE Kept'
  <2>1. UNCHANGED <<revision, volumeCommand>> /\ tooLate \subseteq tooLate'
    BY <1>4 DEF VolumeWritten
  <2>2. ASSUME NEW v \in Volumes PROVE Doomed(v)' => Doomed(v)
    <3>1. volume'[v].status = "deleting" => volume[v].status = "deleting" \/ (op = "delete" /\ v = u)
      BY <1>0, <1>4 DEF VolumeWritten
    <3>2. <<op, u>> \in volumeCall /\ volumeCall' \subseteq volumeCall
      BY <1>4 DEF VolumeWritten
    <3> QED
      BY <2>1, <3>1, <3>2 DEF Doomed
  <2>3. ASSUME NEW v \in Volumes \ tooLate' PROVE Retained(v)' => Retained(v) \/ ~Doomed(v)
    BY <1>4, <2>1 DEF VolumeWritten, Retained
  <2> QED
    BY <1>1, <2>1, <2>2, <2>3
<1>5. ASSUME NEW u \in Volumes, VolumeTick(u) \/ RemoveVolume(u) PROVE Kept'
  <2>1. UNCHANGED <<volumeCall, mounted, revision, tooLate>> /\ Doomed(u)
    BY <1>5 DEF VolumeTick, RemoveVolume, Doomed
  <2>2. \A v \in Volumes : Retained(v)' = Retained(v)
    BY <2>1 DEF Retained
  <2>3. \A v \in Volumes : v # u => UNCHANGED <<volume[v], volumeCommand[v]>>
    BY <1>0, <1>5 DEF VolumeTick, RemoveVolume
  <2>4. \A v \in Volumes : Doomed(v)' => Doomed(v)
    BY <2>1, <2>3 DEF Doomed
  <2> QED
    BY <1>1, <2>1, <2>2, <2>4
<1>6. ASSUME NEW r \in Revisions, CreateRevision(r) PROVE Kept'
  <2>1. UNCHANGED <<mounted, volume, volumeCall, volumeCommand>> /\ tooLate \subseteq tooLate'
    BY <1>6 DEF CreateRevision
  <2>2. \A v \in Volumes : Doomed(v)' = Doomed(v)
    BY <2>1 DEF Doomed
  <2>3. ASSUME NEW v \in Volumes \ tooLate', Retained(v)' PROVE Retained(v) \/ ~Doomed(v)
    <3>1. CASE UNCHANGED revision
      BY <2>1, <2>3, <3>1 DEF Retained
    <3>2. CASE /\ revision' = [x \in DOMAIN revision \cup {r} |-> IF x = r THEN gathered[r] ELSE revision[x]]
               /\ tooLate' = tooLate \cup {w \in gathered[r] : Doomed(w)}
      <4>1. Retained(v) \/ v \in gathered[r]
        BY <2>1, <2>3, <3>2 DEF Retained
      <4> QED
        BY <2>3, <3>2, <4>1
    <3> QED
      BY <1>6, <3>1, <3>2 DEF CreateRevision
  <2> QED
    BY <1>1, <2>1, <2>2, <2>3
<1>7. ASSUME UNCHANGED <<mounted, revision, volumeCall, volumeCommand, tooLate>>,
             \A v \in Volumes : volume'[v].status = "deleting" => volume[v].status = "deleting"
      PROVE  Kept'
  <2>1. \A v \in Volumes : Retained(v)' = Retained(v) /\ (Doomed(v)' => Doomed(v))
    BY <1>7 DEF Retained, Doomed
  <2> QED
    BY <1>1, <1>7, <2>1
<1>8. ASSUME NEW u \in Volumes, CreateVolume(u) PROVE Kept'
  BY <1>0, <1>7, <1>8 DEF CreateVolume
<1>9. ASSUME NEW n \in Nodes, NodeOffline(n) \/ NodeReturns(n) PROVE Kept'
  BY <1>0, <1>7, <1>9 DEF NodeOffline, NodeReturns
<1>10. ASSUME NEW r \in Revisions, ClaimVolumes(r) PROVE Kept'
  BY <1>0, <1>7, <1>10 DEF ClaimVolumes
<1>11. ASSUME UNCHANGED <<mounted, revision, volumeCall, volumeCommand, tooLate, volume>> PROVE Kept'
  BY <1>7, <1>11
<1> QED
  BY <1>2, <1>3, <1>4, <1>5, <1>6, <1>8, <1>9, <1>10, <1>11
  DEF PlcNext, plcVars, RetireWorkload, WorkloadStopped, ReportState, ReadMounts, BeginPass, CheckVolumes,
      loadCandidates, ScheduleWorkload, ReadClaim, ReadPorts, InsertWorkload

LEMMA KeptInit == PlcInit => Kept
BY DEF PlcInit, Kept, Retained

LEMMA KeptInvariance == PlcSpec => [](Beside /\ Kept)
BY BesideInit, BesideStep, KeptInit, KeptStep, PTL DEF PlcSpec

(* A volume that is mounted or captured is not being deleted, however      *)
(* requests, builds, ticks, failures of nodes and passes overlap, unless   *)
(* it was attached or captured after its deletion had passed its checks    *)
(* (volumes.routes.ts:69).                                                 *)
THEOREM RetentionHolds == PlcSpec => []RetainedKept
<1>1. Beside /\ Kept => RetainedKept
  BY DEF Kept, Doomed, RetainedKept
<1> QED
  BY <1>1, KeptInvariance, PTL

-----------------------------------------------------------------------------
(* Room                                                                    *)

(* But for an insertion, and while no stopped workload counts again, no    *)
(* load grows.                                                             *)
LEMMA LoadFalls ==
  ASSUME Beside, [PlcNext]_plcVars, ~recounted', NEW n \in Nodes
  PROVE  (\E r \in Revisions : InsertWorkload(r)) \/ Load(n)' <= Load(n)
<1> DEFINE Falls == (\E r \in Revisions : InsertWorkload(r)) \/ Load(n)' <= Load(n)
<1>0. /\ Shaped /\ IsFiniteSet(On(n)) /\ \A w \in On(n) : w.of \in Revisions
      /\ placed \subseteq WorkloadRow
      /\ Load(n) \in Nat /\ Load(n) = Taken(On(n)) /\ Load(n)' = Taken(On(n)')
  BY LoadIs, LoadType DEF Beside, Shaped, PlcTypeOK
<1>1. ASSUME NEW m \in Nodes, NodeOffline(m) PROVE Falls
  <2>1. On(n)' \subseteq {Left(m)[w] : w \in On(n)}
    BY <1>0, <1>1, LossRewrites DEF On
  <2>2. \A w \in On(n) : Left(m)[w].of = w.of
    BY <1>0, <1>1, LossRewrites DEF On
  <2> DEFINE after == {Left(m)[w] : w \in On(n)}
  <2>3. IsFiniteSet(after) /\ Taken(after) <= Taken(On(n)) /\ \A w \in after : w.of \in Revisions
    BY <1>0, <2>2, TakenRewritten
  <2> HIDE DEF after
  <2>4. Taken(On(n)') <= Taken(after) /\ Taken(On(n)') \in Nat /\ Taken(after) \in Nat
    <3>1. On(n)' \subseteq after
      BY <2>1 DEF after
    <3>2. IsFiniteSet(On(n)') /\ \A w \in On(n)' : w.of \in Revisions
      BY <2>3, <3>1, FS_Subset
    <3> QED
      BY <2>3, <3>1, <3>2, TakenPart, TakenType
  <2>5. Taken(On(n)) \in Nat
    BY <1>0
  <2>6. Taken(On(n)') <= Taken(On(n))
    BY <2>3, <2>4, <2>5
  <2> QED
    BY <1>0, <2>6
<1>2. ASSUME NEW w \in placed, RetireWorkload(w) PROVE Falls
  <2> DEFINE retired == [w EXCEPT !.wanted = FALSE]
             f == [x \in On(n) |-> IF x = w THEN retired ELSE x]
  <2>1. retired.of = w.of /\ retired.node = w.node /\ retired.stopped = w.stopped
    BY <1>0, Rewritten
  <2>2. placed' = (placed \ {w}) \cup {retired}
    BY <1>2 DEF RetireWorkload
  <2> HIDE DEF retired
  <2>3. On(n)' = {f[x] : x \in On(n)}
    BY <2>1, <2>2 DEF On
  <2>4. \A x \in On(n) : f[x].of = x.of
    BY <2>1
  <2> HIDE DEF f
  <2>5. Taken({f[x] : x \in On(n)}) <= Taken(On(n))
    BY <1>0, <2>4, TakenRewritten
  <2> QED
    BY <1>0, <2>3, <2>5
<1>3. ASSUME NEW w \in placed, WorkloadStopped(w) PROVE Falls
  <2>1. On(n)' \subseteq On(n)
    BY <1>3 DEF WorkloadStopped, On
  <2>2. Taken(On(n)') <= Taken(On(n))
    BY <1>0, <2>1, TakenPart
  <2> QED
    BY <1>0, <2>2
<1>7. ASSUME NEW w \in placed, NEW stopped \in BOOLEAN, ReportState(w, stopped) PROVE Falls
  <2> DEFINE reported == [w EXCEPT !.stopped = stopped]
  <2>1. placed' = (placed \ {w}) \cup {reported} /\ stopped
    BY <1>7 DEF ReportState
  <2>2. reported.stopped = stopped
    BY <1>0, Rewritten
  <2> HIDE DEF reported
  <2>3. On(n)' \subseteq On(n)
    BY <2>1, <2>2 DEF On
  <2>4. Taken(On(n)') <= Taken(On(n))
    BY <1>0, <2>3, TakenPart
  <2> QED
    BY <1>0, <2>4
<1>4. ASSUME UNCHANGED placed PROVE Falls
  <2>1. On(n)' = On(n)
    BY <1>4 DEF On
  <2> QED
    BY <1>0, <2>1
<1>5. ASSUME NEW r \in Revisions, InsertWorkload(r) PROVE Falls
  BY <1>5
<1> HIDE DEF Falls
<1>6. Falls
  BY <1>1, <1>2, <1>3, <1>4, <1>5, <1>7
  DEF PlcNext, plcVars, CreateVolume, AttachVolume, DetachVolume, DeleteVolume, VolumeTick, RemoveVolume,
      VolumeWritten, NodeReturns, ReadMounts, CreateRevision, BeginPass, CheckVolumes,
      loadCandidates, ScheduleWorkload, ClaimVolumes, ReadClaim, ReadPorts
<1> QED
  BY <1>6 DEF Falls

(* An insertion adds the demand of its revision to the node of its pass.   *)
LEMMA LoadGrows ==
  ASSUME Beside, NEW r \in Revisions, InsertWorkload(r), NEW n \in Nodes
  PROVE  /\ n # placing[r].node => Load(n)' = Load(n)
         /\ n = placing[r].node => Load(n)' <= Load(n) + Demand[r]
<1>0. /\ Shaped /\ IsFiniteSet(On(n)) /\ \A w \in On(n) : w.of \in Revisions
      /\ Load(n) \in Nat /\ Load(n) = Taken(On(n)) /\ Load(n)' = Taken(On(n)')
  BY LoadIs, LoadType DEF Beside
<1>1. Demand[r] \in Nat
  BY PlacementAssumption
<1>2. ASSUME placed' = placed PROVE Load(n)' = Load(n)
  <2>1. On(n)' = On(n)
    BY <1>2 DEF On
  <2> QED
    BY <1>0, <2>1
<1>3. ASSUME NEW x, x.of = r, x.node = placing[r].node, ~x.stopped, placed' = placed \cup {x}
      PROVE  /\ n # placing[r].node => Load(n)' = Load(n)
             /\ n = placing[r].node => Load(n)' <= Load(n) + Demand[r]
  <2>1. ASSUME n # placing[r].node PROVE Load(n)' = Load(n)
    <3>1. On(n)' = On(n)
      BY <1>3, <2>1 DEF On
    <3> QED
      BY <1>0, <3>1
  <2>2. ASSUME n = placing[r].node PROVE Load(n)' <= Load(n) + Demand[r]
    <3>1. On(n)' = On(n) \cup {x}
      BY <1>3, <2>2 DEF On
    <3>2. CASE x \in On(n)
      <4>1. On(n)' = On(n)
        BY <3>1, <3>2
      <4>2. Load(n)' = Load(n)
        BY <1>0, <4>1
      <4> QED
        BY <1>0, <1>1, <4>2
    <3>3. CASE x \notin On(n)
      <4>1. Taken(On(n) \cup {x}) = Units(x) + Taken(On(n))
        BY <1>0, <1>3, <3>3, TakenAdd
      <4>2. Load(n)' = Demand[r] + Load(n)
        BY <1>0, <1>3, <3>1, <4>1 DEF Units
      <4> QED
        BY <1>0, <1>1, <4>2
    <3> QED
      BY <3>2, <3>3
  <2> QED
    BY <2>1, <2>2
<1>4. \/ placed' = placed
      \/ \E port \in PortsFor(r) :
           placed' = placed \cup {[of |-> r, node |-> placing[r].node, port |-> port, wanted |-> TRUE, stopped |-> FALSE]}
  BY Zenon DEF InsertWorkload
<1>5. CASE placed' = placed
  BY <1>0, <1>1, <1>2, <1>5
<1>6. ASSUME NEW port \in PortsFor(r),
             placed' = placed \cup {[of |-> r, node |-> placing[r].node, port |-> port, wanted |-> TRUE, stopped |-> FALSE]}
      PROVE  /\ n # placing[r].node => Load(n)' = Load(n)
             /\ n = placing[r].node => Load(n)' <= Load(n) + Demand[r]
  <2> DEFINE x == [of |-> r, node |-> placing[r].node, port |-> port, wanted |-> TRUE, stopped |-> FALSE]
  <2>1. x.of = r /\ x.node = placing[r].node /\ ~x.stopped
    OBVIOUS
  <2> HIDE DEF x
  <2>2. placed' = placed \cup {x}
    BY <1>6 DEF x
  <2> QED
    BY <1>3, <2>1, <2>2
<1> QED
  BY <1>4, <1>5, <1>6

(* How a pass comes to be under way, to have counted and to have chosen.   *)
LEMMA PassCounts ==
  ASSUME Beside, [PlcNext]_plcVars, NEW r \in Revisions
  PROVE  /\ Passing(r)' => Passing(r) \/ BeginPass(r)
         /\ HasCounted(r)' => \/ loadCandidates(r)
                              \/ HasCounted(r) /\ placing'[r].seen = placing[r].seen
         /\ HasChosen(r)' => \/ ScheduleWorkload(r)
                             \/ HasChosen(r) /\ placing'[r].node = placing[r].node
<1>0. placing \in [Revisions -> PlacingRow]
  BY DEF Beside, Shaped
<1> USE DEF Passing, HasCounted, HasChosen
<1>1. CASE placing'[r] = placing[r]
  BY <1>1
<1>2. CASE Passing(r) /\ placing'[r].pc \in {"idle", "load"}
  BY <1>2
<1>3. CASE BeginPass(r)
  <2>1. placing'[r].pc = "volumes"
    BY <1>0, <1>3 DEF BeginPass, PassStep, PlacingRow
  <2> QED
    BY <1>3, <2>1
<1>4. CASE loadCandidates(r)
  <2>1. placing[r].pc = "load" /\ placing'[r].pc = "schedule"
    BY <1>0, <1>4 DEF loadCandidates, PlacingRow
  <2> QED
    BY <1>4, <2>1
<1>5. CASE ScheduleWorkload(r)
  <2>1. placing[r].pc = "schedule"
    BY <1>5 DEF ScheduleWorkload
  <2>2. placing'[r].pc = "idle" \/ placing'[r].seen = placing[r].seen
    <3>1. EndPass(r) => placing'[r].pc = "idle"
      BY <1>0 DEF EndPass, NoPlacing
    <3>2. ASSUME NEW n, NEW pc, placing' = [placing EXCEPT ![r].node = n, ![r].pc = pc]
          PROVE  placing'[r].seen = placing[r].seen
      BY <1>0, <3>2 DEF PlacingRow
    <3> QED
      BY <1>5, <3>1, <3>2 DEF ScheduleWorkload
  <2> QED
    BY <1>5, <2>1, <2>2
<1>6. CASE ClaimVolumes(r)
  <2>1. /\ placing[r].pc = "claim" /\ placing'[r].node = placing[r].node
        /\ placing'[r].seen = placing[r].seen
    BY <1>0, <1>6 DEF ClaimVolumes, PassStep, PlacingRow
  <2> QED
    BY <2>1
<1>7. CASE ReadClaim(r)
  <2>1. placing[r].pc = "claimed"
    BY <1>7 DEF ReadClaim
  <2>2. \/ placing'[r].pc = "idle"
        \/ placing'[r].node = placing[r].node /\ placing'[r].seen = placing[r].seen
    <3>1. EndPass(r) => placing'[r].pc = "idle"
      BY <1>0 DEF EndPass, NoPlacing
    <3>2. ASSUME NEW n, NEW pc, placing' = [placing EXCEPT ![r].pc = pc, ![r].required = n]
          PROVE  placing'[r].node = placing[r].node /\ placing'[r].seen = placing[r].seen
      BY <1>0, <3>2 DEF PlacingRow
    <3> QED
      BY <1>7, <3>1, <3>2 DEF ReadClaim
  <2> QED
    BY <2>1, <2>2
<1>8. CASE ReadPorts(r)
  <2>1. /\ placing[r].pc = "ports" /\ placing'[r].pc = "insert"
        /\ placing'[r].node = placing[r].node
    BY <1>0, <1>8 DEF ReadPorts, PlacingRow
  <2> QED
    BY <2>1
<1> QED
  BY <1>1, <1>2, <1>3, <1>4, <1>5, <1>6, <1>7, <1>8, PassMoves

(* Room: while passes do not overlap, only the pass itself adds to a load. *)
LEMMA CountedStep == Beside /\ Counted /\ [PlcNext]_plcVars => Counted'
<1> SUFFICES ASSUME Beside, Counted, [PlcNext]_plcVars, ~passesMet', ~recounted' PROVE Counted'
  BY DEF Counted
<1>0. /\ ~passesMet /\ ~recounted
      /\ placing \in [Revisions -> PlacingRow] /\ placing' \in [Revisions -> PlacingRow]
      /\ \A n \in Nodes : Load(n) \in Nat /\ Load(n)' \in Nat /\ Capacity[n] \in Nat
      /\ \A r \in Revisions : Demand[r] \in Nat
      /\ Beside' /\ Claims'
  <2>1. ~passesMet /\ ~recounted
    <3>1. \/ UNCHANGED <<passesMet, recounted>>
          \/ \E n \in Nodes : NodeOffline(n)
          \/ \E w \in placed, stopped \in BOOLEAN : ReportState(w, stopped)
          \/ \E r \in Revisions : BeginPass(r)
      BY DEF PlcNext, plcVars, CreateVolume, AttachVolume, DetachVolume, DeleteVolume, VolumeTick, RemoveVolume,
          VolumeWritten, NodeReturns, RetireWorkload, WorkloadStopped, ReadMounts, CreateRevision,
          CheckVolumes, loadCandidates, ScheduleWorkload, ClaimVolumes, ReadClaim, ReadPorts, InsertWorkload
    <3>2. ASSUME NEW n \in Nodes, NodeOffline(n) PROVE ~passesMet /\ ~recounted
      BY <3>2 DEF NodeOffline
    <3>3. ASSUME NEW w \in placed, NEW stopped \in BOOLEAN, ReportState(w, stopped)
          PROVE  ~passesMet /\ ~recounted
      BY <3>3 DEF ReportState
    <3>4. ASSUME NEW r \in Revisions, BeginPass(r) PROVE ~passesMet /\ ~recounted
      BY <3>4 DEF BeginPass
    <3> QED
      BY <3>1, <3>2, <3>3, <3>4
  <2>2. Beside'
    BY BesideStep
  <2>3. \A n \in Nodes : Load(n) \in Nat
    BY LoadType DEF Beside
  <2>4. \A n \in Nodes : Load(n)' \in Nat
    <3>1. ASSUME NEW n \in Nodes PROVE Load(n)' \in Nat
      <4>1. IsFiniteSet(On(n)') /\ \A w \in On(n)' : w.of \in Revisions
        BY <2>2, FS_Subset DEF Beside, Shaped, PlcTypeOK, WorkloadRow, On
      <4>2. Load(n)' = Taken(On(n)')
        BY LoadIs
      <4> HIDE DEF On
      <4> QED
        BY <4>1, <4>2, TakenType
    <3> QED
      BY <3>1
  <2> QED
    BY <2>1, <2>2, <2>3, <2>4, PlacementAssumption DEF Beside, Shaped
<1>1. ASSUME NEW r \in Revisions, NEW s \in Revisions, Passing(r)', Passing(s)' PROVE r = s
  <2>1. \A q \in Revisions : ~BeginPass(q) \/ \A p \in Revisions : ~Passing(p)
    BY DEF BeginPass, Passing
  <2>2. ASSUME NEW q \in Revisions, NEW p \in Revisions, BeginPass(q), BeginPass(p) PROVE q = p
    <3>1. q # p => placing'[p] = placing[p] /\ placing'[p].pc = "volumes" /\ placing[p].pc = "idle"
      BY <1>0, <2>2 DEF BeginPass, PassStep, PlacingRow
    <3> QED
      BY <3>1
  <2>3. \A q, p \in Revisions : Passing(q) /\ Passing(p) => q = p
    BY <1>0 DEF Counted
  <2> QED
    BY <1>1, <2>1, <2>2, <2>3, PassCounts
<1>2. ASSUME NEW r \in Revisions, InsertWorkload(r) PROVE \A s \in Revisions : ~Passing(s)'
  <2>1. Passing(r) /\ ~Passing(r)'
    BY <1>0, <1>2 DEF InsertWorkload, EndPass, NoPlacing, Passing
  <2>2. \A s \in Revisions : s # r => placing'[s] = placing[s]
    BY <1>0, <1>2 DEF InsertWorkload, EndPass
  <2> QED
    BY <1>0, <2>1, <2>2 DEF Counted, Passing
<1>3. ASSUME NEW r \in Revisions, Passing(r)' PROVE \A n \in Nodes : Load(n)' <= Load(n)
  BY <1>2, <1>3, LoadFalls
<1>4. ASSUME NEW r \in Revisions, NEW n \in Nodes, HasCounted(r)' PROVE Load(n)' <= placing'[r].seen.load[n]
  <2>1. CASE loadCandidates(r)
    <3>1. placed' = placed /\ placing'[r].seen.load[n] = Load(n)
      BY <1>0, <2>1 DEF loadCandidates, PlacingRow
    <3>2. On(n)' = On(n)
      BY <3>1 DEF On
    <3>3. Load(n)' = Load(n)
      BY <3>2, LoadIs
    <3> QED
      BY <1>0, <3>1, <3>3
  <2>2. CASE HasCounted(r) /\ placing'[r].seen = placing[r].seen
    <3>1. Load(n) <= placing[r].seen.load[n]
      BY <1>0, <2>2 DEF Counted
    <3>2. Load(n)' <= Load(n)
      BY <1>3, <1>4 DEF HasCounted, Passing
    <3>3. placing[r].seen.load[n] \in Nat
      BY <1>0 DEF PlacingRow, Snapshot
    <3> QED
      BY <1>0, <2>2, <3>1, <3>2, <3>3
  <2> QED
    BY <1>4, <2>1, <2>2, PassCounts
<1>5. ASSUME NEW r \in Revisions, HasChosen(r)', NEW n \in Nodes, n = placing'[r].node
      PROVE  Load(n)' + Demand[r] <= Capacity[n]
  <2>1. Load(n)' <= Load(n)
    BY <1>3, <1>5 DEF HasChosen, Passing
  <2>2. Load(n) + Demand[r] <= Capacity[n]
    <3>1. CASE ScheduleWorkload(r)
      <4>1. placing[r].pc = "schedule"
        BY <3>1 DEF ScheduleWorkload
      <4>2. n \in scheduleWorkload(r)
        <5>1. ~EndPass(r)
          BY <1>0, <1>5 DEF EndPass, NoPlacing, HasChosen
        <5>2. PICK m \in scheduleWorkload(r) :
                placing' = [placing EXCEPT ![r].node = m, ![r].pc = IF revision[r] = {} THEN "ports" ELSE "claim"]
          BY <3>1, <5>1 DEF ScheduleWorkload
        <5>3. ASSUME NEW pc, placing' = [placing EXCEPT ![r].node = m, ![r].pc = pc] PROVE placing'[r].node = m
          BY <1>0, <5>3 DEF PlacingRow
        <5> QED
          BY <1>5, <5>2, <5>3
      <4>3. placing[r].seen.load[n] + Demand[r] <= Capacity[n]
        BY <4>2 DEF scheduleWorkload, Fitting
      <4>4. Load(n) <= placing[r].seen.load[n]
        BY <1>0, <4>1 DEF Counted, HasCounted
      <4>5. placing[r].seen.load[n] \in Nat
        BY <1>0 DEF PlacingRow, Snapshot
      <4> QED
        BY <1>0, <4>3, <4>4, <4>5
    <3>2. CASE HasChosen(r) /\ placing'[r].node = placing[r].node
      BY <1>0, <1>5, <3>2 DEF Counted
    <3> QED
      BY <1>5, <3>1, <3>2, PassCounts
  <2> QED
    BY <1>0, <2>1, <2>2
<1>6. ASSUME NEW n \in Nodes PROVE Load(n)' <= Capacity[n]
  <2>1. Load(n) <= Capacity[n]
    BY <1>0 DEF Counted
  <2>2. ASSUME NEW r \in Revisions, InsertWorkload(r) PROVE Load(n)' <= Capacity[n]
    <3>1. HasChosen(r)
      BY <2>2 DEF InsertWorkload, HasChosen
    <3>2. n = placing[r].node => Load(n) + Demand[r] <= Capacity[n]
      BY <1>0, <3>1 DEF Counted
    <3> QED
      BY <1>0, <2>1, <2>2, <3>2, LoadGrows
  <2> QED
    BY <1>0, <2>1, <2>2, LoadFalls
<1>7. ASSUME NEW r \in Revisions, HasChosen(r)'
      PROVE  (Load(placing[r].node) + Demand[r] <= Capacity[placing[r].node])'
  <2>1. PICK n \in Nodes : n = placing'[r].node
    BY <1>0, <1>7 DEF Claims
  <2>2. Load(n)' + Demand[r] <= Capacity[n]
    BY <1>5, <1>7, <2>1
  <2>3. (Load(placing[r].node))' = Load(n)'
    BY <2>1, Zenon DEF Load
  <2> QED
    BY <2>1, <2>2, <2>3
<1> QED
  BY <1>1, <1>4, <1>6, <1>7 DEF Counted

LEMMA CountedInit == PlcInit => Counted
<1> SUFFICES ASSUME PlcInit PROVE Counted
  OBVIOUS
<1>1. \A r \in Revisions : placing[r].pc = "idle"
  BY DEF PlcInit, NoPlacing
<1>2. ASSUME NEW n \in Nodes PROVE Load(n) <= Capacity[n]
  <2>1. On(n) = {}
    BY DEF PlcInit, On
  <2>2. Load(n) = 0
    BY <2>1, LoadIs, TakenStep
  <2> QED
    BY <2>2, PlacementAssumption
<1> QED
  BY <1>1, <1>2 DEF Counted, Passing, HasCounted, HasChosen

LEMMA CountedInvariance == PlcSpec => [](Beside /\ Counted)
BY BesideInit, BesideStep, CountedInit, CountedStep, PTL DEF PlcSpec

(* What counts as placed on a node, stopping workloads included, never     *)
(* needs more than its capacity, unless passes overlapped or a workload    *)
(* that had been left out as stopped counted again (scheduler.ts, the load *)
(* that deployments/controller.ts:353 sums over the rows of a node).       *)
THEOREM RoomHolds == PlcSpec => []RoomWithoutOverlap
<1>1. Counted => RoomWithoutOverlap
  BY DEF Counted, RoomWithoutOverlap
<1> QED
  BY <1>1, CountedInvariance, PTL
=============================================================================
