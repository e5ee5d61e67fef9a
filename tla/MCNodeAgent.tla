----------------------------- MODULE MCNodeAgent -----------------------------
(***************************************************************************)
(* Model checking of NodeAgent.                                            *)
(***************************************************************************)
EXTENDS NodeAgent, TLC

CONSTANT Rival  \* the workload that only competes for the port, if any

(* Bounds of the runs: API calls in progress at the same time; and once    *)
(* there is another workload, the rival does nothing but hold its port: it *)
(* is neither started nor stopped, and nobody stops the other.             *)
TwoCallsAtATime == Cardinality(handlers) + Cardinality(results) + Cardinality(requests) <= 2
Untouched(w) ==
  /\ command[StartOf(w)].attempts = 0
  /\ \A r \in Requesters : command[<<w, r>>].status = "none" /\ <<r, w>> \notin requests
RivalWaits ==
  \A w \in Workloads \cap {Rival} :
    /\ Untouched(w) \/ \A v \in Workloads \ {w} : desired[v] = "none"
    /\ \A call \in requests : call[2] = w
Explored == TwoCallsAtATime /\ RivalWaits
=============================================================================
