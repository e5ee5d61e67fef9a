----------------------------- MODULE MCPlacement -----------------------------
(***************************************************************************)
(* Model checking of Placement.                                            *)
(***************************************************************************)
EXTENDS Placement

(* Values of the constants.                                                *)
OneUnit == [n \in Nodes |-> 1]
OneUnitEach == [r \in Revisions |-> 1]
(* One revision asks for a port of its own, the other for any.             *)
OnePort == CHOOSE f \in [Revisions -> PortRange \cup {Dynamic}] :
             \E r \in Revisions : f[r] # Dynamic /\ \A s \in Revisions \ {r} : f[s] = Dynamic
=============================================================================
