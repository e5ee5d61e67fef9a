---------------------------- MODULE MCReconciler ----------------------------
(***************************************************************************)
(* Model checking of Reconciler.                                           *)
(***************************************************************************)
EXTENDS Reconciler, TLC

(* The status column influences nothing but itself; the runs whose         *)
(* properties do not mention it identify the states that differ in it.     *)
WithoutStatus ==
  <<[deployment EXCEPT !.status = "queued"], lease, workloads, retired,
    [s \in Sessions |-> [session[s] EXCEPT !.snap.status = "queued", !.next = "queued"]],
    replaced>>
=============================================================================
