-------------------------- MODULE MCReconcileQueue --------------------------
(* Two jobs and a pass that lists one of them. *)
EXTENDS ReconcileQueue
=============================================================================
