------------------------------ MODULE MCRwsem ------------------------------
(* RwsemSpinlock for three tasks: one inside and two that wait, in every    *)
(* order of readers and writers.  The liveness property rules out symmetry. *)
EXTENDS RwsemSpinlock
=============================================================================
