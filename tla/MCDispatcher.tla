----------------------------- MODULE MCDispatcher -----------------------------
(* A dispatcher for TLC: jobs are interchangeable. *)
EXTENDS Dispatcher

Symmetry == Permutations(Job)
=============================================================================
