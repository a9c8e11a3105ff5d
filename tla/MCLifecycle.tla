----------------------------- MODULE MCLifecycle ------------------------------
(* Model checking instances of JobLifecycle. *)
EXTENDS JobLifecycle, TLC

\* The slots of asynchronous calls are interchangeable.
Slots == Permutations(Tasks)
=============================================================================
