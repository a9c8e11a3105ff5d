----------------------------- MODULE MCDelivery -------------------------------
(* Model checking instances of JobDelivery. *)
EXTENDS JobDelivery, TLC

\* The slots of asynchronous calls are interchangeable.
Slots == Permutations(Tasks)
=============================================================================
