------------------------------- MODULE MCIntake --------------------------------
(* Model checking instances of Intake. *)
EXTENDS Intake
Views == Permutations(Tabs)
=============================================================================
