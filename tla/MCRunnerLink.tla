----------------------------- MODULE MCRunnerLink ------------------------------
(* Model checking instances of RunnerLink. *)
EXTENDS RunnerLink
=============================================================================
