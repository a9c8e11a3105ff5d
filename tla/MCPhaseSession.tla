--------------------------- MODULE MCPhaseSession ---------------------------
(* Model checking instances of PhaseSession. *)
EXTENDS PhaseSession
=============================================================================
