-------------------------- MODULE MCEngineRefinement ---------------------------
(* Small instances of EngineRefinement for TLC. *)
EXTENDS MCEngine, EngineRefinement
=============================================================================
