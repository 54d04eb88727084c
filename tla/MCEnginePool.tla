------------------------------ MODULE MCEnginePool ------------------------------
(* The instances of MCEngine with the worker threads. *)
EXTENDS MCEngine, EnginePool
=============================================================================
