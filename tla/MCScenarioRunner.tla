-------------------------- MODULE MCScenarioRunner --------------------------
(* TLC instances of ScenarioRunner; every bound is in the .cfg files.      *)
EXTENDS ScenarioRunner
=============================================================================
