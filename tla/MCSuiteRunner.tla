--------------------------- MODULE MCSuiteRunner ---------------------------
(* Model of SuiteRunner for TLC. *)
EXTENDS SuiteRunner
=============================================================================
