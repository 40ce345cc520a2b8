--------------------------- MODULE MCProtectedPair ---------------------------
(* One setup frame, three calls, every kind of pair and core.              *)
EXTENDS ProtectedPair
=============================================================================
