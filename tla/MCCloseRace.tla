----------------------------- MODULE MCCloseRace -----------------------------
(* Two opens and a close, two racing rounds, every kind of core.           *)
EXTENDS CloseRace
=============================================================================
