---------------------------- MODULE MCSageExchange ----------------------------
(* Every pair of core kinds in the modes without threads; two rounds of      *)
(* three workers, two of them on one record, in the third.                   *)
EXTENDS SageExchange
===============================================================================
