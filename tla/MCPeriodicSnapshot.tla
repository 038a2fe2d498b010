------------------------- MODULE MCPeriodicSnapshot -------------------------
(* Small instances of PeriodicSnapshot for TLC.                             *)
EXTENDS PeriodicSnapshot

(* One snapshot of every kind, and a delta written over a base: the loader  *)
(* must then take it for the base.                                          *)
MixedDisk ==
  {[index |-> 2, kind |-> "delta"], [index |-> 5, kind |-> "base"],
   [index |-> 5, kind |-> "delta"], [index |-> 7, kind |-> "raw_base"],
   [index |-> 8, kind |-> "raw_delta"]}
=============================================================================
