--------------------------- MODULE MCSmsPrefetcher ---------------------------
(* Small instances of SmsPrefetcher for TLC.                                *)
EXTENDS SmsPrefetcher, TLC

Symmetry == Permutations(Core) \cup Permutations(Pc) \cup Permutations(Region)
=============================================================================
