------------------------- MODULE MCCausalityDetector -------------------------
(* Small instances of CausalityDetector for TLC.                            *)
EXTENDS CausalityDetector, TLC

Symmetry == Permutations(Core)
=============================================================================
