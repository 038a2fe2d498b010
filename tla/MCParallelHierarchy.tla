------------------------ MODULE MCParallelHierarchy ------------------------
(* Small instances of ParallelHierarchy for TLC: blocks are numbered as    *)
(* physical block ids and indexed by remainder, as in the code.  The cores *)
(* are interchangeable: the cache maps below name them alike.              *)
EXTENDS ParallelHierarchyInvariant, TLC

(* A unified private cache per core.                                       *)
UnifiedCache == Core \X {"u"}
UnifiedOf    == [c \in Core |-> <<c, "u">>]

(* An instruction and a data cache per core.                               *)
HarvardCache  == Core \X {"i", "d"}
HarvardICache == [c \in Core |-> <<c, "i">>]
HarvardDCache == [c \in Core |-> <<c, "d">>]

OneSet == [b \in Block |-> 0]
Parity == [b \in Block |-> b % 2]

CoreSymmetry == Permutations(Core)
=============================================================================
