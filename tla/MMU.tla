-------------------------------- MODULE MMU ----------------------------------
(* A build has one of the two MMUs (parallel_hierarchy/parser.rs) under the *)
(* same guest.  What belongs to the other one may be anything.              *)
EXTENDS OrdinaryMMU

CONSTANTS
  SmallVpn,                         \* the pages the guest uses under the fully
                                    \* associative MMU, all of them small
  LowVpn, Zero, MaskedAsid,         \* of FullyAssociativeMMU
  AssociativeL1Ways, AssociativeStlbWays, AssociativeStlbSets,
  AssociativeFlushes                \* the flushes the guest uses there

VARIABLES
  build,                                       \* which MMU
  l1, l0, uncached, eager, secondLevel, table  \* of FullyAssociativeMMU

Associative == INSTANCE FullyAssociativeMMU WITH
  Vpn <- SmallVpn, Kernel <- Kernel \cap SmallVpn, L1Ways <- AssociativeL1Ways,
  StlbWays <- AssociativeStlbWays, StlbSets <- AssociativeStlbSets,
  FlushKinds <- AssociativeFlushes, stlb <- secondLevel, pt <- table

ASSUME AssociativeAssumption == SmallVpn \subseteq Vpn /\ Associative!Assumptions

IsOrdinary == build = "ordinary"
associativeVars == <<l1, l0, uncached, eager, secondLevel, table>>

BuildInit ==
  /\ build \in {"ordinary", "fully associative"}
  /\ IsOrdinary => Init
  /\ ~IsOrdinary => Associative!Init

BuildNext ==
  /\ UNCHANGED build
  /\ \/ IsOrdinary /\ Next
     \/ ~IsOrdinary /\ Associative!Next

BuildSpec == BuildInit /\ [][BuildNext]_<<build, vars, associativeVars>>

-----------------------------------------------------------------------------
(* Whatever process runs next and whatever was flushed, a hit in any TLB of *)
(* the fully associative MMU gives what a page walk would (the assertions   *)
(* on ARCH::translate_in_pt in translate_and_refill), and piling up         *)
(* insertions and replacing late keeps what a first level that replaces at  *)
(* every insertion keeps.                                                   *)
AssociativeConsistent == ~IsOrdinary => Associative!Consistent
=============================================================================
