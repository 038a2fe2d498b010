-------------------------------- MODULE MCMMU --------------------------------
(* TLC checks both MMUs in one run: the core runs on the one or the other,  *)
(* and the TLBs of the other keep an unused value.                          *)
EXTENDS MMU, TLC

(* Pages 0 and 1 are one huge page of the processes, 2 is a small page of   *)
(* the kernel and 3 one of the processes.                                   *)
Pages == 0..3
KernelPages == {2}
SizeOf == [v \in Pages |-> IF v < 2 THEN "2MB" ELSE "4KB"]
FirstPageOf == [v \in Pages |-> IF v = 1 THEN 0 ELSE v]

(* Under the fully associative MMU page 1 is a low user page, page 3 a high *)
(* one.                                                                     *)
SmallPages == 1..3
LowPages == {1}
Masked == {Zero}

(* Unused page tables follow the kernel's page, not to tell states apart.   *)
Unused == "unused"
UnusedPt == [m \in Mappings |-> table[<<2, Global>>]]
MCInit ==
  \/ /\ build = "ordinary" /\ Init
     /\ l1 = Unused /\ l0 = Unused /\ uncached = Unused /\ eager = Unused
     /\ secondLevel = Unused /\ table = Unused
  \/ /\ build = "fully associative" /\ Associative!Init
     /\ Init /\ pt = UnusedPt
MCNext ==
  /\ BuildNext
  /\ IF IsOrdinary THEN UNCHANGED associativeVars
     ELSE pt' = UnusedPt' /\ UNCHANGED <<itlb, dtlb, stlb, huge>>
MCSpec == MCInit /\ [][MCNext]_<<build, vars, associativeVars>>

Symmetry == Permutations(Asid) \cup Permutations(Ppn)
=============================================================================
