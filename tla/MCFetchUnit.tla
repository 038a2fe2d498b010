----------------------------- MODULE MCFetchUnit -----------------------------
(* A small instance of FetchUnit for TLC: two banks of four entries.        *)
EXTENDS FetchUnit

MCHistories == [bank \in {0, 1} |-> IF bank = 0 THEN 3 ELSE 1]

Branches(pc, type, takens, targets) ==
  [pc : {pc}, type : {type}, taken : takens, target : targets]

(* Conditional branches that share sets and table entries.                  *)
Conditionals ==
  [branches |-> Branches(4, "Conditional", BOOLEAN, {8}) \union Branches(12, "Conditional", BOOLEAN, {8}),
   length |-> 8]
(* Branches of one set of the BTB, one at address zero, whose type and      *)
(* target change.                                                           *)
Mixed ==
  [branches |-> Branches(0, "Conditional", BOOLEAN, {8}) \union Branches(8, "Conditional", {TRUE}, {4})
     \union Branches(8, "IndirectBranch", {TRUE}, {4, 16}) \union Branches(16, "Unconditional", {TRUE}, {4}),
   length |-> 6]
(* Calls and returns.                                                       *)
Nested ==
  [branches |-> Branches(4, "DirectCall", {TRUE}, {12}) \union Branches(12, "IndirectCall", {TRUE}, {4})
     \union Branches(16, "Return", {TRUE}, {8}),
   length |-> 7]
MCPrograms == {Conditionals, Mixed, Nested}
=============================================================================
