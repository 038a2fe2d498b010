------------------------------ MODULE CacheSet ------------------------------
(* What a set of the shared cache promises to the coherence protocol: it    *)
(* holds at most Ways blocks, gives up a block only to the access that      *)
(* takes it or because it is full, and remembers which blocks are dirty.    *)
EXTENDS Integers, FiniteSets

CONSTANTS Block, Ways
VARIABLE content     \* the blocks held, each with its dirty bit

Held == {e.block : e \in content}

(* A private cache takes a block away, or a reader takes over its dirtiness.*)
Take(b) == content' = {e \in content : e.block # b}
Clean(b) ==
  /\ b \in Held
  /\ content' = {e \in content : e.block # b} \union {[block |-> b, dirty |-> FALSE]}

(* A block arrives; another one leaves only if there is no room.            *)
Add(b, dirty) ==
  /\ b \notin Held
  /\ \E gone \in SUBSET content :
       /\ Cardinality(gone) = (IF Cardinality(content) < Ways THEN 0 ELSE 1)
       /\ content' = (content \ gone) \union {[block |-> b, dirty |-> dirty]}

(* A modified block is written back over the clean copy.                    *)
WriteBack(b) ==
  /\ [block |-> b, dirty |-> FALSE] \in content
  /\ content' = (content \ {[block |-> b, dirty |-> FALSE]}) \union {[block |-> b, dirty |-> TRUE]}

Init == content = {}
Next ==
  \E b \in Block :
    \/ Take(b) \/ Clean(b) \/ WriteBack(b)
    \/ \E dirty \in BOOLEAN : Add(b, dirty)
Spec == Init /\ [][Next]_content
=============================================================================
