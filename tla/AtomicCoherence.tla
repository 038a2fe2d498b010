--------------------------- MODULE AtomicCoherence ---------------------------
(***************************************************************************)
(* What the memory hierarchy promises about the private caches: every      *)
(* access, and every loss of a directory entry, looks like one atomic step *)
(* on the lines.  A store leaves its cache alone with the block, a load    *)
(* leaves no writer elsewhere, and a line gives its place to another only  *)
(* when its set has no free way.  Directory, shared cache, locks and       *)
(* pending accesses do not exist at this level.                            *)
(***************************************************************************)
EXTENDS FiniteSets, Naturals

CONSTANTS Cache, Block, SetOf, Ways

VARIABLE copy   \* copy[k][b]: state of block b in private cache k

State == {"I", "S", "E", "M"}
MayWrite == {"E", "M"}

Init == copy = [k \in Cache |-> [b \in Block |-> "I"]]

Peers(k, b) == {x \in Block : SetOf[x] = SetOf[b] /\ copy[k][x] # "I"}

(* The blocks an access of k to b replaces: one, and only from a full set. *)
Replaced(k, b) ==
  {{}} \cup {{v} : v \in {x \in Peers(k, b) : Cardinality(Peers(k, b)) = Ways}}

(* Cache k gets b in the given state, loses V, and the others keep of b    *)
(* what others[j] says.                                                    *)
Take(k, b, state, V, others) ==
  copy' = [j \in Cache |-> [x \in Block |->
    IF j = k THEN IF x = b THEN state ELSE IF x \in V THEN "I" ELSE copy[j][x]
    ELSE IF x = b THEN others[j] ELSE copy[j][x]]]

(* A hit store takes a writable line to the modified state.                *)
StoreHit(k, b) ==
  /\ copy[k][b] \in MayWrite
  /\ copy' = [copy EXCEPT ![k][b] = "M"]

(* A load that finds no other copy may be given any permission.            *)
LoadAlone(k, b) ==
  /\ \A j \in Cache : copy[j][b] = "I"
  /\ \E state \in State \ {"I"}, V \in Replaced(k, b) :
       Take(k, b, state, V, [j \in Cache |-> "I"])

(* A load of a block others hold shares it and takes the write permission  *)
(* away from its writer.                                                   *)
LoadShared(k, b) ==
  /\ copy[k][b] = "I"
  /\ \E V \in Replaced(k, b) :
       Take(k, b, "S", V,
            [j \in Cache |-> IF copy[j][b] = "I" THEN "I" ELSE "S"])

(* A store that misses or upgrades is the only copy afterwards.            *)
StoreMiss(k, b) ==
  /\ copy[k][b] \notin MayWrite
  /\ \E V \in IF copy[k][b] = "I" THEN Replaced(k, b) ELSE {{}} :
       Take(k, b, "M", V, [j \in Cache |-> "I"])

(* The directory forgets a block: no cache keeps it.                       *)
Forget(b) == copy' = [j \in Cache |-> [copy[j] EXCEPT ![b] = "I"]]

Next ==
  \/ \E k \in Cache, b \in Block :
       StoreHit(k, b) \/ LoadAlone(k, b) \/ LoadShared(k, b) \/ StoreMiss(k, b)
  \/ \E b \in Block : Forget(b)

Spec == Init /\ [][Next]_copy
=============================================================================
