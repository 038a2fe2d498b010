--------------------------- MODULE Aarch64Decoder ---------------------------
(* Which instructions the communication recorder takes for load-exclusive,  *)
(* compare-and-swap and atomic ones (communication/aarch64_decoder.rs).  An *)
(* instruction word is the record of the bit fields the decoder looks at:   *)
(* size 31:30, group 29:24, bits 23, 22 and 21, rs 20:16, bit 15, low 14:10.*)
EXTENDS Integers

Word == [size : 0..3, group : 0..63, b23 : 0..1, b22 : 0..1, b21 : 0..1, rs : 0..31,
         b15 : 0..1, low : 0..31]

Exclusive == 8           \* 001000, the load/store exclusive group
Lse == 56                \* 111000
Opc(w) == 8 * w.b15 + (w.low \div 4)
LseOperations == {0, 1, 3, 4, 5, 8, 9, 12, 13}

(* Mutant: loads are not told from stores.                                  *)
IsAnyExclusive(w) == w.group = Exclusive /\ w.b23 = 0

IsLoadExclusive(w) == w.group = Exclusive /\ w.b23 = 0 /\ w.b22 = 1

IsCas(w) == w.group = Exclusive /\ w.b23 = 1 /\ w.b21 = 1 /\ w.low = 31

(* A word of the LSE pattern whose bits 11:10 are set is none of the later  *)
(* patterns either; the pair operations are tried after the listed ones.    *)
IsPair(w) == w.size = 3 /\ w.b23 = 0 /\ w.b22 = 1 /\ w.b15 = 1
IsReadCheckWrite(w) ==
  w.group % 16 = 6 /\ w.b23 = 0 /\ w.b22 = 0 /\ w.b21 = 1 /\ (w.b15 = 1 \/ w.low \div 4 \in {4, 5})
IsAtomic(w) ==
  IF w.group = Lse /\ w.b21 = 1
  THEN w.low % 4 = 0 /\ (Opc(w) \in LseOperations \/ IsPair(w))
  ELSE \/ w.group = Exclusive /\ w.b23 = 1 /\ w.low = 31
       \/ IsReadCheckWrite(w)

Flags(w) ==
  (IF IsAtomic(w) THEN {"atomic"} ELSE {})
    \union (IF IsLoadExclusive(w) THEN {"load_exclusive"} ELSE {})

-----------------------------------------------------------------------------
(* The words a compiler emits for the instructions of a guest, after the    *)
(* encodings the decoder's comments quote.                                  *)
W(size, group, b23, b22, b21, rs, b15, low) ==
  [size |-> size, group |-> group, b23 |-> b23, b22 |-> b22, b21 |-> b21, rs |-> rs,
   b15 |-> b15, low |-> low]
Encodings ==
  [load  |-> {W(s, 57, 0, 1, i, 0, 0, i) : s \in 0..3, i \in 0..1},
   store |-> {W(s, 57, 0, 0, i, 0, 0, i) : s \in 0..3, i \in 0..1},
   ldxr  |-> {W(s, Exclusive, 0, 1, p, 31, q, 31) : s \in 2..3, p \in 0..1, q \in 0..1},
   stxr  |-> {W(s, Exclusive, 0, 0, p, r, q, 31) : s \in 2..3, p \in 0..1, r \in {0, 30},
                                                   q \in 0..1},
   lse   |-> {W(s, Lse, a, r, 1, 1, o \div 8, 4 * (o % 8)) :
                s \in 0..3, a \in 0..1, r \in 0..1, o \in LseOperations},
   cas   |-> {W(s, Exclusive, 1, a, 1, r, q, 31) : s \in 0..3, a \in 0..1, r \in {0, 31},
                                                   q \in 0..1}]
=============================================================================
