--------------------- MODULE CommunicationRecorderProofs ---------------------
(* Proofs about CommunicationRecorder for any cores, lines, guests, page    *)
(* walks, times and thresholds.                                             *)
EXTENDS CommunicationRecorder, FiniteSetTheorems, WellFoundedInduction, TLAPS

(* ---- the last of some indices ------------------------------------------ *)
(* The greatest of some indices up to n is one of them, or zero.            *)
LEMMA LastExists ==
  ASSUME NEW n \in Nat, NEW I \in SUBSET (1..n)
  PROVE  /\ Max({0} \union I) \in {0} \union I
         /\ Max({0} \union I) \in 0..n
         /\ \A i \in I : i <= Max({0} \union I)
<1> DEFINE T == {n - i : i \in {0} \union I}
<1>1. T \in SUBSET Nat /\ T # {}
  OBVIOUS
<1>2. \E m \in T : \A k \in T : ~(<<k, m>> \in OpToRel(<, Nat))
  BY <1>1, NatLessThanWellFounded, WFMin
<1>3. PICK m \in T : \A k \in T : ~(<<k, m>> \in OpToRel(<, Nat))
  BY <1>2
<1>4. ASSUME NEW k \in T PROVE m <= k
  <2>1. m \in Nat /\ k \in Nat
    BY <1>1
  <2>2. ~(k < m)
    BY <1>3, <2>1 DEF OpToRel
  <2> QED BY <2>1, <2>2
<1>5. PICK x \in {0} \union I : m = n - x
  BY <1>3
<1>6. \A y \in {0} \union I : x >= y
  <2> SUFFICES ASSUME NEW y \in {0} \union I PROVE x >= y
    OBVIOUS
  <2>1. n - y \in T
    OBVIOUS
  <2>2. n - x <= n - y
    BY <1>4, <1>5, <2>1
  <2> QED BY <2>2
<1> DEFINE Z == {0} \union I
<1>7. \E z \in Z : \A y \in Z : z >= y
  BY <1>6
<1> HIDE DEF Z
<1>8. Max(Z) \in Z /\ \A y \in Z : Max(Z) >= y
  BY <1>7 DEF Max
<1>9. Z = {0} \union I /\ Z \subseteq 0..n /\ \A i \in I : i \in Z /\ i \in Nat
  BY DEF Z
<1>10. \A i \in I : i <= Max(Z)
  BY <1>8, <1>9
<1> QED BY ONLY <1>8, <1>9, <1>10

(* An index that bounds the others and is one of them is their greatest.    *)
LEMMA LastIs ==
  ASSUME NEW I \in SUBSET Nat, NEW x \in {0} \union I, \A i \in I : i <= x
  PROVE  Max({0} \union I) = x
<1>1. \A i \in {0} \union I : i \in Nat /\ x >= i
  OBVIOUS
<1>2. \A y \in {0} \union I : (\A i \in {0} \union I : y >= i) => y = x
  BY <1>1
<1> QED BY <1>1, <1>2 DEF Max

(* One more index satisfies what is counted, or none.                       *)
LEMMA CountOne ==
  ASSUME NEW n \in Nat, NEW A \in SUBSET (1..n)
  PROVE  /\ IsFiniteSet(A) /\ Cardinality(A) \in Nat
         /\ Cardinality(A \union {n + 1}) = Cardinality(A) + 1
         /\ (\A i \in 1..n : i \notin A) => Cardinality(A) = 0
<1>1. IsFiniteSet(A)
  <2>1. IsFiniteSet(1..n)
    BY FS_Interval
  <2> QED BY <2>1, FS_Subset
<1>2. n + 1 \notin A
  OBVIOUS
<1> QED BY <1>1, <1>2, FS_AddElement, FS_CardinalityType, FS_EmptySet

(* What appending to a sequence does to its indices.                        *)
LEMMA Appended ==
  ASSUME NEW S, NEW h \in Seq(S), NEW e \in S, NEW t, t = Append(h, e)
  PROVE  /\ Len(h) \in Nat /\ Len(t) = Len(h) + 1 /\ t[Len(h) + 1] = e /\ t \in Seq(S)
         /\ DOMAIN h = 1..Len(h) /\ DOMAIN t = 1..(Len(h) + 1)
         /\ \A i \in 1..Len(h) : t[i] = h[i] /\ h[i] \in S
OBVIOUS

(* ---- the accesses of a line -------------------------------------------- *)
InsnOf == Insns \union {"cas", "fetch", "walk"}
Access == [core : Core, insn : InsnOf, ts : Times, dumped : BOOLEAN]

(* The last write before an access is a write, and nothing later is.        *)
LEMMA LastWriteFacts ==
  ASSUME NEW h, NEW i \in Nat \ {0}
  PROVE  /\ LastWrite(h, i) \in 0..i - 1
         /\ LastWrite(h, i) # 0 => IsStore(h[LastWrite(h, i)].insn)
         /\ \A j \in LastWrite(h, i) + 1..i - 1 : ~IsStore(h[j].insn)
<1> DEFINE I == {j \in 1..i - 1 : IsStore(h[j].insn)}
<1>1. I \in SUBSET (1..i - 1) /\ i - 1 \in Nat
  OBVIOUS
<1>2. LastWrite(h, i) = Max({0} \union I)
  BY DEF LastWrite
<1> HIDE DEF I
<1>3. /\ LastWrite(h, i) \in {0} \union I /\ LastWrite(h, i) \in 0..i - 1
      /\ \A j \in I : j <= LastWrite(h, i)
  BY <1>1, <1>2, LastExists
<1> QED BY <1>3 DEF I

(* That determines it.                                                      *)
LEMMA LastWriteIs ==
  ASSUME NEW h, NEW i \in Nat \ {0}, NEW w \in 0..i - 1, w # 0 => IsStore(h[w].insn),
         \A j \in w + 1..i - 1 : ~IsStore(h[j].insn)
  PROVE  LastWrite(h, i) = w
<1> DEFINE I == {j \in 1..i - 1 : IsStore(h[j].insn)}
<1>1. I \in SUBSET Nat /\ w \in {0} \union I /\ \A j \in I : j <= w
  OBVIOUS
<1> QED BY <1>1, LastIs DEF LastWrite

(* A longer log says the same of what it already held.                      *)
LEMMA Prolonged ==
  ASSUME NEW S, NEW h \in Seq(S), NEW e \in S, NEW t, t = Append(h, e)
  PROVE  /\ \A i \in 1..Len(h) + 1 : LastWrite(t, i) = LastWrite(h, i)
         /\ \A i \in 1..Len(h) : Communicates(t, i) <=> Communicates(h, i)
<1>1. ASSUME NEW i \in 1..Len(h) + 1 PROVE LastWrite(t, i) = LastWrite(h, i)
  <2>1. \A j \in 1..i - 1 : t[j] = h[j]
    BY Appended
  <2>2. {j \in 1..i - 1 : IsStore(t[j].insn)} = {j \in 1..i - 1 : IsStore(h[j].insn)}
    BY <2>1
  <2> QED BY <2>2 DEF LastWrite
<1>2. ASSUME NEW i \in 1..Len(h) PROVE Communicates(t, i) <=> Communicates(h, i)
  <2>1. LastWrite(t, i) = LastWrite(h, i) /\ LastWrite(h, i) \in 0..i - 1
    BY <1>1, LastWriteFacts
  <2>2. \A j \in 1..i : t[j] = h[j]
    BY Appended
  <2> QED BY <2>1, <2>2 DEF Communicates
<1> QED BY <1>1, <1>2

(* What the log says a core is charged grows by one transfer, or stays.     *)
Extra(h, e) == Since(e.ts, h[LastWrite(h, Len(h) + 1)].ts)
ChargedMore(charge, interval, kinds) ==
  [intervals |-> [t \in Times |-> charge.intervals[t] + IF t = interval THEN 1 ELSE 0],
   by |-> [k \in Category |-> charge.by[k] + IF k \in kinds THEN 1 ELSE 0]]
ChargesGrow(h, e, t, c, late, os) ==
  /\ ChargesIn(h, c, late, os) \in Charge
  /\ ChargesIn(t, c, late, os) =
       IF e.core = c /\ e.dumped = late /\ Communicates(t, Len(h) + 1)
       THEN ChargedMore(ChargesIn(h, c, late, os), Extra(h, e), Kinds(e.insn, os))
       ELSE ChargesIn(h, c, late, os)

(* One more access in the log of a line.                                    *)
LEMMA ChargesAppend ==
  ASSUME NEW h \in Seq(Access), NEW e \in Access, NEW t, t = Append(h, e),
         NEW c \in Core, NEW late \in BOOLEAN, NEW os
  PROVE  ChargesGrow(h, e, t, c, late, os)
<1> DEFINE n == Len(h)
<1> DEFINE Mine(s) == {i \in DOMAIN s : s[i].core = c /\ s[i].dumped = late /\ Communicates(s, i)}
<1> DEFINE At(s, x) == {i \in Mine(s) : Since(s[i].ts, s[LastWrite(s, i)].ts) = x}
<1> DEFINE By(s, k) == {i \in Mine(s) : k \in Kinds(s[i].insn, os)}
<1> DEFINE counted == e.core = c /\ e.dumped = late /\ Communicates(t, n + 1)
<1>1. /\ n \in Nat /\ t[n + 1] = e /\ DOMAIN h = 1..n /\ DOMAIN t = 1..(n + 1)
      /\ \A i \in 1..n : t[i] = h[i]
  BY Appended
<1>2. /\ \A i \in 1..n + 1 : LastWrite(t, i) = LastWrite(h, i)
      /\ \A i \in 1..n : Communicates(t, i) <=> Communicates(h, i)
  BY Prolonged
<1>3. Mine(t) = IF counted THEN Mine(h) \union {n + 1} ELSE Mine(h)
  BY <1>1, <1>2
<1>4. /\ Mine(h) \subseteq 1..n
      /\ \A x : At(h, x) \in SUBSET (1..n)
      /\ \A k : By(h, k) \in SUBSET (1..n)
  BY <1>1
<1>5. \A i \in 1..n : LastWrite(t, i) = LastWrite(h, i) /\ LastWrite(h, i) \in 0..i - 1
  BY <1>2, LastWriteFacts
<1>6. \A i \in 1..n : Communicates(h, i) => LastWrite(h, i) \in 1..n
  BY <1>5 DEF Communicates
<1>7. ASSUME NEW x
      PROVE  At(t, x) = IF counted /\ x = Extra(h, e) THEN At(h, x) \union {n + 1} ELSE At(h, x)
  <2>1. \A i \in Mine(h) : Since(t[i].ts, t[LastWrite(t, i)].ts) = Since(h[i].ts, h[LastWrite(h, i)].ts)
    BY <1>1, <1>5, <1>6
  <2>2. counted => LastWrite(h, n + 1) \in 1..n
    BY <1>1, <1>2, LastWriteFacts DEF Communicates
  <2>3. counted => Since(t[n + 1].ts, t[LastWrite(t, n + 1)].ts) = Extra(h, e)
    BY <1>1, <1>2, <2>2 DEF Extra
  <2> HIDE DEF Mine, counted
  <2> QED BY <1>3, <1>4, <2>1, <2>3
<1>8. ASSUME NEW k
      PROVE  By(t, k) = IF counted /\ k \in Kinds(e.insn, os) THEN By(h, k) \union {n + 1} ELSE By(h, k)
  <2> HIDE DEF counted
  <2>1. \A i \in Mine(h) : t[i] = h[i]
    BY <1>1, <1>4
  <2> HIDE DEF Mine
  <2> QED BY <1>1, <1>3, <1>4, <2>1
<1>9. \A s : ChargesIn(s, c, late, os) = [intervals |-> [x \in Times |-> Cardinality(At(s, x))],
                                     by |-> [k \in Category |-> Cardinality(By(s, k))]]
  BY DEF ChargesIn
<1> HIDE DEF Mine, At, By, counted
<1>10. ASSUME NEW x
       PROVE  /\ Cardinality(At(h, x)) \in Nat
              /\ Cardinality(At(t, x))
                    = Cardinality(At(h, x)) + IF counted /\ x = Extra(h, e) THEN 1 ELSE 0
  <2> DEFINE A == At(h, x)
  <2>1. A \in SUBSET (1..n) /\ n \in Nat
    BY <1>1, <1>4
  <2>2. At(t, x) = IF counted /\ x = Extra(h, e) THEN A \union {n + 1} ELSE A
    BY <1>7
  <2> HIDE DEF A
  <2>3. Cardinality(A) \in Nat /\ Cardinality(A \union {n + 1}) = Cardinality(A) + 1
    BY <2>1, CountOne
  <2> QED BY <2>2, <2>3 DEF A
<1>11. ASSUME NEW k
       PROVE  /\ Cardinality(By(h, k)) \in Nat
              /\ Cardinality(By(t, k))
                    = Cardinality(By(h, k)) + IF counted /\ k \in Kinds(e.insn, os) THEN 1 ELSE 0
  <2> DEFINE A == By(h, k)
  <2>1. A \in SUBSET (1..n) /\ n \in Nat
    BY <1>1, <1>4
  <2>2. By(t, k) = IF counted /\ k \in Kinds(e.insn, os) THEN A \union {n + 1} ELSE A
    BY <1>8
  <2> HIDE DEF A
  <2>3. Cardinality(A) \in Nat /\ Cardinality(A \union {n + 1}) = Cardinality(A) + 1
    BY <2>1, CountOne
  <2> QED BY <2>2, <2>3 DEF A
<1>12. ChargesIn(h, c, late, os) \in Charge
  BY <1>9, <1>10, <1>11 DEF Charge
<1>13. CASE counted
  <2>1. \A x : Cardinality(At(t, x)) = Cardinality(At(h, x)) + IF x = Extra(h, e) THEN 1 ELSE 0
    BY <1>10, <1>13
  <2>2. \A k : Cardinality(By(t, k)) = Cardinality(By(h, k)) + IF k \in Kinds(e.insn, os) THEN 1 ELSE 0
    BY <1>11, <1>13
  <2>3. ChargesIn(t, c, late, os)
         = ChargedMore(ChargesIn(h, c, late, os), Extra(h, e), Kinds(e.insn, os))
    BY <1>9, <2>1, <2>2 DEF ChargedMore
  <2> QED BY <1>12, <1>13, <2>3 DEF counted, ChargesGrow
<1>14. CASE ~counted
  <2>1. \A x : Cardinality(At(t, x)) = Cardinality(At(h, x))
    BY <1>10, <1>14
  <2>2. \A k : Cardinality(By(t, k)) = Cardinality(By(h, k))
    BY <1>11, <1>14
  <2>3. ChargesIn(t, c, late, os) = ChargesIn(h, c, late, os)
    BY <1>9, <2>1, <2>2
  <2> QED BY <1>12, <1>14, <2>3 DEF counted, ChargesGrow
<1> QED BY <1>13, <1>14

(* A log without accesses to charge charges nobody.                         *)
LEMMA NothingCharged ==
  ASSUME NEW h, NEW n \in Nat, DOMAIN h = 1..n, NEW c, NEW late, NEW os
  PROVE  /\ (\A i \in 1..n : ~(h[i].core = c /\ h[i].dumped = late /\ Communicates(h, i))) =>
              ChargesIn(h, c, late, os) = NoCharge
         /\ (\A x \in Times : ChargesIn(h, c, late, os).intervals[x] = 0) /\ h \in Seq(Access) =>
              ChargesIn(h, c, late, os) = NoCharge
<1> DEFINE mine == {i \in DOMAIN h : h[i].core = c /\ h[i].dumped = late /\ Communicates(h, i)}
<1> DEFINE At(x) == {i \in mine : Since(h[i].ts, h[LastWrite(h, i)].ts) = x}
<1> DEFINE By(k) == {i \in mine : k \in Kinds(h[i].insn, os)}
<1>1. ChargesIn(h, c, late, os) = [intervals |-> [x \in Times |-> Cardinality(At(x))],
                               by |-> [k \in Category |-> Cardinality(By(k))]]
  BY DEF ChargesIn
<1>2. mine = {} => ChargesIn(h, c, late, os) = NoCharge
  <2> SUFFICES ASSUME mine = {} PROVE ChargesIn(h, c, late, os) = NoCharge
    OBVIOUS
  <2>1. /\ \A x : Cardinality(At(x)) = 0
        /\ \A k : Cardinality(By(k)) = 0
    BY FS_EmptySet
  <2> HIDE DEF At, By
  <2> QED BY <1>1, <2>1 DEF NoCharge
<1>3. ASSUME \A x \in Times : ChargesIn(h, c, late, os).intervals[x] = 0, h \in Seq(Access), mine # {}
      PROVE  FALSE
  <2>1. PICK i \in mine : TRUE
    BY <1>3
  <2>2. i \in 1..n /\ Communicates(h, i)
    BY <2>1
  <2>3. LastWrite(h, i) \in 1..n
    BY <2>2, LastWriteFacts DEF Communicates
  <2>4. h[i] \in Access /\ h[LastWrite(h, i)] \in Access
    BY <1>3, <2>2, <2>3
  <2> DEFINE x == Since(h[i].ts, h[LastWrite(h, i)].ts)
  <2>5. x \in Times
    <3>1. h[i].ts \in Times /\ h[LastWrite(h, i)].ts \in Times
      BY <2>4 DEF Access
    <3>2. MaxTime \in Nat
      BY RecorderAssumption
    <3> HIDE DEF x
    <3>3. x = Since(h[i].ts, h[LastWrite(h, i)].ts)
      BY DEF x
    <3> QED BY <3>1, <3>2, <3>3 DEF Since, Times
  <2>6. i \in At(x)
    BY <2>1
  <2> HIDE DEF x
  <2>7. At(x) \in SUBSET (1..n)
    OBVIOUS
  <2> HIDE DEF At, By
  <2>8. IsFiniteSet(At(x))
    BY <2>7, CountOne
  <2>9. ChargesIn(h, c, late, os).intervals[x] = Cardinality(At(x))
    BY <1>1, <2>5
  <2>10. Cardinality(At(x)) = 0
    BY <1>3, <2>5, <2>9
  <2> QED BY <2>6, <2>8, <2>10, FS_EmptySet
<1>4. (\A i \in 1..n : ~(h[i].core = c /\ h[i].dumped = late /\ Communicates(h, i))) => mine = {}
  OBVIOUS
<1> HIDE DEF mine
<1> QED BY <1>2, <1>3, <1>4

(* ---- the record of a line ---------------------------------------------- *)
Written(ts, writer, readers) == [ts |-> ts, writer |-> writer, readers |-> readers]

(* The record is the last write and the others that have read it since.     *)
RecordOf(r, h) ==
  LET w == LastWrite(h, Len(h) + 1) IN
  IF w = 0 THEN r = NoRecord
  ELSE r = Written(h[w].ts, h[w].core, {h[j].core : j \in w + 1..Len(h)} \ {h[w].core})

(* The fields of a record; a written one is not the empty one.              *)
LEMMA IsWritten == \A a, b, d : /\ Written(a, b, d) # NoRecord
                                /\ Written(a, b, d).ts = a /\ Written(a, b, d).writer = b
                                /\ Written(a, b, d).readers = d
<1>1. ASSUME NEW a, NEW b, NEW d PROVE Written(a, b, d) # NoRecord
  <2>1. "ts" \in DOMAIN Written(a, b, d) /\ "ts" \notin DOMAIN NoRecord
    BY DEF Written, NoRecord
  <2> QED BY <2>1
<1> QED BY <1>1 DEF Written

(* Who the record lists as readers.                                         *)
LEMMA RecordReads ==
  ASSUME NEW h, NEW m \in Nat, Len(h) = m, NEW w, LastWrite(h, m + 1) = w, NEW r
  PROVE  RecordOf(r, h) <=>
           IF w = 0 THEN r = NoRecord
           ELSE r = Written(h[w].ts, h[w].core, {h[j].core : j \in w + 1..m} \ {h[w].core})
BY DEF RecordOf

(* After an access the record again says what the longer log says.          *)
LEMMA RecordFollows ==
  ASSUME NEW h \in Seq(Access), NEW r, RecordOf(r, h), NEW e \in Access, NEW t, t = Append(h, e)
  PROVE  /\ RecordOf(After(r, e.core, IsStore(e.insn), e.ts), t)
         /\ Communicates(t, Len(h) + 1) <=> Obtains(r, e.core, IsStore(e.insn))
         /\ Obtains(r, e.core, IsStore(e.insn)) =>
              LastWrite(h, Len(h) + 1) \in 1..Len(h) /\ r.ts = h[LastWrite(h, Len(h) + 1)].ts
<1> DEFINE n == Len(h)
<1> DEFINE w == LastWrite(h, n + 1)
<1> DEFINE Since2(s, m) == {s[j].core : j \in w + 1..m}
<1>1. /\ n \in Nat /\ Len(t) = n + 1 /\ t[n + 1] = e /\ \A i \in 1..n : t[i] = h[i]
  BY Appended
<1>2. LastWrite(t, n + 1) = w
  <2>1. \A i \in 1..n + 1 : LastWrite(t, i) = LastWrite(h, i)
    BY Prolonged
  <2>2. n + 1 \in 1..n + 1
    BY <1>1
  <2> QED BY <2>1, <2>2
<1>3. /\ w \in 0..n /\ (w # 0 => IsStore(h[w].insn))
      /\ \A j \in w + 1..n : ~IsStore(h[j].insn)
  BY <1>1, LastWriteFacts
<1>4. LastWrite(t, n + 2) = IF IsStore(e.insn) THEN n + 1 ELSE w
  <2>1. CASE IsStore(e.insn)
    <3>1. n + 2 \in Nat \ {0} /\ n + 1 \in 0..(n + 2) - 1 /\ IsStore(t[n + 1].insn)
      BY <1>1, <2>1
    <3>2. \A j \in (n + 1) + 1..(n + 2) - 1 : ~IsStore(t[j].insn)
      BY <1>1
    <3> HIDE DEF w, n
    <3> QED BY <2>1, <3>1, <3>2, LastWriteIs
  <2>2. CASE ~IsStore(e.insn)
    <3>1. w \in 0..(n + 2) - 1 /\ (w # 0 => IsStore(t[w].insn))
      BY <1>1, <1>3
    <3>2. \A j \in w + 1..(n + 2) - 1 : ~IsStore(t[j].insn)
      BY <1>1, <1>3, <2>2
    <3>3. n + 2 \in Nat \ {0}
      BY <1>1
    <3> HIDE DEF w, n
    <3> QED BY <2>2, <3>1, <3>2, <3>3, LastWriteIs
  <2> QED BY <2>1, <2>2
<1>b. IsStore(e.insn) => RecordOf(Written(e.ts, e.core, {}), t)
  <2> SUFFICES ASSUME IsStore(e.insn) PROVE RecordOf(Written(e.ts, e.core, {}), t)
    OBVIOUS
  <2>1. LastWrite(t, (n + 1) + 1) = n + 1 /\ n + 1 \in Nat /\ n + 1 # 0
    BY <1>1, <1>4
  <2>2. {t[j].core : j \in (n + 1) + 1..n + 1} = {}
    BY <1>1
  <2>3. Written(e.ts, e.core, {}) =
          Written(t[n + 1].ts, t[n + 1].core, {t[j].core : j \in (n + 1) + 1..n + 1} \ {t[n + 1].core})
    BY <1>1, <2>2
  <2> DEFINE m == n + 1
  <2>4. Len(t) = m /\ LastWrite(t, m + 1) = m /\ m \in Nat /\ m # 0
    BY <1>1, <2>1
  <2> HIDE DEF m
  <2>5. RecordOf(Written(e.ts, e.core, {}), t) <=>
          Written(e.ts, e.core, {})
            = Written(t[m].ts, t[m].core, {t[j].core : j \in m + 1..m} \ {t[m].core})
    BY ONLY <2>4, RecordReads
  <2> QED BY <2>3, <2>5 DEF m
<1>5. CASE w = 0
  <2>1. r = NoRecord
    BY <1>5 DEF RecordOf
  <2>2. ~Communicates(t, n + 1) /\ ~Obtains(r, e.core, IsStore(e.insn))
    BY <1>2, <1>5, <2>1 DEF Communicates, Obtains
  <2>3. ~Obtains(r, e.core, FALSE)
    BY <2>1 DEF Obtains
  <2>4. CASE IsStore(e.insn)
    <3>1. After(r, e.core, IsStore(e.insn), e.ts) = Written(e.ts, e.core, {})
      BY <2>4 DEF After, Written
    <3> QED BY <1>b, <2>2, <2>4, <3>1
  <2>5. CASE ~IsStore(e.insn)
    <3>1. After(r, e.core, IsStore(e.insn), e.ts) = NoRecord
      BY <2>1, <2>3, <2>5 DEF After
    <3> QED BY <1>1, <1>4, <1>5, <2>2, <2>5, <3>1 DEF RecordOf
  <2> QED BY <2>4, <2>5
<1>6. CASE w # 0
  <2>1. r = Written(h[w].ts, h[w].core, Since2(h, n) \ {h[w].core})
    BY <1>6 DEF RecordOf
  <2>2. r # NoRecord /\ r.ts = h[w].ts /\ r.writer = h[w].core /\ r.readers = Since2(h, n) \ {h[w].core}
    BY <2>1, IsWritten
  <2>3. t[w] = h[w] /\ \A j \in w + 1..n : t[j] = h[j]
    BY <1>1, <1>3, <1>6
  <2>4. Since2(t, n) = Since2(h, n)
    BY <2>3
  <2>5. Since2(t, n + 1) = Since2(h, n) \union {e.core}
    <3>1. w + 1..n + 1 = (w + 1..n) \union {n + 1}
      BY <1>1, <1>3
    <3> QED BY <1>1, <2>3, <3>1
  <2>6. (\A j \in w + 1..n : t[j].core # e.core) <=> e.core \notin Since2(h, n)
    BY <2>3
  <2>7. Communicates(t, n + 1) <=>
          /\ h[w].core # e.core
          /\ IF IsStore(e.insn) THEN h[w].ts > 0 ELSE e.core \notin Since2(h, n)
    <3>1. Communicates(t, n + 1) <=>
            /\ w # 0 /\ t[w].core # t[n + 1].core
            /\ IF IsStore(t[n + 1].insn) THEN t[w].ts > 0
               ELSE \A j \in w + 1..(n + 1) - 1 : t[j].core # t[n + 1].core
      BY <1>2 DEF Communicates
    <3>2. (n + 1) - 1 = n
      BY <1>1
    <3> HIDE DEF w, n, Since2
    <3> QED BY <1>1, <1>6, <2>3, <2>6, <3>1, <3>2
  <2> DEFINE S == Since2(h, n)
  <2> HIDE DEF Since2
  <2>8. Communicates(t, n + 1) <=> Obtains(r, e.core, IsStore(e.insn))
    BY <2>2, <2>7 DEF Obtains
  <2>9. RecordOf(After(r, e.core, IsStore(e.insn), e.ts), t)
    <3>1. CASE IsStore(e.insn)
      <4>1. After(r, e.core, IsStore(e.insn), e.ts) = Written(e.ts, e.core, {})
        BY <3>1 DEF After, Written
      <4> QED BY <1>b, <3>1, <4>1
    <3>2. CASE ~IsStore(e.insn)
      <4>1. After(r, e.core, IsStore(e.insn), e.ts) =
              Written(h[w].ts, h[w].core, (S \union {e.core}) \ {h[w].core})
        <5>1. CASE Obtains(r, e.core, FALSE)
          <6>1. After(r, e.core, IsStore(e.insn), e.ts)
                   = Written(r.ts, r.writer, r.readers \union {e.core})
            BY <3>2, <5>1 DEF After, Written
          <6>2. Written(r.ts, r.writer, r.readers \union {e.core}) =
                  Written(h[w].ts, h[w].core, (S \ {h[w].core}) \union {e.core})
            BY <2>2
          <6>3. e.core # h[w].core
            BY <2>2, <5>1 DEF Obtains
          <6>4. (S \ {h[w].core}) \union {e.core} = (S \union {e.core}) \ {h[w].core}
            BY <6>3
          <6> QED BY <6>1, <6>2, <6>4
        <5>2. CASE ~Obtains(r, e.core, FALSE)
          <6>1. After(r, e.core, IsStore(e.insn), e.ts) = r
            BY <3>2, <5>2 DEF After
          <6>2. e.core = h[w].core \/ e.core \in S
            BY <2>2, <5>2 DEF Obtains
          <6>3. S \ {h[w].core} = (S \union {e.core}) \ {h[w].core}
            BY <6>2
          <6> QED BY <2>1, <6>1, <6>3
        <5> QED BY <5>1, <5>2
      <4>2. Since2(t, n + 1) = S \union {e.core}
        BY <2>5
      <4>3. RecordOf(After(r, e.core, IsStore(e.insn), e.ts), t) <=>
              After(r, e.core, IsStore(e.insn), e.ts) =
                Written(t[w].ts, t[w].core, Since2(t, n + 1) \ {t[w].core})
        <5>1. LastWrite(t, (n + 1) + 1) = w /\ n + 1 \in Nat
          BY <1>1, <1>4, <3>2
        <5> DEFINE m == n + 1
        <5> DEFINE new == After(r, e.core, IsStore(e.insn), e.ts)
        <5>2. Len(t) = m /\ LastWrite(t, m + 1) = w /\ m \in Nat
          BY <1>1, <5>1
        <5> HIDE DEF w, m, new
        <5>3. RecordOf(new, t) <=> IF w = 0 THEN new = NoRecord
                ELSE new = Written(t[w].ts, t[w].core, {t[j].core : j \in w + 1..m} \ {t[w].core})
          BY ONLY <5>2, RecordReads
        <5> QED BY <1>6, <5>3 DEF Since2, m, new
      <4> QED BY <2>3, <4>1, <4>2, <4>3
    <3> QED BY <3>1, <3>2
  <2> QED BY <1>3, <1>6, <2>2, <2>8, <2>9
<1> QED BY <1>5, <1>6

(* An interval is a time.                                                   *)
LEMMA SinceTimes == \A a, b \in Times : Since(a, b) \in Times
<1> SUFFICES ASSUME NEW a \in Times, NEW b \in Times PROVE Since(a, b) \in Times
  OBVIOUS
<1>1. MaxTime \in Nat
  BY RecorderAssumption
<1> QED BY <1>1 DEF Since, Times

(* The charge record_access makes is one transfer more.                     *)
LEMMA Recharged ==
  ASSUME NEW charge \in Charge, NEW x \in Times, NEW by, NEW kinds,
         \A k \in Category : k \in by <=> k \in kinds
  PROVE  [intervals |-> Bump(charge.intervals, x),
          by |-> [k \in Category |-> charge.by[k] + IF k \in by THEN 1 ELSE 0]]
           = ChargedMore(charge, x, kinds)
<1>1. charge.intervals \in [Times -> Nat]
  BY DEF Charge
<1>2. Bump(charge.intervals, x) = [t \in Times |-> charge.intervals[t] + IF t = x THEN 1 ELSE 0]
  BY <1>1 DEF Bump
<1>3. [k \in Category |-> charge.by[k] + IF k \in by THEN 1 ELSE 0] =
        [k \in Category |-> charge.by[k] + IF k \in kinds THEN 1 ELSE 0]
  OBVIOUS
<1> QED BY <1>2, <1>3 DEF ChargedMore

(* One transfer more keeps the type of a charge.                            *)
LEMMA ChargedTypes ==
  \A charge \in Charge : \A x, kinds : ChargedMore(charge, x, kinds) \in Charge
BY DEF ChargedMore, Charge

(* What record, charges and file say of a line is what its log says.        *)
Faithful(h, r, charge, filed, dumped, os) ==
  /\ h \in Seq(Access) /\ RecordOf(r, h)
  /\ ~dumped => \A i \in DOMAIN h : ~h[i].dumped
  /\ \A c \in Core : /\ filed[c] = IF dumped THEN ChargesIn(h, c, FALSE, os) ELSE NoCharge
                     /\ charge[c] = ChargesIn(h, c, dumped, os)

(* The charges of a line after access e, by being the flags of its call.    *)
Recharge(charge, r, e, by) ==
  IF Obtains(r, e.core, IsStore(e.insn))
  THEN [charge EXCEPT ![e.core] =
          [intervals |-> Bump(@.intervals, Since(e.ts, r.ts)),
           by |-> [k \in Category |-> @.by[k] + IF k \in by THEN 1 ELSE 0]]]
  ELSE charge

(* An access keeps record, charges and file true to the log.                *)
LEMMA AccessFaithful ==
  ASSUME NEW h, NEW r, NEW charge, NEW filed, NEW d \in BOOLEAN, NEW os,
         Faithful(h, r, charge, filed, d, os),
         charge \in [Core -> Charge], NEW e \in Access, e.dumped = d, NEW t, t = Append(h, e),
         NEW by, \A k \in Category : k \in by <=> k \in Kinds(e.insn, os),
         NEW new, new = Recharge(charge, r, e, by)
  PROVE  /\ Faithful(t, After(r, e.core, IsStore(e.insn), e.ts), new, filed, d, os)
         /\ new \in [Core -> Charge]
<1> DEFINE a == After(r, e.core, IsStore(e.insn), e.ts)
<1>1. h \in Seq(Access) /\ RecordOf(r, h)
  BY DEF Faithful
<1>2. /\ Len(h) \in Nat /\ t \in Seq(Access) /\ t[Len(h) + 1] = e
      /\ DOMAIN h = 1..Len(h) /\ DOMAIN t = 1..(Len(h) + 1) /\ \A i \in 1..Len(h) : t[i] = h[i]
  BY <1>1, Appended
<1>3. RecordOf(a, t)
  BY <1>1, RecordFollows
<1>4. Communicates(t, Len(h) + 1) <=> Obtains(r, e.core, IsStore(e.insn))
  BY <1>1, RecordFollows
<1>5. e.core \in Core /\ e.ts \in Times
  BY DEF Access
<1>6. Obtains(r, e.core, IsStore(e.insn)) => Since(e.ts, r.ts) = Extra(h, e) /\ Extra(h, e) \in Times
  <2> SUFFICES ASSUME Obtains(r, e.core, IsStore(e.insn))
               PROVE  Since(e.ts, r.ts) = Extra(h, e) /\ Extra(h, e) \in Times
    OBVIOUS
  <2>1. LastWrite(h, Len(h) + 1) \in 1..Len(h) /\ r.ts = h[LastWrite(h, Len(h) + 1)].ts
    BY <1>1, RecordFollows
  <2>2. h[LastWrite(h, Len(h) + 1)] \in Access
    BY <1>1, <2>1
  <2>3. h[LastWrite(h, Len(h) + 1)].ts \in Times
    BY <2>2 DEF Access
  <2> QED BY <1>5, <2>1, <2>3, SinceTimes DEF Extra
<1>7. ASSUME NEW c \in Core, NEW late \in BOOLEAN
      PROVE  /\ ChargesIn(h, c, late, os) \in Charge
             /\ ChargesIn(t, c, late, os) =
                  IF e.core = c /\ e.dumped = late /\ Communicates(t, Len(h) + 1)
                  THEN ChargedMore(ChargesIn(h, c, late, os), Extra(h, e), Kinds(e.insn, os))
                  ELSE ChargesIn(h, c, late, os)
  <2>1. h \in Seq(Access) /\ e \in Access /\ t = Append(h, e) /\ c \in Core /\ late \in BOOLEAN
    BY <1>1
  <2>2. ChargesGrow(h, e, t, c, late, os)
    BY <2>1, ChargesAppend
  <2> QED BY <2>2 DEF ChargesGrow
<1>8. ~d => \A i \in DOMAIN t : ~t[i].dumped
  <2> SUFFICES ASSUME ~d, NEW i \in DOMAIN t PROVE ~t[i].dumped
    OBVIOUS
  <2>1. i \in 1..Len(h) \/ i = Len(h) + 1
    BY <1>2
  <2>2. \A j \in DOMAIN h : ~h[j].dumped
    BY DEF Faithful
  <2> QED BY <1>2, <2>1, <2>2
<1>9. ASSUME NEW c \in Core
      PROVE  filed[c] = IF d THEN ChargesIn(t, c, FALSE, os) ELSE NoCharge
  <2>1. filed[c] = IF d THEN ChargesIn(h, c, FALSE, os) ELSE NoCharge
    BY DEF Faithful
  <2>2. d => ChargesIn(t, c, FALSE, os) = ChargesIn(h, c, FALSE, os)
    BY <1>7
  <2> QED BY <2>1, <2>2
<1>10. ASSUME NEW c \in Core PROVE charge[c] = ChargesIn(h, c, d, os)
  BY DEF Faithful
<1>11. CASE Obtains(r, e.core, IsStore(e.insn))
  <2>1. new = [charge EXCEPT ![e.core] = ChargedMore(charge[e.core], Extra(h, e), Kinds(e.insn, os))]
    <3>1. charge[e.core] \in Charge
      BY <1>5
    <3>2. [intervals |-> Bump(charge[e.core].intervals, Since(e.ts, r.ts)),
           by |-> [k \in Category |-> charge[e.core].by[k] + IF k \in by THEN 1 ELSE 0]]
          = ChargedMore(charge[e.core], Extra(h, e), Kinds(e.insn, os))
      <4> DEFINE old == charge[e.core]
      <4> DEFINE x == Extra(h, e)
      <4> DEFINE kinds == Kinds(e.insn, os)
      <4>1. old \in Charge /\ x \in Times /\ Since(e.ts, r.ts) = x
        BY <1>6, <1>11, <3>1
      <4>2. \A k \in Category : k \in by <=> k \in kinds
        OBVIOUS
      <4> HIDE DEF old, x, kinds
      <4>3. [intervals |-> Bump(old.intervals, x),
             by |-> [k \in Category |-> old.by[k] + IF k \in by THEN 1 ELSE 0]]
              = ChargedMore(old, x, kinds)
        BY ONLY <4>1, <4>2, Recharged
      <4> QED BY <4>1, <4>3 DEF old, x, kinds
    <3> QED BY <1>11, <3>2 DEF Recharge
  <2>2. \A c \in Core : new[c]
                         = IF c = e.core THEN ChargedMore(charge[c], Extra(h, e), Kinds(e.insn, os))
                                 ELSE charge[c]
    BY <2>1
  <2>3. \A c \in Core : new[c] = ChargesIn(t, c, d, os)
    BY <1>4, <1>7, <1>10, <1>11, <2>2
  <2>4. new \in [Core -> Charge]
    BY <1>5, <2>1, ChargedTypes
  <2> QED BY <1>2, <1>3, <1>8, <1>9, <2>3, <2>4 DEF Faithful
<1>12. CASE ~Obtains(r, e.core, IsStore(e.insn))
  <2>1. new = charge
    BY <1>12 DEF Recharge
  <2>2. \A c \in Core : new[c] = ChargesIn(t, c, d, os)
    BY <1>4, <1>7, <1>10, <1>12, <2>1
  <2> QED BY <1>2, <1>3, <1>8, <1>9, <2>1, <2>2 DEF Faithful
<1> QED BY <1>11, <1>12

(* A dump writes what is charged and charges nothing any more.              *)
LEMMA DumpFaithful ==
  ASSUME NEW h, NEW r, NEW charge, NEW filed, NEW os,
         Faithful(h, r, charge, filed, FALSE, os),
         charge \in [Core -> Charge], filed \in [Core -> Charge],
         NEW f, NEW g,
         IF \E c \in Core, t \in Times : charge[c].intervals[t] > 0
         THEN f = charge /\ g = [c \in Core |-> NoCharge]
         ELSE f = filed /\ g = charge
  PROVE  Faithful(h, r, g, f, TRUE, os)
<1>1. h \in Seq(Access) /\ \A i \in DOMAIN h : ~h[i].dumped
  BY DEF Faithful
<1>2. Len(h) \in Nat /\ DOMAIN h = 1..Len(h)
  BY <1>1
<1>3. ASSUME NEW c \in Core
      PROVE  /\ charge[c] = ChargesIn(h, c, FALSE, os) /\ filed[c] = NoCharge
             /\ ChargesIn(h, c, TRUE, os) = NoCharge
  <2>1. charge[c] = ChargesIn(h, c, FALSE, os) /\ filed[c] = NoCharge
    BY DEF Faithful
  <2>2. \A i \in 1..Len(h) : ~(h[i].core = c /\ h[i].dumped = TRUE /\ Communicates(h, i))
    BY <1>1, <1>2
  <2> QED BY <1>2, <2>1, <2>2, NothingCharged
<1>4. CASE \E c \in Core, t \in Times : charge[c].intervals[t] > 0
  <2>1. \A c \in Core : f[c] = charge[c] /\ g[c] = NoCharge
    BY <1>4
  <2> QED BY <1>3, <2>1 DEF Faithful
<1>5. CASE ~\E c \in Core, t \in Times : charge[c].intervals[t] > 0
  <2>1. ASSUME NEW c \in Core PROVE charge[c] = NoCharge
    <3>1. charge[c].intervals \in [Times -> Nat]
      BY DEF Charge
    <3>2. \A x \in Times : charge[c].intervals[x] = 0
      BY <1>5, <3>1
    <3> QED BY <1>1, <1>2, <1>3, <3>2, NothingCharged
  <2>2. f = filed /\ g = charge
    BY <1>5
  <2>3. \A c \in Core : f[c] = ChargesIn(h, c, FALSE, os) /\ g[c] = ChargesIn(h, c, TRUE, os)
    BY <1>3, <2>1, <2>2
  <2> QED BY <2>3 DEF Faithful
<1> QED BY <1>4, <1>5

(* ---- the decoder ------------------------------------------------------- *)
(* The decoder's flags of a guest's instruction are its kinds.              *)
LEMMA DecodedKinds ==
  /\ \A insn \in Insns : \A flags \in Decoded[insn] :
        flags \union guest.privilege = Kinds(insn, guest.privilege)
  /\ \A flags \in DecodedCas : flags \union guest.privilege = Kinds("cas", guest.privilege)
<1>1. DOMAIN Encodings = {"load", "store", "ldxr", "stxr", "lse", "cas"}
  BY DEF Encodings
<1>2. /\ Kinds("load", guest.privilege) = guest.privilege
      /\ Kinds("store", guest.privilege) = guest.privilege
      /\ Kinds("stxr", guest.privilege) = guest.privilege
      /\ Kinds("ldxr", guest.privilege) = guest.privilege \union {"load_exclusive"}
      /\ Kinds("lse", guest.privilege) = guest.privilege \union {"atomic"}
      /\ Kinds("cas", guest.privilege) = guest.privilege \union {"atomic"}
  BY DEF Kinds
<1>3. ASSUME NEW w \in Encodings["load"] \union Encodings["store"]
      PROVE  Flags(w) = {}
  BY DEF Encodings, W, Flags, IsAtomic, IsLoadExclusive, IsReadCheckWrite, Lse, Exclusive
<1>4. ASSUME NEW w \in Encodings["ldxr"] PROVE Flags(w) = {"load_exclusive"}
  BY DEF Encodings, W, Flags, IsAtomic, IsLoadExclusive, IsReadCheckWrite, Lse, Exclusive
<1>5. ASSUME NEW w \in Encodings["stxr"] PROVE Flags(w) = {}
  BY DEF Encodings, W, Flags, IsAtomic, IsLoadExclusive, IsReadCheckWrite, Lse, Exclusive
<1>6. ASSUME NEW w \in Encodings["cas"] PROVE Flags(w) = {"atomic"}
  BY DEF Encodings, W, Flags, IsAtomic, IsLoadExclusive, IsReadCheckWrite, Lse, Exclusive
<1>7. ASSUME NEW w \in Encodings["lse"] PROVE Flags(w) = {"atomic"}
  BY DEF Encodings, W, Flags, IsAtomic, IsLoadExclusive, IsReadCheckWrite, Lse, Exclusive, Opc,
         LseOperations
<1>8. \A insn \in Insns : Decoded[insn] = {Flags(w) : w \in Encodings[insn]}
  BY <1>1 DEF Decoded, Insns
<1>9. DecodedCas \subseteq {Flags(w) : w \in Encodings["cas"]}
  BY DEF DecodedCas
<1>10. \A insn \in Insns : \A flags \in Decoded[insn] :
        flags \union guest.privilege = Kinds(insn, guest.privilege)
  BY <1>2, <1>3, <1>4, <1>5, <1>7, <1>8 DEF Insns
<1>11. \A flags \in DecodedCas : flags \union guest.privilege = Kinds("cas", guest.privilege)
  BY <1>2, <1>6, <1>9
<1> QED BY <1>10, <1>11

(* ---- types ------------------------------------------------------------- *)
Callback == [stage : {"walk", "countWalk", "count", "record"}, insn : InsnOf, line : Line,
             walk : Seq(Line), by : SUBSET Category, ts : Times]
LineRecord == [ts : Times, writer : Core, readers : SUBSET Core]
PcState == [insns : Nat, ts : Times, addr : Line, waiting : BOOLEAN]
Recorded == [cas  : Seq([pc : Pc, addr : Line, insns : Nat, ts : Times]),
             wfe  : Seq([insns : Nat, ts : Times]),
             idle : Seq([op : {"wfi", "interrupt"}, ts : Times])]

(* The inductive types: those of the callbacks in progress, of the lines,   *)
(* of the dump and of the cores.                                            *)
CallbackTypes ==
  /\ generation \in Times /\ guest \in Workloads /\ events \in 0..guest.events
  /\ cpu \in [Core -> {Idle} \union Callback] /\ total \in [Core -> Nat]
  /\ \A c \in Core : cpu[c] # Idle =>
       /\ cpu[c].by = Kinds(cpu[c].insn, guest.privilege)
       /\ cpu[c].stage \in {"walk", "countWalk"} => cpu[c].walk # <<>>
LineTypes ==
  /\ records \in [Line -> {NoRecord} \union LineRecord]
  /\ charged \in [Line -> [Core -> Charge]] /\ file \in [Line -> [Core -> Charge]]
  /\ log \in [Line -> Seq(Access)]
DumpTypes ==
  /\ status \in {"running", "dumping", "exited", "aborted"}
  /\ toDump \in Seq(Line) /\ IsInjective(toDump) /\ Len(toDump) <= Cardinality(Line)
CoreTypes ==
  /\ insns \in [Core -> Nat] /\ wfi \in [Core -> Times] /\ idle \in [Core -> [Times -> Nat]]
  /\ interrupt \in [Core -> [last : Times, intervals : [Times -> Nat]]]
  /\ wfe \in [Core -> [ts : Times, insns : Nat, total : Nat, busy : Nat]]
  /\ cas \in [Core -> [Pc -> {NewPc} \union PcState]]
  /\ spins \in [Core -> [total : Nat, compared : Nat, busy : Nat, entries : Nat]]
  /\ coreLog \in [Core -> Recorded]
Types == CallbackTypes /\ LineTypes /\ DumpTypes /\ CoreTypes

(* The inductive types imply the type invariant.                            *)
LEMMA TypesOK == Types => TypeOK
<1> SUFFICES ASSUME Types PROVE TypeOK
  OBVIOUS
<1>1. toDump \in SeqOf(Line, Cardinality(Line))
  <2>1. Len(toDump) \in 0..Cardinality(Line) /\ toDump \in [1..Len(toDump) -> Line]
    <3>1. Cardinality(Line) \in Nat
      BY RecorderAssumption, FS_CardinalityType
    <3> QED BY <3>1 DEF Types, DumpTypes
  <2> QED BY <2>1 DEF SeqOf
<1>2. \A l \in Line : records[l] = NoRecord \/
      records[l] \in [ts : Times, writer : Core, readers : SUBSET Core]
  BY DEF Types, LineTypes, LineRecord
<1>3. \A c \in Core : \A pc \in Pc : cas[c][pc] = NewPc \/
        cas[c][pc] \in [insns : Nat, ts : Times, addr : Line, waiting : BOOLEAN]
  BY DEF Types, CoreTypes, PcState
<1>4. /\ generation \in Times /\ guest \in Workloads /\ events \in 0..guest.events
      /\ status \in {"running", "dumping", "exited", "aborted"} /\ total \in [Core -> Nat]
      /\ charged \in [Line -> [Core -> Charge]] /\ file \in [Line -> [Core -> Charge]]
  BY DEF Types, CallbackTypes, LineTypes, DumpTypes
<1>5. /\ wfi \in [Core -> Times] /\ idle \in [Core -> [Times -> Nat]]
      /\ interrupt \in [Core -> [last : Times, intervals : [Times -> Nat]]]
  BY DEF Types, CoreTypes
<1> QED BY <1>1, <1>2, <1>3, <1>4, <1>5 DEF TypeOK

(* The dump goes through the shards in some order, each once.               *)
LEMMA DumpOrder ==
  /\ SetToSeq(Line) \in Seq(Line) /\ IsInjective(SetToSeq(Line))
  /\ Len(SetToSeq(Line)) = Cardinality(Line) /\ Cardinality(Line) \in Nat
<1>1. Cardinality(Line) \in Nat /\ ExistsBijection(1..Cardinality(Line), Line)
  BY RecorderAssumption, FS_CardinalityType
<1>2. \E f \in [1..Cardinality(Line) -> Line] : IsInjective(f)
  <2>1. PICK f \in Bijection(1..Cardinality(Line), Line) : TRUE
    BY <1>1 DEF ExistsBijection
  <2>2. f \in Injection(1..Cardinality(Line), Line)
    BY <2>1 DEF Bijection
  <2> QED BY <2>2 DEF Injection
<1>3. /\ SetToSeq(Line) \in [1..Cardinality(Line) -> Line]
      /\ IsInjective(SetToSeq(Line))
  BY <1>2 DEF SetToSeq
<1> QED BY <1>1, <1>3

LEMMA TypesInit == Init => Types
<1> SUFFICES ASSUME Init PROVE Types
  OBVIOUS
<1>1. MaxTime \in Nat /\ 0 \in Times
  BY RecorderAssumption DEF Times
<1>2. guest \in Workloads /\ guest.events \in Nat
  BY RecorderAssumption DEF Init
<1>3. CallbackTypes
  BY <1>1, <1>2 DEF Init, CallbackTypes
<1>4. NoCharge \in Charge
  BY DEF NoCharge, Charge
<1>5. LineTypes
  BY <1>4 DEF Init, LineTypes
<1>6. DumpTypes
  BY DumpOrder DEF Init, DumpTypes
<1>7. CoreTypes
  <2>1. [cas |-> <<>>, wfe |-> <<>>, idle |-> <<>>] \in Recorded
    BY DEF Recorded
  <2>2. [ts |-> 0, insns |-> 0, total |-> 0, busy |-> 0]
          \in [ts : Times, insns : Nat, total : Nat, busy : Nat]
    BY <1>1
  <2> QED BY <1>1, <2>1, <2>2 DEF Init, CoreTypes
<1> QED BY <1>3, <1>5, <1>6, <1>7 DEF Types

(* What the assumption says of the guest that runs.                         *)
LEMMA Guests ==
  ASSUME guest \in Workloads
  PROVE  /\ guest.events \in Nat /\ guest.lines \subseteq Line /\ guest.quitAt \in 0..MaxTime
         /\ guest.privilege \subseteq {"os"}
         /\ \A insn : Kinds(insn, guest.privilege) \subseteq Category
<1>1. guest.privilege \subseteq {"os"}
  BY RecorderAssumption
<1>2. ASSUME NEW insn PROVE Kinds(insn, guest.privilege) \subseteq Category
  BY <1>1 DEF Kinds, Category
<1> QED BY <1>1, <1>2, RecorderAssumption

(* A callback begins, or goes on to its next step.                          *)
LEMMA BeginTypes ==
  ASSUME CallbackTypes, NEW c \in Core, NEW insn \in InsnOf, NEW l \in Line, NEW walk \in Seq(Line),
         NEW by, by \union guest.privilege = Kinds(insn, guest.privilege), Begin(c, insn, l, walk, by),
         UNCHANGED <<generation, guest>>, events' \in 0..guest.events
  PROVE  CallbackTypes'
<1> DEFINE new == [stage |-> IF walk = <<>> THEN "record" ELSE "walk", insn |-> insn, line |-> l,
                   walk |-> walk, by |-> by \union guest.privilege, ts |-> generation]
<1>1. cpu' = [cpu EXCEPT ![c] = new]
  BY DEF Begin
<1>2. new \in Callback /\ new # Idle /\ new.by = Kinds(insn, guest.privilege) /\ new.insn = insn
      /\ (new.stage \in {"walk", "countWalk"} => new.walk # <<>>)
  <2>1. Kinds(insn, guest.privilege) \subseteq Category
    BY Guests DEF CallbackTypes
  <2>2. new.stage # "idle"
    OBVIOUS
  <2> QED BY <2>1, <2>2 DEF CallbackTypes, Callback, Idle
<1>3. cpu' \in [Core -> {Idle} \union Callback]
  BY <1>1, <1>2 DEF CallbackTypes
<1>4. total' \in [Core -> Nat]
  BY DEF Begin, CallbackTypes
<1>5. \A i : Kinds(i, guest.privilege)' = Kinds(i, guest.privilege)
  BY DEF Kinds
<1>6. ASSUME NEW d \in Core, cpu'[d] # Idle
      PROVE  /\ cpu'[d].by = Kinds(cpu'[d].insn, guest.privilege)
             /\ cpu'[d].stage \in {"walk", "countWalk"} => cpu'[d].walk # <<>>
  <2> HIDE DEF new
  <2>1. CASE d = c
    <3>1. cpu'[d] = new
      BY <1>1, <2>1 DEF CallbackTypes
    <3> QED BY <1>2, <3>1
  <2>2. CASE d # c
    <3>1. cpu'[d] = cpu[d]
      BY <1>1, <2>2 DEF CallbackTypes
    <3> QED BY <1>6, <3>1 DEF CallbackTypes
  <2> QED BY <2>1, <2>2
<1> QED BY <1>3, <1>4, <1>6 DEF CallbackTypes, Kinds

(* A core past the idle stage is in a callback.                             *)
LEMMA CallbackIs ==
  ASSUME CallbackTypes, NEW c \in Core, cpu[c].stage # "idle"
  PROVE  cpu[c] \in Callback /\ cpu[c] # Idle
BY DEF CallbackTypes, Idle

(* A callback that goes on to another stage.                                *)
LEMMA StepTypes ==
  ASSUME CallbackTypes, NEW c \in Core, cpu[c] \in Callback, cpu[c] # Idle,
         UNCHANGED <<generation, guest, events>>, total' \in [Core -> Nat],
         NEW new, cpu' = [cpu EXCEPT ![c] = new],
         \/ new = Idle
         \/ /\ new \in Callback /\ new.insn = cpu[c].insn /\ new.by = cpu[c].by
            /\ new.stage \in {"walk", "countWalk"} => new.walk # <<>>
  PROVE  CallbackTypes'
<1>1. cpu' \in [Core -> {Idle} \union Callback]
  BY DEF CallbackTypes
<1>2. ASSUME NEW d \in Core, cpu'[d] # Idle
      PROVE  /\ cpu'[d].by = Kinds(cpu'[d].insn, guest.privilege)
             /\ cpu'[d].stage \in {"walk", "countWalk"} => cpu'[d].walk # <<>>
  <2>1. CASE d = c
    <3>1. cpu'[d] = new
      BY <2>1 DEF CallbackTypes
    <3>2. cpu[c].by = Kinds(cpu[c].insn, guest.privilege)
      BY DEF CallbackTypes
    <3> QED BY <1>2, <3>1, <3>2
  <2>2. CASE d # c
    <3>1. cpu'[d] = cpu[d]
      BY <2>2 DEF CallbackTypes
    <3> QED BY <1>2, <3>1 DEF CallbackTypes
  <2> QED BY <2>1, <2>2
<1> QED BY <1>1, <1>2 DEF CallbackTypes, Kinds

(* An access changes the record, the charges and the log of its line only.  *)
LEMMA RecordAccessDoes ==
  ASSUME LineTypes, NEW c \in Core, NEW insn \in InsnOf, NEW l \in Line, NEW by, NEW ts \in Times,
         RecordAccess(c, insn, l, by, ts),
         NEW e, e = [core |-> c, insn |-> insn, ts |-> ts, dumped |-> l \notin Range(toDump)]
  PROVE  /\ e \in Access
         /\ records' = [records EXCEPT ![l] = After(records[l], e.core, IsStore(e.insn), e.ts)]
         /\ charged' = [charged EXCEPT ![l] = Recharge(charged[l], records[l], e, by)]
         /\ log' = [log EXCEPT ![l] = Append(log[l], e)]
<1>1. e \in Access /\ e.core = c /\ e.insn = insn /\ e.ts = ts
  BY DEF Access
<1>2. records' = [records EXCEPT ![l] = After(records[l], c, IsStore(insn), ts)]
  BY DEF RecordAccess
<1>3. charged' = [charged EXCEPT ![l] = Recharge(charged[l], records[l], e, by)]
  <2>1. CASE Obtains(records[l], c, IsStore(insn))
    <3>1. charged' = [charged EXCEPT ![l][c] =
                        [intervals |-> Bump(charged[l][c].intervals, Since(ts, records[l].ts)),
                         by |-> [k \in Category |-> charged[l][c].by[k] + IF k \in by THEN 1 ELSE 0]]]
      BY <2>1 DEF RecordAccess
    <3> QED BY <1>1, <2>1, <3>1 DEF Recharge
  <2>2. CASE ~Obtains(records[l], c, IsStore(insn))
    <3>1. charged' = charged
      BY <2>2 DEF RecordAccess
    <3>2. Recharge(charged[l], records[l], e, by) = charged[l]
      BY <1>1, <2>2 DEF Recharge
    <3> QED BY <3>1, <3>2 DEF LineTypes
  <2> QED BY <2>1, <2>2
<1>4. log' = [log EXCEPT ![l] = Append(log[l], e)]
  BY DEF RecordAccess
<1> QED BY <1>1, <1>2, <1>3, <1>4

(* record_access keeps the types.                                           *)
LEMMA AccessTypes ==
  ASSUME LineTypes, NEW c \in Core, NEW insn \in InsnOf, NEW l \in Line, NEW by, NEW ts \in Times,
         RecordAccess(c, insn, l, by, ts), file' = file
  PROVE  LineTypes'
<1> DEFINE e == [core |-> c, insn |-> insn, ts |-> ts, dumped |-> l \notin Range(toDump)]
<1>1. /\ e \in Access
      /\ records' = [records EXCEPT ![l] = After(records[l], e.core, IsStore(e.insn), e.ts)]
      /\ charged' = [charged EXCEPT ![l] = Recharge(charged[l], records[l], e, by)]
      /\ log' = [log EXCEPT ![l] = Append(log[l], e)]
  BY RecordAccessDoes
<1> HIDE DEF e
<1>2. e.core \in Core /\ e.ts \in Times
  BY <1>1 DEF Access
<1>3. After(records[l], e.core, IsStore(e.insn), e.ts) \in {NoRecord} \union LineRecord
  <2>1. records[l] = NoRecord \/ records[l] \in LineRecord
    BY DEF LineTypes
  <2>2. Obtains(records[l], e.core, FALSE) => records[l] \in LineRecord
    BY <2>1 DEF Obtains
  <2> QED BY <1>2, <2>1, <2>2 DEF After, LineRecord
<1>4. Recharge(charged[l], records[l], e, by) \in [Core -> Charge]
  <2>1. charged[l] \in [Core -> Charge] /\ charged[l][e.core] \in Charge
    BY <1>2 DEF LineTypes
  <2>2. CASE Obtains(records[l], e.core, IsStore(e.insn))
    <3>1. records[l] \in LineRecord
      BY <2>2 DEF LineTypes, Obtains
    <3>2. records[l].ts \in Times
      BY <3>1 DEF LineRecord
    <3> DEFINE old == charged[l][e.core]
    <3> DEFINE x == Since(e.ts, records[l].ts)
    <3>3. old \in Charge /\ x \in Times
      BY <1>2, <2>1, <3>2, SinceTimes
    <3> HIDE DEF old, x
    <3>4. old.intervals \in [Times -> Nat] /\ old.by \in [Category -> Nat]
      BY <3>3 DEF Charge
    <3>5. Bump(old.intervals, x) \in [Times -> Nat]
      BY <3>3, <3>4 DEF Bump
    <3>6. [k \in Category |-> old.by[k] + IF k \in by THEN 1 ELSE 0] \in [Category -> Nat]
      BY <3>4
    <3>7. [intervals |-> Bump(old.intervals, x),
           by |-> [k \in Category |-> old.by[k] + IF k \in by THEN 1 ELSE 0]] \in Charge
      BY <3>5, <3>6 DEF Charge
    <3> QED BY <1>2, <2>1, <2>2, <3>7 DEF Recharge, old, x
  <2>3. CASE ~Obtains(records[l], e.core, IsStore(e.insn))
    BY <2>1, <2>3 DEF Recharge
  <2> QED BY <2>2, <2>3
<1>5. Append(log[l], e) \in Seq(Access)
  <2>1. log[l] \in Seq(Access)
    BY DEF LineTypes
  <2> QED BY <1>1, <2>1
<1> QED BY <1>1, <1>3, <1>4, <1>5 DEF LineTypes

(* The rest of the dump is without the shard it takes next.                 *)
LEMMA DumpPops ==
  ASSUME DumpTypes, toDump # <<>>
  PROVE  /\ Head(toDump) \in Line /\ Tail(toDump) \in Seq(Line) /\ IsInjective(Tail(toDump))
         /\ Len(Tail(toDump)) <= Cardinality(Line)
         /\ Head(toDump) \in Range(toDump)
         /\ Range(Tail(toDump)) = Range(toDump) \ {Head(toDump)}
<1> DEFINE n == Len(toDump)
<1>1. n \in Nat \ {0} /\ toDump \in Seq(Line) /\ DOMAIN toDump = 1..n
  BY DEF DumpTypes
<1>2. /\ Head(toDump) = toDump[1] /\ Tail(toDump) \in Seq(Line) /\ Len(Tail(toDump)) = n - 1
      /\ DOMAIN Tail(toDump) = 1..n - 1 /\ \A i \in 1..n - 1 : Tail(toDump)[i] = toDump[i + 1]
  BY <1>1
<1>3. \A i, j \in 1..n : toDump[i] = toDump[j] => i = j
  BY <1>1 DEF DumpTypes, IsInjective
<1>4. Head(toDump) \in Line /\ Head(toDump) \in Range(toDump)
  BY <1>1, <1>2 DEF Range
<1>5. IsInjective(Tail(toDump))
  <2> SUFFICES ASSUME NEW i \in 1..n - 1, NEW j \in 1..n - 1, Tail(toDump)[i] = Tail(toDump)[j]
               PROVE  i = j
    BY <1>2 DEF IsInjective
  <2>1. toDump[i + 1] = toDump[j + 1] /\ i + 1 \in 1..n /\ j + 1 \in 1..n
    BY <1>1, <1>2
  <2>2. i + 1 = j + 1
    BY <1>3, <2>1
  <2> QED BY <2>2
<1>6. Len(Tail(toDump)) <= Cardinality(Line)
  <2>1. n <= Cardinality(Line) /\ Cardinality(Line) \in Nat
    BY RecorderAssumption, FS_CardinalityType DEF DumpTypes
  <2> QED BY <1>1, <1>2, <2>1
<1>7. Range(Tail(toDump)) = Range(toDump) \ {Head(toDump)}
  <2>1. ASSUME NEW i \in 1..n - 1
        PROVE  Tail(toDump)[i] \in Range(toDump) /\ Tail(toDump)[i] # Head(toDump)
    <3>1. i + 1 \in 1..n /\ i + 1 # 1 /\ 1 \in 1..n
      BY <1>1
    <3> QED BY <1>1, <1>2, <1>3, <3>1 DEF Range
  <2>2. ASSUME NEW i \in 1..n, toDump[i] # Head(toDump)
        PROVE  \E j \in 1..n - 1 : Tail(toDump)[j] = toDump[i]
    <3>1. i # 1 /\ i - 1 \in 1..n - 1 /\ (i - 1) + 1 = i
      BY <1>1, <1>2, <2>2
    <3>2. Tail(toDump)[i - 1] = toDump[(i - 1) + 1]
      BY <1>2, <3>1
    <3> QED BY <3>1, <3>2
  <2>3. \A x : x \in Range(toDump) <=> \E i \in 1..n : toDump[i] = x
    BY <1>1 DEF Range
  <2>4. \A x : x \in Range(Tail(toDump)) <=> \E i \in 1..n - 1 : Tail(toDump)[i] = x
    BY <1>2 DEF Range
  <2> HIDE DEF n
  <2>5. \A x : x \in Range(Tail(toDump)) <=> x \in Range(toDump) /\ x # Head(toDump)
    BY <2>1, <2>2, <2>3, <2>4
  <2> QED BY <2>5
<1> QED BY <1>2, <1>4, <1>5, <1>6, <1>7

(* Whether the state of a pc, or of a core, says that this CAS or WFE       *)
(* spins.                                                                   *)
CasSpins(s, now, l) == s.ts > 0 /\ s.addr = l /\ Near(now, s.insns)
WfeSpins(s, now, ts) == s.ts > 0 /\ Near(now, s.insns) /\ Since(ts, s.ts) = 0

(* What a CAS and a WFE do to the state of a core.                          *)
LEMMA CompareAndSwapDoes ==
  ASSUME NEW c, NEW pc, NEW l, NEW d, CompareAndSwap(c, pc, l, d),
         NEW now, now = insns[c] + d, NEW s, s = cas[c][pc]
  PROVE  /\ insns' = [insns EXCEPT ![c] = now]
         /\ spins' = [spins EXCEPT ![c] =
                        [total |-> spins[c].total + 1,
                         compared |-> spins[c].compared + IF s.ts > 0 THEN 1 ELSE 0,
                         busy |-> spins[c].busy + IF CasSpins(s, now, l) THEN 1 ELSE 0,
                         entries |-> spins[c].entries
                                     + IF CasSpins(s, now, l) /\ ~s.waiting THEN 1 ELSE 0]]
         /\ cas' = [cas EXCEPT ![c][pc] = [insns |-> now, ts |-> generation, addr |-> l,
                                           waiting |-> Waiting(s, CasSpins(s, now, l))]]
         /\ coreLog' = [coreLog EXCEPT ![c].cas =
                          Append(@, [pc |-> pc, addr |-> l, insns |-> now, ts |-> generation])]
BY DEF CompareAndSwap, CasSpins

LEMMA WfeDoes ==
  ASSUME NEW c, NEW d, Wfe(c, d)
  PROVE  /\ insns' = [insns EXCEPT ![c] = insns[c] + d]
         /\ wfe' = [wfe EXCEPT ![c] =
                      [ts |-> generation, insns |-> insns[c] + d, total |-> wfe[c].total + 1,
                       busy |-> wfe[c].busy
                                  + IF WfeSpins(wfe[c], insns[c] + d, generation) THEN 1 ELSE 0]]
         /\ coreLog' = [coreLog EXCEPT ![c].wfe =
                          Append(@, [insns |-> insns[c] + d, ts |-> generation])]
BY DEF Wfe, WfeSpins

(* The events of a core keep the types of its state.                        *)
LEMMA CoreTypesNext ==
  ASSUME CallbackTypes, CoreTypes, NEW c \in Core
  PROVE  /\ \A d \in {1, SpinInsns}, pc \in Pc, l \in Line : CompareAndSwap(c, pc, l, d) => CoreTypes'
         /\ \A d \in {1, SpinInsns} : Wfe(c, d) => CoreTypes'
         /\ Wfi(c) => CoreTypes'
         /\ Interrupt(c) => CoreTypes'
<1>1. generation \in Times /\ 0 \in Times /\ SpinInsns \in Nat
  BY RecorderAssumption DEF CallbackTypes, Times
<1>2. /\ insns[c] \in Nat /\ wfi[c] \in Times /\ coreLog[c] \in Recorded
      /\ spins[c] \in [total : Nat, compared : Nat, busy : Nat, entries : Nat]
      /\ wfe[c] \in [ts : Times, insns : Nat, total : Nat, busy : Nat]
      /\ interrupt[c] \in [last : Times, intervals : [Times -> Nat]]
      /\ idle[c] \in [Times -> Nat]
  BY DEF CoreTypes
<1>3. ASSUME NEW d \in {1, SpinInsns}, NEW pc \in Pc, NEW l \in Line, CompareAndSwap(c, pc, l, d)
      PROVE  CoreTypes'
  <2>1. insns[c] + d \in Nat
    BY <1>1, <1>2
  <2>2. insns' \in [Core -> Nat]
    BY <1>3, <2>1 DEF CompareAndSwap, CoreTypes
  <2>3. spins' \in [Core -> [total : Nat, compared : Nat, busy : Nat, entries : Nat]]
    <3> DEFINE now == insns[c] + d
    <3> DEFINE s == cas[c][pc]
    <3> DEFINE spinning == CasSpins(s, now, l)
    <3>1. spins' = [spins EXCEPT ![c] =
                      [total |-> spins[c].total + 1,
                       compared |-> spins[c].compared + IF s.ts > 0 THEN 1 ELSE 0,
                       busy |-> spins[c].busy + IF spinning THEN 1 ELSE 0,
                       entries |-> spins[c].entries + IF spinning /\ ~s.waiting THEN 1 ELSE 0]]
      BY <1>3, CompareAndSwapDoes
    <3> HIDE DEF now, s, spinning
    <3>2. /\ spins[c].total \in Nat /\ spins[c].compared \in Nat
          /\ spins[c].busy \in Nat /\ spins[c].entries \in Nat
      BY <1>2
    <3>3. [total |-> spins[c].total + 1,
           compared |-> spins[c].compared + IF s.ts > 0 THEN 1 ELSE 0,
           busy |-> spins[c].busy + IF spinning THEN 1 ELSE 0,
           entries |-> spins[c].entries + IF spinning /\ ~s.waiting THEN 1 ELSE 0]
            \in [total : Nat, compared : Nat, busy : Nat, entries : Nat]
      BY <3>2
    <3> QED BY <3>1, <3>3 DEF CoreTypes
  <2>4. cas' \in [Core -> [Pc -> {NewPc} \union PcState]]
    <3>1. cas[c][pc] = NewPc \/ cas[c][pc] \in PcState
      BY DEF CoreTypes
    <3>2. cas[c][pc].waiting \in BOOLEAN
      <4>1. NewPc.waiting = FALSE
        BY DEF NewPc
      <4>2. \A s \in PcState : s.waiting \in BOOLEAN
        BY DEF PcState
      <4> QED BY <3>1, <4>1, <4>2
    <3>3. PICK w \in BOOLEAN : cas' = [cas EXCEPT ![c][pc] = [insns |-> insns[c] + d, ts |-> generation,
                                                            addr |-> l, waiting |-> w]]
      BY <1>3, <3>2 DEF CompareAndSwap, Waiting
    <3>4. [insns |-> insns[c] + d, ts |-> generation, addr |-> l, waiting |-> w] \in PcState
      BY <1>1, <2>1 DEF PcState
    <3> QED BY <3>3, <3>4 DEF CoreTypes
  <2>5. coreLog' \in [Core -> Recorded]
    <3>1. Append(coreLog[c].cas, [pc |-> pc, addr |-> l, insns |-> insns[c] + d, ts |-> generation])
            \in Seq([pc : Pc, addr : Line, insns : Nat, ts : Times])
      BY SMTT(30), <1>1, <1>2, <2>1 DEF Recorded
    <3> QED BY <1>2, <1>3, <3>1 DEF CompareAndSwap, CoreTypes, Recorded
  <2>6. UNCHANGED <<wfi, idle, interrupt, wfe>>
    BY <1>3 DEF CompareAndSwap
  <2> QED BY <2>2, <2>3, <2>4, <2>5, <2>6 DEF CoreTypes
<1>4. ASSUME NEW d \in {1, SpinInsns}, Wfe(c, d) PROVE CoreTypes'
  <2>1. insns[c] + d \in Nat
    BY <1>1, <1>2
  <2>2. insns' \in [Core -> Nat]
    BY <1>4, <2>1 DEF Wfe, CoreTypes
  <2>3. wfe' \in [Core -> [ts : Times, insns : Nat, total : Nat, busy : Nat]]
    <3> DEFINE now == insns[c] + d
    <3> DEFINE s == wfe[c]
    <3>1. wfe' = [wfe EXCEPT ![c] = [ts |-> generation, insns |-> now, total |-> s.total + 1,
                                     busy |-> s.busy + IF WfeSpins(s, now, generation) THEN 1 ELSE 0]]
      BY <1>4, WfeDoes
    <3>2. s.total \in Nat /\ s.busy \in Nat /\ now \in Nat
      BY <1>2, <2>1
    <3> HIDE DEF now, s
    <3>3. [ts |-> generation, insns |-> now, total |-> s.total + 1,
           busy |-> s.busy + IF WfeSpins(s, now, generation) THEN 1 ELSE 0]
            \in [ts : Times, insns : Nat, total : Nat, busy : Nat]
      BY <1>1, <3>2
    <3> QED BY <3>1, <3>3 DEF CoreTypes
  <2>4. coreLog' \in [Core -> Recorded]
    <3>1. Append(coreLog[c].wfe, [insns |-> insns[c] + d, ts |-> generation])
            \in Seq([insns : Nat, ts : Times])
      BY SMTT(30), <1>1, <1>2, <2>1 DEF Recorded
    <3> QED BY <1>2, <1>4, <3>1 DEF Wfe, CoreTypes, Recorded
  <2>5. UNCHANGED <<wfi, idle, interrupt, cas, spins>>
    BY <1>4 DEF Wfe
  <2> QED BY <2>2, <2>3, <2>4, <2>5 DEF CoreTypes
<1>5. ASSUME NEW op \in {"wfi", "interrupt"}
      PROVE  [coreLog EXCEPT ![c].idle = Append(@, [op |-> op, ts |-> generation])]
               \in [Core -> Recorded]
  <2>1. Append(coreLog[c].idle, [op |-> op, ts |-> generation])
          \in Seq([op : {"wfi", "interrupt"}, ts : Times])
    BY <1>1, <1>2 DEF Recorded
  <2> QED BY <1>2, <2>1 DEF CoreTypes, Recorded
<1>6. ASSUME Wfi(c) PROVE CoreTypes'
  <2>1. coreLog' \in [Core -> Recorded]
    BY <1>5, <1>6 DEF Wfi
  <2>2. wfi' \in [Core -> Times]
    BY <1>1, <1>2, <1>6 DEF Wfi, FirstWfi, CoreTypes
  <2>3. UNCHANGED <<insns, idle, interrupt, wfe, cas, spins>>
    BY <1>6 DEF Wfi
  <2> QED BY <2>1, <2>2, <2>3 DEF CoreTypes
<1>7. ASSUME Interrupt(c) PROVE CoreTypes'
  <2>1. coreLog' \in [Core -> Recorded]
    BY <1>5, <1>7 DEF Interrupt
  <2>2. wfi' \in [Core -> Times]
    BY <1>1, <1>7 DEF Interrupt, CoreTypes
  <2>3. \A f \in [Times -> Nat], t \in Times : Bump(f, t) \in [Times -> Nat]
    BY DEF Bump
  <2>4. idle' \in [Core -> [Times -> Nat]]
    <3>1. Bump(idle[c], Since(generation, wfi[c])) \in [Times -> Nat]
      BY <1>1, <1>2, <2>3, SinceTimes
    <3> QED BY <1>7, <3>1 DEF Interrupt, CoreTypes
  <2>5. interrupt' \in [Core -> [last : Times, intervals : [Times -> Nat]]]
    <3>1. Bump(interrupt[c].intervals, Since(generation, interrupt[c].last)) \in [Times -> Nat]
      BY <1>1, <1>2, <2>3, SinceTimes
    <3> QED BY <1>1, <1>2, <1>7, <3>1 DEF Interrupt, CoreTypes
  <2>6. UNCHANGED <<insns, wfe, cas, spins>>
    BY <1>7 DEF Interrupt
  <2> QED BY <2>1, <2>2, <2>4, <2>5, <2>6 DEF CoreTypes
<1> QED BY <1>3, <1>4, <1>6, <1>7

(* What is left of a page walk.                                             *)
LEMMA WalkGoesOn ==
  \A w \in Seq(Line) : w # <<>> => Tail(w) \in Seq(Line) /\ (Len(w) # 1 => Tail(w) # <<>>)
<1> SUFFICES ASSUME NEW w \in Seq(Line), w # <<>>
             PROVE  Tail(w) \in Seq(Line) /\ (Len(w) # 1 => Tail(w) # <<>>)
  OBVIOUS
<1>1. Tail(w) \in Seq(Line) /\ DOMAIN Tail(w) = 1..Len(w) - 1
  OBVIOUS
<1>2. Len(w) \in Nat /\ Len(w) # 0
  OBVIOUS
<1>3. Len(w) # 1 => 1 \in 1..Len(w) - 1
  <2> DEFINE n == Len(w)
  <2> SUFFICES n # 1 => 1 \in 1..n - 1
    OBVIOUS
  <2>1. n \in Nat /\ n # 0
    BY <1>2
  <2> HIDE DEF n
  <2> QED BY ONLY <2>1
<1>4. 1 \notin DOMAIN <<>>
  OBVIOUS
<1> QED BY <1>1, <1>3, <1>4

LEMMA TypesNext == Types /\ [Next]_vars => Types'
<1> SUFFICES ASSUME Types, [Next]_vars PROVE Types'
  OBVIOUS
<1> USE DEF Types
<1>1. /\ guest \in Workloads /\ guest.lines \subseteq Line /\ guest.quitAt \in 0..MaxTime
      /\ guest.events \in Nat /\ events \in 0..guest.events /\ MaxTime \in Nat
  BY Guests, RecorderAssumption DEF CallbackTypes
<1>2. ASSUME NEW c, NEW kind, Calls(c, kind) PROVE c \in Core /\ events' \in 0..guest.events
  <2>1. guest.cores \subseteq Core
    BY <1>1, RecorderAssumption
  <2> QED BY <1>1, <1>2, <2>1 DEF Calls
<1>3. CASE Advance
  <2>1. generation' \in Times
    BY <1>1, <1>3 DEF Advance, Times, CallbackTypes
  <2>2. CallbackTypes'
    BY <1>3, <2>1 DEF Advance, CallbackTypes, Kinds
  <2> QED BY <1>3, <2>2 DEF Advance, LineTypes, DumpTypes, CoreTypes, lineVars, coreVars, dumpVars
<1>4. CASE StartDump \/ Exit
  BY <1>4 DEF StartDump, Exit, CallbackTypes, LineTypes, DumpTypes, CoreTypes, lineVars, coreVars, Kinds
<1>5. CASE Terminated \/ UNCHANGED vars
  BY <1>5 DEF Terminated, vars, CallbackTypes, LineTypes, DumpTypes, CoreTypes, lineVars, coreVars,
              dumpVars, Kinds
<1>6. ASSUME NEW l \in Line, DumpShard(l) PROVE Types'
  <2>1. DumpTypes'
    BY <1>6, DumpPops DEF DumpShard, DumpTypes
  <2>2. LineTypes'
    <3>1. NoCharge \in Charge
      BY DEF NoCharge, Charge
    <3>2. charged[l] \in [Core -> Charge] /\ AfterDump(l) \in [Core -> Charge]
      BY <3>1 DEF AfterDump, LineTypes
    <3>3. file' \in [Line -> [Core -> Charge]] /\ charged' \in [Line -> [Core -> Charge]]
      BY <1>6, <3>2 DEF DumpShard, LineTypes
    <3> QED BY <1>6, <3>3 DEF DumpShard, LineTypes
  <2> QED BY <1>6, <2>1, <2>2 DEF DumpShard, CallbackTypes, CoreTypes, coreVars, Kinds
<1>7. ASSUME NEW c \in Core, RecordWalk(c) PROVE Types'
  <2>1. cpu[c] \in Callback /\ cpu[c] # Idle /\ cpu[c].walk # <<>>
    BY <1>7, CallbackIs DEF RecordWalk, CallbackTypes
  <2>2. Head(cpu[c].walk) \in Line /\ cpu[c].ts \in Times /\ "walk" \in InsnOf
    BY <2>1 DEF Callback, InsnOf
  <2>3. LineTypes'
    BY <1>7, <2>2, AccessTypes DEF RecordWalk, dumpVars
  <2>4. CallbackTypes'
    <3> DEFINE new == [cpu[c] EXCEPT !.stage = "countWalk"]
    <3>1. new \in Callback /\ new.insn = cpu[c].insn /\ new.by = cpu[c].by /\ new.walk = cpu[c].walk
      BY <2>1 DEF Callback
    <3>2. cpu' = [cpu EXCEPT ![c] = new] /\ UNCHANGED <<generation, guest, events, total>>
      BY <1>7 DEF RecordWalk
    <3>3. total' \in [Core -> Nat]
      BY <3>2 DEF CallbackTypes
    <3> HIDE DEF new
    <3> QED BY <2>1, <3>1, <3>2, <3>3, StepTypes
  <2> QED BY <1>7, <2>3, <2>4 DEF RecordWalk, DumpTypes, CoreTypes, coreVars, dumpVars
<1>8. ASSUME NEW c \in Core, Record(c) PROVE Types'
  <2>1. cpu[c] \in Callback /\ cpu[c] # Idle
    BY <1>8, CallbackIs DEF Record
  <2>2. cpu[c].line \in Line /\ cpu[c].ts \in Times /\ cpu[c].insn \in InsnOf
    BY <2>1 DEF Callback
  <2>3. LineTypes'
    BY <1>8, <2>2, AccessTypes DEF Record, dumpVars
  <2>4. CallbackTypes'
    <3>1. cpu' = [cpu EXCEPT ![c] = Idle] /\ UNCHANGED <<generation, guest, events, total>>
      BY <1>8 DEF Record
    <3>2. total' \in [Core -> Nat]
      BY <3>1 DEF CallbackTypes
    <3> QED BY <2>1, <3>1, <3>2, StepTypes
  <2> QED BY <1>8, <2>3, <2>4 DEF Record, DumpTypes, CoreTypes, coreVars, dumpVars
<1>9. ASSUME NEW c \in Core, CountWalk(c) PROVE Types'
  <2>1. cpu[c] \in Callback /\ cpu[c] # Idle /\ cpu[c].walk # <<>>
    BY <1>9, CallbackIs DEF CountWalk, CallbackTypes
  <2>2. CallbackTypes'
    <3> DEFINE new == [cpu[c] EXCEPT !.walk = Tail(@),
                                     !.stage = IF Len(cpu[c].walk) = 1 THEN "count" ELSE "walk"]
    <3>1. cpu[c].walk \in Seq(Line)
      BY <2>1 DEF Callback
    <3>2. Tail(cpu[c].walk) \in Seq(Line) /\ (Len(cpu[c].walk) # 1 => Tail(cpu[c].walk) # <<>>)
      BY <2>1, <3>1, WalkGoesOn
    <3>3. /\ new \in Callback /\ new.insn = cpu[c].insn /\ new.by = cpu[c].by
          /\ new.stage \in {"walk", "countWalk"} => new.walk # <<>>
      BY <2>1, <3>2 DEF Callback
    <3>4. cpu' = [cpu EXCEPT ![c] = new] /\ UNCHANGED <<generation, guest, events>>
      BY <1>9 DEF CountWalk
    <3>5. total' \in [Core -> Nat]
      BY <1>9 DEF CountWalk, CountOfWalk, CallbackTypes
    <3> HIDE DEF new
    <3> QED BY <2>1, <3>3, <3>4, <3>5, StepTypes
  <2> QED BY <1>9, <2>2 DEF CountWalk, LineTypes, DumpTypes, CoreTypes, lineVars, coreVars, dumpVars
<1>10. ASSUME NEW c \in Core, CountAccess(c) PROVE Types'
  <2>1. cpu[c] \in Callback /\ cpu[c] # Idle
    BY <1>10, CallbackIs DEF CountAccess
  <2>2. CallbackTypes'
    <3> DEFINE new == [cpu[c] EXCEPT !.stage = "record"]
    <3>1. /\ new \in Callback /\ new.insn = cpu[c].insn /\ new.by = cpu[c].by
          /\ new.stage = "record"
      BY <2>1 DEF Callback
    <3>2. cpu' = [cpu EXCEPT ![c] = new] /\ UNCHANGED <<generation, guest, events>>
      BY <1>10 DEF CountAccess
    <3>3. total' \in [Core -> Nat]
      BY <1>10 DEF CountAccess, CallbackTypes
    <3> HIDE DEF new
    <3> QED BY <2>1, <3>1, <3>2, <3>3, StepTypes
  <2> QED BY <1>10, <2>2 DEF CountAccess, LineTypes, DumpTypes, CoreTypes, lineVars, coreVars, dumpVars
<1>11. ASSUME NEW c \in Core, NEW insn \in Insns, NEW l \in guest.lines, MemAccess(c, insn, l)
       PROVE  Types'
  <2>1. PICK flags \in Decoded[insn] : Begin(c, insn, l, <<>>, flags)
    BY <1>11 DEF MemAccess
  <2>2. /\ flags \union guest.privilege = Kinds(insn, guest.privilege) /\ insn \in InsnOf /\ l \in Line
        /\ <<>> \in Seq(Line) /\ UNCHANGED <<generation, guest>> /\ events' \in 0..guest.events
    BY <1>1, <1>2, <1>11, DecodedKinds DEF MemAccess, InsnOf
  <2>3. CallbackTypes'
    BY <2>1, <2>2, BeginTypes
  <2> QED BY <1>11, <2>3 DEF MemAccess, LineTypes, DumpTypes, CoreTypes, lineVars, coreVars, dumpVars
<1>12. ASSUME NEW c \in Core, NEW l \in guest.lines, NEW walk \in Walks, FetchInsn(c, l, walk)
       PROVE  Types'
  <2>1. /\ {"instruction"} \union guest.privilege = Kinds("fetch", guest.privilege)
        /\ "fetch" \in InsnOf /\ l \in Line
        /\ walk \in Seq(Line) /\ UNCHANGED <<generation, guest>> /\ events' \in 0..guest.events
    BY <1>1, <1>2, <1>12, RecorderAssumption DEF FetchInsn, InsnOf, Kinds
  <2>2. Begin(c, "fetch", l, walk, {"instruction"})
    BY <1>12 DEF FetchInsn
  <2>3. CallbackTypes'
    BY <2>1, <2>2, BeginTypes
  <2> QED BY <1>12, <2>3 DEF FetchInsn, LineTypes, DumpTypes, CoreTypes, lineVars, coreVars, dumpVars
<1>13. ASSUME NEW c \in Core, NEW pc \in Pc, NEW l \in guest.lines, NEW d \in {1, SpinInsns},
              CompareAndSwap(c, pc, l, d)
       PROVE  Types'
  <2>1. PICK flags \in DecodedCas : Begin(c, "cas", l, <<>>, flags)
    BY <1>13 DEF CompareAndSwap
  <2>2. /\ flags \union guest.privilege = Kinds("cas", guest.privilege)
        /\ "cas" \in InsnOf /\ l \in Line
        /\ <<>> \in Seq(Line) /\ UNCHANGED <<generation, guest>> /\ events' \in 0..guest.events
    BY <1>1, <1>2, <1>13, DecodedKinds DEF CompareAndSwap, InsnOf
  <2>3. CallbackTypes'
    BY <2>1, <2>2, BeginTypes
  <2>4. CoreTypes'
    BY <1>13, <2>2, CoreTypesNext
  <2> QED BY <1>13, <2>3, <2>4 DEF CompareAndSwap, LineTypes, DumpTypes, lineVars, dumpVars
<1>14. ASSUME NEW c \in Core, NEW d \in {1, SpinInsns}, Wfe(c, d) PROVE Types'
  <2>1. CoreTypes' /\ events' \in 0..guest.events
    BY <1>2, <1>14, CoreTypesNext DEF Wfe
  <2> QED BY <1>14, <2>1 DEF Wfe, CallbackTypes, LineTypes, DumpTypes, lineVars, dumpVars, Kinds
<1>15. ASSUME NEW c \in Core, Wfi(c) PROVE Types'
  <2>1. CoreTypes' /\ events' \in 0..guest.events
    BY <1>2, <1>15, CoreTypesNext DEF Wfi
  <2> QED BY <1>15, <2>1 DEF Wfi, CallbackTypes, LineTypes, DumpTypes, lineVars, dumpVars, Kinds
<1>16. ASSUME NEW c \in Core, Interrupt(c) PROVE Types'
  <2>1. CoreTypes' /\ events' \in 0..guest.events
    BY <1>2, <1>16, CoreTypesNext DEF Interrupt
  <2> QED BY <1>16, <2>1 DEF Interrupt, CallbackTypes, LineTypes, DumpTypes, lineVars, dumpVars, Kinds
<1>17. ASSUME NEW c \in Core, WfiTooEarly(c) PROVE Types'
  <2>1. events' \in 0..guest.events
    BY <1>2, <1>17 DEF WfiTooEarly
  <2> QED BY <1>17, <2>1 DEF WfiTooEarly, CallbackTypes, LineTypes, DumpTypes, CoreTypes, lineVars,
                             coreVars, Kinds
<1> QED BY <1>3, <1>4, <1>5, <1>6, <1>7, <1>8, <1>9, <1>10, <1>11, <1>12, <1>13, <1>14, <1>15,
           <1>16, <1>17 DEF Next

(* ---- what is charged is what the log says ------------------------------ *)
LinesFaithful ==
  \A l \in Line : Faithful(log[l], records[l], charged[l], file[l], l \notin Range(toDump),
                           guest.privilege)

LEMMA LinesInit == Init => LinesFaithful
<1> SUFFICES ASSUME Init, NEW l \in Line
             PROVE  Faithful(log[l], records[l], charged[l], file[l], l \notin Range(toDump),
                             guest.privilege)
  BY DEF LinesFaithful
<1>1. /\ log[l] = <<>> /\ records[l] = NoRecord
      /\ charged[l] = [c \in Core |-> NoCharge] /\ file[l] = [c \in Core |-> NoCharge]
  BY DEF Init
<1>2. DOMAIN <<>> = 1..0 /\ Len(<<>>) = 0 /\ <<>> \in Seq(Access)
  OBVIOUS
<1>3. \A c \in Core, late \in BOOLEAN : ChargesIn(<<>>, c, late, guest.privilege) = NoCharge
  <2> SUFFICES ASSUME NEW c \in Core, NEW late \in BOOLEAN
               PROVE  ChargesIn(<<>>, c, late, guest.privilege) = NoCharge
    OBVIOUS
  <2> DEFINE h == <<>>
  <2>1. \A i \in 1..0 : ~(h[i].core = c /\ h[i].dumped = late /\ Communicates(h, i))
    OBVIOUS
  <2> HIDE DEF h
  <2>2. ChargesIn(h, c, late, guest.privilege) = NoCharge
    BY <1>2, <2>1, NothingCharged DEF h
  <2> QED BY <2>2 DEF h
<1>4. RecordOf(NoRecord, <<>>)
  <2>1. LastWrite(<<>>, 1) \in 0..0
    <3>1. LastWrite(<<>>, 1) \in 0..1 - 1
      BY LastWriteFacts
    <3> QED BY <3>1
  <2> QED BY <1>2, <2>1 DEF RecordOf
<1> DEFINE d == l \notin Range(toDump)
<1>5. d \in BOOLEAN
  OBVIOUS
<1> HIDE DEF d
<1>6. Faithful(<<>>, NoRecord, [c \in Core |-> NoCharge], [c \in Core |-> NoCharge], d, guest.privilege)
  <2>1. \A c \in Core : /\ ChargesIn(<<>>, c, FALSE, guest.privilege) = NoCharge
                        /\ ChargesIn(<<>>, c, d, guest.privilege) = NoCharge
    BY <1>3, <1>5
  <2>2. \A i \in DOMAIN <<>> : FALSE
    BY <1>2
  <2> QED BY <1>2, <1>4, <2>1, <2>2 DEF Faithful
<1> QED BY <1>1, <1>6 DEF d

(* An access, and the dump of a shard, keep every line faithful.            *)
LEMMA LinesAccess ==
  ASSUME LineTypes, LinesFaithful, NEW c \in Core, NEW insn \in InsnOf, NEW l \in Line,
         NEW ts \in Times, RecordAccess(c, insn, l, Kinds(insn, guest.privilege), ts),
         UNCHANGED <<guest, toDump, file>>
  PROVE  LinesFaithful'
<1> DEFINE d == l \notin Range(toDump)
<1> DEFINE e == [core |-> c, insn |-> insn, ts |-> ts, dumped |-> d]
<1> DEFINE by == Kinds(insn, guest.privilege)
<1>1. /\ e \in Access
      /\ records' = [records EXCEPT ![l] = After(records[l], e.core, IsStore(e.insn), e.ts)]
      /\ charged' = [charged EXCEPT ![l] = Recharge(charged[l], records[l], e, by)]
      /\ log' = [log EXCEPT ![l] = Append(log[l], e)]
  BY RecordAccessDoes
<1>2. e.dumped = d /\ d \in BOOLEAN /\ by = Kinds(e.insn, guest.privilege)
  OBVIOUS
<1> HIDE DEF e, by
<1>3. Faithful(log[l], records[l], charged[l], file[l], d, guest.privilege)
  BY DEF LinesFaithful
<1>4. charged[l] \in [Core -> Charge]
  BY DEF LineTypes
<1> HIDE DEF d
<1>5. Faithful(Append(log[l], e), After(records[l], e.core, IsStore(e.insn), e.ts),
               Recharge(charged[l], records[l], e, by), file[l], d, guest.privilege)
  <2> DEFINE h == log[l]
  <2> DEFINE t == Append(h, e)
  <2> DEFINE r == records[l]
  <2> DEFINE charge == charged[l]
  <2> DEFINE new == Recharge(charge, r, e, by)
  <2> DEFINE os == guest.privilege
  <2> DEFINE filed == file[l]
  <2>1. /\ Faithful(h, r, charge, filed, d, os) /\ charge \in [Core -> Charge]
        /\ t = Append(h, e) /\ \A k \in Category : k \in by <=> k \in Kinds(e.insn, os)
    BY <1>2, <1>3, <1>4
  <2>2. new = Recharge(charge, r, e, by)
    OBVIOUS
  <2> HIDE DEF h, t, r, charge, new, os, filed
  <2>3. Faithful(t, After(r, e.core, IsStore(e.insn), e.ts), new, filed, d, os)
    BY ONLY <1>1, <1>2, <2>1, <2>2, AccessFaithful
  <2> QED BY <2>3 DEF h, t, r, charge, new, os, filed
<1>6. ASSUME NEW m \in Line
      PROVE  Faithful(log'[m], records'[m], charged'[m], file'[m], m \notin Range(toDump'),
                      guest'.privilege)
  <2>1. CASE m = l
    BY <1>1, <1>5, <2>1 DEF d, LineTypes
  <2>2. CASE m # l
    <3>1. log'[m] = log[m] /\ records'[m] = records[m] /\ charged'[m] = charged[m]
      BY <1>1, <2>2 DEF LineTypes
    <3> QED BY <3>1 DEF LinesFaithful
  <2> QED BY <2>1, <2>2
<1> QED BY <1>6 DEF LinesFaithful

LEMMA LinesDump ==
  ASSUME Types, LinesFaithful, NEW l \in Line, DumpShard(l)
  PROVE  LinesFaithful'
<1>1. /\ toDump # <<>> /\ l = Head(toDump) /\ toDump' = Tail(toDump)
      /\ UNCHANGED <<guest, records, log>>
  BY DEF DumpShard
<1>2. l \in Range(toDump) /\ Range(toDump') = Range(toDump) \ {l}
  BY <1>1, DumpPops DEF Types
<1>3. charged[l] \in [Core -> Charge] /\ file[l] \in [Core -> Charge]
  BY DEF Types, LineTypes
<1>4. Faithful(log[l], records[l], charged[l], file[l], FALSE, guest.privilege)
  <2>1. (l \notin Range(toDump)) = FALSE
    BY <1>2
  <2> QED BY <2>1 DEF LinesFaithful
<1>5. IF \E c \in Core, t \in Times : charged[l][c].intervals[t] > 0
      THEN file'[l] = charged[l] /\ charged'[l] = [c \in Core |-> NoCharge]
      ELSE file'[l] = file[l] /\ charged'[l] = charged[l]
  BY DEF DumpShard, AfterDump, Types, LineTypes
<1>6. Faithful(log[l], records[l], charged'[l], file'[l], TRUE, guest.privilege)
  <2> DEFINE h == log[l]
  <2> DEFINE r == records[l]
  <2> DEFINE charge == charged[l]
  <2> DEFINE filed == file[l]
  <2> DEFINE os == guest.privilege
  <2> DEFINE f == file'[l]
  <2> DEFINE g == charged'[l]
  <2>1. /\ Faithful(h, r, charge, filed, FALSE, os)
        /\ charge \in [Core -> Charge] /\ filed \in [Core -> Charge]
        /\ IF \E c \in Core, t \in Times : charge[c].intervals[t] > 0
           THEN f = charge /\ g = [c \in Core |-> NoCharge]
           ELSE f = filed /\ g = charge
    BY <1>3, <1>4, <1>5
  <2> HIDE DEF h, r, charge, filed, os, f, g
  <2>2. Faithful(h, r, g, f, TRUE, os)
    BY ONLY <2>1, DumpFaithful
  <2> QED BY <2>2 DEF h, r, charge, filed, os, f, g
<1>7. ASSUME NEW m \in Line
      PROVE  Faithful(log'[m], records'[m], charged'[m], file'[m], m \notin Range(toDump'),
                      guest'.privilege)
  <2>1. CASE m = l
    <3>1. (m \notin Range(toDump')) = TRUE
      BY <1>2, <2>1
    <3> QED BY <1>1, <1>6, <2>1, <3>1
  <2>2. CASE m # l
    <3>1. charged'[m] = charged[m] /\ file'[m] = file[m]
      BY <2>2 DEF DumpShard, Types, LineTypes
    <3>2. (m \notin Range(toDump')) = (m \notin Range(toDump))
      BY <1>2, <2>2
    <3> QED BY <1>1, <3>1, <3>2 DEF LinesFaithful
  <2> QED BY <2>1, <2>2
<1> QED BY <1>7 DEF LinesFaithful

(* ---- a core counts each of its accesses once --------------------------- *)
AccessesIn(h, c) ==
  UNION {{<<l, i>> : i \in {i \in DOMAIN h[l] : h[l][i].core = c}} : l \in Line}
Counts(accesses, count, stage) ==
  /\ IsFiniteSet(accesses)
  /\ Cardinality(accesses) + (IF stage = "record" THEN 1 ELSE 0)
       = count + (IF stage = "countWalk" THEN 1 ELSE 0)
Counted == \A c \in Core : Counts(AccessesIn(log, c), total[c], cpu[c].stage)

(* These are the accesses the property speaks of.                           *)
LEMMA AccessesAre == \A c : AccessesIn(log, c) = Accesses(c)
BY DEF AccessesIn, Accesses

(* An access by a core is one more of its own, and of no other core.        *)
AccessesGrowBy(h, l, e, t, c) ==
  /\ <<l, Len(h[l]) + 1>> \notin AccessesIn(h, c)
  /\ AccessesIn(t, c) = IF e.core = c THEN AccessesIn(h, c) \union {<<l, Len(h[l]) + 1>>}
                        ELSE AccessesIn(h, c)
LEMMA AccessesGrow ==
  ASSUME NEW h \in [Line -> Seq(Access)], NEW l \in Line, NEW e \in Access,
         NEW t, t = [h EXCEPT ![l] = Append(h[l], e)], NEW c
  PROVE  AccessesGrowBy(h, l, e, t, c)
<1> DEFINE n == Len(h[l])
<1> DEFINE u == Append(h[l], e)
<1>1. h[l] \in Seq(Access)
  OBVIOUS
<1>2. /\ n \in Nat /\ DOMAIN h[l] = 1..n /\ DOMAIN u = 1..(n + 1) /\ u[n + 1] = e
      /\ \A i \in 1..n : u[i] = h[l][i]
  BY <1>1, Appended
<1>3. t[l] = u /\ \A m \in Line : m # l => t[m] = h[m]
  OBVIOUS
<1> DEFINE Has(s, m, i) == m \in Line /\ i \in DOMAIN s[m] /\ s[m][i].core = c
<1> DEFINE A == AccessesIn(h, c)
<1> DEFINE B == AccessesIn(t, c)
<1>4. \A m, i : (<<m, i>> \in A <=> Has(h, m, i)) /\ (<<m, i>> \in B <=> Has(t, m, i))
  BY DEF AccessesIn
<1>5. /\ \A x \in A : \E m, i : x = <<m, i>>
      /\ \A x \in B : \E m, i : x = <<m, i>>
  BY DEF AccessesIn
<1> HIDE DEF u, n, A, B
<1>6. ASSUME NEW m, NEW i
      PROVE  <<m, i>> \in B <=> <<m, i>> \in A \/ (m = l /\ i = n + 1 /\ e.core = c)
  <2>1. CASE m = l
    <3>1. i \in 1..(n + 1) <=> i \in 1..n \/ i = n + 1
      BY <1>2
    <3>2. n + 1 \notin 1..n
      BY <1>2
    <3>3. Has(t, l, i) <=> i \in 1..(n + 1) /\ u[i].core = c
      BY <1>2, <1>3
    <3>4. Has(h, l, i) <=> i \in 1..n /\ h[l][i].core = c
      BY <1>2
    <3>5. Has(t, l, i) <=> Has(h, l, i) \/ (i = n + 1 /\ e.core = c)
      BY <1>2, <3>1, <3>2, <3>3, <3>4
    <3> HIDE DEF Has
    <3> QED BY <1>4, <2>1, <3>5
  <2>2. CASE m # l
    <3>1. Has(t, m, i) <=> Has(h, m, i)
      BY <1>3, <2>2
    <3> HIDE DEF Has
    <3> QED BY <1>4, <2>2, <3>1
  <2> QED BY <2>1, <2>2
<1>7. <<l, n + 1>> \notin A
  <2>1. ~Has(h, l, n + 1)
    BY <1>2
  <2> HIDE DEF Has
  <2> QED BY <1>4, <2>1
<1>8. B = IF e.core = c THEN A \union {<<l, n + 1>>} ELSE A
  <2>1. \A x \in B : x \in IF e.core = c THEN A \union {<<l, n + 1>>} ELSE A
    <3> SUFFICES ASSUME NEW x \in B PROVE x \in IF e.core = c THEN A \union {<<l, n + 1>>} ELSE A
      OBVIOUS
    <3>1. PICK m, i : x = <<m, i>>
      BY <1>5
    <3>2. x \in A \/ (x = <<l, n + 1>> /\ e.core = c)
      BY <1>6, <3>1
    <3> QED BY <3>2
  <2>2. \A x \in A : x \in B
    <3> SUFFICES ASSUME NEW x \in A PROVE x \in B
      OBVIOUS
    <3>1. PICK m, i : x = <<m, i>>
      BY <1>5
    <3> QED BY <1>6, <3>1
  <2>3. e.core = c => <<l, n + 1>> \in B
    BY <1>6
  <2> QED BY <2>1, <2>2, <2>3
<1> QED BY <1>7, <1>8 DEF A, B, n, AccessesGrowBy

LEMMA CountedInit == Init => Counted
<1> SUFFICES ASSUME Init, NEW c \in Core PROVE Counts(AccessesIn(log, c), total[c], cpu[c].stage)
  BY DEF Counted
<1>1. \A l \in Line : DOMAIN log[l] = 1..0
  BY DEF Init
<1>2. AccessesIn(log, c) = {}
  BY <1>1 DEF AccessesIn
<1>3. total[c] = 0 /\ cpu[c].stage = "idle"
  BY DEF Init, Idle
<1> QED BY <1>2, <1>3, FS_EmptySet DEF Counts

(* One more access recorded, or one more counted.                           *)
LEMMA CountsStep ==
  ASSUME NEW A, NEW n \in Nat, NEW stage, Counts(A, n, stage)
  PROVE  /\ \A x, next : x \notin A =>
              /\ stage = "walk" => Counts(A \union {x}, n, "countWalk")
              /\ stage = "record" => Counts(A \union {x}, n, "idle")
         /\ stage = "countWalk" => Counts(A, n + 1, "count") /\ Counts(A, n + 1, "walk")
         /\ stage = "count" => Counts(A, n + 1, "record")
         /\ stage = "idle" => Counts(A, n + 1, "record") /\ Counts(A, n, "walk")
<1>1. IsFiniteSet(A) /\ Cardinality(A) \in Nat
  BY FS_CardinalityType DEF Counts
<1>2. \A x : x \notin A => IsFiniteSet(A \union {x}) /\ Cardinality(A \union {x}) = Cardinality(A) + 1
  BY <1>1, FS_AddElement
<1>3. stage = "walk" => Cardinality(A) = n
  BY <1>1 DEF Counts
<1>4. stage = "record" => Cardinality(A) + 1 = n
  BY <1>1 DEF Counts
<1>5. stage = "countWalk" => Cardinality(A) = n + 1
  BY <1>1 DEF Counts
<1>6. stage \in {"count", "idle"} => Cardinality(A) = n
  BY <1>1 DEF Counts
<1> QED BY <1>1, <1>2, <1>3, <1>4, <1>5, <1>6 DEF Counts

(* A step of one core leaves the counts of the others.                      *)
LEMMA CountedLocal ==
  ASSUME Counted, NEW c \in Core, Counts(AccessesIn(log', c), total'[c], cpu'[c].stage),
         \A b \in Core : b # c => /\ AccessesIn(log', b) = AccessesIn(log, b)
                                  /\ total'[b] = total[b] /\ cpu'[b] = cpu[b]
  PROVE  Counted'
<1> SUFFICES ASSUME NEW b \in Core PROVE Counts(AccessesIn(log', b), total'[b], cpu'[b].stage)
  BY DEF Counted
<1>1. CASE b = c
  BY <1>1
<1>2. CASE b # c
  BY <1>2 DEF Counted
<1> QED BY <1>1, <1>2

(* A core that records an access, or counts one, keeps its count right.     *)
LEMMA CountedRecord ==
  ASSUME Types, Counted, NEW c \in Core, NEW insn \in InsnOf, NEW l \in Line, NEW by,
         NEW ts \in Times, RecordAccess(c, insn, l, by, ts), total' = total,
         NEW new, cpu' = [cpu EXCEPT ![c] = new],
         \/ cpu[c].stage = "walk" /\ new.stage = "countWalk"
         \/ cpu[c].stage = "record" /\ new.stage = "idle"
  PROVE  Counted'
<1> DEFINE e == [core |-> c, insn |-> insn, ts |-> ts, dumped |-> l \notin Range(toDump)]
<1>1. e \in Access /\ log' = [log EXCEPT ![l] = Append(log[l], e)]
  BY RecordAccessDoes DEF Types
<1>2. e.core = c
  OBVIOUS
<1> HIDE DEF e
<1>3. log \in [Line -> Seq(Access)] /\ total[c] \in Nat /\ cpu'[c] = new
  BY DEF Types, LineTypes, CallbackTypes
<1> DEFINE x == <<l, Len(log[l]) + 1>>
<1>4. \A b : /\ x \notin AccessesIn(log, b)
             /\ AccessesIn(log', b) = IF e.core = b THEN AccessesIn(log, b) \union {x}
                                      ELSE AccessesIn(log, b)
  <2> SUFFICES ASSUME NEW b
               PROVE  /\ x \notin AccessesIn(log, b)
                      /\ AccessesIn(log', b) = IF e.core = b THEN AccessesIn(log, b) \union {x}
                                               ELSE AccessesIn(log, b)
    OBVIOUS
  <2> DEFINE h == log
  <2> DEFINE t == log'
  <2>1. h \in [Line -> Seq(Access)] /\ t = [h EXCEPT ![l] = Append(h[l], e)]
    BY <1>1, <1>3
  <2> HIDE DEF h, t
  <2>2. AccessesGrowBy(h, l, e, t, b)
    BY <1>1, <2>1, AccessesGrow
  <2> QED BY <2>2 DEF h, t, AccessesGrowBy
<1>5. \A b \in Core : b # c => cpu'[b] = cpu[b]
  BY DEF Types, CallbackTypes
<1> HIDE DEF x
<1> DEFINE A == AccessesIn(log, c)
<1> DEFINE m == total[c]
<1> DEFINE stage == cpu[c].stage
<1>6. Counts(A, m, stage) /\ m \in Nat /\ x \notin A
  BY <1>3, <1>4 DEF Counted
<1>7. Counts(A \union {x}, m, new.stage)
  <2>1. \/ stage = "walk" /\ new.stage = "countWalk"
        \/ stage = "record" /\ new.stage = "idle"
    OBVIOUS
  <2> HIDE DEF A, m, stage
  <2> QED BY <1>6, <2>1, CountsStep
<1>8. Counts(AccessesIn(log', c), total'[c], cpu'[c].stage)
  BY <1>2, <1>3, <1>4, <1>7
<1> QED BY <1>2, <1>4, <1>5, <1>8, CountedLocal

LEMMA CountedCount ==
  ASSUME Types, Counted, NEW c \in Core, log' = log,
         NEW new, cpu' = [cpu EXCEPT ![c] = new],
         NEW n \in {0, 1}, total' = [total EXCEPT ![c] = @ + n],
         \/ cpu[c].stage = "countWalk" /\ n = 1 /\ new.stage \in {"count", "walk"}
         \/ cpu[c].stage = "count" /\ n = 1 /\ new.stage = "record"
         \/ cpu[c].stage = "idle" /\ n = 1 /\ new.stage = "record"
         \/ cpu[c].stage = "idle" /\ n = 0 /\ new.stage = "walk"
  PROVE  Counted'
<1>1. /\ total[c] \in Nat /\ total'[c] = total[c] + n /\ cpu'[c] = new
      /\ \A b \in Core : b # c => total'[b] = total[b] /\ cpu'[b] = cpu[b]
  BY DEF Types, CallbackTypes
<1> DEFINE A == AccessesIn(log, c)
<1> DEFINE m == total[c]
<1> DEFINE stage == cpu[c].stage
<1>2. Counts(A, m, stage) /\ m \in Nat
  BY <1>1 DEF Counted
<1>3. Counts(A, m + n, new.stage)
  <2>1. \/ stage = "countWalk" /\ n = 1 /\ new.stage \in {"count", "walk"}
        \/ stage = "count" /\ n = 1 /\ new.stage = "record"
        \/ stage = "idle" /\ n = 1 /\ new.stage = "record"
        \/ stage = "idle" /\ n = 0 /\ new.stage = "walk"
    OBVIOUS
  <2> HIDE DEF A, m, stage
  <2>2. m + 0 = m
    BY <1>2
  <2>3. /\ stage = "countWalk" => Counts(A, m + 1, "count") /\ Counts(A, m + 1, "walk")
        /\ stage = "count" => Counts(A, m + 1, "record")
        /\ stage = "idle" => Counts(A, m + 1, "record") /\ Counts(A, m, "walk")
    BY ONLY <1>2, CountsStep
  <2> QED BY <2>1, <2>2, <2>3
<1>4. Counts(AccessesIn(log', c), total'[c], cpu'[c].stage)
  BY <1>1, <1>3
<1> QED BY <1>1, <1>4, CountedLocal

(* The other steps leave what is counted as it is.                          *)
LEMMA CountedStays ==
  ASSUME Counted, UNCHANGED <<log, total, cpu>>
  PROVE  Counted'
BY DEF Counted, AccessesIn

(* The inductive invariant of the charges.                                  *)
ChargesInv == Types /\ LinesFaithful /\ Counted

LEMMA ChargesNext == ChargesInv /\ [Next]_vars => ChargesInv'
<1> SUFFICES ASSUME ChargesInv, [Next]_vars PROVE ChargesInv'
  OBVIOUS
<1>1. Types /\ LinesFaithful /\ Counted /\ CallbackTypes /\ LineTypes
  BY DEF ChargesInv, Types
<1>2. Types'
  BY <1>1, TypesNext
<1>3. guest.lines \subseteq Line /\ \A c \in Core : total[c] \in Nat
  BY <1>1, Guests DEF CallbackTypes
<1>4. ASSUME UNCHANGED <<guest, records, charged, log, file, toDump>> PROVE LinesFaithful'
  BY <1>1, <1>4 DEF LinesFaithful
<1>5. ASSUME UNCHANGED <<guest, records, charged, log, file, toDump, cpu, total>>
      PROVE  LinesFaithful' /\ Counted'
  BY <1>1, <1>4, <1>5, CountedStays
<1>6. ASSUME Advance \/ StartDump \/ Exit \/ Terminated \/ UNCHANGED vars
      PROVE  LinesFaithful' /\ Counted'
  <2>1. UNCHANGED <<guest, records, charged, log, file, toDump, cpu, total>>
    <3>1. CASE Advance
      BY <3>1 DEF Advance, lineVars, dumpVars
    <3>2. CASE StartDump
      BY <3>2 DEF StartDump, lineVars
    <3>3. CASE Exit
      BY <3>3 DEF Exit, lineVars
    <3>4. CASE Terminated
      BY <3>4 DEF Terminated, vars, lineVars, dumpVars
    <3>5. CASE UNCHANGED vars
      BY <3>5 DEF vars, lineVars, dumpVars
    <3> QED BY <1>6, <3>1, <3>2, <3>3, <3>4, <3>5
  <2> QED BY <1>5, <2>1
<1>7. ASSUME NEW l \in Line, DumpShard(l) PROVE LinesFaithful' /\ Counted'
  <2>1. UNCHANGED <<log, total, cpu>>
    BY <1>7 DEF DumpShard
  <2> QED BY <1>1, <1>7, <2>1, CountedStays, LinesDump
<1>8. ASSUME NEW c \in Core, RecordWalk(c) PROVE LinesFaithful' /\ Counted'
  <2>1. cpu[c] \in Callback /\ cpu[c].walk # <<>>
    BY <1>1, <1>8, CallbackIs DEF RecordWalk, CallbackTypes
  <2> DEFINE l == Head(cpu[c].walk)
  <2> DEFINE by == {"page_walk"} \union guest.privilege
  <2>2. l \in Line /\ cpu[c].ts \in Times /\ "walk" \in InsnOf
    BY <2>1 DEF Callback, InsnOf
  <2>3. by = Kinds("walk", guest.privilege)
    BY DEF Kinds
  <2>4. RecordAccess(c, "walk", l, by, cpu[c].ts)
    BY <1>8 DEF RecordWalk
  <2>5. UNCHANGED <<guest, toDump, file, total>>
    BY <1>8 DEF RecordWalk, dumpVars
  <2> HIDE DEF l, by
  <2>6. LinesFaithful'
    BY <1>1, <2>2, <2>3, <2>4, <2>5, LinesAccess
  <2> DEFINE new == [cpu[c] EXCEPT !.stage = "countWalk"]
  <2>7. cpu' = [cpu EXCEPT ![c] = new] /\ cpu[c].stage = "walk" /\ new.stage = "countWalk"
    BY <1>8, <2>1 DEF RecordWalk, Callback
  <2> HIDE DEF new
  <2>8. Counted'
    BY <1>1, <2>2, <2>4, <2>5, <2>7, CountedRecord
  <2> QED BY <2>6, <2>8
<1>9. ASSUME NEW c \in Core, Record(c) PROVE LinesFaithful' /\ Counted'
  <2>1. cpu[c] \in Callback /\ cpu[c] # Idle
    BY <1>1, <1>9, CallbackIs DEF Record
  <2> DEFINE l == cpu[c].line
  <2> DEFINE by == cpu[c].by
  <2> DEFINE insn == cpu[c].insn
  <2>2. l \in Line /\ cpu[c].ts \in Times /\ insn \in InsnOf
    BY <2>1 DEF Callback
  <2>3. by = Kinds(insn, guest.privilege)
    BY <1>1, <2>1 DEF CallbackTypes
  <2>4. RecordAccess(c, insn, l, by, cpu[c].ts)
    BY <1>9 DEF Record
  <2>5. UNCHANGED <<guest, toDump, file, total>>
    BY <1>9 DEF Record, dumpVars
  <2> HIDE DEF l, by, insn
  <2>6. LinesFaithful'
    BY <1>1, <2>2, <2>3, <2>4, <2>5, LinesAccess
  <2>7. cpu' = [cpu EXCEPT ![c] = Idle] /\ cpu[c].stage = "record" /\ Idle.stage = "idle"
    BY <1>9 DEF Record, Idle
  <2>8. Counted'
    BY <1>1, <2>2, <2>4, <2>5, <2>7, CountedRecord
  <2> QED BY <2>6, <2>8
<1>10. ASSUME NEW c \in Core, CountWalk(c) PROVE LinesFaithful' /\ Counted'
  <2>1. cpu[c] \in Callback
    BY <1>1, <1>10, CallbackIs DEF CountWalk
  <2> DEFINE new == [cpu[c] EXCEPT !.walk = Tail(@),
                                   !.stage = IF Len(cpu[c].walk) = 1 THEN "count" ELSE "walk"]
  <2>2. cpu' = [cpu EXCEPT ![c] = new] /\ cpu[c].stage = "countWalk"
    BY <1>10 DEF CountWalk
  <2>3. new.stage \in {"count", "walk"}
    BY <2>1 DEF Callback
  <2>4. total' = [total EXCEPT ![c] = @ + 1]
    BY <1>10 DEF CountWalk, CountOfWalk
  <2>5. UNCHANGED <<guest, records, charged, log, file, toDump>>
    BY <1>10 DEF CountWalk, lineVars, dumpVars
  <2> HIDE DEF new
  <2>6. 1 \in {0, 1}
    OBVIOUS
  <2>7. Counted'
    BY <1>1, <2>2, <2>3, <2>4, <2>5, <2>6, CountedCount
  <2> QED BY <1>4, <2>5, <2>7
<1>11. ASSUME NEW c \in Core, CountAccess(c) PROVE LinesFaithful' /\ Counted'
  <2>1. cpu[c] \in Callback
    BY <1>1, <1>11, CallbackIs DEF CountAccess
  <2> DEFINE new == [cpu[c] EXCEPT !.stage = "record"]
  <2>2. /\ cpu' = [cpu EXCEPT ![c] = new] /\ cpu[c].stage = "count"
        /\ total' = [total EXCEPT ![c] = @ + 1]
    BY <1>11 DEF CountAccess
  <2>3. new.stage = "record"
    BY <2>1 DEF Callback
  <2>4. UNCHANGED <<guest, records, charged, log, file, toDump>>
    BY <1>11 DEF CountAccess, lineVars, dumpVars
  <2> HIDE DEF new
  <2>5. 1 \in {0, 1}
    OBVIOUS
  <2>6. Counted'
    BY <1>1, <2>2, <2>3, <2>4, <2>5, CountedCount
  <2> QED BY <1>4, <2>4, <2>6
<1>12. ASSUME NEW c \in Core, NEW insn, NEW l, NEW walk, NEW by, Begin(c, insn, l, walk, by),
              cpu[c] = Idle, UNCHANGED <<guest, records, charged, log, file, toDump>>
       PROVE  LinesFaithful' /\ Counted'
  <2> DEFINE new == [stage |-> IF walk = <<>> THEN "record" ELSE "walk", insn |-> insn, line |-> l,
                     walk |-> walk, by |-> by \union guest.privilege, ts |-> generation]
  <2>1. /\ cpu' = [cpu EXCEPT ![c] = new] /\ cpu[c].stage = "idle"
        /\ total' = [total EXCEPT ![c] = @ + IF walk = <<>> THEN 1 ELSE 0]
    BY <1>12 DEF Begin, Idle
  <2>2. new.stage = IF walk = <<>> THEN "record" ELSE "walk"
    OBVIOUS
  <2> HIDE DEF new
  <2>3. CASE walk = <<>>
    <3>1. total' = [total EXCEPT ![c] = @ + 1] /\ new.stage = "record" /\ 1 \in {0, 1}
      BY <2>1, <2>2, <2>3
    <3>2. Counted'
      BY <1>1, <1>12, <2>1, <3>1, CountedCount
    <3> QED BY <1>4, <1>12, <3>2
  <2>4. CASE walk # <<>>
    <3>1. total' = [total EXCEPT ![c] = @ + 0] /\ new.stage = "walk" /\ 0 \in {0, 1}
      BY <2>1, <2>2, <2>4
    <3>2. Counted'
      BY <1>1, <1>12, <2>1, <3>1, CountedCount
    <3> QED BY <1>4, <1>12, <3>2
  <2> QED BY <2>3, <2>4
<1>13. ASSUME NEW c \in Core, NEW insn, NEW l, MemAccess(c, insn, l) PROVE LinesFaithful' /\ Counted'
  BY <1>12, <1>13 DEF MemAccess, Calls, lineVars, dumpVars
<1>14. ASSUME NEW c \in Core, NEW l, NEW walk, FetchInsn(c, l, walk) PROVE LinesFaithful' /\ Counted'
  BY <1>12, <1>14 DEF FetchInsn, Calls, lineVars, dumpVars
<1>15. ASSUME NEW c \in Core, NEW pc, NEW l, NEW d, CompareAndSwap(c, pc, l, d)
       PROVE  LinesFaithful' /\ Counted'
  BY <1>12, <1>15 DEF CompareAndSwap, Calls, lineVars, dumpVars
<1>16. ASSUME NEW c \in Core, NEW d, Wfe(c, d) PROVE LinesFaithful' /\ Counted'
  BY <1>5, <1>16 DEF Wfe, lineVars, dumpVars
<1>17. ASSUME NEW c \in Core, Wfi(c) \/ WfiTooEarly(c) \/ Interrupt(c)
       PROVE  LinesFaithful' /\ Counted'
  <2>1. UNCHANGED <<guest, records, charged, log, file, toDump, cpu, total>>
    <3>1. CASE Wfi(c)
      BY <3>1 DEF Wfi, lineVars, dumpVars
    <3>2. CASE WfiTooEarly(c)
      BY <3>2 DEF WfiTooEarly, lineVars
    <3>3. CASE Interrupt(c)
      BY <3>3 DEF Interrupt, lineVars, dumpVars
    <3> QED BY <1>17, <3>1, <3>2, <3>3
  <2> QED BY <1>5, <2>1
<1>18. LinesFaithful' /\ Counted'
  <2>1. CASE \E c \in Core : Wfi(c) \/ WfiTooEarly(c) \/ Interrupt(c)
    BY <1>17, <2>1
  <2>2. CASE \E c \in Core, l \in guest.lines :
               \/ \E insn \in Insns : MemAccess(c, insn, l)
               \/ \E walk \in Walks : FetchInsn(c, l, walk)
               \/ \E pc \in Pc, d \in {1, SpinInsns} : CompareAndSwap(c, pc, l, d)
    BY <1>13, <1>14, <1>15, <2>2
  <2>3. CASE \E c \in Core : \/ RecordWalk(c) \/ CountWalk(c) \/ CountAccess(c) \/ Record(c)
                             \/ \E d \in {1, SpinInsns} : Wfe(c, d)
    BY <1>8, <1>9, <1>10, <1>11, <1>16, <2>3
  <2>4. CASE \E l \in Line : DumpShard(l)
    BY <1>7, <2>4
  <2> QED BY <1>6, <2>1, <2>2, <2>3, <2>4 DEF Next
<1> QED BY <1>2, <1>18 DEF ChargesInv

(* Every variable has its type.                                             *)
THEOREM TypesHold == Spec => []TypeOK
<1>1. Init => Types
  BY TypesInit
<1>2. Types /\ [Next]_vars => Types'
  BY TypesNext
<1>3. Types => TypeOK
  BY TypesOK
<1> QED BY <1>1, <1>2, <1>3, PTL DEF Spec

(* record_access and dump: each transfer of a line between cores is charged *)
(* once, to the core that obtains it, with the interval and the categories  *)
(* the accesses to the line say, before the dump of its shard in the file   *)
(* and after it in memory; and a core has counted its accesses once each.   *)
THEOREM ChargesCorrect == Spec => []CommunicationFaithful
<1>1. Init => ChargesInv
  BY TypesInit, LinesInit, CountedInit DEF ChargesInv
<1>2. ChargesInv /\ [Next]_vars => ChargesInv'
  BY ChargesNext
<1>3. ChargesInv => CommunicationFaithful
  <2> SUFFICES ASSUME ChargesInv PROVE CommunicationFaithful
    OBVIOUS
  <2>1. ASSUME NEW c \in Core
        PROVE  Cardinality(Accesses(c)) + (IF cpu[c].stage = "record" THEN 1 ELSE 0)
                 = total[c] + (IF cpu[c].stage = "countWalk" THEN 1 ELSE 0)
    BY AccessesAre DEF ChargesInv, Counted, Counts
  <2>2. ASSUME NEW c \in Core, NEW l \in Line, NEW d \in BOOLEAN, d = (l \notin Range(toDump))
        PROVE  /\ file[l][c] = IF d THEN ChargesIn(log[l], c, FALSE, guest.privilege) ELSE NoCharge
               /\ charged[l][c] = ChargesIn(log[l], c, d, guest.privilege)
    <3>1. Faithful(log[l], records[l], charged[l], file[l], d, guest.privilege)
      BY <2>2 DEF ChargesInv, LinesFaithful
    <3> QED BY <3>1 DEF Faithful
  <2> QED BY <2>1, <2>2 DEF CommunicationFaithful
<1> QED BY <1>1, <1>2, <1>3, PTL DEF Spec

(* ---- idle times -------------------------------------------------------- *)
IdleEvent == [op : {"wfi", "interrupt"}, ts : Times]

(* An idle time starts after the last interrupt, or with the log; this      *)
(* determines it.                                                           *)
LEMMA StartFacts ==
  ASSUME NEW h, NEW i \in Nat \ {0}
  PROVE  /\ Start(h, i) \in 1..i
         /\ Start(h, i) # 1 => h[Start(h, i) - 1].op = "interrupt"
         /\ \A j \in Start(h, i)..i - 1 : h[j].op # "interrupt"
<1> DEFINE I == {j \in 1..i - 1 : h[j].op = "interrupt"}
<1> DEFINE m == Max({0} \union I)
<1>1. I \in SUBSET (1..i - 1) /\ i - 1 \in Nat
  OBVIOUS
<1>2. Start(h, i) = 1 + m
  BY DEF Start
<1>3. m \in {0} \union I /\ m \in 0..i - 1 /\ \A j \in I : j <= m
  <2> HIDE DEF I
  <2> QED BY <1>1, LastExists
<1> HIDE DEF m
<1>4. m # 0 => h[m].op = "interrupt"
  BY <1>3
<1>5. ASSUME NEW j \in (1 + m)..i - 1 PROVE h[j].op # "interrupt"
  <2>1. j \in 1..i - 1 /\ ~(j <= m)
    BY <1>3
  <2> QED BY <1>3, <2>1
<1>6. (1 + m) - 1 = m
  BY <1>3
<1> HIDE DEF I
<1> QED BY <1>2, <1>3, <1>4, <1>5, <1>6

LEMMA StartIs ==
  ASSUME NEW h, NEW i \in Nat \ {0}, NEW s \in 1..i, s # 1 => h[s - 1].op = "interrupt",
         \A j \in s..i - 1 : h[j].op # "interrupt"
  PROVE  Start(h, i) = s
<1> DEFINE I == {j \in 1..i - 1 : h[j].op = "interrupt"}
<1>1. I \in SUBSET Nat /\ s - 1 \in {0} \union I /\ \A j \in I : j <= s - 1
  OBVIOUS
<1>2. Max({0} \union I) = s - 1
  <2> HIDE DEF I
  <2> QED BY <1>1, LastIs
<1>3. Start(h, i) = 1 + (s - 1)
  BY <1>2 DEF Start
<1> QED BY <1>3

(* One more event in the log of a core.                                     *)
LEMMA StartAppend ==
  ASSUME NEW h \in Seq(IdleEvent), NEW e \in IdleEvent, NEW t, t = Append(h, e)
  PROVE  /\ \A i \in 1..Len(h) + 1 : Start(t, i) = Start(h, i)
         /\ Start(t, Len(h) + 2) = IF e.op = "interrupt" THEN Len(h) + 2 ELSE Start(h, Len(h) + 1)
<1> DEFINE n == Len(h)
<1>1. /\ n \in Nat /\ Len(t) = n + 1 /\ t[n + 1] = e /\ \A i \in 1..n : t[i] = h[i]
  BY Appended
<1> HIDE DEF n
<1>2. ASSUME NEW i \in 1..n + 1 PROVE Start(t, i) = Start(h, i)
  <2>1. {j \in 1..i - 1 : t[j].op = "interrupt"} = {j \in 1..i - 1 : h[j].op = "interrupt"}
    BY <1>1
  <2> QED BY <2>1 DEF Start
<1>3. CASE e.op = "interrupt"
  <2> DEFINE m == n + 2
  <2>1. m \in Nat \ {0} /\ m \in 1..m /\ t[m - 1].op = "interrupt"
    <3>1. m \in Nat \ {0} /\ m - 1 = n + 1
      BY <1>1
    <3> QED BY <1>1, <1>3, <3>1
  <2>2. \A j \in m..m - 1 : t[j].op # "interrupt"
    BY <1>1
  <2> HIDE DEF m
  <2>3. Start(t, m) = m
    BY <2>1, <2>2, StartIs
  <2> QED BY <1>2, <1>3, <2>3 DEF n, m
<1>4. CASE e.op # "interrupt"
  <2> DEFINE s == Start(h, n + 1)
  <2>1. n + 1 \in Nat \ {0} /\ n + 2 \in Nat \ {0}
    BY <1>1
  <2>2. /\ s \in 1..n + 1 /\ (s # 1 => h[s - 1].op = "interrupt")
        /\ \A j \in s..(n + 1) - 1 : h[j].op # "interrupt"
    BY <2>1, StartFacts
  <2> HIDE DEF s
  <2>3. s \in 1..n + 2 /\ (s # 1 => t[s - 1].op = "interrupt")
    BY <1>1, <2>2
  <2>4. \A j \in s..(n + 2) - 1 : t[j].op # "interrupt"
    BY <1>1, <1>4, <2>2
  <2>5. Start(t, n + 2) = s
    BY <2>1, <2>3, <2>4, StartIs
  <2> QED BY <1>2, <1>4, <2>5 DEF n, s
<1> QED BY <1>3, <1>4

(* What is recorded of a core's idle times at time now: w is the time of    *)
(* the first WFI after the last interrupt, zero if there is none.           *)
EndsAfter(h, x) ==
  {i \in DOMAIN h : /\ h[i].op = "interrupt" /\ Start(h, i) < i
                    /\ h[i].ts - h[Start(h, i)].ts = x}
IdleOf(h, w, counts, now) ==
  /\ h \in Seq(IdleEvent)
  /\ \A i \in DOMAIN h : h[i].ts <= now /\ (h[i].op = "wfi" => h[i].ts > 0)
  /\ w = IF Start(h, Len(h) + 1) = Len(h) + 1 THEN 0 ELSE h[Start(h, Len(h) + 1)].ts
  /\ counts \in [Times -> Nat]
  /\ \A x \in Times : counts[x] = Cardinality(EndsAfter(h, x))

(* Time passing changes nothing of it.                                      *)
LEMMA IdleLater ==
  ASSUME NEW h, NEW w, NEW counts, NEW now \in Times, IdleOf(h, w, counts, now),
         NEW later \in Times, now <= later
  PROVE  IdleOf(h, w, counts, later)
<1>1. h \in Seq(IdleEvent) /\ \A i \in DOMAIN h : h[i] \in IdleEvent
  BY DEF IdleOf
<1>2. \A i \in DOMAIN h : h[i].ts <= later
  <2> SUFFICES ASSUME NEW i \in DOMAIN h PROVE h[i].ts <= later
    OBVIOUS
  <2>1. h[i].ts \in Times /\ h[i].ts <= now
    BY <1>1 DEF IdleOf, IdleEvent
  <2> QED BY <2>1, RecorderAssumption DEF Times
<1> QED BY <1>2 DEF IdleOf

(* One more event may end an idle time.                                     *)
EndsGrow(h, e, t, x) ==
  /\ EndsAfter(h, x) \in SUBSET (1..Len(h))
  /\ EndsAfter(t, x) =
       IF /\ e.op = "interrupt" /\ Start(h, Len(h) + 1) < Len(h) + 1
          /\ e.ts - h[Start(h, Len(h) + 1)].ts = x
       THEN EndsAfter(h, x) \union {Len(h) + 1} ELSE EndsAfter(h, x)
LEMMA EndsAppend ==
  ASSUME NEW h \in Seq(IdleEvent), NEW e \in IdleEvent, NEW t, t = Append(h, e), NEW x
  PROVE  EndsGrow(h, e, t, x)
<1> DEFINE n == Len(h)
<1>1. /\ n \in Nat /\ t[n + 1] = e /\ DOMAIN h = 1..n /\ DOMAIN t = 1..(n + 1)
      /\ \A i \in 1..n : t[i] = h[i]
  BY Appended
<1>2. \A i \in 1..n + 1 : Start(t, i) = Start(h, i)
  BY StartAppend
<1> HIDE DEF n
<1>3. \A i \in 1..n + 1 : Start(h, i) \in 1..i
  BY <1>1, StartFacts
<1> DEFINE Ends(s, i) == s[i].op = "interrupt" /\ Start(s, i) < i /\ s[i].ts - s[Start(s, i)].ts = x
<1>4. \A i \in 1..n : Ends(t, i) <=> Ends(h, i)
  <2> SUFFICES ASSUME NEW i \in 1..n PROVE Ends(t, i) <=> Ends(h, i)
    OBVIOUS
  <2>1. i \in 1..n + 1 /\ \A j \in 1..i : j \in 1..n
    BY <1>1
  <2>2. Start(t, i) = Start(h, i) /\ Start(h, i) \in 1..n
    BY <1>2, <1>3, <2>1
  <2> QED BY <1>1, <2>2
<1>5. Ends(t, n + 1) <=> /\ e.op = "interrupt" /\ Start(h, n + 1) < n + 1
                         /\ e.ts - h[Start(h, n + 1)].ts = x
  <2>1. Start(t, n + 1) = Start(h, n + 1) /\ Start(h, n + 1) \in 1..n + 1
    BY <1>1, <1>2, <1>3
  <2>2. Start(h, n + 1) < n + 1 => t[Start(h, n + 1)] = h[Start(h, n + 1)]
    BY <1>1, <2>1
  <2> QED BY <1>1, <2>1, <2>2
<1>6. /\ EndsAfter(h, x) = {i \in 1..n : Ends(h, i)}
      /\ EndsAfter(t, x) = {i \in 1..(n + 1) : Ends(t, i)}
  BY <1>1 DEF EndsAfter
<1>7. n \in Nat
  BY <1>1
<1>8. EndsAfter(t, x) = IF Ends(t, n + 1) THEN EndsAfter(h, x) \union {n + 1} ELSE EndsAfter(h, x)
  <2> HIDE DEF Ends
  <2> QED BY <1>4, <1>6, <1>7
<1> HIDE DEF Ends
<1> QED BY <1>5, <1>6, <1>7, <1>8 DEF n, EndsGrow

(* A WFI or an interrupt at time now keeps it.                              *)
LEMMA IdleWfi ==
  ASSUME NEW h, NEW w \in Times, NEW counts, NEW now \in Times, IdleOf(h, w, counts, now), now # 0,
         NEW t, t = Append(h, [op |-> "wfi", ts |-> now])
  PROVE  IdleOf(t, FirstWfi(w, now), counts, now)
<1> DEFINE n == Len(h)
<1> DEFINE e == [op |-> "wfi", ts |-> now]
<1> DEFINE s == Start(h, n + 1)
<1>1. h \in Seq(IdleEvent) /\ e \in IdleEvent /\ e.op = "wfi" /\ e.ts = now /\ t = Append(h, e)
  BY DEF IdleOf, IdleEvent
<1> HIDE DEF e
<1>2. /\ n \in Nat /\ Len(t) = n + 1 /\ t[n + 1] = e /\ t \in Seq(IdleEvent)
      /\ DOMAIN h = 1..n /\ DOMAIN t = 1..(n + 1) /\ \A i \in 1..n : t[i] = h[i] /\ h[i] \in IdleEvent
  BY <1>1, Appended
<1>3. Times \subseteq Nat
  BY RecorderAssumption DEF Times
<1>4. s \in 1..n + 1 /\ \A j \in s..n : h[j].op # "interrupt"
  <2>1. n + 1 \in Nat \ {0} /\ (n + 1) - 1 = n
    BY <1>2
  <2> QED BY <2>1, StartFacts
<1>5. Start(t, n + 2) = s
  BY <1>1, StartAppend
<1> HIDE DEF n, s
<1>6. w = IF s = n + 1 THEN 0 ELSE h[s].ts
  BY DEF IdleOf, n, s
<1>7. s # n + 1 => h[s].ts > 0
  <2> SUFFICES ASSUME s # n + 1 PROVE h[s].ts > 0
    OBVIOUS
  <2>1. s \in 1..n /\ s \in s..n
    BY <1>2, <1>4
  <2>2. h[s] \in IdleEvent /\ h[s].op # "interrupt"
    BY <1>2, <1>4, <2>1
  <2>3. h[s].op = "wfi"
    BY <2>2 DEF IdleEvent
  <2> QED BY <1>2, <2>1, <2>3 DEF IdleOf
<1>8. FirstWfi(w, now) = IF Start(t, Len(t) + 1) = Len(t) + 1 THEN 0 ELSE t[Start(t, Len(t) + 1)].ts
  <2>1. Len(t) + 1 = n + 2 /\ s # n + 2
    BY <1>2, <1>4
  <2>2. FirstWfi(w, now) = t[s].ts
    <3>1. CASE s = n + 1
      BY <1>1, <1>2, <1>6, <3>1 DEF FirstWfi
    <3>2. CASE s # n + 1
      <4>1. s \in 1..n /\ w = h[s].ts /\ w # 0
        BY <1>2, <1>3, <1>4, <1>6, <1>7, <3>2
      <4> QED BY <1>2, <4>1 DEF FirstWfi
    <3> QED BY <3>1, <3>2
  <2> QED BY <1>5, <2>1, <2>2
<1>9. \A i \in DOMAIN t : t[i].ts <= now /\ (t[i].op = "wfi" => t[i].ts > 0)
  <2> SUFFICES ASSUME NEW i \in 1..(n + 1) PROVE t[i].ts <= now /\ (t[i].op = "wfi" => t[i].ts > 0)
    BY <1>2
  <2>1. CASE i = n + 1
    BY <1>1, <1>2, <1>3, <2>1
  <2>2. CASE i # n + 1
    <3>1. i \in 1..n
      BY <1>2, <2>2
    <3> QED BY <1>2, <3>1 DEF IdleOf
  <2> QED BY <2>1, <2>2
<1>10. \A x \in Times : counts[x] = Cardinality(EndsAfter(t, x))
  <2>1. \A x : EndsGrow(h, e, t, x)
    BY <1>1, EndsAppend
  <2>2. \A x : EndsAfter(t, x) = EndsAfter(h, x)
    BY <1>1, <2>1 DEF EndsGrow
  <2> QED BY <2>2 DEF IdleOf
<1> QED BY <1>2, <1>8, <1>9, <1>10 DEF IdleOf

(* An interrupt ends the idle time there is.                                *)
LEMMA IdleInterrupt ==
  ASSUME NEW h, NEW w \in Times, NEW counts, NEW now \in Times, IdleOf(h, w, counts, now),
         NEW t, t = Append(h, [op |-> "interrupt", ts |-> now])
  PROVE  IdleOf(t, 0, IF w > 0 THEN Bump(counts, Since(now, w)) ELSE counts, now)
<1> DEFINE n == Len(h)
<1> DEFINE e == [op |-> "interrupt", ts |-> now]
<1> DEFINE s == Start(h, n + 1)
<1> DEFINE new == IF w > 0 THEN Bump(counts, Since(now, w)) ELSE counts
<1>1. h \in Seq(IdleEvent) /\ e \in IdleEvent /\ e.op = "interrupt" /\ e.ts = now /\ t = Append(h, e)
  BY DEF IdleOf, IdleEvent
<1> HIDE DEF e
<1>2. /\ n \in Nat /\ Len(t) = n + 1 /\ t[n + 1] = e /\ t \in Seq(IdleEvent)
      /\ DOMAIN h = 1..n /\ DOMAIN t = 1..(n + 1) /\ \A i \in 1..n : t[i] = h[i] /\ h[i] \in IdleEvent
  BY <1>1, Appended
<1>3. Times \subseteq Nat
  BY RecorderAssumption DEF Times
<1>4. s \in 1..n + 1 /\ \A j \in s..n : h[j].op # "interrupt"
  <2>1. n + 1 \in Nat \ {0} /\ (n + 1) - 1 = n
    BY <1>2
  <2> QED BY <2>1, StartFacts
<1>5. Start(t, n + 2) = n + 2
  BY <1>1, StartAppend
<1>6. \A x : /\ EndsAfter(h, x) \in SUBSET (1..n)
             /\ EndsAfter(t, x) = IF s < n + 1 /\ now - h[s].ts = x
                                  THEN EndsAfter(h, x) \union {n + 1} ELSE EndsAfter(h, x)
  <2>1. \A x : EndsGrow(h, e, t, x)
    BY <1>1, EndsAppend
  <2> QED BY <1>1, <2>1 DEF EndsGrow
<1> HIDE DEF n, s
<1>7. w = IF s = n + 1 THEN 0 ELSE h[s].ts
  BY DEF IdleOf, n, s
<1>8. s # n + 1 => s < n + 1 /\ h[s].ts > 0 /\ h[s].ts \in Nat /\ h[s].ts <= now
  <2> SUFFICES ASSUME s # n + 1 PROVE s < n + 1 /\ h[s].ts > 0 /\ h[s].ts \in Nat /\ h[s].ts <= now
    OBVIOUS
  <2>1. s \in 1..n /\ s \in s..n /\ s < n + 1
    BY <1>2, <1>4
  <2>2. h[s] \in IdleEvent /\ h[s].op # "interrupt"
    BY <1>2, <1>4, <2>1
  <2>3. h[s].op = "wfi" /\ h[s].ts \in Times
    BY <2>2 DEF IdleEvent
  <2> QED BY <1>2, <1>3, <2>1, <2>3 DEF IdleOf
<1>9. \A i \in DOMAIN t : t[i].ts <= now /\ (t[i].op = "wfi" => t[i].ts > 0)
  <2> SUFFICES ASSUME NEW i \in 1..(n + 1) PROVE t[i].ts <= now /\ (t[i].op = "wfi" => t[i].ts > 0)
    BY <1>2
  <2>1. CASE i = n + 1
    BY <1>1, <1>2, <1>3, <2>1
  <2>2. CASE i # n + 1
    <3>1. i \in 1..n
      BY <1>2, <2>2
    <3> QED BY <1>2, <3>1 DEF IdleOf
  <2> QED BY <2>1, <2>2
<1>10. counts \in [Times -> Nat] /\ \A x \in Times : counts[x] = Cardinality(EndsAfter(h, x))
  BY DEF IdleOf
<1>11. \A x : Cardinality(EndsAfter(h, x) \union {n + 1}) = Cardinality(EndsAfter(h, x)) + 1
  BY <1>2, <1>6, CountOne
<1>12. new \in [Times -> Nat] /\ \A x \in Times : new[x] = Cardinality(EndsAfter(t, x))
  <2>1. CASE s = n + 1
    <3>1. w = 0 /\ new = counts /\ ~(s < n + 1)
      BY <1>2, <1>7, <2>1
    <3> HIDE DEF new
    <3> QED BY <1>6, <1>10, <3>1
  <2>2. CASE s # n + 1
    <3>1. /\ w = h[s].ts /\ w > 0 /\ Since(now, w) = now - h[s].ts
          /\ s < n + 1
      BY <1>3, <1>7, <1>8, <2>2 DEF Since
    <3> DEFINE d == now - h[s].ts
    <3>2. new = Bump(counts, d)
      BY <3>1
    <3> HIDE DEF new
    <3>3. d \in Times
      BY <3>1, SinceTimes
    <3>4. new = [x \in Times |-> IF x = d THEN counts[x] + 1 ELSE counts[x]]
      BY <1>10, <3>2, <3>3 DEF Bump
    <3>5. \A x : EndsAfter(t, x) = IF x = d THEN EndsAfter(h, x) \union {n + 1} ELSE EndsAfter(h, x)
      BY <1>6, <3>1
    <3> HIDE DEF d
    <3>6. ASSUME NEW x \in Times PROVE new[x] = Cardinality(EndsAfter(t, x))
      <4>1. counts[x] = Cardinality(EndsAfter(h, x))
        BY <1>10
      <4>2. CASE x = d
        <5>1. EndsAfter(t, x) = EndsAfter(h, x) \union {n + 1}
          BY <3>5, <4>2
        <5>2. Cardinality(EndsAfter(h, x) \union {n + 1}) = Cardinality(EndsAfter(h, x)) + 1
          BY <1>11
        <5>3. new[x] = counts[x] + 1
          BY <3>4, <4>2
        <5> QED BY ONLY <4>1, <5>1, <5>2, <5>3
      <4>3. CASE x # d
        BY <3>4, <3>5, <4>1, <4>3
      <4> QED BY <4>2, <4>3
    <3>8. new \in [Times -> Nat]
      BY <1>10, <3>4
    <3> QED BY <3>6, <3>8
  <2> QED BY <2>1, <2>2
<1> HIDE DEF new
<1>13. Start(t, Len(t) + 1) = Len(t) + 1
  BY <1>2, <1>5
<1>14. IdleOf(t, 0, new, now)
  BY <1>2, <1>9, <1>12, <1>13 DEF IdleOf
<1> QED BY <1>14 DEF new

(* ---- spinning on CAS --------------------------------------------------- *)
CasEvent == [pc : Pc, addr : Line, insns : Nat, ts : Times]
LastAt(h, i, pc) == Max({0} \union {j \in 1..i - 1 : h[j].pc = pc})

(* The last event of a pc before index i is one, and none is between; this  *)
(* determines it.                                                           *)
LEMMA LastAtFacts ==
  ASSUME NEW h, NEW i \in Nat \ {0}, NEW pc
  PROVE  /\ LastAt(h, i, pc) \in 0..i - 1
         /\ LastAt(h, i, pc) # 0 => h[LastAt(h, i, pc)].pc = pc
         /\ \A j \in LastAt(h, i, pc) + 1..i - 1 : h[j].pc # pc
<1> DEFINE I == {j \in 1..i - 1 : h[j].pc = pc}
<1>1. I \in SUBSET (1..i - 1) /\ i - 1 \in Nat
  OBVIOUS
<1>2. LastAt(h, i, pc) = Max({0} \union I)
  BY DEF LastAt
<1> HIDE DEF I
<1>3. /\ LastAt(h, i, pc) \in {0} \union I /\ LastAt(h, i, pc) \in 0..i - 1
      /\ \A j \in I : j <= LastAt(h, i, pc)
  BY <1>1, <1>2, LastExists
<1> QED BY <1>3 DEF I

LEMMA LastAtIs ==
  ASSUME NEW h, NEW i \in Nat \ {0}, NEW pc, NEW p \in 0..i - 1, p # 0 => h[p].pc = pc,
         \A j \in p + 1..i - 1 : h[j].pc # pc
  PROVE  LastAt(h, i, pc) = p
<1> DEFINE I == {j \in 1..i - 1 : h[j].pc = pc}
<1>1. I \in SUBSET Nat /\ p \in {0} \union I /\ \A j \in I : j <= p
  OBVIOUS
<1> QED BY <1>1, LastIs DEF LastAt

(* The property speaks of the last event of the same pc.                    *)
LEMMA PriorIs == \A h, i : Prior(h, i) = LastAt(h, i, h[i].pc)
BY DEF Prior, LastAt

LEMMA PriorRange ==
  ASSUME NEW h, NEW i \in Nat \ {0}
  PROVE  Prior(h, i) \in 0..i - 1
BY PriorIs, LastAtFacts

(* One more CAS in the log of a core.                                       *)
LEMMA CasAppend ==
  ASSUME NEW h \in Seq(CasEvent), NEW e \in CasEvent, NEW t, t = Append(h, e)
  PROVE  /\ \A i \in 1..Len(h) : Prior(t, i) = Prior(h, i) /\ (Spins(t, i) <=> Spins(h, i))
         /\ Prior(t, Len(h) + 1) = LastAt(h, Len(h) + 1, e.pc)
         /\ \A pc : LastAt(t, Len(h) + 2, pc)
                      = IF pc = e.pc THEN Len(h) + 1 ELSE LastAt(h, Len(h) + 1, pc)
<1> DEFINE n == Len(h)
<1>1. /\ n \in Nat /\ Len(t) = n + 1 /\ t[n + 1] = e /\ \A i \in 1..n : t[i] = h[i]
  BY Appended
<1> HIDE DEF n
<1>2. ASSUME NEW i \in 1..n + 1, NEW pc PROVE LastAt(t, i, pc) = LastAt(h, i, pc)
  <2>1. {j \in 1..i - 1 : t[j].pc = pc} = {j \in 1..i - 1 : h[j].pc = pc}
    BY <1>1
  <2> QED BY <2>1 DEF LastAt
<1>3. ASSUME NEW i \in 1..n PROVE Prior(t, i) = Prior(h, i) /\ (Spins(t, i) <=> Spins(h, i))
  <2>1. i \in 1..n + 1 /\ i \in Nat \ {0} /\ t[i] = h[i]
    BY <1>1
  <2>2. Prior(t, i) = Prior(h, i)
    BY <1>2, <2>1, PriorIs
  <2>3. Prior(h, i) # 0 => t[Prior(h, i)] = h[Prior(h, i)]
    <3>1. Prior(h, i) \in 0..i - 1
      BY <2>1, PriorRange
    <3> QED BY <1>1, <3>1
  <2> QED BY <2>1, <2>2, <2>3 DEF Spins
<1>4. Prior(t, n + 1) = LastAt(h, n + 1, e.pc)
  <2>1. n + 1 \in 1..n + 1
    BY <1>1
  <2> QED BY <1>1, <1>2, <2>1, PriorIs
<1>5. ASSUME NEW pc
      PROVE  LastAt(t, n + 2, pc) = IF pc = e.pc THEN n + 1 ELSE LastAt(h, n + 1, pc)
  <2> DEFINE m == n + 2
  <2>0. m \in Nat \ {0} /\ m - 1 = n + 1
    BY <1>1
  <2>1. CASE pc = e.pc
    <3> DEFINE p == n + 1
    <3>1. p \in 0..m - 1 /\ (p # 0 => t[p].pc = pc) /\ \A j \in p + 1..m - 1 : t[j].pc # pc
      BY <1>1, <2>0, <2>1
    <3> HIDE DEF p, m
    <3>2. LastAt(t, m, pc) = p
      BY ZenonT(60), <2>0, <3>1, LastAtIs
    <3> QED BY <2>1, <3>2 DEF p, m
  <2>2. CASE pc # e.pc
    <3> DEFINE p == LastAt(h, n + 1, pc)
    <3>1. p \in 0..n /\ (p # 0 => h[p].pc = pc) /\ \A j \in p + 1..n : h[j].pc # pc
      <4>1. n + 1 \in Nat \ {0} /\ (n + 1) - 1 = n
        BY <1>1
      <4> QED BY <4>1, LastAtFacts
    <3> HIDE DEF p
    <3>2. p \in 0..m - 1 /\ (p # 0 => t[p].pc = pc)
      BY <1>1, <2>0, <3>1
    <3>3. \A j \in p + 1..m - 1 : t[j].pc # pc
      BY <1>1, <2>0, <2>2, <3>1
    <3> HIDE DEF m
    <3>4. LastAt(t, m, pc) = p
      BY ZenonT(60), <2>0, <3>2, <3>3, LastAtIs
    <3> QED BY <2>2, <3>4 DEF p, m
  <2> QED BY <2>1, <2>2
<1> QED BY <1>3, <1>4, <1>5 DEF n

(* What the state of a pc knows: its last CAS, and whether that one spun.   *)
Spinning(h) == {i \in DOMAIN h : Spins(h, i)}
Entering(h) == {i \in DOMAIN h : Spins(h, i) /\ ~Spins(h, Prior(h, i))}
Knows(h, s, p) ==
  /\ s.waiting \in BOOLEAN /\ (s.waiting => s.ts > 0)
  /\ IF p = 0 THEN s.ts = 0 /\ ~s.waiting
     ELSE s.ts = h[p].ts /\ s.insns = h[p].insns /\ s.addr = h[p].addr /\ (s.waiting <=> Spins(h, p))
SpinsOf(h, s, busy, entries, count, now) ==
  /\ h \in Seq(CasEvent)
  /\ \A i \in DOMAIN h : h[i].insns <= count /\ h[i].ts <= now
  /\ \A pc \in Pc : Knows(h, s[pc], LastAt(h, Len(h) + 1, pc))
  /\ busy = Cardinality(Spinning(h)) /\ entries = Cardinality(Entering(h))

(* Time passing and instructions executed change nothing of it.             *)
LEMMA SpinsLater ==
  ASSUME NEW h, NEW s, NEW busy, NEW entries, NEW count \in Nat, NEW now \in Times,
         SpinsOf(h, s, busy, entries, count, now),
         NEW more \in Nat, count <= more, NEW later \in Times, now <= later
  PROVE  SpinsOf(h, s, busy, entries, more, later)
<1>1. h \in Seq(CasEvent) /\ \A i \in DOMAIN h : h[i] \in CasEvent
  BY DEF SpinsOf
<1>2. Times \subseteq Nat
  BY RecorderAssumption DEF Times
<1>3. ASSUME NEW i \in DOMAIN h PROVE h[i].insns <= more /\ h[i].ts <= later
  <2>1. h[i].insns \in Nat /\ h[i].ts \in Nat
    BY <1>1, <1>2 DEF CasEvent
  <2>2. h[i].insns <= count /\ h[i].ts <= now
    BY DEF SpinsOf
  <2> QED BY <1>2, <2>1, <2>2
<1> QED BY <1>3 DEF SpinsOf

(* A CAS whose state spins is one that does in the log.                     *)
LEMMA CasSpinsIs ==
  ASSUME NEW h \in Seq(CasEvent), NEW e \in CasEvent, NEW t, t = Append(h, e), NEW s, NEW count \in Nat,
         \A i \in DOMAIN h : h[i].insns <= count, count <= e.insns,
         Knows(h, s, LastAt(h, Len(h) + 1, e.pc))
  PROVE  /\ CasSpins(s, e.insns, e.addr) <=> Spins(t, Len(h) + 1)
         /\ CasSpins(s, e.insns, e.addr) => (s.waiting <=> Spins(t, Prior(t, Len(h) + 1)))
<1> DEFINE n == Len(h)
<1> DEFINE p == LastAt(h, n + 1, e.pc)
<1>1. /\ n \in Nat /\ DOMAIN h = 1..n /\ t[n + 1] = e
      /\ \A i \in 1..n : t[i] = h[i] /\ h[i] \in CasEvent
  BY Appended
<1>2. Prior(t, n + 1) = p /\ \A i \in 1..n : Spins(t, i) <=> Spins(h, i)
  BY CasAppend
<1>3. p \in 0..n
  <2>1. n + 1 \in Nat \ {0} /\ (n + 1) - 1 = n
    BY <1>1
  <2> QED BY <2>1, LastAtFacts
<1>4. Knows(h, s, p)
  OBVIOUS
<1> HIDE DEF n, p
<1>5. Spins(t, n + 1) <=>
        p # 0 /\ t[p].ts > 0 /\ t[p].addr = e.addr /\ e.insns - t[p].insns < SpinInsns
  BY <1>1, <1>2 DEF Spins
<1>6. CASE p = 0
  BY <1>4, <1>5, <1>6 DEF Knows, CasSpins, n
<1>7. CASE p # 0
  <2>1. p \in 1..n /\ t[p] = h[p] /\ h[p] \in CasEvent
    BY <1>1, <1>3, <1>7
  <2>2. /\ s.ts = h[p].ts /\ s.insns = h[p].insns /\ s.addr = h[p].addr
        /\ s.waiting <=> Spins(h, p)
    BY <1>4, <1>7 DEF Knows
  <2>3. h[p].insns <= count /\ h[p].insns \in Nat /\ e.insns \in Nat
    BY <1>1, <2>1 DEF CasEvent
  <2>4. Since(e.insns, s.insns) = e.insns - h[p].insns
    BY <2>2, <2>3 DEF Since
  <2>5. CasSpins(s, e.insns, e.addr) <=> Spins(t, n + 1)
    BY <1>5, <1>7, <2>1, <2>2, <2>4 DEF CasSpins, Near
  <2>6. s.waiting <=> Spins(t, Prior(t, n + 1))
    BY <1>2, <2>1, <2>2
  <2> QED BY <2>5, <2>6 DEF n
<1> QED BY <1>6, <1>7

(* One more CAS may spin, and may enter a loop.                             *)
LEMMA SpinningAppend ==
  ASSUME NEW h \in Seq(CasEvent), NEW e \in CasEvent, NEW t, t = Append(h, e)
  PROVE  /\ Cardinality(Spinning(h)) \in Nat /\ Cardinality(Entering(h)) \in Nat
         /\ Cardinality(Spinning(t))
              = Cardinality(Spinning(h)) + IF Spins(t, Len(h) + 1) THEN 1 ELSE 0
         /\ Cardinality(Entering(t))
              = Cardinality(Entering(h))
                + IF Spins(t, Len(h) + 1) /\ ~Spins(t, Prior(t, Len(h) + 1)) THEN 1 ELSE 0
<1> DEFINE n == Len(h)
<1> DEFINE enters == Spins(t, n + 1) /\ ~Spins(t, Prior(t, n + 1))
<1>1. n \in Nat /\ DOMAIN h = 1..n /\ DOMAIN t = 1..(n + 1)
  BY Appended
<1>2. \A i \in 1..n : Prior(t, i) = Prior(h, i) /\ (Spins(t, i) <=> Spins(h, i))
  BY CasAppend
<1>3. \A i \in 1..n : Spins(h, i) => Prior(h, i) \in 1..n
  <2> SUFFICES ASSUME NEW i \in 1..n, Spins(h, i) PROVE Prior(h, i) \in 1..n
    OBVIOUS
  <2>1. Prior(h, i) \in 0..i - 1 /\ Prior(h, i) # 0
    BY <1>1, PriorRange DEF Spins
  <2> QED BY <1>1, <2>1
<1> DEFINE S == Spinning(h)
<1> DEFINE E == Entering(h)
<1>4. S \in SUBSET (1..n) /\ E \in SUBSET (1..n)
  BY <1>1 DEF Spinning, Entering
<1>5. /\ Spins(t, n + 1) => Spinning(t) = S \union {n + 1}
      /\ ~Spins(t, n + 1) => Spinning(t) = S
  BY <1>1, <1>2 DEF Spinning
<1>6. /\ enters => Entering(t) = E \union {n + 1}
      /\ ~enters => Entering(t) = E
  <2>1. \A i \in 1..n : (Spins(t, i) /\ ~Spins(t, Prior(t, i))) <=>
                          (Spins(h, i) /\ ~Spins(h, Prior(h, i)))
    BY <1>2, <1>3
  <2> QED BY <1>1, <2>1 DEF Entering
<1> HIDE DEF S, E, enters
<1>7. /\ Cardinality(S) \in Nat /\ Cardinality(S \union {n + 1}) = Cardinality(S) + 1
      /\ Cardinality(E) \in Nat /\ Cardinality(E \union {n + 1}) = Cardinality(E) + 1
  BY <1>1, <1>4, CountOne
<1>8. Cardinality(Spinning(t)) = Cardinality(S) + IF Spins(t, n + 1) THEN 1 ELSE 0
  <2>1. CASE Spins(t, n + 1)
    BY <1>5, <1>7, <2>1
  <2>2. CASE ~Spins(t, n + 1)
    BY <1>5, <1>7, <2>2
  <2> QED BY <2>1, <2>2
<1>9. Cardinality(Entering(t)) = Cardinality(E) + IF enters THEN 1 ELSE 0
  <2>1. CASE enters
    BY <1>6, <1>7, <2>1
  <2>2. CASE ~enters
    BY <1>6, <1>7, <2>2
  <2> QED BY <2>1, <2>2
<1> QED BY <1>7, <1>8, <1>9 DEF S, E, enters

(* A CAS keeps what the states of its core know.                            *)
LEMMA SpinsCas ==
  ASSUME NEW h, NEW s \in [Pc -> {NewPc} \union PcState], NEW busy, NEW entries, NEW count \in Nat,
         NEW now \in Times, SpinsOf(h, s, busy, entries, count, now),
         NEW pc \in Pc, NEW l \in Line, NEW more \in Nat, count <= more,
         NEW t, t = Append(h, [pc |-> pc, addr |-> l, insns |-> more, ts |-> now]),
         NEW r, r = [insns |-> more, ts |-> now, addr |-> l,
                     waiting |-> Waiting(s[pc], CasSpins(s[pc], more, l))],
         NEW u, u = [s EXCEPT ![pc] = r]
  PROVE  SpinsOf(t, u, busy + IF CasSpins(s[pc], more, l) THEN 1 ELSE 0,
                 entries + IF CasSpins(s[pc], more, l) /\ ~s[pc].waiting THEN 1 ELSE 0, more, now)
<1> DEFINE n == Len(h)
<1> DEFINE e == [pc |-> pc, addr |-> l, insns |-> more, ts |-> now]
<1> DEFINE spinning == CasSpins(s[pc], more, l)
<1> DEFINE p == LastAt(h, n + 1, pc)
<1>1. h \in Seq(CasEvent) /\ e \in CasEvent /\ t = Append(h, e)
      /\ e.pc = pc /\ e.addr = l /\ e.insns = more /\ e.ts = now
  BY DEF SpinsOf, CasEvent
<1> HIDE DEF e
<1>2. /\ n \in Nat /\ Len(t) = n + 1 /\ t[n + 1] = e /\ t \in Seq(CasEvent)
      /\ DOMAIN h = 1..n /\ DOMAIN t = 1..(n + 1) /\ \A i \in 1..n : t[i] = h[i] /\ h[i] \in CasEvent
  BY <1>1, Appended
<1>3. Knows(h, s[pc], p) /\ \A i \in DOMAIN h : h[i].insns <= count /\ h[i].ts <= now
  BY DEF SpinsOf
<1>4. /\ spinning <=> Spins(t, n + 1)
      /\ spinning => (s[pc].waiting <=> Spins(t, Prior(t, n + 1)))
  <2>1. \A i \in DOMAIN h : h[i].insns <= count
    BY <1>3
  <2> DEFINE old == s[pc]
  <2>2. Knows(h, old, LastAt(h, Len(h) + 1, e.pc)) /\ count <= e.insns
    BY <1>1, <1>3
  <2> HIDE DEF old
  <2>3. /\ CasSpins(old, e.insns, e.addr) <=> Spins(t, Len(h) + 1)
        /\ CasSpins(old, e.insns, e.addr) => (old.waiting <=> Spins(t, Prior(t, Len(h) + 1)))
    BY <1>1, <2>1, <2>2, CasSpinsIs
  <2> QED BY <1>1, <2>3 DEF old
<1>5. Times \subseteq Nat
  BY RecorderAssumption DEF Times
<1>6. p \in 0..n
  <2>1. n + 1 \in Nat \ {0} /\ (n + 1) - 1 = n
    BY <1>2
  <2> QED BY <2>1, LastAtFacts
<1>7. /\ \A q : LastAt(t, n + 2, q) = IF q = pc THEN n + 1 ELSE LastAt(h, n + 1, q)
      /\ \A i \in 1..n : Spins(t, i) <=> Spins(h, i)
  <2>1. \A q : LastAt(t, n + 2, q) = IF q = e.pc THEN n + 1 ELSE LastAt(h, n + 1, q)
    BY <1>1, CasAppend
  <2>2. \A i \in 1..n : Spins(t, i) <=> Spins(h, i)
    BY <1>1, CasAppend
  <2> QED BY <1>1, <2>1, <2>2
<1> HIDE DEF n, p, spinning
<1>8. spinning \in BOOLEAN /\ (spinning => now > 0 /\ s[pc].ts > 0)
      /\ (s[pc].ts > 0 \/ (~spinning /\ ~s[pc].waiting))
  <2>1. spinning \in BOOLEAN /\ (spinning => s[pc].ts > 0)
    BY DEF spinning, CasSpins
  <2>2. s[pc].waiting => s[pc].ts > 0
    BY <1>3 DEF Knows
  <2>3. s[pc].ts > 0 => now > 0
    <3>1. CASE p = 0
      BY <1>3, <3>1 DEF Knows
    <3>2. CASE p # 0
      <4>1. p \in 1..n
        BY <1>2, <1>6, <3>2
      <4>2. s[pc].ts = h[p].ts /\ h[p].ts <= now /\ h[p].ts \in Times
        BY <1>2, <1>3, <3>2, <4>1 DEF Knows, CasEvent
      <4> QED BY <1>5, <4>2
    <3> QED BY <3>1, <3>2
  <2> QED BY <2>1, <2>2, <2>3
<1>9. r.waiting \in BOOLEAN /\ (r.waiting <=> spinning) /\ r.ts = now /\ r.insns = more /\ r.addr = l
  <2>1. r.waiting = Waiting(s[pc], spinning) /\ r.ts = now /\ r.insns = more /\ r.addr = l
    BY DEF spinning
  <2>2. s[pc].waiting \in BOOLEAN
    BY <1>3 DEF Knows
  <2>3. CASE s[pc].ts > 0
    <3>1. Waiting(s[pc], spinning) = spinning
      BY <2>3 DEF Waiting
    <3> QED BY <1>8, <2>1, <3>1
  <2>4. CASE ~(s[pc].ts > 0)
    <3>1. Waiting(s[pc], spinning) = s[pc].waiting
      BY <2>4 DEF Waiting
    <3>2. ~spinning /\ ~s[pc].waiting
      BY <1>8, <2>4
    <3> QED BY <2>1, <2>2, <3>1, <3>2
  <2> QED BY <2>3, <2>4
<1>10. \A i \in DOMAIN t : t[i].insns <= more /\ t[i].ts <= now
  <2> SUFFICES ASSUME NEW i \in 1..(n + 1) PROVE t[i].insns <= more /\ t[i].ts <= now
    BY <1>2
  <2>1. CASE i = n + 1
    BY <1>1, <1>2, <1>5, <2>1
  <2>2. CASE i # n + 1
    <3>1. i \in 1..n
      BY <1>2, <2>2
    <3>2. t[i].insns = h[i].insns /\ h[i].insns \in Nat /\ h[i].insns <= count /\ t[i].ts = h[i].ts
          /\ h[i].ts <= now
      BY <1>2, <1>3, <3>1 DEF CasEvent
    <3>3. h[i].insns <= more
      BY <3>2
    <3> QED BY <3>2, <3>3
  <2> QED BY <2>1, <2>2
<1>11. ASSUME NEW q \in Pc PROVE Knows(t, u[q], LastAt(t, Len(t) + 1, q))
  <2>1. Len(t) + 1 = n + 2
    BY <1>2
  <2>2. CASE q = pc
    <3>1. u[q] = r /\ LastAt(t, Len(t) + 1, q) = n + 1 /\ n + 1 # 0
      BY <1>2, <1>7, <2>1, <2>2
    <3> HIDE DEF n
    <3>2. /\ r.ts = t[n + 1].ts /\ r.insns = t[n + 1].insns /\ r.addr = t[n + 1].addr
          /\ r.waiting <=> Spins(t, n + 1)
          /\ r.waiting \in BOOLEAN /\ (r.waiting => r.ts > 0)
      BY <1>1, <1>2, <1>4, <1>8, <1>9 DEF n
    <3> QED BY <3>1, <3>2 DEF Knows
  <2>3. CASE q # pc
    <3> DEFINE o == LastAt(h, n + 1, q)
    <3>1. u[q] = s[q] /\ LastAt(t, Len(t) + 1, q) = o
      BY <1>7, <2>1, <2>3
    <3>2. Knows(h, s[q], o)
      BY DEF SpinsOf, n
    <3>3. o \in 0..n
      <4>1. n + 1 \in Nat \ {0} /\ (n + 1) - 1 = n
        BY <1>2
      <4> QED BY <4>1, LastAtFacts
    <3> HIDE DEF o
    <3>4. o # 0 => t[o] = h[o] /\ (Spins(t, o) <=> Spins(h, o))
      BY <1>2, <1>7, <3>3
    <3> QED BY <3>1, <3>2, <3>4 DEF Knows
  <2> QED BY <2>2, <2>3
<1>12. /\ Cardinality(Spinning(h)) \in Nat /\ Cardinality(Entering(h)) \in Nat
       /\ Cardinality(Spinning(t)) = Cardinality(Spinning(h)) + IF Spins(t, n + 1) THEN 1 ELSE 0
       /\ Cardinality(Entering(t))
            = Cardinality(Entering(h))
              + IF Spins(t, n + 1) /\ ~Spins(t, Prior(t, n + 1)) THEN 1 ELSE 0
  BY <1>1, SpinningAppend DEF n
<1>13. busy = Cardinality(Spinning(h)) /\ entries = Cardinality(Entering(h))
  BY DEF SpinsOf
<1>14. /\ busy + (IF spinning THEN 1 ELSE 0) = Cardinality(Spinning(t))
       /\ entries + (IF spinning /\ ~s[pc].waiting THEN 1 ELSE 0) = Cardinality(Entering(t))
  <2>1. CASE ~spinning
    BY <1>4, <1>12, <1>13, <2>1
  <2>2. CASE spinning /\ s[pc].waiting
    BY <1>4, <1>12, <1>13, <2>2
  <2>3. CASE spinning /\ ~s[pc].waiting
    BY <1>4, <1>12, <1>13, <2>3
  <2> QED BY <2>1, <2>2, <2>3
<1> QED BY <1>2, <1>10, <1>11, <1>14 DEF SpinsOf, spinning

(* ---- spinning on WFE --------------------------------------------------- *)
WfeEvent == [insns : Nat, ts : Times]
Dozing(h) == {i \in DOMAIN h : Dozes(h, i)}
(* What is recorded of a core's WFEs: the last one, and how many spun.      *)
DozesOf(h, s, count, now) ==
  /\ h \in Seq(WfeEvent)
  /\ \A i \in DOMAIN h : h[i].insns <= count /\ h[i].ts <= now
  /\ IF Len(h) = 0 THEN s.ts = 0 ELSE s.ts = h[Len(h)].ts /\ s.insns = h[Len(h)].insns
  /\ s.busy = Cardinality(Dozing(h))

(* Time passing and instructions executed change nothing of it.             *)
LEMMA DozesLater ==
  ASSUME NEW h, NEW s, NEW count \in Nat, NEW now \in Times, DozesOf(h, s, count, now),
         NEW more \in Nat, count <= more, NEW later \in Times, now <= later
  PROVE  DozesOf(h, s, more, later)
<1>1. h \in Seq(WfeEvent) /\ \A i \in DOMAIN h : h[i] \in WfeEvent
  BY DEF DozesOf
<1>2. Times \subseteq Nat
  BY RecorderAssumption DEF Times
<1>3. ASSUME NEW i \in DOMAIN h PROVE h[i].insns <= more /\ h[i].ts <= later
  <2>1. h[i].insns \in Nat /\ h[i].ts \in Nat
    BY <1>1, <1>2 DEF WfeEvent
  <2>2. h[i].insns <= count /\ h[i].ts <= now
    BY DEF DozesOf
  <2> QED BY <1>2, <2>1, <2>2
<1> QED BY <1>3 DEF DozesOf

(* A WFE keeps it.                                                          *)
LEMMA DozesWfe ==
  ASSUME NEW h, NEW s, NEW count \in Nat, NEW now \in Times, DozesOf(h, s, count, now),
         NEW more \in Nat, count <= more,
         NEW t, t = Append(h, [insns |-> more, ts |-> now]), NEW u,
         u.ts = now, u.insns = more, u.busy = s.busy + IF WfeSpins(s, more, now) THEN 1 ELSE 0
  PROVE  DozesOf(t, u, more, now)
<1> DEFINE n == Len(h)
<1> DEFINE e == [insns |-> more, ts |-> now]
<1>1. h \in Seq(WfeEvent) /\ e \in WfeEvent /\ t = Append(h, e) /\ e.insns = more /\ e.ts = now
  BY DEF DozesOf, WfeEvent
<1> HIDE DEF e
<1>2. /\ n \in Nat /\ Len(t) = n + 1 /\ t[n + 1] = e /\ t \in Seq(WfeEvent)
      /\ DOMAIN h = 1..n /\ DOMAIN t = 1..(n + 1) /\ \A i \in 1..n : t[i] = h[i] /\ h[i] \in WfeEvent
  BY <1>1, Appended
<1>3. /\ \A i \in 1..n : h[i].insns <= count /\ h[i].ts <= now
      /\ IF n = 0 THEN s.ts = 0 ELSE s.ts = h[n].ts /\ s.insns = h[n].insns
      /\ s.busy = Cardinality(Dozing(h))
  BY <1>2 DEF DozesOf
<1> HIDE DEF n
<1>4. Times \subseteq Nat
  BY RecorderAssumption DEF Times
<1>5. \A i \in 1..n : Dozes(t, i) <=> Dozes(h, i)
  <2> SUFFICES ASSUME NEW i \in 1..n PROVE Dozes(t, i) <=> Dozes(h, i)
    OBVIOUS
  <2>1. t[i] = h[i] /\ (i > 1 => t[i - 1] = h[i - 1])
    BY <1>2
  <2> QED BY <2>1 DEF Dozes
<1>6. WfeSpins(s, more, now) <=> Dozes(t, n + 1)
  <2>1. CASE n = 0
    <3>1. ~(n + 1 > 1)
      BY <2>1
    <3> QED BY <1>3, <2>1, <3>1 DEF WfeSpins, Dozes
  <2>2. CASE n # 0
    <3>1. n \in 1..n /\ n + 1 > 1 /\ (n + 1) - 1 = n
      BY <1>2, <2>2
    <3>2. /\ t[(n + 1) - 1] = h[n] /\ h[n].insns \in Nat /\ h[n].ts \in Nat
          /\ h[n].insns <= count /\ h[n].ts <= now /\ s.ts = h[n].ts /\ s.insns = h[n].insns
      BY <1>2, <1>3, <1>4, <2>2, <3>1 DEF WfeEvent
    <3>3. Dozes(t, n + 1) <=> now = h[n].ts /\ now > 0 /\ more - h[n].insns < SpinInsns
      BY <1>1, <1>2, <3>1, <3>2 DEF Dozes
    <3>4. Since(more, s.insns) = more - h[n].insns
      BY <3>2 DEF Since
    <3>5. Since(now, s.ts) = 0 <=> now = h[n].ts
      BY <1>4, <3>2 DEF Since
    <3> QED BY <3>2, <3>3, <3>4, <3>5 DEF WfeSpins, Near
  <2> QED BY <2>1, <2>2
<1> DEFINE D == Dozing(h)
<1>7. D \in SUBSET (1..n)
  BY <1>2 DEF Dozing
<1>8. /\ Dozes(t, n + 1) => Dozing(t) = D \union {n + 1}
      /\ ~Dozes(t, n + 1) => Dozing(t) = D
  BY <1>2, <1>5 DEF Dozing
<1>9. s.busy = Cardinality(D)
  BY <1>3
<1> HIDE DEF D
<1>10. Cardinality(D) \in Nat /\ Cardinality(D \union {n + 1}) = Cardinality(D) + 1
  BY <1>2, <1>7, CountOne
<1>11. u.busy = Cardinality(Dozing(t))
  <2>1. CASE Dozes(t, n + 1)
    BY <1>6, <1>8, <1>9, <1>10, <2>1
  <2>2. CASE ~Dozes(t, n + 1)
    BY <1>6, <1>8, <1>9, <1>10, <2>2
  <2> QED BY <2>1, <2>2
<1>12. \A i \in DOMAIN t : t[i].insns <= more /\ t[i].ts <= now
  <2> SUFFICES ASSUME NEW i \in 1..(n + 1) PROVE t[i].insns <= more /\ t[i].ts <= now
    BY <1>2
  <2>1. CASE i = n + 1
    BY <1>1, <1>2, <1>4, <2>1
  <2>2. CASE i # n + 1
    <3>1. i \in 1..n
      BY <1>2, <2>2
    <3>2. t[i].insns = h[i].insns /\ h[i].insns \in Nat /\ h[i].insns <= count /\ t[i].ts = h[i].ts
          /\ h[i].ts <= now
      BY <1>2, <1>3, <3>1 DEF WfeEvent
    <3>3. h[i].insns <= more
      BY <3>2
    <3> QED BY <3>2, <3>3
  <2> QED BY <2>1, <2>2
<1>13. Len(t) # 0 /\ u.ts = t[Len(t)].ts /\ u.insns = t[Len(t)].insns
  BY <1>1, <1>2
<1> QED BY <1>2, <1>11, <1>12, <1>13 DEF DozesOf

(* ---- the invariant of a core's spins and idle times -------------------- *)
CoreFaithful(h, s, n, w, first, counts, count, now) ==
  /\ SpinsOf(h.cas, s, n.busy, n.entries, count, now)
  /\ DozesOf(h.wfe, w, count, now)
  /\ IdleOf(h.idle, first, counts, now)
CoresFaithful ==
  \A c \in Core :
    CoreFaithful(coreLog[c], cas[c], spins[c], wfe[c], wfi[c], idle[c], insns[c], generation)

(* No core has done anything yet.                                           *)
LEMMA CoresInit == Init => CoresFaithful
<1> SUFFICES ASSUME Init, NEW c \in Core
             PROVE  CoreFaithful(coreLog[c], cas[c], spins[c], wfe[c], wfi[c], idle[c], insns[c],
                                 generation)
  BY DEF CoresFaithful
<1> DEFINE none == <<>>
<1>1. /\ generation = 0 /\ coreLog[c] = [cas |-> none, wfe |-> none, idle |-> none]
      /\ cas[c] = [pc \in Pc |-> NewPc]
      /\ spins[c] = [total |-> 0, compared |-> 0, busy |-> 0, entries |-> 0]
      /\ wfe[c] = [ts |-> 0, insns |-> 0, total |-> 0, busy |-> 0] /\ wfi[c] = 0
      /\ idle[c] = [t \in Times |-> 0] /\ insns[c] = 0
  BY DEF Init
<1>2. /\ none \in Seq(CasEvent) /\ none \in Seq(WfeEvent) /\ none \in Seq(IdleEvent)
      /\ Len(none) = 0 /\ DOMAIN none = {}
  OBVIOUS
<1> HIDE DEF none
<1>3. Cardinality({}) = 0
  BY FS_EmptySet
<1>4. SpinsOf(none, cas[c], 0, 0, 0, 0)
  <2>1. Spinning(none) = {} /\ Entering(none) = {}
    BY <1>2 DEF Spinning, Entering
  <2>2. ASSUME NEW pc \in Pc PROVE Knows(none, cas[c][pc], LastAt(none, 1, pc))
    <3>1. LastAt(none, 1, pc) = 0
      <4>1. 1 \in Nat \ {0} /\ 1 - 1 = 0 /\ 0..0 = {0}
        OBVIOUS
      <4>2. LastAt(none, 1, pc) \in 0..1 - 1
        BY <4>1, LastAtFacts
      <4> QED BY <4>1, <4>2
    <3>2. cas[c][pc].ts = 0 /\ cas[c][pc].waiting = FALSE
      BY <1>1 DEF NewPc
    <3> QED BY <3>1, <3>2 DEF Knows
  <2> QED BY <1>2, <1>3, <2>1, <2>2 DEF SpinsOf
<1>5. DozesOf(none, wfe[c], 0, 0)
  <2>1. Dozing(none) = {}
    BY <1>2 DEF Dozing
  <2> QED BY <1>1, <1>2, <1>3, <2>1 DEF DozesOf
<1>6. IdleOf(none, 0, idle[c], 0)
  <2>1. \A x : EndsAfter(none, x) = {}
    BY <1>2 DEF EndsAfter
  <2>2. Start(none, 1) = 1
    <3>1. 1 \in Nat \ {0} /\ 1..1 = {1}
      OBVIOUS
    <3>2. Start(none, 1) \in 1..1
      BY <3>1, StartFacts
    <3> QED BY <3>1, <3>2
  <2>3. idle[c] \in [Times -> Nat] /\ \A x \in Times : idle[c][x] = Cardinality(EndsAfter(none, x))
    BY <1>1, <1>3, <2>1
  <2>4. Start(none, Len(none) + 1) = Len(none) + 1
    BY <1>2, <2>2
  <2> QED BY <1>2, <2>3, <2>4 DEF IdleOf
<1> QED BY <1>1, <1>4, <1>5, <1>6 DEF CoreFaithful

(* A step of one core leaves the others as they are.                        *)
LEMMA CoresLocal ==
  ASSUME CoresFaithful, NEW c \in Core, generation' = generation,
         \A d \in Core \ {c} :
           /\ coreLog'[d] = coreLog[d] /\ cas'[d] = cas[d] /\ spins'[d] = spins[d]
           /\ wfe'[d] = wfe[d] /\ wfi'[d] = wfi[d] /\ idle'[d] = idle[d] /\ insns'[d] = insns[d],
         CoreFaithful(coreLog'[c], cas'[c], spins'[c], wfe'[c], wfi'[c], idle'[c], insns'[c],
                      generation)
  PROVE  CoresFaithful'
<1>1. ASSUME NEW d \in Core
      PROVE  CoreFaithful(coreLog'[d], cas'[d], spins'[d], wfe'[d], wfi'[d], idle'[d], insns'[d],
                          generation')
  <2>1. CASE d = c
    BY <2>1
  <2>2. CASE d # c
    <3>1. CoreFaithful(coreLog[d], cas[d], spins[d], wfe[d], wfi[d], idle[d], insns[d], generation)
      BY DEF CoresFaithful
    <3> QED BY <2>2, <3>1
  <2> QED BY <2>1, <2>2
<1> QED BY <1>1 DEF CoresFaithful

(* A quantum passes on every core.                                          *)
LEMMA CoresAdvance ==
  ASSUME Types, CoresFaithful, Advance, generation' \in Times
  PROVE  CoresFaithful'
<1>1. /\ generation \in Times /\ generation <= generation'
      /\ UNCHANGED <<coreLog, cas, spins, wfe, wfi, idle, insns>>
  <2>1. generation \in Nat
    BY RecorderAssumption DEF Types, CallbackTypes, Times
  <2> QED BY <2>1 DEF Types, CallbackTypes, Advance, coreVars
<1>2. ASSUME NEW c \in Core
      PROVE  CoreFaithful(coreLog[c], cas[c], spins[c], wfe[c], wfi[c], idle[c], insns[c], generation')
  <2>1. CoreFaithful(coreLog[c], cas[c], spins[c], wfe[c], wfi[c], idle[c], insns[c], generation)
    BY DEF CoresFaithful
  <2>2. insns[c] \in Nat /\ insns[c] <= insns[c]
    BY DEF Types, CoreTypes
  <2>3. SpinsOf(coreLog[c].cas, cas[c], spins[c].busy, spins[c].entries, insns[c], generation')
    BY <1>1, <2>1, <2>2, SpinsLater DEF CoreFaithful
  <2>4. DozesOf(coreLog[c].wfe, wfe[c], insns[c], generation')
    BY <1>1, <2>1, <2>2, DozesLater DEF CoreFaithful
  <2>5. IdleOf(coreLog[c].idle, wfi[c], idle[c], generation')
    BY <1>1, <2>1, IdleLater DEF CoreFaithful
  <2> QED BY <2>3, <2>4, <2>5 DEF CoreFaithful
<1> QED BY <1>1, <1>2 DEF CoresFaithful

(* The counts a core compares are numbers, and its instruction count only   *)
(* grows.                                                                   *)
LEMMA CoreRuns ==
  ASSUME Types, NEW c \in Core, NEW d \in {1, SpinInsns}
  PROVE  /\ generation \in Times /\ generation <= generation
         /\ insns[c] \in Nat /\ insns[c] + d \in Nat /\ insns[c] <= insns[c] + d
<1>1. d \in Nat
  BY RecorderAssumption
<1>2. generation \in Times /\ insns[c] \in Nat
  BY DEF Types, CallbackTypes, CoreTypes
<1>3. generation \in Nat
  BY <1>2, RecorderAssumption DEF Times
<1> QED BY <1>1, <1>2, <1>3

(* record_cas, on a core whose spins are measured so far.                   *)
LEMMA CoresCompareAndSwap ==
  ASSUME Types, CoresFaithful, NEW c \in Core, NEW pc \in Pc, NEW l \in Line,
         NEW d \in {1, SpinInsns}, CompareAndSwap(c, pc, l, d)
  PROVE  CoresFaithful'
<1> DEFINE more == insns[c] + d
<1> DEFINE s == cas[c]
<1> DEFINE spinning == CasSpins(s[pc], more, l)
<1> DEFINE r == [insns |-> more, ts |-> generation, addr |-> l, waiting |-> Waiting(s[pc], spinning)]
<1> DEFINE u == [s EXCEPT ![pc] = r]
<1> DEFINE h == coreLog[c].cas
<1> DEFINE t == Append(h, [pc |-> pc, addr |-> l, insns |-> more, ts |-> generation])
<1> DEFINE busy == spins[c].busy + IF spinning THEN 1 ELSE 0
<1> DEFINE entries == spins[c].entries + IF spinning /\ ~s[pc].waiting THEN 1 ELSE 0
<1>1. /\ generation \in Times /\ insns[c] \in Nat /\ more \in Nat /\ insns[c] <= more
      /\ s \in [Pc -> {NewPc} \union PcState] /\ generation <= generation
  BY CoreRuns DEF Types, CoreTypes
<1>2. CoreFaithful(coreLog[c], s, spins[c], wfe[c], wfi[c], idle[c], insns[c], generation)
  BY DEF CoresFaithful
<1>3. /\ insns' = [insns EXCEPT ![c] = more]
      /\ spins' = [spins EXCEPT ![c] =
                     [total |-> spins[c].total + 1,
                      compared |-> spins[c].compared + IF s[pc].ts > 0 THEN 1 ELSE 0,
                      busy |-> busy, entries |-> entries]]
      /\ cas' = [cas EXCEPT ![c][pc] = r]
      /\ coreLog' = [coreLog EXCEPT ![c].cas =
                       Append(@, [pc |-> pc, addr |-> l, insns |-> more, ts |-> generation])]
  BY CompareAndSwapDoes
<1>4. UNCHANGED <<generation, wfi, idle, wfe>>
  BY DEF CompareAndSwap
<1>5. SpinsOf(h, s, spins[c].busy, spins[c].entries, insns[c], generation)
  BY <1>2 DEF CoreFaithful
<1>6. SpinsOf(t, u, busy, entries, more, generation)
  <2> DEFINE b == spins[c].busy
  <2> DEFINE n == spins[c].entries
  <2> HIDE DEF more, s, r, h, b, n
  <2> QED BY <1>1, <1>5, SpinsCas DEF r, b, n
<1>7. /\ coreLog[c] \in Recorded /\ coreLog \in [Core -> Recorded] /\ insns \in [Core -> Nat]
      /\ cas \in [Core -> [Pc -> {NewPc} \union PcState]] /\ DOMAIN spins = Core
  BY DEF Types, CoreTypes
<1>8. DozesOf(coreLog[c].wfe, wfe[c], more, generation)
  BY <1>1, <1>2, DozesLater DEF CoreFaithful
<1> HIDE DEF more, r, busy, entries
<1>9. /\ coreLog'[c].cas = t /\ coreLog'[c].wfe = coreLog[c].wfe /\ coreLog'[c].idle = coreLog[c].idle
      /\ cas'[c] = u /\ spins'[c].busy = busy /\ spins'[c].entries = entries /\ insns'[c] = more
  BY <1>3, <1>7 DEF Recorded
<1>10. \A e \in Core \ {c} :
           /\ coreLog'[e] = coreLog[e] /\ cas'[e] = cas[e] /\ spins'[e] = spins[e]
           /\ insns'[e] = insns[e]
  BY <1>3, <1>7
<1>11. CoreFaithful(coreLog'[c], cas'[c], spins'[c], wfe'[c], wfi'[c], idle'[c], insns'[c], generation)
  <2>1. IdleOf(coreLog[c].idle, wfi[c], idle[c], generation)
    BY <1>2 DEF CoreFaithful
  <2> HIDE DEF t, u
  <2> QED BY <1>4, <1>6, <1>8, <1>9, <2>1 DEF CoreFaithful
<1> QED BY <1>4, <1>10, <1>11, CoresLocal

(* record_wfe, on a core whose spins are measured so far.                   *)
LEMMA CoresWfe ==
  ASSUME Types, CoresFaithful, NEW c \in Core, NEW d \in {1, SpinInsns}, Wfe(c, d)
  PROVE  CoresFaithful'
<1> DEFINE more == insns[c] + d
<1> DEFINE s == wfe[c]
<1> DEFINE busy == s.busy + IF WfeSpins(s, more, generation) THEN 1 ELSE 0
<1> DEFINE u == [ts |-> generation, insns |-> more, total |-> s.total + 1, busy |-> busy]
<1> DEFINE h == coreLog[c].wfe
<1> DEFINE t == Append(h, [insns |-> more, ts |-> generation])
<1>1. /\ generation \in Times /\ insns[c] \in Nat /\ more \in Nat /\ insns[c] <= more
      /\ generation <= generation
  BY CoreRuns
<1>2. CoreFaithful(coreLog[c], cas[c], spins[c], s, wfi[c], idle[c], insns[c], generation)
  BY DEF CoresFaithful
<1>3. /\ insns' = [insns EXCEPT ![c] = more]
      /\ wfe' = [wfe EXCEPT ![c] = u]
      /\ coreLog' = [coreLog EXCEPT ![c].wfe = Append(@, [insns |-> more, ts |-> generation])]
  BY WfeDoes
<1>4. UNCHANGED <<generation, wfi, idle, cas, spins>>
  BY DEF Wfe
<1>5. DozesOf(h, s, insns[c], generation)
  BY <1>2 DEF CoreFaithful
<1>6. DozesOf(t, u, more, generation)
  <2>1. u.ts = generation /\ u.insns = more
        /\ u.busy = s.busy + IF WfeSpins(s, more, generation) THEN 1 ELSE 0
    OBVIOUS
  <2> HIDE DEF more, s, u, h
  <2> QED BY <1>1, <1>5, <2>1, DozesWfe
<1>7. /\ coreLog[c] \in Recorded /\ coreLog \in [Core -> Recorded] /\ DOMAIN insns = Core
      /\ DOMAIN wfe = Core
  BY DEF Types, CoreTypes
<1>8. SpinsOf(coreLog[c].cas, cas[c], spins[c].busy, spins[c].entries, more, generation)
  BY <1>1, <1>2, SpinsLater DEF CoreFaithful
<1> HIDE DEF more, u
<1>9. /\ coreLog'[c].wfe = t /\ coreLog'[c].cas = coreLog[c].cas /\ coreLog'[c].idle = coreLog[c].idle
      /\ wfe'[c] = u /\ insns'[c] = more
  BY <1>3, <1>7 DEF Recorded
<1>10. \A e \in Core \ {c} : coreLog'[e] = coreLog[e] /\ wfe'[e] = wfe[e] /\ insns'[e] = insns[e]
  BY <1>3, <1>7
<1>11. CoreFaithful(coreLog'[c], cas'[c], spins'[c], wfe'[c], wfi'[c], idle'[c], insns'[c], generation)
  <2>1. IdleOf(coreLog[c].idle, wfi[c], idle[c], generation)
    BY <1>2 DEF CoreFaithful
  <2> HIDE DEF t
  <2> QED BY <1>4, <1>6, <1>8, <1>9, <2>1 DEF CoreFaithful
<1> QED BY <1>4, <1>10, <1>11, CoresLocal

(* record_wfi and record_interrupt.                                         *)
LEMMA CoresIdle ==
  ASSUME Types, CoresFaithful, NEW c \in Core, Wfi(c) \/ Interrupt(c)
  PROVE  CoresFaithful'
<1> DEFINE h == coreLog[c].idle
<1> DEFINE now == generation
<1> DEFINE w == wfi[c]
<1>1. now \in Times /\ w \in Times
  BY DEF Types, CallbackTypes, CoreTypes
<1>2. CoreFaithful(coreLog[c], cas[c], spins[c], wfe[c], wfi[c], idle[c], insns[c], generation)
  BY DEF CoresFaithful
<1>3. IdleOf(h, w, idle[c], now)
  BY <1>2 DEF CoreFaithful
<1>4. /\ coreLog[c] \in Recorded /\ coreLog \in [Core -> Recorded]
      /\ DOMAIN wfi = Core /\ idle \in [Core -> [Times -> Nat]]
  BY DEF Types, CoreTypes
<1>5. UNCHANGED <<generation, insns, wfe, cas, spins>>
  BY DEF Wfi, Interrupt
<1>6. ASSUME NEW op, NEW first, NEW counts,
             coreLog' = [coreLog EXCEPT ![c].idle = Append(@, [op |-> op, ts |-> generation])],
             wfi' = [wfi EXCEPT ![c] = first], idle' = [idle EXCEPT ![c] = counts],
             IdleOf(Append(h, [op |-> op, ts |-> now]), first, counts, now)
      PROVE  CoresFaithful'
  <2>1. /\ coreLog'[c].idle = Append(h, [op |-> op, ts |-> now])
        /\ coreLog'[c].cas = coreLog[c].cas /\ coreLog'[c].wfe = coreLog[c].wfe
        /\ wfi'[c] = first /\ idle'[c] = counts
    BY <1>4, <1>6 DEF Recorded
  <2>2. \A e \in Core \ {c} : coreLog'[e] = coreLog[e] /\ wfi'[e] = wfi[e] /\ idle'[e] = idle[e]
    BY <1>4, <1>6
  <2>3. CoreFaithful(coreLog'[c], cas'[c], spins'[c], wfe'[c], wfi'[c], idle'[c], insns'[c],
                     generation)
    BY <1>2, <1>5, <1>6, <2>1 DEF CoreFaithful
  <2> QED BY <1>5, <2>2, <2>3, CoresLocal
<1>7. CASE Wfi(c)
  <2>1. /\ coreLog' = [coreLog EXCEPT ![c].idle = Append(@, [op |-> "wfi", ts |-> generation])]
        /\ wfi' = [wfi EXCEPT ![c] = FirstWfi(w, now)] /\ idle' = [idle EXCEPT ![c] = idle[c]]
        /\ now # 0
    BY <1>4, <1>7 DEF Wfi
  <2>2. IdleOf(Append(h, [op |-> "wfi", ts |-> now]), FirstWfi(w, now), idle[c], now)
    <3> HIDE DEF h, now, w
    <3> QED BY <1>1, <1>3, <2>1, IdleWfi
  <2> QED BY <1>6, <2>1, <2>2
<1>8. CASE Interrupt(c)
  <2> DEFINE counts == IF w > 0 THEN Bump(idle[c], Since(now, w)) ELSE idle[c]
  <2>1. /\ coreLog' = [coreLog EXCEPT ![c].idle = Append(@, [op |-> "interrupt", ts |-> generation])]
        /\ wfi' = [wfi EXCEPT ![c] = 0]
        /\ idle' = IF wfi[c] > 0 THEN [idle EXCEPT ![c] = Bump(@, Since(generation, wfi[c]))] ELSE idle
    BY <1>8 DEF Interrupt
  <2>2. idle' = [idle EXCEPT ![c] = counts]
    BY <1>4, <2>1
  <2>3. IdleOf(Append(h, [op |-> "interrupt", ts |-> now]), 0, counts, now)
    <3> HIDE DEF h, now, w
    <3> QED BY <1>1, <1>3, IdleInterrupt
  <2> HIDE DEF counts
  <2> QED BY <1>6, <2>1, <2>2, <2>3
<1> QED BY <1>7, <1>8

(* The other steps leave the cores as they are.                             *)
LEMMA CoresStay ==
  ASSUME CoresFaithful, UNCHANGED <<generation, coreVars>>
  PROVE  CoresFaithful'
<1>1. UNCHANGED <<generation, coreLog, cas, spins, wfe, wfi, idle, insns>>
  BY DEF coreVars
<1> QED BY <1>1 DEF CoresFaithful

LEMMA CoresNext == Types /\ CoresFaithful /\ [Next]_vars => CoresFaithful'
<1> SUFFICES ASSUME Types, CoresFaithful, [Next]_vars PROVE CoresFaithful'
  OBVIOUS
<1>1. guest.lines \subseteq Line
  BY Guests DEF Types, CallbackTypes
<1>2. ASSUME Advance PROVE CoresFaithful'
  <2>1. Types'
    BY TypesNext
  <2>2. generation' \in Times
    BY <2>1 DEF Types, CallbackTypes
  <2> QED BY <1>2, <2>2, CoresAdvance
<1>3. ASSUME StartDump \/ Exit \/ Terminated \/ UNCHANGED vars PROVE CoresFaithful'
  <2>1. UNCHANGED <<generation, coreVars>>
    <3>1. CASE StartDump
      BY <3>1 DEF StartDump
    <3>2. CASE Exit
      BY <3>2 DEF Exit
    <3>3. CASE Terminated \/ UNCHANGED vars
      BY <3>3 DEF Terminated, vars
    <3> QED BY <1>3, <3>1, <3>2, <3>3
  <2> QED BY <2>1, CoresStay
<1>4. ASSUME NEW l \in Line, DumpShard(l) PROVE CoresFaithful'
  BY <1>4, CoresStay DEF DumpShard
<1>5. ASSUME NEW c \in Core, RecordWalk(c) \/ CountWalk(c) PROVE CoresFaithful'
  BY <1>5, CoresStay DEF RecordWalk, CountWalk
<1>6. ASSUME NEW c \in Core, CountAccess(c) \/ Record(c) \/ WfiTooEarly(c) PROVE CoresFaithful'
  BY <1>6, CoresStay DEF CountAccess, Record, WfiTooEarly
<1>7. ASSUME NEW c \in Core, NEW insn, NEW l, MemAccess(c, insn, l) PROVE CoresFaithful'
  BY <1>7, CoresStay DEF MemAccess
<1>8. ASSUME NEW c \in Core, NEW l, NEW walk, FetchInsn(c, l, walk) PROVE CoresFaithful'
  BY <1>8, CoresStay DEF FetchInsn
<1>9. ASSUME NEW c \in Core, NEW pc \in Pc, NEW l \in guest.lines, NEW d \in {1, SpinInsns},
             CompareAndSwap(c, pc, l, d)
      PROVE  CoresFaithful'
  BY <1>1, <1>9, CoresCompareAndSwap
<1>10. ASSUME NEW c \in Core, NEW d \in {1, SpinInsns}, Wfe(c, d) PROVE CoresFaithful'
  BY <1>10, CoresWfe
<1>11. ASSUME NEW c \in Core, Wfi(c) \/ Interrupt(c) PROVE CoresFaithful'
  BY <1>11, CoresIdle
<1>12. CASE \E c \in Core, l \in guest.lines :
               \/ \E insn \in Insns : MemAccess(c, insn, l)
               \/ \E walk \in Walks : FetchInsn(c, l, walk)
               \/ \E pc \in Pc, d \in {1, SpinInsns} : CompareAndSwap(c, pc, l, d)
  BY <1>7, <1>8, <1>9, <1>12
<1>13. CASE \E c \in Core :
               \/ RecordWalk(c) \/ CountWalk(c) \/ CountAccess(c) \/ Record(c)
               \/ Wfi(c) \/ WfiTooEarly(c) \/ Interrupt(c)
               \/ \E d \in {1, SpinInsns} : Wfe(c, d)
  BY <1>5, <1>6, <1>10, <1>11, <1>13
<1>14. CASE Advance \/ StartDump \/ Exit \/ Terminated \/ UNCHANGED vars
  BY <1>2, <1>3, <1>14
<1>15. CASE \E l \in Line : DumpShard(l)
  BY <1>4, <1>15
<1> QED BY <1>12, <1>13, <1>14, <1>15 DEF Next

(* The inductive invariant of the spins and idle times.                     *)
CoresInv == Types /\ CoresFaithful

LEMMA CoresAlways == Spec => []CoresInv
<1>1. Init => CoresInv
  BY TypesInit, CoresInit DEF CoresInv
<1>2. CoresInv /\ [Next]_vars => CoresInv'
  BY TypesNext, CoresNext DEF CoresInv
<1> QED BY <1>1, <1>2, PTL DEF Spec

(* record_cas and record_wfe: the busy count of a core is the number of its *)
(* CASes that follow one of the same pc on the same address within the      *)
(* threshold, it enters a loop once per run of those, and its WFE count is  *)
(* the number of WFEs as close to the one before and in the same quantum.   *)
THEOREM SpinsCorrect == Spec => []SpinFaithful
<1>1. CoresInv => SpinFaithful
  <2> SUFFICES ASSUME CoresInv PROVE SpinFaithful
    OBVIOUS
  <2>1. TypeOK
    BY TypesOK DEF CoresInv
  <2>2. ASSUME NEW c \in Core
        PROVE  /\ spins[c].busy = Cardinality(Spinning(coreLog[c].cas))
               /\ spins[c].entries = Cardinality(Entering(coreLog[c].cas))
               /\ wfe[c].busy = Cardinality(Dozing(coreLog[c].wfe))
    BY DEF CoresInv, CoresFaithful, CoreFaithful, SpinsOf, DozesOf
  <2> QED BY <2>1, <2>2 DEF SpinFaithful, Spinning, Entering, Dozing
<1> QED BY <1>1, CoresAlways, PTL

(* record_wfi and record_interrupt: the idle intervals of a core are those  *)
(* from the first WFI after an interrupt to the next interrupt, each        *)
(* recorded once.                                                           *)
THEOREM IdlesCorrect == Spec => []IdleFaithful
<1>1. CoresInv => IdleFaithful
  <2> SUFFICES ASSUME CoresInv, NEW c \in Core, NEW x \in Times,
                      NEW h, h = coreLog[c].idle
               PROVE  idle[c][x] =
                        Cardinality({i \in {i \in DOMAIN h : h[i].op = "interrupt" /\ Start(h, i) < i} :
                                         h[i].ts - h[Start(h, i)].ts = x})
    BY DEF IdleFaithful
  <2>1. idle[c][x] = Cardinality(EndsAfter(h, x))
    BY DEF CoresInv, CoresFaithful, CoreFaithful, IdleOf
  <2>2. EndsAfter(h, x) = {i \in {i \in DOMAIN h : h[i].op = "interrupt" /\ Start(h, i) < i} :
                             h[i].ts - h[Start(h, i)].ts = x}
    BY DEF EndsAfter
  <2> QED BY <2>1, <2>2
<1> QED BY <1>1, CoresAlways, PTL
=============================================================================
