------------------------ MODULE LRUSharedCacheProofs ------------------------
(* Proofs about LRUSharedCache for every number of sets and ways, every     *)
(* workload and every order of times.                                       *)
EXTENDS LRUSharedCache, FiniteSetTheorems, WellFoundedInduction, TLAPS

(* A set in order.  That an insertion never costs a block while a slot is   *)
(* free rests on three facts: a slot without a block is the only one with   *)
(* time zero, the slots beyond the fill pointer are free, and a block is in *)
(* one slot.                                                                *)
SetInv(s, n) ==
  /\ s \in [slot : [1..n -> Slot], touched : 0..n]
  /\ \A j \in 1..n : s.slot[j].block = NoBlock \/ s.slot[j].ts = 0 => s.slot[j] = Empty
  /\ \A j, k \in 1..n : s.slot[j].block = s.slot[k].block /\ j # k => s.slot[j].block = NoBlock
  /\ \A j \in 1..n : j > s.touched => s.slot[j] = Empty

Inv ==
  /\ guest \in Workloads
  /\ DOMAIN sets = Cache
  /\ \A c \in Cache : DOMAIN sets[c] = 0..Sets[c] - 1
  /\ \A c \in Cache : \A i \in 0..Sets[c] - 1 : SetInv(sets[c][i], Ways[c])
  /\ invalidating \subseteq [block : guest.blocks, ts : guest.times]

-----------------------------------------------------------------------------
(* The slots the operations search.                                         *)

(* A set of numbers that is not empty has a least member.                   *)
LEMMA LeastNatural ==
  ASSUME NEW T \in SUBSET Nat, T # {}
  PROVE  \E m \in T : \A k \in T : m <= k
<1>1. \E m \in T : \A k \in T : ~(<<k, m>> \in OpToRel(<, Nat))
  BY NatLessThanWellFounded, WFMin
<1>2. PICK m \in T : \A k \in T : ~(<<k, m>> \in OpToRel(<, Nat))
  BY <1>1
<1>3. ASSUME NEW k \in T PROVE m <= k
  <2>1. m \in Nat /\ k \in Nat
    OBVIOUS
  <2>2. ~(k < m)
    BY <1>2, <2>1 DEF OpToRel
  <2> QED BY <2>1, <2>2
<1> QED BY <1>3

(* The slot insert replaces has the smallest time, and the smallest number  *)
(* of those that do.                                                        *)
LEMMA OldestIsLeast ==
  ASSUME NEW n \in Nat \ {0}, NEW s, SetInv(s, n)
  PROVE  /\ Oldest(s) \in 1..n
         /\ \A j \in 1..n : \/ s.slot[Oldest(s)].ts < s.slot[j].ts
                            \/ s.slot[Oldest(s)].ts = s.slot[j].ts /\ Oldest(s) <= j
<1> DEFINE Ts == {s.slot[j].ts : j \in 1..n}
<1>1. s.slot \in [1..n -> Slot] /\ DOMAIN s.slot = 1..n
  BY DEF SetInv
<1>2. \A j \in 1..n : s.slot[j].ts \in Nat
  BY <1>1 DEF Slot
<1>3. PICK m \in Ts : \A k \in Ts : m <= k
  <2>1. Ts \in SUBSET Nat
    BY <1>2
  <2>2. s.slot[1].ts \in Ts
    OBVIOUS
  <2> HIDE DEF Ts
  <2> QED BY <2>1, <2>2, LeastNatural
<1> DEFINE Is == {j \in 1..n : s.slot[j].ts = m}
<1>4. PICK i \in Is : \A k \in Is : i <= k
  <2>1. Is \in SUBSET Nat /\ Is # {}
    BY <1>3
  <2> HIDE DEF Is
  <2> QED BY <2>1, LeastNatural
<1>5. i \in 1..n /\ s.slot[i].ts = m
  BY <1>4
<1>6. ASSUME NEW j \in 1..n
      PROVE  s.slot[i].ts < s.slot[j].ts \/ (s.slot[i].ts = s.slot[j].ts /\ i <= j)
  <2>1. m <= s.slot[j].ts /\ m \in Nat /\ s.slot[j].ts \in Nat
    BY <1>2, <1>3, <1>5
  <2>2. s.slot[j].ts = m => i <= j
    BY <1>4
  <2> QED BY <2>1, <2>2, <1>5
<1>7. \E k \in 1..n : \A j \in 1..n :
        s.slot[k].ts < s.slot[j].ts \/ (s.slot[k].ts = s.slot[j].ts /\ k <= j)
  BY <1>5, <1>6
<1> QED BY <1>1, <1>7 DEF Oldest

(* Max is the greatest member of a set of slot numbers.                     *)
LEMMA GreatestNatural ==
  ASSUME NEW n \in Nat, NEW T \in SUBSET (1..n), T # {}
  PROVE  Max(T) \in T /\ \A k \in T : k <= Max(T)
<1> DEFINE U == {n - k : k \in T}
<1> T \subseteq Nat
  OBVIOUS
<1>1. U \in SUBSET Nat /\ U # {}
  <2>1. \A k \in T : n - k \in Nat
    OBVIOUS
  <2> QED BY <2>1
<1>2. PICK m \in U : \A k \in U : m <= k
  <2> HIDE DEF U
  <2> QED BY <1>1, LeastNatural
<1>3. PICK g \in T : m = n - g
  BY <1>2
<1>4. \A k \in T : g >= k
  <2> SUFFICES ASSUME NEW k \in T PROVE g >= k
    OBVIOUS
  <2>1. n - g <= n - k
    BY <1>2, <1>3
  <2>2. g \in Nat /\ k \in Nat
    OBVIOUS
  <2> HIDE DEF U
  <2> QED BY <2>1, <2>2
<1>5. \A y \in T : Max(T) >= y
  BY <1>3, <1>4 DEF Max
<1>6. Max(T) \in T
  BY <1>3, <1>4 DEF Max
<1> QED BY <1>5, <1>6

(* The slot an insertion uses, by whichever of the two searches: it is free *)
(* or the set is full, and the slots before it are touched.                 *)
Usable(s, n, i) ==
  /\ i \in 1..n /\ i <= s.touched + 1
  /\ s.slot[i] = Empty \/ \A j \in 1..n : s.slot[j] # Empty

(* insert finds a usable slot by age, as a free slot is older than any used.*)
LEMMA OldestUsable ==
  ASSUME NEW n \in Nat \ {0}, NEW s, SetInv(s, n)
  PROVE  Usable(s, n, Oldest(s))
<1> DEFINE i == Oldest(s)
<1>1. /\ i \in 1..n
      /\ \A j \in 1..n : s.slot[i].ts < s.slot[j].ts \/ (s.slot[i].ts = s.slot[j].ts /\ i <= j)
  BY OldestIsLeast
<1>2. s.touched \in 0..n /\ \A j \in 1..n : s.slot[j].ts \in Nat
  BY DEF SetInv, Slot
<1> HIDE DEF i
<1>3. CASE s.slot[i].ts = 0
  <2>1. s.slot[i] = Empty
    BY <1>1, <1>3 DEF SetInv
  <2>2. i <= s.touched + 1
    <3>1. CASE s.touched = n
      BY <1>1, <3>1
    <3>2. CASE s.touched < n
      <4>1. s.touched + 1 \in 1..n
        BY <1>2, <3>2
      <4>2. s.slot[s.touched + 1] = Empty
        BY <1>2, <4>1 DEF SetInv
      <4>3. s.slot[s.touched + 1].ts = 0
        BY <4>2 DEF Empty
      <4> QED BY <1>1, <1>3, <4>1, <4>3
    <3> QED BY <1>2, <3>1, <3>2
  <2> QED BY <1>1, <2>1, <2>2 DEF Usable, i
<1>4. CASE s.slot[i].ts # 0
  <2>1. \A j \in 1..n : s.slot[j].ts # 0
    BY <1>1, <1>2, <1>4
  <2>2. \A j \in 1..n : s.slot[j] # Empty
    BY <2>1 DEF Empty
  <2>3. i <= s.touched + 1
    <3>1. CASE s.touched = n
      BY <1>1, <3>1
    <3>2. CASE s.touched < n
      <4>1. s.touched + 1 \in 1..n
        BY <1>2, <3>2
      <4>2. s.slot[s.touched + 1] = Empty
        BY <1>2, <4>1 DEF SetInv
      <4> QED BY <2>2, <4>1, <4>2
    <3> QED BY <1>2, <3>1, <3>2
  <2> QED BY <1>1, <2>2, <2>3 DEF Usable, i
<1> QED BY <1>3, <1>4

(* lookup_and_insert finds one by the fill pointer, or by time zero.        *)
LEMMA VictimUsable ==
  ASSUME NEW n \in Nat \ {0}, NEW s, SetInv(s, n)
  PROVE  Usable(s, n, Victim(s))
<1>1. s.touched \in 0..n /\ DOMAIN s.slot = 1..n /\ \A j \in 1..n : s.slot[j].ts \in Nat
  BY DEF SetInv, Slot
<1>2. Len(s.slot) = n
  BY <1>1 DEF SetInv
<1>3. CASE s.touched < n
  <2>1. Victim(s) = s.touched + 1
    BY <1>2, <1>3 DEF Victim
  <2>2. s.touched + 1 \in 1..n
    BY <1>1, <1>3
  <2>3. s.slot[s.touched + 1] = Empty
    BY <1>1, <2>2 DEF SetInv
  <2> QED BY <1>1, <2>1, <2>2, <2>3 DEF Usable
<1>4. CASE s.touched = n
  <2> DEFINE Free == {i \in DOMAIN s.slot : s.slot[i].ts = 0}
             T == {1} \union Free
  <2>1. Victim(s) = Max(T)
    BY <1>2, <1>4 DEF Victim
  <2>2. T \in SUBSET (1..n) /\ T # {}
    BY <1>1
  <2>3. Max(T) \in T /\ \A k \in T : k <= Max(T)
    <3> HIDE DEF T
    <3> QED BY <2>2, GreatestNatural
  <2>4. CASE Max(T) \in Free
    <3>1. Max(T) \in 1..n /\ s.slot[Max(T)].ts = 0
      BY <1>1, <2>4
    <3>2. s.slot[Max(T)] = Empty
      BY <3>1 DEF SetInv
    <3> HIDE DEF T
    <3> QED BY <1>1, <1>4, <2>1, <3>1, <3>2 DEF Usable
  <2>5. CASE Max(T) \notin Free
    <3>1. Max(T) = 1
      BY <2>3, <2>5
    <3>2. Free = {}
      <4>1. \A k \in Free : k <= 1 /\ k \in 1..n
        BY <1>1, <2>3, <3>1
      <4>2. \A k \in Free : k = 1
        BY <4>1
      <4> QED BY <2>5, <3>1, <4>2
    <3>3. \A j \in 1..n : s.slot[j].ts # 0
      BY <1>1, <3>2
    <3>4. \A j \in 1..n : s.slot[j] # Empty
      BY <3>3 DEF Empty
    <3> HIDE DEF T
    <3> QED BY <1>1, <1>4, <2>1, <3>1, <3>4 DEF Usable
  <2> QED BY <2>4, <2>5
<1> QED BY <1>1, <1>3, <1>4

(* A slot found for a block holds it, with a time.                          *)
LEMMA FoundSlot ==
  ASSUME NEW n \in Nat \ {0}, NEW s, SetInv(s, n), NEW b \in Block, NEW i \in IndexOf(s, b)
  PROVE  /\ i \in 1..n
         /\ s.slot[i] \in Slot /\ s.slot[i].block = b /\ s.slot[i].ts # 0 /\ b # NoBlock
         /\ \A j \in 1..n : j # i => s.slot[j].block # b
<1>1. s.slot \in [1..n -> Slot] /\ DOMAIN s.slot = 1..n
  BY DEF SetInv
<1>2. i \in 1..n /\ s.slot[i].block = b /\ b # NoBlock
  BY <1>1, CacheAssumption DEF IndexOf, NoBlock
<1>3. s.slot[i].ts # 0
  BY <1>2 DEF SetInv, Empty
<1>4. \A j \in 1..n : j # i => s.slot[j].block # b
  BY <1>2 DEF SetInv
<1> QED BY <1>1, <1>2, <1>3, <1>4

-----------------------------------------------------------------------------
(* What a call can do to the set of its block.                              *)

Left(s, b, t) ==
  \E i \in IndexOf(s, b) : t = Put(s, i, Empty, s.touched)
TookOver(s, b, ts, t) ==
  \E i \in IndexOf(s, b) : t = Put(s, i, ReadBlock(s.slot[i], ts), s.touched)
Merged(s, b, d, ts, t) ==
  \E i \in IndexOf(s, b) : t = Put(s, i, Refreshed(s.slot[i], d, ts), s.touched)
Entered(s, n, b, d, ts, t) ==
  /\ IndexOf(s, b) = {}
  /\ \E i \in 1..n :
       /\ Usable(s, n, i)
       /\ t = Put(s, i, [block |-> b, ts |-> ts, dirty |-> d], Touch(s))
Reported(s, b, r) == r.block = b /\ \A i \in IndexOf(s, b) : s.slot[i].dirty => r.dirty
Effect(s, n, b, d, ts, o) ==
  \/ o.set = s
  \/ Left(s, b, o.set) /\ Reported(s, b, o.reply)
  \/ TookOver(s, b, ts, o.set) /\ Reported(s, b, o.reply)
  \/ Merged(s, b, d, ts, o.set)
  \/ Entered(s, n, b, d, ts, o.set)

(* A hit that changes the set tells the caller whether the block was dirty. *)
LEMMA HitEffect ==
  ASSUME NEW n \in Nat \ {0}, NEW s, SetInv(s, n), NEW b \in Block, NEW d, NEW ts, NEW takes,
         NEW i \in IndexOf(s, b)
  PROVE  Effect(s, n, b, d, ts, HitIn(s, i, b, ts, takes))
<1> DEFINE o == HitIn(s, i, b, ts, takes)
<1>1. \A j \in IndexOf(s, b) : j = i
  BY FoundSlot
<1>2. CASE takes
  <2>1. o.set = Put(s, i, Empty, s.touched)
    BY <1>2 DEF HitIn, Outcome
  <2>2. o.reply = IF s.slot[i].ts > ts THEN Late("lookup_late", b, s.slot[i], ts)
                                       ELSE Hit(b, s.slot[i])
    BY <1>2 DEF HitIn, Outcome
  <2> HIDE DEF o
  <2>3. o.reply.block = b /\ (s.slot[i].dirty => o.reply.dirty)
    <3>1. s.slot[i] \in Slot /\ s.slot[i].dirty \in BOOLEAN
      BY FoundSlot DEF Slot
    <3>2. CASE s.slot[i].ts > ts
      <4>1. o.reply = Late("lookup_late", b, s.slot[i], ts)
        BY <2>2, <3>2
      <4>2. o.reply.dirty = s.slot[i].dirty
        BY <3>1, <4>1 DEF Late
      <4> QED BY <4>1, <4>2 DEF Late
    <3>3. CASE ~(s.slot[i].ts > ts)
      <4>1. o.reply = Hit(b, s.slot[i])
        BY <2>2, <3>3
      <4> QED BY <4>1 DEF Hit
    <3> QED BY <3>2, <3>3
  <2>4. Reported(s, b, o.reply)
    BY <1>1, <2>3 DEF Reported
  <2>5. Left(s, b, o.set)
    BY <2>1 DEF Left
  <2> QED BY <2>4, <2>5, Zenon DEF Effect, o
<1>3. CASE ~takes /\ s.slot[i].ts > ts
  <2>1. o.set = s
    BY <1>3 DEF HitIn, Outcome
  <2> QED BY <2>1 DEF Effect
<1>4. CASE ~takes /\ ~(s.slot[i].ts > ts)
  <2>1. o.set = Put(s, i, ReadBlock(s.slot[i], ts), s.touched)
    BY <1>4 DEF HitIn, Outcome
  <2>2. o.reply = Hit(b, s.slot[i])
    BY <1>4 DEF HitIn, Outcome
  <2> HIDE DEF o
  <2>3. Reported(s, b, o.reply)
    BY <1>1, <2>2 DEF Reported, Hit
  <2>4. TookOver(s, b, ts, o.set)
    BY <2>1 DEF TookOver
  <2> QED BY <2>3, <2>4, Zenon DEF Effect, o
<1> QED BY <1>2, <1>3, <1>4

(* lookup.                                                                  *)
LEMMA LookupEffect ==
  ASSUME NEW n \in Nat \ {0}, NEW s, SetInv(s, n), NEW b \in Block, NEW d, NEW ts
  PROVE  Effect(s, n, b, d, ts, Lookup(s, b, d, ts))
<1>1. CASE IndexOf(s, b) = {}
  <2>1. Lookup(s, b, d, ts).set = s
    BY <1>1 DEF Lookup, Outcome
  <2> QED BY <2>1 DEF Effect
<1>2. CASE IndexOf(s, b) # {}
  <2> DEFINE i == CHOOSE i \in IndexOf(s, b) : TRUE
  <2>1. i \in IndexOf(s, b)
    BY <1>2
  <2>2. Lookup(s, b, d, ts) = HitIn(s, i, b, ts, d \/ Exclusive)
    BY <1>2, Zenon DEF Lookup
  <2> HIDE DEF i
  <2>3. Effect(s, n, b, d, ts, HitIn(s, i, b, ts, d \/ Exclusive))
    BY <2>1, HitEffect, Zenon
  <2> QED BY <2>2, <2>3, Zenon
<1> QED BY <1>1, <1>2

(* invalidate.                                                              *)
LEMMA InvalidateEffect ==
  ASSUME NEW n \in Nat \ {0}, NEW s, SetInv(s, n), NEW b \in Block, NEW d, NEW ts
  PROVE  Effect(s, n, b, d, ts, Invalidate(s, b, ts))
<1>1. CASE IndexOf(s, b) = {}
  <2>1. Invalidate(s, b, ts).set = s
    BY <1>1 DEF Invalidate, Lookup, Outcome
  <2> QED BY <2>1 DEF Effect
<1>2. CASE IndexOf(s, b) # {}
  <2> DEFINE i == CHOOSE i \in IndexOf(s, b) : TRUE
  <2>1. i \in IndexOf(s, b)
    BY <1>2
  <2>2. Invalidate(s, b, ts) = HitIn(s, i, b, ts, TRUE \/ Exclusive)
    BY <1>2, Zenon DEF Invalidate, Lookup
  <2> HIDE DEF i
  <2>3. Effect(s, n, b, d, ts, HitIn(s, i, b, ts, TRUE \/ Exclusive))
    BY <2>1, HitEffect, Zenon
  <2> QED BY <2>2, <2>3, Zenon
<1> QED BY <1>1, <1>2

(* lookup_and_insert.                                                       *)
LEMMA LookupAndInsertEffect ==
  ASSUME NEW n \in Nat \ {0}, NEW s, SetInv(s, n), NEW b \in Block, NEW d, NEW ts
  PROVE  Effect(s, n, b, d, ts, LookupAndInsert(s, b, d, ts))
<1>1. CASE IndexOf(s, b) = {}
  <2> DEFINE t == Put(s, Victim(s), [block |-> b, ts |-> ts, dirty |-> d], Touch(s))
  <2>1. LookupAndInsert(s, b, d, ts).set = t
    BY <1>1 DEF LookupAndInsert, Outcome
  <2>2. Usable(s, n, Victim(s)) /\ Victim(s) \in 1..n
    BY VictimUsable DEF Usable
  <2>3. Entered(s, n, b, d, ts, t)
    BY <1>1, <2>2, Zenon DEF Entered
  <2> QED BY <2>1, <2>3, Zenon DEF Effect
<1>2. CASE IndexOf(s, b) # {}
  <2> DEFINE i == CHOOSE i \in IndexOf(s, b) : TRUE
             takes == (d \/ Exclusive) /\ s.slot[i].ts <= ts
  <2>1. i \in IndexOf(s, b)
    BY <1>2
  <2>2. LookupAndInsert(s, b, d, ts) = HitIn(s, i, b, ts, takes)
    BY <1>2, Zenon DEF LookupAndInsert
  <2> HIDE DEF i, takes
  <2>3. Effect(s, n, b, d, ts, HitIn(s, i, b, ts, takes))
    BY <2>1, HitEffect, Zenon
  <2> QED BY <2>2, <2>3, Zenon
<1> QED BY <1>1, <1>2

(* insert.                                                                  *)
LEMMA InsertEffect ==
  ASSUME NEW n \in Nat \ {0}, NEW s, SetInv(s, n), NEW b \in Block, NEW d, NEW ts
  PROVE  Effect(s, n, b, d, ts, Insert(s, b, d, ts))
<1>1. CASE IndexOf(s, b) = {}
  <2> DEFINE t == Put(s, Oldest(s), [block |-> b, ts |-> ts, dirty |-> d], Touch(s))
  <2>1. Insert(s, b, d, ts).set = t
    BY <1>1 DEF Insert, Outcome
  <2>2. Usable(s, n, Oldest(s)) /\ Oldest(s) \in 1..n
    BY OldestUsable DEF Usable
  <2>3. Entered(s, n, b, d, ts, t)
    BY <1>1, <2>2, Zenon DEF Entered
  <2> QED BY <2>1, <2>3, Zenon DEF Effect
<1>2. CASE IndexOf(s, b) # {}
  <2> DEFINE i == CHOOSE i \in IndexOf(s, b) : TRUE
             panic == Exclusive \/ (ts >= s.slot[i].ts /\ d /\ s.slot[i].dirty)
             t == Put(s, i, Refreshed(s.slot[i], d, ts), s.touched)
  <2>1. i \in IndexOf(s, b)
    BY <1>2
  <2>2. CASE panic \/ ~(ts >= s.slot[i].ts)
    <3>1. Insert(s, b, d, ts).set = s
      BY <1>2, <2>2 DEF Insert, Outcome
    <3> QED BY <3>1 DEF Effect
  <2>3. CASE ~panic /\ ts >= s.slot[i].ts
    <3>1. Insert(s, b, d, ts).set = t
      BY <1>2, <2>3 DEF Insert, Outcome
    <3> HIDE DEF i
    <3>2. Merged(s, b, d, ts, t)
      BY <2>1 DEF Merged
    <3> QED BY <3>1, <3>2, Zenon DEF Effect
  <2> QED BY <2>2, <2>3
<1> QED BY <1>1, <1>2

-----------------------------------------------------------------------------
(* Each effect leaves the set in order.                                     *)

(* A slot that is emptied, or that keeps its block and has been used.       *)
LEMMA PutKeepsOrder ==
  ASSUME NEW n \in Nat \ {0}, NEW s, SetInv(s, n), NEW i \in 1..n, NEW slot \in Slot,
         \/ slot = Empty
         \/ slot.block = s.slot[i].block /\ slot.block # NoBlock /\ slot.ts # 0
  PROVE  SetInv(Put(s, i, slot, s.touched), n)
<1> DEFINE t == Put(s, i, slot, s.touched)
<1>1. s.slot \in [1..n -> Slot] /\ s.touched \in 0..n
  BY DEF SetInv
<1>2. t.slot = [s.slot EXCEPT ![i] = slot] /\ t.touched = s.touched
  BY DEF Put
<1>3. t \in [slot : [1..n -> Slot], touched : 0..n]
  BY <1>1 DEF Put
<1>4. t.slot[i] = slot /\ \A j \in 1..n : j # i => t.slot[j] = s.slot[j]
  BY <1>1, <1>2
<1>5. Empty.block = NoBlock
  BY DEF Empty
<1> HIDE DEF t
<1>6. \A j \in 1..n : t.slot[j].block = NoBlock \/ t.slot[j].ts = 0 => t.slot[j] = Empty
  BY <1>4 DEF SetInv
<1>7. ASSUME NEW j \in 1..n, NEW k \in 1..n, t.slot[j].block = t.slot[k].block, j # k
      PROVE  t.slot[j].block = NoBlock
  BY <1>4, <1>5, <1>7 DEF SetInv
<1>8. \A j \in 1..n : j > t.touched => t.slot[j] = Empty
  <2>1. s.slot[i] # Empty => ~(i > s.touched)
    BY DEF SetInv
  <2>2. slot # Empty => s.slot[i] # Empty
    BY <1>5
  <2> QED BY <1>2, <1>4, <2>1, <2>2 DEF SetInv
<1> QED BY <1>3, <1>6, <1>7, <1>8 DEF SetInv, t

(* A usable slot that takes a block of no other slot.                       *)
LEMMA EnteredKeepsOrder ==
  ASSUME NEW n \in Nat \ {0}, NEW s, SetInv(s, n),
         NEW b \in Block, NEW d \in BOOLEAN, NEW ts \in Nat \ {0}, NEW t,
         Entered(s, n, b, d, ts, t)
  PROVE  SetInv(t, n)
<1> DEFINE slot == [block |-> b, ts |-> ts, dirty |-> d]
<1>0. PICK i \in 1..n : Usable(s, n, i) /\ t = Put(s, i, slot, Touch(s))
  BY DEF Entered
<1>1. s.slot \in [1..n -> Slot] /\ s.touched \in 0..n /\ DOMAIN s.slot = 1..n
  BY DEF SetInv
<1>2. Touch(s) = IF s.touched < n THEN s.touched + 1 ELSE s.touched
  <2>1. Len(s.slot) = n
    BY <1>1
  <2> QED BY <2>1 DEF Touch
<1>3. Touch(s) \in 0..n /\ s.touched <= Touch(s) /\ i <= Touch(s)
  BY <1>0, <1>1, <1>2 DEF Usable
<1>4. t.slot = [s.slot EXCEPT ![i] = slot] /\ t.touched = Touch(s)
  BY <1>0 DEF Put
<1>5. t.slot[i] = slot /\ \A j \in 1..n : j # i => t.slot[j] = s.slot[j]
  BY <1>1, <1>4
<1>6. slot \in Slot /\ slot.block = b /\ slot.ts = ts /\ b # NoBlock /\ ts # 0
  BY CacheAssumption DEF Slot, NoBlock
<1>7. \A j \in 1..n : s.slot[j].block # b
  BY <1>1 DEF Entered, IndexOf
<1>8. t \in [slot : [1..n -> Slot], touched : 0..n]
  BY <1>0, <1>1, <1>3, <1>6 DEF Put
<1> HIDE DEF slot
<1>9. \A j \in 1..n : t.slot[j].block = NoBlock \/ t.slot[j].ts = 0 => t.slot[j] = Empty
  BY <1>5, <1>6 DEF SetInv
<1>10. ASSUME NEW j \in 1..n, NEW k \in 1..n, t.slot[j].block = t.slot[k].block, j # k
       PROVE  t.slot[j].block = NoBlock
  BY <1>5, <1>6, <1>7, <1>10 DEF SetInv
<1>11. \A j \in 1..n : j > t.touched => t.slot[j] = Empty
  BY <1>1, <1>3, <1>4, <1>5 DEF SetInv
<1> QED BY <1>8, <1>9, <1>10, <1>11 DEF SetInv

(* Whatever a call does.                                                    *)
LEMMA EffectKeepsOrder ==
  ASSUME NEW n \in Nat \ {0}, NEW s, SetInv(s, n),
         NEW b \in Block, NEW d \in BOOLEAN, NEW ts \in Nat \ {0}, NEW o,
         Effect(s, n, b, d, ts, o)
  PROVE  SetInv(o.set, n)
<1> DEFINE t == o.set
<1>0. \/ t = s \/ Left(s, b, t) \/ TookOver(s, b, ts, t)
      \/ Merged(s, b, d, ts, t) \/ Entered(s, n, b, d, ts, t)
  BY DEF Effect
<1> SUFFICES SetInv(t, n)
  OBVIOUS
<1> HIDE DEF t
<1>1. CASE t = s
  BY <1>1
<1>2. CASE Left(s, b, t)
  <2>1. PICK i \in IndexOf(s, b) : t = Put(s, i, Empty, s.touched)
    BY <1>2 DEF Left
  <2>2. i \in 1..n
    BY FoundSlot
  <2>3. Empty \in Slot
    BY DEF Empty, Slot
  <2> QED BY <2>1, <2>2, <2>3, PutKeepsOrder
<1>3. CASE TookOver(s, b, ts, t)
  <2>1. PICK i \in IndexOf(s, b) : t = Put(s, i, ReadBlock(s.slot[i], ts), s.touched)
    BY <1>3 DEF TookOver
  <2>2. i \in 1..n /\ s.slot[i] \in Slot /\ s.slot[i].block = b /\ b # NoBlock
    BY FoundSlot
  <2> DEFINE slot == ReadBlock(s.slot[i], ts)
  <2>3. slot \in Slot /\ slot.block = b /\ slot.ts = ts
    BY <2>2 DEF ReadBlock, Slot
  <2> HIDE DEF slot
  <2>4. SetInv(Put(s, i, slot, s.touched), n)
    BY <2>2, <2>3, PutKeepsOrder
  <2> QED BY <2>1, <2>4 DEF slot
<1>4. CASE Merged(s, b, d, ts, t)
  <2>1. PICK i \in IndexOf(s, b) : t = Put(s, i, Refreshed(s.slot[i], d, ts), s.touched)
    BY <1>4 DEF Merged
  <2>2. i \in 1..n /\ s.slot[i] \in Slot /\ s.slot[i].block = b /\ b # NoBlock
    BY FoundSlot
  <2> DEFINE slot == Refreshed(s.slot[i], d, ts)
  <2>3. slot \in Slot /\ slot.block = b /\ slot.ts = ts
    BY <2>2 DEF Refreshed, Slot
  <2> HIDE DEF slot
  <2>4. SetInv(Put(s, i, slot, s.touched), n)
    BY <2>2, <2>3, PutKeepsOrder
  <2> QED BY <2>1, <2>4 DEF slot
<1>5. CASE Entered(s, n, b, d, ts, t)
  BY <1>5, EnteredKeepsOrder
<1> QED BY <1>0, <1>1, <1>2, <1>3, <1>4, <1>5

-----------------------------------------------------------------------------
(* Each effect is a step of CacheSet.                                       *)

Entry(slot) == [block |-> slot.block, dirty |-> slot.dirty]
Filled(s, n) == {j \in 1..n : s.slot[j].block # NoBlock}

(* A slot is free exactly if it holds no block.                             *)
LEMMA FreeSlots ==
  ASSUME NEW n \in Nat \ {0}, NEW s, SetInv(s, n)
  PROVE  \A j \in 1..n : s.slot[j] # Empty <=> s.slot[j].block # NoBlock
<1>1. Empty.block = NoBlock
  BY DEF Empty
<1>2. \A j \in 1..n : s.slot[j].block = NoBlock => s.slot[j] = Empty
  BY DEF SetInv
<1> QED BY <1>1, <1>2

(* The content, by the slots that hold a block.                             *)
LEMMA ContentOf ==
  ASSUME NEW n \in Nat \ {0}, NEW s, SetInv(s, n)
  PROVE  \A e : e \in ContentIn(s) <=> \E j \in Filled(s, n) : e = Entry(s.slot[j])
<1>1. DOMAIN s.slot = 1..n
  BY DEF SetInv
<1>2. \A j \in 1..n : s.slot[j] # Empty <=> s.slot[j].block # NoBlock
  BY FreeSlots
<1> QED BY <1>1, <1>2 DEF ContentIn, Filled, Entry

(* A set is full exactly if no slot is free.                                *)
LEMMA ContentCount ==
  ASSUME NEW n \in Nat \ {0}, NEW s, SetInv(s, n)
  PROVE  /\ IsFiniteSet(ContentIn(s)) /\ Cardinality(ContentIn(s)) \in Nat
         /\ Cardinality(ContentIn(s)) <= n
         /\ Cardinality(ContentIn(s)) < n <=> \E j \in 1..n : s.slot[j] = Empty
<1> DEFINE J == Filled(s, n)
           f == [j \in J |-> Entry(s.slot[j])]
<1>1. f \in Bijection(J, ContentIn(s))
  <2>1. f \in [J -> ContentIn(s)]
    BY ContentOf
  <2>2. \A e \in ContentIn(s) : \E j \in J : f[j] = e
    BY ContentOf
  <2>3. ASSUME NEW j \in J, NEW k \in J, f[j] = f[k]
        PROVE  j = k
    <3>1. Entry(s.slot[j]).block = Entry(s.slot[k]).block
      BY <2>3
    <3>2. s.slot[j].block = s.slot[k].block
      BY <3>1 DEF Entry
    <3> QED BY <3>2 DEF Filled, SetInv
  <2> HIDE DEF f, J
  <2> QED BY <2>1, <2>2, <2>3 DEF Bijection, Injection, Surjection, IsInjective
<1>2. IsFiniteSet(1..n) /\ Cardinality(1..n) = n
  BY FS_Interval
<1>3. J \in SUBSET (1..n)
  BY DEF Filled
<1> HIDE DEF J
<1>4. IsFiniteSet(J) /\ Cardinality(J) <= n /\ (Cardinality(J) = n => J = 1..n)
  BY <1>2, <1>3, FS_Subset
<1>5. Cardinality(J) \in Nat
  BY <1>4, FS_CardinalityType
<1>6. IsFiniteSet(ContentIn(s)) /\ Cardinality(ContentIn(s)) = Cardinality(J)
  BY <1>1, <1>4, FS_Bijection DEF ExistsBijection
<1>7. (\E j \in 1..n : s.slot[j] = Empty) <=> J # 1..n
  <2>1. \A j \in 1..n : s.slot[j] # Empty <=> s.slot[j].block # NoBlock
    BY FreeSlots
  <2> QED BY <2>1 DEF J, Filled
<1>8. J = 1..n => Cardinality(J) = n
  BY <1>2
<1> QED BY <1>4, <1>5, <1>6, <1>7, <1>8

(* The steps of CacheSet, over two contents.                                *)
Emptied(b, C, D) == D = {e \in C : e.block # b}
Cleaned(b, C, D) ==
  /\ b \in {e.block : e \in C}
  /\ D = {e \in C : e.block # b} \union {[block |-> b, dirty |-> FALSE]}
Written(b, C, D) ==
  /\ [block |-> b, dirty |-> FALSE] \in C
  /\ D = (C \ {[block |-> b, dirty |-> FALSE]}) \union {[block |-> b, dirty |-> TRUE]}
Grown(b, n, d, C, D) ==
  /\ b \notin {e.block : e \in C}
  /\ \E gone \in SUBSET C :
       /\ Cardinality(gone) = (IF Cardinality(C) < n THEN 0 ELSE 1)
       /\ D = (C \ gone) \union {[block |-> b, dirty |-> d]}

(* The content after one slot is replaced.                                  *)
LEMMA ContentAfterPut ==
  ASSUME NEW n \in Nat \ {0}, NEW s, SetInv(s, n), NEW i \in 1..n, NEW slot, NEW touched,
         SetInv(Put(s, i, slot, touched), n)
  PROVE  \A e : e \in ContentIn(Put(s, i, slot, touched)) <=>
                  \/ \E j \in Filled(s, n) : j # i /\ e = Entry(s.slot[j])
                  \/ slot.block # NoBlock /\ e = Entry(slot)
<1> DEFINE t == Put(s, i, slot, touched)
<1>1. s.slot \in [1..n -> Slot]
  BY DEF SetInv
<1>2. t.slot[i] = slot /\ \A j \in 1..n : j # i => t.slot[j] = s.slot[j]
  BY <1>1 DEF Put
<1>3. \A e : e \in ContentIn(t) <=> \E j \in Filled(t, n) : e = Entry(t.slot[j])
  BY ContentOf
<1> HIDE DEF t
<1>4. \A j \in 1..n : j \in Filled(t, n) <=>
        \/ j # i /\ j \in Filled(s, n)
        \/ j = i /\ slot.block # NoBlock
  BY <1>2 DEF Filled
<1>5. Filled(s, n) \subseteq 1..n /\ Filled(t, n) \subseteq 1..n
  BY DEF Filled
<1>6. \A e : e \in ContentIn(t) <=>
                  \/ \E j \in Filled(s, n) : j # i /\ e = Entry(s.slot[j])
                  \/ slot.block # NoBlock /\ e = Entry(slot)
  BY <1>2, <1>3, <1>4, <1>5
<1> QED BY <1>6 DEF t

(* Where the slot held block b, the others are the entries without b.       *)
LEMMA OtherEntries ==
  ASSUME NEW n \in Nat \ {0}, NEW s, SetInv(s, n), NEW b \in Block, NEW i \in IndexOf(s, b)
  PROVE  /\ \A e : (\E j \in Filled(s, n) : j # i /\ e = Entry(s.slot[j])) <=>
                     (e \in ContentIn(s) /\ e.block # b)
         /\ Entry(s.slot[i]) \in ContentIn(s) /\ Entry(s.slot[i]).block = b
<1>1. /\ i \in 1..n /\ s.slot[i].block = b /\ b # NoBlock
      /\ \A j \in 1..n : j # i => s.slot[j].block # b
  BY FoundSlot
<1>2. \A e : e \in ContentIn(s) <=> \E j \in Filled(s, n) : e = Entry(s.slot[j])
  BY ContentOf
<1>3. \A j \in 1..n : Entry(s.slot[j]).block = s.slot[j].block
  BY DEF Entry
<1>4. i \in Filled(s, n) /\ Filled(s, n) \subseteq 1..n
  BY <1>1 DEF Filled
<1> QED BY <1>1, <1>2, <1>3, <1>4

(* A hit that takes the block, seen as a CacheSet step.                     *)
LEMMA LeftEmpties ==
  ASSUME NEW n \in Nat \ {0}, NEW s, SetInv(s, n), NEW b \in Block, NEW t, SetInv(t, n), Left(s, b, t)
  PROVE  Emptied(b, ContentIn(s), ContentIn(t))
<1>1. PICK i \in IndexOf(s, b) : t = Put(s, i, Empty, s.touched)
  BY DEF Left
<1>2. i \in 1..n /\ Empty.block = NoBlock
  BY FoundSlot DEF Empty
<1>3. \A e : e \in ContentIn(t) <=> \E j \in Filled(s, n) : j # i /\ e = Entry(s.slot[j])
  BY <1>1, <1>2, ContentAfterPut
<1>4. \A e : e \in ContentIn(t) <=> (e \in ContentIn(s) /\ e.block # b)
  BY <1>3, OtherEntries
<1> QED BY <1>4 DEF Emptied

(* A hit of a reader, seen as a CacheSet step.                              *)
LEMMA TookOverCleans ==
  ASSUME NEW n \in Nat \ {0}, NEW s, SetInv(s, n), NEW b \in Block, NEW ts, NEW t, SetInv(t, n),
         TookOver(s, b, ts, t)
  PROVE  Cleaned(b, ContentIn(s), ContentIn(t))
<1>1. PICK i \in IndexOf(s, b) : t = Put(s, i, ReadBlock(s.slot[i], ts), s.touched)
  BY DEF TookOver
<1>2. i \in 1..n /\ s.slot[i] \in Slot /\ s.slot[i].block = b /\ b # NoBlock
  BY FoundSlot
<1> DEFINE slot == ReadBlock(s.slot[i], ts)
<1>3. slot.block = b /\ slot.dirty = FALSE
  BY <1>2 DEF ReadBlock, Slot
<1>4. Entry(slot) = [block |-> b, dirty |-> FALSE]
  BY <1>3 DEF Entry
<1> HIDE DEF slot
<1>5. t = Put(s, i, slot, s.touched)
  BY <1>1 DEF slot
<1>6. \A e : e \in ContentIn(t) <=> \/ \E j \in Filled(s, n) : j # i /\ e = Entry(s.slot[j])
                                    \/ e = Entry(slot)
  BY <1>2, <1>3, <1>5, ContentAfterPut
<1>7. \A e : e \in ContentIn(t) <=> \/ e \in ContentIn(s) /\ e.block # b
                                    \/ e = Entry(slot)
  BY <1>6, OtherEntries
<1>8. b \in {e.block : e \in ContentIn(s)}
  BY OtherEntries
<1>9. ContentIn(t) = {e \in ContentIn(s) : e.block # b} \union {[block |-> b, dirty |-> FALSE]}
  BY <1>4, <1>7
<1> QED BY <1>8, <1>9 DEF Cleaned

(* A block is dirty after it was merged if either copy was.                 *)
LEMMA MergedWrites ==
  ASSUME NEW n \in Nat \ {0}, NEW s, SetInv(s, n), NEW b \in Block, NEW d \in BOOLEAN, NEW ts,
         NEW t, SetInv(t, n), Merged(s, b, d, ts, t)
  PROVE  ContentIn(t) = ContentIn(s) \/ Written(b, ContentIn(s), ContentIn(t))
<1>1. PICK i \in IndexOf(s, b) : t = Put(s, i, Refreshed(s.slot[i], d, ts), s.touched)
  BY DEF Merged
<1>2. i \in 1..n /\ s.slot[i] \in Slot /\ s.slot[i].block = b /\ b # NoBlock
  BY FoundSlot
<1> DEFINE slot == Refreshed(s.slot[i], d, ts)
<1>3. slot.block = b
  BY <1>2 DEF Refreshed, Slot
<1>4. /\ s.slot[i].dirty = TRUE \/ s.slot[i].dirty = FALSE
      /\ s.slot[i].dirty = TRUE \/ d = FALSE => slot.dirty = s.slot[i].dirty
      /\ s.slot[i].dirty = FALSE /\ d = TRUE => slot.dirty = TRUE
  <2>1. s.slot[i].dirty \in BOOLEAN
    BY <1>2 DEF Slot
  <2>2. slot.dirty = (s.slot[i].dirty \/ d)
    BY <1>2 DEF Refreshed, Slot
  <2> QED BY <2>1, <2>2
<1> HIDE DEF slot
<1>5. t = Put(s, i, slot, s.touched)
  BY <1>1 DEF slot
<1>6. \A e : e \in ContentIn(t) <=> \/ \E j \in Filled(s, n) : j # i /\ e = Entry(s.slot[j])
                                    \/ e = Entry(slot)
  BY <1>2, <1>3, <1>5, ContentAfterPut
<1>7. \A e : e \in ContentIn(t) <=> (e \in ContentIn(s) /\ e.block # b) \/ e = Entry(slot)
  BY <1>6, OtherEntries
<1>8. \A e \in ContentIn(s) : e.block = b => e = Entry(s.slot[i])
  BY <1>2, ContentOf, FoundSlot DEF Entry, Filled
<1>9. Entry(s.slot[i]) \in ContentIn(s)
  BY OtherEntries
<1>10. CASE slot.dirty = s.slot[i].dirty
  <2>1. Entry(slot) = Entry(s.slot[i])
    BY <1>2, <1>3, <1>10 DEF Entry
  <2>2. \A e : e \in ContentIn(t) <=> e \in ContentIn(s)
    BY <1>7, <1>8, <1>9, <2>1
  <2> QED BY <2>2
<1>11. CASE s.slot[i].dirty = FALSE /\ slot.dirty = TRUE
  <2>1. /\ Entry(s.slot[i]) = [block |-> b, dirty |-> FALSE]
        /\ Entry(slot) = [block |-> b, dirty |-> TRUE]
    BY <1>2, <1>3, <1>11 DEF Entry
  <2>2. \A e : (e \in ContentIn(s) /\ e.block # b) <=>
                 (e \in ContentIn(s) /\ e # [block |-> b, dirty |-> FALSE])
    <3>1. [block |-> b, dirty |-> FALSE].block = b
      OBVIOUS
    <3> QED BY <1>8, <2>1, <3>1
  <2>3. ContentIn(t) = (ContentIn(s) \ {[block |-> b, dirty |-> FALSE]})
                          \union {[block |-> b, dirty |-> TRUE]}
    BY <1>7, <2>1, <2>2
  <2> QED BY <1>9, <2>1, <2>3 DEF Written
<1> QED BY <1>4, <1>10, <1>11

(* A block leaves to make room only if no slot was free.                    *)
LEMMA EnteredGrows ==
  ASSUME NEW n \in Nat \ {0}, NEW s, SetInv(s, n), NEW b \in Block, NEW d \in BOOLEAN,
         NEW ts \in Nat \ {0}, NEW t, SetInv(t, n), Entered(s, n, b, d, ts, t)
  PROVE  Grown(b, n, d, ContentIn(s), ContentIn(t))
<1> DEFINE slot == [block |-> b, ts |-> ts, dirty |-> d]
           new == [block |-> b, dirty |-> d]
<1>1. PICK i \in 1..n : Usable(s, n, i) /\ t = Put(s, i, slot, Touch(s))
  BY DEF Entered
<1>2. slot.block = b /\ Entry(slot) = new /\ b # NoBlock
  BY CacheAssumption DEF Entry, NoBlock
<1> HIDE DEF slot, new
<1>3. \A e : e \in ContentIn(t) <=> (\E j \in Filled(s, n) : j # i /\ e = Entry(s.slot[j])) \/ e = new
  BY <1>1, <1>2, ContentAfterPut
<1>4. \A e : e \in ContentIn(s) <=> \E j \in Filled(s, n) : e = Entry(s.slot[j])
  BY ContentOf
<1>5. b \notin {e.block : e \in ContentIn(s)}
  <2>1. \A j \in 1..n : s.slot[j].block # b
    BY DEF Entered, IndexOf, SetInv
  <2>2. \A j \in Filled(s, n) : Entry(s.slot[j]).block # b
    BY <2>1 DEF Filled, Entry
  <2> QED BY <1>4, <2>2
<1>6. CASE s.slot[i] = Empty
  <2>1. i \notin Filled(s, n)
    BY <1>6 DEF Filled, Empty
  <2>2. ContentIn(t) = (ContentIn(s) \ {}) \union {new}
    BY <1>3, <1>4, <2>1
  <2>3. Cardinality(ContentIn(s)) < n
    BY <1>6, ContentCount
  <2>4. Cardinality({}) = 0
    BY FS_EmptySet
  <2>5. {} \in SUBSET ContentIn(s)
    OBVIOUS
  <2> QED BY <1>5, <2>2, <2>3, <2>4, <2>5 DEF Grown, new
<1>7. CASE \A j \in 1..n : s.slot[j] # Empty
  <2> DEFINE old == Entry(s.slot[i])
  <2>1. ~(Cardinality(ContentIn(s)) < n)
    BY <1>7, ContentCount
  <2>2. i \in Filled(s, n)
    BY <1>7, FreeSlots DEF Filled
  <2>3. old \in ContentIn(s)
    BY <1>4, <2>2
  <2>4. \A j \in Filled(s, n) : j # i <=> Entry(s.slot[j]) # old
    <3>1. \A j \in Filled(s, n) : j # i => s.slot[j].block # s.slot[i].block
      BY DEF SetInv, Filled
    <3> QED BY <3>1 DEF Entry
  <2>5. ContentIn(t) = (ContentIn(s) \ {old}) \union {new}
    <3> HIDE DEF old
    <3> QED BY <1>3, <1>4, <2>4
  <2>6. Cardinality({old}) = 1
    BY FS_Singleton
  <2>7. {old} \in SUBSET ContentIn(s)
    BY <2>3
  <2> HIDE DEF old
  <2> QED BY <1>5, <2>1, <2>5, <2>6, <2>7 DEF Grown, new
<1> QED BY <1>1, <1>6, <1>7 DEF Usable

-----------------------------------------------------------------------------
(* The specification.                                                       *)

Ops == {"lookup", "lookup_and_insert", "insert", "invalidate"}

(* Each operation, from a set in order, has one of the effects.             *)
LEMMA OperationEffect ==
  ASSUME NEW n \in Nat \ {0}, NEW s, SetInv(s, n), NEW b \in Block, NEW d, NEW ts,
         NEW op \in Ops
  PROVE  Effect(s, n, b, d, ts, Outcomes(op, s, b, d, ts))
<1>1. CASE op = "lookup"
  BY <1>1, LookupEffect DEF Outcomes
<1>2. CASE op = "lookup_and_insert"
  BY <1>2, LookupAndInsertEffect DEF Outcomes
<1>3. CASE op = "insert"
  BY <1>3, InsertEffect DEF Outcomes
<1>4. CASE op = "invalidate"
  BY <1>4, InvalidateEffect DEF Outcomes
<1> QED BY <1>1, <1>2, <1>3, <1>4 DEF Ops

(* invalidate reports the block it was called for.                          *)
LEMMA InvalidateReplies ==
  ASSUME NEW s, NEW b, NEW d, NEW ts
  PROVE  Outcomes("invalidate", s, b, d, ts).reply.block = b
<1>1. Outcomes("invalidate", s, b, d, ts) = Lookup(s, b, TRUE, ts)
  BY DEF Outcomes, Invalidate
<1>2. /\ Missed(s, b).block = b
      /\ \A slot : Hit(b, slot).block = b /\ Late("lookup_late", b, slot, ts).block = b
  BY DEF Missed, Hit, Late
<1>3. Lookup(s, b, TRUE, ts).reply.block = b
  BY <1>2 DEF Lookup, HitIn, Outcome
<1> QED BY <1>1, <1>3

(* What is done under a lock has its effect on the set of its block in each *)
(* cache of the guest, and none on the others; what it returns is the reply,*)
(* or dropped by the first lock of invalidate.                              *)
Answers(op, b, d, ts) ==
  \/ reply' = Replies(op, b, d, ts)
  \/ op = "invalidate" /\ \E t \in invalidating' \ invalidating : t.block = b
SectionIn(c, i, b, d, ts) ==
  \/ sets'[c][i] = sets[c][i]
  \/ \E o : /\ Effect(sets[c][i], Ways[c], b, d, ts, o) /\ sets'[c][i] = o.set
            /\ \/ reply'[c] = o.reply
               \/ o.reply.block = b /\ \E t \in invalidating' \ invalidating : t.block = b

LEMMA SectionEffect ==
  ASSUME Inv, NEW op \in Ops, NEW b \in Block, NEW d, NEW ts,
         Section(op, b, d, ts), Answers(op, b, d, ts)
  PROVE  /\ DOMAIN sets' = Cache /\ \A c \in Cache : DOMAIN sets'[c] = 0..Sets[c] - 1
         /\ \A c \in Cache : \A i \in 0..Sets[c] - 1 : SectionIn(c, i, b, d, ts)
<1> DEFINE In(c) == Outcomes(op, sets[c][SetOf(c, b)], b, d, ts)
<1>1. sets' = [c \in Cache |-> IF c \in guest.caches
                               THEN [sets[c] EXCEPT ![SetOf(c, b)] = In(c).set] ELSE sets[c]]
  BY Zenon DEF Section
<1>2. ASSUME NEW c \in guest.caches
      PROVE  \/ reply'[c] = In(c).reply
             \/ In(c).reply.block = b /\ \E t \in invalidating' \ invalidating : t.block = b
  <2>0. Replies(op, b, d, ts) = [x \in guest.caches |-> In(x).reply]
    BY DEF Replies
  <2>1. reply' = Replies(op, b, d, ts) => reply'[c] = In(c).reply
    <3> HIDE DEF In
    <3> QED BY <2>0
  <2>2. ASSUME op = "invalidate" PROVE In(c).reply.block = b
    <3>1. \A s : Outcomes("invalidate", s, b, d, ts).reply.block = b
      <4> TAKE s
      <4> QED BY InvalidateReplies
    <3>2. In(c) = Outcomes("invalidate", sets[c][SetOf(c, b)], b, d, ts)
      BY <2>2, Zenon
    <3> HIDE DEF In
    <3> QED BY <3>1, <3>2, Zenon
  <2> HIDE DEF In
  <2> QED BY <2>1, <2>2, Zenon DEF Answers
<1> HIDE DEF In
<1>3. DOMAIN sets' = Cache
  BY <1>1
<1>4. ASSUME NEW c \in Cache
      PROVE  DOMAIN sets'[c] = 0..Sets[c] - 1
  BY <1>1 DEF Inv
<1>5. ASSUME NEW c \in Cache, NEW i \in 0..Sets[c] - 1
      PROVE  SectionIn(c, i, b, d, ts)
  <2>1. CASE c \in guest.caches /\ i = SetOf(c, b)
    <3>1. sets'[c][i] = In(c).set
      BY <1>1, <2>1 DEF Inv
    <3>2. Ways[c] \in Nat \ {0} /\ SetInv(sets[c][i], Ways[c])
      BY CacheAssumption DEF Inv
    <3>3. Effect(sets[c][i], Ways[c], b, d, ts, Outcomes(op, sets[c][i], b, d, ts))
      BY <3>2, OperationEffect, Zenon
    <3>4. In(c) = Outcomes(op, sets[c][i], b, d, ts)
      BY <2>1, Zenon DEF In
    <3>5. Effect(sets[c][i], Ways[c], b, d, ts, In(c))
      BY <3>3, <3>4, Zenon
    <3> QED BY <1>2, <2>1, <3>1, <3>5, Zenon DEF SectionIn
  <2>2. CASE ~(c \in guest.caches /\ i = SetOf(c, b))
    BY <1>1, <2>2 DEF Inv, SectionIn
  <2> QED BY <2>1, <2>2
<1> QED BY <1>3, <1>4, <1>5

(* Sets start in order: no slot holds a block.                              *)
LEMMA InitInv == ASSUME Init PROVE Inv
<1>1. ASSUME NEW c \in Cache, NEW i \in 0..Sets[c] - 1
      PROVE  SetInv(sets[c][i], Ways[c])
  <2>1. sets[c][i] = NewSet(c)
    BY DEF Init, NewSets
  <2>2. Ways[c] \in Nat \ {0}
    BY CacheAssumption
  <2>3. Empty \in Slot
    BY DEF Empty, Slot
  <2>4. \A j \in 1..Ways[c] : NewSet(c).slot[j] = Empty
    BY DEF NewSet
  <2>5. NewSet(c) \in [slot : [1..Ways[c] -> Slot], touched : 0..Ways[c]]
    BY <2>2, <2>3 DEF NewSet
  <2>6. Empty.block = NoBlock
    BY DEF Empty
  <2> QED BY <2>1, <2>4, <2>5, <2>6 DEF SetInv
<1> QED BY <1>1 DEF Init, Inv, NewSets

(* The three ways a thread comes under a lock, for a block and a time of    *)
(* the guest; the other steps leave the sets and what is returned alone.    *)
LockedFor(op, b, d, ts) ==
  \/ Call(op, b, d, ts)
  \/ op = "invalidate" /\ d = TRUE /\ InvalidateFirst(b, ts)
  \/ op = "invalidate" /\ d = TRUE /\ InvalidateAgain([block |-> b, ts |-> ts])

LEMMA StepCases ==
  ASSUME Inv, [Next]_vars
  PROVE  \/ UNCHANGED vars
         \/ \E c \in Cache : CountWarmed(c) \/ Save(c) \/ Load(c)
         \/ \E op \in Ops, b \in guest.blocks, d \in BOOLEAN, ts \in guest.times : LockedFor(op, b, d, ts)
<1>1. ASSUME NEW b \in guest.blocks, NEW ts \in guest.times, NEW d \in BOOLEAN,
             \/ Call("lookup", b, d, ts) \/ Call("lookup_and_insert", b, d, ts)
             \/ Call("insert", b, d, ts)
      PROVE  \E op \in Ops, x \in guest.blocks, e \in BOOLEAN, u \in guest.times : LockedFor(op, x, e, u)
  <2>1. "lookup" \in Ops /\ "lookup_and_insert" \in Ops /\ "insert" \in Ops
    BY DEF Ops
  <2> QED BY <1>1, <2>1, Zenon DEF LockedFor
<1>2. ASSUME NEW b \in guest.blocks, NEW ts \in guest.times, InvalidateFirst(b, ts)
      PROVE  \E op \in Ops, x \in guest.blocks, e \in BOOLEAN, u \in guest.times : LockedFor(op, x, e, u)
  <2>1. "invalidate" \in Ops /\ TRUE \in BOOLEAN
    BY DEF Ops
  <2> QED BY <1>2, <2>1, Zenon DEF LockedFor
<1>3. ASSUME NEW t \in invalidating, InvalidateAgain(t)
      PROVE  \E op \in Ops, x \in guest.blocks, e \in BOOLEAN, u \in guest.times : LockedFor(op, x, e, u)
  <2>1. "invalidate" \in Ops /\ TRUE \in BOOLEAN
    BY DEF Ops
  <2>2. t.block \in guest.blocks /\ t.ts \in guest.times /\ t = [block |-> t.block, ts |-> t.ts]
    BY DEF Inv
  <2>3. InvalidateAgain([block |-> t.block, ts |-> t.ts])
    BY <1>3, <2>2, Zenon
  <2> QED BY <2>1, <2>2, <2>3, Zenon DEF LockedFor
<1>4. Stopped => UNCHANGED vars
  BY DEF Stopped
<1> QED BY <1>1, <1>2, <1>3, <1>4, Zenon DEF Next

LEMMA StepLocks ==
  ASSUME Inv, [Next]_vars
  PROVE  \/ UNCHANGED <<guest, sets, invalidating, now, reply, panicked>>
         \/ \E op \in Ops, b \in guest.blocks, d \in BOOLEAN, ts \in guest.times : LockedFor(op, b, d, ts)
<1>1. ASSUME NEW c \in Cache, CountWarmed(c) \/ Save(c) \/ Load(c)
      PROVE  UNCHANGED <<guest, sets, invalidating, now, reply, panicked>>
  BY <1>1, Zenon DEF CountWarmed, Save, Load
<1>2. UNCHANGED vars => UNCHANGED <<guest, sets, invalidating, now, reply, panicked>>
  BY DEF vars
<1> QED BY <1>1, <1>2, StepCases, Zenon

LEMMA LockedStep ==
  ASSUME Inv, NEW op \in Ops, NEW b \in guest.blocks, NEW d \in BOOLEAN, NEW ts \in guest.times,
         LockedFor(op, b, d, ts)
  PROVE  /\ b \in Block /\ ts \in Nat \ {0}
         /\ Section(op, b, d, ts) /\ Answers(op, b, d, ts)
         /\ ~panicked /\ files = <<>> /\ UNCHANGED <<guest, warmed, checkpointVars>>
         /\ invalidating' \subseteq [block : guest.blocks, ts : guest.times]
<1> DEFINE t == [block |-> b, ts |-> ts]
<1>0. b \in Block /\ ts \in Nat \ {0}
  BY CacheAssumption DEF Inv
<1>1. /\ t.block = b /\ t.ts = ts /\ t \in [block : guest.blocks, ts : guest.times]
      /\ invalidating \subseteq [block : guest.blocks, ts : guest.times]
  BY DEF Inv
<1> HIDE DEF t
<1>2. CASE Call(op, b, d, ts)
  <2>1. /\ Section(op, b, d, ts) /\ reply' = Replies(op, b, d, ts) /\ invalidating' = invalidating
        /\ ~panicked /\ files = <<>> /\ UNCHANGED <<guest, warmed, checkpointVars>>
    BY <1>2, Zenon DEF Call, Begins, Running
  <2> QED BY <1>0, <1>1, <2>1, Zenon DEF Answers
<1>3. CASE op = "invalidate" /\ d = TRUE /\ InvalidateFirst(b, ts)
  <2>1. /\ Section("invalidate", b, TRUE, ts) /\ t \notin invalidating
        /\ invalidating' = invalidating \union {t}
        /\ ~panicked /\ files = <<>> /\ UNCHANGED <<guest, warmed, checkpointVars>>
    BY <1>3, Zenon DEF InvalidateFirst, Begins, Running, t
  <2>2. t \in invalidating' \ invalidating
    BY <2>1
  <2>3. invalidating' \subseteq [block : guest.blocks, ts : guest.times]
    BY <1>1, <2>1
  <2> QED BY <1>0, <1>1, <1>3, <2>1, <2>2, <2>3, Zenon DEF Answers
<1>4. CASE op = "invalidate" /\ d = TRUE /\ InvalidateAgain(t)
  <2>1. /\ Section("invalidate", t.block, TRUE, t.ts)
        /\ reply' = Replies("invalidate", t.block, TRUE, t.ts)
        /\ invalidating' = invalidating \ {t}
        /\ ~panicked /\ files = <<>> /\ UNCHANGED <<guest, warmed, checkpointVars>>
    BY <1>4, Zenon DEF InvalidateAgain, Running
  <2>2. invalidating' \subseteq [block : guest.blocks, ts : guest.times]
    BY <1>1, <2>1
  <2> QED BY <1>0, <1>1, <1>4, <2>1, <2>2, Zenon DEF Answers
<1> QED BY <1>2, <1>3, <1>4 DEF LockedFor, t

(* A step does something under a lock, or leaves the sets alone.            *)
LEMMA StepEffect ==
  ASSUME Inv, [Next]_vars
  PROVE  \/ sets' = sets
         \/ \E b \in Block, d \in BOOLEAN, ts \in Nat \ {0} :
              /\ DOMAIN sets' = Cache /\ \A c \in Cache : DOMAIN sets'[c] = 0..Sets[c] - 1
              /\ \A c \in Cache : \A i \in 0..Sets[c] - 1 : SectionIn(c, i, b, d, ts)
<1>1. ASSUME NEW op \in Ops, NEW b \in guest.blocks, NEW d \in BOOLEAN, NEW ts \in guest.times,
             LockedFor(op, b, d, ts)
      PROVE  \E x \in Block, e \in BOOLEAN, u \in Nat \ {0} :
               /\ DOMAIN sets' = Cache /\ \A c \in Cache : DOMAIN sets'[c] = 0..Sets[c] - 1
               /\ \A c \in Cache : \A i \in 0..Sets[c] - 1 : SectionIn(c, i, x, e, u)
  <2>1. b \in Block /\ ts \in Nat \ {0} /\ Section(op, b, d, ts) /\ Answers(op, b, d, ts)
    BY <1>1, LockedStep, Zenon
  <2>2. /\ DOMAIN sets' = Cache /\ \A c \in Cache : DOMAIN sets'[c] = 0..Sets[c] - 1
        /\ \A c \in Cache : \A i \in 0..Sets[c] - 1 : SectionIn(c, i, b, d, ts)
    BY <2>1, SectionEffect, Zenon
  <2> QED BY <2>1, <2>2, Zenon
<1> QED BY <1>1, StepLocks, Zenon

(* Sets stay in order, as only what is done under a lock changes one.       *)
LEMMA NextInv == ASSUME Inv, [Next]_vars PROVE Inv'
<1>1. guest' = guest /\ invalidating' \subseteq [block : guest.blocks, ts : guest.times]
  <2>1. ASSUME NEW op \in Ops, NEW b \in guest.blocks, NEW d \in BOOLEAN, NEW ts \in guest.times,
               LockedFor(op, b, d, ts)
        PROVE  guest' = guest /\ invalidating' \subseteq [block : guest.blocks, ts : guest.times]
    BY <2>1, LockedStep, Zenon
  <2> QED BY <2>1, StepLocks, Zenon DEF Inv
<1>2. CASE sets' = sets
  BY <1>1, <1>2 DEF Inv
<1>3. ASSUME NEW b \in Block, NEW d \in BOOLEAN, NEW ts \in Nat \ {0},
             DOMAIN sets' = Cache, \A c \in Cache : DOMAIN sets'[c] = 0..Sets[c] - 1,
             \A c \in Cache : \A i \in 0..Sets[c] - 1 : SectionIn(c, i, b, d, ts)
      PROVE  Inv'
  <2>1. ASSUME NEW c \in Cache, NEW i \in 0..Sets[c] - 1
        PROVE  SetInv(sets'[c][i], Ways[c])
    <3>1. Ways[c] \in Nat \ {0} /\ SetInv(sets[c][i], Ways[c])
      BY CacheAssumption DEF Inv
    <3>2. CASE sets'[c][i] = sets[c][i]
      BY <3>1, <3>2
    <3>3. ASSUME NEW o, Effect(sets[c][i], Ways[c], b, d, ts, o), sets'[c][i] = o.set
          PROVE  SetInv(sets'[c][i], Ways[c])
      BY <3>1, <3>3, EffectKeepsOrder, Zenon
    <3> QED BY <1>3, <3>2, <3>3 DEF SectionIn
  <2> QED BY <1>1, <1>3, <2>1 DEF Inv
<1> QED BY <1>2, <1>3, StepEffect, Zenon

(* However calls, and times, follow each other, no block is in two slots of *)
(* a set, and the slots insert and lookup_and_insert have not filled yet    *)
(* are free, although lookups free other slots.                             *)
THEOREM SetsInOrder == Spec => [](NoDuplicates /\ ColdSlotsEmpty)
<1>1. Inv => NoDuplicates /\ ColdSlotsEmpty
  BY ZenonT(60) DEF Inv, SetInv, NoDuplicates, ColdSlotsEmpty
<1>2. Init => Inv
  BY InitInv
<1>3. Inv /\ [Next]_vars => Inv'
  BY NextInv
<1> QED BY <1>1, <1>2, <1>3, PTL DEF Spec

(* Each effect, seen as a CacheSet step; what leaves for the caller is      *)
(* reported to it.                                                          *)
LEMMA EffectIsStep ==
  ASSUME NEW n \in Nat \ {0}, NEW s, SetInv(s, n), NEW b \in Block, NEW d \in BOOLEAN,
         NEW ts \in Nat \ {0}, NEW o, Effect(s, n, b, d, ts, o)
  PROVE  LET C == ContentIn(s)
             D == ContentIn(o.set)
         IN  \/ D = C
             \/ Emptied(b, C, D) /\ Reported(s, b, o.reply)
             \/ Cleaned(b, C, D) /\ Reported(s, b, o.reply)
             \/ Written(b, C, D)
             \/ Grown(b, n, d, C, D)
<1> DEFINE t == o.set
           r == o.reply
<1>1. \/ t = s
      \/ Left(s, b, t) /\ Reported(s, b, r)
      \/ TookOver(s, b, ts, t) /\ Reported(s, b, r)
      \/ Merged(s, b, d, ts, t)
      \/ Entered(s, n, b, d, ts, t)
  BY DEF Effect
<1>2. SetInv(t, n)
  BY EffectKeepsOrder
<1> HIDE DEF t, r
<1>3. \/ ContentIn(t) = ContentIn(s)
      \/ Emptied(b, ContentIn(s), ContentIn(t)) /\ Reported(s, b, r)
      \/ Cleaned(b, ContentIn(s), ContentIn(t)) /\ Reported(s, b, r)
      \/ Written(b, ContentIn(s), ContentIn(t))
      \/ Grown(b, n, d, ContentIn(s), ContentIn(t))
  BY <1>1, <1>2, LeftEmpties, TookOverCleans, MergedWrites, EnteredGrows, Zenon
<1> QED BY <1>3, Zenon DEF t, r

(* A step of the cache is a CacheSet step, or none, of each of its sets.    *)
LEMMA StepRefines ==
  ASSUME Inv, [Next]_vars, NEW c \in Cache, NEW i \in 0..Sets[c] - 1
  PROVE  [Abstract(c, i)!Next]_(ContentIn(sets[c][i]))
<1>1. CASE sets'[c][i] = sets[c][i]
  BY <1>1
<1>2. ASSUME NEW b \in Block, NEW d \in BOOLEAN, NEW ts \in Nat \ {0}, NEW o,
             Effect(sets[c][i], Ways[c], b, d, ts, o), sets'[c][i] = o.set
      PROVE  [Abstract(c, i)!Next]_(ContentIn(sets[c][i]))
  <2>1. Ways[c] \in Nat \ {0} /\ SetInv(sets[c][i], Ways[c])
    BY CacheAssumption DEF Inv
  <2> DEFINE C == ContentIn(sets[c][i])
             D == ContentIn(sets'[c][i])
  <2>2. \/ D = C \/ Emptied(b, C, D) \/ Cleaned(b, C, D)
        \/ Written(b, C, D) \/ Grown(b, Ways[c], d, C, D)
    BY <1>2, <2>1, EffectIsStep, Zenon
  <2>3. CASE D = C
    BY <2>3
  <2>4. CASE Emptied(b, C, D)
    BY <2>4 DEF Emptied, Abstract!Next, Abstract!Take
  <2>5. CASE Cleaned(b, C, D)
    BY <2>5 DEF Cleaned, Abstract!Next, Abstract!Clean, Abstract!Held
  <2>6. CASE Written(b, C, D)
    BY <2>6 DEF Written, Abstract!Next, Abstract!WriteBack
  <2>7. CASE Grown(b, Ways[c], d, C, D)
    <3>1. \A S : Abstract(c, i)!Cardinality(S) = Cardinality(S)
      BY Zenon DEF Abstract!Cardinality, Abstract!IsFiniteSet, Cardinality, IsFiniteSet
    <3> QED BY <2>7, <3>1 DEF Grown, Abstract!Next, Abstract!Add, Abstract!Held
  <2> QED BY <2>2, <2>3, <2>4, <2>5, <2>6, <2>7
<1>3. \/ sets'[c][i] = sets[c][i]
      \/ \E b \in Block, d \in BOOLEAN, ts \in Nat \ {0} : \E o :
           Effect(sets[c][i], Ways[c], b, d, ts, o) /\ sets'[c][i] = o.set
  BY StepEffect, Zenon DEF SectionIn
<1> QED BY <1>1, <1>2, <1>3, Zenon

(* Each set, under any calls of the trait, is a CacheSet: blocks            *)
(* leave it only when taken or when no slot is free, for every number of    *)
(* ways, inclusive or exclusive.                                            *)
THEOREM Refinement == Spec => ImplementsCacheSet
<1> DEFINE Starts == \A c \in Cache : \A i \in 0..Sets[c] - 1 : Abstract(c, i)!Init
           Steps == \A c \in Cache : \A i \in 0..Sets[c] - 1 :
                      [Abstract(c, i)!Next]_(ContentIn(sets[c][i]))
<1>1. Init => Starts
  <2> SUFFICES ASSUME Init, NEW c \in Cache, NEW i \in 0..Sets[c] - 1
               PROVE  Abstract(c, i)!Init
    OBVIOUS
  <2>1. DOMAIN sets[c][i].slot = 1..Ways[c] /\ \A j \in 1..Ways[c] : sets[c][i].slot[j] = Empty
    BY DEF Init, NewSets, NewSet
  <2>2. ContentIn(sets[c][i]) = {}
    BY <2>1 DEF ContentIn
  <2> QED BY <2>2 DEF Abstract!Init
<1>2. Inv /\ [Next]_vars => Steps
  BY StepRefines
<1>3. Init => Inv
  BY InitInv
<1>4. Inv /\ [Next]_vars => Inv'
  BY NextInv
<1>5. Spec => Starts
  <2> HIDE DEF Starts
  <2> QED BY <1>1, PTL DEF Spec
<1>6. Spec => [][Steps]_vars
  <2> HIDE DEF Steps
  <2> QED BY <1>2, <1>3, <1>4, PTL DEF Spec
<1> QED BY <1>5, <1>6 DEF ImplementsCacheSet

(* In a set, a block that is in the cache is in one entry.                  *)
LEMMA OneEntry ==
  ASSUME NEW n \in Nat \ {0}, NEW s, SetInv(s, n)
  PROVE  \A e, f \in ContentIn(s) : e.block = f.block => e = f
<1>1. \A e \in ContentIn(s) : \E j \in Filled(s, n) : e = Entry(s.slot[j])
  BY ContentOf
<1>2. \A j, k \in Filled(s, n) : s.slot[j].block = s.slot[k].block => j = k
  BY DEF Filled, SetInv
<1>3. \A j \in Filled(s, n) : Entry(s.slot[j]).block = s.slot[j].block
  BY DEF Entry
<1> QED BY <1>1, <1>2, <1>3

(* The caller told of a block learns whether it was dirty.                  *)
LEMMA ReportedDirty ==
  ASSUME NEW n \in Nat \ {0}, NEW s, SetInv(s, n), NEW b, NEW r, Reported(s, b, r),
         [block |-> b, dirty |-> TRUE] \in ContentIn(s)
  PROVE  r.block = b /\ r.dirty
<1>1. PICK j \in Filled(s, n) : [block |-> b, dirty |-> TRUE] = Entry(s.slot[j])
  BY ContentOf
<1>2. s.slot[j].block = b /\ s.slot[j].dirty
  BY <1>1 DEF Entry
<1>3. j \in IndexOf(s, b)
  BY <1>2 DEF Filled, SetInv, IndexOf
<1> QED BY <1>2, <1>3 DEF Reported

HandsOver(a, n, s, o) ==
  Forgotten(a, ContentIn(s), ContentIn(o.set)) =>
    \/ o.reply.block = a /\ o.reply.dirty
    \/ Cardinality(ContentIn(s)) = n /\ \A e \in ContentIn(o.set) : e.block # a

(* So a call that removes a dirty copy reports it, or evicts from a full set.*)
LEMMA EffectHandsOver ==
  ASSUME NEW n \in Nat \ {0}, NEW s, SetInv(s, n), NEW b \in Block, NEW d \in BOOLEAN,
         NEW ts \in Nat \ {0}, NEW o, Effect(s, n, b, d, ts, o),
         NEW a \in Block
  PROVE  HandsOver(a, n, s, o)
<1> SUFFICES ASSUME Forgotten(a, ContentIn(s), ContentIn(o.set))
             PROVE  \/ o.reply.block = a /\ o.reply.dirty
                    \/ Cardinality(ContentIn(s)) = n /\ \A e \in ContentIn(o.set) : e.block # a
  BY DEF HandsOver
<1> DEFINE C == ContentIn(s)
           D == ContentIn(o.set)
           lost == [block |-> a, dirty |-> TRUE]
<1>1. \/ D = C
      \/ Emptied(b, C, D) /\ Reported(s, b, o.reply)
      \/ Cleaned(b, C, D) /\ Reported(s, b, o.reply)
      \/ Written(b, C, D)
      \/ Grown(b, n, d, C, D)
  BY EffectIsStep, Zenon
<1>2. lost \in C /\ lost \notin D
  BY DEF Forgotten
<1>3. lost.block = a /\ lost.dirty = TRUE
  OBVIOUS
<1>4. /\ \A e, f \in C : e.block = f.block => e = f
      /\ IsFiniteSet(C) /\ Cardinality(C) \in Nat /\ Cardinality(C) <= n
  BY OneEntry, ContentCount
<1> HIDE DEF D
<1>5. CASE (Emptied(b, C, D) \/ Cleaned(b, C, D)) /\ Reported(s, b, o.reply)
  <2>1. a = b
    <3> HIDE DEF C, lost
    <3> QED BY <1>2, <1>3, <1>5 DEF Emptied, Cleaned
  <2> QED BY <1>2, <1>5, <2>1, ReportedDirty
<1>6. CASE Written(b, C, D)
  <2>1. [block |-> b, dirty |-> FALSE] # lost
    <3>1. [block |-> b, dirty |-> FALSE].dirty = FALSE
      OBVIOUS
    <3> HIDE DEF lost
    <3> QED BY <1>3, <3>1
  <2> HIDE DEF C, lost
  <2> QED BY <1>2, <1>6, <2>1 DEF Written
<1>7. CASE Grown(b, n, d, C, D)
  <2> HIDE DEF C, lost
  <2>1. PICK gone \in SUBSET C :
          /\ Cardinality(gone) = (IF Cardinality(C) < n THEN 0 ELSE 1)
          /\ D = (C \ gone) \union {[block |-> b, dirty |-> d]}
    BY <1>7 DEF Grown
  <2>2. lost \in gone
    BY <1>2, <2>1
  <2>3. IsFiniteSet(gone)
    BY <1>4, FS_Subset
  <2>4. Cardinality(gone) # 0
    BY <2>2, <2>3, FS_EmptySet
  <2>5. Cardinality(C) = n
    BY <1>4, <2>1, <2>4
  <2>6. b # a
    BY <1>2, <1>3, <1>7 DEF Grown
  <2>7. [block |-> b, dirty |-> d].block = b
    OBVIOUS
  <2>8. \A e \in D : e.block # a
    BY <1>2, <1>3, <1>4, <2>1, <2>2, <2>6, <2>7
  <2> QED BY <2>5, <2>8 DEF C, D
<1> QED BY <1>1, <1>2, <1>5, <1>6, <1>7

(* A dirty block never becomes clean or absent unless the caller was told,  *)
(* a full set had to evict it, or it is the block of a store in the first   *)
(* of the two locks of invalidate.                                          *)
THEOREM NoDirtyBlockForgotten == Spec => DirtyHandedOver
<1> DEFINE Told(c, i, b) ==
             LET old == ContentIn(sets[c][i])
                 new == ContentIn(sets'[c][i])
             IN Forgotten(b, old, new) =>
                  \/ reply'[c].block = b /\ reply'[c].dirty
                  \/ Cardinality(old) = Ways[c] /\ \A e \in new : e.block # b
                  \/ \E t \in invalidating' \ invalidating : t.block = b
           Step == \A c \in Cache : \A i \in 0..Sets[c] - 1, b \in Block : Told(c, i, b)
<1>1. ASSUME Inv, [Next]_vars, NEW c \in Cache, NEW i \in 0..Sets[c] - 1, NEW a \in Block
      PROVE  Told(c, i, a)
  <2>1. CASE sets'[c][i] = sets[c][i]
    BY <2>1 DEF Forgotten
  <2>2. ASSUME NEW b \in Block, NEW d \in BOOLEAN, NEW ts \in Nat \ {0}, NEW o,
               Effect(sets[c][i], Ways[c], b, d, ts, o), sets'[c][i] = o.set,
               \/ reply'[c] = o.reply
               \/ o.reply.block = b /\ \E t \in invalidating' \ invalidating : t.block = b
        PROVE  Told(c, i, a)
    <3>1. Ways[c] \in Nat \ {0} /\ SetInv(sets[c][i], Ways[c])
      BY <1>1, CacheAssumption DEF Inv
    <3>2. HandsOver(a, Ways[c], sets[c][i], o)
      BY <2>2, <3>1, EffectHandsOver, Zenon
    <3> QED BY <2>2, <3>2, Zenon DEF HandsOver
  <2>3. \/ sets'[c][i] = sets[c][i]
        \/ \E b \in Block, d \in BOOLEAN, ts \in Nat \ {0} : \E o :
             /\ Effect(sets[c][i], Ways[c], b, d, ts, o) /\ sets'[c][i] = o.set
             /\ \/ reply'[c] = o.reply
                \/ o.reply.block = b /\ \E t \in invalidating' \ invalidating : t.block = b
    BY <1>1, StepEffect, Zenon DEF SectionIn
  <2> HIDE DEF Told
  <2> QED BY <2>1, <2>2, <2>3, Zenon
<1>2. Inv /\ [Next]_vars => Step
  <2> HIDE DEF Told
  <2> QED BY <1>1
<1>3. Init => Inv
  BY InitInv
<1>4. Inv /\ [Next]_vars => Inv'
  BY NextInv
<1>5. Spec => [][Step]_vars
  <2> HIDE DEF Step
  <2> QED BY <1>2, <1>3, <1>4, PTL DEF Spec
<1> QED BY <1>5 DEF DirtyHandedOver

-----------------------------------------------------------------------------
(* The counter of warm sets.                                                *)

Full(c) == {i \in 0..Sets[c] - 1 : sets[c][i].touched = Ways[c]}
CountInv ==
  /\ counting \in [Cache -> Nat] /\ warmed \in [Cache -> Nat]
  /\ \A c \in Cache : IsFiniteSet(Full(c)) /\ warmed[c] + counting[c] = Cardinality(Full(c))

(* A set that has become warm stays so.                                     *)
LEMMA EffectTouches ==
  ASSUME NEW n \in Nat \ {0}, NEW s, SetInv(s, n), NEW b, NEW d, NEW ts, NEW o,
         Effect(s, n, b, d, ts, o)
  PROVE  s.touched = n => o.set.touched = n
<1>1. s.touched \in 0..n /\ Len(s.slot) = n
  BY DEF SetInv
<1>2. o.set.touched = s.touched \/ o.set.touched = Touch(s)
  <2>1. ASSUME NEW i, NEW slot, NEW touched, o.set = Put(s, i, slot, touched)
        PROVE  o.set.touched = touched
    BY <2>1 DEF Put
  <2>2. Left(s, b, o.set) => o.set.touched = s.touched
    BY <2>1 DEF Left
  <2>3. TookOver(s, b, ts, o.set) => o.set.touched = s.touched
    BY <2>1 DEF TookOver
  <2>4. Merged(s, b, d, ts, o.set) => o.set.touched = s.touched
    BY <2>1 DEF Merged
  <2>5. Entered(s, n, b, d, ts, o.set) => o.set.touched = Touch(s)
    BY <2>1 DEF Entered
  <2> QED BY <2>2, <2>3, <2>4, <2>5, Zenon DEF Effect
<1> QED BY <1>1, <1>2 DEF Touch

(* What is done under a lock adds one to the threads about to count exactly *)
(* when it fills a set.                                                     *)
LEMMA SectionCounts ==
  ASSUME Inv, CountInv, NEW op \in Ops, NEW b \in Block,
         NEW d, NEW ts, Section(op, b, d, ts), warmed' = warmed
  PROVE  CountInv'
<1> DEFINE In(c) == Outcomes(op, sets[c][SetOf(c, b)], b, d, ts)
           before(c) == sets[c][SetOf(c, b)].touched
<1>1. /\ sets' = [c \in Cache |-> IF c \in guest.caches
                                  THEN [sets[c] EXCEPT ![SetOf(c, b)] = In(c).set] ELSE sets[c]]
      /\ counting' = [c \in Cache |-> counting[c] +
           IF c \in guest.caches /\ before(c) < Ways[c] /\ In(c).set.touched = Ways[c] THEN 1 ELSE 0]
      /\ warmed' = warmed
  BY Zenon DEF Section
<1>2. ASSUME NEW c \in Cache
      PROVE  /\ In(c).set.touched = Ways[c] \/ before(c) # Ways[c]
             /\ before(c) \in 0..Ways[c] /\ SetOf(c, b) \in 0..Sets[c] - 1 /\ Ways[c] \in Nat
  <2>1. Ways[c] \in Nat \ {0} /\ Sets[c] \in Nat \ {0} /\ b \in Nat
    BY CacheAssumption
  <2>2. SetOf(c, b) \in 0..Sets[c] - 1
    BY <2>1 DEF SetOf
  <2>3. SetInv(sets[c][SetOf(c, b)], Ways[c])
    BY <2>2 DEF Inv
  <2>4. Effect(sets[c][SetOf(c, b)], Ways[c], b, d, ts, In(c))
    BY <2>1, <2>3, OperationEffect, Zenon
  <2>5. before(c) \in 0..Ways[c]
    BY <2>3 DEF SetInv
  <2> HIDE DEF In
  <2>6. before(c) = Ways[c] => In(c).set.touched = Ways[c]
    BY <2>1, <2>3, <2>4, EffectTouches
  <2> QED BY <2>1, <2>2, <2>5, <2>6
<1> HIDE DEF In, before
<1>3. ASSUME NEW c \in Cache
      PROVE  /\ counting'[c] \in Nat /\ warmed'[c] \in Nat /\ IsFiniteSet(Full(c)')
             /\ warmed'[c] + counting'[c] = Cardinality(Full(c)')
  <2> DEFINE k == SetOf(c, b)
  <2>0. counting[c] \in Nat /\ warmed[c] \in Nat /\ IsFiniteSet(Full(c))
        /\ warmed[c] + counting[c] = Cardinality(Full(c))
    BY DEF CountInv
  <2>1. CASE c \notin guest.caches
    <3>1. sets'[c] = sets[c] /\ counting'[c] = counting[c]
      BY <1>1, <2>0, <2>1
    <3>2. Full(c)' = Full(c)
      BY <3>1 DEF Full
    <3> QED BY <1>1, <2>0, <3>1, <3>2
  <2>2. CASE c \in guest.caches
    <3>1. /\ k \in 0..Sets[c] - 1 /\ sets'[c][k] = In(c).set
          /\ \A i \in 0..Sets[c] - 1 : i # k => sets'[c][i] = sets[c][i]
      BY <1>1, <1>2, <2>2 DEF Inv
    <3>2. before(c) = sets[c][k].touched
      BY DEF before
    <3>3. CASE before(c) < Ways[c] /\ In(c).set.touched = Ways[c]
      <4>1. counting'[c] = counting[c] + 1
        BY <1>1, <2>2, <3>3
      <4>2. k \notin Full(c) /\ Full(c)' = Full(c) \cup {k}
        BY <1>2, <3>1, <3>2, <3>3 DEF Full
      <4>3. IsFiniteSet(Full(c)') /\ Cardinality(Full(c)') = Cardinality(Full(c)) + 1
        BY <2>0, <4>2, FS_AddElement
      <4> QED BY <1>1, <2>0, <4>1, <4>3
    <3>4. CASE ~(before(c) < Ways[c] /\ In(c).set.touched = Ways[c])
      <4>1. counting'[c] = counting[c]
        BY <1>1, <2>0, <2>2, <3>4
      <4>2. In(c).set.touched = Ways[c] <=> before(c) = Ways[c]
        BY <1>2, <3>4
      <4>3. Full(c)' = Full(c)
        BY <3>1, <3>2, <4>2 DEF Full
      <4> QED BY <1>1, <2>0, <4>1, <4>3
    <3> QED BY <3>3, <3>4
  <2> QED BY <2>1, <2>2
<1>4. DOMAIN counting' = Cache /\ counting' \in [Cache -> Nat]
  BY <1>1, <1>3
<1>5. warmed' \in [Cache -> Nat]
  BY <1>1 DEF CountInv
<1> QED BY <1>3, <1>4, <1>5 DEF CountInv

(* No set is warm at the start.                                             *)
LEMMA InitCount == ASSUME Init PROVE CountInv
<1>1. counting \in [Cache -> Nat] /\ warmed \in [Cache -> Nat]
  BY DEF Init
<1>2. ASSUME NEW c \in Cache
      PROVE  IsFiniteSet(Full(c)) /\ warmed[c] + counting[c] = Cardinality(Full(c))
  <2>1. \A i \in 0..Sets[c] - 1 : sets[c][i].touched = 0
    BY DEF Init, NewSets, NewSet
  <2>2. Ways[c] # 0
    BY CacheAssumption
  <2>3. Full(c) = {}
    BY <2>1, <2>2 DEF Full
  <2>4. warmed[c] + counting[c] = 0
    BY DEF Init
  <2> QED BY <2>3, <2>4, FS_EmptySet
<1> QED BY <1>1, <1>2 DEF CountInv

(* Counting later moves a set from the threads to the counter.              *)
LEMMA NextCount == ASSUME Inv, CountInv, [Next]_vars PROVE CountInv'
<1>1. ASSUME NEW b \in guest.blocks, NEW ts \in guest.times, NEW d \in BOOLEAN, NEW op \in Ops,
             LockedFor(op, b, d, ts)
      PROVE  CountInv'
  <2>1. b \in Block /\ Section(op, b, d, ts) /\ warmed' = warmed
    BY <1>1, LockedStep, Zenon
  <2> QED BY <2>1, SectionCounts, Zenon
<1>2. ASSUME NEW c \in Cache, CountWarmed(c)
      PROVE  CountInv'
  <2>1. /\ counting[c] > 0 /\ sets' = sets
        /\ counting' = [counting EXCEPT ![c] = @ - 1] /\ warmed' = [warmed EXCEPT ![c] = @ + 1]
    BY <1>2 DEF CountWarmed
  <2>2. \A x \in Cache : Full(x)' = Full(x)
    BY <2>1 DEF Full
  <2>3. counting' \in [Cache -> Nat] /\ warmed' \in [Cache -> Nat]
    BY <2>1 DEF CountInv
  <2>4. \A x \in Cache : warmed'[x] + counting'[x] = warmed[x] + counting[x]
    BY <2>1 DEF CountInv
  <2> QED BY <2>2, <2>3, <2>4 DEF CountInv
<1>3. CASE UNCHANGED <<sets, counting, warmed>>
  BY <1>3 DEF CountInv, Full
<1>4. ASSUME NEW c \in Cache, Save(c) \/ Load(c)
      PROVE  UNCHANGED <<sets, counting, warmed>>
  BY <1>4, Zenon DEF Save, Load
<1>5. UNCHANGED vars => UNCHANGED <<sets, counting, warmed>>
  BY DEF vars
<1> QED BY <1>1, <1>2, <1>3, <1>4, <1>5, StepCases, Zenon

(* warmed_sets, although increased after the unlock by threads that may     *)
(* overtake each other, never counts a set twice and misses none but those  *)
(* whose thread is still to count.                                          *)
THEOREM WarmSetsCounted == Spec => []WarmedExact
<1>1. Init => Inv /\ CountInv
  BY InitInv, InitCount
<1>2. Inv /\ CountInv /\ [Next]_vars => (Inv /\ CountInv)'
  BY NextInv, NextCount
<1>3. CountInv => WarmedExact
  BY DEF CountInv, Full, WarmedExact
<1> QED BY <1>1, <1>2, <1>3, PTL DEF Spec

-----------------------------------------------------------------------------
(* Remainders.                                                              *)

(* Every number is a multiple of W and its remainder.                       *)
LEMMA Division ==
  ASSUME NEW W \in Int, W > 0, NEW a \in Nat
  PROVE  a = W * (a \div W) + (a % W)
OBVIOUS

LEMMA Quotient ==
  \A W \in Nat \ {0}, a \in Nat : \E q \in Int : a = W * q + (a % W) /\ a % W \in 0..W - 1
<1> SUFFICES ASSUME NEW W \in Nat \ {0}, NEW a \in Nat
             PROVE  \E q \in Int : a = W * q + (a % W) /\ a % W \in 0..W - 1
  OBVIOUS
<1>1. a = W * (a \div W) + (a % W)
  BY Division
<1>2. a \div W \in Int /\ a % W \in 0..W - 1
  OBVIOUS
<1> QED BY <1>1, <1>2

LEMMA RemainderOf ==
  ASSUME NEW n \in Nat \ {0}, NEW z \in 0..n - 1, NEW s \in Int, NEW x, x = n * s + z
  PROVE  x % n = z
OBVIOUS

(* A multiple of W that lies strictly between -W and 2W is 0 or W.          *)
LEMMA SmallMultiple ==
  ASSUME NEW W \in Nat \ {0}, NEW k \in Int, -W < W * k, W * k < 2 * W
  PROVE  k = 0 \/ k = 1
OBVIOUS

(* The difference of two times is found from their remainders.              *)
LEMMA ModDifference ==
  ASSUME NEW W \in Nat \ {0}, NEW a \in Nat, NEW b \in Nat, a > b, a - b < W
  PROVE  ((a % W) - (b % W)) % W = a - b
<1>1. a % W \in 0..W - 1 /\ b % W \in 0..W - 1
  BY Quotient
<1>2. PICK q \in Int : a = W * q + (a % W)
  BY Quotient
<1>3. PICK p \in Int : b = W * p + (b % W)
  BY Quotient
<1> DEFINE ra == a % W
           rb == b % W
           k == q - p
<1>4. W * k = W * q - W * p /\ k \in Int
  OBVIOUS
<1>5. /\ a = W * q + ra /\ b = W * p + rb /\ ra \in 0..W - 1 /\ rb \in 0..W - 1
      /\ W * q \in Int /\ W * p \in Int
  BY <1>1, <1>2, <1>3
<1> HIDE DEF ra, rb, k
<1>6. W * k = (a - b) - (ra - rb)
  BY <1>4, <1>5
<1>7. k = 0 \/ k = 1
  <2>1. -W < W * k /\ W * k < 2 * W
    BY <1>5, <1>6
  <2> QED BY <1>4, <2>1, SmallMultiple
<1>8. ra - rb = a - b \/ ra - rb = (a - b) - W
  BY <1>4, <1>5, <1>6, <1>7
<1>9. \A d \in 0..W - 1 : d % W = d /\ (d - W) % W = d
  OBVIOUS
<1>10. a - b \in 0..W - 1
  OBVIOUS
<1> QED BY <1>8, <1>9, <1>10 DEF ra, rb

(* Reducing by a divisor afterwards is the same as reducing by it at once.  *)
LEMMA ModMod ==
  ASSUME NEW m \in Nat \ {0}, NEW n \in Nat \ {0}, NEW x \in Nat, m % n = 0
  PROVE  (x % m) % n = x % n
<1>1. PICK q \in Int : x = m * q + (x % m)
  BY Quotient
<1>2. PICK p \in Int : m = n * p + (m % n)
  BY Quotient
<1>3. PICK r \in Int : (x % m) = n * r + ((x % m) % n)
  <2>1. x % m \in Nat
    BY Quotient
  <2> QED BY <2>1, Quotient
<1> DEFINE y == x % m
           z == y % n
<1>4. z \in 0..n - 1 /\ y \in Int
  BY Quotient
<1>5. x = n * (p * q + r) + z
  <2>1. m = n * p
    BY <1>2
  <2>2. m * q = n * (p * q)
    BY <2>1
  <2>3. n * (p * q + r) = n * (p * q) + n * r
    OBVIOUS
  <2>4. x = m * q + y /\ y = n * r + z
    BY <1>1, <1>3
  <2> HIDE DEF y, z
  <2> QED BY <1>4, <2>2, <2>3, <2>4
<1> HIDE DEF y, z
<1>6. p * q + r \in Int
  OBVIOUS
<1>7. x % n = z
  BY <1>4, <1>5, <1>6, RemainderOf
<1> QED BY <1>7 DEF y, z

-----------------------------------------------------------------------------
(* Lateness.                                                                *)

(* A late reply compares the time of the call with that of a younger slot.  *)
LateKinds == {"lookup_late", "evicted_late"}
Compared(s, n, ts, r) ==
  r.kind \in LateKinds =>
    \E j \in 1..n : /\ s.slot[j].ts > ts
                    /\ r.from = s.slot[j].ts /\ r.at = ts
                    /\ r.lateness = Lateness(s.slot[j].ts, ts)

(* Only the two late replies are late.                                      *)
LEMMA ReplyCompared ==
  ASSUME NEW n \in Nat, NEW s, NEW ts, NEW b, NEW r, NEW j \in 1..n,
         NEW kind, kind \in LateKinds,
         \/ r = Late(kind, b, s.slot[j], ts) /\ s.slot[j].ts > ts
         \/ r = Missed(s, b) \/ r = Hit(b, s.slot[j])
  PROVE  Compared(s, n, ts, r)
<1>1. CASE r = Late(kind, b, s.slot[j], ts) /\ s.slot[j].ts > ts
  <2>1. /\ r.from = s.slot[j].ts /\ r.at = ts
        /\ r.lateness = Lateness(s.slot[j].ts, ts)
    BY <1>1 DEF Late
  <2> QED BY <1>1, <2>1 DEF Compared
<1>2. CASE r = Missed(s, b) \/ r = Hit(b, s.slot[j])
  <2>1. r.kind \in {"cold_miss", "miss", "hit"}
    BY <1>2 DEF Missed, Hit
  <2> QED BY <2>1 DEF Compared, LateKinds
<1> QED BY <1>1, <1>2

(* A hit.                                                                   *)
LEMMA HitCompared ==
  ASSUME NEW n \in Nat, NEW s, NEW b, NEW ts, NEW takes, NEW i \in 1..n
  PROVE  Compared(s, n, ts, HitIn(s, i, b, ts, takes).reply)
<1> DEFINE r == HitIn(s, i, b, ts, takes).reply
<1>1. \/ r = Late("lookup_late", b, s.slot[i], ts) /\ s.slot[i].ts > ts
      \/ r = Hit(b, s.slot[i])
  BY DEF HitIn, Outcome
<1>2. "lookup_late" \in LateKinds
  BY DEF LateKinds
<1> HIDE DEF r
<1> QED BY <1>1, <1>2, ReplyCompared, Zenon DEF r

(* Any operation.                                                           *)
LEMMA OperationCompared ==
  ASSUME NEW n \in Nat \ {0}, NEW s, SetInv(s, n), NEW b \in Block, NEW d, NEW ts,
         NEW op \in Ops
  PROVE  Compared(s, n, ts, Outcomes(op, s, b, d, ts).reply)
<1> DEFINE i == CHOOSE i \in IndexOf(s, b) : TRUE
<1>0. n \in Nat /\ 1 \in 1..n /\ "evicted_late" \in LateKinds
  BY DEF LateKinds
<1>1. IndexOf(s, b) # {} => i \in 1..n
  <2>1. IndexOf(s, b) # {} => i \in IndexOf(s, b)
    OBVIOUS
  <2> HIDE DEF i
  <2> QED BY <2>1, FoundSlot
<1>2. Compared(s, n, ts, Missed(s, b))
  BY <1>0, ReplyCompared, Zenon
<1>3. CASE op = "lookup"
  <2>1. Outcomes(op, s, b, d, ts) = Lookup(s, b, d, ts)
    BY <1>3 DEF Outcomes
  <2>2. CASE IndexOf(s, b) = {}
    <3>1. Lookup(s, b, d, ts).reply = Missed(s, b)
      BY <2>2 DEF Lookup, Outcome
    <3> QED BY <1>2, <2>1, <3>1
  <2>3. CASE IndexOf(s, b) # {}
    <3>1. Lookup(s, b, d, ts) = HitIn(s, i, b, ts, d \/ Exclusive)
      BY <2>3, Zenon DEF Lookup
    <3> HIDE DEF i
    <3>2. Compared(s, n, ts, HitIn(s, i, b, ts, d \/ Exclusive).reply)
      BY <1>0, <1>1, <2>3, HitCompared, Zenon
    <3> QED BY <2>1, <3>1, <3>2, Zenon
  <2> QED BY <2>2, <2>3
<1>4. CASE op = "lookup_and_insert"
  <2>1. Outcomes(op, s, b, d, ts) = LookupAndInsert(s, b, d, ts)
    BY <1>4 DEF Outcomes
  <2>2. CASE IndexOf(s, b) = {}
    <3> DEFINE r == LookupAndInsert(s, b, d, ts).reply
    <3>1. \/ r = Late("evicted_late", b, s.slot[Victim(s)], ts) /\ s.slot[Victim(s)].ts > ts
          \/ r = Missed(s, b)
      BY <2>2 DEF LookupAndInsert, Outcome
    <3>2. Victim(s) \in 1..n
      BY VictimUsable DEF Usable
    <3> HIDE DEF r
    <3>3. Compared(s, n, ts, r)
      BY <1>0, <3>1, <3>2, ReplyCompared, Zenon
    <3> QED BY <2>1, <3>3 DEF r
  <2>3. CASE IndexOf(s, b) # {}
    <3> DEFINE takes == (d \/ Exclusive) /\ s.slot[i].ts <= ts
    <3>1. LookupAndInsert(s, b, d, ts) = HitIn(s, i, b, ts, takes)
      BY <2>3, Zenon DEF LookupAndInsert
    <3> HIDE DEF i, takes
    <3>2. Compared(s, n, ts, HitIn(s, i, b, ts, takes).reply)
      BY <1>0, <1>1, <2>3, HitCompared, Zenon
    <3> QED BY <2>1, <3>1, <3>2, Zenon
  <2> QED BY <2>2, <2>3
<1>5. CASE op = "insert"
  <2>1. Outcomes(op, s, b, d, ts) = Insert(s, b, d, ts)
    BY <1>5 DEF Outcomes
  <2>2. Insert(s, b, d, ts).reply.kind = "inserted"
    BY DEF Insert, Outcome
  <2> QED BY <2>1, <2>2 DEF Compared, LateKinds
<1>6. CASE op = "invalidate"
  <2>1. Outcomes(op, s, b, d, ts) = Lookup(s, b, TRUE, ts)
    BY <1>6 DEF Outcomes, Invalidate
  <2>2. CASE IndexOf(s, b) = {}
    <3>1. Lookup(s, b, TRUE, ts).reply = Missed(s, b)
      BY <2>2 DEF Lookup, Outcome
    <3> QED BY <1>2, <2>1, <3>1
  <2>3. CASE IndexOf(s, b) # {}
    <3>1. Lookup(s, b, TRUE, ts) = HitIn(s, i, b, ts, TRUE \/ Exclusive)
      BY <2>3, Zenon DEF Lookup
    <3> HIDE DEF i
    <3>2. Compared(s, n, ts, HitIn(s, i, b, ts, TRUE \/ Exclusive).reply)
      BY <1>0, <1>1, <2>3, HitCompared, Zenon
    <3> QED BY <2>1, <3>1, <3>2, Zenon
  <2> QED BY <2>2, <2>3
<1> QED BY <1>3, <1>4, <1>5, <1>6 DEF Ops

(* Slots carry times of the guest.                                          *)
TimesIn(s, n) == \A j \in 1..n : s.slot[j].ts \in {0} \union guest.times
TimesInv == \A c \in Cache : \A i \in 0..Sets[c] - 1 : TimesIn(sets[c][i], Ways[c])

LEMMA EffectTimes ==
  ASSUME NEW n \in Nat \ {0}, NEW s, SetInv(s, n), NEW b \in Block, NEW d, NEW ts \in guest.times,
         NEW o, Effect(s, n, b, d, ts, o), TimesIn(s, n)
  PROVE  TimesIn(o.set, n)
<1>1. DOMAIN s.slot = 1..n
  BY DEF SetInv
<1>2. ASSUME NEW i \in 1..n, NEW slot, NEW touched, o.set = Put(s, i, slot, touched),
             slot.ts \in {0} \union guest.times
      PROVE  TimesIn(o.set, n)
  <2>1. o.set.slot = [s.slot EXCEPT ![i] = slot]
    BY <1>2 DEF Put
  <2>2. \A j \in 1..n : o.set.slot[j] = IF j = i THEN slot ELSE s.slot[j]
    BY <1>1, <2>1
  <2> QED BY <1>2, <2>2 DEF TimesIn
<1>3. \A i \in IndexOf(s, b) : i \in 1..n /\ s.slot[i] \in Slot
  BY FoundSlot
<1>4. CASE o.set = s
  BY <1>4
<1>5. CASE Left(s, b, o.set)
  <2>1. Empty.ts = 0
    BY DEF Empty
  <2> QED BY <1>2, <1>3, <1>5, <2>1 DEF Left
<1>6. CASE TookOver(s, b, ts, o.set)
  <2>1. \A i \in IndexOf(s, b) : ReadBlock(s.slot[i], ts).ts = ts
    BY <1>3 DEF ReadBlock, Slot
  <2> QED BY <1>2, <1>3, <1>6, <2>1 DEF TookOver
<1>7. CASE Merged(s, b, d, ts, o.set)
  <2>1. \A i \in IndexOf(s, b) : Refreshed(s.slot[i], d, ts).ts = ts
    BY <1>3 DEF Refreshed, Slot
  <2> QED BY <1>2, <1>3, <1>7, <2>1 DEF Merged
<1>8. CASE Entered(s, n, b, d, ts, o.set)
  <2>1. [block |-> b, ts |-> ts, dirty |-> d].ts = ts
    OBVIOUS
  <2> QED BY <1>2, <1>8, <2>1 DEF Entered
<1> QED BY <1>4, <1>5, <1>6, <1>7, <1>8 DEF Effect

(* The times at hand lie closer together than a low half can tell apart, or *)
(* they come in order and nothing is late.                                  *)
TimesApart == \A g \in Workloads : ~g.inOrder => \A t, u \in g.times : t - u < Width

LateInv ==
  /\ TimesInv /\ now \in Nat /\ LatenessExact
  /\ IF guest.inOrder THEN invalidating = {} \/ now > 0 ELSE now = 0

(* The clock when something is done under a lock: it moves to the time of a *)
(* call whose guest brings them in order, and has moved before an           *)
(* invalidation takes its lock again.                                       *)
LEMMA LockedNow ==
  ASSUME Inv, LateInv, NEW op \in Ops, NEW b \in guest.blocks, NEW d \in BOOLEAN,
         NEW ts \in guest.times, LockedFor(op, b, d, ts)
  PROVE  /\ now' \in Nat /\ IF guest.inOrder THEN now' > 0 ELSE now' = 0
         /\ \/ reply' = Replies(op, b, d, ts)
            \/ reply' = [c \in guest.caches |-> Dropped(b)]
<1> DEFINE t == [block |-> b, ts |-> ts]
<1>0. t.block = b /\ t.ts = ts /\ ts \in Nat /\ ts > 0
  BY CacheAssumption DEF Inv
<1> HIDE DEF t
<1>1. CASE Call(op, b, d, ts)
  <2>1. now' = (IF guest.inOrder THEN ts ELSE now) /\ reply' = Replies(op, b, d, ts)
    BY <1>1, Zenon DEF Call, Begins
  <2> QED BY <1>0, <2>1 DEF LateInv
<1>2. CASE InvalidateFirst(b, ts)
  <2>1. now' = (IF guest.inOrder THEN ts ELSE now) /\ reply' = [c \in guest.caches |-> Dropped(b)]
    BY <1>2, Zenon DEF InvalidateFirst, Begins
  <2> QED BY <1>0, <2>1 DEF LateInv
<1>3. CASE op = "invalidate" /\ d = TRUE /\ InvalidateAgain(t)
  <2>1. /\ now' = now /\ t \in invalidating
        /\ reply' = Replies("invalidate", t.block, TRUE, t.ts)
    BY <1>3, Zenon DEF InvalidateAgain
  <2>2. now' \in Nat /\ IF guest.inOrder THEN now' > 0 ELSE now' = 0
    BY <2>1 DEF LateInv
  <2>3. reply' = Replies(op, b, d, ts)
    BY <1>0, <1>3, <2>1, Zenon
  <2> QED BY <2>2, <2>3
<1> QED BY <1>1, <1>2, <1>3, Zenon DEF LockedFor, t

(* A call is answered by the difference of the two times.                   *)
LEMMA LockedLate ==
  ASSUME TimesApart, Inv, LateInv, NEW op \in Ops,
         NEW b \in guest.blocks, NEW d \in BOOLEAN, NEW ts \in guest.times, LockedFor(op, b, d, ts)
  PROVE  LateInv'
<1> DEFINE In(c) == Outcomes(op, sets[c][SetOf(c, b)], b, d, ts)
<1>0. b \in Block /\ Section(op, b, d, ts) /\ guest' = guest
  BY LockedStep, Zenon
<1>1. /\ sets' = [c \in Cache |-> IF c \in guest.caches
                                  THEN [sets[c] EXCEPT ![SetOf(c, b)] = In(c).set] ELSE sets[c]]
      /\ guest' = guest
  BY <1>0, Zenon DEF Section
<1>9. /\ now' \in Nat /\ IF guest.inOrder THEN now' > 0 ELSE now' = 0
      /\ \/ reply' = [c \in guest.caches |-> In(c).reply]
         \/ reply' = [c \in guest.caches |-> Dropped(b)]
  <2>1. Replies(op, b, d, ts) = [c \in guest.caches |-> In(c).reply]
    BY DEF Replies
  <2> HIDE DEF In
  <2> QED BY <2>1, LockedNow, Zenon
<1>2. guest \in Workloads /\ guest.times \subseteq Nat \ {0} /\ guest.caches \subseteq Cache
      /\ ts \in Nat /\ ts > 0
  BY CacheAssumption DEF Inv
<1>3. ASSUME NEW c \in Cache
      PROVE  /\ SetOf(c, b) \in 0..Sets[c] - 1 /\ Ways[c] \in Nat \ {0}
             /\ SetInv(sets[c][SetOf(c, b)], Ways[c]) /\ TimesIn(sets[c][SetOf(c, b)], Ways[c])
  <2>1. Ways[c] \in Nat \ {0} /\ Sets[c] \in Nat \ {0} /\ b \in Nat
    BY <1>0, CacheAssumption
  <2>2. SetOf(c, b) \in 0..Sets[c] - 1
    BY <2>1 DEF SetOf
  <2> QED BY <2>1, <2>2 DEF Inv, LateInv, TimesInv
<1>4. ASSUME NEW c \in Cache
      PROVE  TimesIn(In(c).set, Ways[c])
  <2>1. Effect(sets[c][SetOf(c, b)], Ways[c], b, d, ts, In(c))
    BY <1>0, <1>3, OperationEffect, Zenon
  <2> HIDE DEF In
  <2> QED BY <1>0, <1>3, <2>1, EffectTimes, Zenon
<1>5. ASSUME NEW c \in Cache
      PROVE  Compared(sets[c][SetOf(c, b)], Ways[c], ts, In(c).reply)
  BY <1>0, <1>3, OperationCompared, Zenon
<1> HIDE DEF In
<1>6. TimesInv'
  <2>1. ASSUME NEW c \in Cache, NEW i \in 0..Sets[c] - 1
        PROVE  TimesIn(sets'[c][i], Ways[c])
    <3>1. sets'[c][i] = sets[c][i] \/ sets'[c][i] = In(c).set
      BY <1>1 DEF Inv
    <3>2. TimesIn(sets[c][i], Ways[c])
      BY DEF LateInv, TimesInv
    <3> QED BY <1>4, <3>1, <3>2
  <2> QED BY <1>1, <2>1 DEF TimesInv, TimesIn
<1>8. LatenessExact'
  <2>1. CASE guest.inOrder
    BY <1>9, <2>1 DEF LatenessExact
  <2>2. ASSUME ~guest.inOrder, NEW c \in DOMAIN reply', reply'[c].kind \in LateKinds
        PROVE  reply'[c].lateness = reply'[c].from - reply'[c].at
    <3>1. c \in Cache /\ reply'[c] = In(c).reply
      <4>1. c \in guest.caches
        BY <1>9
      <4>2. Dropped(b).kind \notin LateKinds
        BY DEF Dropped, LateKinds
      <4> QED BY <1>2, <1>9, <2>2, <4>1, <4>2
    <3> DEFINE s == sets[c][SetOf(c, b)]
               r == reply'[c]
    <3>2. PICK j \in 1..Ways[c] : /\ s.slot[j].ts > ts
                                  /\ r.from = s.slot[j].ts /\ r.at = ts
                                  /\ r.lateness = Lateness(s.slot[j].ts, ts)
      BY <1>5, <2>2, <3>1 DEF Compared
    <3>3. s.slot[j].ts \in {0} \union guest.times
      BY <1>3, <3>1 DEF TimesIn
    <3> DEFINE t == s.slot[j].ts
    <3>4. t \in guest.times /\ t \in Nat /\ t > ts
      BY <1>2, <3>2, <3>3
    <3>5. t - ts < Width
      BY <1>2, <2>2, <3>4 DEF TimesApart
    <3> HIDE DEF t
    <3>6. Lateness(t, ts) = t - ts
      BY <1>2, <3>4, <3>5, ModDifference, CacheAssumption DEF Lateness
    <3> QED BY <3>2, <3>6 DEF t
  <2> QED BY <2>1, <2>2 DEF LatenessExact, LateKinds
<1> QED BY <1>1, <1>6, <1>8, <1>9 DEF LateInv

(* Nothing is late at the start.                                            *)
LEMMA InitLate == ASSUME Init PROVE LateInv
<1>1. ASSUME NEW c \in Cache, NEW i \in 0..Sets[c] - 1, NEW j \in 1..Ways[c]
      PROVE  sets[c][i].slot[j].ts = 0
  BY DEF Init, NewSets, NewSet, Empty
<1>2. now = 0 /\ reply = [kind |-> "none"] /\ invalidating = {}
  BY DEF Init
<1> QED BY <1>1, <1>2 DEF LateInv, TimesInv, TimesIn, LatenessExact

LEMMA NextLate == ASSUME TimesApart, Inv, LateInv, [Next]_vars PROVE LateInv'
<1>1. ASSUME NEW b \in guest.blocks, NEW ts \in guest.times, NEW d \in BOOLEAN, NEW op \in Ops,
             LockedFor(op, b, d, ts)
      PROVE  LateInv'
  BY <1>1, LockedLate
<1>2. ASSUME UNCHANGED <<guest, sets, invalidating, now, reply>>
      PROVE  LateInv'
  BY <1>2 DEF LateInv, TimesInv, TimesIn, LatenessExact
<1> QED BY <1>1, <1>2, StepLocks, Zenon

(* A call either panics or does not.                                        *)
LEMMA NextPanicked == ASSUME Inv, panicked \in BOOLEAN, [Next]_vars PROVE panicked' \in BOOLEAN
<1>1. ASSUME NEW op \in Ops, NEW b \in guest.blocks, NEW d \in BOOLEAN, NEW ts \in guest.times,
             LockedFor(op, b, d, ts)
      PROVE  panicked' \in BOOLEAN
  <2> DEFINE In(c) == Outcomes(op, sets[c][SetOf(c, b)], b, d, ts)
             Bad == \E c \in guest.caches : In(c).panic
  <2>1. Section(op, b, d, ts)
    BY <1>1, LockedStep, Zenon
  <2>2. panicked' = Bad
    BY <2>1, Zenon DEF Section
  <2>3. Bad \in BOOLEAN
    OBVIOUS
  <2> QED BY <2>2, <2>3, Zenon
<1> QED BY <1>1, StepLocks, Zenon

(* All of SetsConsistent: sets are in order, each warm set is counted once  *)
(* and the lateness of an access is reported exactly, if the times that     *)
(* threads bring out of order differ by less than the low half that is kept *)
(* can tell (2^32).                                                         *)
THEOREM SharedSetsConsistent ==
  ASSUME TimesApart
  PROVE  Spec => []SetsConsistent
<1> DEFINE All == Inv /\ CountInv /\ LateInv /\ panicked \in BOOLEAN
<1>1. Init => All
  <2>1. Init => panicked \in BOOLEAN
    BY DEF Init
  <2> QED BY <2>1, InitInv, InitCount, InitLate
<1>2. All /\ [Next]_vars => All'
  BY NextInv, NextCount, NextLate, NextPanicked
<1>3. All => SetsConsistent
  <2>1. Inv => NoDuplicates /\ ColdSlotsEmpty
    BY ZenonT(60) DEF Inv, SetInv, NoDuplicates, ColdSlotsEmpty
  <2>2. CountInv => WarmedExact
    BY DEF CountInv, Full, WarmedExact
  <2>3. All => TypeOK
    <3>1. Inv => invalidating \subseteq [block : Block, ts : Nat]
      BY CacheAssumption DEF Inv
    <3> QED BY <3>1 DEF Inv, SetInv, CountInv, TypeOK
  <2> QED BY <2>1, <2>2, <2>3 DEF SetsConsistent, LateInv
<1> HIDE DEF All
<1> QED BY <1>1, <1>2, <1>3, PTL DEF Spec

-----------------------------------------------------------------------------
(* The checkpoint of a shared cache.                                        *)

(* The sets of a worker, from First on and before Bound.                    *)
First(c, w) == (w - 1) * (Sets[c] \div Workers)
Bound(c, w) == IF w = Workers THEN Sets[c] ELSE w * (Sets[c] \div Workers)

Shards(c) ==
  [w \in 1..Workers |->
     [cache |-> c, warmed |-> warmed[c],
      blocks |-> [i \in 0..Cardinality(Shard(c, w)) - 1 |->
                    sets[c][Min(Shard(c, w) \union {Sets[c]}) + i]]]]

(* What is on disk is what the stopped cores left, and the shards loaded so *)
(* far are a prefix of it without a gap.                                    *)
IsTable(f, c) == f = [i \in 0..Sets[c] - 1 |-> f[i]]
LoadedOf(c) ==
  /\ files = Shards(c) /\ counting[c] = 0 /\ loaded \in 0..Workers
  /\ \A i \in 0..Sets[c] - 1 : i < Bound(c, loaded) => restored[c][i] = sets[c][i]
LoadInv ==
  /\ DOMAIN restored = Cache
  /\ \A c \in Cache : IsTable(sets[c], c) /\ IsTable(restored[c], c)
  /\ IF files = <<>> THEN loaded = 0 ELSE \E c \in Cache : LoadedOf(c)

(* The shards lie side by side and end with the last set.                   *)
LEMMA ShardBounds ==
  ASSUME NEW c \in Cache, NEW w \in 1..Workers
  PROVE  /\ First(c, w) \in Nat /\ Bound(c, w) \in Nat
         /\ First(c, w) <= Bound(c, w) /\ Bound(c, w) <= Sets[c]
         /\ First(c, w) = Bound(c, w - 1)
         /\ Shard(c, w) = First(c, w)..Bound(c, w) - 1
<1> DEFINE n == Sets[c] \div Workers
<1>1. Sets[c] \in Nat \ {0} /\ Workers \in Nat \ {0}
  BY CacheAssumption
<1>2. \A S \in Nat, W \in Nat \ {0} :
        S \div W \in Nat /\ \A v \in 0..W : v * (S \div W) \in Nat /\ v * (S \div W) <= S
  OBVIOUS
<1>3. n \in Nat /\ \A v \in 0..Workers : v * n \in Nat /\ v * n <= Sets[c]
  BY <1>1, <1>2
<1>4. w - 1 \in 0..Workers /\ w \in 0..Workers /\ w - 1 # Workers
  BY <1>1
<1> HIDE DEF n
<1>5. (w - 1) * n \in Nat /\ (w - 1) * n <= Sets[c] /\ w * n \in Nat /\ w * n <= Sets[c]
  BY <1>3, <1>4
<1>6. (w - 1) * n <= w * n
  <2>1. w * n = (w - 1) * n + n
    BY <1>3, <1>4
  <2> QED BY <1>3, <1>5, <2>1
<1>7. First(c, w) = (w - 1) * n /\ Bound(c, w) = (IF w = Workers THEN Sets[c] ELSE w * n)
      /\ Bound(c, w - 1) = (w - 1) * n
  BY <1>4 DEF First, Bound, n
<1>8. Shard(c, w) = (w - 1) * n .. IF w = Workers THEN Sets[c] - 1 ELSE w * n - 1
  BY DEF Shard, n
<1>9. Shard(c, w) = First(c, w)..Bound(c, w) - 1
  BY <1>7, <1>8
<1> QED BY <1>1, <1>5, <1>6, <1>7, <1>9

(* How many sets a shard has, and which is the first.                       *)
LEMMA ShardContent ==
  ASSUME NEW c \in Cache, NEW w \in 1..Workers
  PROVE  /\ Cardinality(Shard(c, w)) = Bound(c, w) - First(c, w)
         /\ First(c, w) < Bound(c, w) => Min(Shard(c, w) \union {Sets[c]}) = First(c, w)
<1> DEFINE lo == First(c, w)
           hi == Bound(c, w)
           T == Shard(c, w) \union {Sets[c]}
<1>1. lo \in Nat /\ hi \in Nat /\ lo <= hi /\ hi <= Sets[c] /\ Shard(c, w) = lo..hi - 1
  BY ShardBounds
<1>2. Sets[c] \in Nat
  BY CacheAssumption
<1> HIDE DEF lo, hi
<1>3. Cardinality(Shard(c, w)) = hi - lo
  <2>1. lo \in Int /\ hi - 1 \in Int
    BY <1>1
  <2>2. Cardinality(lo..hi - 1) = IF lo > hi - 1 THEN 0 ELSE (hi - 1) - lo + 1
    BY <2>1, FS_Interval
  <2> QED BY <1>1, <2>2
<1>4. ASSUME lo < hi PROVE Min(T) = lo
  <2>1. lo \in T /\ \A y \in T : lo <= y
    BY <1>1, <1>2, <1>4
  <2>2. \A x \in T : (\A y \in T : x <= y) => x = lo
    <3>1. T \subseteq Int
      BY <1>1, <1>2
    <3> HIDE DEF T
    <3> QED BY <2>1, <3>1
  <2> QED BY <2>1, <2>2 DEF Min
<1> QED BY <1>3, <1>4 DEF lo, hi

(* Loading the next shard extends the prefix.                               *)
LEMMA LoadExtends ==
  ASSUME LoadInv, NEW d \in Cache, Load(d)
  PROVE  LoadInv'
<1> DEFINE w == loaded + 1
           f == files[loaded + 1]
           first == Min(Shard(d, loaded + 1) \union {Sets[d]})
<1>1. /\ loaded < Len(files) /\ f.cache = d
      /\ restored' = [restored EXCEPT ![d] = [i \in DOMAIN @ |->
                        IF i - first \in DOMAIN f.blocks THEN f.blocks[i - first] ELSE @[i]]]
      /\ loaded' = loaded + 1
      /\ UNCHANGED <<guest, sets, counting, warmed, files>>
  BY DEF Load
<1>2. files # <<>>
  BY <1>1 DEF LoadInv
<1>3. PICK c \in Cache : LoadedOf(c)
  BY <1>2 DEF LoadInv
<1>4. Workers \in Nat \ {0} /\ Len(files) = Workers /\ loaded \in 0..Workers /\ w \in 1..Workers
  <2>1. Workers \in Nat \ {0}
    BY CacheAssumption
  <2>2. Len(files) = Workers
    BY <1>3, <2>1 DEF LoadedOf, Shards
  <2> QED BY <1>1, <1>3, <2>1, <2>2 DEF LoadedOf
<1> HIDE DEF first
<1>5. /\ f.cache = c
      /\ f.blocks = [i \in 0..Cardinality(Shard(c, w)) - 1 |->
                       sets[c][Min(Shard(c, w) \union {Sets[c]}) + i]]
  BY <1>3, <1>4 DEF LoadedOf, Shards
<1>6. c = d
  BY <1>1, <1>5
<1>7. DOMAIN restored' = Cache /\ \A x \in Cache : x # d => restored'[x] = restored[x]
  BY <1>1 DEF LoadInv
<1>8. DOMAIN restored[d] = 0..Sets[d] - 1
  BY DEF LoadInv, IsTable
<1>9. restored'[d] = [i \in 0..Sets[d] - 1 |->
        IF i - first \in DOMAIN f.blocks THEN f.blocks[i - first] ELSE restored[d][i]]
  BY <1>1, <1>8 DEF LoadInv
<1> HIDE DEF f
<1>10. \A x \in Cache : IsTable(sets'[x], x) /\ IsTable(restored'[x], x)
  <2>1. IsTable(restored'[d], d)
    BY <1>9 DEF IsTable
  <2> QED BY <1>1, <1>7, <2>1 DEF LoadInv
<1>11. ASSUME NEW i \in 0..Sets[d] - 1, i < Bound(d, w)
       PROVE  restored'[d][i] = sets[d][i]
  <2> DEFINE lo == First(d, w)
             hi == Bound(d, w)
  <2>1. lo \in Nat /\ hi \in Nat /\ lo <= hi /\ hi <= Sets[d] /\ lo = Bound(d, w - 1)
    BY <1>4, ShardBounds
  <2>2. Cardinality(Shard(d, w)) = hi - lo /\ (lo < hi => first = lo)
    BY <1>4, ShardContent DEF first
  <2>3. DOMAIN f.blocks = 0..hi - lo - 1
    BY <1>5, <1>6, <2>2
  <2>4. w - 1 = loaded
    BY <1>4
  <2>5. restored'[d][i] = IF i - first \in DOMAIN f.blocks THEN f.blocks[i - first]
                                                          ELSE restored[d][i]
    BY <1>9
  <2> HIDE DEF lo, hi, w
  <2>6. CASE i < lo
    <3>1. restored[d][i] = sets[d][i]
      BY <1>3, <1>6, <2>1, <2>4, <2>6 DEF LoadedOf
    <3>2. i - first \notin DOMAIN f.blocks
      <4>1. CASE lo < hi
        BY <2>1, <2>2, <2>3, <2>6, <4>1
      <4>2. CASE lo = hi
        BY <2>1, <2>3, <4>2
      <4> QED BY <2>1, <4>1, <4>2
    <3> QED BY <2>5, <3>1, <3>2
  <2>7. CASE lo <= i
    <3>1. i < hi
      BY <1>11 DEF hi
    <3>2. lo < hi
      BY <2>1, <2>7, <3>1
    <3>3. first = lo
      BY <2>2, <3>2
    <3>4. i - first \in 0..hi - lo - 1
      BY <2>1, <2>7, <3>1, <3>3
    <3>5. f.blocks[i - first] = sets[d][Min(Shard(d, w) \union {Sets[d]}) + (i - first)]
      BY <1>5, <1>6, <2>2, <3>4
    <3>6. Min(Shard(d, w) \union {Sets[d]}) + (i - first) = i
      <4>1. Min(Shard(d, w) \union {Sets[d]}) = first
        BY DEF first, w
      <4> QED BY <2>1, <3>3, <4>1
    <3> QED BY <2>3, <2>5, <3>4, <3>5, <3>6
  <2> QED BY <2>1, <2>6, <2>7
<1>12. LoadedOf(d)'
  <2>1. files' = Shards(d)' /\ counting'[d] = 0
    BY <1>1, <1>3, <1>6 DEF LoadedOf, Shards
  <2>2. loaded' \in 0..Workers /\ loaded' = w
    BY <1>1, <1>4
  <2>3. \A i \in 0..Sets[d] - 1 : i < Bound(d, loaded') => restored'[d][i] = sets'[d][i]
    BY <1>1, <1>11, <2>2
  <2> QED BY <2>1, <2>2, <2>3 DEF LoadedOf, Bound
<1>13. files' # <<>>
  BY <1>1, <1>2
<1> QED BY <1>7, <1>10, <1>12, <1>13 DEF LoadInv

(* Nothing is on disk at the start.                                         *)
LEMMA InitLoad == ASSUME Init PROVE LoadInv
<1>1. DOMAIN restored = Cache /\ files = <<>> /\ loaded = 0
  BY DEF Init
<1>2. ASSUME NEW c \in Cache PROVE IsTable(sets[c], c) /\ IsTable(restored[c], c)
  <2>1. sets[c] = NewSets(c) /\ restored[c] = NewSets(c)
    BY DEF Init
  <2> QED BY <2>1 DEF NewSets, IsTable
<1> QED BY <1>1, <1>2 DEF LoadInv

(* A checkpoint stops the cores: no call and no count of its cache follows. *)
LEMMA NextLoad == ASSUME Inv, CountInv, LoadInv, [Next]_vars PROVE LoadInv'
<1>1. ASSUME NEW b \in guest.blocks, NEW ts \in guest.times, NEW d \in BOOLEAN, NEW op \in Ops,
             LockedFor(op, b, d, ts)
      PROVE  LoadInv'
  <2>1. /\ files = <<>> /\ files' = files /\ restored' = restored /\ loaded' = loaded
        /\ \A c \in Cache : \/ sets'[c] = sets[c]
                            \/ \E i, o : sets'[c] = [sets[c] EXCEPT ![i] = o]
    <3>1. files = <<>> /\ UNCHANGED <<files, restored, loaded>> /\ Section(op, b, d, ts)
      BY <1>1, LockedStep, Zenon DEF checkpointVars
    <3> DEFINE In(c) == Outcomes(op, sets[c][SetOf(c, b)], b, d, ts)
    <3>2. sets' = [c \in Cache |-> IF c \in guest.caches
                                  THEN [sets[c] EXCEPT ![SetOf(c, b)] = In(c).set] ELSE sets[c]]
      BY <3>1, Zenon DEF Section
    <3> HIDE DEF In
    <3> QED BY <3>1, <3>2
  <2>2. ASSUME NEW c \in Cache PROVE IsTable(sets'[c], c)
    <3>1. DOMAIN sets[c] = 0..Sets[c] - 1
      BY DEF Inv
    <3> QED BY <2>1, <3>1 DEF IsTable, LoadInv
  <2> QED BY <2>1, <2>2 DEF LoadInv
<1>2. ASSUME NEW d \in Cache, CountWarmed(d)
      PROVE  LoadInv'
  <2>1. /\ counting[d] > 0 /\ counting' = [counting EXCEPT ![d] = @ - 1]
        /\ warmed' = [warmed EXCEPT ![d] = @ + 1]
        /\ UNCHANGED <<sets, files, restored, loaded>>
    BY <1>2 DEF CountWarmed, checkpointVars
  <2>2. ASSUME NEW c \in Cache, LoadedOf(c) PROVE LoadedOf(c)'
    <3>1. c # d
      BY <2>1, <2>2 DEF LoadedOf
    <3>2. counting'[c] = counting[c] /\ warmed'[c] = warmed[c]
      BY <2>1, <3>1 DEF CountInv
    <3>3. Shards(c)' = Shards(c)
      BY <2>1, <3>2 DEF Shards
    <3> QED BY <2>1, <2>2, <3>2, <3>3 DEF LoadedOf
  <2> QED BY <2>1, <2>2 DEF LoadInv
<1>3. ASSUME NEW c \in Cache, Save(c)
      PROVE  LoadInv'
  <2>1. /\ files = <<>> /\ files' = Shards(c) /\ counting[c] = 0
        /\ UNCHANGED <<sets, counting, warmed, restored, loaded>>
    BY <1>3 DEF Save, Running, Shards
  <2>2. loaded = 0 /\ Workers \in Nat \ {0}
    BY <2>1, CacheAssumption DEF LoadInv
  <2>3. Bound(c, 0) = 0
    <3>1. Sets[c] \in Nat \ {0}
      BY CacheAssumption
    <3>2. \A S \in Nat, W \in Nat \ {0} : 0 * (S \div W) = 0
      OBVIOUS
    <3> QED BY <2>2, <3>1, <3>2 DEF Bound
  <2>4. Shards(c)' = Shards(c)
    BY <2>1 DEF Shards
  <2>5. LoadedOf(c)'
    <3>1. \A i \in 0..Sets[c] - 1 : ~(i < Bound(c, 0))
      BY <2>3
    <3> QED BY <2>1, <2>2, <2>4, <3>1 DEF LoadedOf, Bound
  <2>6. files' # <<>>
    <3>1. Len(files') = Workers
      BY <2>1, <2>2 DEF Shards
    <3> QED BY <2>2, <3>1
  <2> QED BY <2>1, <2>5, <2>6 DEF LoadInv
<1>4. ASSUME NEW c \in Cache, Load(c)
      PROVE  LoadInv'
  BY <1>4, LoadExtends
<1>5. CASE UNCHANGED vars
  <2>1. UNCHANGED <<sets, counting, warmed, files, restored, loaded>>
    BY <1>5 DEF vars, checkpointVars
  <2>2. ASSUME NEW c \in Cache, LoadedOf(c) PROVE LoadedOf(c)'
    BY <2>1, <2>2 DEF LoadedOf, Shards
  <2> QED BY <2>1, <2>2 DEF LoadInv
<1> QED BY <1>1, <1>2, <1>3, <1>4, <1>5, StepCases, Zenon

(* What all workers wrote is what the next process starts with, for any     *)
(* number of sets and workers: also when the sets cannot be shared out      *)
(* evenly, and when there are fewer sets than workers.                      *)
THEOREM CheckpointRestored == Spec => []RestoredExactly
<1>1. Init => Inv /\ CountInv /\ LoadInv
  BY InitInv, InitCount, InitLoad
<1>2. Inv /\ CountInv /\ LoadInv /\ [Next]_vars => (Inv /\ CountInv /\ LoadInv)'
  BY NextInv, NextCount, NextLoad
<1>3. LoadInv => RestoredExactly
  <2> SUFFICES ASSUME LoadInv, loaded = Workers
               PROVE  LET c == files[1].cache IN
                      restored[c] = sets[c] /\ \A w \in 1..Workers : files[w].warmed = warmed[c]
    BY DEF RestoredExactly
  <2>1. Workers \in Nat \ {0}
    BY CacheAssumption
  <2>2. PICK c \in Cache : LoadedOf(c)
    BY <2>1 DEF LoadInv
  <2>3. /\ files[1].cache = c
        /\ \A w \in 1..Workers : files[w].warmed = warmed[c]
    BY <2>1, <2>2 DEF LoadedOf, Shards
  <2>4. \A i \in 0..Sets[c] - 1 : restored[c][i] = sets[c][i]
    <3>1. Bound(c, loaded) = Sets[c] /\ Sets[c] \in Nat
      BY CacheAssumption DEF Bound
    <3> QED BY <2>2, <3>1 DEF LoadedOf
  <2>5. restored[c] = sets[c]
    BY <2>4 DEF LoadInv, IsTable
  <2> QED BY <2>3, <2>5
<1> QED BY <1>1, <1>2, <1>3, PTL DEF Spec

-----------------------------------------------------------------------------
(* Resizing.                                                                *)

(* A block of age ts entered a set of n slots: it took the place of an older *)
(* copy of its own, a free slot, or the place of the oldest.                *)
Replaces(b, n, R, gone) ==
  IF \E e \in R : e.block = b THEN gone = {e \in R : e.block = b}
  ELSE IF Cardinality(R) < n THEN gone = {}
  ELSE \E x \in R : gone = {x} /\ \A y \in R : x.ts <= y.ts

(* A holds the youngest of U: all of it, or n of it if it is complete.      *)
Youngest(U, A) ==
  /\ A \subseteq U
  /\ \A e \in A, f \in U : f.ts > e.ts => f \in A
Complete(U, A, n) == A = U \/ Cardinality(A) = n

(* What a small cache keeps of a pool it shares with a larger one: of the   *)
(* pool, the sets of the larger cache lose what they replace, the set of    *)
(* the smaller one what it replaces, and the youngest stay the youngest.    *)
LEMMA YoungestStep ==
  ASSUME NEW n \in Nat \ {0}, NEW m \in Nat \ {0}, n <= m,
         NEW U, NEW R \in SUBSET U, NEW A, Youngest(U, A),
         IsFiniteSet(A), Cardinality(A) <= n, IsFiniteSet(R), Cardinality(R) <= m,
         \A e \in U : e.ts \in Nat, \A e, f \in U : e.ts = f.ts \/ e.block = f.block => e = f,
         NEW b, \A e \in U : e.block = b => e \in R,
         NEW new, new.ts \in Nat, \A e \in U : e.ts < new.ts,
         NEW goneR \in SUBSET R, Replaces(b, m, R, goneR),
         NEW goneA \in SUBSET A, Replaces(b, n, A, goneA)
  PROVE  /\ Youngest((U \ goneR) \union {new}, (A \ goneA) \union {new})
         /\ Complete(U, A, n) => Complete((U \ goneR) \union {new}, (A \ goneA) \union {new}, n)
<1> DEFINE V == (U \ goneR) \union {new}
           B == (A \ goneA) \union {new}
<1>1. A \subseteq U /\ new \notin U
  BY DEF Youngest
<1>2. Cardinality(A) \in Nat /\ Cardinality(R) \in Nat
  BY FS_CardinalityType
<1>3. \A e \in A, f \in U : f.ts > e.ts => f \in A
  BY DEF Youngest
(* Whether it had the block or not, what the smaller set gives up is older  *)
(* than what it keeps, or is the block itself.                              *)
<1>4. ASSUME NEW e \in A \ goneA, NEW f \in U \ goneR, f.ts > e.ts
      PROVE  f \in A \ goneA
  <2>1. f \in A
    BY <1>1, <1>3, <1>4
  <2>2. ASSUME f \in goneA PROVE FALSE
    <3>1. CASE \E y \in A : y.block = b
      <4>1. f.block = b
        BY <2>2, <3>1 DEF Replaces
      <4>2. f \in R /\ f \in goneR
        BY <1>4, <4>1 DEF Replaces
      <4> QED BY <1>4, <4>2
    <3>2. CASE ~\E y \in A : y.block = b
      <4>1. PICK x \in A : goneA = {x} /\ \A y \in A : x.ts <= y.ts
        BY <2>2, <3>2 DEF Replaces
      <4>2. f = x
        BY <2>2, <4>1
      <4>3. f.ts <= e.ts
        BY <4>1, <4>2
      <4> QED BY <1>1, <1>4, <4>3
    <3> QED BY <3>1, <3>2
  <2> QED BY <2>1, <2>2
<1>5. \A e \in B, f \in V : f.ts > e.ts => f \in B
  <2> SUFFICES ASSUME NEW e \in B, NEW f \in V, f.ts > e.ts, f # new PROVE f \in B
    OBVIOUS
  <2>1. f \in U \ goneR /\ f.ts < new.ts /\ f.ts \in Nat
    OBVIOUS
  <2>2. e # new
    BY <2>1
  <2> QED BY <1>4, <2>1, <2>2
(* The larger set gives up nothing the smaller one keeps.                   *)
<1>6. ASSUME NEW r \in goneR, r \in A PROVE r \in goneA
  <2>1. CASE \E y \in R : y.block = b
    <3>1. r.block = b
      BY <2>1 DEF Replaces
    <3> QED BY <1>6, <3>1 DEF Replaces
  <2>2. CASE ~\E y \in R : y.block = b
    <3>1. ~(Cardinality(R) < m)
      BY <2>2 DEF Replaces
    <3>2. PICK x \in R : goneR = {x} /\ \A y \in R : x.ts <= y.ts
      BY <2>2, <3>1 DEF Replaces
    <3>3. \A y \in R : y \in A
      <4>1. ASSUME NEW y \in R PROVE y \in A
        <5>1. r = x /\ r.ts <= y.ts /\ r \in U /\ y \in U
          BY <3>2
        <5>2. r.ts = y.ts \/ y.ts > r.ts
          BY <5>1
        <5> QED BY <1>3, <1>6, <5>1, <5>2
      <4> QED BY <4>1
    <3>4. R = A
      <4>1. R \in SUBSET A
        BY <3>3
      <4>2. Cardinality(R) <= Cardinality(A) /\ (Cardinality(A) = Cardinality(R) => A = R)
        BY <4>1, FS_Subset
      <4> QED BY <1>2, <3>1, <4>2
    <3>5. ~(Cardinality(A) < n)
      BY <1>2, <3>1, <3>4
    <3>6. ~\E y \in A : y.block = b
      BY <2>2, <3>4
    <3>7. PICK z \in A : goneA = {z} /\ \A y \in A : z.ts <= y.ts
      BY <3>5, <3>6 DEF Replaces
    <3>8. z.ts = x.ts
      <4>1. z.ts <= x.ts /\ x.ts <= z.ts /\ z \in U /\ x \in U
        BY <1>1, <3>2, <3>4, <3>7
      <4> QED BY <4>1
    <3>9. z = x
      BY <1>1, <3>2, <3>7, <3>8
    <3> QED BY <3>2, <3>7, <3>9
  <2> QED BY <2>1, <2>2
<1>7. B \subseteq V
  BY <1>1, <1>6
<1>8. ASSUME Complete(U, A, n) PROVE Complete(V, B, n)
  <2>1. CASE \E y \in A : y.block = b
    <3>1. PICK y \in A : y.block = b
      BY <2>1
    <3>2. goneA = {y} /\ goneR = {y}
      <4>1. goneA = {e \in A : e.block = b}
        BY <2>1 DEF Replaces
      <4>2. y \in R
        BY <1>1, <3>1
      <4>3. goneR = {e \in R : e.block = b}
        BY <3>1, <4>2 DEF Replaces
      <4> QED BY <1>1, <3>1, <4>1, <4>2, <4>3
    <3>3. CASE A = U
      BY <3>2, <3>3 DEF Complete
    <3>4. CASE Cardinality(A) = n
      <4>1. IsFiniteSet(A \ {y}) /\ Cardinality(A \ {y}) = n - 1
        BY <3>1, <3>4, FS_RemoveElement
      <4>2. Cardinality((A \ {y}) \union {new}) = n - 1 + 1
        BY <1>1, <4>1, FS_AddElement
      <4> QED BY <3>2, <4>2 DEF Complete
    <3> QED BY <1>8, <3>3, <3>4 DEF Complete
  <2>2. CASE (~\E y \in A : y.block = b) /\ Cardinality(A) < n
    <3>1. A = U /\ goneA = {}
      BY <1>2, <1>8, <2>2 DEF Complete, Replaces
    <3>2. Cardinality(R) <= Cardinality(A)
      BY <3>1, FS_Subset
    <3>3. Cardinality(R) < m
      BY <1>2, <2>2, <3>2
    <3>4. goneR = {}
      BY <2>2, <3>1, <3>3 DEF Replaces
    <3> QED BY <3>1, <3>4 DEF Complete
  <2>3. CASE (~\E y \in A : y.block = b) /\ ~(Cardinality(A) < n)
    <3>1. PICK z \in A : goneA = {z}
      BY <2>3 DEF Replaces
    <3>2. Cardinality(A) = n
      BY <1>2, <2>3
    <3>3. IsFiniteSet(A \ {z}) /\ Cardinality(A \ {z}) = n - 1
      BY <3>1, <3>2, FS_RemoveElement
    <3>4. Cardinality((A \ {z}) \union {new}) = n - 1 + 1
      BY <1>1, <3>3, FS_AddElement
    <3> QED BY <3>1, <3>4 DEF Complete
  <2> QED BY <2>1, <2>2, <2>3
<1> HIDE DEF B, V
<1>9. Youngest(V, B)
  BY <1>5, <1>7 DEF Youngest
<1> QED BY <1>8, <1>9 DEF B, V

(* When both lose the block, the youngest of the others stay the youngest.  *)
LEMMA TakenStep ==
  ASSUME NEW U, NEW A, Youngest(U, A), NEW b,
         NEW goneR, \A e \in U : e \in goneR <=> e.block = b,
         NEW goneA, \A e \in A : e \in goneA <=> e.block = b
  PROVE  Youngest(U \ goneR, A \ goneA)
BY DEF Youngest

(* The n youngest are those with fewer than n younger ones.                 *)
LEMMA YoungestCounted ==
  ASSUME NEW n \in Nat, NEW U, IsFiniteSet(U), NEW A, Youngest(U, A), Cardinality(A) <= n,
         \A e \in U : e.ts \in Nat, \A e, f \in U : e.ts = f.ts => e = f
  PROVE  LET few == {e \in U : Cardinality({f \in U : f.ts > e.ts}) < n}
         IN  A \subseteq few /\ (Complete(U, A, n) => few = A)
<1> DEFINE Younger(e) == {f \in U : f.ts > e.ts}
<1>1. A \in SUBSET U /\ \A e \in A, f \in U : f.ts > e.ts => f \in A
  BY DEF Youngest
<1>2. IsFiniteSet(A) /\ Cardinality(A) \in Nat
  BY <1>1, FS_Subset, FS_CardinalityType
<1>3. ASSUME NEW e \in U
      PROVE  IsFiniteSet(Younger(e)) /\ Cardinality(Younger(e)) \in Nat
  <2>1. Younger(e) \in SUBSET U
    OBVIOUS
  <2> HIDE DEF Younger
  <2> QED BY <2>1, FS_Subset, FS_CardinalityType
<1>4. ASSUME NEW e \in A PROVE Cardinality(Younger(e)) < n
  <2>1. Younger(e) \in SUBSET (A \ {e})
    <3>1. ~(e.ts > e.ts)
      BY <1>1
    <3> QED BY <1>1, <3>1
  <2>2. IsFiniteSet(A \ {e}) /\ Cardinality(A \ {e}) = Cardinality(A) - 1
    BY <1>2, FS_RemoveElement
  <2>3. e \in U
    BY <1>1
  <2> HIDE DEF Younger
  <2>4. Cardinality(Younger(e)) <= Cardinality(A) - 1
    BY <2>1, <2>2, FS_Subset
  <2> QED BY <1>2, <1>3, <2>3, <2>4
<1>5. ASSUME Complete(U, A, n), NEW e \in U, e \notin A PROVE ~(Cardinality(Younger(e)) < n)
  <2>1. Cardinality(A) = n
    BY <1>1, <1>5 DEF Complete
  <2>2. A \in SUBSET Younger(e)
    <3>1. ASSUME NEW a \in A PROVE a.ts > e.ts
      <4>1. a \in U /\ a.ts \in Nat /\ e.ts \in Nat
        BY <1>1
      <4>2. ~(e.ts > a.ts)
        BY <1>1, <1>5
      <4>3. a.ts # e.ts
        BY <1>5, <4>1
      <4> QED BY <4>1, <4>2, <4>3
    <3> QED BY <1>1, <3>1
  <2> HIDE DEF Younger
  <2>3. Cardinality(A) <= Cardinality(Younger(e))
    BY <1>3, <2>2, FS_Subset
  <2> QED BY <1>3, <2>1, <2>3
<1> QED BY <1>1, <1>4, <1>5

(* The blocks of a set with their ages.                                     *)
Age(slot) == [block |-> slot.block, ts |-> slot.ts]

LEMMA AgedOf ==
  ASSUME NEW n \in Nat \ {0}, NEW s, SetInv(s, n)
  PROVE  \A e : e \in Aged(s) <=> \E j \in Filled(s, n) : e = Age(s.slot[j])
<1>1. DOMAIN s.slot = 1..n
  BY DEF SetInv
<1>2. \A j : j \in DOMAIN s.slot \ IndexOf(s, NoBlock) <=> j \in Filled(s, n)
  BY <1>1 DEF IndexOf, Filled
<1> QED BY <1>2 DEF Aged, Age

(* A block is in a set once, with a time, and a set holds as many blocks as *)
(* it has slots exactly if none is free.                                    *)
LEMMA AgedCount ==
  ASSUME NEW n \in Nat \ {0}, NEW s, SetInv(s, n)
  PROVE  /\ IsFiniteSet(Aged(s)) /\ Cardinality(Aged(s)) \in Nat /\ Cardinality(Aged(s)) <= n
         /\ Cardinality(Aged(s)) < n <=> \E j \in 1..n : s.slot[j] = Empty
         /\ \A e \in Aged(s) : e.block \in Block /\ e.ts \in Nat
         /\ \A e, f \in Aged(s) : e.block = f.block => e = f
<1> DEFINE J == Filled(s, n)
           f == [j \in J |-> Age(s.slot[j])]
<1>0. \A j \in J : Age(s.slot[j]).block = s.slot[j].block
  BY DEF Age
<1>1. f \in Bijection(J, Aged(s))
  <2>1. f \in [J -> Aged(s)]
    BY AgedOf
  <2>2. \A e \in Aged(s) : \E j \in J : f[j] = e
    BY AgedOf
  <2>3. ASSUME NEW j \in J, NEW k \in J, f[j] = f[k]
        PROVE  j = k
    <3>1. s.slot[j].block = s.slot[k].block
      BY <1>0, <2>3
    <3> QED BY <3>1 DEF Filled, SetInv
  <2> HIDE DEF f, J
  <2> QED BY <2>1, <2>2, <2>3 DEF Bijection, Injection, Surjection, IsInjective
<1>2. IsFiniteSet(1..n) /\ Cardinality(1..n) = n
  BY FS_Interval
<1>3. J \in SUBSET (1..n)
  BY DEF Filled
<1>4. \A e \in Aged(s) : e.block \in Block /\ e.ts \in Nat
  <2>1. \A j \in J : s.slot[j] \in Slot /\ s.slot[j].block # NoBlock
    BY DEF Filled, SetInv
  <2>2. \A j \in J : Age(s.slot[j]).block \in Block /\ Age(s.slot[j]).ts \in Nat
    BY <2>1 DEF Age, Slot
  <2> QED BY <2>2, AgedOf
<1>5. \A e, g \in Aged(s) : e.block = g.block => e = g
  <2>1. \A j, k \in J : s.slot[j].block = s.slot[k].block => j = k
    BY DEF Filled, SetInv
  <2> QED BY <1>0, <2>1, AgedOf
<1> HIDE DEF J
<1>6. IsFiniteSet(J) /\ Cardinality(J) <= n /\ (Cardinality(J) = n => J = 1..n)
  BY <1>2, <1>3, FS_Subset
<1>7. Cardinality(J) \in Nat
  BY <1>6, FS_CardinalityType
<1>8. IsFiniteSet(Aged(s)) /\ Cardinality(Aged(s)) = Cardinality(J)
  BY <1>1, <1>6, FS_Bijection DEF ExistsBijection
<1>9. (\E j \in 1..n : s.slot[j] = Empty) <=> J # 1..n
  <2>1. \A j \in 1..n : s.slot[j] # Empty <=> s.slot[j].block # NoBlock
    BY FreeSlots
  <2> QED BY <2>1 DEF J, Filled
<1>10. J = 1..n => Cardinality(J) = n
  BY <1>2
<1> QED BY <1>4, <1>5, <1>6, <1>7, <1>8, <1>9, <1>10

(* The ages after a slot was given to a block.                              *)
LEMMA AgedAfterPut ==
  ASSUME NEW n \in Nat \ {0}, NEW s, SetInv(s, n), NEW i \in 1..n, NEW slot, NEW touched,
         SetInv(Put(s, i, slot, touched), n), slot.block # NoBlock
  PROVE  Aged(Put(s, i, slot, touched)) =
           (Aged(s) \ (IF i \in Filled(s, n) THEN {Age(s.slot[i])} ELSE {})) \union {Age(slot)}
<1> DEFINE t == Put(s, i, slot, touched)
           gone == IF i \in Filled(s, n) THEN {Age(s.slot[i])} ELSE {}
<1>1. t.slot[i] = slot /\ \A j \in 1..n : j # i => t.slot[j] = s.slot[j]
  BY DEF Put, SetInv
<1>2. \A e : e \in Aged(t) <=> \E j \in Filled(t, n) : e = Age(t.slot[j])
  BY AgedOf
<1>3. \A e : e \in Aged(s) <=> \E j \in Filled(s, n) : e = Age(s.slot[j])
  BY AgedOf
<1> HIDE DEF t
<1>4. \A j \in 1..n : j \in Filled(t, n) <=> j = i \/ j \in Filled(s, n)
  BY <1>1 DEF Filled
<1>5. Filled(s, n) \subseteq 1..n /\ Filled(t, n) \subseteq 1..n
  BY DEF Filled
<1>6. \A e : e \in Aged(t) <=> \/ \E j \in Filled(s, n) : j # i /\ e = Age(s.slot[j])
                               \/ e = Age(slot)
  BY <1>1, <1>2, <1>4, <1>5
<1>7. \A j \in Filled(s, n) : j # i => Age(s.slot[j]) \notin gone
  <2>1. \A j, k \in Filled(s, n) : s.slot[j].block = s.slot[k].block => j = k
    BY DEF Filled, SetInv
  <2>2. \A j \in 1..n : Age(s.slot[j]).block = s.slot[j].block
    BY DEF Age
  <2> QED BY <1>5, <2>1, <2>2
<1>8. \A e : (\E j \in Filled(s, n) : j # i /\ e = Age(s.slot[j])) <=> e \in Aged(s) \ gone
  <2>1. i \in Filled(s, n) => gone = {Age(s.slot[i])}
    OBVIOUS
  <2> HIDE DEF gone
  <2> QED BY <1>3, <1>7, <2>1
<1>9. Aged(t) = (Aged(s) \ gone) \union {Age(slot)}
  <2> HIDE DEF gone
  <2> QED BY <1>6, <1>8
<1> QED BY <1>9 DEF t

(* An insertion in order replaces what Replaces says.                       *)
LEMMA InsertReplaces ==
  ASSUME NEW n \in Nat \ {0}, NEW s, SetInv(s, n), NEW b \in Block, NEW d \in BOOLEAN,
         NEW ts \in Nat \ {0}, \A e \in Aged(s) : e.ts < ts,
         ~Insert(s, b, d, ts).panic
  PROVE  \E gone \in SUBSET Aged(s) :
           /\ Replaces(b, n, Aged(s), gone)
           /\ Aged(Insert(s, b, d, ts).set) = (Aged(s) \ gone) \union {[block |-> b, ts |-> ts]}
<1>0. SetInv(Insert(s, b, d, ts).set, n)
  BY InsertEffect, EffectKeepsOrder
<1>1. \A e : e \in Aged(s) <=> \E j \in Filled(s, n) : e = Age(s.slot[j])
  BY AgedOf
<1>2. b # NoBlock /\ DOMAIN s.slot = 1..n
  BY CacheAssumption DEF NoBlock, SetInv
<1>3. (\E e \in Aged(s) : e.block = b) <=> IndexOf(s, b) # {}
  <2>1. \A j : j \in IndexOf(s, b) <=> j \in Filled(s, n) /\ s.slot[j].block = b
    BY <1>2 DEF IndexOf, Filled
  <2>2. \A j : Age(s.slot[j]).block = s.slot[j].block
    BY DEF Age
  <2> QED BY <1>1, <2>1, <2>2
<1>4. CASE IndexOf(s, b) # {}
  <2> DEFINE i == CHOOSE i \in IndexOf(s, b) : TRUE
             slot == Refreshed(s.slot[i], d, ts)
             e == Age(s.slot[i])
  <2>1. i \in IndexOf(s, b)
    BY <1>4
  <2>2. ~(Exclusive \/ (ts >= s.slot[i].ts /\ d /\ s.slot[i].dirty))
    BY <1>4 DEF Insert
  <2>3. Insert(s, b, d, ts).set = IF ts >= s.slot[i].ts THEN Put(s, i, slot, s.touched) ELSE s
    BY <1>4, <2>2 DEF Insert, Outcome
  <2> HIDE DEF i
  <2>4. i \in 1..n /\ s.slot[i] \in Slot /\ s.slot[i].block = b /\ i \in Filled(s, n)
    BY <1>2, <2>1, FoundSlot DEF Filled
  <2>5. e \in Aged(s) /\ e.block = b /\ e.ts = s.slot[i].ts
    BY <1>1, <2>4 DEF Age
  <2>6. ts >= s.slot[i].ts
    BY <2>4, <2>5 DEF Slot
  <2>7. slot.block = b /\ slot.ts = ts
    BY <2>4 DEF Refreshed, Slot
  <2>8. Age(slot) = [block |-> b, ts |-> ts]
    BY <2>7 DEF Age
  <2> HIDE DEF slot
  <2>9. SetInv(Put(s, i, slot, s.touched), n)
    BY <1>0, <2>3, <2>6
  <2>10. Aged(Put(s, i, slot, s.touched)) = (Aged(s) \ {e}) \union {Age(slot)}
    BY <1>2, <2>4, <2>7, <2>9, AgedAfterPut
  <2> HIDE DEF e
  <2>11. {f \in Aged(s) : f.block = b} = {e}
    <3>1. \A f \in Aged(s) : f.block = e.block => f = e
      BY <2>5, AgedCount
    <3> QED BY <2>5, <3>1
  <2>12. Replaces(b, n, Aged(s), {e})
    BY <2>5, <2>11 DEF Replaces
  <2> QED BY <2>3, <2>5, <2>6, <2>8, <2>10, <2>12
<1>5. CASE IndexOf(s, b) = {}
  <2> DEFINE i == Oldest(s)
             slot == [block |-> b, ts |-> ts, dirty |-> d]
             gone == IF i \in Filled(s, n) THEN {Age(s.slot[i])} ELSE {}
  <2>1. Insert(s, b, d, ts).set = Put(s, i, slot, Touch(s))
    BY <1>5 DEF Insert, Outcome
  <2>2. slot.block = b /\ Age(slot) = [block |-> b, ts |-> ts]
    BY DEF Age
  <2>3. Usable(s, n, i) /\ i \in 1..n
    BY OldestUsable DEF Usable
  <2>4. \A j \in 1..n : s.slot[i].ts <= s.slot[j].ts
    <3>1. \A j \in 1..n : s.slot[j].ts \in Nat
      BY DEF SetInv, Slot
    <3> HIDE DEF i
    <3> QED BY <2>3, <3>1, OldestIsLeast DEF i
  <2> HIDE DEF i, slot
  <2>5. Aged(Insert(s, b, d, ts).set) = (Aged(s) \ gone) \union {[block |-> b, ts |-> ts]}
    BY <1>0, <1>2, <2>1, <2>2, <2>3, AgedAfterPut
  <2>6. gone \in SUBSET Aged(s)
    BY <1>1
  <2>7. ~\E e \in Aged(s) : e.block = b
    BY <1>3, <1>5
  <2>8. Replaces(b, n, Aged(s), gone)
    <3>1. \A j \in 1..n : s.slot[j] # Empty <=> j \in Filled(s, n)
      BY FreeSlots DEF Filled
    <3>2. CASE s.slot[i] = Empty
      <4>1. Cardinality(Aged(s)) < n
        BY <2>3, <3>2, AgedCount
      <4>2. gone = {}
        BY <2>3, <3>1, <3>2
      <4> QED BY <2>7, <4>1, <4>2 DEF Replaces
    <3>3. CASE s.slot[i] # Empty
      <4>1. ~(Cardinality(Aged(s)) < n)
        BY <2>3, <3>3, AgedCount DEF Usable
      <4>2. gone = {Age(s.slot[i])} /\ Age(s.slot[i]) \in Aged(s)
        BY <1>1, <2>3, <3>1, <3>3
      <4>3. \A y \in Aged(s) : Age(s.slot[i]).ts <= y.ts
        <5>1. \A j : Age(s.slot[j]).ts = s.slot[j].ts
          BY DEF Age
        <5>2. Filled(s, n) \subseteq 1..n
          BY DEF Filled
        <5> QED BY <1>1, <2>4, <5>1, <5>2
      <4> HIDE DEF gone
      <4> QED BY <2>7, <4>1, <4>2, <4>3 DEF Replaces
    <3> QED BY <3>2, <3>3
  <2> HIDE DEF gone
  <2> QED BY <2>5, <2>6, <2>8
<1> QED BY <1>4, <1>5

(* A taking lookup, or invalidate, removes the block and nothing else.      *)
LEMMA TakenAges ==
  ASSUME NEW n \in Nat \ {0}, NEW s, SetInv(s, n), NEW b \in Block, NEW write, NEW ts,
         write \/ Exclusive
  PROVE  Aged(Lookup(s, b, write, ts).set) = Aged(s) \ {e \in Aged(s) : e.block = b}
<1>1. \A e : e \in Aged(s) <=> \E j \in Filled(s, n) : e = Age(s.slot[j])
  BY AgedOf
<1>2. b # NoBlock /\ DOMAIN s.slot = 1..n /\ \A j : Age(s.slot[j]).block = s.slot[j].block
  BY CacheAssumption DEF NoBlock, SetInv, Age
<1>3. \A j : j \in IndexOf(s, b) <=> j \in Filled(s, n) /\ s.slot[j].block = b
  BY <1>2 DEF IndexOf, Filled
<1>4. CASE IndexOf(s, b) = {}
  <2>1. Lookup(s, b, write, ts).set = s
    BY <1>4 DEF Lookup, Outcome
  <2>2. {e \in Aged(s) : e.block = b} = {}
    BY <1>1, <1>2, <1>3, <1>4
  <2> QED BY <2>1, <2>2
<1>5. CASE IndexOf(s, b) # {}
  <2> DEFINE i == CHOOSE i \in IndexOf(s, b) : TRUE
             t == Put(s, i, Empty, s.touched)
  <2>1. i \in IndexOf(s, b)
    BY <1>5
  <2>2. Lookup(s, b, write, ts).set = t
    BY <1>5 DEF Lookup, HitIn, Outcome
  <2> HIDE DEF i
  <2>3. i \in 1..n /\ \A j \in 1..n : j # i => s.slot[j].block # b
    BY <2>1, FoundSlot
  <2>4. t.slot[i] = Empty /\ \A j \in 1..n : j # i => t.slot[j] = s.slot[j]
    BY <2>3 DEF Put, SetInv
  <2>5. Empty \in Slot
    BY DEF Empty, Slot
  <2>6. SetInv(t, n)
    BY <2>3, <2>5, PutKeepsOrder
  <2> HIDE DEF t
  <2>7. \A e : e \in Aged(t) <=> \E j \in Filled(t, n) : e = Age(t.slot[j])
    BY <2>6, AgedOf
  <2>8. Empty.block = NoBlock
    BY DEF Empty
  <2>9. \A j \in 1..n : j \in Filled(t, n) <=> j # i /\ j \in Filled(s, n)
    BY <2>3, <2>4, <2>8 DEF Filled
  <2>10. Filled(s, n) \subseteq 1..n /\ Filled(t, n) \subseteq 1..n
    BY DEF Filled
  <2>11. \A e : e \in Aged(t) <=> e \in Aged(s) /\ e.block # b
    <3>1. ASSUME NEW e \in Aged(t) PROVE e \in Aged(s) /\ e.block # b
      <4>1. PICK j \in Filled(t, n) : e = Age(t.slot[j])
        BY <2>7
      <4>2. j \in 1..n /\ j # i /\ j \in Filled(s, n) /\ e = Age(s.slot[j])
        BY <2>4, <2>9, <2>10, <4>1
      <4> QED BY <1>1, <1>2, <2>3, <4>2
    <3>2. ASSUME NEW e \in Aged(s), e.block # b PROVE e \in Aged(t)
      <4>1. PICK j \in Filled(s, n) : e = Age(s.slot[j])
        BY <1>1
      <4>2. s.slot[i].block = b
        BY <1>3, <2>1
      <4>3. j \in 1..n /\ j # i
        BY <1>2, <2>10, <3>2, <4>1, <4>2
      <4> QED BY <2>4, <2>7, <2>9, <4>1, <4>3
    <3> QED BY <3>1, <3>2
  <2>12. Aged(t) = Aged(s) \ {e \in Aged(s) : e.block = b}
    BY <2>11
  <2> QED BY <2>2, <2>12
<1> QED BY <1>4, <1>5

(* The sets of cache c that collapse into set i of cache d.                 *)
Collapsing(c, d, i) == {k \in DOMAIN sets[c] : k % Sets[d] = i}
Pool(c, d, i) == UNION {Aged(sets[c][k]) : k \in Collapsing(c, d, i)}
OnlyInserts == guest.calls \subseteq {"insert"} \X BOOLEAN

(* Each block lies in its own set, no two were used at the same time, and   *)
(* the sets of a smaller cache hold the youngest blocks of a larger one's,  *)
(* as many as they can if nothing is ever taken.                            *)
AgesInv ==
  /\ now \in Nat
  /\ \A c \in guest.caches : \A k \in DOMAIN sets[c] : \A e \in Aged(sets[c][k]) :
       e.ts <= now /\ SetOf(c, e.block) = k
  /\ \A c \in guest.caches : \A k, l \in DOMAIN sets[c] :
       \A e \in Aged(sets[c][k]), f \in Aged(sets[c][l]) : e.ts = f.ts => e = f
  /\ \A c, d \in guest.caches : Resizable(c, d) =>
       \A i \in DOMAIN sets[d] :
         /\ Youngest(Pool(c, d, i), Aged(sets[d][i]))
         /\ OnlyInserts => Complete(Pool(c, d, i), Aged(sets[d][i]), Ways[d])
ResizeInv ==
  guest.inOrder /\ ~panicked =>
    AgesInv /\ (invalidating = {} \/ <<"invalidate", TRUE>> \in guest.calls)

(* Guests that use the times in order do not call lookup_and_insert, and    *)
(* their lookups are those of stores unless the cache is exclusive.         *)
Ages(op, d) == op \in {"insert", "invalidate"} \/ (op = "lookup" /\ (d \/ Exclusive))
InsertsOrTakes == \A g \in Workloads : g.inOrder => \A call \in g.calls : Ages(call[1], call[2])

(* The members of a pool.                                                   *)
LEMMA PoolOf ==
  ASSUME Inv, NEW c \in Cache, NEW d \in Cache, NEW i
  PROVE  \A e : e \in Pool(c, d, i) <=>
                  \E k \in DOMAIN sets[c] : k % Sets[d] = i /\ e \in Aged(sets[c][k])
BY DEF Pool, Collapsing

LEMMA PoolFacts ==
  ASSUME Inv, AgesInv, NEW c \in guest.caches, NEW d \in guest.caches, NEW i
  PROVE  /\ \A e \in Pool(c, d, i) : e.ts \in Nat /\ e.ts <= now /\ e.block \in Block
         /\ \A e, f \in Pool(c, d, i) : e.ts = f.ts \/ e.block = f.block => e = f
<1>1. guest \in Workloads /\ guest.caches \subseteq Cache
  BY CacheAssumption DEF Inv
<1>2. \A e : e \in Pool(c, d, i) <=>
               \E k \in DOMAIN sets[c] : k % Sets[d] = i /\ e \in Aged(sets[c][k])
  BY <1>1, PoolOf
<1>3. ASSUME NEW k \in DOMAIN sets[c]
      PROVE  /\ \A e \in Aged(sets[c][k]) : e.ts \in Nat /\ e.ts <= now /\ e.block \in Block
             /\ \A e, f \in Aged(sets[c][k]) : e.block = f.block => e = f
  <2>1. SetInv(sets[c][k], Ways[c]) /\ Ways[c] \in Nat \ {0}
    BY <1>1, CacheAssumption DEF Inv
  <2> QED BY <2>1, AgedCount DEF AgesInv
<1>4. \A e \in Pool(c, d, i) : e.ts \in Nat /\ e.ts <= now /\ e.block \in Block
  BY <1>2, <1>3
<1>5. ASSUME NEW e \in Pool(c, d, i), NEW f \in Pool(c, d, i), e.ts = f.ts \/ e.block = f.block
      PROVE  e = f
  <2>1. PICK k \in DOMAIN sets[c] : e \in Aged(sets[c][k])
    BY <1>2
  <2>2. PICK l \in DOMAIN sets[c] : f \in Aged(sets[c][l])
    BY <1>2
  <2>3. CASE e.ts = f.ts
    BY <2>1, <2>2, <2>3 DEF AgesInv
  <2>4. CASE e.block = f.block
    <3>1. k = l
      BY <2>1, <2>2, <2>4 DEF AgesInv
    <3> QED BY <1>3, <2>1, <2>2, <2>4, <3>1
  <2> QED BY <1>5, <2>3, <2>4
<1> QED BY <1>4, <1>5

(* What a smaller set holds is in the resized pool, and all of it if there  *)
(* are only insertions.                                                     *)
LEMMA PoolResized ==
  ASSUME Inv, AgesInv, NEW c \in guest.caches, NEW d \in guest.caches, Resizable(c, d),
         NEW i \in DOMAIN sets[d]
  PROVE  /\ Aged(sets[d][i]) \subseteq Resized(c, d, i)
         /\ OnlyInserts => Resized(c, d, i) = Aged(sets[d][i])
<1> DEFINE U == Pool(c, d, i)
           A == Aged(sets[d][i])
           f == [e \in U |-> e.ts]
<1>1. guest \in Workloads /\ guest.caches \subseteq Cache
  BY CacheAssumption DEF Inv
<1>2. /\ \A e \in U : e.ts \in Nat /\ e.ts <= now
      /\ \A e, g \in U : e.ts = g.ts => e = g
  BY PoolFacts
<1>3. now \in Nat
  BY DEF AgesInv
<1>4. IsFiniteSet(U)
  <2>1. f \in Injection(U, 0..now)
    <3>1. f \in [U -> 0..now]
      BY <1>2, <1>3
    <3>2. \A e, g \in U : f[e] = f[g] => e = g
      BY <1>2
    <3> HIDE DEF f, U
    <3> QED BY <3>1, <3>2 DEF Injection, IsInjective
  <2>2. IsFiniteSet(0..now)
    BY <1>3, FS_Interval
  <2> HIDE DEF f, U
  <2> QED BY <2>1, <2>2, FS_Injection
<1>5. Youngest(U, A) /\ (OnlyInserts => Complete(U, A, Ways[d]))
  BY DEF AgesInv
<1>6. Cardinality(A) <= Ways[d] /\ Ways[d] \in Nat
  <2>1. SetInv(sets[d][i], Ways[d]) /\ Ways[d] \in Nat \ {0}
    BY <1>1, CacheAssumption DEF Inv
  <2> QED BY <2>1, AgedCount
<1>7. Resized(c, d, i) = {e \in U : Cardinality({g \in U : g.ts > e.ts}) < Ways[d]}
  BY DEF Resized, Pool, Collapsing
<1> HIDE DEF U, A
<1> DEFINE few == {e \in U : Cardinality({g \in U : g.ts > e.ts}) < Ways[d]}
<1>8. A \subseteq few /\ (OnlyInserts => few = A)
  BY <1>2, <1>4, <1>5, <1>6, YoungestCounted
<1> QED BY <1>7, <1>8 DEF A

(* What is done under a lock to the ages in the set of the block: an        *)
(* insertion at time ts adds the block, everything else takes it.           *)
Added(op, b, ts) == IF op = "insert" THEN {[block |-> b, ts |-> ts]} ELSE {}
Aging(c, op, b, ts, gone) ==
  LET k == SetOf(c, b)
      R == Aged(sets[c][k])
  IN /\ gone \in SUBSET R
     /\ IF op = "insert" THEN Replaces(b, Ways[c], R, gone) ELSE gone = {e \in R : e.block = b}
     /\ Aged(sets'[c][k]) = (R \ gone) \union Added(op, b, ts)
     /\ \A l \in DOMAIN sets[c] : l # k => sets'[c][l] = sets[c][l]

LEMMA SectionAging ==
  ASSUME Inv, AgesInv, ~panicked', NEW op \in Ops, NEW b \in Block, NEW d \in BOOLEAN,
         NEW ts \in Nat \ {0}, Section(op, b, d, ts), Ages(op, d), op = "insert" => ts > now,
         NEW c \in guest.caches
  PROVE  /\ DOMAIN sets'[c] = DOMAIN sets[c] /\ SetOf(c, b) \in DOMAIN sets[c]
         /\ \E gone : Aging(c, op, b, ts, gone)
<1> DEFINE k == SetOf(c, b)
           s == sets[c][k]
           In(x) == Outcomes(op, sets[x][SetOf(x, b)], b, d, ts)
<1>1. /\ sets' = [x \in Cache |-> IF x \in guest.caches
                                  THEN [sets[x] EXCEPT ![SetOf(x, b)] = In(x).set] ELSE sets[x]]
      /\ panicked' = (\E x \in guest.caches : In(x).panic)
  BY Zenon DEF Section
<1>2. c \in Cache /\ Ways[c] \in Nat \ {0} /\ Sets[c] \in Nat \ {0} /\ b \in Nat
  BY CacheAssumption DEF Inv
<1>3. k \in 0..Sets[c] - 1 /\ DOMAIN sets[c] = 0..Sets[c] - 1
  BY <1>2 DEF SetOf, Inv
<1>4. SetInv(s, Ways[c])
  BY <1>2, <1>3 DEF Inv
<1>5. ~In(c).panic
  BY <1>1
<1>6. \E gone \in SUBSET Aged(s) :
        /\ IF op = "insert" THEN Replaces(b, Ways[c], Aged(s), gone) ELSE gone = {e \in Aged(s) : e.block = b}
        /\ Aged(In(c).set) = (Aged(s) \ gone) \union Added(op, b, ts)
  <2>1. CASE op = "insert"
    <3>1. In(c) = Insert(s, b, d, ts)
      BY <2>1 DEF Outcomes
    <3>2. \A e \in Aged(s) : e.ts < ts
      <4>1. \A e \in Aged(s) : e.ts <= now
        BY <1>3 DEF AgesInv
      <4>2. \A e \in Aged(s) : e.ts \in Nat
        BY <1>2, <1>4, AgedCount
      <4> QED BY <2>1, <4>1, <4>2 DEF AgesInv
    <3> HIDE DEF In
    <3>3. PICK gone \in SUBSET Aged(s) :
           /\ Replaces(b, Ways[c], Aged(s), gone)
           /\ Aged(Insert(s, b, d, ts).set) = (Aged(s) \ gone) \union {[block |-> b, ts |-> ts]}
      BY <1>2, <1>4, <1>5, <3>1, <3>2, InsertReplaces
    <3> QED BY <2>1, <3>1, <3>3 DEF Added
  <2>2. CASE op # "insert"
    <3>1. PICK write : In(c) = Lookup(s, b, write, ts) /\ (write \/ Exclusive)
      <4>1. CASE op = "invalidate"
        <5>1. In(c) = Lookup(s, b, TRUE, ts)
          BY <4>1 DEF Outcomes, Invalidate
        <5> QED BY <5>1
      <4>2. CASE op = "lookup" /\ (d \/ Exclusive)
        <5>1. In(c) = Lookup(s, b, d, ts)
          BY <4>2 DEF Outcomes
        <5> QED BY <4>2, <5>1
      <4> QED BY <2>2, <4>1, <4>2 DEF Ages
    <3> HIDE DEF In
    <3>2. Aged(In(c).set) = Aged(s) \ {e \in Aged(s) : e.block = b}
      BY <1>2, <1>4, <3>1, TakenAges
    <3> QED BY <2>2, <3>2 DEF Added
  <2> QED BY <2>1, <2>2
<1> HIDE DEF In
<1>7. /\ sets'[c][k] = In(c).set /\ DOMAIN sets'[c] = DOMAIN sets[c]
      /\ \A l \in DOMAIN sets[c] : l # k => sets'[c][l] = sets[c][l]
  BY <1>1, <1>2, <1>3
<1>8. \E gone : Aging(c, op, b, ts, gone)
  BY <1>6, <1>7 DEF Aging
<1> QED BY <1>3, <1>7, <1>8

(* Each cache of the guest keeps the youngest.                              *)
LEMMA SectionAges ==
  ASSUME Inv, AgesInv, ~panicked', NEW op \in Ops, NEW b \in Block, NEW d \in BOOLEAN,
         NEW ts \in Nat \ {0}, Section(op, b, d, ts), Ages(op, d), guest' = guest,
         now' \in Nat, now' >= now, op = "insert" => ts > now /\ now' = ts,
         OnlyInserts => op = "insert"
  PROVE  AgesInv'
<1> DEFINE new == [block |-> b, ts |-> ts]
<1>0. guest.caches \subseteq Cache /\ DOMAIN sets = Cache
      /\ \A c \in Cache : /\ Ways[c] \in Nat \ {0} /\ Sets[c] \in Nat \ {0}
                          /\ DOMAIN sets[c] = 0..Sets[c] - 1
  BY CacheAssumption DEF Inv
<1>1. now \in Nat
  BY DEF AgesInv
<1>2. \A c \in guest.caches :
        /\ DOMAIN sets'[c] = DOMAIN sets[c] /\ SetOf(c, b) \in DOMAIN sets[c]
        /\ \E gone : Aging(c, op, b, ts, gone)
  BY SectionAging
<1>3. new.block = b /\ new.ts = ts
  OBVIOUS
<1>4. ASSUME NEW c \in guest.caches, NEW k \in DOMAIN sets[c], NEW e \in Aged(sets'[c][k])
      PROVE  /\ e \in Aged(sets[c][k]) \/ (e = new /\ k = SetOf(c, b) /\ op = "insert")
             /\ e \in Aged(sets[c][k]) => e.ts <= now /\ SetOf(c, e.block) = k /\ e.ts \in Nat
  <2>1. PICK gone : Aging(c, op, b, ts, gone)
    BY <1>2
  <2>2. e \in Aged(sets[c][k]) \/ (e = new /\ k = SetOf(c, b) /\ op = "insert")
    BY <1>4, <2>1 DEF Aging, Added
  <2>3. \A x \in Aged(sets[c][k]) : x.ts \in Nat
    <3>1. SetInv(sets[c][k], Ways[c])
      BY <1>0 DEF Inv
    <3> QED BY <1>0, <3>1, AgedCount
  <2> QED BY <2>2, <2>3 DEF AgesInv
<1>5. ASSUME NEW c \in guest.caches, NEW k \in DOMAIN sets[c], NEW e \in Aged(sets'[c][k])
      PROVE  e.ts <= now' /\ SetOf(c, e.block) = k
  <2> HIDE DEF new
  <2> QED BY <1>1, <1>3, <1>4, <1>5
<1>6. ASSUME NEW c \in guest.caches, NEW k \in DOMAIN sets[c], NEW l \in DOMAIN sets[c],
             NEW e \in Aged(sets'[c][k]), NEW f \in Aged(sets'[c][l]), e.ts = f.ts
      PROVE  e = f
  <2> HIDE DEF new
  <2>1. e \in Aged(sets[c][k]) \/ (e = new /\ op = "insert")
    BY <1>4
  <2>2. f \in Aged(sets[c][l]) \/ (f = new /\ op = "insert")
    BY <1>4
  <2>3. op = "insert" =>
          (e \in Aged(sets[c][k]) => e.ts < ts) /\ (f \in Aged(sets[c][l]) => f.ts < ts)
    BY <1>1, <1>4
  <2>4. CASE e \in Aged(sets[c][k]) /\ f \in Aged(sets[c][l])
    BY <1>6, <2>4 DEF AgesInv
  <2> QED BY <1>3, <1>6, <2>1, <2>2, <2>3, <2>4
<1>7. ASSUME NEW c \in guest.caches, NEW d0 \in guest.caches, Resizable(c, d0),
             NEW i \in DOMAIN sets[d0]
      PROVE  /\ Youngest(Pool(c, d0, i)', Aged(sets'[d0][i]))
             /\ OnlyInserts => Complete(Pool(c, d0, i)', Aged(sets'[d0][i]), Ways[d0])
  <2> DEFINE k == SetOf(c, b)
             j == SetOf(d0, b)
             U == Pool(c, d0, i)
             R == Aged(sets[c][k])
             A == Aged(sets[d0][i])
  <2>1. Youngest(U, A) /\ (OnlyInserts => Complete(U, A, Ways[d0]))
    BY <1>7 DEF AgesInv
  <2>2. k % Sets[d0] = j
    <3>1. b \in Nat /\ Sets[c] \in Nat \ {0} /\ Sets[d0] \in Nat \ {0} /\ Sets[c] % Sets[d0] = 0
      BY <1>0, <1>7, CacheAssumption DEF Resizable
    <3> QED BY <3>1, ModMod DEF SetOf
  <2>3. PICK goneR : Aging(c, op, b, ts, goneR)
    BY <1>2
  <2>4. PICK goneA : Aging(d0, op, b, ts, goneA)
    BY <1>2
  <2>5. \A e : e \in U <=> \E l \in DOMAIN sets[c] : l % Sets[d0] = i /\ e \in Aged(sets[c][l])
    BY <1>0, PoolOf
  <2>6. \A e : e \in Pool(c, d0, i)' <=>
                 \E l \in DOMAIN sets[c] : l % Sets[d0] = i /\ e \in Aged(sets'[c][l])
    <3>1. DOMAIN sets'[c] = DOMAIN sets[c]
      BY <1>2
    <3> QED BY <3>1 DEF Pool, Collapsing
  <2>7. CASE i # j
    <3>1. \A l \in DOMAIN sets[c] : l % Sets[d0] = i => sets'[c][l] = sets[c][l]
      BY <2>2, <2>3, <2>7 DEF Aging
    <3>2. Pool(c, d0, i)' = U
      <4> HIDE DEF U
      <4>1. \A e : e \in Pool(c, d0, i)' <=> e \in U
        BY <2>5, <2>6, <3>1
      <4> QED BY <4>1
    <3>3. sets'[d0][i] = sets[d0][i]
      BY <2>4, <2>7 DEF Aging
    <3> QED BY <2>1, <3>2, <3>3
  <2>8. CASE i = j
    <3>1. k \in DOMAIN sets[c] /\ \A e \in R : e \in U
      BY <1>2, <2>2, <2>5, <2>8
    <3>2. \A e \in U : e.block = b => e \in R
      <4>1. ASSUME NEW e \in U, e.block = b PROVE e \in R
        <5>1. PICK l \in DOMAIN sets[c] : e \in Aged(sets[c][l])
          BY <2>5
        <5>2. l = k
          BY <4>1, <5>1 DEF AgesInv
        <5> QED BY <5>1, <5>2
      <4> QED BY <4>1
    <3>3. \A l \in DOMAIN sets[c] : l # k => \A e \in Aged(sets[c][l]) : e \notin R
      BY <3>1 DEF AgesInv
    <3>4. /\ goneR \in SUBSET R
          /\ IF op = "insert" THEN Replaces(b, Ways[c], R, goneR) ELSE goneR = {e \in R : e.block = b}
          /\ Aged(sets'[c][k]) = (R \ goneR) \union Added(op, b, ts)
          /\ \A l \in DOMAIN sets[c] : l # k => sets'[c][l] = sets[c][l]
      BY <2>3 DEF Aging
    <3>5. /\ goneA \in SUBSET A
          /\ IF op = "insert" THEN Replaces(b, Ways[d0], A, goneA) ELSE goneA = {e \in A : e.block = b}
          /\ Aged(sets'[d0][i]) = (A \ goneA) \union Added(op, b, ts)
      BY <2>4, <2>8 DEF Aging
    <3>6. /\ \A e \in U : e.ts \in Nat /\ (op = "insert" => e.ts < new.ts)
          /\ \A e, f \in U : e.ts = f.ts \/ e.block = f.block => e = f
      <4>1. /\ \A e \in U : e.ts \in Nat /\ e.ts <= now
            /\ \A e, f \in U : e.ts = f.ts \/ e.block = f.block => e = f
        BY PoolFacts
      <4> HIDE DEF U, new
      <4> QED BY <1>1, <1>3, <4>1
    <3>7. /\ IsFiniteSet(A) /\ Cardinality(A) <= Ways[d0]
          /\ IsFiniteSet(R) /\ Cardinality(R) <= Ways[c]
      <4>1. SetInv(sets[d0][i], Ways[d0]) /\ SetInv(sets[c][k], Ways[c])
        BY <1>0, <3>1 DEF Inv
      <4> QED BY <1>0, <4>1, AgedCount
    <3>8. Ways[c] \in Nat \ {0} /\ Ways[d0] \in Nat \ {0} /\ Ways[d0] <= Ways[c] /\ new.ts \in Nat
      BY <1>0, <1>3, <1>7 DEF Resizable
    <3>9. /\ op = "insert" => Added(op, b, ts) = {new}
          /\ op # "insert" => Added(op, b, ts) = {}
      BY DEF Added
    <3> DEFINE more == Added(op, b, ts)
    <3> HIDE DEF U, R, A, new, k, more
    <3>10. R \in SUBSET U
      BY <3>1
    <3>11. /\ Youngest((U \ goneR) \union more, (A \ goneA) \union more)
           /\ OnlyInserts => Complete((U \ goneR) \union more, (A \ goneA) \union more, Ways[d0])
      <4>1. CASE op = "insert"
        <5>1. more = {new} /\ Replaces(b, Ways[c], R, goneR) /\ Replaces(b, Ways[d0], A, goneA)
          BY <3>4, <3>5, <3>9, <4>1 DEF more
        <5>2. \A e \in U : e.ts \in Nat /\ e.ts < new.ts
          BY <3>6, <4>1
        <5>3. /\ Youngest((U \ goneR) \union {new}, (A \ goneA) \union {new})
              /\ Complete(U, A, Ways[d0]) =>
                   Complete((U \ goneR) \union {new}, (A \ goneA) \union {new}, Ways[d0])
          BY <2>1, <3>2, <3>4, <3>5, <3>6, <3>7, <3>8, <3>10, <5>1, <5>2, YoungestStep
        <5> QED BY <2>1, <5>1, <5>3
      <4>2. CASE op # "insert"
        <5>1. more = {} /\ goneR = {e \in R : e.block = b} /\ goneA = {e \in A : e.block = b}
          BY <3>4, <3>5, <3>9, <4>2 DEF more
        <5>2. Youngest(U \ goneR, A \ goneA)
          <6>1. Youngest(U, A)
            BY <2>1
          <6>2. /\ \A e \in U : e \in goneR <=> e.block = b
                /\ \A e \in A : e \in goneA <=> e.block = b
            BY <3>2, <5>1
          <6> QED BY <6>1, <6>2, TakenStep
        <5>3. (U \ goneR) \union more = U \ goneR /\ (A \ goneA) \union more = A \ goneA
          BY <5>1
        <5> QED BY <4>2, <5>2, <5>3
      <4> QED BY <4>1, <4>2
    <3>12. ASSUME NEW e PROVE e \in Pool(c, d0, i)' <=> e \in (U \ goneR) \union more
      <4>1. ASSUME e \in Pool(c, d0, i)' PROVE e \in (U \ goneR) \union more
        <5>1. PICK l \in DOMAIN sets[c] : l % Sets[d0] = i /\ e \in Aged(sets'[c][l])
          BY <2>6, <4>1
        <5>2. CASE l = k
          BY <3>4, <3>10, <5>1, <5>2 DEF more
        <5>3. CASE l # k
          BY <2>5, <3>3, <3>4, <5>1, <5>3
        <5> QED BY <5>2, <5>3
      <4>2. ASSUME e \in U \ goneR PROVE e \in Pool(c, d0, i)'
        <5>1. PICK l \in DOMAIN sets[c] : l % Sets[d0] = i /\ e \in Aged(sets[c][l])
          BY <2>5, <4>2
        <5>2. CASE l = k
          BY <2>6, <3>4, <4>2, <5>1, <5>2 DEF R
        <5>3. CASE l # k
          BY <2>6, <3>4, <5>1, <5>3
        <5> QED BY <5>2, <5>3
      <4>3. ASSUME e \in more PROVE e \in Pool(c, d0, i)'
        BY <2>2, <2>6, <2>8, <3>1, <3>4, <4>3 DEF k, more
      <4> QED BY <4>1, <4>2, <4>3
    <3>13. Pool(c, d0, i)' = (U \ goneR) \union more
      BY <3>12
    <3>14. Aged(sets'[d0][i]) = (A \ goneA) \union more
      BY <3>5 DEF more
    <3> QED BY <3>11, <3>13, <3>14
  <2> QED BY <2>7, <2>8
<1>8. \A c, d0 \in guest.caches : Resizable(c, d0)' = Resizable(c, d0)
  BY DEF Resizable
<1>9. OnlyInserts' = OnlyInserts
  BY DEF OnlyInserts
<1>10. (\A c, d0 \in guest.caches : Resizable(c, d0) =>
         \A i \in DOMAIN sets[d0] :
           /\ Youngest(Pool(c, d0, i), Aged(sets[d0][i]))
           /\ OnlyInserts => Complete(Pool(c, d0, i), Aged(sets[d0][i]), Ways[d0]))'
  BY <1>1, <1>2, <1>7, <1>8, <1>9
<1>11. (\A c \in guest.caches : \A k \in DOMAIN sets[c] : \A e \in Aged(sets[c][k]) :
          e.ts <= now /\ SetOf(c, e.block) = k)'
  BY <1>1, <1>2, <1>5 DEF SetOf, Aged, IndexOf
<1>12. (\A c \in guest.caches : \A k, l \in DOMAIN sets[c] :
          \A e \in Aged(sets[c][k]), f \in Aged(sets[c][l]) : e.ts = f.ts => e = f)'
  BY <1>1, <1>2, <1>6
<1> QED BY <1>10, <1>11, <1>12 DEF AgesInv

(* Nothing is held at the start.                                            *)
LEMMA InitResize == ASSUME Init PROVE ResizeInv
<1>1. ASSUME NEW c \in Cache
      PROVE  DOMAIN sets[c] = 0..Sets[c] - 1 /\ \A k \in DOMAIN sets[c] : Aged(sets[c][k]) = {}
  <2>1. sets[c] = NewSets(c)
    BY DEF Init
  <2>2. \A k \in 0..Sets[c] - 1 : Aged(sets[c][k]) = {}
    <3>1. ASSUME NEW k \in 0..Sets[c] - 1 PROVE Aged(sets[c][k]) = {}
      <4>1. sets[c][k].slot = [j \in 1..Ways[c] |-> Empty]
        BY <2>1 DEF NewSets, NewSet
      <4>2. DOMAIN sets[c][k].slot = IndexOf(sets[c][k], NoBlock)
        BY <4>1 DEF IndexOf, Empty
      <4> QED BY <4>2 DEF Aged
    <3> QED BY <3>1
  <2> QED BY <2>1, <2>2 DEF NewSets
<1>2. guest.caches \subseteq Cache /\ now = 0 /\ invalidating = {}
  BY CacheAssumption DEF Init
<1>3. ASSUME NEW c \in guest.caches, NEW d \in guest.caches, NEW i PROVE Pool(c, d, i) = {}
  <2>1. \A k \in Collapsing(c, d, i) : Aged(sets[c][k]) = {}
    BY <1>1, <1>2 DEF Collapsing
  <2> QED BY <2>1 DEF Pool
<1>4. \A c, d \in guest.caches : \A i \in DOMAIN sets[d] :
        /\ Youngest(Pool(c, d, i), Aged(sets[d][i]))
        /\ Complete(Pool(c, d, i), Aged(sets[d][i]), Ways[d])
  BY <1>1, <1>2, <1>3 DEF Youngest, Complete
<1>5. /\ \A c \in guest.caches : \A k \in DOMAIN sets[c] : \A e \in Aged(sets[c][k]) :
           e.ts <= now /\ SetOf(c, e.block) = k
      /\ \A c \in guest.caches : \A k, l \in DOMAIN sets[c] :
           \A e \in Aged(sets[c][k]), f \in Aged(sets[c][l]) : e.ts = f.ts => e = f
  BY <1>1, <1>2
<1> QED BY <1>2, <1>4, <1>5 DEF AgesInv, ResizeInv

LEMMA NextResize == ASSUME InsertsOrTakes, Inv, ResizeInv, [Next]_vars PROVE ResizeInv'
<1> SUFFICES ASSUME (guest.inOrder /\ ~panicked)'
             PROVE  (AgesInv /\ (invalidating = {} \/ <<"invalidate", TRUE>> \in guest.calls))'
  BY DEF ResizeInv
<1>1. ASSUME NEW op \in Ops, NEW b \in guest.blocks, NEW d \in BOOLEAN, NEW ts \in guest.times,
             LockedFor(op, b, d, ts)
      PROVE  (AgesInv /\ (invalidating = {} \/ <<"invalidate", TRUE>> \in guest.calls))'
  <2>1. /\ b \in Block /\ ts \in Nat \ {0} /\ Section(op, b, d, ts)
        /\ guest' = guest /\ ~panicked /\ guest \in Workloads
    BY <1>1, LockedStep, Zenon DEF Inv
  <2>2. guest.inOrder /\ AgesInv /\ (invalidating = {} \/ <<"invalidate", TRUE>> \in guest.calls)
    BY <2>1 DEF ResizeInv
  <2>3. now \in Nat
    BY <2>2 DEF AgesInv
  <2>4. <<op, d>> \in guest.calls
        /\ \/ ts > now /\ now' = ts
           \/ op = "invalidate" /\ now' = now
    <3> DEFINE t == [block |-> b, ts |-> ts]
    <3> HIDE DEF t
    <3>1. CASE Call(op, b, d, ts)
      <4>1. <<op, d>> \in guest.calls /\ (guest.inOrder => ts > now)
            /\ now' = (IF guest.inOrder THEN ts ELSE now)
        BY <3>1, Zenon DEF Call, Begins
      <4> QED BY <2>2, <4>1
    <3>2. CASE op = "invalidate" /\ d = TRUE /\ InvalidateFirst(b, ts)
      <4>1. <<"invalidate", TRUE>> \in guest.calls /\ (guest.inOrder => ts > now)
            /\ now' = (IF guest.inOrder THEN ts ELSE now)
        BY <3>2, Zenon DEF InvalidateFirst, Begins
      <4> QED BY <2>2, <3>2, <4>1
    <3>3. CASE op = "invalidate" /\ d = TRUE /\ InvalidateAgain(t)
      <4>1. t \in invalidating /\ now' = now
        BY <3>3, Zenon DEF InvalidateAgain
      <4> QED BY <2>2, <3>3, <4>1
    <3> QED BY <1>1, <3>1, <3>2, <3>3, Zenon DEF LockedFor, t
  <2>5. Ages(op, d)
    <3>1. <<op, d>>[1] = op /\ <<op, d>>[2] = d
      OBVIOUS
    <3> QED BY <2>1, <2>2, <2>4, <3>1, Zenon DEF InsertsOrTakes
  <2>6. OnlyInserts => op = "insert"
    BY <2>4 DEF OnlyInserts
  <2>7. now' \in Nat /\ now' >= now /\ (op = "insert" => ts > now /\ now' = ts)
    BY <2>1, <2>3, <2>4
  <2>8. AgesInv'
    BY <2>1, <2>2, <2>5, <2>6, <2>7, SectionAges
  <2>9. invalidating' = {} \/ <<"invalidate", TRUE>> \in guest.calls
    <3>1. Call(op, b, d, ts) => invalidating' = invalidating
      BY Zenon DEF Call
    <3>2. CASE Call(op, b, d, ts)
      BY <2>2, <3>1, <3>2
    <3>3. CASE op = "invalidate" /\ d = TRUE
      BY <2>4, <3>3
    <3> QED BY <1>1, <3>2, <3>3, Zenon DEF LockedFor
  <2> QED BY <2>1, <2>8, <2>9
<1>2. ASSUME UNCHANGED <<guest, sets, invalidating, now, reply, panicked>>
      PROVE  (AgesInv /\ (invalidating = {} \/ <<"invalidate", TRUE>> \in guest.calls))'
  <2>1. AgesInv /\ (invalidating = {} \/ <<"invalidate", TRUE>> \in guest.calls)
    BY <1>2 DEF ResizeInv
  <2>2. \A c, d, i : Pool(c, d, i)' = Pool(c, d, i)
    BY <1>2 DEF Pool, Collapsing
  <2> QED BY <1>2, <2>1, <2>2 DEF AgesInv, Resizable, OnlyInserts
<1> QED BY <1>1, <1>2, StepLocks, Zenon

(* Two caches of any sizes, one of them a multiple of the other in sets and *)
(* not smaller in ways, see the same calls in the order of their times:     *)
(* insertions, lookups of stores (of any access, if the cache is exclusive) *)
(* and invalidations.  Resizing the larger one gives all the smaller one    *)
(* holds, with the same times, and nothing else if there are only           *)
(* insertions.                                                              *)
THEOREM ResizingExact ==
  ASSUME InsertsOrTakes
  PROVE  Spec => []ResizedAgrees
<1>1. Init => Inv /\ ResizeInv
  BY InitInv, InitResize
<1>2. Inv /\ ResizeInv /\ [Next]_vars => (Inv /\ ResizeInv)'
  BY NextInv, NextResize
<1>3. Inv /\ ResizeInv => ResizedAgrees
  BY PoolResized DEF ResizeInv, ResizedAgrees, ResizedEqual, OnlyInserts
<1> QED BY <1>1, <1>2, <1>3, PTL DEF Spec
=============================================================================
