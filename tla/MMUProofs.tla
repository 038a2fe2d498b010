------------------------------ MODULE MMUProofs ------------------------------
(* Proofs about both MMUs for any TLBs, page sizes, processes and number of *)
(* translations: what answers, under a guest that flushes everything or by  *)
(* address space; what is evicted, whatever it flushes.                     *)
EXTENDS MMU, FiniteSetTheorems, WellFoundedInduction, TLAPS

(* ---- the invariant of one TLB ------------------------------------------ *)
IsSet(set, ways) ==
  /\ set \in [way : [1..ways -> Entry], pointer : 0..ways]
  /\ \A w \in 1..ways : w > set.pointer => set.way[w] = EmptyEntry

(* What the page tables say, as a view: per page and owner of an entry.     *)
Owners == Asid \cup {Global}
Seen(tables) == [x \in Vpn \X Owners |-> tables[<<Space(x[1], x[2]), RegionOf[x[1]]>>]]

Right(e, view) == e.ppn = view[<<e.vpn, e.asid>>]

(* A page of the kernel is the same in all spaces.                          *)
KernelShared(view) == \A v \in Kernel, a \in Asid : view[<<v, a>>] = view[<<v, Global>>]

(* A valid entry is in the set of its page, older than the clock and what   *)
(* the page tables say; an entry that is not valid is older than all that   *)
(* are, so that the victim is never a valid entry while a way is free.      *)
EntryInv(e, s, sets, time, view) ==
  IF e.valid
    THEN /\ e.vpn \in Vpn /\ e.vpn % sets = s
         /\ e.ts \in 1..(time - 1)
         /\ e.asid = Global => e.vpn \in Kernel
         /\ Right(e, view)
    ELSE e.ts = 0

TlbInv(tlb, sets, ways, time, view) ==
  /\ DOMAIN tlb = 0..sets - 1
  /\ \A s \in 0..sets - 1 : IsSet(tlb[s], ways)
  /\ \A s \in 0..sets - 1 : \A w \in 1..ways : EntryInv(tlb[s].way[w], s, sets, time, view)
  /\ NoTwins(tlb)

(* The second level files every entry in the space of its page, the first   *)
(* does not.                                                                *)
InOwnSpace(tlb) ==
  \A s \in DOMAIN tlb : \A w \in DOMAIN tlb[s].way :
    LET e == tlb[s].way[w] IN e.valid => (e.asid = Global <=> e.vpn \in Kernel)

NothingValid(tlb) == \A s \in DOMAIN tlb : \A w \in DOMAIN tlb[s].way : ~tlb[s].way[w].valid

HugeInv ==
  /\ huge \in [HugeSize -> [Regions -> [asid : Asid \cup {Global}, ppn : Ppn \cup {NoPpn}]]]
  /\ \A size \in HugeSize : \A r \in Regions :
       LET e == huge[size][r] IN
       e.ppn # NoPpn => ~NoHugePage /\ <<e.asid, r>> \in Mappings /\ e.ppn = pt[<<e.asid, r>>]

L1Inv ==
  /\ TlbInv(itlb, 1, L1Ways, now, Seen(pt)) /\ TlbInv(dtlb, 1, L1Ways, now, Seen(pt))
  /\ L1Enabled \/ (NothingValid(itlb) /\ NothingValid(dtlb))

StlbInv ==
  /\ TlbInv(stlb, StlbSets, StlbWays, now, Seen(pt)) /\ InOwnSpace(stlb)
  /\ StlbEnabled \/ NothingValid(stlb)

GuestInv == asid \in Asid /\ pt \in [Mappings -> Ppn] /\ now \in Nat \ {0}

MMUInv == L1Inv /\ StlbInv /\ HugeInv /\ GuestInv

-----------------------------------------------------------------------------
(* ---- searching the ways ------------------------------------------------ *)
(* A set of numbers that is not empty has a least member.                   *)
LEMMA LeastNatural ==
  ASSUME NEW T \in SUBSET Nat, T # {}
  PROVE  /\ Least(T) \in T
         /\ \A k \in T : Least(T) <= k
<1>1. \E m \in T : \A k \in T : ~(<<k, m>> \in OpToRel(<, Nat))
  BY NatLessThanWellFounded, WFMin
<1>2. PICK m \in T : \A k \in T : ~(<<k, m>> \in OpToRel(<, Nat))
  BY <1>1
<1>3. ASSUME NEW k \in T PROVE m <= k
  <2>1. m \in Nat /\ k \in Nat
    OBVIOUS
  <2>2. ~(k < m)
    BY <1>2, <2>1 DEF OpToRel
  <2> QED BY <2>1, <2>2
<1> QED BY <1>3 DEF Least

LEMMA SetOfIs ==
  ASSUME NEW sets \in Nat \ {0}, NEW tlb, DOMAIN tlb = 0..sets - 1, NEW vpn \in Nat
  PROVE  SetOf(tlb, vpn) = vpn % sets /\ SetOf(tlb, vpn) \in 0..sets - 1
<1>1. Cardinality(0..sets - 1) = sets
  BY FS_Interval
<1>2. vpn % sets \in 0..sets - 1
  OBVIOUS
<1> QED BY <1>1, <1>2 DEF SetOf

(* A hit is the first of the entries that match.                            *)
LEMMA FoundFacts ==
  ASSUME NEW sets \in Nat \ {0}, NEW ways \in Nat \ {0}, NEW time, NEW view, NEW tlb,
         TlbInv(tlb, sets, ways, time, view), NEW vpn \in Vpn, NEW a, Hits(tlb, vpn, a)
  PROVE  LET s == vpn % sets
             w == Least(MatchingWays(tlb, vpn, a))
         IN /\ SetOf(tlb, vpn) = s /\ s \in 0..sets - 1 /\ w \in 1..ways
            /\ Matches(tlb[s].way[w], vpn, a)
<1>1. vpn \in Nat
  BY VpnAssumption
<1>2. SetOf(tlb, vpn) = vpn % sets /\ SetOf(tlb, vpn) \in 0..sets - 1
  BY <1>1, SetOfIs DEF TlbInv
<1>3. DOMAIN tlb[vpn % sets].way = 1..ways
  BY <1>2 DEF TlbInv, IsSet
<1>4. MatchingWays(tlb, vpn, a) = {w \in 1..ways : Matches(tlb[vpn % sets].way[w], vpn, a)}
  BY <1>2, <1>3 DEF MatchingWays
<1>5. MatchingWays(tlb, vpn, a) \in SUBSET Nat /\ MatchingWays(tlb, vpn, a) # {}
  BY <1>4 DEF Hits
<1>6. Least(MatchingWays(tlb, vpn, a)) \in MatchingWays(tlb, vpn, a)
  BY <1>5, LeastNatural
<1> QED BY <1>2, <1>4, <1>6

(* The victim is a way with the least timestamp.                            *)
LEMMA VictimFacts ==
  ASSUME NEW n \in Nat \ {0}, NEW ways \in [1..n -> Entry]
  PROVE  /\ Victim(ways) \in 1..n
         /\ \A x \in 1..n : ways[Victim(ways)].ts <= ways[x].ts
<1> DEFINE Ts == {ways[w].ts : w \in 1..n}
<1> DEFINE W == {w \in 1..n : \A x \in 1..n : ways[w].ts <= ways[x].ts}
<1>1. DOMAIN ways = 1..n /\ \A w \in 1..n : ways[w].ts \in Nat
  BY DEF Entry
<1>2. Least(Ts) \in Ts /\ \A k \in Ts : Least(Ts) <= k
  <2>1. Ts \in SUBSET Nat
    BY <1>1
  <2>2. ways[1].ts \in Ts
    OBVIOUS
  <2> HIDE DEF Ts
  <2> QED BY <2>1, <2>2, LeastNatural
<1>3. PICK w \in 1..n : ways[w].ts = Least(Ts)
  BY <1>2
<1>4. w \in W
  BY <1>2, <1>3
<1>5. W \in SUBSET Nat
  OBVIOUS
<1>6. Victim(ways) = Least(W)
  BY <1>1 DEF Victim
<1> HIDE DEF W
<1>7. Least(W) \in W
  BY <1>4, <1>5, LeastNatural
<1> QED BY <1>6, <1>7 DEF W

-----------------------------------------------------------------------------
(* ---- what the operations do to one TLB --------------------------------- *)
(* An insertion changes one way of the set of the page: one that was never  *)
(* used or, when there is none, a least recently used one.                  *)
Replaced(tlb, new, s, ways, w, p, e) ==
  /\ new = [tlb EXCEPT ![s] = [way |-> [tlb[s].way EXCEPT ![w] = e], pointer |-> p]]
  /\ w <= p /\ tlb[s].pointer <= p
  /\ tlb[s].way[w].valid =>
       \A x \in 1..ways : tlb[s].way[x].valid /\ tlb[s].way[x].ts >= tlb[s].way[w].ts

LEMMA InsertFacts ==
  ASSUME NEW sets \in Nat \ {0}, NEW ways \in Nat \ {0}, NEW time \in Nat \ {0}, NEW view, NEW tlb,
         TlbInv(tlb, sets, ways, time, view), NEW vpn \in Vpn, NEW a \in Asid \cup {Global}, NEW ppn \in Ppn
  PROVE  /\ vpn % sets \in 0..sets - 1
         /\ \E w \in 1..ways, p \in 0..ways :
              Replaced(tlb, Insert(tlb, vpn, a, ppn, time), vpn % sets, ways, w, p,
                       [valid |-> TRUE, ts |-> time, asid |-> a, vpn |-> vpn, ppn |-> ppn])
<1> DEFINE s == vpn % sets
<1> DEFINE e == [valid |-> TRUE, ts |-> time, asid |-> a, vpn |-> vpn, ppn |-> ppn]
<1>1. SetOf(tlb, vpn) = s /\ s \in 0..sets - 1
  BY SetOfIs, VpnAssumption DEF TlbInv
<1> DEFINE set == tlb[s]
<1> DEFINE v == Victim(set.way)
<1>2. /\ set \in [way : [1..ways -> Entry], pointer : 0..ways]
      /\ \A w \in 1..ways : w > set.pointer => set.way[w] = EmptyEntry
  BY <1>1 DEF TlbInv, IsSet
<1>3. Cardinality(DOMAIN set.way) = ways
  <2>1. DOMAIN set.way = 1..ways
    BY <1>2
  <2>2. Cardinality(1..ways) = ways
    BY FS_Interval
  <2> QED BY <2>1, <2>2
<1>4. Insert(tlb, vpn, a, ppn, time) = [tlb EXCEPT ![s] = InsertInSet(set, e)]
  BY <1>1 DEF Insert
<1>5. CASE set.pointer < ways
  <2> DEFINE w == set.pointer + 1
  <2>1. w \in 1..ways /\ w > set.pointer
    BY <1>2, <1>5
  <2>2. InsertInSet(set, e) = [way |-> [set.way EXCEPT ![w] = e], pointer |-> w]
    BY <1>3, <1>5 DEF InsertInSet
  <2>3. ~set.way[w].valid
    BY <1>2, <2>1 DEF EmptyEntry
  <2> HIDE DEF set, e, s
  <2>4. w \in 0..ways /\ w <= w /\ set.pointer <= w
    BY <1>2, <2>1
  <2>5. Replaced(tlb, Insert(tlb, vpn, a, ppn, time), s, ways, w, w, e)
    BY <1>4, <2>2, <2>3, <2>4 DEF Replaced, set
  <2> HIDE DEF w
  <2>6. \E x \in 1..ways, p \in 0..ways : Replaced(tlb, Insert(tlb, vpn, a, ppn, time), s, ways, x, p, e)
    BY <2>1, <2>4, <2>5
  <2> QED BY <1>1, <2>6 DEF e, s
<1>6. CASE ~(set.pointer < ways)
  <2>1. set.pointer = ways
    BY <1>2, <1>6
  <2>2. InsertInSet(set, e) = [way |-> [set.way EXCEPT ![v] = e], pointer |-> ways]
    <3>1. InsertInSet(set, e) = [set EXCEPT !.way[v] = e]
      BY <1>3, <1>6 DEF InsertInSet
    <3>2. set = [way |-> set.way, pointer |-> set.pointer]
      BY <1>2
    <3> HIDE DEF set, e, v
    <3> QED BY <2>1, <3>1, <3>2
  <2>3. v \in 1..ways /\ \A x \in 1..ways : set.way[v].ts <= set.way[x].ts
    <3>1. set.way \in [1..ways -> Entry]
      BY <1>2
    <3> HIDE DEF set
    <3> QED BY <3>1, VictimFacts
  <2>4. \A x \in 1..ways : /\ set.way[x].ts \in Nat
                           /\ set.way[x].valid => set.way[x].ts >= 1
                           /\ ~set.way[x].valid => set.way[x].ts = 0
    <3>1. \A x \in 1..ways : set.way[x] \in Entry
      BY <1>2
    <3>2. \A x \in 1..ways : EntryInv(set.way[x], s, sets, time, view)
      BY <1>1 DEF TlbInv
    <3> HIDE DEF set, s
    <3> QED BY <3>1, <3>2 DEF EntryInv, Entry
  <2> HIDE DEF set, e, s, v
  <2>5. Replaced(tlb, Insert(tlb, vpn, a, ppn, time), s, ways, v, ways, e)
    BY <1>4, <2>1, <2>2, <2>3, <2>4 DEF Replaced, set
  <2>6. \E w \in 1..ways, p \in 0..ways : Replaced(tlb, Insert(tlb, vpn, a, ppn, time), s, ways, w, p, e)
    BY <2>3, <2>5
  <2> QED BY <1>1, <2>6 DEF e, s
<1> QED BY <1>5, <1>6

(* Time that passes and mappings that no valid entry is of do no harm.      *)
LEMMA Later ==
  ASSUME NEW sets \in Nat \ {0}, NEW ways \in Nat \ {0}, NEW time \in Nat, NEW view, NEW tlb,
         TlbInv(tlb, sets, ways, time, view)
  PROVE  TlbInv(tlb, sets, ways, time + 1, view)
<1>1. \A s \in 0..sets - 1 : \A w \in 1..ways : tlb[s].way[w] \in Entry
  BY DEF TlbInv, IsSet
<1>2. \A s \in 0..sets - 1 : \A w \in 1..ways : EntryInv(tlb[s].way[w], s, sets, time + 1, view)
  BY <1>1 DEF TlbInv, EntryInv, Entry
<1> QED BY <1>2 DEF TlbInv

(* What is inserted where no entry answers leaves the TLB as it should be.  *)
LEMMA InsertKeeps ==
  ASSUME NEW sets \in Nat \ {0}, NEW ways \in Nat \ {0}, NEW time \in Nat \ {0}, NEW view, NEW tlb,
         TlbInv(tlb, sets, ways, time, view), NEW vpn \in Vpn, NEW a \in Asid \cup {Global}, NEW ppn \in Ppn,
         a = Global => vpn \in Kernel,
         ppn = view[<<vpn, a>>],
         NEW b, ~Hits(tlb, vpn, b), a \in {b, Global}
  PROVE  LET new == Insert(tlb, vpn, a, ppn, time) IN
         /\ TlbInv(new, sets, ways, time + 1, view)
         /\ EvictsLru(tlb, new)
         /\ InOwnSpace(tlb) /\ (a = Global <=> vpn \in Kernel) => InOwnSpace(new)
<1> DEFINE s == vpn % sets
<1> DEFINE e == [valid |-> TRUE, ts |-> time, asid |-> a, vpn |-> vpn, ppn |-> ppn]
<1> DEFINE new == Insert(tlb, vpn, a, ppn, time)
<1>1. s \in 0..sets - 1
  BY InsertFacts
<1>0. PICK w \in 1..ways, p \in 0..ways : Replaced(tlb, new, s, ways, w, p, e)
  BY InsertFacts
<1>2. /\ new = [tlb EXCEPT ![s] = [way |-> [tlb[s].way EXCEPT ![w] = e], pointer |-> p]]
      /\ w <= p /\ tlb[s].pointer <= p
      /\ tlb[s].way[w].valid =>
           \A x \in 1..ways : tlb[s].way[x].valid /\ tlb[s].way[x].ts >= tlb[s].way[w].ts
  BY <1>0 DEF Replaced
<1>3. e \in Entry /\ e.valid /\ e.ts = time /\ e.asid = a /\ e.vpn = vpn /\ e.ppn = ppn
  BY VpnAssumption DEF Entry
<1>4. /\ DOMAIN tlb = 0..sets - 1
      /\ \A t \in 0..sets - 1 : IsSet(tlb[t], ways)
      /\ \A t \in 0..sets - 1 : DOMAIN tlb[t].way = 1..ways
      /\ \A t \in 0..sets - 1 : \A x \in 1..ways : tlb[t].way[x] \in Entry
  BY DEF TlbInv, IsSet
<1>5. \A t \in 0..sets - 1 : \A x \in 1..ways :
        EntryInv(tlb[t].way[x], t, sets, time + 1, view)
  BY Later DEF TlbInv
<1>6. EntryInv(e, s, sets, time + 1, view)
  BY <1>3 DEF EntryInv, Right
<1>7. ~\E x \in 1..ways : Matches(tlb[s].way[x], vpn, b)
  <2>1. SetOf(tlb, vpn) = s
    BY <1>4, SetOfIs, VpnAssumption
  <2> QED BY <1>1, <1>4, <2>1 DEF Hits, MatchingWays
<1> HIDE DEF s, e, new
<1>8. /\ DOMAIN new = 0..sets - 1
      /\ new[s] = [way |-> [tlb[s].way EXCEPT ![w] = e], pointer |-> p]
      /\ \A t \in 0..sets - 1 : t # s => new[t] = tlb[t]
  BY <1>1, <1>2, <1>4
<1>9. /\ new[s].way[w] = e /\ new[s].pointer = p
      /\ DOMAIN new[s].way = 1..ways
      /\ \A x \in 1..ways : x # w => new[s].way[x] = tlb[s].way[x]
  BY <1>1, <1>2, <1>4, <1>8
<1>10. \A t \in 0..sets - 1 : IsSet(new[t], ways)
  <2>1. IsSet(new[s], ways)
    <3>1. tlb[s].way \in [1..ways -> Entry] /\ tlb[s].pointer \in 0..ways
      BY <1>1, <1>4 DEF IsSet
    <3>2. new[s] \in [way : [1..ways -> Entry], pointer : 0..ways]
      BY <1>3, <1>8, <3>1
    <3>3. \A x \in 1..ways : x > p => x # w /\ tlb[s].way[x] = EmptyEntry
      BY <1>1, <1>2, <1>4, <3>1 DEF IsSet
    <3> QED BY <1>9, <3>2, <3>3 DEF IsSet
  <2> QED BY <1>4, <1>8, <2>1
<1>11. \A t \in 0..sets - 1 : DOMAIN new[t].way = 1..ways
  BY <1>10 DEF IsSet
<1>12. \A t \in 0..sets - 1 : \A x \in 1..ways :
         \/ t = s /\ x = w /\ new[t].way[x] = e
         \/ ~(t = s /\ x = w) /\ new[t].way[x] = tlb[t].way[x]
  BY <1>8, <1>9
<1>13. \A t \in 0..sets - 1 : \A x \in 1..ways : EntryInv(new[t].way[x], t, sets, time + 1, view)
  BY <1>5, <1>6, <1>12
<1>14. NoTwins(new)
  <2> SUFFICES ASSUME NEW t \in 0..sets - 1, NEW x \in 1..ways, NEW y \in 1..ways,
                      new[t].way[x].valid, new[t].way[y].valid,
                      new[t].way[x].vpn = new[t].way[y].vpn, new[t].way[x].asid = new[t].way[y].asid
               PROVE  x = y
    BY ZenonT(60), <1>8, <1>11 DEF NoTwins
  <2>1. \A z \in 1..ways : ~(tlb[s].way[z].valid /\ tlb[s].way[z].vpn = vpn /\ tlb[s].way[z].asid = a)
    BY <1>7 DEF Matches
  <2>2. CASE t = s /\ (x = w \/ y = w)
    BY <1>3, <1>12, <2>1, <2>2
  <2>3. CASE ~(t = s /\ (x = w \/ y = w))
    <3>1. new[t].way[x] = tlb[t].way[x] /\ new[t].way[y] = tlb[t].way[y]
      BY <1>12, <2>3
    <3>2. x \in {z \in DOMAIN tlb[t].way : tlb[t].way[z].valid} /\ y \in {z \in DOMAIN tlb[t].way : tlb[t].way[z].valid}
      BY <1>4, <3>1
    <3> QED BY <1>4, <3>1, <3>2 DEF TlbInv, NoTwins
  <2> QED BY <2>2, <2>3
<1>15. TlbInv(new, sets, ways, time + 1, view)
  BY <1>8, <1>10, <1>13, <1>14 DEF TlbInv
<1>16. EvictsLru(tlb, new)
  <2>1. DOMAIN tlb[0].way = 1..ways
    BY <1>4
  <2> SUFFICES ASSUME NEW t \in 0..sets - 1, NEW x \in 1..ways, tlb[t].way[x].valid,
                      <<tlb[t].way[x].vpn, tlb[t].way[x].asid>> # <<new[t].way[x].vpn, new[t].way[x].asid>>
               PROVE  \A y \in 1..ways : tlb[t].way[y].valid /\ tlb[t].way[y].ts >= tlb[t].way[x].ts
    BY <1>4, <2>1 DEF EvictsLru
  <2>2. t = s /\ x = w
    BY <1>12
  <2> QED BY <1>2, <2>2
<1>17. ASSUME InOwnSpace(tlb), a = Global <=> vpn \in Kernel PROVE InOwnSpace(new)
  BY <1>3, <1>4, <1>8, <1>11, <1>12, <1>17 DEF InOwnSpace
<1> QED BY <1>15, <1>16, <1>17 DEF new

(* A hit makes an entry younger and changes nothing else.                   *)
LEMMA TouchKeeps ==
  ASSUME NEW sets \in Nat \ {0}, NEW ways \in Nat \ {0}, NEW time \in Nat \ {0}, NEW view, NEW tlb,
         TlbInv(tlb, sets, ways, time, view), NEW vpn \in Vpn, NEW a, Hits(tlb, vpn, a)
  PROVE  LET new == Touch(tlb, vpn, a, time) IN
         /\ TlbInv(new, sets, ways, time + 1, view)
         /\ EvictsLru(tlb, new)
         /\ InOwnSpace(tlb) => InOwnSpace(new)
<1> DEFINE s == vpn % sets
<1> DEFINE w == Least(MatchingWays(tlb, vpn, a))
<1> DEFINE new == Touch(tlb, vpn, a, time)
<1>1. SetOf(tlb, vpn) = s /\ s \in 0..sets - 1 /\ w \in 1..ways /\ Matches(tlb[s].way[w], vpn, a)
  BY FoundFacts
<1>2. new = [tlb EXCEPT ![s].way[w].ts = time]
  BY <1>1 DEF Touch
<1>3. /\ DOMAIN tlb = 0..sets - 1
      /\ \A t \in 0..sets - 1 : IsSet(tlb[t], ways)
      /\ \A t \in 0..sets - 1 : DOMAIN tlb[t].way = 1..ways
      /\ \A t \in 0..sets - 1 : \A x \in 1..ways : tlb[t].way[x] \in Entry
  BY DEF TlbInv, IsSet
<1>4. \A t \in 0..sets - 1 : \A x \in 1..ways :
        EntryInv(tlb[t].way[x], t, sets, time, view) /\ EntryInv(tlb[t].way[x], t, sets, time + 1, view)
  BY Later DEF TlbInv
<1> DEFINE old == tlb[s].way[w]
<1> DEFINE e == [old EXCEPT !.ts = time]
<1>5. /\ e \in Entry /\ e.valid /\ old.valid /\ e.ts = time
      /\ e.asid = old.asid /\ e.vpn = old.vpn /\ e.ppn = old.ppn
  <2>1. old \in Entry /\ old.valid /\ time \in Nat
    BY <1>1, <1>3 DEF Matches
  <2>2. e = [old EXCEPT !.ts = time]
    OBVIOUS
  <2> HIDE DEF old, e
  <2> QED BY ONLY <2>1, <2>2 DEF Entry
<1>6. EntryInv(e, s, sets, time + 1, view)
  <2>1. EntryInv(old, s, sets, time, view)
    BY <1>1, <1>4
  <2> HIDE DEF old, e, s
  <2> QED BY <1>5, <2>1 DEF EntryInv, Right
<1>7. \A t \in 0..sets - 1 :
        /\ tlb[t].way \in [1..ways -> Entry] /\ tlb[t].pointer \in 0..ways
        /\ tlb[t] = [way |-> tlb[t].way, pointer |-> tlb[t].pointer]
  BY <1>3 DEF IsSet
<1>8. /\ DOMAIN new = 0..sets - 1
      /\ new[s] = [way |-> [tlb[s].way EXCEPT ![w] = e], pointer |-> tlb[s].pointer]
      /\ \A t \in 0..sets - 1 : t # s => new[t] = tlb[t]
  <2>1. DOMAIN new = 0..sets - 1 /\ \A t \in 0..sets - 1 : t # s => new[t] = tlb[t]
    BY <1>1, <1>2, <1>3
  <2>2. new[s] = [tlb[s] EXCEPT !.way[w].ts = time]
    BY <1>1, <1>2, <1>3
  <2>3. tlb[s] = [way |-> tlb[s].way, pointer |-> tlb[s].pointer]
    BY <1>1, <1>7
  <2> HIDE DEF new, s, w
  <2>4. new[s] = [way |-> [tlb[s].way EXCEPT ![w].ts = time], pointer |-> tlb[s].pointer]
    BY <2>2, <2>3
  <2>5. [tlb[s].way EXCEPT ![w].ts = time] = [tlb[s].way EXCEPT ![w] = e]
    OBVIOUS
  <2> QED BY <2>1, <2>4, <2>5
<1> HIDE DEF s, w, e, old, new
<1>9. /\ \A t \in 0..sets - 1 : DOMAIN new[t].way = 1..ways /\ new[t].pointer = tlb[t].pointer
      /\ \A t \in 0..sets - 1 : \A x \in 1..ways :
           \/ t = s /\ x = w /\ new[t].way[x] = e
           \/ ~(t = s /\ x = w) /\ new[t].way[x] = tlb[t].way[x]
  BY SMTT(30), <1>1, <1>3, <1>8
<1>10. \A t \in 0..sets - 1 : IsSet(new[t], ways)
  <2>1. new[s] \in [way : [1..ways -> Entry], pointer : 0..ways]
    <3>1. tlb[s].way \in [1..ways -> Entry] /\ tlb[s].pointer \in 0..ways
      BY <1>1, <1>7
    <3>2. [tlb[s].way EXCEPT ![w] = e] \in [1..ways -> Entry]
      BY <1>5, <3>1
    <3> QED BY <1>8, <3>1, <3>2
  <2>2. \A x \in 1..ways : x > new[s].pointer => new[s].way[x] = EmptyEntry
    <3>1. ~(w > tlb[s].pointer)
      BY <1>1, <1>3, <1>5 DEF IsSet, EmptyEntry, old
    <3>2. \A x \in 1..ways : x > tlb[s].pointer => tlb[s].way[x] = EmptyEntry
      BY <1>1, <1>3 DEF IsSet
    <3>3. new[s].pointer = tlb[s].pointer /\ \A x \in 1..ways : x # w => new[s].way[x] = tlb[s].way[x]
      BY <1>1, <1>9
    <3> QED BY <3>1, <3>2, <3>3
  <2>3. IsSet(new[s], ways)
    BY <2>1, <2>2 DEF IsSet
  <2> QED BY <1>3, <1>8, <2>3
<1>11. \A t \in 0..sets - 1 : \A x \in 1..ways : EntryInv(new[t].way[x], t, sets, time + 1, view)
  BY <1>4, <1>6, <1>9
<1>12. \A t \in 0..sets - 1 : \A x \in 1..ways :
         /\ new[t].way[x].valid => tlb[t].way[x].valid
         /\ new[t].way[x].vpn = tlb[t].way[x].vpn
         /\ new[t].way[x].asid = tlb[t].way[x].asid
  BY <1>5, <1>9 DEF old
<1>13. NoTwins(new)
  <2> SUFFICES ASSUME NEW t \in 0..sets - 1, NEW x \in 1..ways, NEW y \in 1..ways,
                      new[t].way[x].valid, new[t].way[y].valid,
                      new[t].way[x].vpn = new[t].way[y].vpn, new[t].way[x].asid = new[t].way[y].asid
               PROVE  x = y
    BY SMTT(30), <1>8, <1>9 DEF NoTwins
  <2>1. x \in {z \in DOMAIN tlb[t].way : tlb[t].way[z].valid} /\ y \in {z \in DOMAIN tlb[t].way : tlb[t].way[z].valid}
    BY <1>3, <1>12
  <2>2. tlb[t].way[x].vpn = tlb[t].way[y].vpn /\ tlb[t].way[x].asid = tlb[t].way[y].asid
    BY <1>12
  <2> QED BY <1>3, <2>1, <2>2 DEF TlbInv, NoTwins
<1>14. EvictsLru(tlb, new)
  <2>1. DOMAIN tlb[0].way = 1..ways
    BY <1>3
  <2>2. \A t \in 0..sets - 1 : \A x \in 1..ways :
          <<tlb[t].way[x].vpn, tlb[t].way[x].asid>> = <<new[t].way[x].vpn, new[t].way[x].asid>>
    BY <1>12
  <2> SUFFICES ASSUME NEW t \in 0..sets - 1, NEW x \in 1..ways,
                      <<tlb[t].way[x].vpn, tlb[t].way[x].asid>> # <<new[t].way[x].vpn, new[t].way[x].asid>>
               PROVE  FALSE
    BY <1>3, <2>1 DEF EvictsLru
  <2> QED BY <2>2
<1>15. ASSUME InOwnSpace(tlb) PROVE InOwnSpace(new)
  <2> SUFFICES ASSUME NEW t \in 0..sets - 1, NEW x \in 1..ways, new[t].way[x].valid
               PROVE  new[t].way[x].asid = Global <=> new[t].way[x].vpn \in Kernel
    BY <1>8, <1>9 DEF InOwnSpace
  <2>1. tlb[t].way[x].asid = Global <=> tlb[t].way[x].vpn \in Kernel
    BY <1>3, <1>12, <1>15 DEF InOwnSpace
  <2> QED BY <1>12, <2>1
<1> QED BY <1>8, <1>10, <1>11, <1>13, <1>14, <1>15 DEF TlbInv, new

(* What a hit finds may be filed elsewhere.                                 *)
LEMMA FoundRight ==
  ASSUME NEW sets \in Nat \ {0}, NEW ways \in Nat \ {0}, NEW time \in Nat \ {0}, NEW view, NEW tlb,
         TlbInv(tlb, sets, ways, time, view), NEW vpn \in Vpn, NEW a \in Asid,
         KernelShared(view), NEW w \in MatchingWays(tlb, vpn, a)
  PROVE  tlb[SetOf(tlb, vpn)].way[w].ppn = view[<<vpn, a>>]
<1> DEFINE e == tlb[SetOf(tlb, vpn)].way[w]
<1>1. SetOf(tlb, vpn) \in 0..sets - 1
  BY SetOfIs, VpnAssumption DEF TlbInv
<1>2. w \in 1..ways /\ e \in Entry /\ Matches(e, vpn, a)
  BY <1>1 DEF MatchingWays, TlbInv, IsSet
<1>3. EntryInv(e, SetOf(tlb, vpn), sets, time, view)
  BY <1>1, <1>2 DEF TlbInv
<1> HIDE DEF e
<1>4. e.valid /\ e.vpn = vpn /\ e.asid \in {a, Global}
  BY <1>2 DEF Matches
<1>5. e.asid = Global => vpn \in Kernel
  BY <1>3, <1>4 DEF EntryInv
<1>6. view[<<vpn, e.asid>>] = view[<<vpn, a>>]
  BY <1>4, <1>5 DEF KernelShared
<1> QED BY <1>2, <1>3, <1>4, <1>6 DEF EntryInv, Right, e

(* ---- flushes ----------------------------------------------------------- *)
(* A flush of everything or of an address space leaves an entry alone or    *)
(* empties it, and leaves none that it names.                               *)
Flushed(tlb, new, mode, sets, ways) ==
  /\ DOMAIN new = 0..sets - 1
  /\ \A s \in 0..sets - 1 :
       /\ DOMAIN new[s].way = 1..ways
       /\ new[s] = [way |-> new[s].way, pointer |-> tlb[s].pointer]
       /\ \A w \in 1..ways :
            \/ new[s].way[w] = tlb[s].way[w] /\ mode.kind # "All" /\ tlb[s].way[w].asid # mode.asid
            \/ new[s].way[w] = Invalidated(tlb[s].way[w])

LEMMA FlushFacts ==
  ASSUME NEW sets \in Nat \ {0}, NEW ways \in Nat \ {0}, NEW time, NEW view, NEW tlb,
         TlbInv(tlb, sets, ways, time, view),
         NEW mode \in FlushModes, mode.kind \in {"All", "ByASID"}
  PROVE  Flushed(tlb, Flush(tlb, mode), mode, sets, ways)
<1> DEFINE new == Flush(tlb, mode)
<1>1. /\ DOMAIN tlb = 0..sets - 1
      /\ \A s \in 0..sets - 1 : DOMAIN tlb[s].way = 1..ways /\ tlb[s] = [way |-> tlb[s].way, pointer |-> tlb[s].pointer]
  BY DEF TlbInv, IsSet
<1>2. CASE mode.kind = "All"
  <2>1. new = FlushAll(tlb)
    BY <1>2 DEF Flush
  <2>2. DOMAIN new = 0..sets - 1
    BY <1>1, <2>1 DEF FlushAll
  <2>3. ASSUME NEW s \in 0..sets - 1
        PROVE  new[s] = [way |-> [w \in 1..ways |-> Invalidated(tlb[s].way[w])], pointer |-> tlb[s].pointer]
    BY <1>1, <2>1 DEF FlushAll
  <2>4. ASSUME NEW s \in 0..sets - 1
        PROVE  /\ DOMAIN new[s].way = 1..ways
               /\ new[s] = [way |-> new[s].way, pointer |-> tlb[s].pointer]
               /\ \A w \in 1..ways : new[s].way[w] = Invalidated(tlb[s].way[w])
    <3>0. new[s] = [way |-> [w \in 1..ways |-> Invalidated(tlb[s].way[w])], pointer |-> tlb[s].pointer]
      BY <2>3
    <3>1. new[s].way = [w \in 1..ways |-> Invalidated(tlb[s].way[w])]
      BY ONLY <3>0
    <3>2. new[s] = [way |-> new[s].way, pointer |-> tlb[s].pointer]
      BY ONLY <3>0, <3>1
    <3> QED BY <3>1, <3>2
  <2> QED BY <1>2, <2>2, <2>4 DEF Flushed
<1>3. CASE mode.kind = "ByASID"
  <2>1. new = FlushAsid(tlb, mode.asid)
    BY <1>3 DEF Flush
  <2>2. DOMAIN new = 0..sets - 1
    BY <1>1, <2>1 DEF FlushAsid
  <2>3. ASSUME NEW s \in 0..sets - 1
        PROVE  new[s] = [way |-> [w \in 1..ways |-> IF tlb[s].way[w].asid = mode.asid THEN Invalidated(tlb[s].way[w])
                                                    ELSE tlb[s].way[w]],
                         pointer |-> tlb[s].pointer]
    BY <1>1, <2>1 DEF FlushAsid
  <2>4. ASSUME NEW s \in 0..sets - 1
        PROVE  /\ DOMAIN new[s].way = 1..ways
               /\ new[s] = [way |-> new[s].way, pointer |-> tlb[s].pointer]
               /\ \A w \in 1..ways :
                    \/ new[s].way[w] = tlb[s].way[w] /\ tlb[s].way[w].asid # mode.asid
                    \/ new[s].way[w] = Invalidated(tlb[s].way[w])
    <3> DEFINE kept == [w \in 1..ways |-> IF tlb[s].way[w].asid = mode.asid THEN Invalidated(tlb[s].way[w])
                                          ELSE tlb[s].way[w]]
    <3>0. new[s] = [way |-> kept, pointer |-> tlb[s].pointer]
      BY <2>3
    <3>3. DOMAIN kept = 1..ways
      OBVIOUS
    <3>4. \A w \in 1..ways : \/ kept[w] = tlb[s].way[w] /\ tlb[s].way[w].asid # mode.asid
                             \/ kept[w] = Invalidated(tlb[s].way[w])
      OBVIOUS
    <3> HIDE DEF kept
    <3>1. new[s].way = kept
      BY <3>0
    <3>2. new[s] = [way |-> new[s].way, pointer |-> tlb[s].pointer]
      BY <3>0, <3>1
    <3> QED BY <3>1, <3>2, <3>3, <3>4
  <2> QED BY <1>3, <2>2, <2>4 DEF Flushed
<1> QED BY <1>2, <1>3

(* The mapping the guest changes is of no entry that is left.               *)
LEMMA FlushKeeps ==
  ASSUME NEW sets \in Nat \ {0}, NEW ways \in Nat \ {0}, NEW time, NEW view, NEW tlb,
         TlbInv(tlb, sets, ways, time, view),
         NEW mode \in FlushModes, mode.kind \in {"All", "ByASID"},
         NEW next,
         mode.kind = "ByASID" =>
           \A v \in Vpn, a \in Owners \ {mode.asid} : (a = Global => v \in Kernel) => next[<<v, a>>] = view[<<v, a>>]
  PROVE  LET new == Flush(tlb, mode) IN
         /\ TlbInv(new, sets, ways, time, next)
         /\ InOwnSpace(tlb) => InOwnSpace(new)
         /\ NothingValid(tlb) => NothingValid(new)
<1> DEFINE new == Flush(tlb, mode)
<1>1. /\ DOMAIN tlb = 0..sets - 1
      /\ \A s \in 0..sets - 1 : IsSet(tlb[s], ways)
      /\ \A s \in 0..sets - 1 : DOMAIN tlb[s].way = 1..ways
      /\ \A s \in 0..sets - 1 : \A w \in 1..ways : tlb[s].way[w] \in Entry /\ EntryInv(tlb[s].way[w], s, sets, time, view)
  BY DEF TlbInv, IsSet
<1>2. /\ DOMAIN new = 0..sets - 1
      /\ \A s \in 0..sets - 1 :
           /\ DOMAIN new[s].way = 1..ways
           /\ new[s] = [way |-> new[s].way, pointer |-> tlb[s].pointer]
           /\ \A w \in 1..ways :
                \/ new[s].way[w] = tlb[s].way[w] /\ mode.kind # "All" /\ tlb[s].way[w].asid # mode.asid
                \/ new[s].way[w] = Invalidated(tlb[s].way[w])
  <2>1. Flushed(tlb, new, mode, sets, ways)
    BY FlushFacts
  <2> HIDE DEF new
  <2> QED BY <2>1 DEF Flushed
<1> HIDE DEF new
<1>3. \A s \in 0..sets - 1 : \A w \in 1..ways :
        LET e == Invalidated(tlb[s].way[w]) IN
        /\ e \in Entry /\ ~e.valid /\ e.ts = 0
        /\ tlb[s].way[w] = EmptyEntry => e = EmptyEntry
  <2>1. \A e \in Entry : Invalidated(e) \in Entry /\ ~Invalidated(e).valid /\ Invalidated(e).ts = 0
    BY DEF Invalidated, Entry
  <2>2. Invalidated(EmptyEntry) = EmptyEntry
    <3>1. \A e \in Entry : ~e.valid /\ e.ts = 0 => Invalidated(e) = e
      BY DEF Invalidated, Entry
    <3>2. EmptyEntry \in Entry /\ ~EmptyEntry.valid /\ EmptyEntry.ts = 0
      BY DEF EmptyEntry, Entry
    <3> QED BY <3>1, <3>2
  <2> QED BY <1>1, <2>1, <2>2
<1>4. \A s \in 0..sets - 1 : IsSet(new[s], ways)
  <2> SUFFICES ASSUME NEW s \in 0..sets - 1 PROVE IsSet(new[s], ways)
    OBVIOUS
  <2>1. \A w \in 1..ways : new[s].way[w] \in Entry /\ (w > tlb[s].pointer => new[s].way[w] = EmptyEntry)
    BY <1>1, <1>2, <1>3 DEF IsSet
  <2>2. tlb[s].pointer \in 0..ways
    BY <1>1 DEF IsSet
  <2>3. DOMAIN new[s].way = 1..ways /\ new[s] = [way |-> new[s].way, pointer |-> tlb[s].pointer]
    BY <1>2
  <2>4. new[s].way = [w \in 1..ways |-> new[s].way[w]]
    <3>1. CASE mode.kind = "All"
      BY <1>1, <2>3, <3>1 DEF new, Flush, FlushAll
    <3>2. CASE mode.kind = "ByASID"
      BY <1>1, <2>3, <3>2 DEF new, Flush, FlushAsid
    <3> QED BY <3>1, <3>2
  <2>5. new[s].way \in [1..ways -> Entry]
    BY <2>1, <2>4
  <2> QED BY <2>1, <2>2, <2>3, <2>5 DEF IsSet
<1>5. ASSUME NEW s \in 0..sets - 1, NEW w \in 1..ways, new[s].way[w].valid
      PROVE  /\ new[s].way[w] = tlb[s].way[w] /\ tlb[s].way[w].asid # mode.asid
             /\ mode.kind = "ByASID"
  BY <1>2, <1>3, <1>5
<1>6. ASSUME NEW s \in 0..sets - 1, NEW w \in 1..ways PROVE EntryInv(new[s].way[w], s, sets, time, next)
  <2> DEFINE e == tlb[s].way[w]
  <2>1. CASE ~new[s].way[w].valid
    <3>1. CASE new[s].way[w] = e
      BY <1>1, <2>1, <3>1 DEF EntryInv
    <3>2. CASE new[s].way[w] = Invalidated(e)
      BY <1>3, <2>1, <3>2 DEF EntryInv
    <3> QED BY <1>2, <3>1, <3>2
  <2>2. CASE new[s].way[w].valid
    <3>1. new[s].way[w] = e /\ e.valid /\ e.asid # mode.asid /\ mode.kind = "ByASID"
      BY <1>5, <2>2
    <3>2. e \in Entry /\ EntryInv(e, s, sets, time, view)
      BY <1>1
    <3> HIDE DEF e
    <3>3. e.vpn \in Vpn /\ (e.asid = Global => e.vpn \in Kernel) /\ e.asid \in Asid \cup {Global}
      BY <3>1, <3>2 DEF EntryInv, Entry
    <3>4. next[<<e.vpn, e.asid>>] = view[<<e.vpn, e.asid>>]
      BY <3>1, <3>3 DEF Owners
    <3> QED BY <3>1, <3>2, <3>4 DEF EntryInv, Right
  <2> QED BY <2>1, <2>2
<1>7. NoTwins(new)
  <2> SUFFICES ASSUME NEW t \in 0..sets - 1, NEW x \in 1..ways, NEW y \in 1..ways,
                      new[t].way[x].valid, new[t].way[y].valid,
                      new[t].way[x].vpn = new[t].way[y].vpn, new[t].way[x].asid = new[t].way[y].asid
               PROVE  x = y
    BY <1>2 DEF NoTwins
  <2>1. new[t].way[x] = tlb[t].way[x] /\ new[t].way[y] = tlb[t].way[y]
    BY <1>5
  <2>2. x \in {z \in DOMAIN tlb[t].way : tlb[t].way[z].valid} /\ y \in {z \in DOMAIN tlb[t].way : tlb[t].way[z].valid}
    BY <1>1, <2>1
  <2> QED BY <1>1, <2>1, <2>2 DEF TlbInv, NoTwins
<1>8. InOwnSpace(tlb) => InOwnSpace(new)
  BY <1>1, <1>2, <1>5 DEF InOwnSpace
<1>9. NothingValid(tlb) => NothingValid(new)
  BY <1>1, <1>2, <1>5 DEF NothingValid
<1> QED BY <1>2, <1>4, <1>6, <1>7, <1>8, <1>9 DEF TlbInv, new

(* The page tables matter to no TLB that is empty.                          *)
LEMMA EmptyKeeps ==
  ASSUME NEW sets \in Nat \ {0}, NEW ways \in Nat \ {0}, NEW time, NEW view, NEW next, NEW tlb,
         TlbInv(tlb, sets, ways, time, view), NothingValid(tlb)
  PROVE  TlbInv(tlb, sets, ways, time, next)
<1>1. /\ DOMAIN tlb = 0..sets - 1
      /\ \A s \in 0..sets - 1 : DOMAIN tlb[s].way = 1..ways
  BY DEF TlbInv, IsSet
<1>2. \A s \in 0..sets - 1 : \A w \in 1..ways : ~tlb[s].way[w].valid
  BY <1>1 DEF NothingValid
<1> QED BY <1>2 DEF TlbInv, EntryInv

(* A new TLB has nothing in it.                                             *)
LEMMA NewTlb ==
  ASSUME NEW sets \in Nat \ {0}, NEW ways \in Nat \ {0}, NEW time, NEW view
  PROVE  LET tlb == EmptyTlb(sets, ways) IN
         TlbInv(tlb, sets, ways, time, view) /\ NothingValid(tlb) /\ InOwnSpace(tlb)
<1> DEFINE tlb == EmptyTlb(sets, ways)
<1>1. /\ DOMAIN tlb = 0..sets - 1
      /\ \A s \in 0..sets - 1 : tlb[s] = [way |-> [w \in 1..ways |-> EmptyEntry], pointer |-> 0]
  BY DEF EmptyTlb, EmptySet
<1>2. EmptyEntry \in Entry /\ ~EmptyEntry.valid /\ EmptyEntry.ts = 0
  BY DEF EmptyEntry, Entry
<1> HIDE DEF tlb
<1>3. \A s \in 0..sets - 1 : /\ DOMAIN tlb[s].way = 1..ways /\ tlb[s].pointer = 0
                             /\ \A w \in 1..ways : tlb[s].way[w] = EmptyEntry
  BY <1>1
<1>4. \A s \in 0..sets - 1 : IsSet(tlb[s], ways)
  BY <1>1, <1>2, <1>3 DEF IsSet
<1>5. \A s \in 0..sets - 1 : \A w \in 1..ways : EntryInv(tlb[s].way[w], s, sets, time, view)
  BY <1>2, <1>3 DEF EntryInv
<1>6. NothingValid(tlb)
  BY <1>1, <1>2, <1>3 DEF NothingValid
<1>7. NoTwins(tlb) /\ InOwnSpace(tlb)
  BY <1>6 DEF NothingValid, NoTwins, InOwnSpace
<1> QED BY <1>1, <1>4, <1>5, <1>6, <1>7 DEF TlbInv, tlb

-----------------------------------------------------------------------------
(* ---- the steps of the MMU ---------------------------------------------- *)
LEMMA Parameters ==
  /\ L1Ways \in Nat \ {0} /\ StlbWays \in Nat \ {0} /\ StlbSets \in Nat \ {0} /\ 1 \in Nat \ {0}
  /\ L1Enabled \in BOOLEAN /\ StlbEnabled \in BOOLEAN /\ NoHugePage \in BOOLEAN
  /\ \A v \in Vpn : RegionOf[v] \in Vpn /\ (RegionOf[v] \in Kernel <=> v \in Kernel)
  /\ \A v \in Vpn : RegionOf[v] \in Regions
BY OrdinaryMMUAssumption DEF Regions

(* A page of a space the guest runs has a mapping.                          *)
LEMMA MappedFacts ==
  ASSUME GuestInv, NEW v \in Vpn, NEW a \in Asid
  PROVE  /\ Space(v, a) \in {a, Global} /\ (Space(v, a) = Global <=> v \in Kernel)
         /\ <<Space(v, a), RegionOf[v]>> \in Mappings
         /\ Mapped(v, a) \in Ppn
         /\ Space(v, Space(v, a)) = Space(v, a)
<1>1. Space(v, a) \in {a, Global} /\ (Space(v, a) = Global <=> v \in Kernel)
  BY NamesAssumption DEF Space
<1>2. <<Space(v, a), RegionOf[v]>> \in Mappings
  BY DEF Mappings
<1>3. Mapped(v, a) \in Ppn
  BY <1>2 DEF Mapped, GuestInv
<1> QED BY <1>1, <1>2, <1>3 DEF Space

LEMMA SeenFacts ==
  ASSUME NEW tables
  PROVE  /\ \A v \in Vpn, a \in Owners : Seen(tables)[<<v, a>>] = tables[<<Space(v, a), RegionOf[v]>>]
         /\ KernelShared(Seen(tables))
<1>1. \A v \in Vpn, a \in Owners : Seen(tables)[<<v, a>>] = tables[<<Space(v, a), RegionOf[v]>>]
  BY DEF Seen
<1> QED BY <1>1, OrdinaryMMUAssumption DEF KernelShared, Owners, Space

(* Nothing hits in a TLB that the build does not have.                      *)
LEMMA L1Later ==
  ASSUME L1Inv, GuestInv, now' = now + 1, pt' = pt, UNCHANGED <<itlb, dtlb>>
  PROVE  L1Inv'
<1>1. TlbInv(itlb, 1, L1Ways, now + 1, Seen(pt)) /\ TlbInv(dtlb, 1, L1Ways, now + 1, Seen(pt))
  BY Later, Parameters DEF L1Inv, GuestInv
<1> QED BY <1>1 DEF L1Inv

LEMMA StlbLater ==
  ASSUME StlbInv, GuestInv, now' = now + 1, pt' = pt, UNCHANGED stlb
  PROVE  StlbInv'
<1>1. TlbInv(stlb, StlbSets, StlbWays, now + 1, Seen(pt))
  BY Later, Parameters DEF StlbInv, GuestInv
<1> QED BY <1>1 DEF StlbInv

(* refill_4k_tlb, the first level: the page missed there.                   *)
LEMMA RefillL1Keeps ==
  ASSUME L1Inv, GuestInv, NEW instr \in BOOLEAN, NEW vpn \in Vpn, NEW a \in {asid, Global},
         a = Global => vpn \in Kernel, ~HitL1(instr, vpn), RefillL1(instr, vpn, a, Mapped(vpn, asid)),
         now' = now + 1, pt' = pt
  PROVE  L1Inv'
<1>1. CASE ~L1Enabled
  BY <1>1, L1Later DEF RefillL1
<1>2. CASE L1Enabled
  <2> DEFINE ppn == Mapped(vpn, asid)
  <2>1. asid \in Asid /\ a \in Asid \cup {Global} /\ now \in Nat \ {0} /\ ppn \in Ppn
    BY MappedFacts DEF GuestInv
  <2>2. ppn = Seen(pt)[<<vpn, a>>]
    <3>1. Space(vpn, a) = Space(vpn, asid)
      BY DEF Space
    <3> QED BY <2>1, <3>1, SeenFacts DEF Mapped, Owners
  <2>3. ~Hits(L1(instr), vpn, asid)
    BY <1>2 DEF HitL1
  <2>4. ASSUME NEW tlb, TlbInv(tlb, 1, L1Ways, now, Seen(pt)), ~Hits(tlb, vpn, asid)
        PROVE  /\ TlbInv(Insert(tlb, vpn, a, ppn, now), 1, L1Ways, now + 1, Seen(pt))
    <3> HIDE DEF ppn
    <3> QED BY <2>1, <2>2, <2>4, InsertKeeps, Parameters
  <2>5. TlbInv(itlb, 1, L1Ways, now + 1, Seen(pt)) /\ TlbInv(dtlb, 1, L1Ways, now + 1, Seen(pt))
    BY Later, Parameters DEF L1Inv, GuestInv
  <2> HIDE DEF ppn
  <2>6. CASE instr
    <3>1. itlb' = Insert(itlb, vpn, a, ppn, now) /\ dtlb' = dtlb
      BY <1>2, <2>6 DEF RefillL1, ppn
    <3>2. ~Hits(itlb, vpn, asid)
      BY <2>3, <2>6 DEF L1
    <3> QED BY <1>2, <2>4, <2>5, <3>1, <3>2 DEF L1Inv
  <2>7. CASE ~instr
    <3>1. dtlb' = Insert(dtlb, vpn, a, ppn, now) /\ itlb' = itlb
      BY <1>2, <2>7 DEF RefillL1, ppn
    <3>2. ~Hits(dtlb, vpn, asid)
      BY <2>3, <2>7 DEF L1
    <3> QED BY <1>2, <2>4, <2>5, <3>1, <3>2 DEF L1Inv
  <2> QED BY <2>6, <2>7
<1> QED BY <1>1, <1>2, Parameters

LEMMA TranslateL1Inv ==
  ASSUME MMUInv, NEW instr \in BOOLEAN, NEW vpn \in Vpn, TranslateL1(instr, vpn),
         now' = now + 1, UNCHANGED <<asid, pt>>
  PROVE  MMUInv'
<1>1. StlbInv'
  BY StlbLater DEF MMUInv, TranslateL1
<1>2. HugeInv' /\ GuestInv'
  BY DEF MMUInv, TranslateL1, HugeInv, GuestInv
<1>3. Hits(L1(instr), vpn, asid) /\ L1Enabled
  BY DEF TranslateL1, HitL1
<1>4. ASSUME NEW tlb, TlbInv(tlb, 1, L1Ways, now, Seen(pt)), Hits(tlb, vpn, asid)
      PROVE  TlbInv(Touch(tlb, vpn, asid, now), 1, L1Ways, now + 1, Seen(pt))
  <2>1. now \in Nat \ {0} /\ asid \in Asid
    BY DEF MMUInv, GuestInv
  <2> QED BY <1>4, <2>1, TouchKeeps, Parameters
<1>5. TlbInv(itlb, 1, L1Ways, now + 1, Seen(pt)) /\ TlbInv(dtlb, 1, L1Ways, now + 1, Seen(pt))
  BY Later, Parameters DEF MMUInv, L1Inv, GuestInv
<1>6. L1Inv'
  <2>1. CASE instr
    <3>1. itlb' = Touch(itlb, vpn, asid, now) /\ dtlb' = dtlb
      BY <2>1 DEF TranslateL1
    <3> QED BY <1>3, <1>4, <1>5, <2>1, <3>1 DEF MMUInv, L1Inv, L1
  <2>2. CASE ~instr
    <3>1. dtlb' = Touch(dtlb, vpn, asid, now) /\ itlb' = itlb
      BY <2>2 DEF TranslateL1
    <3> QED BY <1>3, <1>4, <1>5, <2>2, <3>1 DEF MMUInv, L1Inv, L1
  <2> QED BY <2>1, <2>2
<1> QED BY <1>1, <1>2, <1>6 DEF MMUInv

LEMMA TranslateStlbInv ==
  ASSUME MMUInv, NEW instr \in BOOLEAN, NEW vpn \in Vpn, TranslateStlb(instr, vpn),
         now' = now + 1, UNCHANGED <<asid, pt>>
  PROVE  MMUInv'
<1>1. HugeInv' /\ GuestInv'
  BY DEF MMUInv, TranslateStlb, HugeInv, GuestInv
<1>2. now \in Nat \ {0} /\ asid \in Asid /\ Hits(stlb, vpn, asid) /\ StlbEnabled
  BY DEF MMUInv, GuestInv, TranslateStlb, HitStlb
<1>3. StlbInv'
  <2>1. stlb' = Touch(stlb, vpn, asid, now)
    BY DEF TranslateStlb
  <2>2. TlbInv(stlb, StlbSets, StlbWays, now, Seen(pt)) /\ InOwnSpace(stlb)
    BY DEF MMUInv, StlbInv
  <2>3. /\ TlbInv(Touch(stlb, vpn, asid, now), StlbSets, StlbWays, now + 1, Seen(pt))
        /\ InOwnSpace(Touch(stlb, vpn, asid, now))
    BY <1>2, <2>2, TouchKeeps, Parameters
  <2> QED BY <1>2, <2>1, <2>3 DEF StlbInv
<1>4. Found(stlb, vpn, asid).ppn = Mapped(vpn, asid)
  <2>1. TlbInv(stlb, StlbSets, StlbWays, now, Seen(pt))
    BY DEF MMUInv, StlbInv
  <2>2. Least(MatchingWays(stlb, vpn, asid)) \in MatchingWays(stlb, vpn, asid)
    <3>1. SetOf(stlb, vpn) \in 0..StlbSets - 1 /\ DOMAIN stlb = 0..StlbSets - 1
      BY <2>1, SetOfIs, VpnAssumption, Parameters DEF TlbInv
    <3>2. MatchingWays(stlb, vpn, asid) \in SUBSET Nat
      BY <2>1, <3>1, Parameters DEF MatchingWays, TlbInv, IsSet
    <3> QED BY <1>2, <3>2, LeastNatural DEF Hits
  <2>3. KernelShared(Seen(pt)) /\ Seen(pt)[<<vpn, asid>>] = Mapped(vpn, asid)
    BY <1>2, SeenFacts DEF Mapped, Owners
  <2> QED BY <1>2, <2>1, <2>2, <2>3, FoundRight, Parameters DEF Found
<1>5. L1Inv'
  <2>1. asid # Global
    BY <1>2, NamesAssumption
  <2>2. ~HitL1(instr, vpn) /\ RefillL1(instr, vpn, asid, Mapped(vpn, asid))
    BY <1>4 DEF TranslateStlb
  <2> QED BY <2>1, <2>2, RefillL1Keeps DEF MMUInv
<1> QED BY <1>1, <1>3, <1>5 DEF MMUInv

LEMMA TranslateHugeInv ==
  ASSUME MMUInv, NEW instr \in BOOLEAN, NEW vpn \in Vpn, TranslateHuge(instr, vpn),
         now' = now + 1, UNCHANGED <<asid, pt>>
  PROVE  MMUInv'
<1>1. HugeInv' /\ GuestInv'
  BY DEF MMUInv, TranslateHuge, HugeInv, GuestInv
<1>2. StlbInv'
  BY StlbLater DEF MMUInv, TranslateHuge
<1>3. L1Inv'
  BY L1Later DEF MMUInv, TranslateHuge
<1> QED BY <1>1, <1>2, <1>3 DEF MMUInv

(* A walk that fills the huge TLBs files the page in its own space.         *)
LEMMA WalkInv ==
  ASSUME MMUInv, NEW instr \in BOOLEAN, NEW vpn \in Vpn, Walk(instr, vpn),
         now' = now + 1, UNCHANGED <<asid, pt>>
  PROVE  MMUInv'
<1> DEFINE a == Space(vpn, asid)
<1> DEFINE ppn == Mapped(vpn, asid)
<1>1. GuestInv'
  BY DEF MMUInv, GuestInv
<1>2. /\ asid \in Asid /\ now \in Nat \ {0} /\ pt \in [Mappings -> Ppn]
      /\ a \in {asid, Global} /\ (a = Global <=> vpn \in Kernel) /\ Space(vpn, a) = a
      /\ <<a, RegionOf[vpn]>> \in Mappings
      /\ ppn \in Ppn /\ ppn = pt[<<a, RegionOf[vpn]>>]
  BY MappedFacts DEF MMUInv, GuestInv, Mapped
<1>3. CASE NoHugePage \/ PageSize[vpn] = "4KB"
  <2>1. Refill4K(instr, vpn, a, ppn) /\ UNCHANGED huge /\ ~HitL1(instr, vpn) /\ ~HitStlb(vpn)
    BY <1>3 DEF Walk
  <2>2. HugeInv'
    BY <2>1 DEF MMUInv, HugeInv
  <2>3. L1Inv'
    BY <1>2, <2>1, RefillL1Keeps DEF MMUInv, Refill4K
  <2>4. StlbInv'
    <3>1. CASE ~StlbEnabled
      BY <2>1, <3>1, StlbLater DEF MMUInv, Refill4K
    <3>2. CASE StlbEnabled
      <4>1. stlb' = Insert(stlb, vpn, a, ppn, now)
        BY <2>1, <3>2 DEF Refill4K
      <4>2. ~Hits(stlb, vpn, asid)
        BY <2>1, <3>2 DEF HitStlb
      <4>3. TlbInv(stlb, StlbSets, StlbWays, now, Seen(pt)) /\ InOwnSpace(stlb)
        BY DEF MMUInv, StlbInv
      <4> HIDE DEF a, ppn
      <4>4. /\ TlbInv(Insert(stlb, vpn, a, ppn, now), StlbSets, StlbWays, now + 1, Seen(pt))
            /\ InOwnSpace(Insert(stlb, vpn, a, ppn, now))
        <5>1. a \in Owners /\ ppn = Seen(pt)[<<vpn, a>>]
          BY <1>2, SeenFacts DEF Owners
        <5> QED BY <1>2, <4>2, <4>3, <5>1, InsertKeeps, Parameters
      <4> QED BY <3>2, <4>1, <4>4 DEF StlbInv
    <3> QED BY <3>1, <3>2, Parameters
  <2> QED BY <1>1, <2>2, <2>3, <2>4 DEF MMUInv
<1>4. CASE ~(NoHugePage \/ PageSize[vpn] = "4KB")
  <2>1. /\ huge' = [huge EXCEPT ![PageSize[vpn]][RegionOf[vpn]] = [asid |-> a, ppn |-> ppn]]
        /\ UNCHANGED <<itlb, dtlb, stlb>> /\ ~NoHugePage
    BY <1>4 DEF Walk
  <2>2. PageSize[vpn] \in HugeSize /\ RegionOf[vpn] \in Regions
    BY <1>4, OrdinaryMMUAssumption, Parameters DEF HugeSize
  <2>3. HugeInv'
    <3> HIDE DEF a, ppn
    <3>1. huge \in [HugeSize -> [Regions -> [asid : Asid \cup {Global}, ppn : Ppn \cup {NoPpn}]]]
      BY DEF MMUInv, HugeInv
    <3>2. [asid |-> a, ppn |-> ppn] \in [asid : Asid \cup {Global}, ppn : Ppn \cup {NoPpn}]
      BY <1>2
    <3>3. huge' \in [HugeSize -> [Regions -> [asid : Asid \cup {Global}, ppn : Ppn \cup {NoPpn}]]]
      BY <2>1, <2>2, <3>1, <3>2
    <3>4. ASSUME NEW size \in HugeSize, NEW r \in Regions
          PROVE  \/ huge'[size][r] = huge[size][r]
                 \/ r = RegionOf[vpn] /\ huge'[size][r] = [asid |-> a, ppn |-> ppn]
      BY <2>1, <2>2, <3>1
    <3>5. ASSUME NEW size \in HugeSize, NEW r \in Regions, huge'[size][r].ppn # NoPpn
          PROVE  /\ ~NoHugePage /\ <<huge'[size][r].asid, r>> \in Mappings
                 /\ huge'[size][r].ppn = pt[<<huge'[size][r].asid, r>>]
      <4>1. CASE huge'[size][r] = huge[size][r]
        BY <3>5, <4>1 DEF MMUInv, HugeInv
      <4>2. CASE r = RegionOf[vpn] /\ huge'[size][r] = [asid |-> a, ppn |-> ppn]
        BY <1>2, <2>1, <4>2
      <4> QED BY <3>4, <4>1, <4>2
    <3> QED BY <3>3, <3>5 DEF HugeInv
  <2>4. StlbInv'
    BY <2>1, StlbLater DEF MMUInv
  <2>5. L1Inv'
    BY <2>1, L1Later DEF MMUInv
  <2> QED BY <1>1, <2>3, <2>4, <2>5 DEF MMUInv
<1> QED BY <1>3, <1>4

LEMMA InitInv == Init => MMUInv
<1> SUFFICES ASSUME Init PROVE MMUInv
  OBVIOUS
<1>1. now = 1 /\ now \in Nat \ {0} /\ asid \in Asid
  BY DEF Init
<1>2. pt \in [Mappings -> Ppn]
  BY DEF Init
<1>3. L1Inv
  BY NewTlb, Parameters DEF Init, L1Inv
<1>4. StlbInv
  BY NewTlb, Parameters DEF Init, StlbInv
<1>5. HugeInv
  <2>1. huge = [size \in HugeSize |-> [r \in Regions |-> NoEntry]]
    BY DEF Init
  <2>2. NoEntry \in [asid : Asid \cup {Global}, ppn : Ppn \cup {NoPpn}] /\ NoEntry.ppn = NoPpn
    BY DEF NoEntry
  <2> HIDE DEF NoEntry
  <2> QED BY <2>1, <2>2 DEF HugeInv
<1> QED BY <1>1, <1>2, <1>3, <1>4, <1>5 DEF MMUInv, GuestInv

LEMMA TranslateAndRefillInv ==
  ASSUME MMUInv, NEW instr \in BOOLEAN, NEW vpn \in Vpn, TranslateAndRefill(instr, vpn)
  PROVE  MMUInv'
BY TranslateL1Inv, TranslateStlbInv, TranslateHugeInv, WalkInv DEF TranslateAndRefill

(* The guest changes only what the flush covers, and what a flush covers it *)
(* removes; a TLB that the build does not have has nothing to remove.       *)
LEMMA FlushMMUInv ==
  ASSUME FlushKinds \subseteq {"All", "ByASID"}, MMUInv, NEW mode \in FlushModes, FlushMMU(mode)
  PROVE  MMUInv'
<1>1. mode.kind \in {"All", "ByASID"} /\ now' = now /\ asid' = asid
  BY DEF FlushMMU
<1>2. /\ pt' \in [Mappings -> Ppn]
      /\ \A m \in Mappings : pt'[m] = pt[m] \/ Covers(mode, m[1], m[2])
  <2>1. pt \in [Mappings -> Ppn]
    BY DEF MMUInv, GuestInv
  <2>2. CASE pt' = pt
    BY <2>1, <2>2
  <2>3. CASE \E m \in Mappings, p \in Ppn : Covers(mode, m[1], m[2]) /\ pt' = [pt EXCEPT ![m] = p]
    BY <2>1, <2>3
  <2> QED BY <2>2, <2>3 DEF FlushMMU
<1>3. GuestInv'
  BY <1>1, <1>2 DEF MMUInv, GuestInv
<1>4. ASSUME NEW sets \in Nat \ {0}, NEW ways \in Nat \ {0}, NEW tlb, TlbInv(tlb, sets, ways, now, Seen(pt))
      PROVE  /\ TlbInv(Flush(tlb, mode), sets, ways, now, Seen(pt'))
             /\ InOwnSpace(tlb) => InOwnSpace(Flush(tlb, mode))
             /\ NothingValid(tlb) => TlbInv(tlb, sets, ways, now, Seen(pt'))
  <2>0. ASSUME mode.kind = "ByASID", NEW v \in Vpn, NEW a \in Owners \ {mode.asid}, a = Global => v \in Kernel
        PROVE  Seen(pt')[<<v, a>>] = Seen(pt)[<<v, a>>]
    <3>1. PICK b \in Asid : Space(v, a) = Space(v, b)
      BY <2>0 DEF FlushModes, Owners, Space
    <3> DEFINE m == <<Space(v, a), RegionOf[v]>>
    <3>2. m \in Mappings
      BY <3>1 DEF Mappings
    <3>3. Space(v, a) # mode.asid
      BY <2>0, NamesAssumption DEF FlushModes, Owners, Space
    <3>4. ~Covers(mode, m[1], m[2])
      BY <2>0, <3>3 DEF Covers
    <3>5. pt'[m] = pt[m]
      BY <1>2, <3>2, <3>4
    <3> QED BY <3>5, SeenFacts
  <2>1. /\ TlbInv(Flush(tlb, mode), sets, ways, now, Seen(pt'))
        /\ InOwnSpace(tlb) => InOwnSpace(Flush(tlb, mode))
    BY <1>1, <1>4, <2>0, FlushKeeps
  <2>2. NothingValid(tlb) => TlbInv(tlb, sets, ways, now, Seen(pt'))
    BY <1>4, EmptyKeeps
  <2> QED BY <2>1, <2>2
<1>5. L1Inv'
  <2>1. CASE L1Enabled
    <3>1. itlb' = Flush(itlb, mode) /\ dtlb' = Flush(dtlb, mode)
      BY <2>1 DEF FlushMMU
    <3> QED BY <1>1, <1>4, <2>1, <3>1, Parameters DEF MMUInv, L1Inv
  <2>2. CASE ~L1Enabled
    <3>1. itlb' = itlb /\ dtlb' = dtlb
      BY <2>2 DEF FlushMMU
    <3> QED BY <1>1, <1>4, <2>2, <3>1, Parameters DEF MMUInv, L1Inv
  <2> QED BY <2>1, <2>2
<1>6. StlbInv'
  <2>1. CASE StlbEnabled
    <3>1. stlb' = Flush(stlb, mode)
      BY <2>1 DEF FlushMMU
    <3> QED BY <1>1, <1>4, <2>1, <3>1, Parameters DEF MMUInv, StlbInv
  <2>2. CASE ~StlbEnabled
    <3>1. stlb' = stlb
      BY <2>2 DEF FlushMMU
    <3> QED BY <1>1, <1>4, <2>2, <3>1, Parameters DEF MMUInv, StlbInv
  <2> QED BY <2>1, <2>2
<1>7. HugeInv'
  <2>1. CASE NoHugePage
    <3>1. huge' = huge /\ \A size \in HugeSize : \A r \in Regions : huge[size][r].ppn = NoPpn
      BY <2>1 DEF FlushMMU, FlushedHuge, MMUInv, HugeInv
    <3> QED BY <3>1 DEF MMUInv, HugeInv
  <2>2. CASE ~NoHugePage
    <3>1. huge' = [size \in HugeSize |-> [r \in Regions |-> NoEntry]]
      BY <2>2 DEF FlushMMU, FlushedHuge
    <3>2. NoEntry \in [asid : Asid \cup {Global}, ppn : Ppn \cup {NoPpn}] /\ NoEntry.ppn = NoPpn
      BY DEF NoEntry
    <3> HIDE DEF NoEntry
    <3> QED BY <3>1, <3>2 DEF HugeInv
  <2> QED BY <2>1, <2>2
<1> QED BY <1>1, <1>3, <1>5, <1>6, <1>7 DEF MMUInv

LEMMA SwitchToInv ==
  ASSUME MMUInv, NEW a \in Asid, SwitchTo(a)
  PROVE  MMUInv'
BY DEF SwitchTo, MMUInv, L1Inv, StlbInv, HugeInv, GuestInv

LEMMA StepInv ==
  ASSUME FlushKinds \subseteq {"All", "ByASID"}, MMUInv, [Next]_vars
  PROVE  MMUInv'
<1>1. CASE UNCHANGED vars
  BY <1>1 DEF vars, MMUInv, L1Inv, StlbInv, HugeInv, GuestInv
<1>2. CASE Next
  BY <1>2, TranslateAndRefillInv, FlushMMUInv, SwitchToInv DEF Next
<1> QED BY <1>1, <1>2

-----------------------------------------------------------------------------
(* ---- what the invariant says ------------------------------------------- *)
LEMMA TlbTypes ==
  ASSUME NEW sets \in Nat \ {0}, NEW ways \in Nat \ {0}, NEW time, NEW view, NEW tlb,
         TlbInv(tlb, sets, ways, time, view)
  PROVE  /\ \A s \in DOMAIN tlb, w \in DOMAIN tlb[0].way : tlb[s].way[w] \in Entry
         /\ PointerBound(tlb)
<1>1. /\ DOMAIN tlb = 0..sets - 1 /\ 0 \in 0..sets - 1
      /\ \A s \in 0..sets - 1 : IsSet(tlb[s], ways)
      /\ \A s \in 0..sets - 1 : DOMAIN tlb[s].way = 1..ways
  BY DEF TlbInv, IsSet
<1>2. Cardinality(1..ways) = ways
  BY FS_Interval
<1>3. DOMAIN tlb[0].way = 1..ways
  BY <1>1
<1>4. \A s \in 0..sets - 1 : \A w \in 1..ways : tlb[s].way[w] \in Entry
  BY <1>1 DEF IsSet
<1>5. PointerBound(tlb)
  BY <1>1, <1>2 DEF PointerBound, IsSet
<1> QED BY <1>1, <1>3, <1>4, <1>5

LEMMA InvTypes == MMUInv => TypeOK
<1> SUFFICES ASSUME MMUInv PROVE TypeOK
  OBVIOUS
<1>1. /\ TlbInv(itlb, 1, L1Ways, now, Seen(pt)) /\ TlbInv(dtlb, 1, L1Ways, now, Seen(pt))
      /\ TlbInv(stlb, StlbSets, StlbWays, now, Seen(pt))
  BY DEF MMUInv, L1Inv, StlbInv
<1>2. \A tlb \in {itlb, dtlb, stlb} :
        /\ \A s \in DOMAIN tlb, w \in DOMAIN tlb[0].way : tlb[s].way[w] \in Entry
        /\ PointerBound(tlb)
  BY <1>1, TlbTypes, Parameters
<1> QED BY <1>2 DEF TypeOK, MMUInv, HugeInv, GuestInv

LEMMA InvHits == MMUInv => HitsAgreeWithWalk
<1> SUFFICES ASSUME MMUInv, NEW vpn \in Vpn, NEW a \in Asid
             PROVE  /\ \A tlb \in {itlb, dtlb, stlb} : \A w \in MatchingWays(tlb, vpn, a) :
                         tlb[SetOf(tlb, vpn)].way[w].ppn = Mapped(vpn, a)
                    /\ \A size \in HugeSize :
                         LET e == huge[size][RegionOf[vpn]] IN
                         PageSize[vpn] = size /\ e.ppn # NoPpn /\ e.asid \in {Global, a}
                           => e.ppn = Mapped(vpn, a)
  BY DEF HitsAgreeWithWalk
<1>1. /\ TlbInv(itlb, 1, L1Ways, now, Seen(pt)) /\ TlbInv(dtlb, 1, L1Ways, now, Seen(pt))
      /\ TlbInv(stlb, StlbSets, StlbWays, now, Seen(pt))
  BY DEF MMUInv, L1Inv, StlbInv
<1>2. \A tlb \in {itlb, dtlb, stlb} : \A w \in MatchingWays(tlb, vpn, a) :
        tlb[SetOf(tlb, vpn)].way[w].ppn = Mapped(vpn, a)
  <2>1. now \in Nat \ {0}
    BY DEF MMUInv, GuestInv
  <2>2. ASSUME NEW sets \in Nat \ {0}, NEW ways \in Nat \ {0}, NEW tlb, TlbInv(tlb, sets, ways, now, Seen(pt))
        PROVE  \A w \in MatchingWays(tlb, vpn, a) : tlb[SetOf(tlb, vpn)].way[w].ppn = Mapped(vpn, a)
    <3>1. KernelShared(Seen(pt)) /\ Seen(pt)[<<vpn, a>>] = Mapped(vpn, a)
      BY SeenFacts DEF Mapped, Owners
    <3>2. ASSUME NEW w \in MatchingWays(tlb, vpn, a)
          PROVE  tlb[SetOf(tlb, vpn)].way[w].ppn = Seen(pt)[<<vpn, a>>]
      BY <2>1, <2>2, <3>1, FoundRight
    <3> QED BY <3>1, <3>2
  <2> QED BY <1>1, <2>2, Parameters
<1>3. ASSUME NEW size \in HugeSize, huge[size][RegionOf[vpn]].ppn # NoPpn,
             huge[size][RegionOf[vpn]].asid \in {Global, a}
      PROVE  huge[size][RegionOf[vpn]].ppn = Mapped(vpn, a)
  <2> DEFINE r == RegionOf[vpn]
  <2> DEFINE e == huge[size][r]
  <2>1. r \in Regions
    BY Parameters
  <2>2. <<e.asid, r>> \in Mappings /\ e.ppn = pt[<<e.asid, r>>]
    BY <1>3, <2>1 DEF MMUInv, HugeInv
  <2>3. PICK v \in Vpn, b \in Asid : e.asid = Space(v, b) /\ r = RegionOf[v]
    <3> HIDE DEF e, r
    <3> QED BY <2>2 DEF Mappings
  <2>4. v \in Kernel <=> vpn \in Kernel
    BY <2>3, Parameters
  <2>5. e.asid = Space(vpn, a)
    <3>1. e.asid = Global <=> v \in Kernel
      BY <2>3, NamesAssumption DEF Space
    <3> QED BY <1>3, <2>4, <3>1 DEF Space
  <2> QED BY <2>2, <2>5 DEF Mapped
<1> QED BY <1>2, <1>3

(* In a TLB that files every page in its own space no two entries serve     *)
(* one process.                                                             *)
LEMMA OneMatchInOwnSpace ==
  ASSUME NEW tlb, NoTwins(tlb), InOwnSpace(tlb)
  PROVE  OneMatch(tlb)
<1> SUFFICES ASSUME NEW s \in DOMAIN tlb,
                    NEW w \in {y \in DOMAIN tlb[s].way : tlb[s].way[y].valid},
                    NEW x \in {y \in DOMAIN tlb[s].way : tlb[s].way[y].valid},
                    tlb[s].way[w].vpn = tlb[s].way[x].vpn,
                    tlb[s].way[w].asid = tlb[s].way[x].asid \/ tlb[s].way[w].asid = Global
             PROVE  w = x
  BY DEF OneMatch
<1>1. tlb[s].way[w].asid = tlb[s].way[x].asid
  BY DEF InOwnSpace
<1> QED BY <1>1 DEF NoTwins

LEMMA InvNoDuplicates == MMUInv => NoDuplicates
<1> SUFFICES ASSUME MMUInv PROVE NoDuplicates
  OBVIOUS
<1>1. NoTwins(itlb) /\ NoTwins(dtlb) /\ NoTwins(stlb)
  BY DEF MMUInv, L1Inv, StlbInv, TlbInv
<1>2. OneMatch(stlb)
  BY <1>1, OneMatchInOwnSpace DEF MMUInv, StlbInv
<1> QED BY <1>1, <1>2 DEF NoDuplicates

(* Whatever the TLBs, the page sizes and the processes, as long as the      *)
(* guest flushes everything or by address space, MMUInv holds.              *)
THEOREM MMUInvariant ==
  ASSUME FlushKinds \subseteq {"All", "ByASID"}
  PROVE  Spec => []MMUInv
<1>1. Init => MMUInv
  BY InitInv
<1>2. MMUInv /\ [Next]_vars => MMUInv'
  BY StepInv
<1> QED BY <1>1, <1>2, PTL DEF Spec

(* Every entry that answers, in any TLB and for whatever process runs next, *)
(* gives what a page walk would, and no page of an address space fills two  *)
(* ways of a TLB: the assertion at ordinary_mmu.rs:187.                     *)
THEOREM Consistency ==
  ASSUME FlushKinds \subseteq {"All", "ByASID"}
  PROVE  Spec => []Consistent
<1>1. MMUInv => Consistent
  BY InvTypes, InvHits, InvNoDuplicates DEF Consistent
<1>2. Spec => []MMUInv
  BY MMUInvariant
<1> QED BY <1>1, <1>2, PTL

-----------------------------------------------------------------------------
(* ---- where the entries are, whatever is flushed ------------------------ *)
(* A flush of single pages may leave entries that the page tables no longer *)
(* agree with: it stops at the first way with the number (tlb.rs:244).      *)
(* Where the entries are, and which of them is the oldest, does not depend  *)
(* on that: each TLB agrees with some reading of page tables.               *)
Readings == [Vpn \X Owners -> Ppn]
Placed(tlb, sets, ways, time) == \E view \in Readings : TlbInv(tlb, sets, ways, time, view)

PlaceInv ==
  /\ Placed(itlb, 1, L1Ways, now) /\ Placed(dtlb, 1, L1Ways, now)
  /\ Placed(stlb, StlbSets, StlbWays, now) /\ InOwnSpace(stlb)
  /\ huge \in [HugeSize -> [Regions -> [asid : Asid \cup {Global}, ppn : Ppn \cup {NoPpn}]]]
  /\ GuestInv

(* An entry that is inserted where none answers makes its own reading.      *)
LEMMA PlacedInsert ==
  ASSUME NEW sets \in Nat \ {0}, NEW ways \in Nat \ {0}, NEW time \in Nat \ {0}, NEW tlb,
         Placed(tlb, sets, ways, time), NEW vpn \in Vpn, NEW a \in Asid \cup {Global}, NEW ppn \in Ppn,
         a = Global => vpn \in Kernel,
         NEW b, ~Hits(tlb, vpn, b), a \in {b, Global}
  PROVE  LET new == Insert(tlb, vpn, a, ppn, time) IN
         /\ Placed(new, sets, ways, time + 1)
         /\ EvictsLru(tlb, new)
         /\ InOwnSpace(tlb) /\ (a = Global <=> vpn \in Kernel) => InOwnSpace(new)
<1>1. PICK view \in Readings : TlbInv(tlb, sets, ways, time, view)
  BY DEF Placed
<1> DEFINE next == [view EXCEPT ![<<vpn, a>>] = ppn]
<1>2. next \in Readings /\ next[<<vpn, a>>] = ppn
  BY DEF Readings, Owners
<1>3. \A v \in Vpn, o \in Owners : <<v, o>> # <<vpn, a>> => next[<<v, o>>] = view[<<v, o>>]
  BY DEF Readings
<1> HIDE DEF next
<1>4. SetOf(tlb, vpn) = vpn % sets /\ vpn % sets \in 0..sets - 1 /\ DOMAIN tlb[vpn % sets].way = 1..ways
  BY <1>1, SetOfIs, VpnAssumption DEF TlbInv, IsSet
<1>5. ASSUME NEW s \in 0..sets - 1, NEW w \in 1..ways
      PROVE  EntryInv(tlb[s].way[w], s, sets, time, next)
  <2> DEFINE e == tlb[s].way[w]
  <2>1. EntryInv(e, s, sets, time, view) /\ e \in Entry
    BY <1>1 DEF TlbInv, IsSet
  <2>2. CASE ~e.valid
    BY <2>1, <2>2 DEF EntryInv
  <2>3. CASE e.valid
    <3>1. e.vpn \in Vpn /\ e.vpn % sets = s /\ e.asid \in Owners
      BY <2>1, <2>3 DEF EntryInv, Entry, Owners
    <3>2. ~(e.vpn = vpn /\ e.asid = a)
      <4>1. ASSUME e.vpn = vpn, e.asid = a PROVE Matches(e, vpn, b)
        BY <2>3, <4>1 DEF Matches
      <4>2. s = vpn % sets => ~Matches(e, vpn, b)
        BY <1>4 DEF Hits, MatchingWays
      <4> QED BY <3>1, <4>1, <4>2
    <3> HIDE DEF e
    <3>3. next[<<e.vpn, e.asid>>] = view[<<e.vpn, e.asid>>]
      BY <1>3, <3>1, <3>2
    <3>4. EntryInv(e, s, sets, time, next)
      BY <2>1, <2>3, <3>3 DEF EntryInv, Right
    <3> QED BY <3>4 DEF e
  <2> QED BY <2>2, <2>3
<1>6. TlbInv(tlb, sets, ways, time, next)
  BY <1>1, <1>5 DEF TlbInv
<1>7. LET new == Insert(tlb, vpn, a, ppn, time) IN
      /\ TlbInv(new, sets, ways, time + 1, next)
      /\ EvictsLru(tlb, new)
      /\ InOwnSpace(tlb) /\ (a = Global <=> vpn \in Kernel) => InOwnSpace(new)
  BY <1>2, <1>6, InsertKeeps
<1> QED BY <1>2, <1>7 DEF Placed

LEMMA PlacedTouch ==
  ASSUME NEW sets \in Nat \ {0}, NEW ways \in Nat \ {0}, NEW time \in Nat \ {0}, NEW tlb,
         Placed(tlb, sets, ways, time), NEW vpn \in Vpn, NEW a, Hits(tlb, vpn, a)
  PROVE  LET new == Touch(tlb, vpn, a, time) IN
         /\ Placed(new, sets, ways, time + 1)
         /\ EvictsLru(tlb, new)
         /\ InOwnSpace(tlb) => InOwnSpace(new)
<1>1. PICK view \in Readings : TlbInv(tlb, sets, ways, time, view)
  BY DEF Placed
<1> QED BY <1>1, TouchKeeps DEF Placed

(* What no step touches keeps its order.                                    *)
LEMMA SameEvicts == \A tlb : EvictsLru(tlb, tlb)
BY DEF EvictsLru

LEMMA PlacedLater ==
  ASSUME NEW sets \in Nat \ {0}, NEW ways \in Nat \ {0}, NEW time \in Nat, NEW tlb,
         Placed(tlb, sets, ways, time)
  PROVE  Placed(tlb, sets, ways, time + 1) /\ EvictsLru(tlb, tlb)
BY Later, SameEvicts DEF Placed

(* A hit finds a mapping, right or not.                                     *)
LEMMA PlacedFound ==
  ASSUME NEW sets \in Nat \ {0}, NEW ways \in Nat \ {0}, NEW time, NEW tlb,
         Placed(tlb, sets, ways, time), NEW vpn \in Vpn, NEW a, Hits(tlb, vpn, a)
  PROVE  Found(tlb, vpn, a).ppn \in Ppn
<1>1. PICK view \in Readings : TlbInv(tlb, sets, ways, time, view)
  BY DEF Placed
<1> DEFINE s == SetOf(tlb, vpn)
<1> DEFINE w == Least(MatchingWays(tlb, vpn, a))
<1> DEFINE e == tlb[s].way[w]
<1>2. s \in 0..sets - 1 /\ w \in 1..ways /\ e.valid
  BY <1>1, FoundFacts DEF Matches
<1>3. EntryInv(e, s, sets, time, view) /\ e \in Entry
  BY <1>1, <1>2 DEF TlbInv, IsSet
<1>4. Found(tlb, vpn, a) = e
  BY DEF Found
<1> HIDE DEF e
<1>5. e.vpn \in Vpn /\ e.asid \in Owners /\ e.ppn = view[<<e.vpn, e.asid>>]
  BY <1>2, <1>3 DEF EntryInv, Entry, Right, Owners
<1> QED BY <1>4, <1>5 DEF Readings

(* ---- whatever a flush empties, the rest stays where it is -------------- *)
Emptied(tlb, new) ==
  /\ DOMAIN new = DOMAIN tlb
  /\ \A s \in DOMAIN tlb :
       \E ways \in [DOMAIN tlb[s].way -> Entry] :
         /\ new[s] = [way |-> ways, pointer |-> tlb[s].pointer]
         /\ \A w \in DOMAIN tlb[s].way : ways[w] \in {tlb[s].way[w], Invalidated(tlb[s].way[w])}

LEMMA InvalidatedEntry ==
  /\ \A e \in Entry : Invalidated(e) \in Entry /\ ~Invalidated(e).valid /\ Invalidated(e).ts = 0
  /\ Invalidated(EmptyEntry) = EmptyEntry
<1>1. \A e \in Entry : Invalidated(e) \in Entry /\ ~Invalidated(e).valid /\ Invalidated(e).ts = 0
  BY DEF Invalidated, Entry
<1>2. \A e \in Entry : ~e.valid /\ e.ts = 0 => Invalidated(e) = e
  BY DEF Invalidated, Entry
<1>3. EmptyEntry \in Entry /\ ~EmptyEntry.valid /\ EmptyEntry.ts = 0
  BY DEF EmptyEntry, Entry
<1> QED BY <1>1, <1>2, <1>3

LEMMA EmptiedKeeps ==
  ASSUME NEW sets \in Nat \ {0}, NEW ways \in Nat \ {0}, NEW time, NEW view, NEW tlb, NEW new,
         TlbInv(tlb, sets, ways, time, view), Emptied(tlb, new)
  PROVE  /\ TlbInv(new, sets, ways, time, view)
         /\ InOwnSpace(tlb) => InOwnSpace(new)
<1>1. /\ DOMAIN tlb = 0..sets - 1 /\ DOMAIN new = 0..sets - 1
      /\ \A s \in 0..sets - 1 : DOMAIN tlb[s].way = 1..ways /\ tlb[s].pointer \in 0..ways
      /\ \A s \in 0..sets - 1 : \A w \in 1..ways :
           /\ tlb[s].way[w] \in Entry /\ EntryInv(tlb[s].way[w], s, sets, time, view)
           /\ w > tlb[s].pointer => tlb[s].way[w] = EmptyEntry
  BY DEF TlbInv, IsSet, Emptied
<1>2. ASSUME NEW s \in 0..sets - 1
      PROVE  /\ new[s] \in [way : [1..ways -> Entry], pointer : 0..ways]
             /\ DOMAIN new[s].way = 1..ways
             /\ new[s].pointer = tlb[s].pointer
             /\ \A w \in 1..ways : new[s].way[w] \in {tlb[s].way[w], Invalidated(tlb[s].way[w])}
  <2>1. PICK kept \in [1..ways -> Entry] :
          /\ new[s] = [way |-> kept, pointer |-> tlb[s].pointer]
          /\ \A w \in 1..ways : kept[w] \in {tlb[s].way[w], Invalidated(tlb[s].way[w])}
    BY <1>1 DEF Emptied
  <2> QED BY <1>1, <2>1
<1>3. ASSUME NEW s \in 0..sets - 1, NEW w \in 1..ways
      PROVE  /\ new[s].way[w].valid => new[s].way[w] = tlb[s].way[w]
             /\ new[s].way[w] # tlb[s].way[w] => ~new[s].way[w].valid /\ new[s].way[w].ts = 0
             /\ tlb[s].way[w] = EmptyEntry => new[s].way[w] = EmptyEntry
  BY <1>1, <1>2, InvalidatedEntry
<1>4. \A s \in 0..sets - 1 : IsSet(new[s], ways)
  BY <1>1, <1>2, <1>3 DEF IsSet
<1>5. \A s \in 0..sets - 1 : \A w \in 1..ways : EntryInv(new[s].way[w], s, sets, time, view)
  <2> SUFFICES ASSUME NEW s \in 0..sets - 1, NEW w \in 1..ways
               PROVE  EntryInv(new[s].way[w], s, sets, time, view)
    OBVIOUS
  <2>1. CASE new[s].way[w] = tlb[s].way[w]
    BY <1>1, <2>1
  <2>2. CASE new[s].way[w] # tlb[s].way[w]
    BY <1>3, <2>2 DEF EntryInv
  <2> QED BY <2>1, <2>2
<1>6. NoTwins(new)
  <2> SUFFICES ASSUME NEW t \in 0..sets - 1, NEW x \in 1..ways, NEW y \in 1..ways,
                      new[t].way[x].valid, new[t].way[y].valid,
                      new[t].way[x].vpn = new[t].way[y].vpn, new[t].way[x].asid = new[t].way[y].asid
               PROVE  x = y
    BY <1>1, <1>2 DEF NoTwins
  <2>1. new[t].way[x] = tlb[t].way[x] /\ new[t].way[y] = tlb[t].way[y]
    BY <1>3
  <2>2. x \in {z \in DOMAIN tlb[t].way : tlb[t].way[z].valid} /\ y \in {z \in DOMAIN tlb[t].way : tlb[t].way[z].valid}
    BY <1>1, <2>1
  <2> QED BY <1>1, <2>1, <2>2 DEF TlbInv, NoTwins
<1>7. InOwnSpace(tlb) => InOwnSpace(new)
  BY <1>1, <1>2, <1>3 DEF InOwnSpace
<1> QED BY <1>1, <1>4, <1>5, <1>6, <1>7 DEF TlbInv

LEMMA PlacedEmptied ==
  ASSUME NEW sets \in Nat \ {0}, NEW ways \in Nat \ {0}, NEW time, NEW tlb, NEW new,
         Placed(tlb, sets, ways, time), Emptied(tlb, new)
  PROVE  /\ Placed(new, sets, ways, time)
         /\ InOwnSpace(tlb) => InOwnSpace(new)
BY EmptiedKeeps DEF Placed

(* Every flush empties entries and does no more; of a range of pages one    *)
(* after the other.                                                         *)
LEMMA FlushSetEmpties ==
  ASSUME NEW sets \in Nat \ {0}, NEW ways \in Nat \ {0}, NEW time, NEW view, NEW tlb,
         TlbInv(tlb, sets, ways, time, view)
  PROVE  /\ Emptied(tlb, FlushAll(tlb))
         /\ \A a \in Asid : Emptied(tlb, FlushAsid(tlb, a))
<1>1. /\ DOMAIN tlb = 0..sets - 1
      /\ \A s \in 0..sets - 1 : /\ DOMAIN tlb[s].way = 1..ways
                                /\ tlb[s] = [way |-> tlb[s].way, pointer |-> tlb[s].pointer]
                                /\ \A w \in 1..ways : tlb[s].way[w] \in Entry
  BY DEF TlbInv, IsSet
<1>2. ASSUME NEW s \in 0..sets - 1, NEW ways2 \in [1..ways -> Entry]
      PROVE  [tlb[s] EXCEPT !.way = ways2] = [way |-> ways2, pointer |-> tlb[s].pointer]
  <2>1. tlb[s] = [way |-> tlb[s].way, pointer |-> tlb[s].pointer]
    BY <1>1
  <2> QED BY <2>1
<1>3. Emptied(tlb, FlushAll(tlb))
  <2> DEFINE kept(s) == [w \in DOMAIN tlb[s].way |-> Invalidated(tlb[s].way[w])]
  <2>1. \A s \in 0..sets - 1 : kept(s) \in [1..ways -> Entry]
    BY <1>1, InvalidatedEntry
  <2>2. DOMAIN FlushAll(tlb) = DOMAIN tlb /\ \A s \in DOMAIN tlb : FlushAll(tlb)[s] = [tlb[s] EXCEPT !.way = kept(s)]
    BY DEF FlushAll
  <2>3. \A s \in DOMAIN tlb : \A w \in DOMAIN tlb[s].way : kept(s)[w] = Invalidated(tlb[s].way[w])
    OBVIOUS
  <2> HIDE DEF kept
  <2> QED BY <1>1, <1>2, <2>1, <2>2, <2>3 DEF Emptied
<1>4. ASSUME NEW a \in Asid PROVE Emptied(tlb, FlushAsid(tlb, a))
  <2> DEFINE kept(s) == [w \in DOMAIN tlb[s].way |->
                          IF tlb[s].way[w].asid = a THEN Invalidated(tlb[s].way[w]) ELSE tlb[s].way[w]]
  <2>1. \A s \in 0..sets - 1 : kept(s) \in [1..ways -> Entry]
    BY <1>1, InvalidatedEntry
  <2>2. DOMAIN FlushAsid(tlb, a) = DOMAIN tlb
        /\ \A s \in DOMAIN tlb : FlushAsid(tlb, a)[s] = [tlb[s] EXCEPT !.way = kept(s)]
    BY DEF FlushAsid
  <2>3. \A s \in DOMAIN tlb : \A w \in DOMAIN tlb[s].way : kept(s)[w] \in {tlb[s].way[w], Invalidated(tlb[s].way[w])}
    OBVIOUS
  <2> HIDE DEF kept
  <2> QED BY <1>1, <1>2, <2>1, <2>2, <2>3 DEF Emptied
<1> QED BY <1>3, <1>4

LEMMA FlushFirstEmpties ==
  ASSUME NEW sets \in Nat \ {0}, NEW ways \in Nat \ {0}, NEW time, NEW view, NEW tlb,
         TlbInv(tlb, sets, ways, time, view), NEW vpn \in Nat, NEW asids
  PROVE  Emptied(tlb, FlushFirst(tlb, vpn, asids))
<1>1. /\ DOMAIN tlb = 0..sets - 1
      /\ \A s \in 0..sets - 1 : /\ DOMAIN tlb[s].way = 1..ways /\ tlb[s].way \in [1..ways -> Entry]
                                /\ tlb[s] = [way |-> tlb[s].way, pointer |-> tlb[s].pointer]
                                /\ \A w \in 1..ways : tlb[s].way[w] \in Entry
  BY DEF TlbInv, IsSet
<1> DEFINE t == SetOf(tlb, vpn)
<1> DEFINE hit == {w \in DOMAIN tlb[t].way : tlb[t].way[w].vpn = vpn /\ tlb[t].way[w].asid \in asids}
<1> DEFINE x == Least(hit)
<1>2. t \in 0..sets - 1
  BY <1>1, SetOfIs
<1>3. hit # {} => x \in 1..ways
  <2>1. hit \in SUBSET Nat /\ hit \subseteq 1..ways
    BY <1>1, <1>2
  <2> HIDE DEF hit
  <2> QED BY <2>1, LeastNatural
<1>4. FlushFirst(tlb, vpn, asids) = IF hit = {} THEN tlb ELSE [tlb EXCEPT ![t].way[x] = Invalidated(@)]
  BY DEF FlushFirst
<1> HIDE DEF t, hit, x
<1>5. CASE hit = {}
  BY <1>1, <1>4, <1>5 DEF Emptied
<1>6. CASE hit # {}
  <2> DEFINE new == [tlb EXCEPT ![t].way[x] = Invalidated(@)]
  <2> DEFINE kept == [tlb[t].way EXCEPT ![x] = Invalidated(@)]
  <2>1. kept \in [1..ways -> Entry] /\ \A w \in 1..ways : kept[w] \in {tlb[t].way[w], Invalidated(tlb[t].way[w])}
    BY <1>1, <1>2, <1>3, <1>6, InvalidatedEntry
  <2>2. new[t] = [way |-> kept, pointer |-> tlb[t].pointer]
    <3>1. new[t] = [tlb[t] EXCEPT !.way[x] = Invalidated(@)]
      BY <1>1, <1>2
    <3>2. tlb[t] = [way |-> tlb[t].way, pointer |-> tlb[t].pointer]
      BY <1>1, <1>2
    <3> HIDE DEF new
    <3> QED BY <3>1, <3>2
  <2>3. DOMAIN new = DOMAIN tlb /\ \A s \in 0..sets - 1 : s # t => new[s] = tlb[s]
    BY <1>1
  <2> HIDE DEF new, kept
  <2>4. Emptied(tlb, new)
    BY <1>1, <1>2, <2>1, <2>2, <2>3 DEF Emptied
  <2> QED BY <1>4, <1>6, <2>4 DEF new
<1> QED BY <1>5, <1>6

LEMMA OnePage ==
  ASSUME NEW tlb, NEW first \in Nat, NEW asids
  PROVE  FlushPages(tlb, first, 1, asids) = FlushFirst(tlb, first, asids)
<1> DEFINE flush[n \in 0..1] == IF n = 0 THEN tlb ELSE FlushFirst(flush[n - 1], first + n - 1, asids)
<1> DEFINE g == [n \in 0..1 |-> IF n = 0 THEN tlb ELSE FlushFirst(tlb, first, asids)]
<1>1. g = [n \in 0..1 |-> IF n = 0 THEN tlb ELSE FlushFirst(g[n - 1], first + n - 1, asids)]
  <2>1. g[0] = tlb
    OBVIOUS
  <2>2. first + 1 - 1 = first /\ 1 - 1 = 0
    OBVIOUS
  <2>3. \A n \in 0..1 : n = 0 \/ n = 1
    OBVIOUS
  <2> QED BY <2>1, <2>2, <2>3
<1>2. flush = [n \in 0..1 |-> IF n = 0 THEN tlb ELSE FlushFirst(flush[n - 1], first + n - 1, asids)]
  <2> HIDE DEF g
  <2> QED BY <1>1
<1> HIDE DEF flush
<1>3. flush[0] = tlb
  BY <1>2
<1>4. flush[1] = FlushFirst(flush[0], first, asids)
  BY <1>2
<1> QED BY <1>3, <1>4 DEF FlushPages, flush

LEMMA TwoPages ==
  ASSUME NEW tlb, NEW first \in Nat, NEW asids
  PROVE  FlushPages(tlb, first, 2, asids) = FlushFirst(FlushFirst(tlb, first, asids), first + 1, asids)
<1> DEFINE flush[n \in 0..2] == IF n = 0 THEN tlb ELSE FlushFirst(flush[n - 1], first + n - 1, asids)
<1> DEFINE once == FlushFirst(tlb, first, asids)
<1> DEFINE g == [n \in 0..2 |-> IF n = 0 THEN tlb ELSE IF n = 1 THEN once ELSE FlushFirst(once, first + 1, asids)]
<1>1. g = [n \in 0..2 |-> IF n = 0 THEN tlb ELSE FlushFirst(g[n - 1], first + n - 1, asids)]
  <2>1. g[0] = tlb /\ g[1] = once
    OBVIOUS
  <2>2. first + 1 - 1 = first /\ 1 - 1 = 0 /\ first + 2 - 1 = first + 1 /\ 2 - 1 = 1
    OBVIOUS
  <2>3. \A n \in 0..2 : n = 0 \/ n = 1 \/ n = 2
    OBVIOUS
  <2> QED BY <2>1, <2>2, <2>3
<1>2. flush = [n \in 0..2 |-> IF n = 0 THEN tlb ELSE FlushFirst(flush[n - 1], first + n - 1, asids)]
  <2> HIDE DEF g
  <2> QED BY <1>1
<1> HIDE DEF flush
<1>3. flush[0] = tlb
  BY <1>2
<1>4. flush[1] = FlushFirst(flush[0], first, asids)
  BY <1>2
<1>5. flush[2] = FlushFirst(flush[1], first + 1, asids)
  BY <1>2
<1> QED BY <1>3, <1>4, <1>5 DEF FlushPages, flush

LEMMA PlacedFlush ==
  ASSUME NEW sets \in Nat \ {0}, NEW ways \in Nat \ {0}, NEW time, NEW tlb,
         Placed(tlb, sets, ways, time), NEW mode \in FlushModes
  PROVE  /\ Placed(Flush(tlb, mode), sets, ways, time)
         /\ InOwnSpace(tlb) => InOwnSpace(Flush(tlb, mode))
<1>1. PICK view \in Readings : TlbInv(tlb, sets, ways, time, view)
  BY DEF Placed
<1>2. CASE mode.kind = "All"
  BY <1>1, <1>2, FlushSetEmpties, PlacedEmptied DEF Flush
<1>3. CASE mode.kind = "ByASID"
  <2>1. mode.asid \in Asid
    BY <1>3 DEF FlushModes
  <2> QED BY <1>1, <1>3, <2>1, FlushSetEmpties, PlacedEmptied DEF Flush
<1>4. ASSUME NEW asids, mode.kind \in {"ByVPN", "ByVPNAndASID"}
      PROVE  LET new == FlushPages(tlb, mode.vpn, mode.count, asids) IN
             Placed(new, sets, ways, time) /\ (InOwnSpace(tlb) => InOwnSpace(new))
  <2>1. mode.vpn \in Nat /\ mode.count \in {1, 2}
    <3>1. mode.vpn \in Vpn /\ mode.count \in 1..2
      BY <1>4 DEF FlushModes
    <3>2. mode.vpn \in Nat
      BY <3>1, VpnAssumption
    <3>3. mode.count \in {1, 2}
      BY <3>1
    <3> QED BY <3>2, <3>3
  <2> DEFINE once == FlushFirst(tlb, mode.vpn, asids)
  <2> DEFINE twice == FlushFirst(once, mode.vpn + 1, asids)
  <2>2. Emptied(tlb, once)
    BY <1>1, <2>1, FlushFirstEmpties
  <2> HIDE DEF once
  <2>3. TlbInv(once, sets, ways, time, view) /\ (InOwnSpace(tlb) => InOwnSpace(once))
    BY <1>1, <2>2, EmptiedKeeps
  <2>4. Emptied(once, twice)
    BY <2>1, <2>3, FlushFirstEmpties
  <2> HIDE DEF twice
  <2>5. TlbInv(twice, sets, ways, time, view) /\ (InOwnSpace(once) => InOwnSpace(twice))
    BY <2>3, <2>4, EmptiedKeeps
  <2>6. FlushPages(tlb, mode.vpn, mode.count, asids) \in {once, twice}
    <3>1. CASE mode.count = 1
      BY <2>1, <3>1, OnePage DEF once
    <3>2. CASE mode.count = 2
      BY <2>1, <3>2, TwoPages DEF once, twice
    <3> QED BY <2>1, <3>1, <3>2
  <2> QED BY <2>3, <2>5, <2>6 DEF Placed
<1>5. CASE mode.kind \in {"ByVPN", "ByVPNAndASID"}
  BY <1>4, <1>5 DEF Flush
<1>6. mode.kind \in {"All", "ByASID", "ByVPN", "ByVPNAndASID"}
  BY DEF FlushModes
<1> QED BY <1>2, <1>3, <1>5, <1>6

(* ---- the steps, whatever is flushed ------------------------------------ *)
LEMMA PlaceInit == Init => PlaceInv
<1> SUFFICES ASSUME Init PROVE PlaceInv
  OBVIOUS
<1>1. now = 1 /\ now \in Nat \ {0} /\ asid \in Asid /\ pt \in [Mappings -> Ppn]
  BY DEF Init
<1>2. PICK view \in Readings : TRUE
  <2>1. PICK p \in Ppn : TRUE
    BY DEF Init
  <2>2. [x \in Vpn \X Owners |-> p] \in Readings
    BY DEF Readings
  <2> QED BY <2>2
<1>3. \A sets \in Nat \ {0}, ways \in Nat \ {0} :
        Placed(EmptyTlb(sets, ways), sets, ways, now) /\ InOwnSpace(EmptyTlb(sets, ways))
  BY <1>2, NewTlb DEF Placed
<1>4. huge \in [HugeSize -> [Regions -> [asid : Asid \cup {Global}, ppn : Ppn \cup {NoPpn}]]]
  <2>1. huge = [size \in HugeSize |-> [r \in Regions |-> NoEntry]]
    BY DEF Init
  <2>2. NoEntry \in [asid : Asid \cup {Global}, ppn : Ppn \cup {NoPpn}]
    BY DEF NoEntry
  <2> HIDE DEF NoEntry
  <2> QED BY <2>1, <2>2
<1>5. /\ itlb = EmptyTlb(1, L1Ways) /\ dtlb = EmptyTlb(1, L1Ways)
      /\ stlb = EmptyTlb(StlbSets, StlbWays)
  BY DEF Init
<1> QED BY <1>1, <1>3, <1>4, <1>5, Parameters DEF PlaceInv, GuestInv

(* Whatever mapping a lookup or a walk found, a refill files it in the      *)
(* place of the least recently used entry.                                  *)
LEMMA PlaceRefillL1 ==
  ASSUME PlaceInv, NEW instr \in BOOLEAN, NEW vpn \in Vpn, NEW a \in {asid, Global}, NEW ppn \in Ppn,
         a = Global => vpn \in Kernel, ~HitL1(instr, vpn), RefillL1(instr, vpn, a, ppn), now' = now + 1
  PROVE  /\ Placed(itlb', 1, L1Ways, now') /\ Placed(dtlb', 1, L1Ways, now')
         /\ EvictsLru(itlb, itlb') /\ EvictsLru(dtlb, dtlb')
<1>1. /\ Placed(itlb, 1, L1Ways, now) /\ Placed(dtlb, 1, L1Ways, now)
      /\ now \in Nat \ {0} /\ a \in Asid \cup {Global}
  BY DEF PlaceInv, GuestInv
<1>2. ASSUME NEW tlb, Placed(tlb, 1, L1Ways, now)
      PROVE  Placed(tlb, 1, L1Ways, now + 1) /\ EvictsLru(tlb, tlb)
  BY <1>1, <1>2, PlacedLater, Parameters
<1>3. ASSUME NEW tlb, Placed(tlb, 1, L1Ways, now), ~Hits(tlb, vpn, asid)
      PROVE  /\ Placed(Insert(tlb, vpn, a, ppn, now), 1, L1Ways, now + 1)
             /\ EvictsLru(tlb, Insert(tlb, vpn, a, ppn, now))
  BY <1>1, <1>3, PlacedInsert, Parameters
<1>4. CASE ~L1Enabled
  BY <1>1, <1>2, <1>4 DEF RefillL1
<1>5. CASE L1Enabled /\ instr
  <2>1. itlb' = Insert(itlb, vpn, a, ppn, now) /\ dtlb' = dtlb /\ ~Hits(itlb, vpn, asid)
    BY <1>5 DEF RefillL1, HitL1, L1
  <2> QED BY <1>1, <1>2, <1>3, <2>1
<1>6. CASE L1Enabled /\ ~instr
  <2>1. dtlb' = Insert(dtlb, vpn, a, ppn, now) /\ itlb' = itlb /\ ~Hits(dtlb, vpn, asid)
    BY <1>6 DEF RefillL1, HitL1, L1
  <2> QED BY <1>1, <1>2, <1>3, <2>1
<1> QED BY <1>4, <1>5, <1>6, Parameters

LEMMA PlaceTranslate ==
  ASSUME PlaceInv, NEW instr \in BOOLEAN, NEW vpn \in Vpn, TranslateAndRefill(instr, vpn)
  PROVE  PlaceInv' /\ LruStep
<1> USE DEF TranslateAndRefill
<1>1. /\ now' = now + 1 /\ asid' = asid /\ pt' = pt /\ now \in Nat \ {0} /\ asid \in Asid
      /\ Placed(itlb, 1, L1Ways, now) /\ Placed(dtlb, 1, L1Ways, now)
      /\ Placed(stlb, StlbSets, StlbWays, now) /\ InOwnSpace(stlb)
  BY DEF PlaceInv, GuestInv
<1>2. GuestInv'
  BY <1>1 DEF PlaceInv, GuestInv
<1>3. /\ Placed(itlb, 1, L1Ways, now + 1) /\ EvictsLru(itlb, itlb)
      /\ Placed(dtlb, 1, L1Ways, now + 1) /\ EvictsLru(dtlb, dtlb)
      /\ Placed(stlb, StlbSets, StlbWays, now + 1) /\ EvictsLru(stlb, stlb)
  BY <1>1, PlacedLater, Parameters
<1> DEFINE HugeType == [HugeSize -> [Regions -> [asid : Asid \cup {Global}, ppn : Ppn \cup {NoPpn}]]]
<1>4. huge \in HugeType
  BY DEF PlaceInv
<1> HIDE DEF HugeType
<1>5. CASE TranslateL1(instr, vpn)
  <2>1. Hits(L1(instr), vpn, asid) /\ UNCHANGED <<stlb, huge>>
    BY <1>5 DEF TranslateL1, HitL1
  <2>2. ASSUME NEW tlb, Placed(tlb, 1, L1Ways, now), Hits(tlb, vpn, asid)
        PROVE  /\ Placed(Touch(tlb, vpn, asid, now), 1, L1Ways, now + 1)
               /\ EvictsLru(tlb, Touch(tlb, vpn, asid, now))
    BY <1>1, <2>2, PlacedTouch, Parameters
  <2>3. CASE instr
    <3>1. itlb' = Touch(itlb, vpn, asid, now) /\ dtlb' = dtlb /\ Hits(itlb, vpn, asid)
      BY <1>5, <2>1, <2>3 DEF TranslateL1, L1
    <3> QED BY <1>1, <1>2, <1>3, <1>4, <2>1, <2>2, <3>1 DEF PlaceInv, LruStep, HugeType
  <2>4. CASE ~instr
    <3>1. dtlb' = Touch(dtlb, vpn, asid, now) /\ itlb' = itlb /\ Hits(dtlb, vpn, asid)
      BY <1>5, <2>1, <2>4 DEF TranslateL1, L1
    <3> QED BY <1>1, <1>2, <1>3, <1>4, <2>1, <2>2, <3>1 DEF PlaceInv, LruStep, HugeType
  <2> QED BY <2>3, <2>4
<1>6. CASE TranslateStlb(instr, vpn)
  <2>1. /\ ~HitL1(instr, vpn) /\ Hits(stlb, vpn, asid) /\ huge' = huge
        /\ stlb' = Touch(stlb, vpn, asid, now)
        /\ RefillL1(instr, vpn, asid, Found(stlb, vpn, asid).ppn)
    BY <1>6 DEF TranslateStlb, HitStlb
  <2>2. Found(stlb, vpn, asid).ppn \in Ppn
    BY <1>1, <2>1, PlacedFound, Parameters
  <2>3. /\ Placed(itlb', 1, L1Ways, now') /\ Placed(dtlb', 1, L1Ways, now')
        /\ EvictsLru(itlb, itlb') /\ EvictsLru(dtlb, dtlb')
    BY <1>1, <2>1, <2>2, PlaceRefillL1, NamesAssumption
  <2>4. Placed(stlb', StlbSets, StlbWays, now') /\ EvictsLru(stlb, stlb') /\ InOwnSpace(stlb')
    BY <1>1, <2>1, PlacedTouch, Parameters
  <2> QED BY <1>2, <1>4, <2>1, <2>3, <2>4 DEF PlaceInv, LruStep, HugeType
<1>7. CASE TranslateHuge(instr, vpn)
  <2>1. UNCHANGED <<itlb, dtlb, stlb, huge>>
    BY <1>7 DEF TranslateHuge
  <2> QED BY <1>1, <1>2, <1>3, <1>4, <2>1 DEF PlaceInv, LruStep, HugeType
<1>8. CASE Walk(instr, vpn)
  <2> DEFINE a == Space(vpn, asid)
  <2> DEFINE ppn == Mapped(vpn, asid)
  <2>1. a \in {asid, Global} /\ (a = Global <=> vpn \in Kernel) /\ ppn \in Ppn
    BY <1>1, MappedFacts DEF PlaceInv
  <2>2. ~HitL1(instr, vpn) /\ ~HitStlb(vpn)
    BY <1>8 DEF Walk
  <2>3. CASE NoHugePage \/ PageSize[vpn] = "4KB"
    <3>1. RefillL1(instr, vpn, a, ppn) /\ huge' = huge
          /\ stlb' = IF StlbEnabled THEN Insert(stlb, vpn, a, ppn, now) ELSE stlb
      BY <1>8, <2>3 DEF Walk, Refill4K
    <3> HIDE DEF a, ppn
    <3>2. /\ Placed(itlb', 1, L1Ways, now') /\ Placed(dtlb', 1, L1Ways, now')
          /\ EvictsLru(itlb, itlb') /\ EvictsLru(dtlb, dtlb')
      BY <1>1, <2>1, <2>2, <3>1, PlaceRefillL1
    <3>3. Placed(stlb', StlbSets, StlbWays, now') /\ EvictsLru(stlb, stlb') /\ InOwnSpace(stlb')
      <4>1. CASE ~StlbEnabled
        BY <1>1, <1>3, <3>1, <4>1
      <4>2. CASE StlbEnabled
        <5>1. ~Hits(stlb, vpn, asid) /\ a \in Asid \cup {Global}
          BY <1>1, <2>1, <2>2, <4>2 DEF HitStlb
        <5> QED BY <1>1, <2>1, <3>1, <4>2, <5>1, PlacedInsert, Parameters
      <4> QED BY <4>1, <4>2, Parameters
    <3> QED BY <1>2, <1>4, <3>1, <3>2, <3>3 DEF PlaceInv, LruStep, HugeType
  <2>4. CASE ~(NoHugePage \/ PageSize[vpn] = "4KB")
    <3>1. /\ huge' = [huge EXCEPT ![PageSize[vpn]][RegionOf[vpn]] = [asid |-> a, ppn |-> ppn]]
          /\ UNCHANGED <<itlb, dtlb, stlb>>
      BY <1>8, <2>4 DEF Walk
    <3>2. PageSize[vpn] \in HugeSize /\ RegionOf[vpn] \in Regions
      BY <2>4, OrdinaryMMUAssumption, Parameters DEF HugeSize
    <3>3. [asid |-> a, ppn |-> ppn] \in [asid : Asid \cup {Global}, ppn : Ppn \cup {NoPpn}]
      BY <1>1, <2>1
    <3> HIDE DEF a, ppn
    <3>4. huge' \in HugeType
      BY <1>4, <3>1, <3>2, <3>3 DEF HugeType
    <3> QED BY <1>1, <1>2, <1>3, <3>1, <3>4 DEF PlaceInv, LruStep, HugeType
  <2> QED BY <2>3, <2>4
<1> QED BY <1>5, <1>6, <1>7, <1>8

LEMMA PlaceFlush ==
  ASSUME PlaceInv, NEW mode \in FlushModes, FlushMMU(mode)
  PROVE  PlaceInv' /\ LruStep
<1>1. now' = now /\ asid' = asid
  BY DEF FlushMMU
<1>2. pt' \in [Mappings -> Ppn]
  <2>1. pt \in [Mappings -> Ppn]
    BY DEF PlaceInv, GuestInv
  <2> QED BY <2>1 DEF FlushMMU
<1>3. GuestInv'
  BY <1>1, <1>2 DEF PlaceInv, GuestInv
<1>4. Placed(itlb', 1, L1Ways, now) /\ Placed(dtlb', 1, L1Ways, now)
  <2>1. Placed(itlb, 1, L1Ways, now) /\ Placed(dtlb, 1, L1Ways, now)
    BY DEF PlaceInv
  <2>2. itlb' \in {itlb, Flush(itlb, mode)} /\ dtlb' \in {dtlb, Flush(dtlb, mode)}
    BY DEF FlushMMU
  <2> QED BY <2>1, <2>2, PlacedFlush, Parameters
<1>5. Placed(stlb', StlbSets, StlbWays, now) /\ InOwnSpace(stlb')
  <2>1. Placed(stlb, StlbSets, StlbWays, now) /\ InOwnSpace(stlb)
    BY DEF PlaceInv
  <2>2. stlb' \in {stlb, Flush(stlb, mode)}
    BY DEF FlushMMU
  <2> QED BY <2>1, <2>2, PlacedFlush, Parameters
<1>6. huge' \in [HugeSize -> [Regions -> [asid : Asid \cup {Global}, ppn : Ppn \cup {NoPpn}]]]
  <2>1. huge' \in {huge, [size \in HugeSize |-> [r \in Regions |-> NoEntry]]}
    BY DEF FlushMMU, FlushedHuge
  <2>2. NoEntry \in [asid : Asid \cup {Global}, ppn : Ppn \cup {NoPpn}]
    BY DEF NoEntry
  <2> HIDE DEF NoEntry
  <2> QED BY <2>1, <2>2 DEF PlaceInv
<1> QED BY <1>1, <1>3, <1>4, <1>5, <1>6 DEF PlaceInv, LruStep

LEMMA PlaceStep ==
  ASSUME PlaceInv, [Next]_vars
  PROVE  PlaceInv' /\ [LruStep]_vars
<1>1. CASE UNCHANGED vars
  BY <1>1 DEF vars, PlaceInv, GuestInv
<1>2. ASSUME NEW a \in Asid, SwitchTo(a) PROVE PlaceInv' /\ LruStep
  BY <1>2 DEF SwitchTo, PlaceInv, GuestInv, LruStep
<1>3. CASE Next
  BY <1>2, <1>3, PlaceTranslate, PlaceFlush DEF Next
<1> QED BY <1>1, <1>3

LEMMA PlaceSays == PlaceInv => TypeOK /\ NoDuplicates
<1> SUFFICES ASSUME PlaceInv PROVE TypeOK /\ NoDuplicates
  OBVIOUS
<1>1. PICK i \in Readings, d \in Readings, s \in Readings :
        /\ TlbInv(itlb, 1, L1Ways, now, i) /\ TlbInv(dtlb, 1, L1Ways, now, d)
        /\ TlbInv(stlb, StlbSets, StlbWays, now, s)
  BY DEF PlaceInv, Placed
<1>2. \A tlb \in {itlb, dtlb, stlb} :
        /\ \A t \in DOMAIN tlb, w \in DOMAIN tlb[0].way : tlb[t].way[w] \in Entry
        /\ PointerBound(tlb)
  BY <1>1, TlbTypes, Parameters
<1>3. TypeOK
  BY <1>2 DEF TypeOK, PlaceInv, GuestInv
<1>4. NoTwins(itlb) /\ NoTwins(dtlb) /\ NoTwins(stlb)
  BY <1>1 DEF TlbInv
<1>5. OneMatch(stlb)
  BY <1>4, OneMatchInOwnSpace DEF PlaceInv
<1> QED BY <1>3, <1>4, <1>5 DEF NoDuplicates

(* No page of an address space fills two ways of a TLB and the second       *)
(* level answers once, whatever the guest flushes.                          *)
THEOREM Placement == Spec => [](TypeOK /\ NoDuplicates)
<1>1. Spec => []PlaceInv
  <2>1. PlaceInv /\ [Next]_vars => PlaceInv'
    BY PlaceStep
  <2> QED BY <2>1, PlaceInit, PTL DEF Spec
<1> QED BY <1>1, PlaceSays, PTL

(* A translation evicts the least recently used entry of a set, and only    *)
(* when no way of the set is free, whatever the guest flushed before.       *)
THEOREM Evictions == Spec => EvictionIsLru
<1>1. PlaceInv /\ [Next]_vars => PlaceInv' /\ [LruStep]_vars
  BY PlaceStep
<1> QED BY <1>1, PlaceInit, PTL DEF Spec, EvictionIsLru

-----------------------------------------------------------------------------
(* ---- the late replacement of the fully associative first level --------- *)
L1Keys(tlb) == Associative!Keys(tlb)

IsL1(tlb) == tlb \in [Associative!Key -> [ts : Nat, ppn : Ppn \cup {NoPpn}]]

(* What an L1 that replaces at once would hold, and since when it has been  *)
(* used there, against what has piled up: the order of use is that of the   *)
(* timestamps, all else is older, and there is nothing else while the L1 is *)
(* not full.                                                                *)
Agrees(tlb, seen) ==
  /\ DOMAIN seen \subseteq L1Keys(tlb)
  /\ Cardinality(DOMAIN seen) <= AssociativeL1Ways
  /\ Cardinality(DOMAIN seen) < AssociativeL1Ways => L1Keys(tlb) = DOMAIN seen
  /\ \A j, k \in DOMAIN seen : seen[j] < seen[k] <=> tlb[j].ts < tlb[k].ts
  /\ \A j \in L1Keys(tlb) \ DOMAIN seen, k \in DOMAIN seen : tlb[j].ts < tlb[k].ts

LruInv(tlb, seen, time) ==
  /\ IsL1(tlb) /\ IsFiniteSet(L1Keys(tlb))
  /\ \A j, k \in L1Keys(tlb) : tlb[j].ts = tlb[k].ts => j = k
  /\ \A k \in L1Keys(tlb) : tlb[k].ts < time
  /\ \A k \in DOMAIN seen : seen[k] \in Nat /\ seen[k] < time
  /\ Agrees(tlb, seen)

(* The key a translation used last.                                         *)
Newest(key, seen) == key \in DOMAIN seen /\ \A j \in DOMAIN seen : seen[j] <= seen[key]

LEMMA Ways == AssociativeL1Ways \in Nat \ {0} /\ L1Enabled \in BOOLEAN
BY AssociativeAssumption DEF Associative!Assumptions

(* The second copy of the operators of Tlb and FiniteSets is the first.     *)
LEMMA SameCardinality ==
  ASSUME NEW S
  PROVE  Associative!Cardinality(S) = Cardinality(S)
BY DEF Associative!Cardinality, Cardinality

LEMMA L1KeysAre ==
  ASSUME NEW tlb
  PROVE  L1Keys(tlb) = {k \in Associative!Key : tlb[k].ppn # NoPpn}
BY DEF L1Keys, Associative!Keys, Associative!NoPpn, NoPpn

(* The replacement leaves exactly what an L1 that replaces at once holds.   *)
LEMMA RunLruFacts ==
  ASSUME NEW tlb, NEW seen, NEW time \in Nat, LruInv(tlb, seen, time)
  PROVE  /\ L1Keys(Associative!RunLru(tlb)) = DOMAIN seen
         /\ IsL1(Associative!RunLru(tlb))
         /\ \A k \in DOMAIN seen : Associative!RunLru(tlb)[k] = tlb[k]
         /\ LruInv(Associative!RunLru(tlb), seen, time)
<1> DEFINE D == DOMAIN seen
<1> DEFINE new == Associative!RunLru(tlb)
<1>1. /\ D \subseteq L1Keys(tlb) /\ IsFiniteSet(L1Keys(tlb)) /\ IsFiniteSet(D)
      /\ \A k \in L1Keys(tlb) : tlb[k].ts \in Nat /\ k \in Associative!Key
  BY FS_Subset, L1KeysAre DEF LruInv, Agrees, IsL1
<1>2. Cardinality(D) \in Nat
  BY <1>1, FS_CardinalityType
<1>3. ASSUME NEW k \in D PROVE Cardinality(Associative!Younger(tlb, k)) < AssociativeL1Ways
  <2>1. Associative!Younger(tlb, k) \subseteq D \ {k}
    BY <1>1 DEF Associative!Younger, LruInv, Agrees, L1Keys
  <2>2. Cardinality(D \ {k}) = Cardinality(D) - 1 /\ IsFiniteSet(D \ {k})
    BY <1>1, FS_RemoveElement
  <2>3. /\ Cardinality(Associative!Younger(tlb, k)) <= Cardinality(D \ {k})
        /\ Cardinality(Associative!Younger(tlb, k)) \in Nat
    BY <2>1, <2>2, FS_Subset, FS_CardinalityType
  <2> QED BY <1>2, <2>2, <2>3, Ways DEF LruInv, Agrees
<1>4. ASSUME NEW k \in L1Keys(tlb) \ D PROVE ~(Cardinality(Associative!Younger(tlb, k)) < AssociativeL1Ways)
  <2>1. Cardinality(D) = AssociativeL1Ways
    BY <1>2, <1>4, Ways DEF LruInv, Agrees
  <2>2. D \subseteq Associative!Younger(tlb, k)
    BY <1>1, <1>4 DEF Associative!Younger, LruInv, Agrees, L1Keys
  <2>3. IsFiniteSet(Associative!Younger(tlb, k))
    <3>1. Associative!Younger(tlb, k) \subseteq L1Keys(tlb)
      BY DEF Associative!Younger, L1Keys
    <3> QED BY <1>1, <3>1, FS_Subset
  <2>4. Cardinality(D) <= Cardinality(Associative!Younger(tlb, k))
    BY <2>2, <2>3, FS_Subset
  <2> QED BY <1>2, <2>1, <2>3, <2>4, FS_CardinalityType, Ways
<1>5. new = [k \in Associative!Key |-> IF Cardinality(Associative!Younger(tlb, k)) < AssociativeL1Ways
                                       THEN tlb[k] ELSE Associative!Absent]
  BY SameCardinality DEF Associative!RunLru
<1>6. Associative!Absent \in [ts : Nat, ppn : Ppn \cup {NoPpn}] /\ Associative!Absent.ppn = NoPpn
  BY DEF Associative!Absent, Associative!NoPpn, NoPpn
<1> HIDE DEF new
<1>7. IsL1(new)
  BY <1>5, <1>6 DEF IsL1, LruInv
<1>8. \A k \in D : new[k] = tlb[k]
  BY <1>1, <1>3, <1>5
<1>9. L1Keys(new) = D
  <2>1. \A k \in D : k \in L1Keys(new)
    BY <1>1, <1>8, L1KeysAre
  <2>2. ASSUME NEW k \in L1Keys(new) PROVE k \in D
    <3>1. k \in Associative!Key /\ new[k].ppn # NoPpn
      BY L1KeysAre
    <3>2. Cardinality(Associative!Younger(tlb, k)) < AssociativeL1Ways /\ new[k] = tlb[k]
      BY <1>5, <1>6, <3>1
    <3> QED BY <1>4, <3>1, <3>2, L1KeysAre
  <2> QED BY <2>1, <2>2
<1>10. Agrees(new, seen)
  BY <1>8, <1>9 DEF Agrees, LruInv
<1>11. LruInv(new, seen, time)
  BY <1>1, <1>7, <1>8, <1>9, <1>10 DEF LruInv
<1> QED BY <1>7, <1>8, <1>9, <1>11 DEF new

(* The time passes without a translation through the L1.                    *)
LEMMA LruLater ==
  ASSUME NEW tlb, NEW seen, NEW time \in Nat, LruInv(tlb, seen, time)
  PROVE  LruInv(tlb, seen, time + 1)
<1>1. \A k \in L1Keys(tlb) : tlb[k].ts \in Nat
  BY L1KeysAre DEF LruInv, IsL1
<1> QED BY <1>1 DEF LruInv

(* The keys with the times of their last use, one of them used now.         *)
Used(key, seen) == [k \in DOMAIN seen \cup {key} |-> IF k = key THEN now ELSE seen[k]]

IsRecent(later, key, seen) ==
  LET U == DOMAIN seen \cup {key}
      used == Used(key, seen)
  IN /\ DOMAIN later = {k \in U : \/ Cardinality(U) <= AssociativeL1Ways
                                  \/ \E j \in U : used[j] < used[k]}
     /\ \A k \in DOMAIN later : later[k] = used[k]

LEMMA RecentlyFacts ==
  ASSUME NEW key, NEW seen
  PROVE  IsRecent(Associative!Recently(key, seen), key, seen)
<1> DEFINE U == DOMAIN seen \cup {key}
<1> DEFINE kept == {k \in U : \/ Cardinality(U) <= AssociativeL1Ways
                              \/ \E j \in U : Used(key, seen)[j] < Used(key, seen)[k]}
<1>1. DOMAIN Used(key, seen) = U
  BY DEF Used
<1>2. Associative!Recently(key, seen) = [k \in kept |-> Used(key, seen)[k]]
  BY <1>1, SameCardinality DEF Associative!Recently, Used
<1> HIDE DEF kept
<1>3. /\ DOMAIN Associative!Recently(key, seen) = kept
      /\ \A k \in kept : Associative!Recently(key, seen)[k] = Used(key, seen)[k]
  BY <1>2
<1> QED BY <1>3 DEF IsRecent, kept

(* An entry that was just used survives, and one less recently used goes    *)
(* when there is no room.                                                   *)
LEMMA UseKeeps ==
  ASSUME NEW tlb, NEW seen, now \in Nat, LruInv(tlb, seen, now),
         NEW key \in Associative!Key, NEW new, IsL1(new), new[key].ts = now, new[key].ppn # NoPpn,
         \A k \in Associative!Key : k # key => new[k] = tlb[k]
  PROVE  /\ LruInv(new, Associative!Recently(key, seen), now + 1)
         /\ Newest(key, Associative!Recently(key, seen))
<1> DEFINE U == DOMAIN seen \cup {key}
<1> DEFINE used == Used(key, seen)
<1> DEFINE later == Associative!Recently(key, seen)
<1> DEFINE fits == Cardinality(U) <= AssociativeL1Ways
<1>1. /\ DOMAIN later = {k \in U : fits \/ \E j \in U : used[j] < used[k]}
      /\ \A k \in DOMAIN later : later[k] = used[k]
  <2>1. IsRecent(later, key, seen)
    BY RecentlyFacts
  <2> HIDE DEF later
  <2> QED BY <2>1 DEF IsRecent
<1>2. used[key] = now /\ \A k \in DOMAIN seen : k # key => used[k] = seen[k]
  BY DEF Used
<1> HIDE DEF used, later
<1>3. /\ IsL1(tlb) /\ IsFiniteSet(L1Keys(tlb)) /\ DOMAIN seen \subseteq L1Keys(tlb)
      /\ \A k \in L1Keys(tlb) : tlb[k].ts \in Nat /\ tlb[k].ts < now /\ k \in Associative!Key
      /\ \A k \in DOMAIN seen : seen[k] \in Nat /\ seen[k] < now
  BY L1KeysAre DEF LruInv, IsL1, Agrees
<1>4. L1Keys(new) = L1Keys(tlb) \cup {key} /\ IsFiniteSet(L1Keys(new))
  <2>1. L1Keys(new) = L1Keys(tlb) \cup {key}
    BY L1KeysAre
  <2> QED BY <1>3, <2>1, FS_AddElement
<1>5. /\ \A k \in L1Keys(new) :
           /\ new[k].ts \in Nat /\ new[k].ts < now + 1
           /\ k # key => k \in L1Keys(tlb) /\ new[k].ts = tlb[k].ts /\ new[k].ts < now
      /\ \A k \in U :
           /\ used[k] \in Nat /\ used[k] < now + 1
           /\ k # key => k \in DOMAIN seen /\ used[k] = seen[k] /\ used[k] < now
  BY <1>2, <1>3, <1>4
<1>6. \A j, k \in L1Keys(new) : new[j].ts = new[k].ts => j = k
  BY <1>5 DEF LruInv
<1>7. U \subseteq L1Keys(new) /\ IsFiniteSet(U)
  BY <1>3, <1>4, FS_Subset
<1>8. \A j, k \in U : used[j] < used[k] <=> new[j].ts < new[k].ts
  <2> SUFFICES ASSUME NEW j \in U, NEW k \in U PROVE used[j] < used[k] <=> new[j].ts < new[k].ts
    OBVIOUS
  <2> HIDE DEF U
  <2>1. CASE j # key /\ k # key
    BY <1>5, <1>7, <2>1 DEF LruInv, Agrees
  <2>2. CASE j = key \/ k = key
    BY <1>2, <1>5, <1>7, <2>2
  <2> QED BY <2>1, <2>2
<1>9. \A j \in L1Keys(new) \ U, k \in U : new[j].ts < new[k].ts
  <2> SUFFICES ASSUME NEW j \in L1Keys(new) \ U, NEW k \in U PROVE new[j].ts < new[k].ts
    OBVIOUS
  <2>1. j # key /\ j \in L1Keys(tlb) \ DOMAIN seen
    BY <1>5
  <2>2. CASE k = key
    BY <1>5, <2>1, <2>2
  <2>3. CASE k # key
    BY <1>5, <1>7, <2>1, <2>3 DEF LruInv, Agrees
  <2> QED BY <2>2, <2>3
<1>10. Cardinality(U) \in Nat /\ Cardinality(DOMAIN seen) \in Nat
  BY <1>3, <1>7, FS_CardinalityType, FS_Subset
<1>11. CASE fits
  <2>1. DOMAIN later = U
    BY <1>1, <1>11
  <2>2. Cardinality(U) < AssociativeL1Ways => L1Keys(new) = U
    <3>1. Cardinality(DOMAIN seen) <= Cardinality(U)
      BY <1>7, FS_Subset
    <3>2. Cardinality(U) < AssociativeL1Ways => L1Keys(tlb) = DOMAIN seen
      BY <1>10, <3>1, Ways DEF LruInv, Agrees
    <3> QED BY <1>4, <3>2
  <2> HIDE DEF U
  <2>3. \A k \in U : later[k] = used[k]
    BY <1>1, <2>1
  <2>4. Agrees(new, later)
    BY <1>7, <1>8, <1>9, <1>11, <2>1, <2>2, <2>3 DEF Agrees
  <2>5. Newest(key, later)
    BY <1>2, <1>5, <2>1, <2>3 DEF Newest, U
  <2> QED BY <1>4, <1>5, <1>6, <2>1, <2>3, <2>4, <2>5 DEF LruInv, later
<1>12. CASE ~fits
  <2>1. Cardinality(U) = AssociativeL1Ways + 1 /\ Cardinality(DOMAIN seen) = AssociativeL1Ways /\ key \notin DOMAIN seen
    <3>1. key \in DOMAIN seen => U = DOMAIN seen
      OBVIOUS
    <3>2. key \notin DOMAIN seen => Cardinality(U) = Cardinality(DOMAIN seen) + 1
      BY <1>3, FS_AddElement, FS_Subset
    <3> QED BY <1>10, <1>12, <3>1, <3>2, Ways DEF LruInv, Agrees
  <2>2. PICK m \in U : \A k \in U : used[m] <= used[k]
    <3> DEFINE T == {used[k] : k \in U}
    <3>1. T \in SUBSET Nat /\ T # {}
      BY <1>5
    <3>2. Least(T) \in T /\ \A k \in T : Least(T) <= k
      <4> HIDE DEF T
      <4> QED BY <3>1, LeastNatural
    <3> QED BY <3>2
  <2>3. \A k \in U : k # m => used[m] < used[k]
    BY <1>5, <1>6, <1>7, <1>8, <2>2
  <2>4. DOMAIN later = U \ {m}
    <3>1. \A j \in U : ~(used[j] < used[m])
      BY <1>5, <2>2
    <3> HIDE DEF U
    <3> QED BY <1>1, <1>12, <2>2, <2>3, <3>1
  <2>5. Cardinality(DOMAIN later) = AssociativeL1Ways
    <3> HIDE DEF U
    <3>1. Cardinality(U \ {m}) = Cardinality(U) - 1
      BY <1>7, <2>2, FS_RemoveElement
    <3> QED BY <2>1, <2>4, <3>1, Ways
  <2>6. m # key
    <3>1. DOMAIN seen # {}
      BY <2>1, FS_EmptySet, Ways
    <3>2. PICK k \in DOMAIN seen : TRUE
      BY <3>1
    <3> QED BY <1>2, <1>5, <2>1, <2>2, <3>2
  <2> HIDE DEF U
  <2>7. \A k \in DOMAIN later : later[k] = used[k] /\ k \in U
    BY <1>1, <2>4
  <2>8. \A j \in L1Keys(new) \ DOMAIN later, k \in DOMAIN later : new[j].ts < new[k].ts
    BY <1>8, <1>9, <2>2, <2>3, <2>4, <2>7
  <2>9. Agrees(new, later)
    BY <1>7, <1>8, <2>4, <2>5, <2>7, <2>8, Ways DEF Agrees
  <2>10. Newest(key, later)
    BY <1>2, <1>5, <2>4, <2>6, <2>7 DEF Newest, U
  <2> QED BY <1>4, <1>5, <1>6, <2>7, <2>9, <2>10 DEF LruInv, later
<1> QED BY <1>11, <1>12

(* What l0_itlb answers for was used last, so that the L1 may miss it.      *)
LEMMA L0HitKeeps ==
  ASSUME NEW tlb, NEW seen, now \in Nat, LruInv(tlb, seen, now), NEW key, Newest(key, seen)
  PROVE  /\ LruInv(tlb, Associative!Recently(key, seen), now + 1)
         /\ Newest(key, Associative!Recently(key, seen))
<1> DEFINE U == DOMAIN seen \cup {key}
<1> DEFINE used == Used(key, seen)
<1> DEFINE later == Associative!Recently(key, seen)
<1>1. U = DOMAIN seen /\ Cardinality(U) <= AssociativeL1Ways
  BY DEF Newest, LruInv, Agrees
<1>2. used[key] = now /\ \A k \in DOMAIN seen : k # key => used[k] = seen[k]
  BY DEF Used
<1>3. DOMAIN later = DOMAIN seen /\ \A k \in DOMAIN seen : later[k] = used[k]
  <2>1. IsRecent(later, key, seen)
    BY RecentlyFacts
  <2> HIDE DEF later
  <2> QED BY <1>1, <2>1 DEF IsRecent
<1> HIDE DEF U, used, later
<1>4. /\ \A k \in L1Keys(tlb) : tlb[k].ts \in Nat
      /\ DOMAIN seen \subseteq L1Keys(tlb) /\ key \in DOMAIN seen
      /\ \A k \in DOMAIN seen : seen[k] \in Nat /\ seen[k] < now
  BY L1KeysAre DEF LruInv, IsL1, Agrees, Newest
<1>5. \A k \in DOMAIN seen : k # key => tlb[k].ts < tlb[key].ts
  <2> SUFFICES ASSUME NEW k \in DOMAIN seen, k # key PROVE tlb[k].ts < tlb[key].ts
    OBVIOUS
  <2>1. tlb[k].ts # tlb[key].ts /\ (seen[key] < seen[k] <=> tlb[key].ts < tlb[k].ts)
    BY <1>4 DEF LruInv, Agrees
  <2>2. seen[k] <= seen[key]
    BY DEF Newest
  <2> QED BY <1>4, <2>1, <2>2
<1>6. ASSUME NEW j \in DOMAIN seen, NEW k \in DOMAIN seen
      PROVE  later[j] < later[k] <=> tlb[j].ts < tlb[k].ts
  <2>1. CASE j # key /\ k # key
    BY <1>2, <1>3, <2>1 DEF LruInv, Agrees
  <2>2. CASE j = key \/ k = key
    BY <1>2, <1>3, <1>4, <1>5, <2>2
  <2> QED BY <2>1, <2>2
<1>7. Agrees(tlb, later)
  BY <1>3, <1>6 DEF LruInv, Agrees
<1>8. \A k \in DOMAIN later : later[k] \in Nat /\ later[k] <= now
  BY <1>2, <1>3, <1>4
<1>9. Newest(key, later)
  BY <1>2, <1>3, <1>4, <1>8 DEF Newest
<1>10. LruInv(tlb, seen, now + 1)
  BY LruLater
<1>11. LruInv(tlb, later, now + 1)
  <2>1. \A k \in DOMAIN later : later[k] \in Nat /\ later[k] < now + 1
    BY <1>8
  <2> QED BY <1>7, <1>10, <2>1 DEF LruInv
<1> QED BY <1>9, <1>11 DEF later

LEMMA EmptyLru ==
  ASSUME NEW tlb, IsL1(tlb), L1Keys(tlb) = {}, NEW seen, DOMAIN seen = {}, NEW time
  PROVE  LruInv(tlb, seen, time)
<1>1. IsFiniteSet({}) /\ Cardinality({}) = 0
  BY FS_EmptySet
<1> QED BY <1>1, Ways DEF LruInv, Agrees

-----------------------------------------------------------------------------
(* ---- the invariant of the fully associative MMU ------------------------ *)
SmallSeen(tables) ==
  [x \in Vpn \X Owners |-> IF x[1] \in SmallVpn THEN tables[<<x[1], Space(x[1], x[2])>>] ELSE NoPpn]

AssociativeGuest == asid \in Asid /\ table \in [Associative!Mappings -> Ppn] /\ now \in Nat \ {0}

SecondLevelInv ==
  /\ TlbInv(secondLevel, AssociativeStlbSets, AssociativeStlbWays, now, SmallSeen(table))
  /\ InOwnSpace(secondLevel)

L1Right(tlb, tables) ==
  /\ IsL1(tlb)
  /\ \A k \in L1Keys(tlb) : k \in Associative!Mappings /\ tlb[k].ppn = tables[k]

FirstLevelInv ==
  /\ l1 \in [Associative!Side -> [Associative!Key -> [ts : Nat, ppn : Ppn \cup {NoPpn}]]]
  /\ \A side \in Associative!Side : L1Right(l1[side], table)

L0Key == <<l0[1], Space(l0[1], l0[2])>>
L0Inv ==
  l0 # Associative!NoL0 =>
    l0[1] \in SmallVpn /\ l0[2] \in Asid /\ l0 = <<l0[1], l0[2], table[L0Key]>>

AssociativeInv == AssociativeGuest /\ SecondLevelInv /\ FirstLevelInv /\ L0Inv

(* A page in l0_itlb is the one the instruction side used last.             *)
ReplacementInv ==
  L1Enabled =>
    /\ DOMAIN eager = Associative!Side
    /\ \A side \in Associative!Side : LruInv(l1[side], eager[side], now)
    /\ l0 # Associative!NoL0 => Newest(L0Key, eager["i"])

(* ---- one set of operators under two names ------------------------------ *)
LEMMA SmallParameters ==
  /\ AssociativeStlbWays \in Nat \ {0} /\ AssociativeStlbSets \in Nat \ {0}
  /\ SmallVpn \subseteq Vpn /\ SmallVpn \subseteq Nat
  /\ \A v \in SmallVpn, a \in Asid : ~(v = 0 /\ a = Zero)
  /\ Zero \in MaskedAsid
BY AssociativeAssumption, VpnAssumption DEF Associative!Assumptions

LEMMA SameSpace == \A v \in SmallVpn : \A a : Associative!Space(v, a) = Space(v, a)
BY DEF Associative!Space, Space, Associative!Global, Global

LEMMA SameMatches ==
  ASSUME NEW tlb, NEW v, NEW a
  PROVE  /\ Associative!MatchingWays(tlb, v, a) = MatchingWays(tlb, v, a)
         /\ Associative!Hits(tlb, v, a) = Hits(tlb, v, a)
         /\ Associative!SetOf(tlb, v) = SetOf(tlb, v)
         /\ Associative!Found(tlb, v, a) = Found(tlb, v, a)
<1>1. Associative!SetOf(tlb, v) = SetOf(tlb, v)
  BY SameCardinality DEF Associative!SetOf, SetOf
<1>2. Associative!MatchingWays(tlb, v, a) = MatchingWays(tlb, v, a)
  BY <1>1 DEF Associative!MatchingWays, MatchingWays, Associative!Matches, Matches, Associative!Global, Global
<1>3. Associative!Least(MatchingWays(tlb, v, a)) = Least(MatchingWays(tlb, v, a))
  BY DEF Associative!Least, Least
<1> QED BY <1>1, <1>2, <1>3 DEF Associative!Hits, Hits, Associative!Found, Found

LEMMA SameTouch ==
  ASSUME NEW tlb, NEW v, NEW a, NEW ts
  PROVE  Associative!Touch(tlb, v, a, ts) = Touch(tlb, v, a, ts)
<1>1. Associative!Least(MatchingWays(tlb, v, a)) = Least(MatchingWays(tlb, v, a))
  BY DEF Associative!Least, Least
<1> QED BY <1>1, SameMatches DEF Associative!Touch, Touch

LEMMA SameInsert ==
  ASSUME NEW tlb, NEW v, NEW a, NEW ppn, NEW ts
  PROVE  Associative!Insert(tlb, v, a, ppn, ts) = Insert(tlb, v, a, ppn, ts)
<1>1. ASSUME NEW set, NEW entry PROVE Associative!InsertInSet(set, entry) = InsertInSet(set, entry)
  <2>1. Associative!Victim(set.way) = Victim(set.way)
    BY DEF Associative!Victim, Victim, Associative!Least, Least
  <2> QED BY <2>1, SameCardinality DEF Associative!InsertInSet, InsertInSet
<1> QED BY <1>1, SameMatches DEF Associative!Insert, Insert

LEMMA SameFlush ==
  ASSUME NEW tlb, NEW mode, mode.kind \in {"All", "ByASID"}
  PROVE  Associative!Flush(tlb, mode) = Flush(tlb, mode)
<1>1. \A e : Associative!Invalidated(e) = Invalidated(e)
  BY DEF Associative!Invalidated, Invalidated
<1>2. Associative!FlushAll(tlb) = FlushAll(tlb)
  BY <1>1 DEF Associative!FlushAll, FlushAll
<1>3. Associative!FlushAsid(tlb, mode.asid) = FlushAsid(tlb, mode.asid)
  BY <1>1 DEF Associative!FlushAsid, FlushAsid
<1> QED BY <1>2, <1>3 DEF Associative!Flush, Flush

LEMMA SameModes ==
  ASSUME NEW mode \in Associative!FlushModes, mode.kind \in {"All", "ByASID"}
  PROVE  mode \in FlushModes
BY DEF Associative!FlushModes, FlushModes

LEMMA SameEmpty ==
  ASSUME NEW sets, NEW ways
  PROVE  Associative!EmptyTlb(sets, ways) = EmptyTlb(sets, ways)
BY DEF Associative!EmptyTlb, EmptyTlb, Associative!EmptySet, EmptySet, Associative!EmptyEntry, EmptyEntry,
       Associative!Global, Global, Associative!NoPpn, NoPpn

LEMMA SamePointers ==
  ASSUME NEW tlb, PointerBound(tlb)
  PROVE  Associative!PointerBound(tlb)
BY SameCardinality DEF Associative!PointerBound, PointerBound, Associative!EmptyEntry, EmptyEntry,
       Associative!Global, Global, Associative!NoPpn, NoPpn

LEMMA SmallSeenFacts ==
  ASSUME NEW tables
  PROVE  /\ \A v \in SmallVpn, a \in Owners : SmallSeen(tables)[<<v, a>>] = tables[<<v, Space(v, a)>>]
         /\ KernelShared(SmallSeen(tables))
<1>1. \A v \in SmallVpn, a \in Owners : SmallSeen(tables)[<<v, a>>] = tables[<<v, Space(v, a)>>]
  BY SmallParameters DEF SmallSeen
<1>2. KernelShared(SmallSeen(tables))
  <2> SUFFICES ASSUME NEW v \in Kernel, NEW a \in Asid
               PROVE  SmallSeen(tables)[<<v, a>>] = SmallSeen(tables)[<<v, Global>>]
    BY DEF KernelShared
  <2>1. Space(v, a) = Space(v, Global) /\ v \in Vpn
    BY OrdinaryMMUAssumption DEF Space
  <2> QED BY <2>1 DEF SmallSeen, Owners
<1> QED BY <1>1, <1>2

(* The keys of the guest's mappings.                                        *)
LEMMA MappingFacts ==
  ASSUME NEW k
  PROVE  k \in Associative!Mappings <=>
           \E v \in SmallVpn, a \in Asid : k = <<v, Space(v, a)>>
BY SameSpace DEF Associative!Mappings

LEMMA KeyFacts ==
  ASSUME AssociativeGuest, NEW v \in SmallVpn, NEW a \in Asid
  PROVE  /\ <<v, Space(v, a)>> \in Associative!Mappings /\ <<v, Space(v, a)>> \in Associative!Key
         /\ Space(v, a) \in {a, Global} /\ (Space(v, a) = Global <=> v \in Kernel)
         /\ table[<<v, Space(v, a)>>] \in Ppn /\ table[<<v, Space(v, a)>>] # NoPpn
<1>1. Space(v, a) \in {a, Global} /\ (Space(v, a) = Global <=> v \in Kernel)
  BY NamesAssumption DEF Space
<1>2. <<v, Space(v, a)>> \in Associative!Mappings
  BY MappingFacts
<1>3. <<v, Space(v, a)>> \in Associative!Key
  BY <1>1 DEF Associative!Key, Associative!Global, Global
<1> QED BY <1>1, <1>2, <1>3, NamesAssumption DEF AssociativeGuest

-----------------------------------------------------------------------------
(* ---- the steps of the fully associative MMU ---------------------------- *)
(* A lookup finds a global entry of a user page too, but there is none.     *)
LEMMA L1Found ==
  ASSUME AssociativeGuest, NEW tlb, L1Right(tlb, table), NEW v \in SmallVpn, NEW a \in Asid,
         NEW key \in Associative!FoundKeys(tlb, v, a)
  PROVE  key = <<v, Space(v, a)>> /\ tlb[key].ppn = table[key]
<1>1. /\ key \in L1Keys(tlb)
      /\ v \in Kernel => key = <<v, Global>>
      /\ v \notin Kernel => key \in {<<v, a>>, <<v, Global>>}
  BY DEF Associative!FoundKeys, L1Keys, Associative!Global, Global
<1>2. PICK w \in SmallVpn, b \in Asid : key = <<w, Space(w, b)>>
  BY <1>1, MappingFacts DEF L1Right
<1>3. w = v
  BY <1>1, <1>2
<1>4. CASE v \in Kernel
  BY <1>1, <1>4 DEF L1Right, Space
<1>5. CASE v \notin Kernel
  <2>1. Space(w, b) # Global
    BY <1>3, <1>5, NamesAssumption DEF Space
  <2>2. key = <<v, a>>
    BY <1>1, <1>2, <1>5, <2>1
  <2> QED BY <1>1, <1>5, <2>2 DEF L1Right, Space
<1> QED BY <1>4, <1>5

LEMMA RunLruRight ==
  ASSUME NEW tlb, NEW tables, L1Right(tlb, tables)
  PROVE  L1Right(Associative!RunLru(tlb), tables)
<1> DEFINE new == Associative!RunLru(tlb)
<1>1. new = [k \in Associative!Key |-> IF Cardinality(Associative!Younger(tlb, k)) < AssociativeL1Ways
                                       THEN tlb[k] ELSE Associative!Absent]
  BY SameCardinality DEF Associative!RunLru
<1>2. Associative!Absent \in [ts : Nat, ppn : Ppn \cup {NoPpn}] /\ Associative!Absent.ppn = NoPpn
  BY DEF Associative!Absent, Associative!NoPpn, NoPpn
<1> HIDE DEF new
<1>3. IsL1(new)
  BY <1>1, <1>2 DEF IsL1, L1Right
<1>4. ASSUME NEW k \in L1Keys(new) PROVE k \in L1Keys(tlb) /\ new[k] = tlb[k]
  <2>1. k \in Associative!Key /\ new[k].ppn # NoPpn
    BY L1KeysAre
  <2>2. new[k] = tlb[k]
    BY <1>1, <1>2, <2>1
  <2> QED BY <2>1, <2>2, L1KeysAre
<1> QED BY <1>3, <1>4 DEF L1Right, new

(* An L1 whose entry of one page was filled or used.                        *)
UsedAt(new, tlb, key, ppn, time) ==
  /\ IsL1(new) /\ new[key].ts = time /\ new[key].ppn = ppn
  /\ \A k \in Associative!Key : k # key => new[k] = tlb[k]

LEMMA UsedRight ==
  ASSUME AssociativeGuest, NEW tlb, L1Right(tlb, table), NEW v \in SmallVpn, NEW a \in Asid, NEW new,
         UsedAt(new, tlb, <<v, Space(v, a)>>, table[<<v, Space(v, a)>>], now)
  PROVE  L1Right(new, table)
<1>1. <<v, Space(v, a)>> \in Associative!Mappings
  BY KeyFacts
<1>2. \A k \in L1Keys(new) : k = <<v, Space(v, a)>> \/ (k \in L1Keys(tlb) /\ new[k] = tlb[k])
  BY L1KeysAre DEF UsedAt
<1> QED BY <1>1, <1>2 DEF L1Right, UsedAt

LEMMA InsertUses ==
  ASSUME NEW tlb, IsL1(tlb), NEW key \in Associative!Key, NEW ppn \in Ppn, now \in Nat
  PROVE  UsedAt(Associative!DeferredInsert(tlb, key, ppn), tlb, key, ppn, now)
<1> DEFINE e == [ts |-> now, ppn |-> ppn]
<1>1. e \in [ts : Nat, ppn : Ppn \cup {NoPpn}] /\ e.ts = now /\ e.ppn = ppn
  OBVIOUS
<1>2. Associative!DeferredInsert(tlb, key, ppn) = [tlb EXCEPT ![key] = e]
  BY DEF Associative!DeferredInsert
<1> HIDE DEF e
<1> QED BY <1>1, <1>2 DEF UsedAt, IsL1

LEMMA HitUses ==
  ASSUME NEW tlb, IsL1(tlb), NEW key \in Associative!Key, now \in Nat
  PROVE  UsedAt([tlb EXCEPT ![key].ts = now], tlb, key, tlb[key].ppn, now)
<1> DEFINE e == [tlb[key] EXCEPT !.ts = now]
<1>1. e \in [ts : Nat, ppn : Ppn \cup {NoPpn}] /\ e.ts = now /\ e.ppn = tlb[key].ppn
  <2>1. tlb[key] \in [ts : Nat, ppn : Ppn \cup {NoPpn}]
    BY DEF IsL1
  <2> QED BY <2>1
<1>2. [tlb EXCEPT ![key].ts = now] = [tlb EXCEPT ![key] = e]
  OBVIOUS
<1> HIDE DEF e
<1> QED BY <1>1, <1>2 DEF UsedAt, IsL1

(* ---- the second level -------------------------------------------------- *)
LEMMA SecondLevelLater ==
  ASSUME AssociativeGuest, SecondLevelInv, now' = now + 1, UNCHANGED <<secondLevel, table>>
  PROVE  SecondLevelInv'
<1>1. TlbInv(secondLevel, AssociativeStlbSets, AssociativeStlbWays, now + 1, SmallSeen(table))
  BY Later, SmallParameters DEF SecondLevelInv, AssociativeGuest
<1> QED BY <1>1 DEF SecondLevelInv

LEMMA SecondLevelTouched ==
  ASSUME AssociativeGuest, SecondLevelInv, NEW v \in SmallVpn, Hits(secondLevel, v, asid),
         secondLevel' = Touch(secondLevel, v, asid, now), now' = now + 1, table' = table
  PROVE  SecondLevelInv'
<1>1. v \in Vpn /\ now \in Nat \ {0}
  BY SmallParameters DEF AssociativeGuest
<1>2. /\ TlbInv(Touch(secondLevel, v, asid, now), AssociativeStlbSets, AssociativeStlbWays, now + 1,
                SmallSeen(table))
      /\ InOwnSpace(Touch(secondLevel, v, asid, now))
  BY <1>1, TouchKeeps, SmallParameters DEF SecondLevelInv
<1> QED BY <1>2 DEF SecondLevelInv

LEMMA SecondLevelFilled ==
  ASSUME AssociativeGuest, SecondLevelInv, NEW v \in SmallVpn, ~Hits(secondLevel, v, asid),
         secondLevel' = Insert(secondLevel, v, Space(v, asid), table[<<v, Space(v, asid)>>], now),
         now' = now + 1, table' = table
  PROVE  SecondLevelInv'
<1> DEFINE a == Space(v, asid)
<1> DEFINE ppn == table[<<v, a>>]
<1>1. v \in Vpn /\ now \in Nat \ {0} /\ asid \in Asid
  BY SmallParameters DEF AssociativeGuest
<1>2. a \in {asid, Global} /\ (a = Global <=> v \in Kernel) /\ ppn \in Ppn /\ Space(v, a) = a
  BY <1>1, KeyFacts DEF Space
<1>3. a \in Asid \cup {Global} /\ ppn = SmallSeen(table)[<<v, a>>]
  BY <1>1, <1>2, SmallSeenFacts DEF Owners
<1> HIDE DEF a, ppn
<1>4. /\ TlbInv(Insert(secondLevel, v, a, ppn, now), AssociativeStlbSets, AssociativeStlbWays, now + 1,
                SmallSeen(table))
      /\ InOwnSpace(Insert(secondLevel, v, a, ppn, now))
  BY <1>1, <1>2, <1>3, InsertKeeps, SmallParameters DEF SecondLevelInv
<1> QED BY <1>4 DEF SecondLevelInv, a, ppn

(* What the second level finds is filed in the first level as the page is.  *)
LEMMA SecondLevelFound ==
  ASSUME AssociativeGuest, SecondLevelInv, NEW v \in SmallVpn, NEW a \in Asid, Hits(secondLevel, v, a)
  PROVE  LET e == Found(secondLevel, v, a) IN
         <<v, e.asid>> = <<v, Space(v, a)>> /\ e.ppn = table[<<v, Space(v, a)>>]
<1> DEFINE s == v % AssociativeStlbSets
<1> DEFINE w == Least(MatchingWays(secondLevel, v, a))
<1>1. /\ v \in Vpn /\ now \in Nat \ {0}
      /\ TlbInv(secondLevel, AssociativeStlbSets, AssociativeStlbWays, now, SmallSeen(table))
      /\ InOwnSpace(secondLevel)
  BY SmallParameters DEF AssociativeGuest, SecondLevelInv
<1>2. /\ SetOf(secondLevel, v) = s /\ s \in 0..AssociativeStlbSets - 1 /\ w \in 1..AssociativeStlbWays
      /\ Matches(secondLevel[s].way[w], v, a)
  BY <1>1, FoundFacts, SmallParameters
<1>3. Found(secondLevel, v, a) = secondLevel[s].way[w]
  BY <1>2 DEF Found
<1>4. DOMAIN secondLevel = 0..AssociativeStlbSets - 1 /\ DOMAIN secondLevel[s].way = 1..AssociativeStlbWays
  BY <1>1, <1>2 DEF TlbInv, IsSet
<1>5. w \in MatchingWays(secondLevel, v, a)
  BY <1>2, <1>4 DEF MatchingWays
<1>6. secondLevel[SetOf(secondLevel, v)].way[w].ppn = SmallSeen(table)[<<v, a>>]
  <2> HIDE DEF w, s
  <2> QED BY <1>1, <1>5, FoundRight, SmallSeenFacts, SmallParameters
<1> HIDE DEF w, s
<1>7. secondLevel[s].way[w].ppn = table[<<v, Space(v, a)>>]
  BY <1>2, <1>6, SmallSeenFacts DEF Owners
<1>8. secondLevel[s].way[w].asid = Space(v, a)
  <2> DEFINE e == secondLevel[s].way[w]
  <2>1. e.valid /\ e.vpn = v /\ e.asid \in {a, Global}
    BY <1>2 DEF Matches
  <2>2. e.asid = Global <=> v \in Kernel
    <3>1. s \in DOMAIN secondLevel /\ w \in DOMAIN secondLevel[s].way
      BY <1>2, <1>4
    <3> QED BY <1>1, <2>1, <3>1 DEF InOwnSpace
  <2> QED BY <2>1, <2>2 DEF Space
<1> QED BY <1>3, <1>7, <1>8

(* ---- translate_and_refill ---------------------------------------------- *)
LEMMA KeyOfIs ==
  ASSUME NEW v \in SmallVpn
  PROVE  Associative!KeyOf(v) = <<v, Space(v, asid)>>
BY SameSpace DEF Associative!KeyOf

(* A hit in or a refill of the first level, and the refill of l0_itlb.      *)
LEMMA UseInv ==
  ASSUME AssociativeInv, NEW side \in Associative!Side, NEW v \in SmallVpn, NEW base, NEW new,
         L1Right(base, table), ReplacementInv /\ L1Enabled => LruInv(base, eager[side], now),
         UsedAt(new, base, <<v, Space(v, asid)>>, table[<<v, Space(v, asid)>>], now),
         l1' = IF L1Enabled THEN [l1 EXCEPT ![side] = new] ELSE l1,
         l0' = Associative!NextL0(side, v, table[<<v, Space(v, asid)>>]),
         eager' = [eager EXCEPT ![side] = Associative!Recently(<<v, Space(v, asid)>>, @)],
         SecondLevelInv', now' = now + 1, UNCHANGED <<asid, table>>
  PROVE  AssociativeInv' /\ (ReplacementInv => ReplacementInv')
<1> DEFINE key == <<v, Space(v, asid)>>
<1>1. AssociativeGuest /\ AssociativeGuest' /\ asid \in Asid /\ now \in Nat /\ v \in Nat
  BY SmallParameters DEF AssociativeInv, AssociativeGuest
<1>2. key \in Associative!Key /\ table[key] # NoPpn /\ table[key] \in Ppn
  BY <1>1, KeyFacts
<1>3. L1Right(new, table)
  BY <1>1, UsedRight
<1>4. FirstLevelInv'
  <2>1. CASE ~L1Enabled
    BY <2>1 DEF AssociativeInv, FirstLevelInv
  <2>2. CASE L1Enabled
    <3>1. new \in [Associative!Key -> [ts : Nat, ppn : Ppn \cup {NoPpn}]]
      BY <1>3 DEF L1Right, IsL1
    <3>2. l1' = [l1 EXCEPT ![side] = new]
      BY <2>2
    <3> QED BY <1>3, <3>1, <3>2 DEF AssociativeInv, FirstLevelInv
  <2> QED BY <2>1, <2>2
<1>5. \/ side = "i" /\ l0' = <<v, asid, table[key]>> /\ L0Key' = key
      \/ side = "d" /\ l0' = l0 /\ L0Key' = L0Key
  BY DEF Associative!NextL0, Associative!Side, L0Key
<1> HIDE DEF key
<1>6. L0Inv'
  BY <1>1, <1>5 DEF AssociativeInv, L0Inv
<1>7. ASSUME ReplacementInv, L1Enabled
      PROVE  /\ DOMAIN eager' = Associative!Side
             /\ \A x \in Associative!Side : LruInv(l1'[x], eager'[x], now')
             /\ l0' # Associative!NoL0 => Newest(L0Key', eager'["i"])
  <2> DEFINE later == Associative!Recently(key, eager[side])
  <2>1. LruInv(new, later, now + 1) /\ Newest(key, later)
    <3>1. IsL1(new) /\ new[key].ts = now /\ new[key].ppn # NoPpn
      BY <1>2 DEF UsedAt, key
    <3>2. \A k \in Associative!Key : k # key => new[k] = base[k]
      BY DEF UsedAt, key
    <3> QED BY <1>1, <1>2, <1>7, <3>1, <3>2, UseKeeps
  <2>2. eager' = [eager EXCEPT ![side] = later] /\ DOMAIN eager = Associative!Side
    BY <1>7 DEF ReplacementInv, key
  <2> HIDE DEF later
  <2>3. l1' = [l1 EXCEPT ![side] = new] /\ DOMAIN l1 = Associative!Side
    BY <1>7 DEF AssociativeInv, FirstLevelInv
  <2>4. ASSUME NEW x \in Associative!Side PROVE LruInv(l1'[x], eager'[x], now')
    <3>1. CASE x = side
      BY <2>1, <2>2, <2>3, <3>1
    <3>2. CASE x # side
      <4>1. LruInv(l1[x], eager[x], now + 1)
        BY <1>1, <1>7, LruLater DEF ReplacementInv
      <4> QED BY <2>2, <2>3, <3>2, <4>1
    <3> QED BY <3>1, <3>2
  <2>5. l0' # Associative!NoL0 => Newest(L0Key', eager'["i"])
    <3>1. CASE side = "i"
      BY <1>5, <2>1, <2>2, <3>1
    <3>2. CASE side # "i"
      BY <1>5, <1>7, <2>2, <3>2 DEF ReplacementInv, Associative!Side
    <3> QED BY <3>1, <3>2
  <2> QED BY <2>2, <2>4, <2>5
<1>8. ReplacementInv => ReplacementInv'
  BY <1>7 DEF ReplacementInv
<1> QED BY <1>1, <1>4, <1>6, <1>8 DEF AssociativeInv

LEMMA AssociativeL0Inv ==
  ASSUME AssociativeInv, NEW side \in Associative!Side, NEW v \in SmallVpn,
         Associative!TranslateL0(side, v),
         eager' = [eager EXCEPT ![side] = Associative!Recently(Associative!KeyOf(v), @)],
         now' = now + 1, UNCHANGED <<asid, table>>
  PROVE  AssociativeInv' /\ (ReplacementInv => ReplacementInv')
<1>1. /\ UNCHANGED <<l1, l0, secondLevel>> /\ side = "i" /\ l0[1] = v /\ l0[2] = asid
      /\ AssociativeGuest /\ AssociativeGuest' /\ now \in Nat
  BY DEF Associative!TranslateL0, Associative!HitL0, AssociativeInv, AssociativeGuest
<1>2. SecondLevelInv'
  BY <1>1, SecondLevelLater DEF AssociativeInv
<1>3. FirstLevelInv' /\ L0Inv' /\ L0Key' = L0Key
  BY <1>1 DEF AssociativeInv, FirstLevelInv, L0Inv, L0Key
<1>4. L0Key = Associative!KeyOf(v) /\ l0 # Associative!NoL0
  <2>1. L0Key = Associative!KeyOf(v)
    BY <1>1, KeyOfIs DEF L0Key
  <2>2. l0 # Associative!NoL0
    BY <1>1, SmallParameters DEF Associative!NoL0, AssociativeGuest
  <2> QED BY <2>1, <2>2
<1>5. ASSUME ReplacementInv, L1Enabled
      PROVE  /\ DOMAIN eager' = Associative!Side
             /\ \A x \in Associative!Side : LruInv(l1'[x], eager'[x], now')
             /\ Newest(L0Key', eager'["i"])
  <2> DEFINE later == Associative!Recently(L0Key, eager[side])
  <2>1. LruInv(l1[side], later, now + 1) /\ Newest(L0Key, later)
    BY <1>1, <1>4, <1>5, L0HitKeeps DEF ReplacementInv
  <2>2. eager' = [eager EXCEPT ![side] = later] /\ DOMAIN eager = Associative!Side
    BY <1>4, <1>5 DEF ReplacementInv
  <2> HIDE DEF later
  <2>3. ASSUME NEW x \in Associative!Side PROVE LruInv(l1'[x], eager'[x], now')
    <3>1. CASE x = side
      BY <1>1, <2>1, <2>2, <3>1
    <3>2. CASE x # side
      <4>1. LruInv(l1[x], eager[x], now + 1)
        BY <1>1, <1>5, LruLater DEF ReplacementInv
      <4> QED BY <1>1, <2>2, <3>2, <4>1
    <3> QED BY <3>1, <3>2
  <2> QED BY <1>1, <1>3, <2>1, <2>2, <2>3
<1>6. ReplacementInv => ReplacementInv'
  BY <1>5 DEF ReplacementInv
<1> QED BY <1>1, <1>2, <1>3, <1>6 DEF AssociativeInv

LEMMA AssociativeStlbHitInv ==
  ASSUME AssociativeInv, NEW side \in Associative!Side, NEW v \in SmallVpn,
         Associative!TranslateStlb(side, v),
         eager' = [eager EXCEPT ![side] = Associative!Recently(Associative!KeyOf(v), @)],
         now' = now + 1, UNCHANGED <<asid, table>>
  PROVE  AssociativeInv' /\ (ReplacementInv => ReplacementInv')
<1> DEFINE key == <<v, Space(v, asid)>>
<1> DEFINE e == Found(secondLevel, v, asid)
<1> DEFINE new == Associative!DeferredInsert(l1[side], key, table[key])
<1>1. AssociativeGuest /\ SecondLevelInv /\ asid \in Asid /\ now \in Nat
  BY DEF AssociativeInv, AssociativeGuest
<1>2. Hits(secondLevel, v, asid) /\ secondLevel' = Touch(secondLevel, v, asid, now)
  BY SameMatches, SameTouch DEF Associative!TranslateStlb, Associative!HitStlb
<1>3. SecondLevelInv'
  BY <1>1, <1>2, SecondLevelTouched
<1>4. <<v, e.asid>> = key /\ e.ppn = table[key]
  BY <1>1, <1>2, SecondLevelFound
<1>5. /\ Associative!InsertL1(side, <<v, e.asid>>, e.ppn)
      /\ l0' = Associative!NextL0(side, v, e.ppn)
  BY SameMatches DEF Associative!TranslateStlb
<1> HIDE DEF e
<1>6. L1Right(l1[side], table)
  BY DEF AssociativeInv, FirstLevelInv
<1>7. UsedAt(new, l1[side], key, table[key], now)
  <2>1. key \in Associative!Key /\ table[key] \in Ppn
    BY <1>1, KeyFacts
  <2> HIDE DEF key
  <2> QED BY <1>1, <1>6, <2>1, InsertUses DEF L1Right
<1>8. l1' = IF L1Enabled THEN [l1 EXCEPT ![side] = new] ELSE l1
  BY <1>4, <1>5 DEF Associative!InsertL1
<1>9. /\ l0' = Associative!NextL0(side, v, table[key])
      /\ eager' = [eager EXCEPT ![side] = Associative!Recently(key, @)]
  BY <1>4, <1>5, KeyOfIs
<1>10. ReplacementInv /\ L1Enabled => LruInv(l1[side], eager[side], now)
  BY DEF ReplacementInv
<1> HIDE DEF new
<1> QED BY <1>3, <1>6, <1>7, <1>8, <1>9, <1>10, UseInv

LEMMA AssociativeL1HitInv ==
  ASSUME AssociativeInv, NEW side \in Associative!Side, NEW v \in SmallVpn,
         Associative!TranslateL1(side, v),
         eager' = [eager EXCEPT ![side] = Associative!Recently(Associative!KeyOf(v), @)],
         now' = now + 1, UNCHANGED <<asid, table>>
  PROVE  AssociativeInv' /\ (ReplacementInv => ReplacementInv')
<1> DEFINE key == <<v, Space(v, asid)>>
<1> DEFINE tlb == Associative!RunLru(l1[side])
<1> DEFINE new == [tlb EXCEPT ![key].ts = now]
<1>1. AssociativeGuest /\ SecondLevelInv /\ asid \in Asid /\ now \in Nat
  BY DEF AssociativeInv, AssociativeGuest
<1>2. SecondLevelInv'
  BY <1>1, SecondLevelLater DEF Associative!TranslateL1
<1>3. L1Right(tlb, table)
  BY RunLruRight DEF AssociativeInv, FirstLevelInv
<1>4. PICK k \in Associative!FoundKeys(tlb, v, asid) :
        /\ l1' = [l1 EXCEPT ![side] = [tlb EXCEPT ![k].ts = now]]
        /\ l0' = Associative!NextL0(side, v, tlb[k].ppn)
  BY DEF Associative!TranslateL1
<1>5. L1Enabled
  BY DEF Associative!TranslateL1
<1>6. ReplacementInv /\ L1Enabled => LruInv(tlb, eager[side], now)
  BY <1>1, RunLruFacts DEF ReplacementInv
<1> HIDE DEF tlb
<1>7. k = key /\ tlb[key].ppn = table[key]
  BY <1>1, <1>3, L1Found
<1>8. UsedAt(new, tlb, key, table[key], now)
  <2>1. key \in Associative!Key
    BY <1>1, KeyFacts
  <2> HIDE DEF key
  <2>2. UsedAt(new, tlb, key, tlb[key].ppn, now)
    BY <1>1, <1>3, <2>1, HitUses DEF L1Right
  <2> QED BY <1>7, <2>2
<1>9. l1' = IF L1Enabled THEN [l1 EXCEPT ![side] = new] ELSE l1
  BY <1>4, <1>5, <1>7
<1>10. /\ l0' = Associative!NextL0(side, v, table[key])
       /\ eager' = [eager EXCEPT ![side] = Associative!Recently(key, @)]
  BY <1>4, <1>7, KeyOfIs
<1> HIDE DEF new
<1> QED BY <1>2, <1>3, <1>6, <1>8, <1>9, <1>10, UseInv

LEMMA AssociativeWalkInv ==
  ASSUME AssociativeInv, NEW side \in Associative!Side, NEW v \in SmallVpn,
         Associative!Walk(side, v),
         eager' = [eager EXCEPT ![side] = Associative!Recently(Associative!KeyOf(v), @)],
         now' = now + 1, UNCHANGED <<asid, table>>
  PROVE  AssociativeInv' /\ (ReplacementInv => ReplacementInv')
<1> DEFINE key == <<v, Space(v, asid)>>
<1> DEFINE tlb == IF L1Enabled THEN Associative!RunLru(l1[side]) ELSE l1[side]
<1> DEFINE new == Associative!DeferredInsert(tlb, key, table[key])
<1>1. AssociativeGuest /\ SecondLevelInv /\ asid \in Asid /\ now \in Nat
  BY DEF AssociativeInv, AssociativeGuest
<1>2. Associative!KeyOf(v) = key /\ Associative!Space(v, asid) = Space(v, asid)
  BY KeyOfIs, SameSpace
<1>3. /\ ~Hits(secondLevel, v, asid)
      /\ secondLevel' = Insert(secondLevel, v, Space(v, asid), table[key], now)
      /\ l1' = IF L1Enabled THEN [l1 EXCEPT ![side] = new] ELSE l1
      /\ l0' = Associative!NextL0(side, v, table[key])
  BY <1>2, SameMatches, SameInsert DEF Associative!Walk, Associative!HitStlb
<1>4. SecondLevelInv'
  BY <1>1, <1>3, SecondLevelFilled
<1>5. L1Right(tlb, table)
  BY RunLruRight DEF AssociativeInv, FirstLevelInv
<1>6. ReplacementInv /\ L1Enabled => LruInv(tlb, eager[side], now)
  BY <1>1, RunLruFacts DEF ReplacementInv
<1> HIDE DEF tlb
<1>7. UsedAt(new, tlb, key, table[key], now)
  <2>1. key \in Associative!Key /\ table[key] \in Ppn
    BY <1>1, KeyFacts
  <2> HIDE DEF key
  <2> QED BY <1>1, <1>5, <2>1, InsertUses DEF L1Right
<1>8. eager' = [eager EXCEPT ![side] = Associative!Recently(key, @)]
  BY <1>2
<1> HIDE DEF new
<1> QED BY <1>3, <1>4, <1>5, <1>6, <1>7, <1>8, UseInv

LEMMA AssociativeUncachedInv ==
  ASSUME AssociativeInv, NEW side \in Associative!Side, NEW v \in SmallVpn,
         Associative!WalkUncached(side, v), now' = now + 1, UNCHANGED <<asid, table, eager>>
  PROVE  AssociativeInv' /\ (ReplacementInv => ReplacementInv')
<1> DEFINE tlb == IF L1Enabled THEN Associative!RunLru(l1[side]) ELSE l1[side]
<1>1. AssociativeGuest /\ AssociativeGuest' /\ SecondLevelInv /\ now \in Nat
  BY DEF AssociativeInv, AssociativeGuest
<1>2. l1' = [l1 EXCEPT ![side] = tlb] /\ UNCHANGED <<l0, secondLevel>>
  BY DEF Associative!WalkUncached
<1>3. SecondLevelInv'
  BY <1>1, <1>2, SecondLevelLater
<1>4. L1Right(tlb, table)
  BY RunLruRight DEF AssociativeInv, FirstLevelInv
<1>5. ReplacementInv /\ L1Enabled => LruInv(tlb, eager[side], now)
  BY <1>1, RunLruFacts DEF ReplacementInv
<1> HIDE DEF tlb
<1>6. FirstLevelInv' /\ L0Inv' /\ L0Key' = L0Key
  <2>1. tlb \in [Associative!Key -> [ts : Nat, ppn : Ppn \cup {NoPpn}]]
    BY <1>4 DEF L1Right, IsL1
  <2> QED BY <1>2, <1>4, <2>1 DEF AssociativeInv, FirstLevelInv, L0Inv, L0Key
<1>7. ReplacementInv => ReplacementInv'
  <2> SUFFICES ASSUME ReplacementInv, L1Enabled, NEW x \in Associative!Side PROVE LruInv(l1'[x], eager'[x], now')
    BY <1>2, <1>6 DEF ReplacementInv
  <2>1. LruInv(IF x = side THEN tlb ELSE l1[x], eager[x], now)
    BY <1>5 DEF ReplacementInv
  <2>2. l1'[x] = IF x = side THEN tlb ELSE l1[x]
    BY <1>2 DEF AssociativeInv, FirstLevelInv
  <2>3. LruInv(l1'[x], eager[x], now)
    BY <2>1, <2>2
  <2> QED BY <1>1, <2>3, LruLater
<1> QED BY <1>1, <1>3, <1>6, <1>7 DEF AssociativeInv

LEMMA AssociativeTranslateInv ==
  ASSUME AssociativeInv, NEW side \in Associative!Side, NEW v \in SmallVpn,
         Associative!TranslateAndRefill(side, v)
  PROVE  AssociativeInv' /\ (ReplacementInv => ReplacementInv')
BY AssociativeL0Inv, AssociativeStlbHitInv, AssociativeL1HitInv, AssociativeWalkInv, AssociativeUncachedInv
   DEF Associative!TranslateAndRefill

(* ---- flush ------------------------------------------------------------- *)
(* A flush of a process drops what the guest may change in its space, if no *)
(* address space looks to the mask like the one of global entries.          *)
LEMMA AssociativeFlushInv ==
  ASSUME AssociativeInv, NEW mode \in Associative!FlushModes, mode.kind \in {"All", "ByASID"},
         mode.kind = "ByASID" => MaskedAsid \cap Asid = {},
         Associative!FlushMMU(mode)
  PROVE  AssociativeInv' /\ (ReplacementInv /\ mode.kind = "All" => ReplacementInv')
<1>1. /\ AssociativeGuest /\ asid' = asid /\ now' = now
      /\ l0' = Associative!NoL0
      /\ l1' = [side \in Associative!Side |-> Associative!FlushL1(l1[side], mode)]
      /\ secondLevel' = Flush(secondLevel, mode)
      /\ eager' = [side \in Associative!Side |->
                     [k \in {k \in DOMAIN eager[side] : ~Associative!Dropped(mode, k)} |-> eager[side][k]]]
  BY SameFlush DEF AssociativeInv, Associative!FlushMMU, Associative!FlushedL0
<1>2. mode \in FlushModes /\ (mode.kind = "ByASID" => mode.asid \in Asid)
  BY SameModes DEF FlushModes
<1>3. /\ table' \in [Associative!Mappings -> Ppn]
      /\ \A m \in Associative!Mappings : table'[m] = table[m] \/ Associative!Covers(mode, m)
  <2>1. table \in [Associative!Mappings -> Ppn]
    BY <1>1 DEF AssociativeGuest
  <2>2. CASE table' = table
    BY <2>1, <2>2
  <2>3. CASE \E m \in Associative!Mappings, p \in Ppn :
               Associative!Covers(mode, m) /\ table' = [table EXCEPT ![m] = p]
    BY <2>1, <2>3
  <2> QED BY <2>2, <2>3 DEF Associative!FlushMMU
<1>4. AssociativeGuest'
  BY <1>1, <1>3 DEF AssociativeGuest
<1>5. SecondLevelInv'
  <2>1. ASSUME mode.kind = "ByASID", NEW v \in Vpn, NEW a \in Owners \ {mode.asid}, a = Global => v \in Kernel
        PROVE  SmallSeen(table')[<<v, a>>] = SmallSeen(table)[<<v, a>>]
    <3>1. CASE v \notin SmallVpn
      BY <3>1 DEF SmallSeen
    <3>2. CASE v \in SmallVpn
      <4>1. PICK b \in Asid : Space(v, a) = Space(v, b)
        BY <1>2, <2>1 DEF Owners, Space
      <4> DEFINE m == <<v, Space(v, a)>>
      <4>2. m \in Associative!Mappings
        BY <3>2, <4>1, MappingFacts
      <4>3. Space(v, a) # mode.asid
        BY <1>2, <2>1, NamesAssumption DEF Owners, Space
      <4>4. ~Associative!Covers(mode, m)
        BY <2>1, <4>3 DEF Associative!Covers
      <4>5. table'[m] = table[m]
        BY <1>3, <4>2, <4>4
      <4> QED BY <3>2, <4>5, SmallSeenFacts
    <3> QED BY <3>1, <3>2
  <2>2. /\ TlbInv(secondLevel, AssociativeStlbSets, AssociativeStlbWays, now, SmallSeen(table))
        /\ InOwnSpace(secondLevel)
    BY DEF AssociativeInv, SecondLevelInv
  <2>3. /\ TlbInv(Flush(secondLevel, mode), AssociativeStlbSets, AssociativeStlbWays, now, SmallSeen(table'))
        /\ InOwnSpace(Flush(secondLevel, mode))
    BY <1>2, <2>1, <2>2, FlushKeeps, SmallParameters
  <2> QED BY <1>1, <2>3 DEF SecondLevelInv
<1>6. ASSUME NEW side \in Associative!Side
      PROVE  /\ L1Right(l1'[side], table')
             /\ mode.kind = "All" => L1Keys(l1'[side]) = {} /\ DOMAIN eager'[side] = {}
  <2>1. IsL1(l1[side]) /\ L1Right(l1[side], table)
    BY DEF AssociativeInv, FirstLevelInv, L1Right
  <2>2. l1'[side] = [k \in Associative!Key |-> IF Associative!Dropped(mode, k) THEN Associative!Absent ELSE l1[side][k]]
    BY <1>1 DEF Associative!FlushL1
  <2>3. Associative!Absent \in [ts : Nat, ppn : Ppn \cup {NoPpn}] /\ Associative!Absent.ppn = NoPpn
    BY DEF Associative!Absent, Associative!NoPpn, NoPpn
  <2>4. IsL1(l1'[side])
    BY <2>1, <2>2, <2>3 DEF IsL1
  <2>5. ASSUME NEW k \in L1Keys(l1'[side])
        PROVE  /\ ~Associative!Dropped(mode, k)
               /\ k \in Associative!Mappings /\ l1'[side][k].ppn = table'[k]
    <3>1. k \in Associative!Key /\ l1'[side][k].ppn # NoPpn
      BY L1KeysAre
    <3>2. ~Associative!Dropped(mode, k) /\ l1'[side][k] = l1[side][k]
      BY <2>2, <2>3, <3>1
    <3>3. k \in L1Keys(l1[side])
      BY <3>1, <3>2, L1KeysAre
    <3>4. k \in Associative!Mappings /\ l1[side][k].ppn = table[k]
      BY <2>1, <3>3 DEF L1Right
    <3>5. ~Associative!Covers(mode, k)
      <4>1. mode.kind = "ByASID" /\ Associative!Owner(k) # mode.asid
        BY <3>2 DEF Associative!Dropped
      <4>2. k[2] # mode.asid
        BY <1>2, <4>1, NamesAssumption DEF Associative!Owner, Associative!Global, Global
      <4> QED BY <4>1, <4>2 DEF Associative!Covers
    <3> QED BY <1>3, <3>2, <3>4, <3>5
  <2>6. ASSUME mode.kind = "All" PROVE \A k : Associative!Dropped(mode, k)
    BY <2>6 DEF Associative!Dropped
  <2>7. DOMAIN eager'[side] \subseteq {k \in DOMAIN eager[side] : ~Associative!Dropped(mode, k)}
    BY <1>1
  <2> QED BY <2>4, <2>5, <2>6, <2>7 DEF L1Right
<1>7. FirstLevelInv'
  <2>1. \A side \in Associative!Side : l1'[side] \in [Associative!Key -> [ts : Nat, ppn : Ppn \cup {NoPpn}]]
    BY <1>6 DEF L1Right, IsL1
  <2>2. l1' = [side \in Associative!Side |-> l1'[side]]
    BY <1>1
  <2> QED BY <1>6, <2>1, <2>2 DEF FirstLevelInv
<1>8. L0Inv'
  BY <1>1 DEF L0Inv
<1>9. ASSUME mode.kind = "All" PROVE ReplacementInv'
  <2>1. \A side \in Associative!Side : LruInv(l1'[side], eager'[side], now)
    BY <1>6, <1>9, EmptyLru DEF L1Right
  <2>2. DOMAIN eager' = Associative!Side
    BY <1>1
  <2> QED BY <1>1, <2>1, <2>2 DEF ReplacementInv
<1> QED BY <1>4, <1>5, <1>7, <1>8, <1>9 DEF AssociativeInv

LEMMA AssociativeSwitchInv ==
  ASSUME AssociativeInv, NEW a \in Asid, Associative!SwitchTo(a)
  PROVE  AssociativeInv' /\ (ReplacementInv => ReplacementInv')
<1>1. asid' = a /\ UNCHANGED <<l1, l0, secondLevel, table, now, uncached, eager>>
  BY DEF Associative!SwitchTo
<1>2. L0Key' = L0Key
  BY <1>1 DEF L0Key
<1> QED BY <1>1, <1>2 DEF AssociativeInv, AssociativeGuest, SecondLevelInv, FirstLevelInv, L0Inv, ReplacementInv

LEMMA AssociativeInitInv ==
  ASSUME Associative!Init
  PROVE  AssociativeInv /\ ReplacementInv
<1>1. /\ now = 1 /\ asid \in Asid /\ l0 = Associative!NoL0
      /\ l1 = [side \in Associative!Side |-> Associative!EmptyL1]
      /\ secondLevel = EmptyTlb(AssociativeStlbSets, AssociativeStlbWays)
      /\ eager = [side \in Associative!Side |-> [k \in {} |-> 0]]
  BY SameEmpty DEF Associative!Init
<1>2. AssociativeGuest
  BY <1>1 DEF AssociativeGuest, Associative!Init
<1>3. SecondLevelInv
  BY <1>1, NewTlb, SmallParameters DEF SecondLevelInv
<1>4. IsL1(Associative!EmptyL1) /\ L1Keys(Associative!EmptyL1) = {}
  <2>1. Associative!Absent \in [ts : Nat, ppn : Ppn \cup {NoPpn}] /\ Associative!Absent.ppn = NoPpn
    BY DEF Associative!Absent, Associative!NoPpn, NoPpn
  <2>2. Associative!EmptyL1 = [k \in Associative!Key |-> Associative!Absent]
    BY DEF Associative!EmptyL1
  <2> QED BY <2>1, <2>2, L1KeysAre DEF IsL1
<1>5. FirstLevelInv
  BY <1>1, <1>4 DEF FirstLevelInv, L1Right, IsL1
<1>6. ReplacementInv
  <2>1. \A side \in Associative!Side : LruInv(l1[side], eager[side], now)
    BY <1>1, <1>4, EmptyLru
  <2> QED BY <1>1, <2>1 DEF ReplacementInv
<1> QED BY <1>1, <1>2, <1>3, <1>5, <1>6 DEF AssociativeInv, L0Inv

LEMMA AssociativeStep ==
  ASSUME ~IsOrdinary => AssociativeInv, [BuildNext]_<<build, vars, associativeVars>>,
         AssociativeFlushes \subseteq {"All", "ByASID"},
         "ByASID" \in AssociativeFlushes => MaskedAsid \cap Asid = {}
  PROVE  /\ (~IsOrdinary => AssociativeInv)'
         /\ AssociativeFlushes \subseteq {"All"} /\ (~IsOrdinary => ReplacementInv)
              => (~IsOrdinary => ReplacementInv)'
<1>1. CASE UNCHANGED <<build, vars, associativeVars>>
  BY <1>1 DEF vars, associativeVars, IsOrdinary, AssociativeInv, AssociativeGuest, SecondLevelInv, FirstLevelInv,
              L0Inv, L0Key, ReplacementInv
<1>2. CASE BuildNext
  <2>1. build' = build
    BY <1>2 DEF BuildNext
  <2>2. CASE IsOrdinary
    BY <2>1, <2>2 DEF IsOrdinary
  <2>3. CASE ~IsOrdinary
    <3>1. AssociativeInv /\ Associative!Next
      BY <1>2, <2>3 DEF BuildNext
    <3>2. ASSUME NEW side \in Associative!Side, NEW v \in SmallVpn, Associative!TranslateAndRefill(side, v)
          PROVE  AssociativeInv' /\ (ReplacementInv => ReplacementInv')
      BY <3>1, <3>2, AssociativeTranslateInv
    <3>3. ASSUME NEW mode \in Associative!FlushModes, Associative!FlushMMU(mode)
          PROVE  AssociativeInv' /\ (AssociativeFlushes \subseteq {"All"} /\ ReplacementInv => ReplacementInv')
      <4>1. mode.kind \in AssociativeFlushes
        BY <3>3 DEF Associative!FlushMMU
      <4> QED BY <3>1, <3>3, <4>1, AssociativeFlushInv
    <3>4. ASSUME NEW a \in Asid, Associative!SwitchTo(a)
          PROVE  AssociativeInv' /\ (ReplacementInv => ReplacementInv')
      BY <3>1, <3>4, AssociativeSwitchInv
    <3>5. AssociativeInv' /\ (AssociativeFlushes \subseteq {"All"} /\ ReplacementInv => ReplacementInv')
      BY <3>1, <3>2, <3>3, <3>4 DEF Associative!Next
    <3> QED BY <2>1, <2>3, <3>5 DEF IsOrdinary
  <2> QED BY <2>2, <2>3
<1> QED BY <1>1, <1>2

(* ---- what the invariant says ------------------------------------------- *)
LEMMA AssociativeTypes == AssociativeInv => Associative!TypeOK
<1> SUFFICES ASSUME AssociativeInv PROVE Associative!TypeOK
  OBVIOUS
<1>1. Associative!PointerBound(secondLevel)
  <2>1. PointerBound(secondLevel)
    BY TlbTypes, SmallParameters DEF AssociativeInv, SecondLevelInv
  <2> QED BY <2>1, SamePointers
<1>2. l1 \in [Associative!Side -> [Associative!Key -> [ts : Nat, ppn : Ppn \cup {Associative!NoPpn}]]]
  BY DEF AssociativeInv, FirstLevelInv, Associative!NoPpn, NoPpn
<1>3. l0[1] \in Nat /\ l0[2] \in Asid \cup {Zero} /\ l0[3] \in Ppn \cup {Associative!NoPpn}
  <2>1. CASE l0 = Associative!NoL0
    BY <2>1 DEF Associative!NoL0, Associative!NoPpn
  <2>2. CASE l0 # Associative!NoL0
    <3>1. l0[1] \in SmallVpn /\ l0[2] \in Asid /\ l0 = <<l0[1], l0[2], table[L0Key]>>
      BY <2>2 DEF AssociativeInv, L0Inv
    <3>2. table[L0Key] \in Ppn
      BY <3>1, KeyFacts DEF AssociativeInv, L0Key
    <3> QED BY <3>1, <3>2, SmallParameters
  <2> QED BY <2>1, <2>2
<1> QED BY <1>1, <1>2, <1>3 DEF Associative!TypeOK, AssociativeInv, AssociativeGuest

LEMMA AssociativeHitsRight == AssociativeInv => Associative!HitsAgreeWithWalk
<1> SUFFICES ASSUME AssociativeInv, NEW v \in SmallVpn, NEW a \in Asid
             PROVE  LET mapped == table[<<v, Associative!Space(v, a)>>] IN
                    /\ l0[1] = v /\ l0[2] = a /\ l0 # Associative!NoL0 => l0[3] = mapped
                    /\ Associative!Hits(secondLevel, v, a) => Associative!Found(secondLevel, v, a).ppn = mapped
                    /\ \A side \in Associative!Side : \A key \in Associative!FoundKeys(l1[side], v, a) :
                         l1[side][key].ppn = mapped
  BY DEF Associative!HitsAgreeWithWalk
<1> DEFINE mapped == table[<<v, Space(v, a)>>]
<1>1. Associative!Space(v, a) = Space(v, a)
  BY SameSpace
<1>2. l0[1] = v /\ l0[2] = a /\ l0 # Associative!NoL0 => l0[3] = mapped
  BY DEF AssociativeInv, L0Inv, L0Key
<1>3. Hits(secondLevel, v, a) => Found(secondLevel, v, a).ppn = mapped
  BY SecondLevelFound DEF AssociativeInv
<1>4. ASSUME NEW side \in Associative!Side, NEW key \in Associative!FoundKeys(l1[side], v, a)
      PROVE  l1[side][key].ppn = mapped
  <2>1. AssociativeGuest /\ L1Right(l1[side], table)
    BY DEF AssociativeInv, FirstLevelInv
  <2> QED BY <2>1, L1Found
<1> QED BY <1>1, <1>2, <1>3, <1>4, SameMatches

LEMMA ReplacementLru == AssociativeInv /\ ReplacementInv => Associative!ReplacementIsLru
<1> SUFFICES ASSUME AssociativeInv, ReplacementInv, L1Enabled, NEW side \in Associative!Side
             PROVE  Associative!Keys(Associative!RunLru(l1[side])) = DOMAIN eager[side]
  BY DEF Associative!ReplacementIsLru
<1>1. now \in Nat /\ LruInv(l1[side], eager[side], now)
  BY DEF ReplacementInv, AssociativeInv, AssociativeGuest
<1> QED BY <1>1, RunLruFacts DEF L1Keys

(* With any TLBs and processes, as long as the guest flushes everything or, *)
(* where no ASID has its low twelve bits zero, by address space: every hit  *)
(* of the fully associative MMU gives what a page walk would, whichever     *)
(* process runs.                                                            *)
THEOREM AssociativeHits ==
  ASSUME AssociativeFlushes \subseteq {"All", "ByASID"},
         "ByASID" \in AssociativeFlushes => MaskedAsid \cap Asid = {}
  PROVE  BuildSpec => [](~IsOrdinary => Associative!TypeOK /\ Associative!HitsAgreeWithWalk)
<1> DEFINE Inv == ~IsOrdinary => AssociativeInv
<1>1. BuildInit => Inv
  BY AssociativeInitInv DEF BuildInit
<1>2. Inv /\ [BuildNext]_<<build, vars, associativeVars>> => Inv'
  BY AssociativeStep
<1>3. Inv => (~IsOrdinary => Associative!TypeOK /\ Associative!HitsAgreeWithWalk)
  BY AssociativeTypes, AssociativeHitsRight
<1> QED BY <1>1, <1>2, <1>3, PTL DEF BuildSpec

(* Under flushes of everything the late replacement of the first level also *)
(* keeps exactly what one at every insertion keeps: RunLru of mmu/tlb.rs.   *)
THEOREM AssociativeConsistency ==
  ASSUME AssociativeFlushes \subseteq {"All"}
  PROVE  BuildSpec => []AssociativeConsistent
<1> DEFINE Inv == (~IsOrdinary => AssociativeInv) /\ (~IsOrdinary => ReplacementInv)
<1>1. BuildInit => Inv
  BY AssociativeInitInv DEF BuildInit
<1>2. Inv /\ [BuildNext]_<<build, vars, associativeVars>> => Inv'
  BY AssociativeStep
<1>3. Inv => AssociativeConsistent
  BY AssociativeTypes, AssociativeHitsRight, ReplacementLru DEF AssociativeConsistent, Associative!Consistent
<1> QED BY <1>1, <1>2, <1>3, PTL DEF BuildSpec
=============================================================================
