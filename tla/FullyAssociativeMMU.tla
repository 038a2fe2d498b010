------------------------- MODULE FullyAssociativeMMU -------------------------
(* The MMU of one core with fully associative L1 TLBs                       *)
(* (mmu/l1_fully_associative.rs, FullyAssociativeTLB of mmu/tlb.rs): the L2 *)
(* is looked up first, insertions into the L1 pile up and the replacement   *)
(* runs only before an L1 lookup.  The guest is the one of OrdinaryMMU, its *)
(* pages are small.                                                         *)
EXTENDS Tlb

CONSTANTS
  Kernel,             \* the page numbers above bit 51
  LowVpn,             \* those below 2^27
  Zero,               \* ASID 0
  MaskedAsid,         \* the ASIDs whose low twelve bits are zero
  L1Enabled,          \* L1TLB_ENABLED
  L1Ways, StlbWays, StlbSets,
  FlushKinds,         \* the flushes the guest uses
  MaxTime             \* bound: the number of translations

(* What MMU assumes of them.  Page zero of address space zero is not        *)
(* mapped: l0_itlb starts with it.  A build with this MMU has a second      *)
(* level (parameter.rs:122).                                                *)
Assumptions ==
  /\ Kernel \subseteq Vpn /\ LowVpn \subseteq Vpn \ Kernel
  /\ Zero \in MaskedAsid /\ <<0, Zero>> \notin Vpn \X Asid
  /\ L1Enabled \in BOOLEAN /\ {L1Ways, StlbWays, StlbSets} \subseteq Nat \ {0}

VARIABLES
  l1,      \* itlb and dtlb: per key a timestamp and a page, absent keys unmapped
  l0,      \* l0_itlb
  stlb,
  asid, pt, now,   \* as in OrdinaryMMU
  uncached,  \* the pages whose walk TCR_EL1 makes not cacheable
  eager    \* history: the keys an L1 that replaces at once would hold, each with
           \* the time of its last use

vars == <<l1, l0, stlb, asid, pt, now, uncached, eager>>

Side == {"i", "d"}
Key == Vpn \X (Asid \cup {Global})
Absent == [ts |-> 0, ppn |-> NoPpn]
EmptyL1 == [k \in Key |-> Absent]
NoL0 == <<0, Zero, NoPpn>>
Keys(tlb) == {k \in Key : tlb[k].ppn # NoPpn}
Space(vpn, a) == IF vpn \in Kernel THEN Global ELSE a
KeyOf(vpn) == <<vpn, Space(vpn, asid)>>
Mappings == {<<v, Space(v, a)>> : v \in Vpn, a \in Asid}

Init ==
  /\ l1 = [side \in Side |-> EmptyL1]
  /\ l0 = NoL0
  /\ stlb = EmptyTlb(StlbSets, StlbWays)
  /\ asid \in Asid
  /\ pt \in {[m \in Mappings |-> p] : p \in Ppn}
  /\ now = 1
  /\ uncached \in {{}, Kernel}
  /\ eager = [side \in Side |-> [k \in {} |-> 0]]

(* ---- FullyAssociativeTLB ----------------------------------------------- *)
DeferredInsert(tlb, key, ppn) == [tlb EXCEPT ![key] = [ts |-> now, ppn |-> ppn]]

Younger(tlb, key) == {k \in Keys(tlb) : tlb[k].ts > tlb[key].ts}

(* Mutant: one entry more than the associativity survives.                  *)
RunLruOneMore(tlb) ==
  [k \in Key |-> IF Cardinality(Younger(tlb, k)) <= L1Ways THEN tlb[k] ELSE Absent]

(* The entries no older than the one at the associativity's place in the    *)
(* order of timestamps.                                                     *)
RunLru(tlb) ==
  [k \in Key |-> IF Cardinality(Younger(tlb, k)) < L1Ways THEN tlb[k] ELSE Absent]

(* What the flush by address space takes for the owner of an entry: the     *)
(* mask 0x3FFFFF0000000 covers bits 27 to 36 of the page number and the low *)
(* twelve bits of the ASID, and a global entry carries ASID bits of zero.   *)
Owner(key) ==
  IF key[1] \in LowVpn /\ key[2] \in MaskedAsid \cup {Global} THEN Global
  ELSE IF key[2] = Global THEN Zero ELSE key[2]

Pages(mode) == mode.vpn..(mode.vpn + mode.count - 1)

Dropped(mode, key) ==
  CASE mode.kind = "All" -> TRUE
    [] mode.kind = "ByASID" -> Owner(key) = mode.asid
    [] mode.kind = "ByVPN" -> key[1] \in Pages(mode) /\ key[2] \in {Global, Zero}
    [] OTHER -> key[1] \in Pages(mode) /\ key[2] = mode.asid

FlushL1(tlb, mode) == [k \in Key |-> IF Dropped(mode, k) THEN Absent ELSE tlb[k]]

(* An L1 lookup finds a global entry of a user page as well.                *)
FoundKeys(tlb, vpn, a) ==
  Keys(tlb) \cap (IF vpn \in Kernel THEN {<<vpn, Global>>} ELSE {<<vpn, a>>, <<vpn, Global>>})

(* ---- translate_and_refill ---------------------------------------------- *)
HitL0(side, vpn) == side = "i" /\ l0[1] = vpn /\ l0[2] = asid
HitStlb(vpn) == Hits(stlb, vpn, asid)

NextL0(side, vpn, ppn) == IF side = "i" THEN <<vpn, asid, ppn>> ELSE l0

InsertL1(side, key, ppn) ==
  l1' = IF L1Enabled THEN [l1 EXCEPT ![side] = DeferredInsert(@, key, ppn)] ELSE l1

TranslateL0(side, vpn) ==
  /\ HitL0(side, vpn)
  /\ UNCHANGED <<l1, l0, stlb>>

TranslateStlb(side, vpn) ==
  /\ ~HitL0(side, vpn) /\ HitStlb(vpn)
  /\ LET e == Found(stlb, vpn, asid) IN
       /\ InsertL1(side, <<vpn, e.asid>>, e.ppn)
       /\ l0' = NextL0(side, vpn, e.ppn)
  /\ stlb' = Touch(stlb, vpn, asid, now)

(* The replacement runs in the L1 that is looked up.                        *)
TranslateL1(side, vpn) ==
  /\ ~HitL0(side, vpn) /\ ~HitStlb(vpn) /\ L1Enabled
  /\ LET tlb  == RunLru(l1[side])
         hits == FoundKeys(tlb, vpn, asid)
     IN /\ hits # {}
        /\ \E key \in hits :
             /\ l1' = [l1 EXCEPT ![side] = [tlb EXCEPT ![key].ts = now]]
             /\ l0' = NextL0(side, vpn, tlb[key].ppn)
  /\ UNCHANGED stlb

Walk(side, vpn) ==
  /\ vpn \notin uncached
  /\ ~HitL0(side, vpn) /\ ~HitStlb(vpn)
  /\ LET tlb == IF L1Enabled THEN RunLru(l1[side]) ELSE l1[side]
         ppn == pt[KeyOf(vpn)]
     IN /\ FoundKeys(tlb, vpn, asid) = {}
        /\ l1' = IF L1Enabled THEN [l1 EXCEPT ![side] = DeferredInsert(tlb, KeyOf(vpn), ppn)]
                 ELSE l1
        /\ l0' = NextL0(side, vpn, ppn)
        /\ stlb' = Insert(stlb, vpn, Space(vpn, asid), ppn, now)

(* A walk through memory that is not cacheable fills nothing.               *)
WalkUncached(side, vpn) ==
  /\ vpn \in uncached
  /\ ~HitL0(side, vpn) /\ ~HitStlb(vpn)
  /\ LET tlb == IF L1Enabled THEN RunLru(l1[side]) ELSE l1[side] IN
       /\ FoundKeys(tlb, vpn, asid) = {}
       /\ l1' = [l1 EXCEPT ![side] = tlb]
  /\ UNCHANGED <<l0, stlb>>

Recently(key, seen) ==
  LET used == [k \in DOMAIN seen \cup {key} |-> IF k = key THEN now ELSE seen[k]]
      kept == {k \in DOMAIN used : \/ Cardinality(DOMAIN used) <= L1Ways
                                   \/ \E j \in DOMAIN used : used[j] < used[k]}
  IN [k \in kept |-> used[k]]

TranslateAndRefill(side, vpn) ==
  /\ now <= MaxTime
  /\ now' = now + 1
  /\ UNCHANGED <<asid, pt, uncached>>
  /\ \/ /\ \/ TranslateL0(side, vpn)
           \/ TranslateStlb(side, vpn)
           \/ TranslateL1(side, vpn)
           \/ Walk(side, vpn)
        /\ eager' = [eager EXCEPT ![side] = Recently(KeyOf(vpn), @)]
     \/ /\ WalkUncached(side, vpn)
        /\ UNCHANGED eager

(* ---- flush ------------------------------------------------------------- *)
Covers(mode, m) ==
  CASE mode.kind = "All" -> TRUE
    [] mode.kind = "ByASID" -> m[2] = mode.asid
    [] mode.kind = "ByVPN" -> m[1] \in Pages(mode)
    [] OTHER -> m[1] \in Pages(mode) /\ m[2] = mode.asid

(* Mutant: the L0 is not flushed.                                           *)
FlushedL0Kept == l0

FlushedL0 == NoL0

(* The guest may change a mapping the flush covers, then flushes.           *)
FlushMMU(mode) ==
  /\ mode.kind \in FlushKinds
  /\ l0' = FlushedL0
  /\ l1' = [side \in Side |-> FlushL1(l1[side], mode)]
  /\ stlb' = Flush(stlb, mode)
  /\ eager' = [side \in Side |-> [k \in {k \in DOMAIN eager[side] : ~Dropped(mode, k)} |->
                                   eager[side][k]]]
  /\ UNCHANGED <<asid, now, uncached>>
  /\ pt' = pt \/ \E m \in Mappings :
                   /\ Covers(mode, m)
                   /\ \E p \in Ppn \ {pt[m]} : pt' = [pt EXCEPT ![m] = p]

SwitchTo(a) ==
  /\ asid' = a
  /\ UNCHANGED <<l1, l0, stlb, pt, now, uncached, eager>>

Next ==
  \/ \E side \in Side, vpn \in Vpn : TranslateAndRefill(side, vpn)
  \/ \E mode \in FlushModes : FlushMMU(mode)
  \/ \E a \in Asid : SwitchTo(a)

Spec == Init /\ [][Next]_vars

(* ---- properties -------------------------------------------------------- *)
TypeOK ==
  /\ l1 \in [Side -> [Key -> [ts : Nat, ppn : Ppn \cup {NoPpn}]]]
  /\ l0[1] \in Nat /\ l0[2] \in Asid \cup {Zero} /\ l0[3] \in Ppn \cup {NoPpn}
  /\ PointerBound(stlb)
  /\ asid \in Asid /\ pt \in [Mappings -> Ppn] /\ now \in Nat

(* Whatever process runs next, a hit in any level gives what a page walk    *)
(* would: the assertions on ARCH::translate_in_pt in translate_and_refill.  *)
HitsAgreeWithWalk ==
  \A vpn \in Vpn, a \in Asid :
    LET mapped == pt[<<vpn, Space(vpn, a)>>] IN
    /\ l0[1] = vpn /\ l0[2] = a /\ l0 # NoL0 => l0[3] = mapped
    /\ Hits(stlb, vpn, a) => Found(stlb, vpn, a).ppn = mapped
    /\ \A side \in Side : \A key \in FoundKeys(l1[side], vpn, a) : l1[side][key].ppn = mapped

(* Piling up insertions and replacing late keeps what an L1 that replaces   *)
(* at every insertion keeps, so that the checkpointed L1 is an LRU one;     *)
(* mmu/test.rs expects the same hits from both.                             *)
ReplacementIsLru ==
  L1Enabled => \A side \in Side : Keys(RunLru(l1[side])) = DOMAIN eager[side]

(* Together, what the translations of a core rest on.                       *)
Consistent == TypeOK /\ HitsAgreeWithWalk /\ ReplacementIsLru
=============================================================================
