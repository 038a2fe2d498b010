----------------------------- MODULE OrdinaryMMU -----------------------------
(* The MMU of one core (mmu/ordinary_mmu.rs), whose translations and        *)
(* flushes run on that core's own thread, under a guest operating system    *)
(* that changes page tables and flushes what it changed before the core     *)
(* uses it again.  Kernel pages are global, user pages belong to an ASID.   *)
(*                                                                          *)
(* A huge page is a page like any other to the guest; here it covers        *)
(* several page numbers.  A mapping is kept per page, so that a translation *)
(* is right exactly when it came from the mapping in force.                 *)
EXTENDS Tlb

CONSTANTS
  Kernel,       \* the page numbers above bit 51: is_kernel
  PageSize,     \* per page number "4KB", "2MB" or "1GB"
  RegionOf,     \* per page number the first one of its page
  L1Enabled, StlbEnabled, NoHugePage,  \* L1TLB_ENABLED, S_ENABLED, NO_HUGE_PAGE
  L1Ways, StlbWays, StlbSets,          \* I_T_ASSO = D_T_ASSO with one set; S_T_*
  FlushKinds,   \* the flushes the guest uses
  MaxTime       \* bound: the number of translations

(* A page is the kernel's or it is not, whatever its size.                  *)
ASSUME OrdinaryMMUAssumption ==
  /\ Kernel \subseteq Vpn /\ RegionOf \in [Vpn -> Vpn]
  /\ \A v \in Vpn : RegionOf[v] \in Kernel <=> v \in Kernel
  /\ PageSize \in [Vpn -> {"4KB", "2MB", "1GB"}]
  /\ {L1Enabled, StlbEnabled, NoHugePage} \subseteq BOOLEAN
  /\ {L1Ways, StlbWays, StlbSets} \subseteq Nat \ {0}

VARIABLES
  itlb, dtlb, stlb,    \* the TLBs
  huge,                \* htbl_2mb and htlb_1gb: per size and region an entry
  asid,                \* ARCH::get_asid(): the running process
  pt,                  \* the guest's page tables: per space and region a mapping
  now                  \* get_ts()

vars == <<itlb, dtlb, stlb, huge, asid, pt, now>>

HugeSize == {"2MB", "1GB"}
NoEntry == [asid |-> Global, ppn |-> NoPpn]
Space(vpn, a) == IF vpn \in Kernel THEN Global ELSE a
Mapped(vpn, a) == pt[<<Space(vpn, a), RegionOf[vpn]>>]
Regions == {RegionOf[v] : v \in Vpn}
Mappings == {<<Space(v, a), RegionOf[v]>> : v \in Vpn, a \in Asid}

Init ==
  /\ itlb = EmptyTlb(1, L1Ways) /\ dtlb = EmptyTlb(1, L1Ways)
  /\ stlb = EmptyTlb(StlbSets, StlbWays)
  /\ huge = [size \in HugeSize |-> [r \in Regions |-> NoEntry]]
  /\ asid \in Asid
  /\ pt \in {[x \in Mappings |-> p] : p \in Ppn}
  /\ now = 1

(* ---- refills ----------------------------------------------------------- *)
RefillL1(instr, vpn, a, ppn) ==
  IF L1Enabled
    THEN /\ itlb' = IF instr THEN Insert(itlb, vpn, a, ppn, now) ELSE itlb
         /\ dtlb' = IF instr THEN dtlb ELSE Insert(dtlb, vpn, a, ppn, now)
    ELSE UNCHANGED <<itlb, dtlb>>

Refill4K(instr, vpn, a, ppn) ==
  /\ RefillL1(instr, vpn, a, ppn)
  /\ stlb' = IF StlbEnabled THEN Insert(stlb, vpn, a, ppn, now) ELSE stlb

L1(instr) == IF instr THEN itlb ELSE dtlb

HitL1(instr, vpn) == L1Enabled /\ Hits(L1(instr), vpn, asid)
HitStlb(vpn) == StlbEnabled /\ Hits(stlb, vpn, asid)
HitHuge(size, vpn) ==
  LET e == huge[size][RegionOf[vpn]] IN
  ~NoHugePage /\ PageSize[vpn] = size /\ e.ppn # NoPpn /\ e.asid \in {Global, asid}

(* ---- translate_and_refill ---------------------------------------------- *)
TranslateL1(instr, vpn) ==
  /\ HitL1(instr, vpn)
  /\ itlb' = IF instr THEN Touch(itlb, vpn, asid, now) ELSE itlb
  /\ dtlb' = IF instr THEN dtlb ELSE Touch(dtlb, vpn, asid, now)
  /\ UNCHANGED <<stlb, huge>>

(* The L1 gets the entry under the running process, also a global one.      *)
TranslateStlb(instr, vpn) ==
  /\ ~HitL1(instr, vpn) /\ HitStlb(vpn)
  /\ stlb' = Touch(stlb, vpn, asid, now)
  /\ RefillL1(instr, vpn, asid, Found(stlb, vpn, asid).ppn)
  /\ UNCHANGED huge

TranslateHuge(instr, vpn) ==
  /\ ~HitL1(instr, vpn) /\ ~HitStlb(vpn)
  /\ \E size \in HugeSize : HitHuge(size, vpn)
  /\ UNCHANGED <<itlb, dtlb, stlb, huge>>

(* The page walk, external, finds the mapping in force.                     *)
Walk(instr, vpn) ==
  /\ ~HitL1(instr, vpn) /\ ~HitStlb(vpn)
  /\ \A size \in HugeSize : ~HitHuge(size, vpn)
  /\ IF NoHugePage \/ PageSize[vpn] = "4KB"
       THEN /\ Refill4K(instr, vpn, Space(vpn, asid), Mapped(vpn, asid))
            /\ UNCHANGED huge
       ELSE /\ huge' = [huge EXCEPT ![PageSize[vpn]][RegionOf[vpn]] =
                         [asid |-> Space(vpn, asid), ppn |-> Mapped(vpn, asid)]]
            /\ UNCHANGED <<itlb, dtlb, stlb>>

TranslateAndRefill(instr, vpn) ==
  /\ now <= MaxTime
  /\ \/ TranslateL1(instr, vpn)
     \/ TranslateStlb(instr, vpn)
     \/ TranslateHuge(instr, vpn)
     \/ Walk(instr, vpn)
  /\ now' = now + 1
  /\ UNCHANGED <<asid, pt>>

(* ---- flush ------------------------------------------------------------- *)
(* Mutant: the huge TLBs keep what the mode does not name.                  *)
FlushedHugeKept(mode) ==
  IF NoHugePage \/ mode.kind # "All" THEN huge
  ELSE [size \in HugeSize |-> [r \in Regions |-> NoEntry]]

(* Huge entries are flushed blindly.                                        *)
FlushedHuge(mode) ==
  IF NoHugePage THEN huge ELSE [size \in HugeSize |-> [r \in Regions |-> NoEntry]]

(* The mappings a flush covers: whole pages of the spaces it names.         *)
Covers(mode, space, region) ==
  LET named == mode.vpn..(mode.vpn + mode.count - 1)
      whole == {v \in Vpn : RegionOf[v] = region} \subseteq named
  IN CASE mode.kind = "All" -> TRUE
       [] mode.kind = "ByASID" -> space = mode.asid
       [] mode.kind = "ByVPN" -> whole
       [] OTHER -> whole /\ space = mode.asid

(* The guest may change a mapping the flush covers, then flushes.           *)
FlushMMU(mode) ==
  /\ mode.kind \in FlushKinds
  /\ huge' = FlushedHuge(mode)
  /\ itlb' = IF L1Enabled THEN Flush(itlb, mode) ELSE itlb
  /\ dtlb' = IF L1Enabled THEN Flush(dtlb, mode) ELSE dtlb
  /\ stlb' = IF StlbEnabled THEN Flush(stlb, mode) ELSE stlb
  /\ UNCHANGED <<asid, now>>
  /\ pt' = pt \/ \E m \in Mappings :
                   /\ Covers(mode, m[1], m[2])
                   /\ \E p \in Ppn \ {pt[m]} : pt' = [pt EXCEPT ![m] = p]

(* The guest switches to another process without any flush.                 *)
SwitchTo(a) ==
  /\ asid' = a
  /\ UNCHANGED <<itlb, dtlb, stlb, huge, pt, now>>

Next ==
  \/ \E instr \in BOOLEAN, vpn \in Vpn : TranslateAndRefill(instr, vpn)
  \/ \E mode \in FlushModes : FlushMMU(mode)
  \/ \E a \in Asid : SwitchTo(a)

Spec == Init /\ [][Next]_vars

(* ---- properties -------------------------------------------------------- *)
TypeOK ==
  /\ \A tlb \in {itlb, dtlb, stlb} :
       \A s \in DOMAIN tlb, w \in DOMAIN tlb[0].way : tlb[s].way[w] \in Entry
  /\ PointerBound(itlb) /\ PointerBound(dtlb) /\ PointerBound(stlb)
  /\ huge \in [HugeSize -> [Regions -> [asid : Asid \cup {Global}, ppn : Ppn \cup {NoPpn}]]]
  /\ asid \in Asid
  /\ pt \in [Mappings -> Ppn]
  /\ now \in Nat

(* Whatever process runs next, every entry of a TLB that answers for a page *)
(* gives what a page walk would, so that the order of the ways never        *)
(* decides: assert_eq!(pa, ARCH::translate_in_pt(va)), ordinary_mmu.rs:187. *)
HitsAgreeWithWalk ==
  \A vpn \in Vpn, a \in Asid :
    /\ \A tlb \in {itlb, dtlb, stlb} : \A w \in MatchingWays(tlb, vpn, a) :
         tlb[SetOf(tlb, vpn)].way[w].ppn = Mapped(vpn, a)
    /\ \A size \in HugeSize :
         LET e == huge[size][RegionOf[vpn]] IN
         PageSize[vpn] = size /\ e.ppn # NoPpn /\ e.asid \in {Global, a}
           => e.ppn = Mapped(vpn, a)

(* No TLB holds a page of an address space twice, and at the second level   *)
(* no two entries serve one process.  At the first level two may: a kernel  *)
(* page that comes from the second level is filed under the running process *)
(* (ordinary_mmu.rs:195) and serves no other, which walks and files it as   *)
(* global beside it.                                                        *)
NoDuplicates == NoTwins(itlb) /\ NoTwins(dtlb) /\ NoTwins(stlb) /\ OneMatch(stlb)

(* Together, what the translations of a core rest on.                       *)
Consistent == TypeOK /\ HitsAgreeWithWalk /\ NoDuplicates

(* What a translation evicts from a set is the least recently used entry,   *)
(* and only when no way of the set is free: the TLB is filled like the      *)
(* hardware it warms, also after flushes.                                   *)
EvictsLru(tlb, next) ==
  \A s \in DOMAIN tlb, w \in DOMAIN tlb[0].way :
    LET old == tlb[s].way[w]
        new == next[s].way[w]
    IN old.valid /\ <<old.vpn, old.asid>> # <<new.vpn, new.asid>>
         => \A x \in DOMAIN tlb[s].way : tlb[s].way[x].valid /\ tlb[s].way[x].ts >= old.ts
LruStep ==
  now' # now => EvictsLru(itlb, itlb') /\ EvictsLru(dtlb, dtlb') /\ EvictsLru(stlb, stlb')
EvictionIsLru == [][LruStep]_vars
=============================================================================
