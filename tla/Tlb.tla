--------------------------------- MODULE Tlb ---------------------------------
(* The set-associative TLB of mmu/tlb.rs as operators on values: a TLB is a *)
(* function from set indices to sets, a set holds ways and the fill pointer *)
(* current_pointer, which only grows.                                       *)
EXTENDS Integers, FiniteSets

CONSTANTS
  Asid,       \* address space identifiers of the guest's processes
  Vpn,        \* virtual page numbers
  Ppn         \* what a page may be mapped to

Global == "global"
NoPpn == "none"

ASSUME VpnAssumption == Vpn \subseteq Nat
ASSUME NamesAssumption == Global \notin Asid /\ NoPpn \notin Ppn

Entry == [valid : BOOLEAN, ts : Nat, asid : Asid \cup {Global}, vpn : Nat,
          ppn : Ppn \cup {NoPpn}]

(* TLBSet::new: an entry never filled is global and carries page zero.      *)
EmptyEntry == [valid |-> FALSE, ts |-> 0, asid |-> Global, vpn |-> 0, ppn |-> NoPpn]
EmptySet(ways) == [way |-> [w \in 1..ways |-> EmptyEntry], pointer |-> 0]
EmptyTlb(sets, ways) == [s \in 0..(sets - 1) |-> EmptySet(ways)]

SetOf(tlb, vpn) == vpn % Cardinality(DOMAIN tlb)
Least(S) == CHOOSE i \in S : \A j \in S : i <= j

(* Mutant: a global entry does not serve the other address spaces.          *)
MatchesOwnAsid(e, vpn, asid) == e.valid /\ e.vpn = vpn /\ e.asid = asid

(* AddressSpaceID::check: a global entry serves every address space.        *)
Matches(e, vpn, asid) ==
  e.valid /\ e.vpn = vpn /\ (e.asid = Global \/ e.asid = asid)

MatchingWays(tlb, vpn, asid) ==
  LET ways == tlb[SetOf(tlb, vpn)].way IN {w \in DOMAIN ways : Matches(ways[w], vpn, asid)}

Hits(tlb, vpn, asid) == MatchingWays(tlb, vpn, asid) # {}

(* The entry a lookup or a peek returns: the first that matches.            *)
Found(tlb, vpn, asid) ==
  tlb[SetOf(tlb, vpn)].way[Least(MatchingWays(tlb, vpn, asid))]

(* A hit refreshes the timestamp.                                           *)
Touch(tlb, vpn, asid, ts) ==
  [tlb EXCEPT ![SetOf(tlb, vpn)].way[Least(MatchingWays(tlb, vpn, asid))].ts = ts]

(* The first way with the least timestamp, valid or not.                    *)
Victim(ways) ==
  Least({w \in DOMAIN ways : \A x \in DOMAIN ways : ways[w].ts <= ways[x].ts})

(* TLBSet::insert: ways never used first, in order, then the victim.        *)
InsertInSet(set, entry) ==
  IF set.pointer < Cardinality(DOMAIN set.way)
    THEN [way |-> [set.way EXCEPT ![set.pointer + 1] = entry], pointer |-> set.pointer + 1]
    ELSE [set EXCEPT !.way[Victim(set.way)] = entry]

Insert(tlb, vpn, asid, ppn, ts) ==
  [tlb EXCEPT ![SetOf(tlb, vpn)] =
    InsertInSet(@, [valid |-> TRUE, ts |-> ts, asid |-> asid, vpn |-> vpn, ppn |-> ppn])]

(* Mutant: an invalidated entry keeps its timestamp.                        *)
InvalidatedKeepsTs(e) == [e EXCEPT !.valid = FALSE]

Invalidated(e) == [e EXCEPT !.valid = FALSE, !.ts = 0]

FlushAll(tlb) ==
  [s \in DOMAIN tlb |->
    [tlb[s] EXCEPT !.way = [w \in DOMAIN tlb[s].way |-> Invalidated(tlb[s].way[w])]]]

FlushAsid(tlb, asid) ==
  [s \in DOMAIN tlb |->
    [tlb[s] EXCEPT !.way =
      [w \in DOMAIN tlb[s].way |->
        IF tlb[s].way[w].asid = asid THEN Invalidated(tlb[s].way[w]) ELSE tlb[s].way[w]]]]

(* The flush of one page stops at the first way that carries it, valid or   *)
(* not.                                                                     *)
FlushFirst(tlb, vpn, asids) ==
  LET s    == SetOf(tlb, vpn)
      hit  == {w \in DOMAIN tlb[s].way :
                 tlb[s].way[w].vpn = vpn /\ tlb[s].way[w].asid \in asids}
  IN IF hit = {} THEN tlb
     ELSE [tlb EXCEPT ![s].way[Least(hit)] = Invalidated(@)]

(* The pages of a range, one after the other.                               *)
FlushPages(tlb, first, count, asids) ==
  LET flush[n \in 0..count] ==
        IF n = 0 THEN tlb ELSE FlushFirst(flush[n - 1], first + n - 1, asids)
  IN flush[count]

(* MMUFlushMode, as the four modes of the flush callback.                   *)
FlushModes ==
  [kind : {"All"}] \cup [kind : {"ByASID"}, asid : Asid]
  \cup [kind : {"ByVPN"}, vpn : Vpn, count : 1..2]
  \cup [kind : {"ByVPNAndASID"}, vpn : Vpn, count : 1..2, asid : Asid]

Flush(tlb, mode) ==
  CASE mode.kind = "All" -> FlushAll(tlb)
    [] mode.kind = "ByASID" -> FlushAsid(tlb, mode.asid)
    [] mode.kind = "ByVPN" -> FlushPages(tlb, mode.vpn, mode.count, Asid \cup {Global})
    [] OTHER -> FlushPages(tlb, mode.vpn, mode.count, {mode.asid})

(* ---- what the parts of this module promise ----------------------------- *)
(* No two entries are of one page and one address space.                    *)
NoTwins(tlb) ==
  \A s \in DOMAIN tlb : \A w, x \in {y \in DOMAIN tlb[s].way : tlb[s].way[y].valid} :
    LET a == tlb[s].way[w]
        b == tlb[s].way[x]
    IN a.vpn = b.vpn /\ a.asid = b.asid => w = x

(* No two entries answer for one page of one address space.                 *)
OneMatch(tlb) ==
  \A s \in DOMAIN tlb : \A w, x \in {y \in DOMAIN tlb[s].way : tlb[s].way[y].valid} :
    LET a == tlb[s].way[w]
        b == tlb[s].way[x]
    IN a.vpn = b.vpn /\ (a.asid = b.asid \/ a.asid = Global) => w = x

(* Used ways are below the pointer; ways above it were never filled.        *)
PointerBound(tlb) ==
  \A s \in DOMAIN tlb :
    /\ tlb[s].pointer \in 0..Cardinality(DOMAIN tlb[s].way)
    /\ \A w \in DOMAIN tlb[s].way : w > tlb[s].pointer => tlb[s].way[w] = EmptyEntry
=============================================================================
