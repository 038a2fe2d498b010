---------------------------- MODULE SmsPrefetcher ----------------------------
(* The spatial-pattern prefetcher of the parallel hierarchy (common/sms and *)
(* its callers in access_logic.rs).  Each core has a filter table, an       *)
(* accumulation table and a pattern history table, each behind locks of its *)
(* own, and a set of prefetched blocks with its statistics.  A core's       *)
(* thread records into its own tables; any thread whose access replaces or  *)
(* invalidates a line of a core ends the generation of the line's region in *)
(* that core's tables.  One action is one critical section.                 *)
(*                                                                          *)
(* Timestamps only choose the least recently used entry of a full table;    *)
(* here any entry may be the one.  The history table is one set.            *)
EXTENDS Integers, FiniteSets

CONSTANTS
  Core, Pc, Region,
  NBlk,                 \* N_BLK: blocks of a region
  NFilter, NAcc,        \* N_FILTER, N_ACC: entries of the tables
  PhtWays,              \* PHT_WAYS
  Rot, SepRdWr, SatCnt, \* ROT, SEP_RDWR, SAT_CNT
  Op,                   \* the kinds of demand access: "read", "write"
  MaxAccesses,          \* bound: accesses altogether
  MaxEvicts             \* bound: lines one access takes from private caches

ASSUME TableAssumption == {NBlk, NFilter, NAcc, PhtWays} \subseteq Nat \ {0}
ASSUME FlagAssumption == {Rot, SepRdWr, SatCnt} \subseteq BOOLEAN
ASSUME OpAssumption == Op \subseteq {"read", "write"}

Offset == 0..(NBlk - 1)
Block == Region \X Offset
PatternType == IF SepRdWr THEN {"read", "write"} ELSE {"access"}

VARIABLES
  filter,   \* per core the entries of its FilterTable
  acc,      \* per core the entries of its AccTable
  pht,      \* per core the valid entries of its PHT
  pf,       \* pf_blocks: per core the prefetched blocks not yet accounted
  stats,    \* pf_stats: per core prefetches, useless ones, useful ones
  thread,   \* per core what its thread is doing
  started,  \* accesses begun so far
  seen      \* history: per core the (pc, block) pairs it accessed

tables == <<filter, acc, pht>>
vars == <<filter, acc, pht, pf, stats, thread, started, seen>>

FilterEntry == [region : Region, pc : Pc, offset : Offset, op : {"read", "write"}]
Pattern == [Offset -> {"none", "read", "write"}]
AccEntry == [region : Region, pc : Pc, offset : Offset, pattern : Pattern]

Idle == [at |-> "idle"]

Init ==
  /\ filter = [c \in Core |-> {}] /\ acc = [c \in Core |-> {}]
  /\ pht = [c \in Core |-> {}]
  /\ pf = [c \in Core |-> {}]
  /\ stats = [c \in Core |-> [total |-> 0, useless |-> 0, useful |-> 0]]
  /\ thread = [c \in Core |-> Idle]
  /\ started = 0
  /\ seen = [c \in Core |-> {}]

At(t, label) == thread[t].at = label
GoTo(t, label) == thread' = [thread EXCEPT ![t].at = label]

Of(table, region) == {e \in table : e.region = region}

(* Insertion into a table of at most n entries, any of which may be the     *)
(* oldest.                                                                  *)
Inserted(table, entry, n) ==
  IF Cardinality(table) < n THEN {table \cup {entry}}
  ELSE {(table \ {old}) \cup {entry} : old \in table}

(* ---- the pattern history table ----------------------------------------- *)
(* Mutant: the key of an entry is the program counter alone.                *)
KeyWithoutOffset(pc, offset) == [pc |-> pc, offset |-> 0]

Key(pc, offset) == [pc |-> pc, offset |-> IF Rot THEN 0 ELSE offset]

RotatedLeft(f, n) == [o \in Offset |-> f[(o + n) % NBlk]]
RotatedRight(f, n) == [o \in Offset |-> f[(o - n) % NBlk]]

(* Which offsets an accumulated entry has touched, as a history entry keeps *)
(* them: rotated to the first one if ROT.                                   *)
Touched(entry, type) ==
  LET bit == [o \in Offset |-> IF type = "access" THEN entry.pattern[o] # "none"
                               ELSE entry.pattern[o] = type]
  IN IF Rot THEN RotatedLeft(bit, entry.offset) ELSE bit

Fresh(entry) ==
  [type \in PatternType |-> [o \in Offset |-> IF Touched(entry, type)[o] THEN 2 ELSE 1]]

Trained(counters, entry) ==
  [type \in PatternType |-> [o \in Offset |->
     LET bit == Touched(entry, type)[o]
         n   == counters[type][o]
     IN CASE ~SatCnt -> IF bit THEN 2 ELSE 1
          [] SatCnt /\ bit -> IF n < 3 THEN n + 1 ELSE n
          [] SatCnt /\ ~bit -> IF n > 0 THEN n - 1 ELSE n]]

(* PHTSet::insert of what a generation accumulated.                         *)
Learn(c, entry) ==
  LET key  == Key(entry.pc, entry.offset)
      same == {e \in pht[c] : e.key = key}
  IN IF same # {}
       THEN pht' = [pht EXCEPT ![c] =
              (@ \ same) \cup {[e EXCEPT !.counters = Trained(@, entry)] : e \in same}]
       ELSE \E table \in Inserted(pht[c], [key |-> key, counters |-> Fresh(entry)], PhtWays) :
              pht' = [pht EXCEPT ![c] = table]

(* PHTPerCore::lookup: the offsets predicted for a request.                 *)
Predicted(c, pc, offset, op) ==
  UNION {LET type == IF SepRdWr THEN op ELSE "access"
             bit  == [o \in Offset |-> e.counters[type][o] >= 2]
             at   == IF Rot THEN RotatedRight(bit, offset) ELSE bit
         IN {o \in Offset : at[o]}
         : e \in {x \in pht[c] : x.key = Key(pc, offset)}}

(* ---- an access of a core's thread -------------------------------------- *)
(* Mutant: a useful prefetch stays in the set.                              *)
UsedKept(t, block) == pf[t]

Used(t, block) == pf[t] \ {block}

(* A core enters the hierarchy; instruction fetches leave all this alone.   *)
Enter(t, block, phase, request) ==
  /\ At(t, "idle") /\ started < MaxAccesses
  /\ started' = started + 1
  /\ pf' = [pf EXCEPT ![t] = Used(t, block)]
  /\ stats' = [stats EXCEPT ![t].useful = IF block \in pf[t] THEN @ + 1 ELSE @]
  /\ thread' = [thread EXCEPT ![t] =
       [at |-> "accessing", phase |-> phase, block |-> block, request |-> request,
        todo |-> {}, count |-> 0, entry |-> {}, victim |-> <<>>, evicts |-> 0]]
  /\ UNCHANGED tables

StartAccess(t, op, pc, block) ==
  /\ Enter(t, block, "demand", [op |-> op, pc |-> pc])
  /\ seen' = [seen EXCEPT ![t] = @ \cup {<<pc, block>>}]

StartWalk(t, block) ==
  /\ Enter(t, block, "walk", <<>>)
  /\ UNCHANGED seen

(* A page walk's access is over; nothing follows it.                        *)
FinishWalk(t) ==
  /\ At(t, "accessing") /\ thread[t].phase = "walk"
  /\ thread' = [thread EXCEPT ![t] = Idle]
  /\ UNCHANGED <<tables, pf, stats, started, seen>>

(* ---- prefetch_blocks, after a demand access ---------------------------- *)
LookupPattern(t) ==
  /\ At(t, "accessing") /\ thread[t].phase = "demand"
  /\ LET r == thread[t]
         hits == Predicted(t, r.request.pc, r.block[2], r.request.op)
     IN thread' = [thread EXCEPT ![t] =
          [@ EXCEPT !.at = "prefetching", !.phase = "prefetch", !.evicts = 0,
                    !.todo = {<<r.block[1], o>> : o \in hits} \ {r.block}]]
  /\ UNCHANGED <<tables, pf, stats, started, seen>>

(* Before the first prefetch's access, between two, or after the last.      *)
BetweenPrefetches(t) ==
  \/ At(t, "prefetching")
  \/ At(t, "accessing") /\ thread[t].phase = "prefetch"

Prefetch(t) ==
  /\ BetweenPrefetches(t)
  /\ LET r == thread[t] IN \E block \in r.todo :
       /\ \A other \in r.todo : block[2] <= other[2]
       /\ pf' = [pf EXCEPT ![t] = @ \cup {block}]
       /\ thread' = [thread EXCEPT ![t] =
            [r EXCEPT !.at = "accessing", !.todo = r.todo \ {block},
                      !.count = r.count + 1, !.evicts = 0]]
  /\ UNCHANGED <<tables, stats, started, seen>>

CountPrefetches(t) ==
  /\ BetweenPrefetches(t) /\ thread[t].todo = {}
  /\ stats' = [stats EXCEPT ![t].total = @ + thread[t].count]
  /\ thread' = [thread EXCEPT ![t] = [@ EXCEPT !.at = "recording", !.count = 0, !.evicts = 0]]
  /\ UNCHANGED <<tables, pf, started, seen>>

(* ---- record_access: AGTPerCore::record --------------------------------- *)
(* AccTable::poke_and_update: a block keeps the kind of its first access.   *)
Extended(e, offset, op) == [e EXCEPT !.pattern[offset] = IF @ = "none" THEN op ELSE @]

PokeAcc(t) ==
  /\ At(t, "recording")
  /\ LET r == thread[t]
         hit == Of(acc[t], r.block[1])
     IN /\ acc' = [acc EXCEPT ![t] = (@ \ hit) \cup
              {Extended(e, r.block[2], r.request.op) : e \in hit}]
        /\ thread' = [thread EXCEPT ![t] =
             IF hit # {} THEN Idle ELSE [@ EXCEPT !.at = "filtering"]]
  /\ UNCHANGED <<filter, pht, pf, stats, started, seen>>

(* Mutant: a promoted entry also stays in the filter table.                 *)
FilterAfterPromotionKept(t, hit) == filter[t]

FilterAfterPromotion(t, hit) == filter[t] \ hit

(* Mutant: a promoted entry gets the program counter of the second access.  *)
PromotedByLast(r, e) ==
  [region |-> e.region, pc |-> r.request.pc, offset |-> e.offset,
   pattern |-> [o \in Offset |-> CASE o = r.block[2] -> r.request.op
                                   [] o = e.offset -> e.op
                                   [] OTHER -> "none"]]

Promoted(r, e) ==
  [region |-> e.region, pc |-> e.pc, offset |-> e.offset,
   pattern |-> [o \in Offset |-> CASE o = r.block[2] -> r.request.op
                                   [] o = e.offset -> e.op
                                   [] OTHER -> "none"]]

(* FilterTable::poke_and_update: the second block of a region promotes it.  *)
PokeFilter(t) ==
  LET r   == thread[t]
      hit == Of(filter[t], r.block[1])
      new == [region |-> r.block[1], pc |-> r.request.pc, offset |-> r.block[2],
              op |-> r.request.op]
  IN
  /\ At(t, "filtering")
  /\ \/ /\ \E e \in hit : e.offset # r.block[2]
        /\ filter' = [filter EXCEPT ![t] = FilterAfterPromotion(t, hit)]
        /\ thread' = [thread EXCEPT ![t] =
             [@ EXCEPT !.at = "promoting", !.entry = {Promoted(r, e) : e \in hit}]]
     \/ /\ \A e \in hit : e.offset = r.block[2]
        /\ \E table \in Inserted(filter[t] \ hit, new, NFilter) :
             filter' = [filter EXCEPT ![t] = table]
        /\ thread' = [thread EXCEPT ![t] = Idle]
  /\ UNCHANGED <<acc, pht, pf, stats, started, seen>>

(* AccTable::insert; the entry it evicts is learnt.                         *)
Promote(t) ==
  /\ At(t, "promoting")
  /\ \E table \in Inserted(acc[t], CHOOSE e \in thread[t].entry : TRUE, NAcc) :
       /\ acc' = [acc EXCEPT ![t] = table]
       /\ LET evicted == acc[t] \ table IN
          thread' = [thread EXCEPT ![t] =
            IF evicted = {} THEN Idle ELSE [@ EXCEPT !.at = "learning", !.entry = evicted]]
  /\ UNCHANGED <<filter, pht, pf, stats, started, seen>>

LearnEvicted(t) ==
  /\ At(t, "learning")
  /\ \E entry \in thread[t].entry : Learn(t, entry)
  /\ thread' = [thread EXCEPT ![t] = Idle]
  /\ UNCHANGED <<filter, acc, pf, stats, started, seen>>

(* ---- evict_sms, inside an access of any thread ------------------------- *)
(* Mutant: a useless prefetch stays in the set.                             *)
UselessKept(c, block) == pf[c]

Useless(c, block) == pf[c] \ {block}

(* The line the access may replace, or one it invalidates: in any cache, of *)
(* any block, its own core's instruction cache included.                    *)
StartEvict(t, c, block) ==
  /\ At(t, "accessing") /\ thread[t].evicts < MaxEvicts
  /\ pf' = [pf EXCEPT ![c] = Useless(c, block)]
  /\ stats' = [stats EXCEPT ![c].useless = IF block \in pf[c] THEN @ + 1 ELSE @]
  /\ thread' = [thread EXCEPT ![t] =
       [@ EXCEPT !.at = "evicting_filter", !.victim = <<c, block>>,
                 !.evicts = thread[t].evicts + 1]]
  /\ UNCHANGED <<tables, started, seen>>

EvictFilter(t) ==
  /\ At(t, "evicting_filter")
  /\ LET c == thread[t].victim[1] IN
     filter' = [filter EXCEPT ![c] = @ \ Of(@, thread[t].victim[2][1])]
  /\ GoTo(t, "evicting_acc")
  /\ UNCHANGED <<acc, pht, pf, stats, started, seen>>

EvictAcc(t) ==
  /\ At(t, "evicting_acc")
  /\ LET victim == thread[t].victim
         hit == Of(acc[victim[1]], victim[2][1])
     IN /\ acc' = [acc EXCEPT ![victim[1]] = @ \ hit]
        /\ thread' = [thread EXCEPT ![t] =
             [@ EXCEPT !.at = IF hit = {} THEN "accessing" ELSE "evicting_learn",
                       !.entry = hit, !.victim = IF hit = {} THEN <<>> ELSE victim]]
  /\ UNCHANGED <<filter, pht, pf, stats, started, seen>>

EvictLearn(t) ==
  /\ At(t, "evicting_learn")
  /\ \E entry \in thread[t].entry : Learn(thread[t].victim[1], entry)
  /\ thread' = [thread EXCEPT ![t] = [@ EXCEPT !.at = "accessing", !.entry = {}, !.victim = <<>>]]
  /\ UNCHANGED <<filter, acc, pf, stats, started, seen>>

Next ==
  \E t \in Core :
    \/ \E op \in Op, pc \in Pc, block \in Block : StartAccess(t, op, pc, block)
    \/ \E block \in Block : StartWalk(t, block)
    \/ FinishWalk(t)
    \/ LookupPattern(t) \/ Prefetch(t) \/ CountPrefetches(t)
    \/ PokeAcc(t) \/ PokeFilter(t) \/ Promote(t) \/ LearnEvicted(t)
    \/ \E c \in Core, block \in Block : StartEvict(t, c, block)
    \/ EvictFilter(t) \/ EvictAcc(t) \/ EvictLearn(t)

(* The bound on accesses is reached and every thread is back.               *)
Halted ==
  /\ started = MaxAccesses /\ \A t \in Core : At(t, "idle")
  /\ UNCHANGED vars

Spec == Init /\ [][Next \/ Halted]_vars

(* ---- properties -------------------------------------------------------- *)
(* Tables hold at most their number of entries and one per region or key:   *)
(* what the hash maps and the capacity tests of the code amount to.         *)
TypeOK ==
  \A c \in Core :
    /\ filter[c] \subseteq FilterEntry /\ Cardinality(filter[c]) <= NFilter
    /\ acc[c] \subseteq AccEntry /\ Cardinality(acc[c]) <= NAcc
    /\ Cardinality(pht[c]) <= PhtWays
    /\ \A e \in pht[c] : e.counters \in [PatternType -> [Offset -> 0..3]]
    /\ \A e, f \in pht[c] : e.key = f.key => e = f
    /\ \A e, f \in filter[c] : e.region = f.region => e = f
    /\ pf[c] \subseteq Block

(* A region's generation is in one place: the filter table, the             *)
(* accumulation table, or in the core's hands on its way from the first to  *)
(* the second; otherwise one access would be learnt twice.                  *)
OneGeneration ==
  TypeOK /\ \A c \in Core, region \in Region :
    Cardinality(Of(filter[c], region)) + Cardinality(Of(acc[c], region))
      + (IF At(c, "promoting") THEN Cardinality(Of(thread[c].entry, region)) ELSE 0) <= 1

(* Every prefetch is accounted at most once: the useless, the useful and    *)
(* the pending ones of a core are no more than it issued, although other    *)
(* threads judge them while it is still issuing.                            *)
PrefetchesAccounted ==
  \A c \in Core :
    stats[c].useless + stats[c].useful + Cardinality(pf[c])
      <= stats[c].total + (IF thread[c] = Idle THEN 0 ELSE thread[c].count)

(* A pattern predicts only blocks the core did touch in some region that it *)
(* also entered through the pattern's trigger.                              *)
PredictionsSeen ==
  \A c \in Core : \A e \in pht[c], type \in PatternType, o \in Offset :
    e.counters[type][o] >= 2 =>
      \E region \in Region, first \in Offset :
        /\ Rot \/ first = e.key.offset
        /\ <<e.key.pc, <<region, first>>>> \in seen[c]
        /\ \E pc \in Pc :
             <<pc, <<region, IF Rot THEN (o + first) % NBlk ELSE o>>>> \in seen[c]
=============================================================================
