--------------------------- MODULE LRUSharedCache ---------------------------
(* The shared cache, slot by slot (common/shared_cache).  A set is an array *)
(* of slots, each with the time of its last use; a slot without a block has *)
(* time zero.  Cores call in from their own threads and each brings its own *)
(* time, so times need not grow.  Every operation is one step under the     *)
(* lock of its set, but for invalidate, which takes that lock twice, and    *)
(* for the counter of warm sets, which is increased after the unlock.       *)
(* Several caches of different sizes may be driven by the same calls, as    *)
(* the tests of resizing do.                                                *)
EXTENDS Integers, Sequences, FiniteSets, FiniteSetsExt

CONSTANTS
  Cache, Sets, Ways,   \* caches with their number of sets and ways
  Block, Exclusive,    \* SHARED_CACHE_EXCLUSIVE
  Width,               \* times are told apart by their low half: 2^32
  Workers,             \* CHECKPOINT_POOL_SIZE
  Workloads            \* guests: the caches used, the threads that call, the calls, blocks
                       \* and times, whether the times only grow, and whether a checkpoint
                       \* is taken
NoBlock == -1

ASSUME CacheAssumption ==
  /\ Block \subseteq Nat /\ Width \in Nat \ {0} /\ Workers \in Nat \ {0} /\ Exclusive \in BOOLEAN
  /\ Sets \in [Cache -> Nat \ {0}] /\ Ways \in [Cache -> Nat \ {0}]
  /\ \A g \in Workloads : g.times \subseteq Nat \ {0} /\ g.blocks \subseteq Block /\ g.caches \subseteq Cache
                          /\ g.threads \in Nat \ {0}

VARIABLES
  guest,
  sets,          \* per cache and index: the slots and touched_count
  invalidating,  \* blocks and times of the stores between the two locks of invalidate
  counting,      \* threads that have warmed a set but not yet counted it
  warmed,        \* warmed_sets
  now,           \* the latest time of a call so far
  reply,         \* what the last call returned
  panicked,
  files,         \* the shards of a checkpoint, or <<>>
  restored, loaded   \* the cache of the process that loads them, and how many it has loaded

checkpointVars == <<files, restored, loaded>>
vars == <<guest, sets, invalidating, counting, warmed, now, reply, panicked, checkpointVars>>

Slot == [block : Block \union {NoBlock}, ts : Nat, dirty : BOOLEAN]
Empty == [block |-> NoBlock, ts |-> 0, dirty |-> FALSE]
NewSet(c) == [slot |-> [i \in 1..Ways[c] |-> Empty], touched |-> 0]
NewSets(c) == [i \in 0..Sets[c] - 1 |-> NewSet(c)]
SetOf(c, b) == b % Sets[c]

Init ==
  /\ guest \in Workloads
  /\ sets = [c \in Cache |-> NewSets(c)]
  /\ invalidating = {} /\ counting = [c \in Cache |-> 0] /\ warmed = [c \in Cache |-> 0]
  /\ now = 0 /\ reply = [kind |-> "none"] /\ panicked = FALSE
  /\ files = <<>> /\ restored = [c \in Cache |-> NewSets(c)] /\ loaded = 0

(* index_of: the slots with a block (one at most, see NoDuplicates).        *)
IndexOf(s, b) == {i \in DOMAIN s.slot : s.slot[i].block = b}

(* The slot insert replaces.                                                *)
(* Mutant: the search starts from time zero, as that of lookup_and_insert.  *)
OldestFirst(s) == Max({1} \union {i \in DOMAIN s.slot : s.slot[i].ts = 0})

(* Mutant: of the slots with the smallest time, the last.                   *)
OldestLast(s) ==
  CHOOSE i \in DOMAIN s.slot :
    \A j \in DOMAIN s.slot : s.slot[i].ts < s.slot[j].ts \/ (s.slot[i].ts = s.slot[j].ts /\ i >= j)

Oldest(s) ==
  CHOOSE i \in DOMAIN s.slot :
    \A j \in DOMAIN s.slot : s.slot[i].ts < s.slot[j].ts \/ (s.slot[i].ts = s.slot[j].ts /\ i <= j)

(* lookup_and_insert fills a cold set slot by slot.  In a warm one it looks *)
(* for the slot with the smallest time, but starts from time zero, which    *)
(* only an empty slot has: without one it is the first slot that goes.      *)
(* Mutant: the oldest slot is replaced whether the set is cold or warm.     *)
VictimByAge(s) == IF s.touched < Len(s.slot) THEN 1 ELSE Oldest(s)

Victim(s) ==
  IF s.touched < Len(s.slot) THEN s.touched + 1
  ELSE Max({1} \union {i \in DOMAIN s.slot : s.slot[i].ts = 0})

(* Mutant: an insertion always counts a slot.                               *)
TouchAlways(s) == s.touched + 1

Touch(s) == IF s.touched < Len(s.slot) THEN s.touched + 1 ELSE s.touched

Put(s, i, slot, touched) == [slot |-> [s.slot EXCEPT ![i] = slot], touched |-> touched]

(* How late an access is, from the low halves of the two times.             *)
(* Mutant: the difference is not reduced.                                   *)
LatenessOfHalves(late, ts) == (late % Width) - (ts % Width)

Lateness(late, ts) == ((late % Width) - (ts % Width)) % Width

Late(kind, b, slot, ts) ==
  [kind |-> kind, block |-> b, dirty |-> kind = "lookup_late" /\ slot.dirty,
   lateness |-> Lateness(slot.ts, ts), from |-> slot.ts, at |-> ts]
Missed(s, b) == [kind |-> IF s.touched < Len(s.slot) THEN "cold_miss" ELSE "miss",
                 block |-> b, dirty |-> FALSE]
Hit(b, slot) == [kind |-> "hit", block |-> b, dirty |-> slot.dirty]
Outcome(s, r) == [set |-> s, reply |-> r, panic |-> FALSE]

(* The hit of a reader takes over the dirtiness; that of a writer, or any   *)
(* hit of an exclusive cache, takes the block.                              *)
ReadBlock(slot, ts) == [slot EXCEPT !.ts = ts, !.dirty = FALSE]

HitIn(s, i, b, ts, takes) ==
  LET slot == s.slot[i] IN
  IF takes THEN Outcome(Put(s, i, Empty, s.touched),
                        IF slot.ts > ts THEN Late("lookup_late", b, slot, ts) ELSE Hit(b, slot))
  ELSE IF slot.ts > ts THEN Outcome(s, Late("lookup_late", b, slot, ts))
  ELSE Outcome(Put(s, i, ReadBlock(slot, ts), s.touched), Hit(b, slot))

Lookup(s, b, write, ts) ==
  IF IndexOf(s, b) = {} THEN Outcome(s, Missed(s, b))
  ELSE HitIn(s, CHOOSE i \in IndexOf(s, b) : TRUE, b, ts, write \/ Exclusive)

(* Here a late access leaves the block alone even if it is a store.         *)
(* Mutant: the block is not looked for first.                               *)
LookupAndInsertBlindly(s, b, write, ts) ==
  Outcome(Put(s, Victim(s), [block |-> b, ts |-> ts, dirty |-> write], Touch(s)), Missed(s, b))

LookupAndInsert(s, b, write, ts) ==
  IF IndexOf(s, b) # {}
  THEN LET i == CHOOSE i \in IndexOf(s, b) : TRUE IN
       HitIn(s, i, b, ts, (write \/ Exclusive) /\ s.slot[i].ts <= ts)
  ELSE LET i == Victim(s)
           t == Put(s, i, [block |-> b, ts |-> ts, dirty |-> write], Touch(s))
       IN Outcome(t, IF s.touched = Len(s.slot) /\ s.slot[i].ts > ts
                     THEN Late("evicted_late", b, s.slot[i], ts) ELSE Missed(s, b))

(* insert: an older copy of a block that is present is dropped with its     *)
(* dirtiness; a dirty block on a dirty one, or any on an exclusive cache's, *)
(* is a panic.                                                              *)
(* Mutant: the modified bit is overwritten by that of the arriving copy.    *)
RefreshedOverwritten(slot, dirty, ts) == [slot EXCEPT !.ts = ts, !.dirty = dirty]

Refreshed(slot, dirty, ts) == [slot EXCEPT !.ts = ts, !.dirty = @ \/ dirty]

Insert(s, b, dirty, ts) ==
  LET ack == [kind |-> "inserted", block |-> b, dirty |-> FALSE] IN
  IF IndexOf(s, b) # {}
  THEN LET i == CHOOSE i \in IndexOf(s, b) : TRUE
           slot == s.slot[i]
       IN IF Exclusive \/ (ts >= slot.ts /\ dirty /\ slot.dirty)
          THEN [set |-> s, reply |-> ack, panic |-> TRUE]
          ELSE Outcome(IF ts >= slot.ts THEN Put(s, i, Refreshed(slot, dirty, ts), s.touched)
                       ELSE s, ack)
  ELSE Outcome(Put(s, Oldest(s), [block |-> b, ts |-> ts, dirty |-> dirty], Touch(s)), ack)

(* invalidate: a store of the parallel hierarchy, once it has all replicas  *)
(* invalidated, removes the block here as the lookup of a store would.      *)
Invalidate(s, b, ts) == Lookup(s, b, TRUE, ts)

Outcomes(op, s, b, flag, ts) ==
  CASE op = "lookup" -> Lookup(s, b, flag, ts)
    [] op = "lookup_and_insert" -> LookupAndInsert(s, b, flag, ts)
    [] op = "insert" -> Insert(s, b, flag, ts)
    [] op = "invalidate" -> Invalidate(s, b, ts)

(* What is done under the lock of the block's set, in every cache of the    *)
(* guest, and what it returns.                                              *)
Section(op, b, flag, ts) ==
  LET In(c) == Outcomes(op, sets[c][SetOf(c, b)], b, flag, ts)
      before(c) == sets[c][SetOf(c, b)].touched
  IN
  /\ sets' = [c \in Cache |-> IF c \in guest.caches
                              THEN [sets[c] EXCEPT ![SetOf(c, b)] = In(c).set] ELSE sets[c]]
  /\ counting' = [c \in Cache |-> counting[c] +
        IF c \in guest.caches /\ before(c) < Ways[c] /\ In(c).set.touched = Ways[c] THEN 1 ELSE 0]
  /\ panicked' = (\E c \in guest.caches : In(c).panic)
Replies(op, b, flag, ts) ==
  [c \in guest.caches |-> Outcomes(op, sets[c][SetOf(c, b)], b, flag, ts).reply]

(* A thread that is not inside invalidate calls.                            *)
Running == ~panicked /\ files = <<>>
Begins(op, flag, ts) ==
  /\ Running /\ Cardinality(invalidating) < guest.threads
  /\ <<op, flag>> \in guest.calls /\ (guest.inOrder => ts > now)
  /\ now' = IF guest.inOrder THEN ts ELSE now

Call(op, b, flag, ts) ==
  /\ Begins(op, flag, ts) /\ Section(op, b, flag, ts)
  /\ reply' = Replies(op, b, flag, ts)
  /\ UNCHANGED <<guest, invalidating, warmed, checkpointVars>>

(* invalidate locks the set and removes the block, and does so again with   *)
(* the lock released in between: what the first found is not returned.  Two *)
(* threads between the locks have different blocks or times, or nothing     *)
(* would tell them apart.                                                   *)
Dropped(b) == [kind |-> "dropped", block |-> b, dirty |-> FALSE]
InvalidateFirst(b, ts) ==
  /\ Begins("invalidate", TRUE, ts) /\ Section("invalidate", b, TRUE, ts)
  /\ [block |-> b, ts |-> ts] \notin invalidating
  /\ invalidating' = invalidating \union {[block |-> b, ts |-> ts]}
  /\ reply' = [c \in guest.caches |-> Dropped(b)]
  /\ UNCHANGED <<guest, warmed, checkpointVars>>

InvalidateAgain(t) ==
  /\ Running /\ t \in invalidating /\ Section("invalidate", t.block, TRUE, t.ts)
  /\ invalidating' = invalidating \ {t}
  /\ reply' = Replies("invalidate", t.block, TRUE, t.ts)
  /\ UNCHANGED <<guest, warmed, now, checkpointVars>>

CountWarmed(c) ==
  /\ ~panicked /\ counting[c] > 0
  /\ counting' = [counting EXCEPT ![c] = @ - 1] /\ warmed' = [warmed EXCEPT ![c] = @ + 1]
  /\ UNCHANGED <<guest, sets, invalidating, now, reply, panicked, checkpointVars>>

(* serialize_par: each worker writes a run of sets and the counter, while   *)
(* the cores are stopped; the last worker takes what is left over.          *)
(* Mutant: the left-over sets belong to no worker.                          *)
ShardEven(c, w) == LET n == Sets[c] \div Workers IN (w - 1) * n .. w * n - 1

Shard(c, w) ==
  LET n == Sets[c] \div Workers IN (w - 1) * n .. IF w = Workers THEN Sets[c] - 1 ELSE w * n - 1

Save(c) ==
  /\ guest.saves /\ Running /\ c \in guest.caches /\ counting[c] = 0 /\ invalidating = {}
  /\ files' = [w \in 1..Workers |->
                 [cache |-> c, warmed |-> warmed[c],
                  blocks |-> [i \in 0..Cardinality(Shard(c, w)) - 1 |->
                                sets[c][Min(Shard(c, w) \union {Sets[c]}) + i]]]]
  /\ UNCHANGED <<guest, sets, invalidating, counting, warmed, now, reply, panicked, restored, loaded>>

(* deserialize_shard, one after the other.                                  *)
Load(c) ==
  LET f == files[loaded + 1]
      first == Min(Shard(c, loaded + 1) \union {Sets[c]})
  IN
  /\ loaded < Len(files) /\ f.cache = c
  /\ restored' = [restored EXCEPT ![c] = [i \in DOMAIN @ |->
                    IF i - first \in DOMAIN f.blocks THEN f.blocks[i - first] ELSE @[i]]]
  /\ loaded' = loaded + 1
  /\ UNCHANGED <<guest, sets, invalidating, counting, warmed, now, reply, panicked, files>>

Stopped == (panicked \/ files # <<>> \/ guest.inOrder) /\ UNCHANGED vars

Next ==
  \/ \E b \in guest.blocks, ts \in guest.times, flag \in BOOLEAN :
       \/ Call("lookup", b, flag, ts)
       \/ Call("lookup_and_insert", b, flag, ts)
       \/ Call("insert", b, flag, ts)
  \/ \E b \in guest.blocks, ts \in guest.times : InvalidateFirst(b, ts)
  \/ \E t \in invalidating : InvalidateAgain(t)
  \/ \E c \in Cache : CountWarmed(c) \/ Save(c) \/ Load(c)
  \/ Stopped

Spec == Init /\ [][Next]_vars

-----------------------------------------------------------------------------
(* Every variable has its type.                                             *)
TypeOK ==
  /\ \A c \in Cache : \A i \in 0..Sets[c] - 1 :
       sets[c][i] \in [slot : [1..Ways[c] -> Slot], touched : 0..Ways[c]]
  /\ invalidating \subseteq [block : Block, ts : Nat]
  /\ counting \in [Cache -> Nat] /\ warmed \in [Cache -> Nat] /\ panicked \in BOOLEAN

(* A block is in one slot at most, however its set was filled and emptied.  *)
NoDuplicates ==
  \A c \in Cache : \A i \in 0..Sets[c] - 1 :
    \A j, k \in DOMAIN sets[c][i].slot :
      sets[c][i].slot[j].block = sets[c][i].slot[k].block /\ j # k
        => sets[c][i].slot[j].block = NoBlock

(* The slots a cold set has still to fill are empty, although lookups empty *)
(* others and insertions use whichever they find: filling never costs a     *)
(* block.                                                                   *)
ColdSlotsEmpty ==
  \A c \in Cache : \A i \in 0..Sets[c] - 1 :
    \A j \in DOMAIN sets[c][i].slot : j > sets[c][i].touched => sets[c][i].slot[j] = Empty

(* Each set is a CacheSet.                                                  *)
ContentIn(s) ==
  {[block |-> slot.block, dirty |-> slot.dirty] : slot \in
     {s.slot[j] : j \in DOMAIN s.slot} \ {Empty}}
Abstract(c, i) == INSTANCE CacheSet WITH content <- ContentIn(sets[c][i]), Ways <- Ways[c]
ImplementsCacheSet ==
  /\ \A c \in Cache : \A i \in 0..Sets[c] - 1 : Abstract(c, i)!Init
  /\ [][\A c \in Cache : \A i \in 0..Sets[c] - 1 :
          [Abstract(c, i)!Next]_(ContentIn(sets[c][i]))]_vars

(* A block stops being dirty only if the call that did so was told, if it   *)
(* had to leave a set that had no free slot, or if a store takes it out by  *)
(* invalidate: the first of its two locks removes the block, and the        *)
(* dirtiness found then is told to nobody, the result being that of the     *)
(* second.  (The storing core makes its own copy modified.)                 *)
Forgotten(b, old, new) ==
  /\ [block |-> b, dirty |-> TRUE] \in old
  /\ [block |-> b, dirty |-> TRUE] \notin new
DirtyHandedOver ==
  [][\A c \in Cache : \A i \in 0..Sets[c] - 1, b \in Block :
       LET old == ContentIn(sets[c][i])
           new == ContentIn(sets'[c][i])
       IN Forgotten(b, old, new) =>
            \/ reply'[c].block = b /\ reply'[c].dirty
            \/ Cardinality(old) = Ways[c] /\ \A e \in new : e.block # b
            \/ \E t \in invalidating' \ invalidating : t.block = b]_vars

(* The counter of warm sets counts each set whose slots have all been       *)
(* touched once, late by the threads that are about to count.               *)
WarmedExact ==
  \A c \in Cache :
    warmed[c] + counting[c] = Cardinality({i \in 0..Sets[c] - 1 : sets[c][i].touched = Ways[c]})

(* The lateness reported is the distance of the two times, also when they   *)
(* lie on both sides of a multiple of Width.                                *)
LatenessExact ==
  now > 0 \/ reply = [kind |-> "none"] \/
  \A c \in DOMAIN reply :
    reply[c].kind \in {"lookup_late", "evicted_late"} =>
      reply[c].lateness = reply[c].from - reply[c].at

(* Every set, the counter of warm sets and what is reported of a late access *)
(* are in order.                                                            *)
SetsConsistent == TypeOK /\ NoDuplicates /\ ColdSlotsEmpty /\ WarmedExact /\ LatenessExact

(* What all workers wrote is what the next process starts with.             *)
RestoredExactly ==
  loaded = Workers =>
    LET c == files[1].cache IN
    restored[c] = sets[c] /\ \A w \in 1..Workers : files[w].warmed = warmed[c]

(* Resizing a larger cache after the run: the youngest blocks of the sets   *)
(* that collapse, with their times.  The test of resizing (tests/resize.rs) *)
(* asserts that they are what the smaller cache, driven by the same calls,  *)
(* holds.                                                                   *)
Aged(s) == {[block |-> s.slot[j].block, ts |-> s.slot[j].ts] : j \in DOMAIN s.slot \ IndexOf(s, NoBlock)}
Resized(c, d, i) ==
  LET all == UNION {Aged(sets[c][k]) : k \in {k \in DOMAIN sets[c] : k % Sets[d] = i}}
  IN {e \in all : Cardinality({f \in all : f.ts > e.ts}) < Ways[d]}
Resizable(c, d) == Sets[c] % Sets[d] = 0 /\ Ways[c] >= Ways[d]
ResizedEqual ==
  guest.inOrder /\ ~panicked =>
    \A c, d \in guest.caches :
      Resizable(c, d) => \A i \in DOMAIN sets[d] : Resized(c, d, i) = Aged(sets[d][i])

(* Without lookup_and_insert, calls in the order of their times leave       *)
(* nothing in the smaller cache that the resized one has not, with the same *)
(* time, although stores and writers take blocks out in between.  The       *)
(* resized one may hold more, older blocks that the smaller one had evicted *)
(* before a slot became free.  If blocks are only inserted, the two agree.  *)
ResizedAgrees ==
  guest.inOrder /\ ~panicked =>
    /\ \A c, d \in guest.caches :
         Resizable(c, d) => \A i \in DOMAIN sets[d] : Aged(sets[d][i]) \subseteq Resized(c, d, i)
    /\ guest.calls \subseteq {"insert"} \X BOOLEAN => ResizedEqual
=============================================================================
