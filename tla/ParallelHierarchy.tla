------------------------- MODULE ParallelHierarchy -------------------------
(***************************************************************************)
(* The coherence protocol of the multi-threaded memory hierarchy:          *)
(* ParallelMemoryHierarchy::access_memory_pblock_id and handle_eviction    *)
(* over the private caches, the directory and the shared last-level cache. *)
(*                                                                         *)
(* Every simulated core is driven by its own QEMU thread.  An access pokes *)
(* the core's private cache under that set's lock, RELEASES the lock, and  *)
(* only on a miss takes the directory set(s) and then private sets again.  *)
(* One action below is one critical section of that code, so that what the *)
(* other threads do between two critical sections is interleaved.          *)
(*                                                                         *)
(* Timestamps only decide which line is oldest and whether an access is    *)
(* "late"; both are nondeterministic choices here.  A private line is the  *)
(* MESI state encoded by its valid, writeable and modified bits.           *)
(***************************************************************************)
EXTENDS Integers, FiniteSets

CONSTANTS
  Core,         \* the simulated cores, one thread each
  Cache,        \* private cache ids
  Block,        \* physical block ids
  Op,           \* the access types the cores issue
  NoCore,       \* holder of a free lock
  NoBlock,      \* "no victim"
  ICache,       \* [Core -> Cache], the cache a core fetches from
  DCache,       \* [Core -> Cache], the cache a core loads and stores through
  PrivSet,      \* indices of the private cache sets
  DirSet,       \* indices of the directory sets, in locking order
  PSetOf,       \* [Block -> PrivSet], block_id % SET of a private cache
  DSetOf,       \* [Block -> DirSet],  block_id % SET of the directory
  LSetOf,       \* [Block -> ...],     block_id % SET of the shared cache
  PrivWays, DirWays, LlcWays,
  FillOnFill,      \* FILL_SCACHE_ON_FILLING_PCACHE
  FillOnEviction,  \* FILL_SCACHE_ON_PCACHE_EVICTION
  FillOnWriteback, \* FILL_SCACHE_ON_PCACHE_WRITEBACK
  FillOnReplica,   \* FILL_SCACHE_ON_PCACHE_REPLICA_CREATION
  ExclusiveState,  \* ENABLE_EXCLUSIVE_CACHE_STATE
  LlcExclusive     \* EXCLUSIVE of the shared cache

AccessType == {"InstructionFetch", "DataRead", "DataWrite", "PageWalkRead",
               "PrefetchRead", "PrefetchWrite"}

(* Different cores never share a private cache id; the two ids of one core *)
(* are equal when the cache is unified and differ when it is Harvard.      *)
ASSUME CacheAssumption ==
  /\ ICache \in [Core -> Cache]
  /\ DCache \in [Core -> Cache]
  /\ \A c, d \in Core : c # d =>
       {ICache[c], DCache[c]} \cap {ICache[d], DCache[d]} = {}

ASSUME IndexAssumption ==
  /\ Op \subseteq AccessType
  /\ NoCore \notin Core
  /\ NoBlock \notin Block
  /\ DirSet \subseteq Nat
  /\ PSetOf \in [Block -> PrivSet]
  /\ DSetOf \in [Block -> DirSet]
  /\ PrivWays \in Nat \ {0} /\ DirWays \in Nat \ {0} /\ LlcWays \in Nat \ {0}

ASSUME FlagAssumption ==
  /\ {FillOnFill, FillOnEviction, FillOnWriteback, FillOnReplica,
      ExclusiveState, LlcExclusive} \subseteq BOOLEAN
  \* The static assertions on SHARED_CACHE_EXCLUSIVE.
  /\ LlcExclusive => ~FillOnFill /\ ~FillOnEviction /\ ~FillOnReplica

VARIABLES
  line,     \* line[k][b]: state of block b in private cache k
  recent,   \* recent[k]: sets of k whose recent_invalid_slot_index is Some
  tracked,  \* blocks that have a directory entry
  sharers,  \* sharers[b]: the sharer list of b's entry
  shared,   \* blocks whose entry has the shared flag
  llc,      \* llc[b]: b in the shared cache
  dirLock,  \* holder of each directory set
  pc, op, block, slot, victim, grant, evicted,  \* locals of the access
  status    \* "panicked" once an assertion of the code failed

cacheVars == <<line, recent>>
dirVars   == <<tracked, sharers, shared>>
request   == <<op, block, slot, victim>>
access    == <<pc, request, grant, evicted>>
vars      == <<cacheVars, dirVars, llc, dirLock, access, status>>

LineState == {"I", "S", "E", "M"}
Writeable == {"E", "M"}
LlcState  == {"absent", "clean", "dirty"}
SlotKind  == {"Invalid", "Valid", "Same"}
Init ==
  /\ line     = [k \in Cache |-> [b \in Block |-> "I"]]
  /\ recent   = [k \in Cache |-> {}]
  /\ tracked  = {}
  /\ sharers  = [b \in Block |-> {}]
  /\ shared   = {}
  /\ llc      = [b \in Block |-> "absent"]
  /\ dirLock  = [s \in DirSet |-> NoCore]
  /\ pc       = [c \in Core |-> "idle"]
  /\ op       = [c \in Core |-> "DataRead"]
  /\ block    = [c \in Core |-> NoBlock]
  /\ slot     = [c \in Core |-> "Invalid"]
  /\ victim   = [c \in Core |-> NoBlock]
  /\ grant    = [c \in Core |-> "I"]
  /\ evicted  = [c \in Core |-> "I"]
  /\ status   = "running"

-----------------------------------------------------------------------------
(* Helpers.                                                                *)

IsStore(o) == o \in {"DataWrite", "PrefetchWrite"}

CacheFor(c, o) == IF o = "InstructionFetch" THEN ICache[c] ELSE DCache[c]

CacheOf(c) == CacheFor(c, op[c])

(* The access type sent to the shared cache: under MESI a data read asks   *)
(* for the writable permission.                                            *)
AsksToWrite(o) ==
  IsStore(o) \/ (ExclusiveState /\ o \in {"DataRead", "PrefetchRead"})

BringsIntoLlc(o) ==
  /\ FillOnFill
  /\ \/ o \in {"InstructionFetch", "PageWalkRead"}
     \/ o \in {"DataRead", "PrefetchRead"} /\ ~ExclusiveState

StateOf(writable, modified) ==
  IF modified THEN "M" ELSE IF writable THEN "E" ELSE "S"

Resident(k, s) == {b \in Block : PSetOf[b] = s /\ line[k][b] # "I"}

(* assert!, panic! and unwrap: a failure aborts the process.               *)
Asserting(condition) == status' = IF condition THEN status ELSE "panicked"

(* A shared cache set evicts its oldest block when an insertion finds no   *)
(* free slot.                                                              *)
LlcResident(b) == {x \in Block : LSetOf[x] = LSetOf[b] /\ llc[x] # "absent"}

LlcPut(b, state) ==
  {[x \in Block |-> IF x = b THEN state
                    ELSE IF x \in E THEN "absent" ELSE llc[x]] :
      E \in IF Cardinality(LlcResident(b)) < LlcWays
            THEN {{}} ELSE {{x} : x \in LlcResident(b)}}

(* Mutant: the shared cache keeps the block an exclusive owner took.        *)
LlcRemoveKept(b) == llc

(* SharedCacheSet::invalidate.                                             *)
LlcRemove(b) == [llc EXCEPT ![b] = "absent"]

(* SharedCacheSet::insert of a block, "dirty" when is_modified: on a hit   *)
(* an older timestamp is dropped.                                          *)
LlcInsert(b, state) ==
  IF llc[b] = "absent"
  THEN LlcPut(b, state)
  ELSE {llc} \cup (IF state = "dirty" THEN {[llc EXCEPT ![b] = "dirty"]} ELSE {})

(* The two panics of SharedCacheSet::insert.                               *)
LlcInsertAllowed(b, state) ==
  /\ LlcExclusive => llc[b] = "absent"
  /\ state = "dirty" => llc[b] # "dirty"

(* Mutant: the evicted or stored-to block survives in its replicas.        *)
InvalidateLinesSkipped(R, b) == line

(* Invalidating block b in the caches R, under their set locks.            *)
InvalidateLines(R, b) ==
  [k \in Cache |-> IF k \in R THEN [line[k] EXCEPT ![b] = "I"] ELSE line[k]]

(* Mutants: recent_invalid_slot_index not set, set even where the block    *)
(* was not found, or set from the block id instead of the set index.       *)
NoteInvalidationsMissing(R, b) == recent
NoteInvalidationsAnywhere(R, b) ==
  [k \in Cache |-> recent[k] \cup {PSetOf[b]}]
NoteInvalidationsByBlock(R, b) ==
  [k \in Cache |-> IF k \in R THEN recent[k] \cup {b} ELSE recent[k]]

NoteInvalidations(R, b) ==
  [k \in Cache |-> IF k \in R THEN recent[k] \cup {PSetOf[b]} ELSE recent[k]]

-----------------------------------------------------------------------------
(* poke_and_update, under the lock of the core's own private set.          *)

BeginMiss(c, o, b, kind, v) ==
  /\ pc'     = [pc EXCEPT ![c] = "lock"]
  /\ op'     = [op EXCEPT ![c] = o]
  /\ block'  = [block EXCEPT ![c] = b]
  /\ slot'   = [slot EXCEPT ![c] = kind]
  /\ victim' = [victim EXCEPT ![c] = v]
  /\ UNCHANGED <<grant, evicted>>

ForgetInvalidations(k, b) ==
  recent' = [recent EXCEPT ![k] = @ \ {PSetOf[b]}]

PokeHit(c, o, b) ==
  LET k == CacheFor(c, o) IN
  /\ pc[c] = "idle"
  /\ ForgetInvalidations(k, b)
  /\ \/ /\ ~IsStore(o) /\ line[k][b] # "I"
        /\ UNCHANGED line
     \/ /\ IsStore(o) /\ line[k][b] \in Writeable
        /\ line' = [line EXCEPT ![k][b] = "M"]
  /\ UNCHANGED <<dirVars, llc, dirLock, access, status>>

PokePermissionViolation(c, o, b) ==
  LET k == CacheFor(c, o) IN
  /\ pc[c] = "idle"
  /\ IsStore(o) /\ line[k][b] = "S"
  /\ ForgetInvalidations(k, b)
  /\ BeginMiss(c, o, b, "Same", NoBlock)
  /\ UNCHANGED <<line, dirVars, llc, dirLock, status>>

PokeMiss(c, o, b) ==
  LET k == CacheFor(c, o)
      R == Resident(k, PSetOf[b]) IN
  /\ pc[c] = "idle"
  /\ line[k][b] = "I"
  /\ ForgetInvalidations(k, b)
  /\ IF Cardinality(R) < PrivWays
     THEN BeginMiss(c, o, b, "Invalid", NoBlock)
     ELSE \E v \in R : BeginMiss(c, o, b, "Valid", v)
  /\ UNCHANGED <<line, dirVars, llc, dirLock, status>>

-----------------------------------------------------------------------------
(* fetch_one_entry and fetch_two_entries: the directory sets of the block  *)
(* and of the potential victim, in increasing index, once if they coincide.*)

(* Mutant: the victim's directory set is not locked.                       *)
WantedSetsOfBlock(c) == {DSetOf[block[c]]}

WantedSets(c) ==
  {DSetOf[block[c]]} \cup
     (IF slot[c] = "Valid" THEN {DSetOf[victim[c]]} ELSE {})

MissingSets(c) == {s \in WantedSets(c) : dirLock[s] # c}

(* Mutant: the block's set first, then the victim's, in no common order.   *)
LockDirectorySetUnordered(c) ==
  /\ pc[c] = "lock"
  /\ \E s \in MissingSets(c) :
       /\ DSetOf[block[c]] \in MissingSets(c) => s = DSetOf[block[c]]
       /\ dirLock[s] = NoCore
       /\ dirLock' = [dirLock EXCEPT ![s] = c]
       /\ pc' = [pc EXCEPT ![c] = IF MissingSets(c) = {s} THEN "create" ELSE "lock"]
  /\ UNCHANGED <<cacheVars, dirVars, llc, request, grant,
                 evicted, status>>

LockDirectorySet(c) ==
  /\ pc[c] = "lock"
  /\ \E s \in MissingSets(c) :
       /\ \A t \in MissingSets(c) : s <= t
       /\ dirLock[s] = NoCore
       /\ dirLock' = [dirLock EXCEPT ![s] = c]
       /\ pc' = [pc EXCEPT ![c] = IF MissingSets(c) = {s} THEN "create" ELSE "lock"]
  /\ UNCHANGED <<cacheVars, dirVars, llc, request, grant,
                 evicted, status>>

(* get_or_create.  A full directory set evicts its least recently used     *)
(* entry; its replicas are invalidated and the block goes to the shared    *)
(* cache as a clean one.                                                   *)
DirectoryPeers(b) == {e \in tracked : DSetOf[e] = DSetOf[b]}

FindEntry(c) ==
  /\ pc[c] = "create"
  /\ block[c] \in tracked
  /\ pc' = [pc EXCEPT ![c] = "coherence"]
  /\ UNCHANGED <<cacheVars, dirVars, llc, dirLock, request,
                 grant, evicted, status>>

CreateEntry(c) ==
  /\ pc[c] = "create"
  /\ block[c] \notin tracked
  /\ Cardinality(DirectoryPeers(block[c])) < DirWays
  /\ tracked' = tracked \cup {block[c]}
  /\ pc' = [pc EXCEPT ![c] = "coherence"]
  /\ UNCHANGED <<cacheVars, sharers, shared, llc, dirLock, request,
                 grant, evicted, status>>

CreateEntryEvicting(c, e) ==
  LET R == {k \in sharers[e] : line[k][e] # "I"} IN
  /\ pc[c] = "create"
  /\ block[c] \notin tracked
  /\ Cardinality(DirectoryPeers(block[c])) >= DirWays
  /\ e \in DirectoryPeers(block[c])
  /\ tracked' = (tracked \ {e}) \cup {block[c]}
  /\ sharers' = [sharers EXCEPT ![e] = {}]
  /\ shared'  = shared \ {e}
  /\ line'    = InvalidateLines(R, e)
  /\ recent'  = NoteInvalidations(R, e)
  /\ llc'     \in LlcInsert(e, "clean")
  /\ Asserting(LlcInsertAllowed(e, "clean"))
  /\ pc'      = [pc EXCEPT ![c] = "coherence"]
  /\ UNCHANGED <<dirLock, request, grant, evicted>>

-----------------------------------------------------------------------------
(* The access returns: the directory guards are dropped.                   *)
Return(c) ==
  /\ dirLock' = [s \in DirSet |-> IF dirLock[s] = c THEN NoCore ELSE dirLock[s]]
  /\ pc'      = [pc EXCEPT ![c] = "idle"]
  /\ op'      = [op EXCEPT ![c] = "DataRead"]
  /\ block'   = [block EXCEPT ![c] = NoBlock]
  /\ slot'    = [slot EXCEPT ![c] = "Invalid"]
  /\ victim'  = [victim EXCEPT ![c] = NoBlock]
  /\ grant'   = [grant EXCEPT ![c] = "I"]
  /\ evicted' = [evicted EXCEPT ![c] = "I"]

(* Mutant: the fill trusts the slot of the poke and evicts regardless.     *)
EvictsAlways(c, rc) == slot[c] = "Valid"

(* fill_with_potential_eviction_slot on the lines ln, given the sets rc    *)
(* with an invalidation since the poke: a slot that was invalidated in the *)
(* meantime is used instead of evicting the victim.                        *)
Evicts(c, rc) == slot[c] = "Valid" /\ PSetOf[block[c]] \notin rc[CacheOf(c)]

Fill(c, ln, rc, state) ==
  /\ line' = [ln EXCEPT ![CacheOf(c)] =
       [b \in Block |-> IF b = block[c] THEN state
                        ELSE IF Evicts(c, rc) /\ b = victim[c] THEN "I"
                        ELSE ln[CacheOf(c)][b]]]
  /\ recent' = [rc EXCEPT ![CacheOf(c)] = @ \ {PSetOf[block[c]]}]
  /\ IF Evicts(c, rc)
     THEN /\ pc' = [pc EXCEPT ![c] = "evict"]
          /\ evicted' = [evicted EXCEPT ![c] = ln[CacheOf(c)][victim[c]]]
          /\ UNCHANGED <<dirLock, request, grant>>
     ELSE Return(c)

FillAllowed(c, ln, rc) ==
  /\ ln[CacheOf(c)][block[c]] = "I"
  /\ slot[c] = "Same" => PSetOf[block[c]] \in rc[CacheOf(c)]

-----------------------------------------------------------------------------
(* No sharer: the block comes from the shared cache or from memory.        *)

AloneInDirectory(c) == pc[c] = "coherence" /\ sharers[block[c]] = {}

(* Mutant: a read-only grant does not raise the shared flag.               *)
TakePermissionUnshared(c, writable, modified) ==
  /\ sharers' = [sharers EXCEPT ![block[c]] = {CacheOf(c)}]
  /\ shared'  = shared \ {block[c]}
  /\ grant'   = [grant EXCEPT ![c] = StateOf(writable, modified)]
  /\ pc'      = [pc EXCEPT ![c] = "fill"]
  /\ UNCHANGED <<cacheVars, tracked, dirLock, request,
                 evicted, status>>

TakePermission(c, writable, modified) ==
  /\ sharers' = [sharers EXCEPT ![block[c]] = {CacheOf(c)}]
  /\ shared'  = IF writable THEN shared \ {block[c]} ELSE shared \cup {block[c]}
  /\ grant'   = [grant EXCEPT ![c] = StateOf(writable, modified)]
  /\ pc'      = [pc EXCEPT ![c] = "fill"]
  /\ UNCHANGED <<cacheVars, tracked, dirLock, request,
                 evicted, status>>

LlcMiss(c) ==
  /\ AloneInDirectory(c)
  /\ llc[block[c]] = "absent"
  /\ llc' \in IF BringsIntoLlc(op[c]) THEN LlcPut(block[c], "clean") ELSE {llc}
  /\ TakePermission(c, AsksToWrite(op[c]), IsStore(op[c]))

(* Mutant: a lookup that transfers the permission keeps the dirty copy.    *)
LlcHitStaysDirty(c) ==
  LET dirty == llc[block[c]] = "dirty" IN
  /\ AloneInDirectory(c)
  /\ llc[block[c]] # "absent"
  /\ UNCHANGED llc
  /\ TakePermission(c, dirty \/ AsksToWrite(op[c]), dirty \/ IsStore(op[c]))

LlcHit(c) ==
  LET dirty == llc[block[c]] = "dirty" IN
  /\ AloneInDirectory(c)
  /\ llc[block[c]] # "absent"
  /\ llc' = [llc EXCEPT ![block[c]] =
       IF AsksToWrite(op[c]) \/ LlcExclusive THEN "absent" ELSE "clean"]
  /\ TakePermission(c, dirty \/ AsksToWrite(op[c]), dirty \/ IsStore(op[c]))

(* LookupLate: the block carries a later timestamp than this access.       *)
LlcLate(c) ==
  /\ AloneInDirectory(c)
  /\ llc[block[c]] # "absent"
  /\ llc' = IF ~BringsIntoLlc(op[c]) /\ (AsksToWrite(op[c]) \/ LlcExclusive)
            THEN [llc EXCEPT ![block[c]] = "absent"] ELSE llc
  /\ TakePermission(c, FALSE, FALSE)

(* get_set_for_fill and the fill, outside the critical section above.      *)
FillPrivate(c) ==
  /\ pc[c] = "fill"
  /\ Fill(c, line, recent, grant[c])
  /\ Asserting(FillAllowed(c, line, recent))
  /\ UNCHANGED <<dirVars, llc>>

-----------------------------------------------------------------------------
(* Some cache holds the block.                                             *)

HasSharers(c) == pc[c] = "coherence" /\ sharers[block[c]] # {}

(* The fast path: a read of a block in the shared state.                   *)
JoinSharers(c) ==
  /\ HasSharers(c)
  /\ block[c] \in shared /\ ~IsStore(op[c])
  /\ sharers' = [sharers EXCEPT ![block[c]] = @ \cup {CacheOf(c)}]
  /\ IF FillOnReplica
     THEN /\ llc' \in LlcInsert(block[c], "clean")
          /\ Asserting(LlcInsertAllowed(block[c], "clean"))
     ELSE UNCHANGED <<llc, status>>
  /\ grant' = [grant EXCEPT ![c] = "S"]
  /\ pc' = [pc EXCEPT ![c] = "fill"]
  /\ UNCHANGED <<cacheVars, tracked, shared, dirLock, request,
                 evicted>>

(* The first assertion of the slow path: the requester is a sharer only    *)
(* when it came for permission.                                            *)
AcquireListOK(c) == CacheOf(c) \in sharers[block[c]] => slot[c] = "Same"

(* Mutant: only the requester's cache is acquired.                         *)
AcquiredSelf(c) == {CacheOf(c)}

Acquired(c) == sharers[block[c]] \cup {CacheOf(c)}

(* A store invalidates every replica and the shared cache's copy, then     *)
(* fills, all under the set locks of the acquired caches.                  *)
InvalidateSharers(c) ==
  LET b  == block[c]
      R  == {k \in Acquired(c) : line[k][b] # "I"}
      ln == InvalidateLines(R, b)
      rc == NoteInvalidations(R, b) IN
  /\ HasSharers(c)
  /\ IsStore(op[c])
  /\ llc' = LlcRemove(b)
  /\ sharers' = [sharers EXCEPT ![b] = {CacheOf(c)}]
  /\ shared'  = shared \ {b}
  /\ Fill(c, ln, rc, "M")
  /\ Asserting(/\ AcquireListOK(c)
               /\ Acquired(c) \ R \subseteq {CacheOf(c)}
               /\ FillAllowed(c, ln, rc))
  /\ UNCHANGED tracked

(* A read takes the writable permission away from the replica that has it, *)
(* writing a modified one back to the shared cache.                        *)
DowngradeWriter(c) ==
  LET b  == block[c]
      W  == {k \in Acquired(c) : line[k][b] \in Writeable}
      state == IF \E k \in W : line[k][b] = "M" THEN "dirty" ELSE "clean"
      ln == [k \in Cache |->
               IF k \in W THEN [line[k] EXCEPT ![b] = "S"] ELSE line[k]] IN
  /\ HasSharers(c)
  /\ b \notin shared /\ ~IsStore(op[c])
  /\ llc' \in IF FillOnReplica \/ state = "dirty" THEN LlcInsert(b, state) ELSE {llc}
  /\ sharers' = [sharers EXCEPT ![b] = @ \cup {CacheOf(c)}]
  /\ shared'  = shared \cup {b}
  /\ Fill(c, ln, recent, "S")
  /\ Asserting(/\ AcquireListOK(c)
               /\ slot[c] # "Same"
               /\ \A j, k \in W : j = k
               /\ (FillOnReplica \/ state = "dirty") => LlcInsertAllowed(b, state)
               /\ FillAllowed(c, ln, recent))
  /\ UNCHANGED tracked

-----------------------------------------------------------------------------
(* handle_eviction of the line the fill replaced, under the directory      *)
(* guards taken at the start.                                              *)
HandleEviction(c) ==
  LET v     == victim[c]
      state == IF evicted[c] = "M" THEN "dirty" ELSE "clean"
      toLlc == /\ sharers[v] \ {CacheOf(c)} = {}
               /\ IF state = "dirty" THEN FillOnWriteback ELSE FillOnEviction IN
  /\ pc[c] = "evict"
  /\ sharers' = [sharers EXCEPT ![v] = @ \ {CacheOf(c)}]
  /\ llc' \in IF toLlc THEN LlcInsert(v, state) ELSE {llc}
  /\ Asserting(/\ v \in tracked
               /\ CacheOf(c) \in sharers[v]
               /\ toLlc => LlcInsertAllowed(v, state))
  /\ Return(c)
  /\ UNCHANGED <<cacheVars, tracked, shared>>

-----------------------------------------------------------------------------
Poke(c) == \E o \in Op, b \in Block :
  PokeHit(c, o, b) \/ PokePermissionViolation(c, o, b) \/ PokeMiss(c, o, b)

GetOrCreate(c) ==
  FindEntry(c) \/ CreateEntry(c) \/ \E e \in Block : CreateEntryEvicting(c, e)

Serve(c) ==
  \/ LlcMiss(c) \/ LlcHit(c) \/ LlcLate(c) \/ FillPrivate(c)
  \/ JoinSharers(c) \/ InvalidateSharers(c) \/ DowngradeWriter(c)
  \/ HandleEviction(c)

(* The steps of an access that has already missed.                         *)
Continue(c) ==
  /\ status = "running"
  /\ LockDirectorySet(c) \/ GetOrCreate(c) \/ Serve(c)

(* run_gc on one set, which a checkpoint calls under that set's lock: the  *)
(* entries without a sharer are dropped.                                   *)
CollectGarbage(s) ==
  LET G == {b \in tracked : DSetOf[b] = s /\ sharers[b] = {}} IN
  /\ status = "running"
  /\ dirLock[s] = NoCore
  /\ tracked' = tracked \ G
  /\ shared'  = shared \ G
  /\ UNCHANGED <<cacheVars, sharers, llc, dirLock, access, status>>

Next ==
  \/ \E c \in Core : (status = "running" /\ Poke(c)) \/ Continue(c)
  \/ \E s \in DirSet : CollectGarbage(s)

Spec == Init /\ [][Next]_vars

(* Threads keep running, the spin locks promise no fairness between them.  *)
FairSpec == Spec /\ \A c \in Core : WF_vars(Continue(c))

-----------------------------------------------------------------------------
(* Properties.                                                             *)

Locked(b) == dirLock[DSetOf[b]] # NoCore

Holders(b) == {k \in Cache : line[k][b] # "I"}

(* Every variable has its type: the states, locks and locals the Rust      *)
(* types of the hierarchy admit.                                           *)
TypeOK ==
  /\ line \in [Cache -> [Block -> LineState]]
  /\ recent \in [Cache -> SUBSET PrivSet]
  /\ tracked \subseteq Block
  /\ sharers \in [Block -> SUBSET Cache]
  /\ shared \subseteq Block
  /\ llc \in [Block -> LlcState]
  /\ dirLock \in [DirSet -> Core \cup {NoCore}]
  /\ pc \in [Core -> {"idle", "lock", "create", "coherence", "fill", "evict"}]
  /\ op \in [Core -> AccessType]
  /\ block \in [Core -> Block \cup {NoBlock}]
  /\ slot \in [Core -> SlotKind]
  /\ victim \in [Core -> Block \cup {NoBlock}]
  /\ grant \in [Core -> LineState]
  /\ evicted \in [Core -> LineState]
  /\ status \in {"running", "panicked"}

(* No assert!, panic! or unwrap of access_memory_pblock_id, of             *)
(* handle_eviction, of the fill or of the shared cache ever fails, however *)
(* the poke, the directory and the fill of different threads interleave.   *)
NoPanic == status = "running"

(* While one private cache may write a block, no other cache holds it:     *)
(* what the invalidations and downgrades of the coherence path are for.    *)
SingleWriter == \A b \in Block : \A j, k \in Cache :
  line[k][b] \in Writeable /\ j # k => line[j][b] = "I"

(* The directory never forgets a replica, even while entries are evicted,  *)
(* collected or joined by an access that has not filled its line yet.      *)
DirectoryInclusive == \A b \in Block :
  /\ Holders(b) \subseteq sharers[b]
  /\ b \notin tracked => sharers[b] = {}

(* Once the lock of its set is free the directory entry is exact: its      *)
(* sharers are the caches that hold the block, and its shared flag says    *)
(* that none of them may write.                                            *)
DirectoryExact == \A b \in Block : ~Locked(b) =>
  /\ Holders(b) = sharers[b]
  /\ sharers[b] # {} =>
       (b \notin shared <=> \E k \in Cache : line[k][b] \in Writeable)

(* A private cache with the writable permission owns the dirty data: the   *)
(* shared cache then holds no dirty copy, and no copy at all when it is    *)
(* exclusive (the two panics at the write back).                           *)
LlcYields(b) == llc[b] # "dirty" /\ (LlcExclusive => llc[b] = "absent")

WriterOwnsDirty == \A b \in Block : \A k \in Cache :
  line[k][b] \in Writeable => LlcYields(b)

(* No set outgrows its ways, although the slot a fill uses was chosen at   *)
(* the poke and others invalidate lines of the set before the fill.        *)
WithinCapacity ==
  /\ \A k \in Cache, s \in PrivSet : Cardinality(Resident(k, s)) <= PrivWays
  /\ \A b \in Block : /\ Cardinality(DirectoryPeers(b)) <= DirWays
                      /\ Cardinality(LlcResident(b)) <= LlcWays

(* The threads never block each other: when every core is inside an        *)
(* access, one of them returns (the increasing order of fetch_two_entries).*)
SomeAccessReturns ==
  (\A c \in Core : pc[c] # "idle") ~> (\E c \in Core : pc[c] = "idle")
=============================================================================
