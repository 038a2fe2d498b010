----------------------- MODULE ParallelHierarchyProofs -----------------------
(***************************************************************************)
(* Type correctness of ParallelHierarchy, its coherence, the capacity of   *)
(* its sets and its refinement of AtomicCoherence, for any number of       *)
(* cores, caches, blocks, sets and ways and any policy of the shared       *)
(* cache, and the one assertion that an exclusive shared cache can fail.   *)
(***************************************************************************)
EXTENDS ParallelHierarchyInvariant, FiniteSetTheorems, TLAPS

(* The typing part of the inductive invariant.                             *)
TypeInv == TypeOK /\ \A c \in Core : LocalsOK(c)

-----------------------------------------------------------------------------
(* Facts about the helpers.                                                *)

(* An access goes to one of the caches of its own core.                    *)
LEMMA CacheForType ==
  ASSUME NEW c \in Core, NEW o
  PROVE  CacheFor(c, o) \in Cache /\ CacheFor(c, o) \in {ICache[c], DCache[c]}
BY CacheAssumption DEF CacheFor

(* Putting a block into the shared cache leaves the rest alone, up to one  *)
(* eviction.                                                               *)
LEMMA LlcPutFacts ==
  ASSUME llc \in [Block -> LlcState], NEW b, NEW state \in LlcState,
         NEW f \in LlcPut(b, state)
  PROVE  /\ f \in [Block -> LlcState]
         /\ \A x \in Block : x # b => f[x] \in {llc[x], "absent"}
         /\ b \in Block => f[b] = state
<1>1. PICK E : f = [x \in Block |-> IF x = b THEN state
                                    ELSE IF x \in E THEN "absent" ELSE llc[x]]
  BY DEF LlcPut
<1> QED
  BY <1>1 DEF LlcState

(* Only a modified insertion can make a block of the shared cache dirty,   *)
(* and no insertion brings a block but its own.                            *)
LEMMA LlcInsertFacts ==
  ASSUME llc \in [Block -> LlcState], NEW b, NEW state \in {"clean", "dirty"},
         NEW f \in LlcInsert(b, state)
  PROVE  /\ f \in [Block -> LlcState]
         /\ \A x \in Block : x # b \/ state = "clean" =>
              (f[x] = "dirty" => llc[x] = "dirty")
         /\ \A x \in Block : x # b /\ llc[x] = "absent" => f[x] = "absent"
<1>1. CASE llc[b] = "absent"
  <2>1. f \in LlcPut(b, state)
    BY <1>1 DEF LlcInsert
  <2> QED
    BY <2>1, LlcPutFacts DEF LlcState
<1>2. CASE llc[b] # "absent"
  BY <1>2 DEF LlcInsert, LlcState
<1> QED
  BY <1>1, <1>2
-----------------------------------------------------------------------------
(* Type correctness.                                                       *)

(* The return of an access restores well-typed locals.                     *)
LEMMA ReturnType ==
  ASSUME TypeInv, NEW c \in Core, Return(c)
  PROVE  /\ dirLock' \in [DirSet -> Core \cup {NoCore}]
         /\ pc' \in [Core -> {"idle", "lock", "create", "coherence", "fill", "evict"}]
         /\ op' \in [Core -> AccessType]
         /\ block' \in [Core -> Block \cup {NoBlock}]
         /\ slot' \in [Core -> SlotKind]
         /\ victim' \in [Core -> Block \cup {NoBlock}]
         /\ grant' \in [Core -> LineState]
         /\ evicted' \in [Core -> LineState]
         /\ \A d \in Core : LocalsOK(d)'
<1>1. /\ dirLock' \in [DirSet -> Core \cup {NoCore}]
      /\ pc' \in [Core -> {"idle", "lock", "create", "coherence", "fill", "evict"}]
      /\ op' \in [Core -> AccessType]
      /\ block' \in [Core -> Block \cup {NoBlock}]
  BY DEF TypeInv, TypeOK, Return, AccessType
<1>2. /\ slot' \in [Core -> SlotKind]
      /\ victim' \in [Core -> Block \cup {NoBlock}]
      /\ grant' \in [Core -> LineState]
      /\ evicted' \in [Core -> LineState]
  BY DEF TypeInv, TypeOK, Return, SlotKind, LineState
<1>3. ASSUME NEW d \in Core PROVE LocalsOK(d)'
  BY DEF TypeInv, TypeOK, Return, LocalsOK, SlotKind
<1> QED
  BY <1>1, <1>2, <1>3

(* A fill keeps the types when it starts from well-typed lines.            *)
LEMMA FillType ==
  ASSUME TypeInv, NEW c \in Core, pc[c] # "idle",
         NEW ln \in [Cache -> [Block -> LineState]],
         NEW rc \in [Cache -> SUBSET PrivSet],
         NEW state \in LineState,
         Fill(c, ln, rc, state)
  PROVE  /\ line' \in [Cache -> [Block -> LineState]]
         /\ recent' \in [Cache -> SUBSET PrivSet]
         /\ dirLock' \in [DirSet -> Core \cup {NoCore}]
         /\ pc' \in [Core -> {"idle", "lock", "create", "coherence", "fill", "evict"}]
         /\ op' \in [Core -> AccessType]
         /\ block' \in [Core -> Block \cup {NoBlock}]
         /\ slot' \in [Core -> SlotKind]
         /\ victim' \in [Core -> Block \cup {NoBlock}]
         /\ grant' \in [Core -> LineState]
         /\ evicted' \in [Core -> LineState]
         /\ \A d \in Core : LocalsOK(d)'
<1>1. CacheOf(c) \in Cache
  BY CacheForType DEF CacheOf
<1>2. line' \in [Cache -> [Block -> LineState]]
  BY <1>1 DEF Fill, LineState
<1>3. recent' \in [Cache -> SUBSET PrivSet]
  BY <1>1 DEF Fill
<1>4. CASE Evicts(c, rc)
  <2>1. /\ pc' = [pc EXCEPT ![c] = "evict"]
        /\ evicted' = [evicted EXCEPT ![c] = ln[CacheOf(c)][victim[c]]]
        /\ UNCHANGED <<dirLock, op, block, slot, victim, grant>>
    BY <1>4 DEF Fill, request
  <2>2. slot[c] = "Valid" /\ victim[c] \in Block
    BY <1>4 DEF Evicts, TypeInv, LocalsOK
  <2>3. evicted' \in [Core -> LineState]
    BY <1>1, <2>1, <2>2 DEF TypeInv, TypeOK
  <2>4. \A d \in Core : LocalsOK(d)'
    BY <2>1, <2>2 DEF TypeInv, TypeOK, LocalsOK
  <2> QED
    BY <1>2, <1>3, <2>1, <2>3, <2>4 DEF TypeInv, TypeOK
<1>5. CASE ~Evicts(c, rc)
  BY <1>2, <1>3, <1>5, ReturnType DEF Fill
<1> QED
  BY <1>4, <1>5

(* Every step keeps the types and what the poke left in the locals.        *)
LEMMA TypeStep == TypeInv /\ [Next]_vars => TypeInv'
<1> SUFFICES ASSUME TypeInv, [Next]_vars PROVE TypeInv'
  OBVIOUS
<1> USE DEF cacheVars, dirVars, request, access
<1>1. ASSUME NEW c \in Core, NEW o \in Op, NEW b \in Block, PokeHit(c, o, b)
      PROVE  TypeInv'
  <2>1. CacheFor(c, o) \in Cache
    BY CacheForType
  <2>2. recent' \in [Cache -> SUBSET PrivSet]
    BY <1>1, <2>1 DEF PokeHit, ForgetInvalidations, TypeInv, TypeOK
  <2>3. line' = line \/ line' = [line EXCEPT ![CacheFor(c, o)][b] = "M"]
    BY <1>1 DEF PokeHit
  <2>4. line' \in [Cache -> [Block -> LineState]]
    BY SMTT(30), <2>1, <2>3 DEF TypeInv, TypeOK, LineState
  <2> QED
    BY <1>1, <2>2, <2>4 DEF PokeHit, TypeInv, TypeOK, LocalsOK
<1>2. ASSUME NEW c \in Core, NEW o \in Op, NEW b \in Block,
             PokePermissionViolation(c, o, b)
      PROVE  TypeInv'
  <2>1. CacheFor(c, o) \in Cache
    BY CacheForType
  <2>2. recent' \in [Cache -> SUBSET PrivSet]
    BY <1>2, <2>1 DEF PokePermissionViolation, ForgetInvalidations, TypeInv, TypeOK
  <2> QED
    BY <1>2, <2>2, IndexAssumption
    DEF PokePermissionViolation, BeginMiss, TypeInv, TypeOK, LocalsOK, SlotKind
<1>3. ASSUME NEW c \in Core, NEW o \in Op, NEW b \in Block, PokeMiss(c, o, b)
      PROVE  TypeInv'
  <2>1. CacheFor(c, o) \in Cache
    BY CacheForType
  <2>2. recent' \in [Cache -> SUBSET PrivSet]
    BY <1>3, <2>1 DEF PokeMiss, ForgetInvalidations, TypeInv, TypeOK
  <2>3. CASE BeginMiss(c, o, b, "Invalid", NoBlock)
    BY <1>3, <2>2, <2>3, IndexAssumption
    DEF PokeMiss, BeginMiss, TypeInv, TypeOK, LocalsOK, SlotKind
  <2>4. ASSUME NEW v \in Resident(CacheFor(c, o), PSetOf[b]),
               BeginMiss(c, o, b, "Valid", v)
        PROVE  TypeInv'
    <3>1. v \in Block /\ v # b /\ PSetOf[v] = PSetOf[b]
      BY <1>3, <2>4 DEF PokeMiss, Resident
    <3> QED
      BY <1>3, <2>2, <2>4, <3>1, IndexAssumption
      DEF PokeMiss, BeginMiss, TypeInv, TypeOK, LocalsOK, SlotKind
  <2> QED
    BY <1>3, <2>3, <2>4 DEF PokeMiss
<1>4. ASSUME NEW c \in Core, LockDirectorySet(c) PROVE TypeInv'
  <2>1. PICK s \in MissingSets(c) :
          /\ dirLock' = [dirLock EXCEPT ![s] = c]
          /\ pc' = [pc EXCEPT ![c] = IF MissingSets(c) = {s} THEN "create" ELSE "lock"]
    BY <1>4 DEF LockDirectorySet
  <2>2. /\ dirLock' \in [DirSet -> Core \cup {NoCore}]
        /\ pc' \in [Core -> {"idle", "lock", "create", "coherence", "fill", "evict"}]
    BY <2>1 DEF TypeInv, TypeOK
  <2>3. \A d \in Core : LocalsOK(d)'
    BY <1>4, <2>1 DEF LockDirectorySet, TypeInv, TypeOK, LocalsOK
  <2> QED
    BY <1>4, <2>2, <2>3 DEF LockDirectorySet, TypeInv, TypeOK
<1>5. ASSUME NEW c \in Core, FindEntry(c) PROVE TypeInv'
  BY <1>5 DEF FindEntry, TypeInv, TypeOK, LocalsOK
<1>6. ASSUME NEW c \in Core, CreateEntry(c) PROVE TypeInv'
  BY <1>6 DEF CreateEntry, TypeInv, TypeOK, LocalsOK
<1>7. ASSUME NEW c \in Core, NEW e \in Block, CreateEntryEvicting(c, e) PROVE TypeInv'
  <2>1. llc' \in [Block -> LlcState]
    BY <1>7, LlcInsertFacts DEF CreateEntryEvicting, TypeInv, TypeOK
  <2>2. line' \in [Cache -> [Block -> LineState]] /\ recent' \in [Cache -> SUBSET PrivSet]
    <3>1. PICK R : line' = InvalidateLines(R, e) /\ recent' = NoteInvalidations(R, e)
      BY <1>7 DEF CreateEntryEvicting
    <3> QED
      BY <3>1, IndexAssumption
      DEF InvalidateLines, NoteInvalidations, TypeInv, TypeOK, LineState
  <2> QED
    BY <1>7, <2>1, <2>2 DEF CreateEntryEvicting, Asserting, TypeInv, TypeOK, LocalsOK
<1>8. ASSUME NEW c \in Core, LlcMiss(c) \/ LlcHit(c) \/ LlcLate(c) PROVE TypeInv'
  <2>1. llc' \in [Block -> LlcState]
    <3>1. CASE LlcMiss(c)
      <4>1. llc' \in LlcPut(block[c], "clean") \/ llc' = llc
        BY <3>1 DEF LlcMiss
      <4>2. "clean" \in LlcState
        BY DEF LlcState
      <4> QED
        BY <4>1, <4>2, LlcPutFacts DEF TypeInv, TypeOK
    <3>2. CASE LlcHit(c)
      BY <3>2 DEF LlcHit, TypeInv, TypeOK, LlcState
    <3>3. CASE LlcLate(c)
      BY <3>3 DEF LlcLate, TypeInv, TypeOK, LlcState
    <3> QED
      BY <1>8, <3>1, <3>2, <3>3
  <2>2. PICK w, m : TakePermission(c, w, m)
    BY <1>8 DEF LlcMiss, LlcHit, LlcLate
  <2>3. pc[c] = "coherence" /\ block[c] \in Block /\ CacheOf(c) \in Cache /\ UNCHANGED status
    BY <1>8, CacheForType
    DEF LlcMiss, LlcHit, LlcLate, AloneInDirectory, TypeInv, LocalsOK, CacheOf, TakePermission
  <2> QED
    BY <2>1, <2>2, <2>3 DEF TakePermission, StateOf, TypeInv, TypeOK, LocalsOK, LineState
<1>9. ASSUME NEW c \in Core, FillPrivate(c) PROVE TypeInv'
  <2>1. grant[c] \in LineState /\ pc[c] # "idle"
    BY <1>9 DEF FillPrivate, TypeInv, TypeOK
  <2> QED
    BY <1>9, <2>1, FillType DEF FillPrivate, Asserting, TypeInv, TypeOK
<1>10. ASSUME NEW c \in Core, JoinSharers(c) PROVE TypeInv'
  <2>1. llc' \in [Block -> LlcState]
    BY <1>10, LlcInsertFacts DEF JoinSharers, TypeInv, TypeOK
  <2>2. CacheOf(c) \in Cache
    BY CacheForType DEF CacheOf
  <2>3. status' \in {"running", "panicked"}
    BY <1>10 DEF JoinSharers, Asserting, TypeInv, TypeOK
  <2> QED
    BY <1>10, <2>1, <2>2, <2>3 DEF JoinSharers, TypeInv, TypeOK, LocalsOK, LineState
<1>11. ASSUME NEW c \in Core, InvalidateSharers(c) PROVE TypeInv'
  <2> DEFINE R  == {k \in Acquired(c) : line[k][block[c]] # "I"}
             ln == InvalidateLines(R, block[c])
             rc == NoteInvalidations(R, block[c])
  <2>1. pc[c] = "coherence" /\ block[c] \in Block /\ CacheOf(c) \in Cache
    BY <1>11, CacheForType DEF InvalidateSharers, HasSharers, TypeInv, LocalsOK, CacheOf
  <2>2. ln \in [Cache -> [Block -> LineState]] /\ rc \in [Cache -> SUBSET PrivSet]
    BY <2>1, IndexAssumption DEF InvalidateLines, NoteInvalidations, TypeInv, TypeOK, LineState
  <2>3. Fill(c, ln, rc, "M")
    BY <1>11 DEF InvalidateSharers
  <2>4. "M" \in LineState /\ "absent" \in LlcState
    BY DEF LineState, LlcState
  <2>5. /\ llc' \in [Block -> LlcState]
        /\ sharers' \in [Block -> SUBSET Cache]
        /\ shared' \subseteq Block
        /\ tracked' \subseteq Block
        /\ status' \in {"running", "panicked"}
    BY <1>11, <2>1, <2>4 DEF InvalidateSharers, LlcRemove, Asserting, TypeInv, TypeOK
  <2> HIDE DEF ln, rc
  <2> QED
    BY <2>1, <2>2, <2>3, <2>4, <2>5, FillType DEF TypeInv, TypeOK
<1>12. ASSUME NEW c \in Core, DowngradeWriter(c) PROVE TypeInv'
  <2> DEFINE W  == {k \in Acquired(c) : line[k][block[c]] \in Writeable}
             ln == [k \in Cache |->
                      IF k \in W THEN [line[k] EXCEPT ![block[c]] = "S"] ELSE line[k]]
             state == IF \E k \in W : line[k][block[c]] = "M" THEN "dirty" ELSE "clean"
  <2>1. pc[c] = "coherence" /\ block[c] \in Block /\ CacheOf(c) \in Cache
    BY <1>12, CacheForType DEF DowngradeWriter, HasSharers, TypeInv, LocalsOK, CacheOf
  <2>2. ln \in [Cache -> [Block -> LineState]] /\ recent \in [Cache -> SUBSET PrivSet]
    BY <2>1 DEF TypeInv, TypeOK, LineState
  <2>3. Fill(c, ln, recent, "S")
    BY <1>12 DEF DowngradeWriter
  <2>4. "S" \in LineState
    BY DEF LineState
  <2>5. llc' \in [Block -> LlcState]
    <3>1. llc' \in IF FillOnReplica \/ state = "dirty" THEN LlcInsert(block[c], state) ELSE {llc}
      BY <1>12 DEF DowngradeWriter
    <3> QED
      BY <3>1, LlcInsertFacts DEF TypeInv, TypeOK
  <2>6. /\ sharers' \in [Block -> SUBSET Cache]
        /\ shared' \subseteq Block
        /\ tracked' \subseteq Block
        /\ status' \in {"running", "panicked"}
    BY <1>12, <2>1 DEF DowngradeWriter, Asserting, TypeInv, TypeOK
  <2> HIDE DEF ln
  <2> QED
    BY <2>1, <2>2, <2>3, <2>4, <2>5, <2>6, FillType DEF TypeInv, TypeOK
<1>13. ASSUME NEW c \in Core, HandleEviction(c) PROVE TypeInv'
  <2>1. llc' \in [Block -> LlcState]
    BY <1>13, LlcInsertFacts DEF HandleEviction, TypeInv, TypeOK
  <2>2. /\ sharers' \in [Block -> SUBSET Cache]
        /\ status' \in {"running", "panicked"}
        /\ UNCHANGED <<line, recent, tracked, shared>>
    BY <1>13 DEF HandleEviction, Asserting, TypeInv, TypeOK
  <2>3. Return(c)
    BY <1>13 DEF HandleEviction
  <2> QED
    BY <2>1, <2>2, <2>3, ReturnType DEF TypeInv, TypeOK
<1>14. ASSUME NEW s \in DirSet, CollectGarbage(s) PROVE TypeInv'
  BY <1>14 DEF CollectGarbage, TypeInv, TypeOK, LocalsOK
<1>15. CASE UNCHANGED vars
  BY <1>15 DEF vars, TypeInv, TypeOK, LocalsOK
<1> QED
  BY <1>1, <1>2, <1>3, <1>4, <1>5, <1>6, <1>7, <1>8, <1>9, <1>10, <1>11, <1>12, <1>13, <1>14, <1>15
  DEF Next, Poke, Continue, GetOrCreate, Serve

(* The initial state is well typed.                                        *)
LEMMA TypeInit == Init => TypeInv
BY IndexAssumption
DEF Init, TypeInv, TypeOK, LocalsOK, LineState, LlcState, SlotKind, AccessType

(* Type correctness of every behaviour, whatever the configuration.        *)
THEOREM TypeCorrect == Spec => []TypeOK
<1>1. TypeInv => TypeOK
  BY DEF TypeInv
<1> QED
  BY <1>1, TypeInit, TypeStep, PTL DEF Spec

-----------------------------------------------------------------------------
(* A step of core c touches the blocks of a set X whose directory sets no  *)
(* other core holds.  The lemmas OtherCore and OtherBlock carry the        *)
(* invariant over everything outside X, so that each action is left with   *)
(* its own core and the blocks of X.                                       *)

(* What a step leaves alone of the blocks outside X; a store that hits     *)
(* takes no directory lock.                                                *)
Untouched(X) == \A x \in Block \ X :
  /\ \A k \in Cache : \/ line'[k][x] = line[k][x]
                      \/ line[k][x] \in Writeable /\ line'[k][x] = "M"
  /\ sharers'[x] = sharers[x]
  /\ x \in shared' <=> x \in shared
  /\ x \in tracked' <=> x \in tracked
  /\ LlcYields(x) => LlcYields(x)'

(* A step of another core changes no local of core d and takes no lock it  *)
(* holds.                                                                  *)
SameCore(d) ==
  /\ pc'[d] = pc[d] /\ op'[d] = op[d] /\ block'[d] = block[d]
  /\ slot'[d] = slot[d] /\ victim'[d] = victim[d]
  /\ grant'[d] = grant[d] /\ evicted'[d] = evicted[d]
  /\ \A s \in DirSet : dirLock[s] = d => dirLock'[s] = d

(* All another core does to a line of core d is to downgrade it or to      *)
(* invalidate it and leave a note.                                         *)
LosesLines(d, ln, rc) == \A k \in {ICache[d], DCache[d]} :
  /\ recent[k] \subseteq rc[k]
  /\ \A x \in Block :
       \/ ln[k][x] = line[k][x]
       \/ ln[k][x] = "I" /\ PSetOf[x] \in rc[k]
       \/ line[k][x] \in Writeable /\ ln[k][x] = "S"

OnlyLosesLines(d) == LosesLines(d, line', recent')

-----------------------------------------------------------------------------
(* The invariant of a core is kept by a step that touches only blocks whose*)
(* directory sets the core does not hold.                                  *)
LEMMA OtherCore ==
  ASSUME TypeOK, TypeOK', NEW d \in Core, CoreInv(d), SameCore(d), OnlyLosesLines(d),
         NEW X, Untouched(X), \A x \in X \cap Block : dirLock[DSetOf[x]] # d
  PROVE  CoreInv(d)'
<1> DEFINE k == CacheOf(d)
           b == block[d]
<1>1. k \in Cache /\ k \in {ICache[d], DCache[d]} /\ CacheOf(d)' = k
  BY CacheForType DEF CacheOf, SameCore
<1>2. LocalsOK(d)'
  BY DEF CoreInv, LocalsOK, SameCore
<1>3. LocksHeld(d)'
  <2>1. WantedSets(d)' = WantedSets(d)
    BY DEF WantedSets, SameCore
  <2>2. pc[d] \in HoldsLocks => WantedSets(d) \subseteq DirSet
    BY IndexAssumption DEF HoldsLocks, WantedSets, CoreInv, LocalsOK
  <2> QED
    BY <2>1, <2>2 DEF CoreInv, LocksHeld, SameCore
<1>4. PokeStillValid(d)'
  <2>1. pc[d] \in Pending => b \in Block
    BY DEF Pending, CoreInv, LocalsOK
  <2>2. slot[d] = "Valid" => victim[d] \in Block /\ PSetOf[victim[d]] = PSetOf[b]
    BY DEF CoreInv, LocalsOK
  <2>3. Evicts(d, recent)' => Evicts(d, recent)
    BY <1>1 DEF Evicts, SameCore, OnlyLosesLines, LosesLines
  <2>4. ASSUME pc[d] \in Pending, Evicts(d, recent)' PROVE line'[k][victim[d]] # "I"
    <3>1. line[k][victim[d]] # "I"
      BY <2>3, <2>4 DEF CoreInv, PokeStillValid
    <3>2. PSetOf[victim[d]] \notin recent'[k]
      BY <1>1, <2>2, <2>4 DEF Evicts, SameCore
    <3> QED
      BY <1>1, <2>2, <2>4, <3>1, <3>2 DEF Evicts, OnlyLosesLines, LosesLines, SameCore
  <2>5. ASSUME pc[d] \in Pending
        PROVE  /\ slot[d] # "Same" => line'[k][b] = "I"
               /\ slot[d] = "Same" => \/ line'[k][b] = "S" /\ pc[d] # "fill"
                                      \/ line'[k][b] = "I" /\ PSetOf[b] \in recent'[k]
    BY <1>1, <2>1, <2>5 DEF CoreInv, PokeStillValid, OnlyLosesLines, LosesLines, Writeable
  <2> QED
    BY <1>1, <2>4, <2>5 DEF PokeStillValid, SameCore
<1>5. pc[d] \in HoldsLocks => b \in Block \ X
  BY DEF HoldsLocks, CoreInv, LocalsOK, LocksHeld, WantedSets
<1>6. pc[d] = "evict" => victim[d] \in Block \ X
  BY DEF HoldsLocks, CoreInv, LocalsOK, LocksHeld, WantedSets
<1>7. GrantOK(d)'
  BY <1>1, <1>5 DEF CoreInv, GrantOK, SameCore, Untouched, HoldsLocks
<1>8. EvictionOK(d)'
  BY <1>1, <1>6 DEF CoreInv, EvictionOK, SameCore, Untouched, Writeable
<1> QED
  BY <1>2, <1>3, <1>4, <1>7, <1>8 DEF CoreInv

(* The invariant of a block is kept by a step that does not touch it, as   *)
(* long as what is owed to its sharers stays owed.                         *)
LEMMA OtherBlock ==
  ASSUME TypeOK, TypeOK', NEW X, Untouched(X), NEW x \in Block \ X, BlockInv(x),
         \A c \in Core, k \in Cache : OwedBy(c, k, x) => OwedBy(c, k, x)'
  PROVE  BlockInv(x)'
<1>1. Holders(x)' = Holders(x)
  BY DEF Holders, Untouched, Writeable
<1>2. sharers[x] \subseteq Cache
  BY DEF TypeOK
<1> QED
  BY <1>1, <1>2 DEF BlockInv, Untouched, Writeable

(* No other core holds the directory set of a block that core c works on.  *)
LEMMA LocksExclude ==
  ASSUME NEW c \in Core, CoreInv(c), pc[c] \in HoldsLocks
  PROVE  /\ \A d \in Core : d # c => dirLock[DSetOf[block[c]]] # d
         /\ slot[c] = "Valid" => \A d \in Core : d # c => dirLock[DSetOf[victim[c]]] # d
BY DEF CoreInv, LocksHeld, WantedSets

(* A block in a directory set that core c holds is owed nothing by others. *)
LEMMA OwedByHolder ==
  ASSUME NEW c \in Core, NEW d \in Core, CoreInv(d), NEW x \in Block, NEW k,
         dirLock[DSetOf[x]] = c, OwedBy(d, k, x)
  PROVE  d = c
BY DEF OwedBy, CoreInv, LocksHeld, HoldsLocks, WantedSets, LocalsOK
(* An idle core has nothing to keep.                                       *)
LEMMA IdleCore ==
  ASSUME NEW c \in Core, LocalsOK(c), pc[c] = "idle"
  PROVE  CoreInv(c)
BY DEF CoreInv, LocksHeld, PokeStillValid, GrantOK, EvictionOK, HoldsLocks, Pending

(* The invariant holds after a step of core c when it holds for c and for  *)
(* the blocks X the step touches.                                          *)
LEMMA Combine ==
  ASSUME IndInv, TypeOK', NEW c, NEW X, Untouched(X),
         \A x \in X \cap Block : \A d \in Core \ {c} : dirLock[DSetOf[x]] # d,
         \A d \in Core \ {c} : SameCore(d) /\ OnlyLosesLines(d),
         c \in Core => CoreInv(c)',
         c \in Core => \A k \in Cache, x \in Block \ X : OwedBy(c, k, x) => OwedBy(c, k, x)',
         \A x \in X \cap Block : BlockInv(x)'
  PROVE  IndInv'
<1>1. \A d \in Core \ {c} : CoreInv(d)'
  BY OtherCore DEF IndInv
<1>2. \A d \in Core \ {c}, k \in Cache, x \in Block : OwedBy(d, k, x) => OwedBy(d, k, x)'
  BY DEF OwedBy, CacheOf, SameCore
<1>3. \A x \in Block \ X : BlockInv(x)'
  <2>1. ASSUME NEW x \in Block \ X PROVE BlockInv(x)'
    <3>1. \A d \in Core, k \in Cache : OwedBy(d, k, x) => OwedBy(d, k, x)'
      BY <1>2
    <3> QED
      BY <3>1, OtherBlock DEF IndInv
  <2> QED
    BY <2>1
<1> QED
  BY <1>1, <1>3 DEF IndInv

-----------------------------------------------------------------------------
(* The poke: it may hit without any directory lock, and forgets the noted  *)
(* invalidations of a set no access of its core is pending on.             *)
LEMMA PokeSafe ==
  ASSUME IndInv, TypeOK', TypeInv', NEW c \in Core, NEW o \in Op, NEW b \in Block,
         PokeHit(c, o, b) \/ PokePermissionViolation(c, o, b) \/ PokeMiss(c, o, b)
  PROVE  IndInv' /\ status' = status
<1> DEFINE k == CacheFor(c, o)
<1> USE DEF cacheVars, dirVars, request, access
<1>1. k \in Cache /\ k \in {ICache[c], DCache[c]}
  BY CacheForType
<1>2. pc[c] = "idle" /\ ForgetInvalidations(k, b)
      /\ UNCHANGED <<tracked, sharers, shared, llc, dirLock, status>>
  BY DEF PokeHit, PokePermissionViolation, PokeMiss
<1>3. \/ line' = line
      \/ line[k][b] \in Writeable /\ line' = [line EXCEPT ![k][b] = "M"]
  BY DEF PokeHit, PokePermissionViolation, PokeMiss
<1>4. Untouched({})
  <2>1. \A x \in Block, j \in Cache :
          line'[j][x] = line[j][x] \/ (line[j][x] \in Writeable /\ line'[j][x] = "M")
    <3>1. CASE line[k][b] \in Writeable /\ line' = [line EXCEPT ![k][b] = "M"]
      <4>1. line \in [Cache -> [Block -> LineState]]
        BY DEF IndInv, TypeOK
      <4> HIDE DEF k
      <4> QED
        BY <1>1, <3>1, <4>1
    <3> QED
      BY <1>3, <3>1
  <2> QED
    BY <1>2, <2>1 DEF Untouched, LlcYields
<1>5. ASSUME NEW d \in Core \ {c} PROVE SameCore(d) /\ OnlyLosesLines(d)
  <2>1. SameCore(d)
    <3>1. CASE PokeHit(c, o, b)
      BY <3>1, <1>2 DEF SameCore, PokeHit
    <3>2. CASE PokePermissionViolation(c, o, b) \/ PokeMiss(c, o, b)
      <4>1. PICK kind, v : BeginMiss(c, o, b, kind, v)
        BY <3>2 DEF PokePermissionViolation, PokeMiss
      <4> QED
        BY <4>1, <1>2 DEF SameCore, BeginMiss, IndInv, TypeOK
    <3> QED
      BY <3>1, <3>2
  <2>2. k \notin {ICache[d], DCache[d]} /\ {ICache[d], DCache[d]} \subseteq Cache
    <3>1. {ICache[c], DCache[c]} \cap {ICache[d], DCache[d]} = {}
      BY CacheAssumption
    <3>2. {ICache[d], DCache[d]} \subseteq Cache
      BY CacheAssumption
    <3> QED
      BY <1>1, <3>1, <3>2
  <2>3. OnlyLosesLines(d)
    <3>1. line \in [Cache -> [Block -> LineState]] /\ recent \in [Cache -> SUBSET PrivSet]
      BY DEF IndInv, TypeOK
    <3> HIDE DEF k
    <3>2. \A j \in Cache \ {k} : recent'[j] = recent[j] /\ line'[j] = line[j]
      BY <1>1, <1>2, <1>3, <3>1 DEF ForgetInvalidations
    <3> QED
      BY <2>2, <3>2 DEF OnlyLosesLines, LosesLines
  <2> QED
    BY <2>1, <2>3
<1>6. CoreInv(c)'
  <2>1. LocalsOK(c)'
    BY DEF TypeInv
  <2>2. CASE PokeHit(c, o, b)
    BY <2>1, <2>2, <1>2, IdleCore
    DEF PokeHit, CoreInv, LocksHeld, PokeStillValid, GrantOK, EvictionOK, HoldsLocks, Pending
  <2>3. CASE PokePermissionViolation(c, o, b)
    <3>1. pc'[c] = "lock" /\ op'[c] = o /\ block'[c] = b /\ slot'[c] = "Same" /\ CacheOf(c)' = k
      BY <2>3 DEF PokePermissionViolation, BeginMiss, CacheOf, IndInv, TypeOK
    <3>2. line'[k][b] = "S"
      BY <2>3 DEF PokePermissionViolation
    <3> QED
      BY <2>1, <3>1, <3>2
      DEF CoreInv, LocksHeld, PokeStillValid, GrantOK, EvictionOK, HoldsLocks, Evicts
  <2>4. CASE PokeMiss(c, o, b)
    <3>1. /\ pc'[c] = "lock" /\ op'[c] = o /\ block'[c] = b /\ slot'[c] # "Same" /\ CacheOf(c)' = k
          /\ slot'[c] = "Valid" => victim'[c] \in Resident(k, PSetOf[b])
      BY <2>4 DEF PokeMiss, BeginMiss, CacheOf, IndInv, TypeOK
    <3>2. line'[k][b] = "I" /\ (slot'[c] = "Valid" => line'[k][victim'[c]] # "I")
      BY <2>4, <3>1 DEF PokeMiss, Resident
    <3> QED
      BY <2>1, <3>1, <3>2
      DEF CoreInv, LocksHeld, PokeStillValid, GrantOK, EvictionOK, HoldsLocks, Evicts
  <2> QED
    BY <2>2, <2>3, <2>4
<1>7. status' = status
  BY <1>2
<1> QED
  BY <1>2, <1>4, <1>5, <1>6, <1>7, Combine DEF OwedBy
-----------------------------------------------------------------------------
(* A step that changes the locals of one core only.                        *)
LEMMA LockSafe ==
  ASSUME IndInv, TypeOK', TypeInv', NEW c \in Core, LockDirectorySet(c)
  PROVE  IndInv' /\ status' = status
<1> USE DEF cacheVars, dirVars, request, access
<1>1. PICK s \in MissingSets(c) :
        /\ dirLock[s] = NoCore
        /\ dirLock' = [dirLock EXCEPT ![s] = c]
        /\ pc' = [pc EXCEPT ![c] = IF MissingSets(c) = {s} THEN "create" ELSE "lock"]
  BY DEF LockDirectorySet
<1>2. /\ pc[c] = "lock"
      /\ UNCHANGED <<line, recent, tracked, sharers, shared, llc, op, block, slot, victim,
                     grant, evicted, status>>
  BY DEF LockDirectorySet
<1>3. Untouched({})
  BY <1>2 DEF Untouched, LlcYields
<1>4. ASSUME NEW d \in Core \ {c} PROVE SameCore(d) /\ OnlyLosesLines(d)
  BY <1>1, <1>2, IndexAssumption DEF SameCore, OnlyLosesLines, LosesLines, IndInv, TypeOK
<1>5. CoreInv(c)'
  <2>1. LocalsOK(c)'
    BY DEF TypeInv
  <2>2. WantedSets(c)' = WantedSets(c) /\ WantedSets(c) \subseteq DirSet
    BY <1>2, IndexAssumption DEF WantedSets, IndInv, CoreInv, LocalsOK
  <2>3. pc'[c] = "lock" \/ (pc'[c] = "create" /\ MissingSets(c) = {s})
    BY <1>1 DEF IndInv, TypeOK
  <2>4. LocksHeld(c)'
    BY <1>1, <2>2, <2>3 DEF LocksHeld, HoldsLocks, MissingSets, IndInv, TypeOK
  <2>5. PokeStillValid(c)'
    BY <1>2, <2>3 DEF PokeStillValid, IndInv, CoreInv, Pending, CacheOf, Evicts
  <2> QED
    BY <2>1, <2>3, <2>4, <2>5 DEF CoreInv, GrantOK, EvictionOK
<1>6. status' = status
  BY <1>2
<1> QED
  BY <1>2, <1>3, <1>4, <1>5, <1>6, Combine DEF OwedBy

(* A found entry changes nothing; a created one has no sharer yet.         *)
LEMMA FindCreateSafe ==
  ASSUME IndInv, TypeOK', TypeInv', NEW c \in Core, FindEntry(c) \/ CreateEntry(c)
  PROVE  IndInv' /\ status' = status
<1> USE DEF cacheVars, dirVars, request, access
<1>1. /\ pc[c] = "create" /\ pc' = [pc EXCEPT ![c] = "coherence"]
      /\ tracked' = tracked \cup {block[c]}
      /\ UNCHANGED <<line, recent, sharers, shared, llc, dirLock, op, block, slot, victim,
                     grant, evicted, status>>
  BY DEF FindEntry, CreateEntry
<1>2. Untouched({block[c]})
  BY <1>1 DEF Untouched, LlcYields
<1>3. ASSUME NEW d \in Core \ {c} PROVE SameCore(d) /\ OnlyLosesLines(d)
  BY <1>1 DEF SameCore, OnlyLosesLines, LosesLines, IndInv, TypeOK
<1>4. \A d \in Core \ {c} : dirLock[DSetOf[block[c]]] # d
  BY <1>1, LocksExclude DEF HoldsLocks, IndInv
<1>5. CoreInv(c)'
  <2>1. LocalsOK(c)' /\ pc'[c] = "coherence"
    BY <1>1 DEF TypeInv, IndInv, TypeOK
  <2>2. LocksHeld(c)'
    BY <1>1 DEF LocksHeld, WantedSets, HoldsLocks, IndInv, CoreInv
  <2>3. PokeStillValid(c)'
    BY <1>1, <2>1 DEF PokeStillValid, IndInv, CoreInv, Pending, CacheOf, Evicts
  <2> QED
    BY <1>1, <2>1, <2>2, <2>3 DEF CoreInv, GrantOK, EvictionOK
<1>6. block[c] \in Block
  BY <1>1 DEF IndInv, CoreInv, LocalsOK
<1>7. BlockInv(block[c])'
  <2>1. \A d \in Core, k \in Cache : OwedBy(d, k, block[c]) => OwedBy(d, k, block[c])'
    BY <1>1 DEF OwedBy, CacheOf, IndInv, TypeOK
  <2>2. sharers[block[c]] \subseteq Cache
    BY <1>6 DEF IndInv, TypeOK
  <2> QED
    BY <1>1, <1>6, <2>1, <2>2 DEF BlockInv, Holders, IndInv, LlcYields
<1>8. status' = status
  BY <1>1
<1> QED
  BY <1>1, <1>2, <1>3, <1>4, <1>5, <1>7, <1>8, Combine DEF OwedBy

(* Evicting an entry invalidates every replica before it is forgotten.     *)
LEMMA CreateEvictingSafe ==
  ASSUME IndInv, TypeOK', TypeInv',
         NEW c \in Core, NEW e \in Block, CreateEntryEvicting(c, e)
  PROVE  IndInv' /\ (status' = status \/ Reinsertion)
<1> USE DEF cacheVars, dirVars, request, access
<1> DEFINE b == block[c]
           R == {k \in sharers[e] : line[k][e] # "I"}
<1>1. /\ pc[c] = "create" /\ pc' = [pc EXCEPT ![c] = "coherence"]
      /\ b \notin tracked /\ e \in tracked /\ DSetOf[e] = DSetOf[b]
      /\ tracked' = (tracked \ {e}) \cup {b}
      /\ sharers' = [sharers EXCEPT ![e] = {}]
      /\ shared'  = shared \ {e}
      /\ line'    = InvalidateLines(R, e)
      /\ recent'  = NoteInvalidations(R, e)
      /\ llc'     \in LlcInsert(e, "clean")
      /\ Asserting(LlcInsertAllowed(e, "clean"))
      /\ UNCHANGED <<dirLock, op, block, slot, victim, grant, evicted>>
  BY DEF CreateEntryEvicting, DirectoryPeers
<1>2. b \in Block /\ b # e
  BY <1>1 DEF IndInv, CoreInv, LocalsOK
<1>3. \A x \in Block \ {e} : LlcYields(x) => LlcYields(x)'
  <2>1. llc \in [Block -> LlcState] /\ llc' \in LlcInsert(e, "clean")
    BY <1>1 DEF IndInv, TypeOK
  <2> QED
    BY <2>1, LlcInsertFacts DEF LlcYields
<1>4. /\ \A k \in Cache, x \in Block : x # e => line'[k][x] = line[k][x]
      /\ \A k \in Cache : line'[k][e] = "I"
      /\ \A k \in Cache : line'[k][e] = line[k][e] \/ PSetOf[e] \in recent'[k]
      /\ \A k \in Cache : recent[k] \subseteq recent'[k]
  <2>1. \A k \in Cache : k \notin R => line[k][e] = "I"
    BY DEF IndInv, BlockInv, Holders
  <2> QED
    BY <1>1, <2>1 DEF InvalidateLines, NoteInvalidations, IndInv, TypeOK
<1>5. Untouched({b, e})
  BY <1>1, <1>3, <1>4 DEF Untouched, IndInv, TypeOK
<1>6. ASSUME NEW d \in Core \ {c} PROVE SameCore(d) /\ OnlyLosesLines(d)
  <2>1. SameCore(d)
    BY <1>1 DEF SameCore, IndInv, TypeOK
  <2>2. {ICache[d], DCache[d]} \subseteq Cache
    BY CacheAssumption
  <2> QED
    BY <1>4, <2>1, <2>2 DEF OnlyLosesLines, LosesLines
<1>7. \A d \in Core \ {c} : dirLock[DSetOf[b]] # d /\ dirLock[DSetOf[e]] # d
  BY <1>1, LocksExclude DEF HoldsLocks, IndInv
<1>8. CoreInv(c)'
  <2>1. LocalsOK(c)' /\ pc'[c] = "coherence"
    BY <1>1 DEF TypeInv, IndInv, TypeOK
  <2>2. LocksHeld(c)'
    BY <1>1 DEF LocksHeld, WantedSets, HoldsLocks, IndInv, CoreInv
  <2>3. CacheOf(c)' = CacheOf(c) /\ CacheOf(c) \in Cache
    BY <1>1, CacheForType DEF CacheOf
  <2>4. slot[c] = "Valid" => victim[c] \in Block /\ PSetOf[victim[c]] = PSetOf[b]
    BY DEF IndInv, CoreInv, LocalsOK
  <2>5. PokeStillValid(c)
    BY DEF IndInv, CoreInv
  <2>6. PokeStillValid(c)'
    BY <1>1, <1>2, <1>4, <2>1, <2>3, <2>4, <2>5 DEF PokeStillValid, Pending, Evicts
  <2> QED
    BY <1>1, <2>1, <2>2, <2>6 DEF CoreInv, GrantOK, EvictionOK
<1>9. BlockInv(e)'
  BY <1>1, <1>2, <1>4 DEF BlockInv, Holders, Writeable, IndInv, TypeOK
<1>10. BlockInv(b)'
  <2>1. sharers[b] = {} /\ b \notin shared /\ Holders(b) = {}
    BY <1>1, <1>2 DEF IndInv, BlockInv
  <2>2. sharers'[b] = {} /\ b \notin shared' /\ \A k \in Cache : line'[k][b] = "I"
    <3>1. sharers \in [Block -> SUBSET Cache]
      BY DEF IndInv, TypeOK
    <3> QED
      BY <1>1, <1>2, <1>4, <2>1, <3>1 DEF Holders
  <2> QED
    BY <1>1, <2>2 DEF BlockInv, Holders, Writeable
<1>11. status' = status \/ Reinsertion
  BY <1>1 DEF Asserting, LlcInsertAllowed, Reinsertion
<1> QED
  BY <1>1, <1>5, <1>6, <1>7, <1>8, <1>9, <1>10, <1>11, Combine DEF OwedBy
-----------------------------------------------------------------------------
(* The permission of a block nobody holds is recorded before the fill.     *)
LEMMA TakeSafe ==
  ASSUME IndInv, TypeOK', TypeInv', NEW c \in Core, LlcMiss(c) \/ LlcHit(c) \/ LlcLate(c)
  PROVE  IndInv' /\ status' = status
<1> USE DEF cacheVars, dirVars, request, access
<1> DEFINE b == block[c]
           k == CacheOf(c)
<1>1. /\ pc[c] = "coherence" /\ sharers[b] = {}
      /\ UNCHANGED <<line, recent, tracked, dirLock, op, block, slot, victim, evicted, status>>
  BY DEF LlcMiss, LlcHit, LlcLate, AloneInDirectory, TakePermission
<1>2. b \in Block /\ b \in tracked /\ k \in Cache /\ CacheOf(c)' = k
  BY <1>1, CacheForType DEF IndInv, CoreInv, LocalsOK, GrantOK, CacheOf
<1>3. PICK w \in BOOLEAN, m \in BOOLEAN :
        TakePermission(c, w, m) /\ (m => w)
        /\ (w \/ m => llc'[b] # "dirty" /\ (LlcExclusive => llc'[b] = "absent"))
  <2>1. CASE LlcMiss(c)
    <3>1. "clean" \in LlcState /\ llc \in [Block -> LlcState]
      BY DEF LlcState, IndInv, TypeOK
    <3>2. llc'[b] # "dirty" /\ (LlcExclusive => llc'[b] = "absent")
      BY <1>2, <2>1, <3>1, LlcPutFacts, FlagAssumption DEF LlcMiss, BringsIntoLlc
    <3>3. /\ AsksToWrite(op[c]) \in BOOLEAN /\ IsStore(op[c]) \in BOOLEAN
          /\ IsStore(op[c]) => AsksToWrite(op[c])
      BY DEF AsksToWrite, IsStore
    <3> QED
      BY <2>1, <3>2, <3>3 DEF LlcMiss
  <2>2. CASE LlcHit(c)
    <3>1. llc'[b] # "dirty" /\ (LlcExclusive => llc'[b] = "absent")
      BY <1>2, <2>2 DEF LlcHit, IndInv, TypeOK
    <3> QED
      BY <2>2, <3>1 DEF LlcHit, AsksToWrite, IsStore
  <2>3. CASE LlcLate(c)
    BY <2>3 DEF LlcLate
  <2> QED
    BY <2>1, <2>2, <2>3
<1>4. /\ sharers' = [sharers EXCEPT ![b] = {k}]
      /\ shared' = IF w THEN shared \ {b} ELSE shared \cup {b}
      /\ grant' = [grant EXCEPT ![c] = StateOf(w, m)]
      /\ pc' = [pc EXCEPT ![c] = "fill"]
  BY <1>3 DEF TakePermission
<1>5. \A x \in Block \ {b} : LlcYields(x) => LlcYields(x)'
  <2>1. CASE LlcMiss(c)
    <3>1. "clean" \in LlcState /\ llc \in [Block -> LlcState]
      BY DEF LlcState, IndInv, TypeOK
    <3> QED
      BY <2>1, <3>1, LlcPutFacts DEF LlcMiss, LlcYields
  <2>2. CASE LlcHit(c) \/ LlcLate(c)
    BY <2>2, <1>2 DEF LlcHit, LlcLate, LlcYields, IndInv, TypeOK
  <2> QED
    BY <2>1, <2>2
<1>6. Untouched({b})
  BY <1>1, <1>2, <1>4, <1>5 DEF Untouched, IndInv, TypeOK
<1>7. ASSUME NEW d \in Core \ {c} PROVE SameCore(d) /\ OnlyLosesLines(d)
  BY <1>1, <1>4 DEF SameCore, OnlyLosesLines, LosesLines, IndInv, TypeOK
<1>8. \A d \in Core \ {c} : dirLock[DSetOf[b]] # d
  BY <1>1, LocksExclude DEF HoldsLocks, IndInv
<1>9. pc'[c] = "fill" /\ grant'[c] = StateOf(w, m) /\ sharers'[b] = {k}
  BY <1>2, <1>4 DEF IndInv, TypeOK
<1>10. line[k][b] = "I" /\ Holders(b) = {}
  BY <1>1, <1>2 DEF IndInv, BlockInv, Holders
<1>11. CoreInv(c)'
  <2>1. LocalsOK(c)'
    BY DEF TypeInv
  <2>2. LocksHeld(c)'
    BY <1>1 DEF LocksHeld, WantedSets, HoldsLocks, IndInv, CoreInv
  <2>3. PokeStillValid(c)
    BY DEF IndInv, CoreInv
  <2>4. PokeStillValid(c)'
    BY <1>1, <1>2, <1>9, <1>10, <2>3 DEF PokeStillValid, Pending, Evicts
  <2>5. GrantOK(c)'
    BY <1>1, <1>2, <1>3, <1>4, <1>9 DEF GrantOK, StateOf, Writeable, LlcYields
  <2> QED
    BY <1>9, <2>1, <2>2, <2>4, <2>5 DEF CoreInv, EvictionOK
<1>12. BlockInv(b)'
  <2>1. OwedBy(c, k, b)'
    BY <1>1, <1>2, <1>9 DEF OwedBy
  <2>2. \A j \in Cache : line'[j][b] = "I"
    BY <1>1, <1>10 DEF Holders
  <2> QED
    BY <1>1, <1>2, <1>9, <2>1, <2>2 DEF BlockInv, Holders, Writeable
<1>13. status' = status
  BY <1>1
<1> QED
  BY <1>1, <1>6, <1>7, <1>8, <1>11, <1>12, <1>13, Combine DEF OwedBy

(* A reader joins a shared entry before it fills.                          *)
LEMMA JoinSafe ==
  ASSUME IndInv, TypeOK', TypeInv', NEW c \in Core, JoinSharers(c)
  PROVE  IndInv' /\ status' = status
<1> USE DEF cacheVars, dirVars, request, access
<1> DEFINE b == block[c]
           k == CacheOf(c)
<1>1. /\ pc[c] = "coherence" /\ b \in shared /\ ~IsStore(op[c])
      /\ sharers' = [sharers EXCEPT ![b] = @ \cup {k}]
      /\ grant' = [grant EXCEPT ![c] = "S"]
      /\ pc' = [pc EXCEPT ![c] = "fill"]
      /\ UNCHANGED <<line, recent, tracked, shared, dirLock, op, block, slot, victim, evicted>>
  BY DEF JoinSharers, HasSharers
<1>2. b \in Block /\ k \in Cache /\ CacheOf(c)' = k
  BY <1>1, CacheForType DEF IndInv, CoreInv, LocalsOK, CacheOf
<1>3. \A x \in Block \ {b} : LlcYields(x) => LlcYields(x)'
  <2>1. llc \in [Block -> LlcState]
    BY DEF IndInv, TypeOK
  <2> QED
    BY <2>1, LlcInsertFacts DEF JoinSharers, LlcYields
<1>4. Untouched({b})
  BY <1>1, <1>2, <1>3 DEF Untouched, IndInv, TypeOK
<1>5. ASSUME NEW d \in Core \ {c} PROVE SameCore(d) /\ OnlyLosesLines(d)
  BY <1>1 DEF SameCore, OnlyLosesLines, LosesLines, IndInv, TypeOK
<1>6. \A d \in Core \ {c} : dirLock[DSetOf[b]] # d
  BY <1>1, LocksExclude DEF HoldsLocks, IndInv
<1>7. pc'[c] = "fill" /\ grant'[c] = "S" /\ sharers'[b] = sharers[b] \cup {k}
  BY <1>1, <1>2 DEF IndInv, TypeOK
<1>8. slot[c] # "Same" /\ PokeStillValid(c)
  BY <1>1 DEF IndInv, CoreInv, LocalsOK
<1>9. CoreInv(c)'
  <2>1. LocalsOK(c)'
    BY DEF TypeInv
  <2>2. LocksHeld(c)'
    BY <1>1 DEF LocksHeld, WantedSets, HoldsLocks, IndInv, CoreInv
  <2>3. PokeStillValid(c)'
    BY <1>1, <1>2, <1>8 DEF PokeStillValid, Pending, Evicts
  <2>4. GrantOK(c)'
    BY <1>1, <1>2, <1>7 DEF GrantOK, Writeable
  <2> QED
    BY <1>7, <2>1, <2>2, <2>3, <2>4 DEF CoreInv, EvictionOK
<1>10. BlockInv(b)'
  <2>1. OwedBy(c, k, b)'
    BY <1>1, <1>2, <1>7 DEF OwedBy
  <2>2. BlockInv(b)
    BY <1>2 DEF IndInv
  <2>3. \A d \in Core, j \in Cache : OwedBy(d, j, b) => OwedBy(d, j, b)'
    BY <1>1, <1>2, <2>1 DEF OwedBy, CacheOf, IndInv, TypeOK
  <2>4. sharers[b] \subseteq Cache
    BY <1>2 DEF IndInv, TypeOK
  <2> QED
    BY <1>1, <1>2, <1>7, <2>1, <2>2, <2>3, <2>4 DEF BlockInv, Holders
<1>11. status' = status
  BY FlagAssumption DEF JoinSharers, Asserting, LlcInsertAllowed
<1> QED
  BY <1>1, <1>4, <1>5, <1>6, <1>9, <1>10, <1>11, Combine DEF OwedBy
-----------------------------------------------------------------------------
(* The fill.                                                               *)

(* What a fill does to the lines, the notes and the locals.                *)
LEMMA FillFacts ==
  ASSUME TypeOK, NEW c \in Core, LocalsOK(c), pc[c] # "idle",
         NEW ln \in [Cache -> [Block -> LineState]], NEW rc, NEW state,
         Fill(c, ln, rc, state)
  PROVE  /\ \A j \in Cache, x \in Block :
              line'[j][x] = IF j = CacheOf(c) /\ x = block[c] THEN state
                            ELSE IF j = CacheOf(c) /\ Evicts(c, rc) /\ x = victim[c] THEN "I"
                            ELSE ln[j][x]
         /\ Evicts(c, rc) =>
              /\ pc'[c] = "evict" /\ evicted'[c] = ln[CacheOf(c)][victim[c]]
              /\ UNCHANGED <<dirLock, op, block, slot, victim, grant>>
         /\ ~Evicts(c, rc) => pc'[c] = "idle"
         /\ \A d \in Core \ {c} : SameCore(d)
<1> USE DEF request
<1>1. CacheOf(c) \in Cache
  BY CacheForType DEF CacheOf
<1>2. \A j \in Cache, x \in Block :
        line'[j][x] = IF j = CacheOf(c) /\ x = block[c] THEN state
                      ELSE IF j = CacheOf(c) /\ Evicts(c, rc) /\ x = victim[c] THEN "I"
                      ELSE ln[j][x]
  BY <1>1 DEF Fill
<1>3. CASE Evicts(c, rc)
  <2>1. /\ pc' = [pc EXCEPT ![c] = "evict"]
        /\ evicted' = [evicted EXCEPT ![c] = ln[CacheOf(c)][victim[c]]]
        /\ UNCHANGED <<dirLock, op, block, slot, victim, grant>>
    BY <1>3 DEF Fill
  <2>2. \A d \in Core \ {c} : SameCore(d)
    BY <2>1 DEF SameCore, TypeOK
  <2> QED
    BY <1>2, <1>3, <2>1, <2>2 DEF TypeOK
<1>4. CASE ~Evicts(c, rc)
  <2>1. Return(c)
    BY <1>4 DEF Fill
  <2>2. \A d \in Core \ {c} : SameCore(d)
    BY <2>1 DEF Return, SameCore, TypeOK
  <2> QED
    BY <1>2, <1>4, <2>1, <2>2 DEF Return, TypeOK
<1> QED
  BY <1>3, <1>4

(* A fill, alone or after the coherence actions of the same critical       *)
(* section on the filled block, keeps the invariant when those actions     *)
(* leave the filled block in order.                                        *)
LEMMA FillSafe ==
  ASSUME IndInv, TypeOK', TypeInv', NEW c \in Core,
         pc[c] \in {"coherence", "fill"},
         NEW ln \in [Cache -> [Block -> LineState]], NEW rc, NEW state \in LineState,
         Fill(c, ln, rc, state),
         NEW b \in Block, b = block[c],
         recent' = [rc EXCEPT ![CacheOf(c)] = @ \ {PSetOf[b]}],
         rc \in [Cache -> SUBSET PrivSet],
         \A j \in Cache : \A x \in Block \ {b} : ln[j][x] = line[j][x],
         \A d \in Core : LosesLines(d, ln, rc),
         \A x \in Block \ {b} :
            /\ sharers'[x] = sharers[x]
            /\ x \in shared' <=> x \in shared
            /\ x \in tracked' <=> x \in tracked
            /\ LlcYields(x) => LlcYields(x)',
         BlockInv(b)'
  PROVE  IndInv'
<1> DEFINE k == CacheOf(c)
           X == {b} \cup (IF Evicts(c, rc) THEN {victim[c]} ELSE {})
<1>1. k \in Cache /\ k \in {ICache[c], DCache[c]}
  BY CacheForType DEF CacheOf
<1>2. LocalsOK(c) /\ PokeStillValid(c) /\ pc[c] # "idle" /\ pc[c] \in HoldsLocks
  BY DEF IndInv, CoreInv, HoldsLocks
<1>3. /\ \A j \in Cache, x \in Block :
              line'[j][x] = IF j = k /\ x = b THEN state
                            ELSE IF j = k /\ Evicts(c, rc) /\ x = victim[c] THEN "I"
                            ELSE ln[j][x]
      /\ Evicts(c, rc) =>
              /\ pc'[c] = "evict" /\ evicted'[c] = ln[k][victim[c]]
              /\ UNCHANGED <<dirLock, op, block, slot, victim, grant>>
      /\ ~Evicts(c, rc) => pc'[c] = "idle"
      /\ \A d \in Core \ {c} : SameCore(d)
  BY <1>2, FillFacts DEF IndInv
<1>4. Evicts(c, rc) =>
        /\ slot[c] = "Valid" /\ victim[c] \in Block \ {b}
        /\ line[k][victim[c]] # "I"
        /\ k \in sharers[victim[c]]
  <2>1. Evicts(c, rc) => Evicts(c, recent)
    BY <1>1 DEF Evicts, LosesLines
  <2>2. Evicts(c, rc) => slot[c] = "Valid" /\ victim[c] \in Block \ {b}
    BY <1>2 DEF Evicts, LocalsOK
  <2>3. Evicts(c, rc) => line[k][victim[c]] # "I"
    BY <1>2, <2>1 DEF PokeStillValid, Pending
  <2> QED
    BY <1>1, <2>2, <2>3 DEF IndInv, BlockInv, Holders
<1>5. Untouched(X)
  <2>1. \A x \in Block \ X, j \in Cache : line'[j][x] = line[j][x]
    BY <1>3
  <2> QED
    BY <2>1 DEF Untouched
<1>6. \A x \in X : \A d \in Core \ {c} : dirLock[DSetOf[x]] # d
  BY <1>2, <1>4, LocksExclude DEF IndInv
<1>7. ASSUME NEW d \in Core \ {c} PROVE OnlyLosesLines(d)
  <2>1. k \notin {ICache[d], DCache[d]}
    <3>1. {ICache[c], DCache[c]} \cap {ICache[d], DCache[d]} = {}
      BY CacheAssumption
    <3> QED
      BY <1>1, <3>1
  <2>2. {ICache[d], DCache[d]} \subseteq Cache
    BY CacheAssumption
  <2>3. \A j \in {ICache[d], DCache[d]} : recent'[j] = rc[j] /\ \A x \in Block : line'[j][x] = ln[j][x]
    BY <1>3, <2>1, <2>2
  <2>4. LosesLines(d, ln, rc)
    OBVIOUS
  <2> QED
    BY <2>3, <2>4 DEF OnlyLosesLines, LosesLines
<1>8. CoreInv(c)'
  <2>1. LocalsOK(c)'
    BY DEF TypeInv
  <2>2. CASE ~Evicts(c, rc)
    BY <1>3, <2>1, <2>2
    DEF CoreInv, LocksHeld, PokeStillValid, GrantOK, EvictionOK, HoldsLocks, Pending
  <2>3. CASE Evicts(c, rc)
    <3>1. WantedSets(c)' = WantedSets(c) /\ CacheOf(c)' = k
      BY <1>3, <2>3 DEF WantedSets, CacheOf
    <3>2. LocksHeld(c)'
      BY <1>2, <1>3, <2>3, <3>1 DEF LocksHeld, IndInv, CoreInv
    <3>3. EvictionOK(c)'
      <4>1. /\ line'[k][victim[c]] = "I"
            /\ evicted'[c] = line[k][victim[c]]
            /\ sharers'[victim[c]] = sharers[victim[c]]
            /\ LlcYields(victim[c]) => LlcYields(victim[c])' 
        BY <1>1, <1>3, <1>4, <2>3
      <4>2. evicted'[c] \in Writeable => sharers[victim[c]] = {k} /\ LlcYields(victim[c])
        BY <1>1, <1>4, <2>3, <4>1 DEF IndInv, BlockInv
      <4> QED
        BY <1>3, <1>4, <2>3, <3>1, <4>1, <4>2 DEF EvictionOK
    <3> QED
      BY <1>3, <2>1, <2>3, <3>2, <3>3 DEF CoreInv, PokeStillValid, GrantOK, Pending
  <2> QED
    BY <2>2, <2>3
<1>9. ASSUME NEW v \in Block, Evicts(c, rc), v = victim[c] PROVE BlockInv(v)'
  <2>1. v # b /\ k \in sharers[v] /\ sharers'[v] = sharers[v] /\ BlockInv(v)
    BY <1>4, <1>9 DEF IndInv
  <2>2. ASSUME NEW j, j = k PROVE OwedBy(c, j, v)'
    BY <1>3, <1>9, <2>2 DEF OwedBy, CacheOf
  <2>3. \A j \in Cache \ {k} : line'[j][v] = line[j][v]
    BY <1>3, <2>1
  <2>4. line'[k][v] = "I"
    BY <1>1, <1>3, <1>9, <2>1
  <2>5. ASSUME NEW j \in sharers[v], j # k PROVE line[j][v] # "I"
    <3>1. \A d \in Core : ~OwedBy(d, j, v)
      <4>1. SUFFICES ASSUME NEW d \in Core, OwedBy(d, j, v) PROVE FALSE
        OBVIOUS
      <4>2. dirLock[DSetOf[v]] = c
        BY <1>2, <1>4, <1>9 DEF IndInv, CoreInv, LocksHeld, WantedSets
      <4>3. d = c
        BY <4>1, <4>2, OwedByHolder DEF IndInv
      <4> QED
        BY <2>5, <4>1, <4>3 DEF OwedBy
    <3> QED
      BY <2>1, <2>5, <3>1 DEF BlockInv
  <2>6. sharers[v] \subseteq Cache
    BY DEF IndInv, TypeOK
  <2>7. Holders(v)' \subseteq sharers'[v]
    BY <2>1, <2>3, <2>4 DEF Holders, BlockInv
  <2>8. \A j \in sharers'[v] : line'[j][v] # "I" \/ \E d \in Core : OwedBy(d, j, v)'
    <3>1. ASSUME NEW j \in sharers'[v]
          PROVE  line'[j][v] # "I" \/ \E d \in Core : OwedBy(d, j, v)'
      <4>1. CASE j = k
        <5>1. OwedBy(c, j, v)'
          BY <2>2, <4>1
        <5> QED
          BY <5>1
      <4>2. CASE j # k
        BY <2>1, <2>3, <2>5, <2>6, <3>1, <4>2
      <4> QED
        BY <4>1, <4>2
    <3> QED
      BY <3>1
  <2>9. /\ v \notin tracked' => sharers'[v] = {} /\ v \notin shared'
        /\ \A j \in Cache :
             /\ line'[j][v] \in Writeable => sharers'[v] = {j} /\ v \notin shared' /\ LlcYields(v)'
             /\ line'[j][v] = "S" => v \in shared'
    BY <2>1, <2>3, <2>4 DEF BlockInv, Writeable
  <2> QED
    BY <2>7, <2>8, <2>9 DEF BlockInv
<1>10. \A j \in Cache, x \in Block \ X : OwedBy(c, j, x) => OwedBy(c, j, x)'
  BY DEF OwedBy
<1>11. \A x \in X \cap Block : BlockInv(x)'
  BY <1>9
<1> HIDE DEF X
<1> QED
  BY <1>3, <1>5, <1>6, <1>7, <1>8, <1>10, <1>11, Combine
(* The fill of a miss nobody else held, or of a joined entry.              *)
LEMMA FillPrivateSafe ==
  ASSUME IndInv, TypeOK', TypeInv', NEW c \in Core, FillPrivate(c)
  PROVE  IndInv' /\ status' = status
<1> DEFINE k == CacheOf(c)
<1>1. /\ pc[c] = "fill" /\ Fill(c, line, recent, grant[c])
      /\ Asserting(FillAllowed(c, line, recent))
      /\ UNCHANGED <<tracked, sharers, shared, llc>>
  BY DEF FillPrivate, dirVars
<1>2. PICK b \in Block : b = block[c]
  BY <1>1 DEF IndInv, CoreInv, LocalsOK
<1>3. LocalsOK(c) /\ PokeStillValid(c) /\ GrantOK(c) /\ BlockInv(b) /\ k \in Cache
  BY <1>1, CacheForType DEF IndInv, CoreInv, CacheOf
<1>4. status' = status
  BY <1>1, <1>3 DEF Asserting, FillAllowed, PokeStillValid, Pending
<1>5. /\ line \in [Cache -> [Block -> LineState]] /\ recent \in [Cache -> SUBSET PrivSet]
      /\ grant[c] \in LineState /\ sharers[b] \subseteq Cache
  BY DEF IndInv, TypeOK
<1>6. recent' = [recent EXCEPT ![CacheOf(c)] = @ \ {PSetOf[b]}]
  BY <1>1, <1>2 DEF Fill
<1>7. \A j \in Cache : line'[j][b] = IF j = k THEN grant[c] ELSE line[j][b]
  <2>1. Evicts(c, recent) => victim[c] # b
    BY <1>2, <1>3 DEF Evicts, LocalsOK
  <2> QED
    BY <1>1, <1>2, <1>3, <1>5, <2>1, FillFacts DEF IndInv
<1>8. BlockInv(b)'
  <2>1. /\ grant[c] # "I" /\ k \in sharers[b]
        /\ grant[c] = "S" => b \in shared
        /\ grant[c] \in Writeable => sharers[b] = {k} /\ b \notin shared /\ LlcYields(b)
    BY <1>1, <1>2, <1>3 DEF GrantOK
  <2>2. \A j \in sharers[b] : line'[j][b] # "I"
    <3>1. SUFFICES ASSUME NEW j \in sharers[b], j # k PROVE line[j][b] # "I"
      BY <1>5, <1>7, <2>1
    <3>2. ASSUME NEW d \in Core, OwedBy(d, j, b) PROVE FALSE
      <4>1. dirLock[DSetOf[b]] = c
        BY <1>1, <1>2 DEF IndInv, CoreInv, LocksHeld, WantedSets, HoldsLocks
      <4>2. d = c
        BY <3>2, <4>1, OwedByHolder DEF IndInv
      <4> QED
        BY <3>1, <3>2, <4>2 DEF OwedBy
    <3> QED
      BY <1>3, <3>2 DEF BlockInv
  <2>3. Holders(b)' \subseteq sharers'[b]
    BY <1>1, <1>3, <1>7, <2>1 DEF Holders, BlockInv
  <2>4. \A j \in Cache :
          /\ line'[j][b] \in Writeable => sharers'[b] = {j} /\ b \notin shared' /\ LlcYields(b)'
          /\ line'[j][b] = "S" => b \in shared'
    BY <1>1, <1>3, <1>7, <2>1 DEF BlockInv, LlcYields
  <2>5. b \notin tracked' => sharers'[b] = {} /\ b \notin shared'
    BY <1>1, <1>3 DEF BlockInv
  <2> QED
    BY <1>1, <2>2, <2>3, <2>4, <2>5 DEF BlockInv
<1>9. \A d \in Core : LosesLines(d, line, recent)
  BY DEF LosesLines
<1>10. \A x \in Block \ {b} :
            /\ sharers'[x] = sharers[x]
            /\ x \in shared' <=> x \in shared
            /\ x \in tracked' <=> x \in tracked
            /\ LlcYields(x) => LlcYields(x)'
  BY <1>1 DEF LlcYields
<1> QED
  BY <1>1, <1>2, <1>4, <1>5, <1>6, <1>8, <1>9, <1>10, FillSafe

(* In the coherence step the requester is a sharer exactly when it holds a *)
(* read-only line, and every sharer holds a line.                          *)
LEMMA SharersHold ==
  ASSUME IndInv, NEW c \in Core, pc[c] = "coherence", NEW b \in Block, b = block[c]
  PROVE  \A j \in sharers[b] : line[j][b] # "I"
<1>1. ASSUME NEW j \in sharers[b], NEW d \in Core, OwedBy(d, j, b) PROVE FALSE
  <2>1. dirLock[DSetOf[b]] = c
    BY DEF IndInv, CoreInv, LocksHeld, WantedSets, HoldsLocks
  <2>2. d = c
    BY <1>1, <2>1, OwedByHolder DEF IndInv
  <2> QED
    BY <1>1, <2>2 DEF OwedBy
<1> QED
  BY <1>1 DEF IndInv, BlockInv

(* A store invalidates every replica, and is then alone.                   *)
LEMMA InvalidateSafe ==
  ASSUME IndInv, TypeOK', TypeInv', NEW c \in Core, InvalidateSharers(c)
  PROVE  IndInv' /\ status' = status
<1> DEFINE k  == CacheOf(c)
           R  == {j \in Acquired(c) : line[j][block[c]] # "I"}
           ln == InvalidateLines(R, block[c])
           rc == NoteInvalidations(R, block[c])
<1>1. /\ pc[c] = "coherence"
      /\ llc' = [llc EXCEPT ![block[c]] = "absent"]
      /\ sharers' = [sharers EXCEPT ![block[c]] = {k}]
      /\ shared'  = shared \ {block[c]}
      /\ UNCHANGED tracked
      /\ Fill(c, ln, rc, "M")
      /\ Asserting(/\ AcquireListOK(c) /\ Acquired(c) \ R \subseteq {k}
                   /\ FillAllowed(c, ln, rc))
  BY DEF InvalidateSharers, HasSharers, LlcRemove
<1>2. PICK b \in Block : b = block[c]
  BY <1>1 DEF IndInv, CoreInv, LocalsOK
<1>3. LocalsOK(c) /\ PokeStillValid(c) /\ GrantOK(c) /\ BlockInv(b) /\ k \in Cache
  BY <1>1, CacheForType DEF IndInv, CoreInv, CacheOf
<1>4. /\ line \in [Cache -> [Block -> LineState]] /\ recent \in [Cache -> SUBSET PrivSet]
      /\ sharers \in [Block -> SUBSET Cache] /\ llc \in [Block -> LlcState]
  BY DEF IndInv, TypeOK
<1>5. \A j \in sharers[b] : line[j][b] # "I"
  BY <1>1, <1>2, SharersHold
<1>6. \A j \in Cache : /\ ln[j][b] = "I"
                       /\ \A x \in Block \ {b} : ln[j][x] = line[j][x]
                       /\ (line[j][b] = "I" \/ PSetOf[b] \in rc[j])
                       /\ recent[j] \subseteq rc[j]
  <2>1. \A j \in Cache : j \notin R => line[j][b] = "I"
    BY <1>2, <1>3 DEF BlockInv, Holders, Acquired
  <2> QED
    BY <1>2, <1>4, <2>1 DEF InvalidateLines, NoteInvalidations
<1>7. ln \in [Cache -> [Block -> LineState]] /\ rc \in [Cache -> SUBSET PrivSet]
  BY <1>2, <1>4, IndexAssumption DEF InvalidateLines, NoteInvalidations, LineState
<1>8. status' = status
  <2>1. AcquireListOK(c)
    BY <1>1, <1>2, <1>3, <1>5 DEF AcquireListOK, PokeStillValid, Pending
  <2>2. Acquired(c) \ R \subseteq {k}
    BY <1>2, <1>5 DEF Acquired
  <2>3. FillAllowed(c, ln, rc)
    <3> HIDE DEF ln, rc
    <3>1. slot[c] = "Same" => PSetOf[b] \in rc[k]
      BY <1>1, <1>2, <1>3, <1>6 DEF PokeStillValid, Pending
    <3> QED
      BY <1>2, <1>3, <1>6, <3>1 DEF FillAllowed
  <2> QED
    BY <1>1, <2>1, <2>2, <2>3 DEF Asserting
<1>9. \A d \in Core : LosesLines(d, ln, rc)
  <2> HIDE DEF ln, rc
  <2>1. ASSUME NEW d \in Core, NEW j \in {ICache[d], DCache[d]}
        PROVE  /\ recent[j] \subseteq rc[j]
               /\ \A x \in Block : \/ ln[j][x] = line[j][x]
                                   \/ ln[j][x] = "I" /\ PSetOf[x] \in rc[j]
    <3>1. j \in Cache
      BY <2>1, CacheAssumption
    <3> QED
      BY <1>6, <3>1
  <2> QED
    BY <2>1 DEF LosesLines
<1> HIDE DEF ln, rc
<1>10. recent' = [rc EXCEPT ![CacheOf(c)] = @ \ {PSetOf[b]}]
  BY <1>1, <1>2 DEF Fill
<1>11. "M" \in LineState /\ "M" # "I" /\ "M" # "S"
  BY DEF LineState
<1>12. \A j \in Cache : line'[j][b] = IF j = k THEN "M" ELSE "I"
  <2>1. Evicts(c, rc) => victim[c] # b
    BY <1>2, <1>3 DEF Evicts, LocalsOK
  <2> QED
    BY <1>1, <1>2, <1>3, <1>6, <1>7, <1>11, <2>1, FillFacts DEF IndInv
<1>13. BlockInv(b)'
  <2>1. sharers'[b] = {k} /\ b \notin shared' /\ LlcYields(b)' /\ b \in tracked'
    BY <1>1, <1>2, <1>3, <1>4 DEF GrantOK, LlcYields
  <2> QED
    BY <1>3, <1>12, <2>1 DEF BlockInv, Holders, Writeable
<1>14. \A x \in Block \ {b} :
            /\ sharers'[x] = sharers[x]
            /\ x \in shared' <=> x \in shared
            /\ x \in tracked' <=> x \in tracked
            /\ LlcYields(x) => LlcYields(x)'
  BY <1>1, <1>2, <1>4 DEF LlcYields
<1>15. \A j \in Cache : \A x \in Block \ {b} : ln[j][x] = line[j][x]
  BY <1>6
<1> QED
  BY <1>1, <1>2, <1>7, <1>8, <1>9, <1>10, <1>11, <1>13, <1>14, <1>15, FillSafe
(* A read takes the permission away from the writer, if there is one.      *)
LEMMA DowngradeSafe ==
  ASSUME IndInv, TypeOK', TypeInv', NEW c \in Core, DowngradeWriter(c)
  PROVE  IndInv' /\ status' = status
<1> DEFINE k  == CacheOf(c)
           W  == {j \in Acquired(c) : line[j][block[c]] \in Writeable}
           state == IF \E j \in W : line[j][block[c]] = "M" THEN "dirty" ELSE "clean"
           ln == [j \in Cache |->
                    IF j \in W THEN [line[j] EXCEPT ![block[c]] = "S"] ELSE line[j]]
<1>1. /\ pc[c] = "coherence" /\ ~IsStore(op[c])
      /\ llc' \in IF FillOnReplica \/ state = "dirty" THEN LlcInsert(block[c], state) ELSE {llc}
      /\ sharers' = [sharers EXCEPT ![block[c]] = @ \cup {k}]
      /\ shared'  = shared \cup {block[c]}
      /\ UNCHANGED tracked
      /\ Fill(c, ln, recent, "S")
      /\ Asserting(/\ AcquireListOK(c) /\ slot[c] # "Same"
                   /\ \A i, j \in W : i = j
                   /\ (FillOnReplica \/ state = "dirty") => LlcInsertAllowed(block[c], state)
                   /\ FillAllowed(c, ln, recent))
  BY DEF DowngradeWriter, HasSharers
<1>2. PICK b \in Block : b = block[c]
  BY <1>1 DEF IndInv, CoreInv, LocalsOK
<1>3. LocalsOK(c) /\ PokeStillValid(c) /\ GrantOK(c) /\ BlockInv(b) /\ k \in Cache
  BY <1>1, CacheForType DEF IndInv, CoreInv, CacheOf
<1>4. /\ line \in [Cache -> [Block -> LineState]] /\ recent \in [Cache -> SUBSET PrivSet]
      /\ sharers \in [Block -> SUBSET Cache] /\ llc \in [Block -> LlcState]
  BY DEF IndInv, TypeOK
<1>5. \A j \in sharers[b] : line[j][b] # "I"
  BY <1>1, <1>2, SharersHold
<1>6. slot[c] # "Same" /\ line[k][b] = "I" /\ k \notin sharers[b]
  BY <1>1, <1>2, <1>3, <1>5 DEF LocalsOK, PokeStillValid, Pending
<1>7. \A j \in W : j \in Cache /\ sharers[b] = {j} /\ LlcYields(b)
  BY <1>2, <1>3, <1>4 DEF BlockInv, Acquired
<1>8. \A j \in Cache : /\ ln[j][b] = IF line[j][b] = "I" THEN "I" ELSE "S"
                       /\ \A x \in Block \ {b} : ln[j][x] = line[j][x]
  <2>1. \A j \in Cache : line[j][b] \in Writeable => j \in W
    BY <1>2, <1>3 DEF BlockInv, Acquired
  <2>2. \A j \in Cache : line[j][b] \in {"I", "S"} \cup Writeable
    BY <1>4 DEF LineState, Writeable
  <2>3. \A j \in W : line[j][b] # "I"
    BY <1>2 DEF Writeable
  <2>4. \A j \in Cache, x \in Block :
          ln[j][x] = IF j \in W /\ x = b THEN "S" ELSE line[j][x]
    BY <1>2, <1>4
  <2> HIDE DEF ln, W
  <2> QED
    BY <2>1, <2>2, <2>3, <2>4
<1>9. ln \in [Cache -> [Block -> LineState]]
  BY <1>2, <1>4 DEF LineState
<1>10. status' = status
  <2>1. AcquireListOK(c)
    BY <1>2, <1>6 DEF AcquireListOK
  <2>2. \A i, j \in W : i = j
    BY <1>7
  <2>3. FillOnReplica \/ state = "dirty" => LlcInsertAllowed(block[c], state)
    BY <1>2, <1>7, FlagAssumption DEF LlcInsertAllowed, LlcYields
  <2>4. FillAllowed(c, ln, recent)
    <3> HIDE DEF ln
    <3> QED
      BY <1>2, <1>3, <1>6, <1>8 DEF FillAllowed
  <2> HIDE DEF ln, W
  <2> QED
    BY <1>1, <1>6, <2>1, <2>2, <2>3, <2>4 DEF Asserting
<1>11. \A x \in Block \ {b} : LlcYields(x) => LlcYields(x)'
  <2> HIDE DEF state
  <2>1. state \in {"clean", "dirty"}
    BY DEF state
  <2> QED
    BY <1>1, <1>2, <1>4, <2>1, LlcInsertFacts DEF LlcYields
<1>12. \A d \in Core : LosesLines(d, ln, recent)
  <2>1. \A j \in Cache : line[j][b] \in {"I", "S"} \cup Writeable
    BY <1>4 DEF LineState, Writeable
  <2> HIDE DEF ln
  <2>2. ASSUME NEW d \in Core, NEW j \in {ICache[d], DCache[d]}
        PROVE  \A x \in Block : \/ ln[j][x] = line[j][x]
                                \/ line[j][x] \in Writeable /\ ln[j][x] = "S"
    <3>1. j \in Cache
      BY <2>2, CacheAssumption
    <3> QED
      BY <1>8, <2>1, <3>1
  <2> QED
    BY <2>2 DEF LosesLines
<1> HIDE DEF ln, W, state
<1>13. recent' = [recent EXCEPT ![CacheOf(c)] = @ \ {PSetOf[b]}]
  BY <1>1, <1>2 DEF Fill
<1>14. "S" \in LineState /\ "S" # "I"
  BY DEF LineState
<1>15. \A j \in Cache : line'[j][b] = IF j = k THEN "S" ELSE ln[j][b]
  <2>1. Evicts(c, recent) => victim[c] # b
    BY <1>2, <1>3 DEF Evicts, LocalsOK
  <2> QED
    BY <1>1, <1>2, <1>3, <1>9, <1>14, <2>1, FillFacts DEF IndInv
<1>16. BlockInv(b)'
  <2>1. sharers'[b] = sharers[b] \cup {k} /\ b \in shared' /\ b \in tracked'
    BY <1>1, <1>2, <1>3, <1>4 DEF GrantOK
  <2>2. \A j \in Cache : ln[j][b] = IF line[j][b] = "I" THEN "I" ELSE "S"
    BY <1>8
  <2>3. \A j \in Cache : line'[j][b] = IF j = k \/ line[j][b] # "I" THEN "S" ELSE "I"
    BY <1>15, <2>2
  <2>4. \A j \in sharers'[b] : line'[j][b] # "I"
    BY <1>3, <1>4, <1>5, <2>1, <2>3
  <2>5. Holders(b)' \subseteq sharers'[b]
    BY <1>3, <2>1, <2>3 DEF Holders, BlockInv
  <2> QED
    BY <2>1, <2>3, <2>4, <2>5 DEF BlockInv, Writeable
<1>17. \A x \in Block \ {b} :
            /\ sharers'[x] = sharers[x]
            /\ x \in shared' <=> x \in shared
            /\ x \in tracked' <=> x \in tracked
            /\ LlcYields(x) => LlcYields(x)'
  BY <1>1, <1>2, <1>4, <1>11
<1>18. \A j \in Cache : \A x \in Block \ {b} : ln[j][x] = line[j][x]
  BY <1>8
<1> QED
  BY <1>1, <1>2, <1>4, <1>9, <1>10, <1>12, <1>13, <1>14, <1>16, <1>17, <1>18, FillSafe

-----------------------------------------------------------------------------
(* The directory entry of a replaced line.                                 *)
LEMMA EvictionSafe ==
  ASSUME IndInv, TypeOK', TypeInv', NEW c \in Core, HandleEviction(c)
  PROVE  IndInv' /\ status' = status
<1> DEFINE k     == CacheOf(c)
           state == IF evicted[c] = "M" THEN "dirty" ELSE "clean"
           toLlc == /\ sharers[victim[c]] \ {k} = {}
                    /\ IF state = "dirty" THEN FillOnWriteback ELSE FillOnEviction
<1>1. /\ pc[c] = "evict"
      /\ sharers' = [sharers EXCEPT ![victim[c]] = @ \ {k}]
      /\ llc' \in IF toLlc THEN LlcInsert(victim[c], state) ELSE {llc}
      /\ Asserting(/\ victim[c] \in tracked /\ k \in sharers[victim[c]]
                   /\ toLlc => LlcInsertAllowed(victim[c], state))
      /\ Return(c)
      /\ UNCHANGED <<line, recent, tracked, shared>>
  BY DEF HandleEviction, cacheVars
<1>2. LocalsOK(c) /\ EvictionOK(c) /\ LocksHeld(c) /\ slot[c] = "Valid" /\ k \in Cache
  BY <1>1, CacheForType DEF IndInv, CoreInv, LocalsOK, CacheOf
<1>3. PICK v \in Block : v = victim[c]
  BY <1>2 DEF LocalsOK
<1>4. /\ k \in sharers[v] /\ line[k][v] = "I" /\ BlockInv(v)
      /\ evicted[c] = "M" => LlcYields(v)
  BY <1>1, <1>2, <1>3 DEF EvictionOK, IndInv, Writeable
<1>5. status' = status
  <2>1. v \in tracked
    BY <1>4 DEF BlockInv
  <2>2. toLlc => LlcInsertAllowed(v, state)
    BY <1>4, FlagAssumption DEF LlcInsertAllowed, LlcYields
  <2> QED
    BY <1>1, <1>3, <1>4, <2>1, <2>2 DEF Asserting
<1>6. pc'[c] = "idle" /\ \A d \in Core \ {c} : SameCore(d)
  BY <1>1 DEF Return, SameCore, IndInv, TypeOK
<1>7. /\ sharers'[v] = sharers[v] \ {k}
      /\ \A x \in Block \ {v} : sharers'[x] = sharers[x] /\ (LlcYields(x) => LlcYields(x)')
  <2>1. llc \in [Block -> LlcState] /\ sharers \in [Block -> SUBSET Cache] /\ state \in {"clean", "dirty"}
    BY DEF IndInv, TypeOK
  <2>2. \A x \in Block \ {v} : LlcYields(x) => LlcYields(x)'
    <3> HIDE DEF state
    <3> QED
      BY <1>1, <1>3, <2>1, LlcInsertFacts DEF LlcYields
  <2> QED
    BY <1>1, <1>3, <2>1, <2>2
<1>8. Untouched({v})
  BY <1>1, <1>7 DEF Untouched
<1>9. \A d \in Core \ {c} : dirLock[DSetOf[v]] # d
  BY <1>1, <1>2, <1>3, LocksExclude DEF HoldsLocks, IndInv
<1>10. CoreInv(c)'
  BY <1>6 DEF TypeInv, CoreInv, LocksHeld, PokeStillValid, GrantOK, EvictionOK, HoldsLocks, Pending
<1>11. \A d \in Core : OnlyLosesLines(d)
  BY <1>1 DEF OnlyLosesLines, LosesLines
<1>12. BlockInv(v)'
  <2>1. \A j \in sharers[v] \ {k} : line[j][v] # "I"
    <3>1. ASSUME NEW j \in sharers[v], j # k, NEW d \in Core, OwedBy(d, j, v) PROVE FALSE
      <4>1. dirLock[DSetOf[v]] = c
        BY <1>1, <1>2, <1>3 DEF LocksHeld, WantedSets, HoldsLocks
      <4>2. d = c
        BY <3>1, <4>1, OwedByHolder DEF IndInv
      <4> QED
        BY <3>1, <4>2 DEF OwedBy
    <3> QED
      BY <1>4, <3>1 DEF BlockInv
  <2>2. Holders(v)' \subseteq sharers'[v]
    BY <1>1, <1>4, <1>7 DEF Holders, BlockInv
  <2>3. \A j \in Cache : line[j][v] \notin Writeable
    BY <1>4 DEF BlockInv, Writeable
  <2> QED
    BY <1>1, <1>4, <1>7, <2>1, <2>2, <2>3 DEF BlockInv
<1>13. \A j \in Cache, x \in Block \ {v} : OwedBy(c, j, x) => OwedBy(c, j, x)'
  BY <1>1, <1>3 DEF OwedBy
<1> QED
  BY <1>5, <1>6, <1>8, <1>9, <1>10, <1>11, <1>12, <1>13, Combine

(* Collecting the entries without sharers forgets no replica.              *)
LEMMA CollectSafe ==
  ASSUME IndInv, TypeOK', TypeInv', NEW s \in DirSet, CollectGarbage(s)
  PROVE  IndInv' /\ status' = status
<1> USE DEF cacheVars, access, request
<1> DEFINE G == {b \in tracked : DSetOf[b] = s /\ sharers[b] = {}}
<1>1. /\ dirLock[s] = NoCore /\ tracked' = tracked \ G /\ shared' = shared \ G
      /\ UNCHANGED <<line, recent, sharers, llc, dirLock, pc, op, block, slot, victim,
                     grant, evicted, status>>
  BY DEF CollectGarbage
<1>2. Untouched(G)
  BY <1>1 DEF Untouched, LlcYields
<1>3. NoCore \notin Core
  BY IndexAssumption
<1>4. \A x \in G \cap Block : \A d \in Core \ {NoCore} : dirLock[DSetOf[x]] # d
  BY <1>1, <1>3
<1>5. \A d \in Core \ {NoCore} : SameCore(d) /\ OnlyLosesLines(d)
  BY <1>1 DEF SameCore, OnlyLosesLines, LosesLines
<1>6. ASSUME NEW x \in G \cap Block PROVE BlockInv(x)'
  <2>1. sharers[x] = {} /\ Holders(x) = {}
    BY <1>6 DEF IndInv, BlockInv
  <2>2. /\ x \notin tracked' /\ x \notin shared' /\ sharers'[x] = {}
        /\ \A k \in Cache : line'[k][x] = "I"
    <3>1. x \notin shared \ G
      OBVIOUS
    <3> QED
      BY <1>1, <2>1, <3>1 DEF Holders
  <2> QED
    BY <2>2 DEF BlockInv, Holders, Writeable
<1>7. status' = status
  BY <1>1
<1> HIDE DEF G
<1> QED
  BY <1>2, <1>3, <1>4, <1>5, <1>6, <1>7, Combine
-----------------------------------------------------------------------------
(* The theorems.                                                           *)

(* Nothing is cached, tracked or locked at the start.                      *)
LEMMA IndInit == Init => IndInv
<1> SUFFICES ASSUME Init PROVE IndInv
  OBVIOUS
<1>1. TypeInv
  BY TypeInit
<1>2. \A c \in Core : CoreInv(c)
  BY <1>1, IdleCore DEF Init, TypeInv
<1>3. \A b \in Block : BlockInv(b)
  BY DEF Init, BlockInv, Holders, Writeable
<1> QED
  BY <1>1, <1>2, <1>3 DEF IndInv, TypeInv

(* Every step keeps the invariant.                                         *)
LEMMA IndStep == IndInv /\ [Next]_vars => IndInv' /\ (status' = status \/ Reinsertion)
<1> DEFINE Kept == IndInv' /\ (status' = status \/ Reinsertion)
<1> SUFFICES ASSUME IndInv, [Next]_vars PROVE Kept
  OBVIOUS
<1>1. TypeInv' /\ TypeOK'
  BY TypeStep DEF IndInv, CoreInv, TypeInv
<1>2. CASE UNCHANGED vars
  BY <1>2
  DEF vars, cacheVars, dirVars, access, request, IndInv, TypeOK, CoreInv, LocalsOK,
      LocksHeld, WantedSets, PokeStillValid, Evicts, GrantOK, EvictionOK, CacheOf, BlockInv,
      LlcYields, Holders, OwedBy
<1>3. ASSUME NEW c \in Core, Poke(c) PROVE Kept
  BY <1>1, <1>3, PokeSafe DEF Poke
<1>4. ASSUME NEW c \in Core, GetOrCreate(c) PROVE Kept
  BY <1>1, <1>4, FindCreateSafe, CreateEvictingSafe DEF GetOrCreate
<1>5. ASSUME NEW c \in Core, Serve(c) PROVE Kept
  BY <1>1, <1>5, TakeSafe, FillPrivateSafe, JoinSafe, InvalidateSafe, DowngradeSafe, EvictionSafe
  DEF Serve
<1>6. ASSUME NEW c \in Core, LockDirectorySet(c) PROVE Kept
  BY <1>1, <1>6, LockSafe
<1>7. ASSUME NEW s \in DirSet, CollectGarbage(s) PROVE Kept
  BY <1>1, <1>7, CollectSafe
<1> HIDE DEF Kept
<1> QED
  BY <1>2, <1>3, <1>4, <1>5, <1>6, <1>7 DEF Next, Continue

(* A directory with a way for every block of a set replaces no entry.      *)
LEMMA NoReplacement ==
  ASSUME DirectoryFits, TypeOK, NEW c \in Core, block[c] \in Block, NEW e
  PROVE  ~CreateEntryEvicting(c, e)
<1> DEFINE b     == block[c]
           peers == {x \in Block : DSetOf[x] = DSetOf[b]}
<1> SUFFICES ASSUME CreateEntryEvicting(c, e) PROVE FALSE
  OBVIOUS
<1>1. b \notin tracked /\ Cardinality(DirectoryPeers(b)) >= DirWays
  BY DEF CreateEntryEvicting
<1>2. IsFiniteSet(peers) /\ Cardinality(peers) <= DirWays /\ b \in peers
  BY DEF DirectoryFits
<1>3. DirectoryPeers(b) \subseteq peers \ {b}
  BY <1>1 DEF DirectoryPeers, TypeOK
<1> HIDE DEF peers
<1>4. IsFiniteSet(peers \ {b}) /\ Cardinality(peers \ {b}) = Cardinality(peers) - 1
  BY <1>2, FS_RemoveElement
<1>5. Cardinality(DirectoryPeers(b)) <= Cardinality(peers \ {b})
  BY <1>3, <1>4, FS_Subset
<1>6. Cardinality(peers) \in Nat /\ Cardinality(DirectoryPeers(b)) \in Nat
  BY <1>2, <1>3, <1>4, FS_Subset, FS_CardinalityType
<1> QED
  BY <1>1, <1>2, <1>4, <1>5, <1>6, IndexAssumption

(* The inductive invariant implies the properties of the runs.             *)
LEMMA IndImplies ==
  ASSUME IndInv
  PROVE  SingleWriter /\ DirectoryInclusive /\ DirectoryExact /\ WriterOwnsDirty
<1>1. SingleWriter
  BY DEF IndInv, BlockInv, SingleWriter, Holders
<1>2. DirectoryInclusive
  BY DEF IndInv, BlockInv, DirectoryInclusive
<1>3. ASSUME NEW b \in Block, ~Locked(b)
      PROVE  /\ Holders(b) = sharers[b]
             /\ sharers[b] # {} =>
                  (b \notin shared <=> \E k \in Cache : line[k][b] \in Writeable)
  <2>1. \A d \in Core, k \in Cache : ~OwedBy(d, k, b)
    <3>1. \A d \in Core : dirLock[DSetOf[b]] # d
      BY <1>3, IndexAssumption DEF Locked
    <3> QED
      BY <3>1 DEF OwedBy, IndInv, CoreInv, LocksHeld, HoldsLocks, WantedSets, LocalsOK
  <2>2. sharers[b] \subseteq Cache /\ BlockInv(b)
    BY DEF IndInv, TypeOK
  <2>3. Holders(b) = sharers[b]
    BY <2>1, <2>2 DEF BlockInv, Holders
  <2>4. \A k \in Cache : line[k][b] \in {"I", "S"} \cup Writeable
    BY DEF IndInv, TypeOK, LineState, Writeable
  <2>5. ASSUME sharers[b] # {}
        PROVE  b \notin shared <=> \E k \in Cache : line[k][b] \in Writeable
    <3>1. PICK k \in sharers[b] : k \in Cache /\ line[k][b] # "I"
      BY <2>2, <2>3, <2>5 DEF Holders
    <3> QED
      BY <2>2, <2>4, <3>1 DEF BlockInv
  <2> QED
    BY <2>3, <2>5
<1>4. DirectoryExact
  BY <1>3 DEF DirectoryExact
<1>5. WriterOwnsDirty
  BY DEF IndInv, BlockInv, WriterOwnsDirty
<1> QED
  BY <1>1, <1>2, <1>4, <1>5

(* The inductive invariant holds of every behaviour of a hierarchy,        *)
(* whatever the policy of its shared cache.                                *)
THEOREM Invariant == Spec => []IndInv
<1>1. IndInv /\ [Next]_vars => IndInv'
  BY IndStep
<1> QED
  BY <1>1, IndInit, PTL DEF Spec

(* At most one cache may write a block, and then no other cache holds it.  *)
THEOREM Coherent == Spec => []SingleWriter
<1>1. IndInv => SingleWriter
  BY IndImplies
<1> QED
  BY <1>1, Invariant, PTL

(* The directory never forgets a replica, and is exact whenever the lock   *)
(* of its set is free.                                                     *)
THEOREM DirectoryCorrect == Spec => [](DirectoryInclusive /\ DirectoryExact)
<1>1. IndInv => DirectoryInclusive /\ DirectoryExact
  BY IndImplies
<1> QED
  BY <1>1, Invariant, PTL

(* A writer's block is not dirty in the shared cache, and not at all in an *)
(* exclusive one.                                                          *)
THEOREM DirtyOwned == Spec => []WriterOwnsDirty
<1>1. IndInv => WriterOwnsDirty
  BY IndImplies
<1> QED
  BY <1>1, Invariant, PTL

(* Of the assertions of an access one alone can fail: that of the shared   *)
(* cache against a block it already has, when it is exclusive and the      *)
(* directory replaces the entry of a block written back before.            *)
THEOREM OneWayToPanic == Spec => PanicsOnlyOnReinsertion
<1>1. IndInv /\ [Next]_vars => [status' = status \/ Reinsertion]_vars
  BY IndStep
<1> QED
  BY <1>1, Invariant, PTL DEF Spec, PanicsOnlyOnReinsertion

(* No assertion of an access ever fails when the shared cache is not       *)
(* exclusive, as the repository ships it, or the directory has a way for   *)
(* every block.                                                            *)
THEOREM NeverPanics ==
  ASSUME ~LlcExclusive \/ DirectoryFits
  PROVE  Spec => []NoPanic
<1>1. Init => NoPanic
  BY DEF Init, NoPanic
<1>2. IndInv /\ NoPanic /\ [Next]_vars => NoPanic'
  <2> SUFFICES ASSUME IndInv, NoPanic, [Next]_vars PROVE NoPanic'
    OBVIOUS
  <2>1. ~Reinsertion
    <3> SUFFICES ASSUME NEW c \in Core, NEW e \in Block, CreateEntryEvicting(c, e), LlcExclusive
                 PROVE  FALSE
      BY DEF Reinsertion
    <3>1. block[c] \in Block /\ TypeOK
      BY DEF CreateEntryEvicting, IndInv, CoreInv, LocalsOK
    <3> QED
      BY <3>1, NoReplacement
  <2> QED
    BY <2>1, IndStep DEF NoPanic
<1> QED
  BY <1>1, <1>2, Invariant, PTL DEF Spec
-----------------------------------------------------------------------------
(* Capacity and refinement.  A step either fills the line of its core      *)
(* (Fills), or lets caches lose lines and note it (Sheds), or leaves all   *)
(* lines resident.                                                         *)

(* Cache j gains no line, and each set that loses one, and no other, gets  *)
(* a note.                                                                 *)
Sheds(j) ==
  /\ recent[j] \subseteq recent'[j]
  /\ \A x \in Block : line'[j][x] # "I" => line[j][x] # "I"
  /\ \A x \in Block : line[j][x] # "I" /\ line'[j][x] = "I" => PSetOf[x] \in recent'[j]
  /\ \A s \in recent'[j] \ recent[j] :
       \E x \in Block : PSetOf[x] = s /\ line[j][x] # "I" /\ line'[j][x] = "I"

(* An access that is pending after the step knew the same before it.       *)
SameAccess(d) ==
  pc'[d] \in Pending =>
    /\ pc[d] \in Pending
    /\ op'[d] = op[d] /\ block'[d] = block[d] /\ slot'[d] = slot[d]

(* What the fill of core c replaces.                                       *)
Displaced(c) == IF Evicts(c, recent) THEN {victim[c]} ELSE {}

(* Core c fills its block into its cache, the other caches may lose lines. *)
Fills(c) ==
  LET k == CacheOf(c) IN
  /\ pc[c] \in {"coherence", "fill"} /\ pc'[c] \notin Pending
  /\ \A d \in Core \ {c} : SameCore(d)
  /\ \A x \in Block : line'[k][x] # "I" <=>
       x = block[c] \/ (x \notin Displaced(c) /\ line[k][x] # "I")
  /\ recent'[k] = recent[k] \ {PSetOf[block[c]]}
  /\ \A j \in Cache \ {k} : Sheds(j)

-----------------------------------------------------------------------------
(* One private set.                                                        *)

LEMMA ShedSet ==
  ASSUME NEW k, NEW s \in PrivSet, PrivateSetOK(k, s), Sheds(k)
  PROVE  PrivateSetOK(k, s)'
<1> DEFINE R == Resident(k, s)
           Q == Resident(k, s)'
<1>1. Q \subseteq R
  BY DEF Resident, Sheds
<1>2. IsFiniteSet(R) /\ Cardinality(R) \in Nat
  BY FS_CardinalityType DEF PrivateSetOK
<1>3. IsFiniteSet(Q) /\ Cardinality(Q) \in Nat
      /\ Cardinality(Q) <= Cardinality(R) /\ (Cardinality(R) = Cardinality(Q) => R = Q)
  <2> HIDE DEF R, Q
  <2> QED BY <1>1, <1>2, FS_Subset, FS_CardinalityType
<1>4. s \in recent'[k] \ recent[k] => R # Q
  BY DEF Resident, Sheds
<1>5. PrivWays \in Nat
  BY IndexAssumption
<1>6. Cardinality(Q) <= PrivWays /\ (s \in recent'[k] => Cardinality(Q) < PrivWays)
  BY <1>2, <1>3, <1>4, <1>5 DEF PrivateSetOK
<1> QED BY <1>3, <1>6 DEF PrivateSetOK

(* A pending access keeps what it knows of its set while its cache only    *)
(* loses lines.                                                            *)
LEMMA ShedSlot ==
  ASSUME NEW d \in Core, SlotOK(d), LocalsOK(d), SameAccess(d),
         NEW k, k = CacheOf(d), Sheds(k), \A s \in PrivSet : PrivateSetOK(k, s)
  PROVE  SlotOK(d)'
<1> SUFFICES ASSUME pc'[d] \in Pending PROVE SlotOK(d)'
  BY DEF SlotOK
<1> PICK s : s = PSetOf[block[d]]
  OBVIOUS
<1> DEFINE R == Resident(k, s)
           Q == Resident(k, s)'
<1>1. s \in PrivSet
  BY IndexAssumption DEF LocalsOK, SameAccess, Pending
<1>2. /\ CacheOf(d)' = k /\ PSetOf[block'[d]] = s /\ slot'[d] = slot[d]
      /\ pc[d] \in Pending
  BY DEF CacheOf, SameAccess
<1>3. Q \subseteq R /\ (Q # R => s \in recent'[k])
  BY DEF Resident, Sheds
<1>4. IsFiniteSet(R) /\ Cardinality(R) \in Nat
  BY <1>1, FS_CardinalityType DEF PrivateSetOK
<1>5. Cardinality(Q) \in Nat /\ Cardinality(Q) <= Cardinality(R)
  <2> HIDE DEF R, Q
  <2> QED BY <1>3, <1>4, FS_Subset, FS_CardinalityType
<1>6. slot[d] = "Invalid" => Cardinality(Q) < PrivWays
  BY <1>2, <1>4, <1>5, IndexAssumption DEF SlotOK
<1>7. slot[d] = "Valid" => Cardinality(Q) = PrivWays \/ s \in recent'[k]
  BY <1>2, <1>3 DEF SlotOK, Sheds
<1> QED BY <1>2, <1>6, <1>7 DEF SlotOK, Resident

(* A fill finds a free way, or replaces a line of the same set.            *)
LEMMA FillSet ==
  ASSUME IndInv, CapacityInv, NEW c \in Core, Fills(c), NEW s \in PrivSet,
         NEW k, k = CacheOf(c), NEW b, b = block[c]
  PROVE  PrivateSetOK(k, s)'
<1> DEFINE R == Resident(k, s)
           Q == Resident(k, s)'
<1>1. /\ k \in Cache /\ b \in Block /\ PSetOf[b] \in PrivSet
      /\ pc[c] \in Pending /\ LocalsOK(c) /\ PokeStillValid(c) /\ SlotOK(c)
      /\ PrivateSetOK(k, s) /\ PrivWays \in Nat \ {0}
  BY CacheForType, IndexAssumption
  DEF Fills, Pending, IndInv, CoreInv, CapacityInv, PrivateRoom, LocalsOK, CacheOf
<1>2. IsFiniteSet(R) /\ Cardinality(R) \in Nat /\ Cardinality(R) <= PrivWays
  BY <1>1, FS_CardinalityType DEF PrivateSetOK
<1>3. CASE s # PSetOf[b]
  <2>1. Q = R
    BY <1>1, <1>3 DEF Resident, Fills, Displaced, Evicts, LocalsOK
  <2>2. s \in recent'[k] => s \in recent[k]
    BY DEF Fills
  <2> QED BY <1>1, <2>1, <2>2 DEF PrivateSetOK
<1>4. CASE s = PSetOf[b]
  <2> DEFINE V == Displaced(c)
  <2>1. Q = (R \ V) \cup {b}
    BY <1>1, <1>4 DEF Resident, Fills
  <2>2. s \notin recent'[k]
    BY <1>4 DEF Fills
  <2>3. IsFiniteSet(Q) /\ Cardinality(Q) <= PrivWays
    <3>1. CASE b \in R
      <4>1. slot[c] = "Same"
        BY <1>1, <3>1 DEF PokeStillValid, Resident
      <4>2. V = {}
        BY <4>1 DEF Displaced, Evicts
      <4> QED BY <1>2, <2>1, <3>1, <4>2
    <3>2. CASE b \notin R /\ Evicts(c, recent)
      <4>1. V = {victim[c]} /\ victim[c] \in R
        BY <1>1, <1>4, <3>2 DEF Displaced, Resident, PokeStillValid, LocalsOK, Evicts
      <4>2. IsFiniteSet(R \ V) /\ Cardinality(R \ V) = Cardinality(R) - 1
        <5> HIDE DEF R, V
        <5> QED BY <1>2, <4>1, FS_RemoveElement
      <4>3. IsFiniteSet(Q) /\ Cardinality(Q) = Cardinality(R \ V) + 1
        <5>1. b \notin R \ V
          BY <3>2
        <5> HIDE DEF R, V, Q
        <5> QED BY <2>1, <4>2, <5>1, FS_AddElement
      <4> QED BY <1>2, <4>2, <4>3
    <3>3. CASE b \notin R /\ ~Evicts(c, recent)
      <4>1. V = {}
        BY <3>3 DEF Displaced
      <4>2. Cardinality(R) < PrivWays
        <5>1. slot[c] \in {"Invalid", "Valid", "Same"}
          BY DEF IndInv, TypeOK, SlotKind
        <5>2. CASE slot[c] = "Invalid"
          BY <1>1, <1>4, <5>2 DEF SlotOK
        <5>3. CASE slot[c] = "Valid"
          BY <1>1, <1>4, <3>3, <5>3 DEF Evicts, PrivateSetOK
        <5>4. CASE slot[c] = "Same"
          <6>1. s \in recent[k]
            BY <1>1, <1>4, <3>3, <5>4 DEF PokeStillValid, Resident
          <6> QED BY <1>1, <6>1 DEF PrivateSetOK
        <5> QED BY <5>1, <5>2, <5>3, <5>4
      <4>3. IsFiniteSet(Q) /\ Cardinality(Q) = Cardinality(R) + 1
        <5>1. Q = R \cup {b}
          BY <2>1, <4>1
        <5> HIDE DEF R, Q
        <5> QED BY <1>2, <3>3, <5>1, FS_AddElement
      <4> QED BY <1>2, <1>1, <4>2, <4>3
    <3> QED BY <3>1, <3>2, <3>3
  <2> QED BY <2>2, <2>3 DEF PrivateSetOK
<1> QED BY <1>3, <1>4

-----------------------------------------------------------------------------
(* All private sets.                                                       *)

(* Different cores use different caches.                                   *)
LEMMA CachesDiffer ==
  ASSUME NEW c \in Core, NEW d \in Core, c # d, NEW o, NEW p
  PROVE  CacheFor(c, o) # CacheFor(d, p)
<1>1. CacheFor(c, o) \in {ICache[c], DCache[c]} /\ CacheFor(d, p) \in {ICache[d], DCache[d]}
  BY CacheForType
<1>2. {ICache[c], DCache[c]} \cap {ICache[d], DCache[d]} = {}
  BY CacheAssumption
<1> QED BY <1>1, <1>2

LEMMA ShedRoom ==
  ASSUME IndInv, PrivateRoom, \A j \in Cache : Sheds(j), \A d \in Core : SameAccess(d)
  PROVE  PrivateRoom'
<1>1. ASSUME NEW k \in Cache, NEW s \in PrivSet PROVE PrivateSetOK(k, s)'
  BY ShedSet DEF PrivateRoom
<1>2. ASSUME NEW d \in Core PROVE SlotOK(d)'
  <2>1. PICK k \in Cache : k = CacheOf(d)
    BY CacheForType DEF CacheOf
  <2> QED BY <2>1, ShedSlot DEF PrivateRoom, IndInv, CoreInv
<1> QED BY <1>1, <1>2 DEF PrivateRoom

LEMMA FillRoom ==
  ASSUME IndInv, CapacityInv, NEW c \in Core, Fills(c)
  PROVE  PrivateRoom'
<1>1. PICK k \in Cache : k = CacheOf(c)
  BY CacheForType DEF CacheOf
<1>2. PICK b : b = block[c]
  OBVIOUS
<1>3. ASSUME NEW j \in Cache, NEW s \in PrivSet PROVE PrivateSetOK(j, s)'
  <2>1. CASE j = k
    BY <1>1, <1>2, <2>1, FillSet
  <2>2. CASE j # k
    BY <1>1, <2>2, ShedSet DEF Fills, CapacityInv, PrivateRoom
  <2> QED BY <2>1, <2>2
<1>4. ASSUME NEW d \in Core PROVE SlotOK(d)'
  <2>1. CASE d = c
    BY <2>1 DEF SlotOK, Fills
  <2>2. CASE d # c
    <3>1. PICK j \in Cache : j = CacheOf(d)
      BY CacheForType DEF CacheOf
    <3>2. j # k
      BY <1>1, <2>2, <3>1, CachesDiffer DEF CacheOf
    <3>3. Sheds(j) /\ SameAccess(d)
      BY <1>1, <2>2, <3>2 DEF Fills, SameCore, SameAccess
    <3> QED BY <3>1, <3>3, ShedSlot DEF IndInv, CoreInv, CapacityInv, PrivateRoom
  <2> QED BY <2>1, <2>2
<1> QED BY <1>3, <1>4 DEF PrivateRoom

(* The poke counts the ways of its set, and forgets the note on it: only   *)
(* its own access could have relied on that note.                          *)
LEMMA PokeRoom ==
  ASSUME IndInv, TypeOK', PrivateRoom, NEW c \in Core, NEW o \in Op, NEW b \in Block,
         PokeHit(c, o, b) \/ PokePermissionViolation(c, o, b) \/ PokeMiss(c, o, b)
  PROVE  PrivateRoom'
<1> PICK k \in Cache : k = CacheFor(c, o)
  BY CacheForType
<1> PICK s \in PrivSet : s = PSetOf[b]
  BY IndexAssumption
<1>1. /\ pc[c] = "idle" /\ recent' = [recent EXCEPT ![k] = @ \ {s}]
      /\ \/ line' = line
         \/ line[k][b] \in Writeable /\ line' = [line EXCEPT ![k][b] = "M"]
  BY DEF PokeHit, PokePermissionViolation, PokeMiss, ForgetInvalidations
<1>2. \A j \in Cache, x \in Block : line'[j][x] # "I" <=> line[j][x] # "I"
  BY <1>1 DEF IndInv, TypeOK, Writeable
<1>3. \A j \in Cache : recent'[j] = IF j = k THEN recent[j] \ {s} ELSE recent[j]
  BY <1>1 DEF IndInv, TypeOK
<1>4. ASSUME NEW j \in Cache, NEW t PROVE Resident(j, t)' = Resident(j, t)
  BY <1>2 DEF Resident
<1>5. ASSUME NEW j \in Cache, NEW t \in PrivSet PROVE PrivateSetOK(j, t)'
  BY <1>3, <1>4 DEF PrivateSetOK, PrivateRoom
<1>6. ASSUME NEW d \in Core, d # c PROVE SlotOK(d)'
  <2>1. PICK j \in Cache : j = CacheOf(d)
    BY CacheForType DEF CacheOf
  <2>2. j # k
    BY <1>6, <2>1, CachesDiffer DEF CacheOf
  <2>3. pc'[d] = pc[d] /\ op'[d] = op[d] /\ block'[d] = block[d] /\ slot'[d] = slot[d]
    <3>1. CASE PokeHit(c, o, b)
      BY <3>1 DEF PokeHit, access, request
    <3>2. CASE PokePermissionViolation(c, o, b) \/ PokeMiss(c, o, b)
      <4>1. PICK kind, v : BeginMiss(c, o, b, kind, v)
        BY <3>2 DEF PokePermissionViolation, PokeMiss
      <4> QED BY <1>6, <4>1 DEF BeginMiss, IndInv, TypeOK
    <3> QED BY <3>1, <3>2
  <2>4. CacheOf(d)' = j /\ recent'[j] = recent[j]
    BY <1>3, <2>1, <2>2, <2>3 DEF CacheOf
  <2>5. PICK t : t = PSetOf[block[d]]
    OBVIOUS
  <2>6. Resident(j, t)' = Resident(j, t)
    BY <1>4
  <2> QED BY <2>1, <2>3, <2>4, <2>5, <2>6 DEF SlotOK, PrivateRoom, Resident
<1>7. SlotOK(c)'
  <2>1. CASE PokeHit(c, o, b)
    BY <1>1, <2>1 DEF PokeHit, SlotOK, access, Pending
  <2>2. CASE PokePermissionViolation(c, o, b)
    BY <2>2 DEF PokePermissionViolation, BeginMiss, SlotOK, IndInv, TypeOK
  <2>3. CASE PokeMiss(c, o, b)
    <3>1. op'[c] = o /\ block'[c] = b /\ CacheOf(c)' = k
      BY <2>3 DEF PokeMiss, BeginMiss, CacheOf, IndInv, TypeOK
    <3>2. IF Cardinality(Resident(k, s)) < PrivWays
          THEN slot'[c] = "Invalid" ELSE slot'[c] = "Valid"
      BY <2>3 DEF PokeMiss, BeginMiss, IndInv, TypeOK
    <3>3. Resident(k, s)' = Resident(k, s) /\ Cardinality(Resident(k, s)) \in Nat
          /\ Cardinality(Resident(k, s)) <= PrivWays /\ PrivWays \in Nat
      BY <1>4, FS_CardinalityType, IndexAssumption DEF PrivateRoom, PrivateSetOK
    <3>4. slot'[c] = "Invalid" => Cardinality(Resident(k, s)') < PrivWays
      BY <3>2, <3>3
    <3>5. slot'[c] = "Valid" => Cardinality(Resident(k, s)') = PrivWays
      BY <3>2, <3>3
    <3> QED BY <3>1, <3>4, <3>5 DEF SlotOK, Resident
  <2> QED BY <2>1, <2>2, <2>3
<1> QED BY <1>5, <1>6, <1>7 DEF PrivateRoom

-----------------------------------------------------------------------------
(* The directory and the shared cache make room before they add.           *)

(* A set that gives up V and gets b has no more than n members.            *)
LEMMA Replacing ==
  ASSUME NEW n \in Nat \ {0}, NEW R, NEW V, NEW b, NEW Q,
         IsFiniteSet(R), Cardinality(R) <= n, b \notin R, Q = (R \ V) \cup {b},
         Cardinality(R) < n \/ \E x \in R : V = {x}
  PROVE  IsFiniteSet(Q) /\ Cardinality(Q) <= n
<1>1. Cardinality(R) \in Nat
  BY FS_CardinalityType
<1>2. /\ IsFiniteSet(R \ V) /\ Cardinality(R \ V) \in Nat
      /\ Cardinality(R \ V) <= Cardinality(R)
  BY FS_Subset, FS_CardinalityType
<1>3. Cardinality(R \ V) < n
  <2>1. ASSUME NEW x \in R, V = {x} PROVE Cardinality(R \ V) = Cardinality(R) - 1
    BY <2>1, FS_RemoveElement
  <2> QED BY <1>1, <1>2, <2>1
<1>4. b \notin R \ V
  OBVIOUS
<1>5. IsFiniteSet(Q) /\ Cardinality(Q) = Cardinality(R \ V) + 1
  <2> DEFINE T == R \ V
  <2>1. Q = T \cup {b} /\ b \notin T /\ IsFiniteSet(T)
    BY <1>2
  <2> HIDE DEF T
  <2>2. IsFiniteSet(T \cup {b}) /\ Cardinality(T \cup {b}) = Cardinality(T) + 1
    BY <2>1, FS_AddElement
  <2> QED BY <2>1, <2>2 DEF T
<1> QED BY <1>2, <1>3, <1>5

LEMMA DirectoryShrinks ==
  ASSUME DirectoryRoom, tracked' \subseteq tracked
  PROVE  DirectoryRoom'
<1> SUFFICES ASSUME NEW x \in Block
             PROVE  /\ IsFiniteSet(DirectoryPeers(x)')
                    /\ Cardinality(DirectoryPeers(x)') <= DirWays
  BY DEF DirectoryRoom
<1> DEFINE R == DirectoryPeers(x)
           Q == DirectoryPeers(x)'
<1>1. Q \subseteq R
  BY DEF DirectoryPeers
<1>2. IsFiniteSet(R) /\ Cardinality(R) <= DirWays /\ DirWays \in Nat
  BY IndexAssumption DEF DirectoryRoom
<1> HIDE DEF R, Q
<1>3. IsFiniteSet(Q) /\ Cardinality(Q) <= DirWays
  BY <1>1, <1>2, FS_Subset, FS_CardinalityType
<1> QED BY <1>3 DEF Q

LEMMA DirectoryGrows ==
  ASSUME DirectoryRoom, NEW b \in Block \ tracked, NEW V,
         tracked' = (tracked \ V) \cup {b},
         \/ Cardinality(DirectoryPeers(b)) < DirWays
         \/ \E e \in DirectoryPeers(b) : V = {e}
  PROVE  DirectoryRoom'
<1> SUFFICES ASSUME NEW x \in Block
             PROVE  /\ IsFiniteSet(DirectoryPeers(x)')
                    /\ Cardinality(DirectoryPeers(x)') <= DirWays
  BY DEF DirectoryRoom
<1> DEFINE R == DirectoryPeers(x)
           Q == DirectoryPeers(x)'
<1>1. IsFiniteSet(R) /\ Cardinality(R) <= DirWays /\ DirWays \in Nat \ {0}
  BY IndexAssumption DEF DirectoryRoom
<1>2. CASE DSetOf[x] # DSetOf[b]
  <2>1. Q \subseteq R
    BY <1>2 DEF DirectoryPeers
  <2> HIDE DEF R, Q
  <2>2. IsFiniteSet(Q) /\ Cardinality(Q) <= DirWays
    BY <1>1, <2>1, FS_Subset, FS_CardinalityType
  <2> QED BY <2>2 DEF Q
<1>3. CASE DSetOf[x] = DSetOf[b]
  <2>1. R = DirectoryPeers(b) /\ Q = (R \ V) \cup {b} /\ b \notin R
    BY <1>3 DEF DirectoryPeers
  <2> HIDE DEF R, Q
  <2>2. IsFiniteSet(Q) /\ Cardinality(Q) <= DirWays
    BY <1>1, <2>1, Replacing
  <2> QED BY <2>2 DEF Q
<1> QED BY <1>2, <1>3

LEMMA LlcShrinks ==
  ASSUME LlcRoom, \A x \in Block : llc[x] = "absent" => llc'[x] = "absent"
  PROVE  LlcRoom'
<1> SUFFICES ASSUME NEW x \in Block
             PROVE  /\ IsFiniteSet(LlcResident(x)')
                    /\ Cardinality(LlcResident(x)') <= LlcWays
  BY DEF LlcRoom
<1> DEFINE R == LlcResident(x)
           Q == LlcResident(x)'
<1>1. Q \subseteq R
  BY DEF LlcResident
<1>2. IsFiniteSet(R) /\ Cardinality(R) <= LlcWays /\ LlcWays \in Nat
  BY IndexAssumption DEF LlcRoom
<1> HIDE DEF R, Q
<1>3. IsFiniteSet(Q) /\ Cardinality(Q) <= LlcWays
  BY <1>1, <1>2, FS_Subset, FS_CardinalityType
<1> QED BY <1>3 DEF Q

LEMMA LlcPutRoom ==
  ASSUME LlcRoom, NEW b \in Block, llc[b] = "absent", NEW state \in {"clean", "dirty"},
         llc' \in LlcPut(b, state)
  PROVE  LlcRoom'
<1> SUFFICES ASSUME NEW x \in Block
             PROVE  /\ IsFiniteSet(LlcResident(x)')
                    /\ Cardinality(LlcResident(x)') <= LlcWays
  BY DEF LlcRoom
<1> DEFINE R == LlcResident(x)
           Q == LlcResident(x)'
<1>1. IsFiniteSet(R) /\ Cardinality(R) <= LlcWays /\ LlcWays \in Nat \ {0}
  BY IndexAssumption DEF LlcRoom
<1>2. PICK V : /\ Cardinality(LlcResident(b)) < LlcWays \/ \E e \in LlcResident(b) : V = {e}
               /\ \A y \in Block : llc'[y] = IF y = b THEN state
                                            ELSE IF y \in V THEN "absent" ELSE llc[y]
               /\ V \subseteq LlcResident(b)
  BY DEF LlcPut
<1>3. state # "absent"
  OBVIOUS
<1>4. CASE LSetOf[x] # LSetOf[b]
  <2>1. Q \subseteq R
    BY <1>2, <1>4 DEF LlcResident
  <2> HIDE DEF R, Q
  <2>2. IsFiniteSet(Q) /\ Cardinality(Q) <= LlcWays
    BY <1>1, <2>1, FS_Subset, FS_CardinalityType
  <2> QED BY <2>2 DEF Q
<1>5. CASE LSetOf[x] = LSetOf[b]
  <2>1. R = LlcResident(b) /\ Q = (R \ V) \cup {b} /\ b \notin R
    BY <1>2, <1>3, <1>5 DEF LlcResident
  <2> HIDE DEF R, Q
  <2>2. IsFiniteSet(Q) /\ Cardinality(Q) <= LlcWays
    BY <1>1, <1>2, <2>1, Replacing
  <2> QED BY <2>2 DEF Q
<1> QED BY <1>4, <1>5

LEMMA LlcInsertRoom ==
  ASSUME LlcRoom, llc \in [Block -> LlcState], NEW b \in Block,
         NEW state \in {"clean", "dirty"}, llc' \in LlcInsert(b, state)
  PROVE  LlcRoom'
<1>1. CASE llc[b] = "absent"
  BY <1>1, LlcPutRoom DEF LlcInsert
<1>2. CASE llc[b] # "absent"
  <2>1. \A x \in Block : llc[x] = "absent" => llc'[x] = "absent"
    BY <1>2 DEF LlcInsert
  <2> QED BY <2>1, LlcShrinks
<1> QED BY <1>1, <1>2

-----------------------------------------------------------------------------
(* The three critical sections that fill a line.                           *)

(* Core c fills its block in the given state, and the other caches keep of *)
(* that block what others says: one step of AtomicCoherence.               *)
Serves(c, state, others) ==
  LET k == CacheOf(c)
      b == block[c] IN
  /\ pc[c] \in {"coherence", "fill"} /\ pc'[c] \notin Pending
  /\ \A d \in Core \ {c} : SameCore(d)
  /\ state # "I" /\ \A j \in Cache : line[j][b] = "I" => others[j] = "I"
  /\ Atomic!Take(k, b, state, Displaced(c), others)
  /\ \A j \in Cache : recent'[j] =
       IF j = k THEN recent[j] \ {PSetOf[b]}
       ELSE IF line[j][b] # others[j] /\ others[j] = "I" THEN recent[j] \cup {PSetOf[b]}
       ELSE recent[j]

LEMMA ServesFills ==
  ASSUME IndInv, NEW c \in Core, NEW state, NEW others, Serves(c, state, others)
  PROVE  Fills(c)
<1> PICK k \in Cache : k = CacheOf(c)
  BY CacheForType DEF CacheOf
<1> PICK b \in Block : b = block[c]
  BY DEF Serves, IndInv, CoreInv, LocalsOK
<1>1. \A j \in Cache, x \in Block : line'[j][x] =
        IF j = k THEN IF x = b THEN state ELSE IF x \in Displaced(c) THEN "I" ELSE line[j][x]
        ELSE IF x = b THEN others[j] ELSE line[j][x]
  BY DEF Serves, Atomic!Take
<1>2. \A x \in Block : line'[k][x] # "I" <=>
        x = b \/ (x \notin Displaced(c) /\ line[k][x] # "I")
  BY <1>1 DEF Serves
<1>3. ASSUME NEW j \in Cache \ {k} PROVE Sheds(j)
  <2>1. recent'[j] = IF line[j][b] # others[j] /\ others[j] = "I"
                     THEN recent[j] \cup {PSetOf[b]} ELSE recent[j]
    BY DEF Serves
  <2>2. \A x \in Block : line'[j][x] = IF x = b THEN others[j] ELSE line[j][x]
    BY <1>1
  <2>3. line[j][b] = "I" => others[j] = "I"
    BY DEF Serves
  <2> QED BY <2>1, <2>2, <2>3 DEF Sheds
<1> QED BY <1>2, <1>3 DEF Fills, Serves

(* A line that a fill finds in its own cache is the read-only one of an    *)
(* upgrade, and an upgrade replaces nothing.                               *)
LEMMA OwnLine ==
  ASSUME IndInv, NEW c \in Core, pc[c] \in {"coherence", "fill"},
         NEW k, k = CacheOf(c), NEW b, b = block[c]
  PROVE  /\ k \in Cache /\ b \in Block /\ LocalsOK(c)
         /\ line[k][b] = "I" \/ (line[k][b] = "S" /\ slot[c] = "Same" /\ pc[c] # "fill")
<1>1. LocalsOK(c) /\ PokeStillValid(c)
  BY DEF IndInv, CoreInv
<1> QED BY <1>1, CacheForType DEF LocalsOK, PokeStillValid, Pending, CacheOf

(* The coherence actions before a fill left the lines ln and the notes rc. *)
Prepares(c, ln, rc, state, others) ==
  LET k == CacheOf(c)
      b == block[c] IN
  /\ pc[c] \in {"coherence", "fill"} /\ state # "I"
  /\ ln \in [Cache -> [Block -> LineState]] /\ rc \in [Cache -> SUBSET PrivSet]
  /\ Fill(c, ln, rc, state)
  /\ \A j \in Cache :
       /\ \A x \in Block \ {b} : ln[j][x] = line[j][x]
       /\ j # k => ln[j][b] = others[j]
       /\ line[j][b] = "I" => others[j] = "I"
       /\ rc[j] = IF line[j][b] # others[j] /\ others[j] = "I"
                  THEN recent[j] \cup {PSetOf[b]} ELSE recent[j]
  /\ slot[c] # "Same" => rc[k] = recent[k]

LEMMA FillServes ==
  ASSUME IndInv, TypeOK', NEW c \in Core,
         NEW ln, NEW rc, NEW state, NEW others, Prepares(c, ln, rc, state, others)
  PROVE  Serves(c, state, others)
<1> USE DEF Prepares
<1> PICK k : k = CacheOf(c)
  OBVIOUS
<1> PICK b : b = block[c]
  OBVIOUS
<1>1. k \in Cache /\ b \in Block /\ LocalsOK(c) /\ pc[c] # "idle"
  BY OwnLine
<1>2. Evicts(c, rc) <=> Evicts(c, recent)
  BY DEF Evicts
<1>3. /\ \A j \in Cache, x \in Block :
           line'[j][x] = IF j = k /\ x = b THEN state
                         ELSE IF j = k /\ Evicts(c, rc) /\ x = victim[c] THEN "I"
                         ELSE ln[j][x]
      /\ Evicts(c, rc) => pc'[c] = "evict"
      /\ ~Evicts(c, rc) => pc'[c] = "idle"
      /\ \A d \in Core \ {c} : SameCore(d)
  BY <1>1, FillFacts DEF IndInv
<1>4. \A x : x \in Displaced(c) <=> Evicts(c, rc) /\ x = victim[c]
  BY <1>2 DEF Displaced
<1>5. \A j \in Cache, x \in Block : line'[j][x] =
        IF j = k THEN IF x = b THEN state ELSE IF x \in Displaced(c) THEN "I" ELSE line[j][x]
        ELSE IF x = b THEN others[j] ELSE line[j][x]
  BY <1>3, <1>4
<1>6. Atomic!Take(k, b, state, Displaced(c), others)
  <2>1. line' \in [Cache -> [Block -> LineState]]
    BY DEF TypeOK
  <2> HIDE DEF Displaced
  <2> QED BY <1>5, <2>1 DEF Atomic!Take
<1>7. recent' = [rc EXCEPT ![k] = @ \ {PSetOf[b]}]
  BY DEF Fill
<1>8. \A j \in Cache : recent'[j] =
        IF j = k THEN recent[j] \ {PSetOf[b]}
        ELSE IF line[j][b] # others[j] /\ others[j] = "I" THEN recent[j] \cup {PSetOf[b]}
        ELSE recent[j]
  BY <1>7
<1> QED BY <1>3, <1>6, <1>8 DEF Serves, Pending

Unchanged(c) == [j \in Cache |-> line[j][block[c]]]

Nobody == [j \in Cache |-> "I"]

Readers(c) == [j \in Cache |-> IF line[j][block[c]] = "I" THEN "I" ELSE "S"]

LEMMA FillPrivateServes ==
  ASSUME IndInv, TypeOK', NEW c \in Core, FillPrivate(c)
  PROVE  /\ Serves(c, grant[c], Unchanged(c))
         /\ grant[c] \in LineState \ {"I"} /\ line[CacheOf(c)][block[c]] = "I"
         /\ grant[c] = "S" => Unchanged(c) = Readers(c)
         /\ grant[c] # "S" => Unchanged(c) = Nobody
<1> PICK k : k = CacheOf(c)
  OBVIOUS
<1> PICK b : b = block[c]
  OBVIOUS
<1>1. pc[c] = "fill" /\ Fill(c, line, recent, grant[c])
  BY DEF FillPrivate
<1>2. k \in Cache /\ b \in Block /\ line[k][b] = "I" /\ GrantOK(c) /\ BlockInv(b)
  BY <1>1, OwnLine DEF IndInv, CoreInv
<1>3. /\ line \in [Cache -> [Block -> LineState]] /\ recent \in [Cache -> SUBSET PrivSet]
      /\ grant[c] \in LineState
  BY DEF IndInv, TypeOK
<1>4. grant[c] # "I"
  BY <1>1, <1>2 DEF GrantOK
<1>5. \A j \in Cache : Unchanged(c)[j] = line[j][b]
  BY DEF Unchanged
<1>6. Serves(c, grant[c], Unchanged(c))
  <2> HIDE DEF Unchanged
  <2> QED BY <1>1, <1>3, <1>4, <1>5, FillServes DEF Prepares
<1>7. CASE grant[c] = "S"
  <2>1. \A j \in Cache : line[j][b] \in {"I", "S"}
    BY <1>1, <1>2, <1>3, <1>7 DEF GrantOK, BlockInv, LineState, Writeable
  <2> QED BY <1>2, <1>3, <1>4, <1>6, <1>7, <2>1 DEF Unchanged, Readers
<1>8. CASE grant[c] # "S"
  <2>1. grant[c] \in Writeable
    BY <1>3, <1>4, <1>8 DEF LineState, Writeable
  <2>2. \A j \in Cache : line[j][b] = "I"
    BY <1>1, <1>2, <2>1 DEF GrantOK, BlockInv, Holders
  <2> QED BY <1>2, <1>3, <1>4, <1>6, <1>8, <2>2 DEF Unchanged, Nobody
<1> QED BY <1>7, <1>8

LEMMA InvalidateServes ==
  ASSUME IndInv, TypeOK', NEW c \in Core, InvalidateSharers(c)
  PROVE  Serves(c, "M", Nobody)
<1> PICK k : k = CacheOf(c)
  OBVIOUS
<1> PICK b : b = block[c]
  OBVIOUS
<1> DEFINE R  == {j \in Acquired(c) : line[j][b] # "I"}
           ln == InvalidateLines(R, b)
           rc == NoteInvalidations(R, b)
<1>1. pc[c] = "coherence" /\ Fill(c, ln, rc, "M")
  BY DEF InvalidateSharers, HasSharers
<1>2. k \in Cache /\ b \in Block /\ BlockInv(b) /\ (line[k][b] = "I" \/ slot[c] = "Same")
  BY <1>1, OwnLine DEF IndInv
<1>3. line \in [Cache -> [Block -> LineState]] /\ recent \in [Cache -> SUBSET PrivSet]
  BY DEF IndInv, TypeOK
<1>4. \A j \in Cache : j \in R <=> line[j][b] # "I"
  BY <1>2 DEF BlockInv, Holders, Acquired
<1>5. ln \in [Cache -> [Block -> LineState]] /\ rc \in [Cache -> SUBSET PrivSet]
  BY <1>2, <1>3, IndexAssumption DEF InvalidateLines, NoteInvalidations, LineState
<1> HIDE DEF R
<1>6. \A j \in Cache : /\ ln[j][b] = "I" /\ Nobody[j] = "I"
                       /\ \A x \in Block \ {b} : ln[j][x] = line[j][x]
                       /\ rc[j] = IF line[j][b] # "I" THEN recent[j] \cup {PSetOf[b]}
                                  ELSE recent[j]
  BY <1>2, <1>3, <1>4 DEF InvalidateLines, NoteInvalidations, Nobody
<1> HIDE DEF ln, rc, Nobody
<1>7. Prepares(c, ln, rc, "M", Nobody)
  BY <1>1, <1>2, <1>5, <1>6 DEF Prepares
<1> QED BY <1>7, FillServes

LEMMA DowngradeServes ==
  ASSUME IndInv, TypeOK', NEW c \in Core, DowngradeWriter(c)
  PROVE  Serves(c, "S", Readers(c)) /\ line[CacheOf(c)][block[c]] = "I"
<1> PICK k : k = CacheOf(c)
  OBVIOUS
<1> PICK b : b = block[c]
  OBVIOUS
<1> DEFINE W  == {j \in Acquired(c) : line[j][b] \in Writeable}
           ln == [j \in Cache |-> IF j \in W THEN [line[j] EXCEPT ![b] = "S"] ELSE line[j]]
<1>1. pc[c] = "coherence" /\ ~IsStore(op[c]) /\ Fill(c, ln, recent, "S")
  BY DEF DowngradeWriter, HasSharers
<1>2. k \in Cache /\ b \in Block /\ BlockInv(b) /\ line[k][b] = "I"
  BY <1>1, OwnLine DEF IndInv, LocalsOK
<1>3. line \in [Cache -> [Block -> LineState]] /\ recent \in [Cache -> SUBSET PrivSet]
  BY DEF IndInv, TypeOK
<1>4. \A j \in Cache : j \in W <=> line[j][b] \in Writeable
  BY <1>2 DEF BlockInv, Holders, Acquired, Writeable
<1>5. ln \in [Cache -> [Block -> LineState]]
  BY <1>2, <1>3 DEF LineState
<1> HIDE DEF W
<1>6. \A j \in Cache : /\ ln[j][b] = Readers(c)[j]
                       /\ \A x \in Block \ {b} : ln[j][x] = line[j][x]
                       /\ Readers(c)[j] = "I" <=> line[j][b] = "I"
  BY <1>2, <1>3, <1>4 DEF Readers, LineState, Writeable
<1> HIDE DEF ln
<1>7. Prepares(c, ln, recent, "S", Readers(c))
  BY <1>1, <1>3, <1>5, <1>6 DEF Prepares
<1> QED BY <1>2, <1>7, FillServes

-----------------------------------------------------------------------------
(* Capacity.                                                               *)

LEMMA CapacityInit == Init => CapacityInv
<1> SUFFICES ASSUME Init PROVE CapacityInv
  OBVIOUS
<1>1. /\ \A k \in Cache, s \in PrivSet : Resident(k, s) = {} /\ recent[k] = {}
      /\ \A b \in Block : DirectoryPeers(b) = {} /\ LlcResident(b) = {}
      /\ \A c \in Core : pc[c] \notin Pending
  BY DEF Init, Resident, DirectoryPeers, LlcResident, Pending
<1>2. IsFiniteSet({}) /\ Cardinality({}) = 0
  BY FS_EmptySet
<1>3. PrivWays \in Nat \ {0} /\ DirWays \in Nat \ {0} /\ LlcWays \in Nat \ {0}
  BY IndexAssumption
<1>4. \A k \in Cache, s \in PrivSet : PrivateSetOK(k, s)
  BY <1>1, <1>2, <1>3 DEF PrivateSetOK
<1>5. \A c \in Core : SlotOK(c)
  BY <1>1 DEF SlotOK
<1>6. DirectoryRoom /\ LlcRoom
  BY <1>1, <1>2, <1>3 DEF DirectoryRoom, LlcRoom
<1> QED BY <1>4, <1>5, <1>6 DEF CapacityInv, PrivateRoom

(* The lines stay, or a directory eviction takes some away, and no access  *)
(* gets pending or learns of a new slot.                                   *)
LEMMA QuietRoom ==
  ASSUME IndInv, PrivateRoom, UNCHANGED <<line, recent>>,
         \A d \in Core : SameAccess(d)
  PROVE  PrivateRoom'
<1>1. \A j \in Cache : Sheds(j)
  BY DEF Sheds
<1> QED BY <1>1, ShedRoom

LEMMA ReplaceEntryRoom ==
  ASSUME IndInv, CapacityInv, NEW c \in Core, NEW e \in Block, CreateEntryEvicting(c, e)
  PROVE  CapacityInv'
<1> DEFINE R == {k \in sharers[e] : line[k][e] # "I"}
<1>1. /\ pc[c] = "create" /\ pc' = [pc EXCEPT ![c] = "coherence"]
      /\ line' = InvalidateLines(R, e) /\ recent' = NoteInvalidations(R, e)
      /\ block[c] \notin tracked /\ e \in DirectoryPeers(block[c])
      /\ tracked' = (tracked \ {e}) \cup {block[c]}
      /\ llc' \in LlcInsert(e, "clean")
      /\ UNCHANGED <<op, block, slot>>
  BY DEF CreateEntryEvicting, request
<1>2. \A d \in Core : SameAccess(d)
  BY <1>1 DEF SameAccess, Pending, IndInv, TypeOK
<1>3. ASSUME NEW j \in Cache PROVE Sheds(j)
  <2>1. /\ \A x \in Block : line'[j][x] = IF j \in R /\ x = e THEN "I" ELSE line[j][x]
        /\ recent'[j] = IF j \in R THEN recent[j] \cup {PSetOf[e]} ELSE recent[j]
        /\ j \in R => line[j][e] # "I"
    BY <1>1 DEF InvalidateLines, NoteInvalidations, IndInv, TypeOK
  <2> HIDE DEF R
  <2> QED BY <2>1 DEF Sheds
<1>4. PrivateRoom'
  BY <1>2, <1>3, ShedRoom DEF CapacityInv
<1>5. block[c] \in Block \ tracked
  BY <1>1 DEF IndInv, CoreInv, LocalsOK
<1>6. DirectoryRoom'
  BY <1>1, <1>5, DirectoryGrows DEF CapacityInv
<1>7. LlcRoom'
  BY <1>1, LlcInsertRoom DEF CapacityInv, IndInv, TypeOK
<1> QED BY <1>4, <1>6, <1>7 DEF CapacityInv

LEMMA GetOrCreateRoom ==
  ASSUME IndInv, CapacityInv, NEW c \in Core, GetOrCreate(c)
  PROVE  CapacityInv'
<1> USE DEF cacheVars, dirVars, request, access
<1>1. CASE FindEntry(c)
  <2>1. \A d \in Core : SameAccess(d)
    BY <1>1 DEF FindEntry, SameAccess, Pending, IndInv, TypeOK
  <2>2. PrivateRoom'
    BY <1>1, <2>1, QuietRoom DEF FindEntry, CapacityInv
  <2>3. DirectoryRoom' /\ LlcRoom'
    BY <1>1, DirectoryShrinks, LlcShrinks DEF FindEntry, CapacityInv
  <2> QED BY <2>2, <2>3 DEF CapacityInv
<1>2. CASE CreateEntry(c)
  <2>1. \A d \in Core : SameAccess(d)
    BY <1>2 DEF CreateEntry, SameAccess, Pending, IndInv, TypeOK
  <2>2. PrivateRoom'
    BY <1>2, <2>1, QuietRoom DEF CreateEntry, CapacityInv
  <2>3. block[c] \in Block \ tracked
    BY <1>2 DEF CreateEntry, IndInv, CoreInv, LocalsOK
  <2>4. DirectoryRoom'
    <3>1. tracked' = (tracked \ {}) \cup {block[c]}
      BY <1>2 DEF CreateEntry
    <3> QED BY <1>2, <2>3, <3>1, DirectoryGrows DEF CreateEntry, CapacityInv
  <2>5. LlcRoom'
    BY <1>2, LlcShrinks DEF CreateEntry, CapacityInv
  <2> QED BY <2>2, <2>4, <2>5 DEF CapacityInv
<1> QED BY <1>1, <1>2, ReplaceEntryRoom DEF GetOrCreate

(* A permission taken from the shared cache or joined: lines stay.         *)
LEMMA TakeRoom ==
  ASSUME IndInv, CapacityInv, NEW c \in Core,
         LlcMiss(c) \/ LlcHit(c) \/ LlcLate(c) \/ JoinSharers(c)
  PROVE  CapacityInv'
<1> USE DEF cacheVars, dirVars, request, access
<1>1. /\ pc[c] = "coherence" /\ pc' = [pc EXCEPT ![c] = "fill"]
      /\ UNCHANGED <<line, recent, tracked, op, block, slot>>
  BY DEF LlcMiss, LlcHit, LlcLate, JoinSharers, AloneInDirectory, HasSharers, TakePermission
<1>2. \A d \in Core : SameAccess(d)
  BY <1>1 DEF SameAccess, Pending, IndInv, TypeOK
<1>3. PrivateRoom' /\ DirectoryRoom'
  BY <1>1, <1>2, QuietRoom, DirectoryShrinks DEF CapacityInv
<1>4. block[c] \in Block /\ llc \in [Block -> LlcState]
  BY <1>1 DEF IndInv, CoreInv, LocalsOK, TypeOK
<1>5. LlcRoom'
  <2>1. CASE LlcMiss(c)
    BY <1>4, <2>1, LlcPutRoom, LlcShrinks DEF LlcMiss, CapacityInv
  <2>2. CASE LlcHit(c) \/ LlcLate(c)
    <3>1. \A x \in Block : llc[x] = "absent" => llc'[x] = "absent"
      BY <1>4, <2>2 DEF LlcHit, LlcLate
    <3> QED BY <3>1, LlcShrinks DEF CapacityInv
  <2>3. CASE JoinSharers(c)
    BY <1>4, <2>3, LlcInsertRoom, LlcShrinks DEF JoinSharers, CapacityInv
  <2> QED BY <2>1, <2>2, <2>3
<1> QED BY <1>3, <1>5 DEF CapacityInv

LEMMA FillingRoom ==
  ASSUME IndInv, TypeOK', CapacityInv, NEW c \in Core,
         FillPrivate(c) \/ InvalidateSharers(c) \/ DowngradeWriter(c)
  PROVE  CapacityInv'
<1>1. PrivateRoom'
  <2>1. PICK state, others : Serves(c, state, others)
    BY FillPrivateServes, InvalidateServes, DowngradeServes
  <2> QED BY <2>1, ServesFills, FillRoom
<1>2. DirectoryRoom'
  <2>1. UNCHANGED tracked
    BY DEF FillPrivate, InvalidateSharers, DowngradeWriter, dirVars
  <2> QED BY <2>1, DirectoryShrinks DEF CapacityInv
<1>3. LlcRoom'
  <2>1. block[c] \in Block /\ llc \in [Block -> LlcState]
    BY DEF FillPrivate, InvalidateSharers, DowngradeWriter, HasSharers, IndInv, CoreInv, LocalsOK, TypeOK
  <2>2. CASE FillPrivate(c)
    BY <2>2, LlcShrinks DEF FillPrivate, CapacityInv
  <2>3. CASE InvalidateSharers(c)
    <3>1. \A x \in Block : llc[x] = "absent" => llc'[x] = "absent"
      BY <2>1, <2>3 DEF InvalidateSharers, LlcRemove
    <3> QED BY <3>1, LlcShrinks DEF CapacityInv
  <2>4. CASE DowngradeWriter(c)
    <3>1. llc' = llc \/ \E state \in {"clean", "dirty"} : llc' \in LlcInsert(block[c], state)
      BY <2>4 DEF DowngradeWriter
    <3> QED BY <2>1, <3>1, LlcInsertRoom, LlcShrinks DEF CapacityInv
  <2> QED BY <2>2, <2>3, <2>4
<1> QED BY <1>1, <1>2, <1>3 DEF CapacityInv

LEMMA EvictionRoom ==
  ASSUME IndInv, CapacityInv, NEW c \in Core, HandleEviction(c)
  PROVE  CapacityInv'
<1>1. /\ pc[c] = "evict" /\ Return(c) /\ UNCHANGED <<line, recent, tracked>>
      /\ llc' = llc \/ \E state \in {"clean", "dirty"} : llc' \in LlcInsert(victim[c], state)
  BY DEF HandleEviction, cacheVars
<1>2. \A d \in Core : SameAccess(d)
  BY <1>1 DEF Return, SameAccess, Pending, IndInv, TypeOK
<1>3. PrivateRoom' /\ DirectoryRoom'
  BY <1>1, <1>2, QuietRoom, DirectoryShrinks DEF CapacityInv
<1>4. victim[c] \in Block /\ llc \in [Block -> LlcState]
  BY <1>1 DEF IndInv, CoreInv, LocalsOK, TypeOK
<1>5. LlcRoom'
  BY <1>1, <1>4, LlcInsertRoom, LlcShrinks DEF CapacityInv
<1> QED BY <1>3, <1>5 DEF CapacityInv

LEMMA CapacityStep == IndInv /\ TypeOK' /\ CapacityInv /\ [Next]_vars => CapacityInv'
<1> SUFFICES ASSUME IndInv, TypeOK', CapacityInv, [Next]_vars PROVE CapacityInv'
  OBVIOUS
<1> USE DEF cacheVars, dirVars, request, access
<1>1. ASSUME UNCHANGED <<line, recent, llc, op, block, slot>>, tracked' \subseteq tracked,
             \A d \in Core : pc'[d] \in Pending => pc[d] \in Pending
      PROVE  CapacityInv'
  <2>1. \A d \in Core : SameAccess(d)
    BY <1>1 DEF SameAccess
  <2> QED BY <1>1, <2>1, QuietRoom, DirectoryShrinks, LlcShrinks DEF CapacityInv
<1>2. CASE UNCHANGED vars
  BY <1>1, <1>2 DEF vars
<1>3. ASSUME NEW c \in Core, Poke(c) PROVE CapacityInv'
  <2>1. PrivateRoom'
    BY <1>3, PokeRoom DEF Poke, CapacityInv
  <2>2. UNCHANGED <<tracked, llc>>
    BY <1>3 DEF Poke, PokeHit, PokePermissionViolation, PokeMiss
  <2> QED BY <2>1, <2>2, DirectoryShrinks, LlcShrinks DEF CapacityInv
<1>4. ASSUME NEW c \in Core, LockDirectorySet(c) PROVE CapacityInv'
  BY <1>1, <1>4 DEF LockDirectorySet, Pending, IndInv, TypeOK
<1>5. ASSUME NEW s \in DirSet, CollectGarbage(s) PROVE CapacityInv'
  BY <1>1, <1>5 DEF CollectGarbage
<1>6. ASSUME NEW c \in Core, Serve(c) PROVE CapacityInv'
  BY <1>6, TakeRoom, FillingRoom, EvictionRoom DEF Serve
<1> QED BY <1>2, <1>3, <1>4, <1>5, <1>6, GetOrCreateRoom DEF Next, Continue

(* The inductive invariant of the sets, in every behaviour.                *)
LEMMA Capacity == Spec => [](IndInv /\ CapacityInv)
<1>1. Init => IndInv /\ CapacityInv
  BY IndInit, CapacityInit
<1>2. IndInv /\ CapacityInv /\ [Next]_vars => (IndInv /\ CapacityInv)'
  <2>1. IndInv' => TypeOK'
    BY DEF IndInv
  <2> QED BY <2>1, IndStep, CapacityStep
<1> QED BY <1>1, <1>2, PTL DEF Spec

(* No set of a private cache, of the directory or of the shared cache      *)
(* outgrows its ways, although the slot a fill uses was chosen at the poke.*)
THEOREM NoSetOverflows == Spec => []WithinCapacity
<1>1. CapacityInv => WithinCapacity
  BY DEF CapacityInv, WithinCapacity, PrivateRoom, PrivateSetOK, DirectoryRoom, LlcRoom
<1> QED BY <1>1, Capacity, PTL

-----------------------------------------------------------------------------
(* Refinement.                                                             *)

(* The instance has its own copy of Cardinality.                           *)
LEMMA SameCardinality ==
  ASSUME NEW S
  PROVE  Atomic!Cardinality(S) = Cardinality(S)
BY Zenon DEF Atomic!Cardinality, Cardinality

(* A fill replaces a line only when its set is full, however long ago the  *)
(* poke chose that line.                                                   *)
LEMMA ReplacesWhenFull ==
  ASSUME IndInv, CapacityInv, NEW c \in Core, pc[c] \in {"coherence", "fill"}
  PROVE  /\ Displaced(c) \in Atomic!Replaced(CacheOf(c), block[c])
         /\ slot[c] # "Valid" => Displaced(c) = {}
<1>1. CASE ~Evicts(c, recent)
  BY <1>1 DEF Displaced, Atomic!Replaced
<1>2. CASE Evicts(c, recent)
  <2>1. LocalsOK(c) /\ PokeStillValid(c) /\ SlotOK(c)
    BY DEF IndInv, CoreInv, CapacityInv, PrivateRoom
  <2>2. /\ victim[c] \in Resident(CacheOf(c), PSetOf[block[c]])
        /\ Cardinality(Resident(CacheOf(c), PSetOf[block[c]])) = PrivWays
        /\ slot[c] = "Valid"
    BY <1>2, <2>1 DEF LocalsOK, PokeStillValid, SlotOK, Evicts, Pending, Resident
  <2>3. Atomic!Peers(CacheOf(c), block[c]) = Resident(CacheOf(c), PSetOf[block[c]])
    BY DEF Atomic!Peers, Resident
  <2>4. {victim[c]} \in Atomic!Replaced(CacheOf(c), block[c])
    BY <2>2, <2>3, SameCardinality DEF Atomic!Replaced
  <2> QED BY <1>2, <2>2, <2>4 DEF Displaced
<1> QED BY <1>1, <1>2

LEMMA FillImplements ==
  ASSUME IndInv, TypeOK', CapacityInv, NEW c \in Core,
         FillPrivate(c) \/ InvalidateSharers(c) \/ DowngradeWriter(c)
  PROVE  Atomic!Next
<1> PICK k : k = CacheOf(c)
  OBVIOUS
<1> PICK b : b = block[c]
  OBVIOUS
<1> DEFINE V == Displaced(c)
<1>1. pc[c] \in {"coherence", "fill"}
  BY DEF FillPrivate, InvalidateSharers, DowngradeWriter, HasSharers
<1>2. k \in Cache /\ b \in Block /\ V \in Atomic!Replaced(k, b)
      /\ (line[k][b] = "I" \/ (line[k][b] = "S" /\ V = {}))
  <2>1. k \in Cache /\ b \in Block /\ (line[k][b] = "I" \/ (line[k][b] = "S" /\ slot[c] = "Same"))
    BY <1>1, OwnLine
  <2>2. V \in Atomic!Replaced(k, b) /\ (slot[c] # "Valid" => V = {})
    BY <1>1, ReplacesWhenFull
  <2> HIDE DEF V
  <2>3. slot[c] = "Same" => V = {}
    BY <2>2
  <2> QED BY <2>1, <2>2, <2>3
<1> HIDE DEF V
<1>3. ASSUME NEW state, NEW others, Serves(c, state, others)
      PROVE  Atomic!Take(k, b, state, V, others)
  BY <1>3 DEF Serves, V
<1>4. CASE FillPrivate(c)
  <2>1. CASE grant[c] = "S"
    <3>1. Atomic!Take(k, b, "S", V, [j \in Cache |-> IF line[j][b] = "I" THEN "I" ELSE "S"])
      <4>1. Serves(c, "S", Readers(c))
        BY <1>4, <2>1, FillPrivateServes
      <4> QED BY <1>3, <4>1 DEF Readers
    <3>2. Atomic!LoadShared(k, b)
      BY <1>2, <1>4, <3>1, FillPrivateServes DEF Atomic!LoadShared
    <3> QED BY <1>2, <3>2 DEF Atomic!Next
  <2>2. CASE grant[c] # "S"
    <3>1. /\ Atomic!Take(k, b, grant[c], V, [j \in Cache |-> "I"])
          /\ grant[c] \in Atomic!State \ {"I"}
      BY <1>3, <1>4, <2>2, FillPrivateServes DEF Nobody, Atomic!State, LineState
    <3>2. \A j \in Cache : line[j][b] = "I"
      <4>1. \A j \in Cache : Unchanged(c)[j] = line[j][b] /\ Nobody[j] = "I"
        BY DEF Unchanged, Nobody
      <4> QED BY <1>4, <2>2, <4>1, FillPrivateServes
    <3>3. Atomic!LoadAlone(k, b)
      BY <1>2, <3>1, <3>2 DEF Atomic!LoadAlone
    <3> QED BY <1>2, <3>3 DEF Atomic!Next
  <2> QED BY <2>1, <2>2
<1>5. CASE InvalidateSharers(c)
  <2>1. Atomic!Take(k, b, "M", V, [j \in Cache |-> "I"])
    BY <1>3, <1>5, InvalidateServes DEF Nobody
  <2>2. Atomic!StoreMiss(k, b)
    BY <1>2, <2>1 DEF Atomic!StoreMiss, Atomic!MayWrite
  <2> QED BY <1>2, <2>2 DEF Atomic!Next
<1>6. CASE DowngradeWriter(c)
  <2>1. Atomic!Take(k, b, "S", V, [j \in Cache |-> IF line[j][b] = "I" THEN "I" ELSE "S"])
    <3>1. Serves(c, "S", Readers(c))
      BY <1>6, DowngradeServes
    <3> QED BY <1>3, <3>1 DEF Readers
  <2>2. Atomic!LoadShared(k, b)
    BY <1>2, <1>6, <2>1, DowngradeServes DEF Atomic!LoadShared
  <2> QED BY <1>2, <2>2 DEF Atomic!Next
<1> QED BY <1>4, <1>5, <1>6

(* Evicting a directory entry is forgetting its block.                     *)
LEMMA ReplaceEntryImplements ==
  ASSUME IndInv, NEW c \in Core, NEW e \in Block, CreateEntryEvicting(c, e)
  PROVE  Atomic!Next
<1> DEFINE R == {k \in sharers[e] : line[k][e] # "I"}
<1>1. line' = InvalidateLines(R, e)
  BY DEF CreateEntryEvicting
<1>2. \A k \in Cache : k \notin R => line[k][e] = "I"
  BY DEF IndInv, BlockInv, Holders
<1>3. \A k \in Cache : line[k] \in [Block -> LineState]
  BY DEF IndInv, TypeOK
<1> HIDE DEF R
<1>4. ASSUME NEW k \in Cache, line[k][e] = "I" PROVE [line[k] EXCEPT ![e] = "I"] = line[k]
  BY <1>3, <1>4
<1>5. Atomic!Forget(e)
  BY <1>1, <1>2, <1>4 DEF InvalidateLines, Atomic!Forget
<1> QED BY <1>5 DEF Atomic!Next

LEMMA PokeImplements ==
  ASSUME IndInv, NEW c \in Core, Poke(c)
  PROVE  [Atomic!Next]_line
<1>1. PICK o \in Op, b \in Block :
        PokeHit(c, o, b) \/ PokePermissionViolation(c, o, b) \/ PokeMiss(c, o, b)
  BY DEF Poke
<1> PICK k \in Cache : k = CacheFor(c, o)
  BY CacheForType
<1>2. \/ line' = line
      \/ line[k][b] \in Writeable /\ line' = [line EXCEPT ![k][b] = "M"]
  BY <1>1 DEF PokeHit, PokePermissionViolation, PokeMiss
<1>3. CASE line[k][b] \in Writeable /\ line' = [line EXCEPT ![k][b] = "M"]
  <2>1. Atomic!StoreHit(k, b)
    BY <1>3 DEF Atomic!StoreHit, Atomic!MayWrite, Writeable
  <2> QED BY <2>1 DEF Atomic!Next
<1> QED BY <1>2, <1>3

(* One critical section is one step of AtomicCoherence, or none of it.     *)
LEMMA AtomicStep == IndInv /\ TypeOK' /\ CapacityInv /\ [Next]_vars => [Atomic!Next]_line
<1> SUFFICES ASSUME IndInv, TypeOK', CapacityInv, [Next]_vars PROVE [Atomic!Next]_line
  OBVIOUS
<1> USE DEF cacheVars
<1>1. CASE UNCHANGED vars
  BY <1>1 DEF vars
<1>2. ASSUME NEW c \in Core, Continue(c) PROVE [Atomic!Next]_line
  <2>1. CASE LockDirectorySet(c) \/ FindEntry(c) \/ CreateEntry(c) \/ LlcMiss(c) \/ LlcHit(c)
             \/ LlcLate(c) \/ JoinSharers(c) \/ HandleEviction(c)
    BY <2>1 DEF LockDirectorySet, FindEntry, CreateEntry, LlcMiss, LlcHit, LlcLate, TakePermission,
                JoinSharers, HandleEviction
  <2> QED BY <1>2, <2>1, FillImplements, ReplaceEntryImplements DEF Continue, GetOrCreate, Serve
<1>3. ASSUME NEW s \in DirSet, CollectGarbage(s) PROVE [Atomic!Next]_line
  BY <1>3 DEF CollectGarbage
<1> QED BY <1>1, <1>2, <1>3, PokeImplements DEF Next

(* Whatever the threads do between two critical sections of an access, the *)
(* private caches change as AtomicCoherence promises.                      *)
THEOREM ImplementsAtomicCoherence == Spec => AtomicSpec
<1>1. Init => Atomic!Init
  BY DEF Init, Atomic!Init
<1>2. IndInv /\ CapacityInv /\ (IndInv /\ CapacityInv)' /\ [Next]_vars => [Atomic!Next]_line
  <2>1. IndInv' => TypeOK'
    BY DEF IndInv
  <2> QED BY <2>1, AtomicStep
<1> QED BY <1>1, <1>2, Capacity, PTL DEF Spec, AtomicSpec, Atomic!Spec
=============================================================================
