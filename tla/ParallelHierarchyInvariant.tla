--------------------- MODULE ParallelHierarchyInvariant ---------------------
(***************************************************************************)
(* The inductive invariant of ParallelHierarchy.  The coherence properties *)
(* are not inductive by themselves: they hold because of what an access    *)
(* still knows, several critical sections after its poke, about lines,     *)
(* sets and directory entries that other threads may change.               *)
(***************************************************************************)
EXTENDS ParallelHierarchy

Pending == {"lock", "create", "coherence", "fill"}

HoldsLocks == {"create", "coherence", "fill", "evict"}

(* What the poke left in the locals of the access.                         *)
LocalsOK(c) ==
  /\ pc[c] # "idle" => block[c] \in Block
  /\ slot[c] = "Valid" => /\ victim[c] \in Block /\ victim[c] # block[c]
                          /\ PSetOf[victim[c]] = PSetOf[block[c]]
  /\ slot[c] = "Same" => IsStore(op[c])
  /\ pc[c] = "evict" => slot[c] = "Valid"

(* Past the lock step, the access holds the directory sets it needs.       *)
LocksHeld(c) ==
  pc[c] \in HoldsLocks => \A s \in WantedSets(c) : dirLock[s] = c

(* What the poke saw is still true, or the set has a noted invalidation.   *)
PokeStillValid(c) ==
  LET k == CacheOf(c)
      noted == PSetOf[block[c]] \in recent[k] IN
  pc[c] \in Pending =>
    /\ slot[c] # "Same" => line[k][block[c]] = "I"
    /\ slot[c] = "Same" => \/ line[k][block[c]] = "S" /\ pc[c] # "fill"
                           \/ line[k][block[c]] = "I" /\ noted
    /\ Evicts(c, recent) => line[k][victim[c]] # "I"

(* A permission already recorded in the directory, not yet in the line.    *)
GrantOK(c) ==
  LET b == block[c] IN
  /\ pc[c] = "coherence" => b \in tracked
  /\ pc[c] = "fill" =>
       /\ grant[c] # "I"
       /\ CacheOf(c) \in sharers[b]
       /\ grant[c] = "S" => b \in shared
       /\ grant[c] \in Writeable =>
            sharers[b] = {CacheOf(c)} /\ b \notin shared /\ LlcYields(b)

(* A line already dropped, not yet erased from the directory.              *)
EvictionOK(c) ==
  pc[c] = "evict" =>
    /\ CacheOf(c) \in sharers[victim[c]]
    /\ line[CacheOf(c)][victim[c]] = "I"
    /\ evicted[c] \in Writeable =>
         sharers[victim[c]] = {CacheOf(c)} /\ LlcYields(victim[c])

CoreInv(c) ==
  /\ LocalsOK(c)
  /\ LocksHeld(c)
  /\ PokeStillValid(c)
  /\ GrantOK(c)
  /\ EvictionOK(c)

(* A sharer bit without a line is the promise of a fill or the remains of  *)
(* a replaced line, in the hands of the core that holds the set.           *)
OwedBy(c, k, b) ==
  /\ CacheOf(c) = k
  /\ \/ pc[c] = "fill" /\ block[c] = b
     \/ pc[c] = "evict" /\ victim[c] = b

(* What holds of a block between any two critical sections: the directory  *)
(* knows its holders, every other sharer is owed, a writer is alone for    *)
(* the directory and for the shared cache, and a read-only line belongs to *)
(* an entry with the shared flag.                                          *)
BlockInv(b) ==
  /\ Holders(b) \subseteq sharers[b]
  /\ b \notin tracked => sharers[b] = {} /\ b \notin shared
  /\ \A k \in sharers[b] :
       line[k][b] # "I" \/ \E c \in Core : OwedBy(c, k, b)
  /\ \A k \in Cache :
       /\ line[k][b] \in Writeable =>
            sharers[b] = {k} /\ b \notin shared /\ LlcYields(b)
       /\ line[k][b] = "S" => b \in shared

(* The inductive invariant.  It also holds after a failed assertion, in    *)
(* the state the threads leave behind.                                     *)
IndInv ==
  /\ TypeOK
  /\ \A c \in Core : CoreInv(c)
  /\ \A b \in Block : BlockInv(b)

(* What the code does not survive: a directory entry is replaced whose     *)
(* block an exclusive shared cache already has, because a modified replica *)
(* was written back and its other replicas stayed, or left since.          *)
Reinsertion == \E c \in Core, e \in Block :
  CreateEntryEvicting(c, e) /\ LlcExclusive /\ llc[e] # "absent"

(* A step whose assertions hold, unless it is a reinsertion: of the        *)
(* assertions of an access no other can fail.                              *)
PanicsOnlyOnReinsertion == [][status' = status \/ Reinsertion]_vars

(* The directory has a way for every block that maps to a set, and never   *)
(* replaces an entry.                                                      *)
DirectoryFits == \A b \in Block :
  LET peers == {x \in Block : DSetOf[x] = DSetOf[b]} IN
  IsFiniteSet(peers) /\ Cardinality(peers) <= DirWays

-----------------------------------------------------------------------------
(* Why no private set outgrows its ways: a set with a noted invalidation   *)
(* has a free way.                                                         *)
PrivateSetOK(k, s) ==
  /\ IsFiniteSet(Resident(k, s)) /\ Cardinality(Resident(k, s)) <= PrivWays
  /\ s \in recent[k] => Cardinality(Resident(k, s)) < PrivWays

(* The slot a poke chose is still free, or the set is still full or has    *)
(* lost a line since, and then a note tells the fill so.                   *)
SlotOK(c) ==
  LET k == CacheOf(c)
      s == PSetOf[block[c]]
      n == Cardinality(Resident(k, s)) IN
  pc[c] \in Pending =>
    /\ slot[c] = "Invalid" => n < PrivWays
    /\ slot[c] = "Valid" => n = PrivWays \/ s \in recent[k]

PrivateRoom ==
  /\ \A k \in Cache, s \in PrivSet : PrivateSetOK(k, s)
  /\ \A c \in Core : SlotOK(c)

DirectoryRoom == \A b \in Block :
  IsFiniteSet(DirectoryPeers(b)) /\ Cardinality(DirectoryPeers(b)) <= DirWays

LlcRoom == \A b \in Block :
  IsFiniteSet(LlcResident(b)) /\ Cardinality(LlcResident(b)) <= LlcWays

(* Together with IndInv an inductive invariant that implies WithinCapacity *)
(* and, with it, that every step implements AtomicCoherence.               *)
CapacityInv == PrivateRoom /\ DirectoryRoom /\ LlcRoom

-----------------------------------------------------------------------------
(* The hierarchy implements the atomic specification of its private caches.*)
Atomic == INSTANCE AtomicCoherence
            WITH copy <- line, SetOf <- PSetOf, Ways <- PrivWays

(* However many critical sections an access takes, and whatever happens    *)
(* between them, the private lines change as if it were one step of the    *)
(* atomic specification.                                                   *)
AtomicSpec == Atomic!Spec
=============================================================================
