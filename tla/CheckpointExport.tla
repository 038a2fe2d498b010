-------------------------- MODULE CheckpointExport --------------------------
(* The conversion of a checkpoint to the geometry of the detailed simulator *)
(* (bin/checkpoint_conversion, checkpoint/).  Private caches, the shared    *)
(* cache, the TLBs, branch target buffers and pattern tables are resized by *)
(* merging sets and keeping the youngest entries; what a smaller structure  *)
(* has no room for moves to the next level.  The directory is rebuilt from  *)
(* the private caches that remain.  A set is a set of entries here: entries *)
(* carry the time that orders them.                                         *)
EXTENDS CheckpointFiles, FiniteSetsExt, Functions

CONSTANTS
  Block, Tags,   \* blocks; what the per-core tables are tagged with
  Checkpoints,   \* the checkpoints to convert
  Written,       \* those of them that go through the writing of the files
  Parameters     \* FlexusParameter: the target geometries
NoLine == [ts |-> 0]

Core == 0..NCores - 1
Side == {"i", "d"}
Line == [block : Block, ts : Nat \ {0}, writeable : BOOLEAN, modified : BOOLEAN]
Copy == [block : Block, ts : Nat, modified : BOOLEAN]
Entry == [tag : Tags, ts : Nat]
TableNames == {"btb", "pht", "itlb", "dtlb"}

All(sets) == UNION Range(sets)

(* to_harvard_cache: a unified cache becomes two of the same shape.         *)
Harvard(from, core) ==
  LET source == from.caches[core] IN
  IF from.unified
  THEN [s \in Side |-> [k \in DOMAIN source.d |->
          {e \in source.d[k] : (e.block \in from.code) = (s = "i")}]]
  ELSE source

(* Every entry lies in the set its number selects.                          *)
BlocksInPlace(sets) == \A k \in DOMAIN sets : \A e \in sets[k] : e.block % Cardinality(DOMAIN sets) = k
TagsInPlace(sets) == \A k \in DOMAIN sets : \A e \in sets[k] : e.tag % Cardinality(DOMAIN sets) = k

IsStructure(sets, content) ==
  /\ IsFiniteSet(DOMAIN sets) /\ DOMAIN sets = 0..Cardinality(DOMAIN sets) - 1
  /\ DOMAIN sets # {} /\ sets \in [DOMAIN sets -> SUBSET content]
  /\ \A k \in DOMAIN sets : IsFiniteSet(sets[k])

(* A simulator writes structures with their entries in place, a cache with  *)
(* no block twice and no modified line with replicas, a branch target       *)
(* buffer with no tag twice.                                                *)
IsCheckpoint(from) ==
  /\ from.unified \in BOOLEAN
  /\ \A c \in Core :
       /\ from.caches[c] = [s \in Side |-> from.caches[c][s]]
       /\ from.table[c] = [t \in TableNames |-> from.table[c][t]]
       /\ \A s \in Side : IsStructure(from.caches[c][s], Line) /\ BlocksInPlace(from.caches[c][s])
       /\ \A t \in TableNames : IsStructure(from.table[c][t], Entry) /\ TagsInPlace(from.table[c][t])
       /\ IsStructure(from.stlb[c], Entry) /\ TagsInPlace(from.stlb[c])
       /\ \A e, f \in All(from.table[c].btb) : e.tag = f.tag => e = f
  /\ \A c, d \in Core, s, t \in Side :
       \A e \in All(Harvard(from, c)[s]), f \in All(Harvard(from, d)[t]) :
         e.block = f.block => IF <<c, s>> = <<d, t>> THEN e = f ELSE ~e.modified
  /\ IsStructure(from.l2, Copy) /\ BlocksInPlace(from.l2) /\ DOMAIN from.l2 = 0..NSets["llc"] - 1

IsTarget(to) ==
  /\ {to.inclusive, to.noResizing, to.same, to.directory.infinite} \subseteq BOOLEAN
  /\ to.slices \in Nat \ {0}
  /\ \A g \in {to.l1i, to.l1d, to.l2, to.itlb, to.dtlb, to.stlb, to.btb, to.pht, to.directory} :
       g.sets \in Nat \ {0} /\ g.ways \in Nat \ {0}

(* The target with the geometry of the checkpoint.                          *)
HasShape(sets, g) ==
  Cardinality(DOMAIN sets) = g.sets /\ \A k \in DOMAIN sets : Cardinality(sets[k]) <= g.ways
IsSame(from, to) ==
  /\ to.noResizing /\ ~to.inclusive /\ to.directory.infinite /\ to.l2.sets % to.slices = 0
  /\ \A c \in Core :
       /\ HasShape(Harvard(from, c).i, to.l1i) /\ HasShape(Harvard(from, c).d, to.l1d)
       /\ HasShape(from.table[c].btb, to.btb) /\ HasShape(from.table[c].pht, to.pht)
       /\ HasShape(from.table[c].itlb, to.itlb) /\ HasShape(from.table[c].dtlb, to.dtlb)
       /\ HasShape(from.stlb[c], to.stlb)
  /\ HasShape(from.l2, to.l2)

ASSUME ExportAssumption ==
  /\ Block \subseteq Nat /\ IsFiniteSet(Block) /\ Tags \subseteq Nat
  /\ \A from \in Checkpoints : IsCheckpoint(from)
  /\ \A to \in Parameters : IsTarget(to)
  /\ \A from \in Checkpoints, to \in Parameters : to.same => IsSame(from, to)

VARIABLES
  checkpoint,    \* what is converted
  flexus,        \* the target
  stage,         \* "folder", what process_... is running, "done" or "panicked"
  scanned,       \* cores done in the stage
  held,          \* result.caches: per core and side, sets of lines
  entries,       \* the directory: sharers and time of a block
  evicted,       \* evicted_cache_lines
  l2,            \* the shared cache
  table,         \* per core, the exported tables by name
  stlb           \* per core, the exported second-level TLB

cacheVars == <<held, entries, evicted, l2>>
tableVars == <<table, stlb>>
vars == <<fileVars, checkpoint, flexus, stage, scanned, cacheVars, tableVars>>

(* The first cores and sets that are read are those of the first file.      *)
SavedAs(k, u) == Collected(k, u).unit
SharedSets == [s \in DOMAIN checkpoint.l2 |-> checkpoint.l2[SavedAs("llc", s)]]

AlreadySaved ==
  /\ activity = "running" /\ saves = 1 /\ plugin = 1
  /\ turn = [w \in Worker |-> 0]
  /\ \/ files = [k \in Kinds |-> [w \in Worker |-> Slice(k, w)]]
     \/ files = [k \in Kinds |-> [w \in Worker |-> WholeFile(k, w)]] /\ checkpoint \in Written
  /\ timeFile = 1 /\ time = 0
  /\ machine = Now(1) /\ reported = {}

Init ==
  /\ checkpoint \in Checkpoints /\ flexus \in Parameters
  /\ \/ stage = "folder" /\ checkpoint \in Written /\ FilesInit
     \/ stage = "caches" /\ AlreadySaved
  /\ scanned = 0
  /\ held = [c \in Core |-> [s \in Side |-> <<>>]]
  /\ entries = [b \in Block |-> [sharers |-> {}, ts |-> 0]]
  /\ evicted = [b \in Block |-> NoLine]
  /\ l2 = IF stage = "folder" THEN <<>> ELSE SharedSets
  /\ table = [c \in Core |-> [t \in TableNames |-> <<>>]]
  /\ stlb = [c \in Core |-> <<>>]

(* main: the conversion of a checkpoint whose writing has ended.            *)
StartConversion ==
  /\ stage = "folder" /\ activity = "running" /\ saves > 0
  /\ stage' = "caches" /\ l2' = SharedSets
  /\ UNCHANGED <<fileVars, checkpoint, flexus, scanned, held, entries, evicted, tableVars>>
FolderStep ==
  /\ stage = "folder" /\ FilesNext
  /\ UNCHANGED <<checkpoint, flexus, stage, scanned, cacheVars, tableVars>>

-----------------------------------------------------------------------------
(* Resizing, the same for every structure.                                  *)

(* Mutant: neighbouring sets are merged.                                    *)
MergedByNeighbour(source, n) ==
  [s \in 0..n - 1 |->
     UNION {source[k] : k \in {k \in DOMAIN source : k \div (Cardinality(DOMAIN source) \div n) = s}}]

Merged(source, n) ==
  [s \in 0..n - 1 |-> UNION {source[k] : k \in {k \in DOMAIN source : k % n = s}}]

(* The first n in the order of their times; any order of equal times.       *)
Youngest(S, n) ==
  {K \in SUBSET S : /\ Cardinality(K) = Min({n, Cardinality(S)})
                    /\ \A k \in K, e \in S \ K : e.ts <= k.ts}

Resized(source, g) ==
  LET merged == Merged(source, g.sets) IN
  {kept \in [0..g.sets - 1 -> UNION {Youngest(merged[s], g.ways) : s \in 0..g.sets - 1}] :
     \A s \in 0..g.sets - 1 : kept[s] \in Youngest(merged[s], g.ways)}

(* The assertions: a divisor of the sets, and with no_resizing the very     *)
(* number and no set that has to lose an entry.                             *)
(* Mutant: a set with all its ways in use is one too large.                 *)
FitsBelow(source, g) ==
  /\ Cardinality(DOMAIN source) % g.sets = 0
  /\ flexus.noResizing =>
       /\ Cardinality(DOMAIN source) = g.sets
       /\ \A s \in DOMAIN source : Cardinality(source[s]) < g.ways

Fits(source, g) ==
  /\ Cardinality(DOMAIN source) % g.sets = 0
  /\ flexus.noResizing =>
       /\ Cardinality(DOMAIN source) = g.sets
       /\ \A s \in DOMAIN source : Cardinality(source[s]) <= g.ways

Panic == stage' = "panicked" /\ UNCHANGED <<fileVars, checkpoint, flexus, scanned, cacheVars, tableVars>>

(* One more core of the stage; after the last, the next stage.              *)
NextCore(next) ==
  /\ scanned' = (scanned + 1) % NCores
  /\ stage' = IF scanned + 1 = NCores THEN next ELSE stage

-----------------------------------------------------------------------------
(* process_cache_hierarchy.                                                 *)

L1(s) == IF s = "i" THEN flexus.l1i ELSE flexus.l1d
(* Mutant: the two caches of a core share a position.                       *)
SharerPositionOfCore(c, s) == c * 2

SharerPosition(c, s) == c * 2 + (IF s = "i" THEN 1 ELSE 0)

(* Lines that have to go; of several of a block the younger is kept.        *)
(* Mutant: the last one is kept.                                            *)
SetAsideLast(aside, lines) ==
  [b \in Block |->
     IF \E e \in lines : e.block = b THEN CHOOSE e \in lines : e.block = b ELSE aside[b]]

SetAside(aside, lines) ==
  [b \in Block |->
     IF \E e \in lines : e.block = b /\ aside[b].ts < e.ts
     THEN CHOOSE e \in lines : e.block = b ELSE aside[b]]

(* The lines of a core enter the directory.                                 *)
Registered(c, kept) ==
  [b \in Block |->
     LET mine == {s \in Side : \E e \in All(kept[s]) : e.block = b}
         times == {e.ts : e \in {e \in UNION {All(kept[s]) : s \in Side} : e.block = b}}
     IN [sharers |-> entries[b].sharers \union {SharerPosition(c, s) : s \in mine},
         ts |-> Max({entries[b].ts} \union times)]]

ScanCore(c) ==
  LET source == Harvard(checkpoint, SavedAs("harvard", c))
      rest(s, kept) == All(source[s]) \ All(kept)
  IN
  /\ stage = "caches" /\ c = scanned
  /\ IF \A s \in Side : Fits(source[s], L1(s))
     THEN \E i \in Resized(source.i, flexus.l1i), d \in Resized(source.d, flexus.l1d) :
            /\ held' = [held EXCEPT ![c] = [i |-> i, d |-> d]]
            /\ entries' = Registered(c, [i |-> i, d |-> d])
            /\ evicted' = SetAside(SetAside(evicted, rest("i", i)), rest("d", d))
            /\ NextCore("directory")
            /\ UNCHANGED <<fileVars, checkpoint, flexus, l2, tableVars>>
     ELSE Panic

(* resize_directory: a set that is too large gives up the entries with the  *)
(* fewest sharers, and with each the lines it stands for, as one line.      *)
Tracked == {b \in Block : entries[b].sharers # {}}
Peers(s) == {b \in Tracked : b % flexus.directory.sets = s}
Replicas(b) == {e \in UNION {All(held[c][s]) : c \in Core, s \in Side} : e.block = b}
Aggregate(b) ==
  [block |-> b, ts |-> Max({0} \union {e.ts : e \in Replicas(b)}),
   writeable |-> \E e \in Replicas(b) : e.writeable,
   modified |-> \E e \in Replicas(b) : e.modified]

(* Mutant: the lines of an evicted entry stay.                              *)
WithoutLinesKept(b) == held

WithoutLines(b) ==
  [c \in Core |-> [s \in Side |->
     [k \in DOMAIN held[c][s] |-> {e \in held[c][s][k] : e.block # b}]]]

Overfull(s) == ~flexus.directory.infinite /\ Cardinality(Peers(s)) > flexus.directory.ways
EvictEntry(b) ==
  LET peers == Peers(b % flexus.directory.sets) IN
  /\ stage = "directory" /\ b \in Tracked /\ Overfull(b % flexus.directory.sets)
  /\ \A p \in peers : Cardinality(entries[b].sharers) <= Cardinality(entries[p].sharers)
  /\ evicted' = SetAside(evicted, {Aggregate(b)})
  /\ held' = WithoutLines(b)
  /\ entries' = [entries EXCEPT ![b] = [sharers |-> {}, ts |-> 0]]
  /\ UNCHANGED <<fileVars, checkpoint, flexus, stage, scanned, l2, tableVars>>

FinishDirectory ==
  /\ stage = "directory" /\ \A b \in Block : ~Overfull(b % flexus.directory.sets)
  /\ IF ~flexus.directory.infinite /\ flexus.directory.sets % flexus.slices # 0
     THEN Panic
     ELSE stage' = "l2" /\ UNCHANGED <<fileVars, checkpoint, flexus, scanned, cacheVars, tableVars>>

(* process_evicted_cache_line: a younger line replaces the time and the     *)
(* dirtiness of the copy, a new one is added beyond the ways.               *)
Absorbed(e) ==
  LET line == evicted[e.block] IN
  IF line.ts > e.ts THEN [e EXCEPT !.ts = line.ts, !.modified = line.modified] ELSE e
(* Mutant: only the copies in the shared cache are refreshed.               *)
ReceivedCopies(s) == {Absorbed(e) : e \in l2[s]}

Received(s) ==
  {Absorbed(e) : e \in l2[s]} \union
    {[block |-> b, ts |-> evicted[b].ts, modified |-> evicted[b].modified] : b \in
       {b \in Block : /\ evicted[b] # NoLine /\ b % Cardinality(DOMAIN l2) = s
                      /\ \A e \in l2[s] : e.block # b}}

(* Then the shared cache is resized itself.                                 *)
ConvertL2 ==
  LET received == [s \in DOMAIN l2 |-> Received(s)] IN
  /\ stage = "l2"
  /\ IF /\ Fits(received, flexus.l2) /\ flexus.l2.sets % flexus.slices = 0
        /\ flexus.noResizing => \A b \in Block : evicted[b] = NoLine
     THEN /\ l2' \in Resized(received, flexus.l2)
          /\ stage' = "btb"
          /\ UNCHANGED <<fileVars, checkpoint, flexus, scanned, held, entries, evicted, tableVars>>
     ELSE Panic

(* export_slices, serialize_directory_slices, with as many slices of the    *)
(* shared cache as of the directory.                                        *)
L2Slice(j) == [k \in 0..(flexus.l2.sets \div flexus.slices) - 1 |-> l2[k * flexus.slices + j]]
DirectorySlice(j) ==
  IF flexus.directory.infinite THEN {b \in Tracked : b % flexus.slices = j}
  ELSE UNION {Peers(s) : s \in {s \in 0..flexus.directory.sets - 1 : s % flexus.slices = j}}

-----------------------------------------------------------------------------
(* process_frontend and process_sms: one table per core.  The entries of a  *)
(* branch target buffer must all differ.                                    *)
ConvertTable(name, kind, g, next) ==
  LET source == checkpoint.table[SavedAs(kind, scanned)][name]
      distinct == \A e, f \in All(source) : e.tag = f.tag => e = f
  IN
  /\ stage = name
  /\ IF Fits(source, g) /\ (name = "btb" => distinct)
     THEN \E t \in Resized(source, g) :
            /\ table' = [table EXCEPT ![scanned][name] = t]
            /\ NextCore(next)
            /\ UNCHANGED <<fileVars, checkpoint, flexus, cacheVars, stlb>>
     ELSE Panic

(* process_mmus.  An entry is tagged with its page and address space.  One  *)
(* that leaves a first-level TLB, or every one of an inclusive hierarchy,   *)
(* goes to the second level, where a data entry takes the place of an       *)
(* instruction entry of the same page.                                      *)
Keyed(S) == {e.tag : e \in S}
(* Mutant: every entry goes to the second level, inclusive or not.          *)
PassedAlways(source, kept) == All(source)

Passed(source, kept) == IF flexus.inclusive THEN All(source) ELSE All(source) \ All(kept)
PassedOn(i, d) == {e \in i : e.tag \notin Keyed(d)} \union d

(* Mutant: every entry is filed in the set it came from.                    *)
FiledInFirst(base, passed) == [s \in DOMAIN base |-> base[s] \union IF s = 0 THEN passed ELSE {}]

Filed(base, passed) ==
  [s \in DOMAIN base |-> base[s] \union {e \in passed : e.tag % Cardinality(DOMAIN base) = s}]

Copies(S) == {[tag |-> e.tag, ts |-> e.ts, from |-> "l1"] : e \in S}
StlbOf(core) ==
  [s \in DOMAIN checkpoint.stlb[core] |->
     {[tag |-> e.tag, ts |-> e.ts, from |-> "stlb"] : e \in checkpoint.stlb[core][s]}]
ConvertTlbs(c) ==
  LET core == SavedAs("mmus", c)
      source == checkpoint.table[core]
      base == StlbOf(core)
      fits == /\ Fits(source.itlb, flexus.itlb) /\ Fits(source.dtlb, flexus.dtlb)
              /\ Fits(base, flexus.stlb)
  IN
  /\ stage = "mmus" /\ c = scanned
  /\ IF ~fits THEN Panic
     ELSE \E i \in Resized(source.itlb, flexus.itlb), d \in Resized(source.dtlb, flexus.dtlb) :
       LET passed == Copies(PassedOn(Passed(source.itlb, i), Passed(source.dtlb, d)))
           filed == Filed(Merged(base, flexus.stlb.sets), passed)
       IN IF Fits(filed, flexus.stlb)
          THEN /\ table' = [table EXCEPT ![c].itlb = i, ![c].dtlb = d]
               /\ \E t \in Resized(filed, flexus.stlb) : stlb' = [stlb EXCEPT ![c] = t]
               /\ NextCore("pht")
               /\ UNCHANGED <<fileVars, checkpoint, flexus, cacheVars>>
          ELSE Panic

Finished ==
  /\ stage \in {"done", "panicked"} \/ activity \in {"loaded", "panicked"}
  /\ UNCHANGED vars

Next ==
  \/ FolderStep \/ StartConversion
  \/ \E c \in Core : ScanCore(c) \/ ConvertTlbs(c)
  \/ \E b \in Block : EvictEntry(b)
  \/ FinishDirectory \/ ConvertL2
  \/ ConvertTable("btb", "fetch", flexus.btb, "mmus")
  \/ ConvertTable("pht", "pht", flexus.pht, "done")
  \/ Finished

Spec == Init /\ [][Next]_vars
-----------------------------------------------------------------------------
(* The files agree with each other: an entry names exactly the caches that  *)
(* hold its block and the time of the youngest line, every line has an      *)
(* entry, and an entry lies in the slice of its block, which is the slice   *)
(* the shared cache keeps the block in.                                     *)
Holds(c, s, b) == \E e \in All(held[c][s]) : e.block = b
DirectoryMatchesCaches ==
  stage \notin {"folder", "caches", "directory", "panicked"} =>
    \A b \in Block :
      /\ entries[b].sharers =
           {2 * c : c \in {c \in Core : Holds(c, "d", b)}} \union
           {2 * c + 1 : c \in {c \in Core : Holds(c, "i", b)}}
      /\ Replicas(b) # {} => entries[b].ts = Max({e.ts : e \in Replicas(b)})
      /\ stage # "l2" => \A j, k \in 0..flexus.slices - 1 :
           b \in DirectorySlice(j) /\ (\E e \in All(L2Slice(k)) : e.block = b) => j = k

(* A line the private caches of the detailed simulator have no room for is  *)
(* in the shared cache, at least as young as it was and as dirty unless the *)
(* copy there was younger, or its set is full of entries at least as young; *)
(* so is a translation in the second-level TLB.                             *)
CrowdedOut(set, ways, ts) == Cardinality(set) = ways /\ \A e \in set : e.ts >= ts
NoLineForgotten ==
  \A c \in Core, s \in Side : \A line \in All(Harvard(checkpoint, c)[s]) :
    LET b == line.block
        set == l2[b % flexus.l2.sets]
        older == \A e \in All(checkpoint.l2) : e.block = b => e.ts < line.ts
    IN line \in All(held[c][s]) \/ CrowdedOut(set, flexus.l2.ways, line.ts)
       \/ \E e \in set : /\ e.block = b /\ e.ts >= line.ts
                         /\ line.modified /\ older => e.modified
TranslationsKept(c) ==
  \A name \in {"itlb", "dtlb"} : \A e \in All(checkpoint.table[c][name]) :
    LET set == stlb[c][e.tag % flexus.stlb.sets] IN
    \/ ~flexus.inclusive /\ e \in All(table[c][name])
    \/ e.tag \in Keyed(set)
    \/ \E n \in {"itlb", "dtlb"} : \E f \in All(checkpoint.table[c][n]) :
         f.tag = e.tag /\ CrowdedOut(set, flexus.stlb.ways, f.ts)
NoTranslationForgotten == \A c \in Core : TranslationsKept(c)
PlacedByNumber ==
  /\ BlocksInPlace(l2)
  /\ \A c \in Core :
       /\ \A s \in Side : BlocksInPlace(held[c][s])
       /\ \A t \in TableNames : TagsInPlace(table[c][t])
       /\ TagsInPlace(stlb[c])

(* What is kept is found again: every entry lies in the set its number      *)
(* selects in the new geometry, and nothing is forgotten on the way down.   *)
NothingForgotten ==
  stage = "done" => PlacedByNumber /\ NoLineForgotten /\ NoTranslationForgotten

(* With resizing=false and the geometry of the checkpoint, nothing fails    *)
(* and nothing changes: the private caches, the shared cache, the tables of *)
(* a core and its second-level TLB are those of the checkpoint, and the     *)
(* directory, which is made anew, has for each block the positions of just  *)
(* the caches that held it in the checkpoint and the time of the youngest   *)
(* line.                                                                    *)
SavedLines(c, s, b) == {e \in All(Harvard(checkpoint, c)[s]) : e.block = b}
SavedEntry(b) ==
  [sharers |-> {2 * c : c \in {c \in Core : SavedLines(c, "d", b) # {}}} \union
               {2 * c + 1 : c \in {c \in Core : SavedLines(c, "i", b) # {}}},
   ts |-> Max({0} \union {e.ts : e \in UNION {SavedLines(c, s, b) : c \in Core, s \in Side}})]
UnresizedUnchanged ==
  flexus.same =>
    /\ stage # "panicked"
    /\ stage = "done" =>
         /\ \A c \in Core : /\ held[c] = Harvard(checkpoint, c)
                            /\ table[c] = checkpoint.table[c] /\ stlb[c] = StlbOf(c)
         /\ l2 = checkpoint.l2 /\ \A b \in Block : entries[b] = SavedEntry(b)
=============================================================================
