------------------------ MODULE MCCheckpointExport ------------------------
(* Small checkpoints and target geometries for CheckpointExport.            *)
EXTENDS CheckpointExport

(* A cache of two sets of one way: a line, or none, in each.                *)
SetsWith(lines) ==
  {[k \in {0, 1} |-> {e \in chosen : e.block % 2 = k}] :
     chosen \in {S \in SUBSET lines : \A e, f \in S : e.block % 2 = f.block % 2 => e = f}}
Clean(blocks, times) ==
  [block : blocks, ts : times, writeable : {FALSE}, modified : {FALSE}]
Dirty(blocks, times) ==
  [block : blocks, ts : times, writeable : {TRUE}, modified : {TRUE}]
DataCaches == SetsWith(Clean({1, 2}, {1, 2}) \union Dirty({1, 3}, {2, 3}))
CodeCaches == SetsWith(Clean({1, 2}, {1, 3}))

(* A line that may be written has no other replica.                         *)
Coherent(caches) ==
  \A c, d \in Core, s, t \in Side :
    \A e \in All(caches[c][s]), f \in All(caches[d][t]) :
      e.block = f.block /\ <<c, s>> # <<d, t>> => ~e.writeable
NoTable == [k \in {0, 1} |-> {}]
NoTables == [c \in Core |-> [t \in TableNames |-> [k \in Tags |-> {}]]]
NoStlb == [c \in Core |-> NoTable]
EmptyCaches == [c \in Core |-> [s \in Side |-> NoTable]]
CopyOf(b, ts, modified) == [block |-> b, ts |-> ts, modified |-> modified]
SharedCaches == {NoTable, [k \in {0, 1} |-> IF k = 1 THEN {CopyOf(1, 2, FALSE)} ELSE {CopyOf(2, 2, TRUE)}]}
WithCaches(caches, shared, unified) ==
  [caches |-> caches, unified |-> unified, code |-> {2}, l2 |-> shared,
   table |-> NoTables, stlb |-> NoStlb]
CacheCheckpoints ==
  {WithCaches(caches, shared, u) : shared \in SharedCaches, u \in {FALSE},
     caches \in {f \in [Core -> [i : CodeCaches, d : DataCaches]] :
                   Coherent(f) /\ \A k \in {0, 1} : f[1].i[k] = {}}}
  \union
  {WithCaches([c \in Core |-> [s \in Side |-> u]], NoTable, TRUE) : u \in SetsWith(Clean({1, 2, 3}, {1, 2}))}

(* Tables of one core with a set per tag; entries differ in their times.    *)
TableEntries == [tag : Tags, ts : {1, 2, 3}]
Tables ==
  {[k \in Tags |-> {e \in S : e.tag = k}] :
     S \in {S \in SUBSET TableEntries : /\ Cardinality(S) <= 2
             /\ \A e, f \in S : (e.tag = f.tag \/ e.ts = f.ts) => e = f}}
WithTables(tables, second) ==
  [WithCaches(EmptyCaches, NoTable, FALSE) EXCEPT
     !.table = [c \in Core |-> IF c = 0 THEN tables ELSE NoTables[c]], !.stlb[0] = second]
TableCheckpoints ==
  {WithTables([btb |-> i, pht |-> i, itlb |-> i, dtlb |-> d], st) :
     i \in Tables, d \in Tables, st \in {NoTable, [k \in {0, 1} |-> {[tag |-> k, ts |-> 2]}]}}
Sets == [k \in {"directory", "llc"} |-> IF k = "llc" THEN 2 ELSE 3]
(* One checkpoint goes through the writing of its files: its cores differ.  *)
WrittenCheckpoints ==
  {WithCaches([c \in Core |-> [s \in Side |-> IF s = "i" THEN NoTable ELSE
                 [k \in {0, 1} |-> IF k = 1 THEN Clean({c * 2 + 1}, {c + 1}) ELSE {}]]],
              [k \in {0, 1} |-> {CopyOf(k + 2, 1, FALSE)}], FALSE)}
SmallCheckpoints ==
  WrittenCheckpoints \union CacheCheckpoints \union TableCheckpoints

G(s, w) == [sets |-> s, ways |-> w]
Small ==
  [l1i |-> G(1, 1), l1d |-> G(1, 1), l2 |-> G(2, 1), slices |-> 2, inclusive |-> TRUE,
   directory |-> [infinite |-> TRUE, sets |-> 1, ways |-> 1], same |-> FALSE, noResizing |-> FALSE,
   itlb |-> G(2, 1), dtlb |-> G(1, 1), stlb |-> G(2, 2), btb |-> G(2, 1), pht |-> G(1, 2)]
Same ==
  [Small EXCEPT !.l1i = G(2, 1), !.l1d = G(2, 1), !.l2 = G(2, 1), !.itlb = G(4, 1),
     !.dtlb = G(4, 1), !.stlb = G(2, 2), !.btb = G(4, 1), !.pht = G(4, 1),
     !.inclusive = FALSE, !.same = TRUE, !.noResizing = TRUE]
Targets ==
  {Small, [Small EXCEPT !.directory = [infinite |-> FALSE, sets |-> 2, ways |-> 1], !.inclusive = FALSE],
   Same, [Small EXCEPT !.noResizing = TRUE]}
=============================================================================
