--------------------------- MODULE CheckpointFiles ---------------------------
(* The folder of a checkpoint (lib.rs savevm_cb and loadvm_cb, the _worker  *)
(* and _shard functions of every structure).  The fetch units and then the  *)
(* memory hierarchy are written by a pool of workers, each its own slice of *)
(* the cores and of the sets; a load reads the slices one by one.  The      *)
(* simulator may be killed at any time; a later save under the same name    *)
(* overwrites the files it finds.                                           *)
EXTENDS Integers, Sequences, FiniteSets, SequencesExt

CONSTANTS
  NCores, NWorkers,  \* CORE_COUNT, CHECKPOINT_POOL_SIZE
  NSets,             \* SET of the directory and of the shared cache
  MaxSaves           \* bound: saves under the one name

ASSUME FilesAssumption ==
  /\ {NCores, NWorkers, MaxSaves} \subseteq Nat \ {0}
  /\ NCores % NWorkers = 0 /\ NSets \in [{"directory", "llc"} -> Nat]

Worker == 0..NWorkers - 1
HierarchyOrder == <<"harvard", "mmus", "pht", "directory", "llc">>
PluginOrder == <<<<"fetch">>, HierarchyOrder>>
Kinds == {"fetch"} \union Range(HierarchyOrder)

VARIABLES
  activity,  \* running, saving, loading, loaded, panicked
  saves,     \* saves so far; also the time, see get_ts
  plugin,    \* the plugin at work, in PluginList
  turn,      \* per worker the kinds written; in a load, of worker 0, those read
  files,     \* per kind and worker the slice, Absent or Truncated
  timeFile, time,   \* the file "timestamp", and CHECKPOINT_TIMESTAMP
  machine,   \* per kind and core or set, the save its state is that of
  reported   \* kinds a load says it has loaded

fileVars == <<activity, saves, plugin, turn, files, timeFile, time, machine, reported>>

Cold == [unit |-> -1, save |-> 0]
Absent == <<Cold>>
Truncated == <<[unit |-> -1, save |-> -1]>>
NoTime == 0
HalfTime == -1

Units(k) == IF k \in DOMAIN NSets THEN NSets[k] ELSE NCores
Begin(k, w) == w * (Units(k) \div NWorkers)
CoreEnd(w) == (w + 1) * (NCores \div NWorkers)
(* Mutant: the sets that do not divide among the workers are nobody's.      *)
SetEndEven(k, w) == (w + 1) * (NSets[k] \div NWorkers)

SetEnd(k, w) == IF w + 1 = NWorkers THEN NSets[k] ELSE (w + 1) * (NSets[k] \div NWorkers)
End(k, w) == IF k \in DOMAIN NSets THEN SetEnd(k, w) ELSE CoreEnd(w)

Now(n) == [k \in Kinds |-> [u \in 0..Units(k) - 1 |-> [unit |-> u, save |-> n]]]
ColdMachine == [k \in Kinds |-> [u \in 0..Units(k) - 1 |-> Cold]]

Contents(begin, end) == [i \in 1..end - begin |-> [unit |-> begin + i - 1, save |-> saves]]
Slice(k, w) == Contents(Begin(k, w), End(k, w))
(* A snapshot without QEMU is one file of every kind; it cannot be loaded,  *)
(* only converted.                                                          *)
WholeFile(k, w) == IF w = 0 THEN Contents(0, Units(k)) ELSE Absent

FilesInit ==
  /\ activity = "running" /\ saves = 0 /\ plugin = 1
  /\ turn = [w \in Worker |-> 0]
  /\ files = [k \in Kinds |-> [w \in Worker |-> Absent]]
  /\ timeFile = NoTime /\ time = 0
  /\ machine = Now(0) /\ reported = {}

-----------------------------------------------------------------------------
(* savevm_cb.                                                               *)
RequestSave ==
  /\ activity = "running" /\ saves < MaxSaves
  /\ saves' = saves + 1 /\ machine' = Now(saves + 1)
  /\ activity' = "saving"
  /\ UNCHANGED <<plugin, turn, files, timeFile, time, reported>>

(* A file is created first and then filled.  Without it the time is 0.     *)
WriteTime ==
  /\ activity = "saving" /\ timeFile # saves
  /\ timeFile' = IF timeFile = HalfTime THEN saves ELSE HalfTime
  /\ UNCHANGED <<activity, saves, plugin, turn, files, time, machine, reported>>

(* Mutant: the time is written after the plugins.                           *)
TimeWrittenAnyhow == TRUE

TimeWritten == timeFile = saves

WriteFile(w) ==
  /\ activity = "saving" /\ TimeWritten
  /\ turn[w] < Len(PluginOrder[plugin])
  /\ LET k == PluginOrder[plugin][turn[w] + 1] IN
       IF files[k][w] = Truncated
       THEN /\ files' = [files EXCEPT ![k][w] = Slice(k, w)]
            /\ turn' = [turn EXCEPT ![w] = @ + 1]
       ELSE files' = [files EXCEPT ![k][w] = Truncated] /\ UNCHANGED turn
  /\ UNCHANGED <<activity, saves, plugin, timeFile, time, machine, reported>>

(* The pool is joined; the next plugin, or the machine runs on.             *)
Join ==
  /\ activity = "saving" /\ \A w \in Worker : turn[w] = Len(PluginOrder[plugin])
  /\ timeFile = saves
  /\ turn' = [w \in Worker |-> 0]
  /\ plugin' = (plugin % Len(PluginOrder)) + 1
  /\ activity' = IF plugin = Len(PluginOrder) THEN "running" ELSE "saving"
  /\ UNCHANGED <<saves, files, timeFile, time, machine, reported>>

-----------------------------------------------------------------------------
(* The simulator is gone, and a new one loads the checkpoint (loadvm_cb).   *)
Restart ==
  /\ activity \in {"saving", "running"} /\ saves > 0
  /\ activity' = "loading" /\ machine' = ColdMachine
  /\ plugin' = 1 /\ turn' = [w \in Worker |-> 0] /\ reported' = Kinds
  /\ UNCHANGED <<saves, files, timeFile, time>>

FilePanic ==
  /\ activity' = "panicked"
  /\ UNCHANGED <<saves, plugin, turn, files, timeFile, time, machine, reported>>

(* A missing file leaves its slice cold, and the kind is not reported.      *)
(* Mutant: the last file alone decides.                                     *)
MissingLast(k, w) == IF files[k][w] = Absent THEN reported \ {k} ELSE reported \union {k}

Missing(k, w) == IF files[k][w] = Absent THEN reported \ {k} ELSE reported

(* Some zip the file with their slice, the others place its n-th unit n     *)
(* after the beginning of the slice.                                        *)
Zipped(k, w, u) == u - Begin(k, w) + 1 \in DOMAIN files[k][w] /\ u < End(k, w)
Indexed(k, w, u) == u - Begin(k, w) + 1 \in DOMAIN files[k][w]
Restored(k, w) ==
  [u \in DOMAIN machine[k] |->
     IF /\ files[k][w] # Absent
        /\ IF k \in {"harvard", "pht", "llc"} THEN Zipped(k, w, u) ELSE Indexed(k, w, u)
     THEN files[k][w][u - Begin(k, w) + 1] ELSE machine[k][u]]

(* deserialize_par: worker by worker, and of each kind by kind.             *)
ReadFile ==
  LET order == PluginOrder[plugin]
      w == turn[0] \div Len(order)
      k == order[(turn[0] % Len(order)) + 1]
  IN
  /\ activity = "loading" /\ turn[0] < NWorkers * Len(order)
  /\ IF files[k][w] = Truncated THEN FilePanic
     ELSE /\ machine' = [machine EXCEPT ![k] = Restored(k, w)]
          /\ reported' = Missing(k, w)
          /\ turn' = [turn EXCEPT ![0] = @ + 1]
          /\ UNCHANGED <<activity, saves, plugin, files, timeFile, time>>

LoadNextPlugin ==
  /\ activity = "loading" /\ plugin < Len(PluginOrder)
  /\ turn[0] = NWorkers * Len(PluginOrder[plugin])
  /\ plugin' = plugin + 1 /\ turn' = [turn EXCEPT ![0] = 0]
  /\ UNCHANGED <<activity, saves, files, timeFile, time, machine, reported>>

LoadTime ==
  /\ activity = "loading" /\ plugin = Len(PluginOrder)
  /\ turn[0] = NWorkers * Len(PluginOrder[plugin])
  /\ IF timeFile = HalfTime THEN FilePanic
     ELSE /\ activity' = "loaded" /\ time' = timeFile
          /\ UNCHANGED <<saves, plugin, turn, files, timeFile, machine, reported>>

FilesNext ==
  \/ RequestSave \/ WriteTime \/ Join \/ Restart \/ ReadFile \/ LoadNextPlugin \/ LoadTime
  \/ \E w \in Worker : WriteFile(w)

-----------------------------------------------------------------------------
(* detect_checkpoint_files: the files of a kind, in the order of the        *)
(* numbers in their names.                                                  *)
Detected(k) == {w \in Worker : files[k][w] # Absent}
(* Mutant: in the order of the folder.                                      *)
EarlierInFolder(v, w) == v > w

Earlier(v, w) == v < w

(* The conversion takes the units of a kind as they come, file by file.     *)
Places(k) == UNION {{w} \X DOMAIN files[k][w] : w \in Detected(k)}
Precedes(p, q) == Earlier(p[1], q[1]) \/ (p[1] = q[1] /\ p[2] < q[2])
Place(k, n) == CHOOSE p \in Places(k) : Cardinality({q \in Places(k) : Precedes(q, p)}) = n
Collected(k, n) == files[k][Place(k, n)[1]][Place(k, n)[2]]

(* What is restored belongs where it is put and is not of the future; what  *)
(* is reported loaded is nowhere cold.  A save that ended is loaded         *)
(* completely.                                                              *)
SaveComplete == \A k \in Kinds, w \in Worker : files[k][w] = Slice(k, w)
SavedIsLoaded ==
  /\ activity = "loaded" =>
       \A k \in Kinds : \A u \in DOMAIN machine[k] :
         LET state == machine[k][u] IN
         /\ state # Cold => state.unit = u /\ state.save <= time
         /\ k \in reported => state # Cold
  /\ SaveComplete /\ timeFile = saves =>
       /\ activity # "panicked"
       /\ activity = "loaded" => machine = Now(saves) /\ reported = Kinds
=============================================================================
