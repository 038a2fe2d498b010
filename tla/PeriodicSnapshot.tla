-------------------------- MODULE PeriodicSnapshot --------------------------
(* The "warm" mode (mode/warm.rs): a snapshot every Interval cycles until   *)
(* Required of them exist, then the process exits.  Two threads share the   *)
(* request slot SNAPSHOT_INFO: the vCPU thread that runs the quantum        *)
(* callback names a snapshot and leaves the request; QEMU's event loop      *)
(* takes it, calls savevm and counts it, holding the slot's lock throughout.*)
(*                                                                          *)
(* From qemu_api.rs: after a callback that returned TRUE the vCPUs wait for *)
(* the run state that savevm sets, and savevm, a wrapper of save_snapshot,  *)
(* resumes them before it returns.  A name is "<prefix>_<index>"; the model *)
(* keeps the index.                                                         *)
EXTENDS Integers, Sequences

CONSTANTS
  Required,        \* option count: snapshots before quitting
  InitThreshold,   \* option init_threshold, in cycles
  Interval,        \* option interval, in cycles
  InitIndexOption, \* option init_index
  Writers,         \* who may write: "savevm", or "plugins" (no_qemu_snapshot)
  FirstFormats,    \* the formats raw_ckpt_fmt chooses from
  OnDisk,          \* snapshots found on disk: the index and kind of each
  MaxDiff,         \* bound: cycles between two quantum callbacks
  MaxAhead         \* bound: cycles counted beyond the threshold

SnapshotKinds == {"base", "delta", "raw_base", "raw_delta", "plugins_only"}
Formats == {"incremental_first_base", "incremental", "raw_first_base", "raw_delta"}
NoRequest == -1
NoLoad == -1

ASSUME RequiredAssumption == Required \in Nat \ {0}
ASSUME ThresholdAssumption == InitThreshold \in Nat /\ Interval \in Nat \ {0}
ASSUME IndexAssumption == InitIndexOption \in Nat
ASSUME OptionAssumption ==
  /\ Writers \subseteq {"savevm", "plugins"}
  /\ FirstFormats \subseteq {"incremental_first_base", "raw_first_base"}
ASSUME OnDiskAssumption == OnDisk \subseteq [index : Nat, kind : SnapshotKinds]
ASSUME BoundAssumption == MaxDiff \in Nat \ {0} /\ MaxAhead \in Nat

VARIABLES
  writer,     \* who writes the snapshots of this run
  ahead,      \* PERIODIC_SNAPSHOT_CURRENT_CYCLES - PERIODIC_SNAPSHOT_THRESHOLD
  count,      \* PERIODIC_SNAPSHOT_COUNT
  initIndex,  \* PERIODIC_SNAPSHOT_INIT_INDEX
  format,     \* QEMU_SNAPSHOT_FORMAT
  slot,       \* SNAPSHOT_INFO: the requested index
  qpc,        \* the vCPU thread: "running", "named" in the callback, "waiting"
  named,      \* the callback's local snapshot_name
  lpc,        \* the event loop: "polling", or with the lock "saving", "resumed"
  serving,    \* the event loop's local request: its index and kind
  saved,      \* the snapshots written, in order
  loaded,     \* the index of the snapshot the run started from
  status      \* "exited" once std::process::exit was called

vCPU == <<ahead, qpc, named>>
loop == <<lpc, serving, format>>
snapshotVars == <<writer, vCPU, loop, count, initIndex, slot, saved, loaded, status>>

SnapshotInit ==
  /\ ahead = -InitThreshold
  /\ count = 0
  /\ initIndex = InitIndexOption
  /\ writer \in Writers
  /\ format \in FirstFormats
  /\ slot = NoRequest
  /\ qpc = "running" /\ named = NoRequest
  /\ lpc = "polling" /\ serving = [index |-> NoRequest, kind |-> "base"]
  /\ saved = <<>>
  /\ loaded = NoLoad
  /\ status = "running"

(* ---- starting from a snapshot: loadvm_cb, on_load_snapshot ------------- *)
KindsOf(index) == {s.kind : s \in {t \in OnDisk : t.index = index}}

(* The files of a base are tested before the ones of a delta, and bxdb ones *)
(* before raw ones.                                                         *)
DetectedKind(index) ==
  LET has == KindsOf(index) IN
  CASE "base" \in has -> "base"
    [] "base" \notin has /\ "delta" \in has -> "delta"
    [] has \cap {"base", "delta"} = {} /\ "raw_base" \in has -> "raw_base"
    [] has \cap {"base", "delta", "raw_base"} = {} /\ "raw_delta" \in has -> "raw_delta"
    [] OTHER -> "none"

(* Mutant: the format of the options is kept when a delta is loaded.        *)
FormatAfterLoadKept(kind) ==
  CASE kind = "base" -> "incremental"
    [] kind = "raw_base" -> "raw_delta"
    [] OTHER -> format

FormatAfterLoad(kind) ==
  CASE kind \in {"base", "delta"} -> "incremental"
    [] kind \in {"raw_base", "raw_delta"} -> "raw_delta"
    [] OTHER -> format

(* Mutant: the numbering restarts at the loaded snapshot.                   *)
IndexAfterLoadSame(index, kind) ==
  IF kind \in {"delta", "raw_delta"} THEN index ELSE initIndex

(* Only a delta's name tells the next index; after a base the option stands.*)
IndexAfterLoad(index, kind) ==
  IF kind \in {"delta", "raw_delta"} THEN index + 1 ELSE initIndex

(* The snapshot given on the command line, before the guest runs.           *)
LoadVM(index) ==
  /\ ahead = -InitThreshold /\ qpc = "running" /\ lpc = "polling"
  /\ saved = <<>> /\ slot = NoRequest /\ loaded = NoLoad /\ count = 0
  /\ loaded' = index
  /\ format' = FormatAfterLoad(DetectedKind(index))
  /\ initIndex' = IndexAfterLoad(index, DetectedKind(index))
  /\ UNCHANGED <<writer, vCPU, lpc, serving, count, slot, saved, status>>

(* ---- the vCPU thread: quantum_checking_callback ------------------------ *)
(* Cycles beyond MaxAhead are not told apart.                               *)
Advanced(diff) == IF ahead + diff > MaxAhead THEN MaxAhead ELSE ahead + diff

(* Mutant: the name counts the snapshot being requested.                    *)
NextIndexCounted == count + initIndex + 1

NextIndex == count + initIndex

(* The name is built from the count before the lock is tried.               *)
QuantumCheck(diff) ==
  /\ qpc = "running" /\ lpc # "saving" /\ status = "running"
  /\ ahead' = Advanced(diff)
  /\ IF ahead' >= 0
       THEN qpc' = "named" /\ named' = NextIndex
       ELSE UNCHANGED <<qpc, named>>
  /\ UNCHANGED <<writer, loop, count, initIndex, slot, saved, loaded, status>>

(* Mutant: the vCPUs are told to wait although nothing was requested.       *)
RequestRefusedWaits ==
  /\ qpc = "named" /\ writer = "savevm" /\ lpc # "polling" /\ status = "running"
  /\ qpc' = "waiting"
  /\ UNCHANGED <<writer, ahead, named, loop, count, initIndex, slot, saved, loaded, status>>

(* try_lock fails while the event loop serves: asked again next quantum.    *)
RequestRefused ==
  /\ qpc = "named" /\ writer = "savevm" /\ lpc # "polling" /\ status = "running"
  /\ qpc' = "running"
  /\ UNCHANGED <<writer, ahead, named, loop, count, initIndex, slot, saved, loaded, status>>

(* The threshold advances also when the slot is taken and the request lost. *)
RequestSnapshot ==
  /\ qpc = "named" /\ writer = "savevm" /\ lpc = "polling" /\ status = "running"
  /\ slot' = IF slot = NoRequest THEN named ELSE slot
  /\ ahead' = ahead - Interval
  /\ qpc' = "waiting"
  /\ UNCHANGED <<writer, named, loop, count, initIndex, saved, loaded, status>>

(* Mutant: one snapshot too many before quitting.                           *)
ReachedLate(n) == n > Required

Reached(n) == n >= Required

(* With no_qemu_snapshot the callback serialises the plugins itself.        *)
SerializePlugins ==
  /\ qpc = "named" /\ writer = "plugins" /\ status = "running"
  /\ saved' = Append(saved, [index |-> named, kind |-> "plugins_only"])
  /\ count' = count + 1
  /\ status' = IF Reached(count + 1) THEN "exited" ELSE "running"
  /\ ahead' = IF Reached(count + 1) THEN ahead ELSE ahead - Interval
  /\ qpc' = "running"
  /\ UNCHANGED <<writer, named, loop, initIndex, slot, loaded>>

(* ---- QEMU's event loop: event_loop_callback ---------------------------- *)
(* update_snapshot_type: after the first base come deltas.                  *)
FormatAfterSave ==
  CASE format = "incremental_first_base" -> "incremental"
    [] format = "raw_first_base" -> "raw_delta"
    [] OTHER -> format

(* Mutant: the format is read after update_snapshot_type changed it.        *)
KindSavedUpdated == IF FormatAfterSave = "incremental" THEN "delta" ELSE "raw_delta"

KindSaved ==
  CASE format = "incremental_first_base" -> "base"
    [] format = "incremental" -> "delta"
    [] format = "raw_first_base" -> "raw_base"
    [] OTHER -> "raw_delta"

ServeRequest ==
  /\ lpc = "polling" /\ slot # NoRequest /\ status = "running"
  /\ serving' = [index |-> slot, kind |-> KindSaved]
  /\ slot' = NoRequest
  /\ format' = FormatAfterSave
  /\ lpc' = "saving"
  /\ UNCHANGED <<writer, vCPU, count, initIndex, saved, loaded, status>>

(* qemu_plugin_savevm, with savevm_cb in it; the vCPUs run again at its end.*)
SaveVM ==
  /\ lpc = "saving" /\ status = "running"
  /\ saved' = Append(saved, serving)
  /\ lpc' = "resumed"
  /\ qpc' = IF qpc = "waiting" THEN "running" ELSE qpc
  /\ UNCHANGED <<writer, ahead, named, serving, format, count, initIndex, slot, loaded, status>>

(* The count is raised after savevm returned, then the lock is released.    *)
CountSnapshot ==
  /\ lpc = "resumed" /\ status = "running"
  /\ count' = count + 1
  /\ status' = IF Reached(count + 1) THEN "exited" ELSE "running"
  /\ lpc' = "polling"
  /\ UNCHANGED <<writer, vCPU, serving, format, initIndex, slot, saved, loaded>>

Terminated == status = "exited" /\ UNCHANGED snapshotVars

QuantumThread == (\E diff \in 1..MaxDiff : QuantumCheck(diff))
                 \/ RequestRefused \/ RequestSnapshot \/ SerializePlugins
EventLoop == ServeRequest \/ SaveVM \/ CountSnapshot

SnapshotNext ==
  \/ \E s \in OnDisk : LoadVM(s.index)
  \/ QuantumThread
  \/ EventLoop
  \/ Terminated

SnapshotSpec == SnapshotInit /\ [][SnapshotNext]_snapshotVars

(* The guest keeps running quanta and QEMU keeps polling its event loop.    *)
FairSnapshotSpec == SnapshotSpec /\ WF_snapshotVars(QuantumThread) /\ WF_snapshotVars(EventLoop)

(* ---- properties -------------------------------------------------------- *)
TypeOK ==
  /\ writer \in Writers
  /\ ahead \in Int
  /\ count \in Nat /\ initIndex \in Nat
  /\ format \in Formats
  /\ slot \in Nat \cup {NoRequest}
  /\ qpc \in {"running", "named", "waiting"} /\ named \in Nat \cup {NoRequest}
  /\ lpc \in {"polling", "saving", "resumed"}
  /\ serving \in [index : Nat \cup {NoRequest}, kind : SnapshotKinds]
  /\ saved \in Seq([index : Nat \cup {NoRequest}, kind : SnapshotKinds])
  /\ loaded \in Nat \cup {NoLoad}
  /\ status \in {"running", "exited"}

(* The process exits after exactly the requested number of savevm calls,    *)
(* never one more because a request was pending (warm.rs, the two exits).   *)
ExactlyRequired ==
  /\ Len(saved) <= Required
  /\ status = "exited" => Len(saved) = Required

(* The count a name is built from is at most one snapshot old: the k-th     *)
(* snapshot written carries index k-1, or k-2 if its name was built while   *)
(* the previous one was not counted yet.                                    *)
NameAtMostOneBehind ==
  \A k \in 1..Len(saved) : saved[k].index - initIndex \in {k - 1, k - 2}

(* With no_qemu_snapshot one thread names, writes and counts a snapshot: no *)
(* snapshot is written over another one of the run or over the one the run  *)
(* started from.                                                            *)
PluginNamesDistinct ==
  writer = "plugins" =>
    \A k \in 1..Len(saved) :
      /\ saved[k].index # loaded
      /\ \A j \in 1..(k - 1) : saved[j].index # saved[k].index

(* A delta is only written when a base of its family exists: saved before   *)
(* in this run, or behind the snapshot the run started from.  In the other  *)
(* direction, a run that starts from an incremental snapshot, or has        *)
(* written its base, never writes a second base.                            *)
DeltaHasBase ==
  TypeOK /\ \A k \in 1..Len(saved) :
    /\ \A family \in {<<"base", "delta">>, <<"raw_base", "raw_delta">>} :
         saved[k].kind = family[2] =>
           \/ \E j \in 1..(k - 1) : saved[j].kind = family[1]
           \/ loaded # NoLoad /\ DetectedKind(loaded) \in {family[1], family[2]}
    /\ saved[k].kind \in {"base", "raw_base"} =>
         k = 1 /\ (loaded = NoLoad \/ DetectedKind(loaded) = "none")

(* The warm-up always comes to its end: no request is lost for good.        *)
EventuallyQuits == <>(status = "exited")
=============================================================================
