-------------------------- MODULE CheckpointProofs --------------------------
(* Proofs about PeriodicSnapshot, CheckpointFiles and CheckpointExport: for *)
(* every threshold, interval and count of snapshots, and for any number of  *)
(* cores, sets, workers and saves, any checkpoints and any targets that     *)
(* their assumptions admit.                                                 *)
EXTENDS PeriodicSnapshot, CheckpointExport, FiniteSetTheorems, TLAPS

(* ---- PeriodicSnapshot -------------------------------------------------- *)
(* How many snapshots are written, and what the two threads know of it.     *)
Counted ==
  /\ count \in Nat /\ initIndex \in Nat
  /\ saved \in Seq([index : Nat \cup {NoRequest}, kind : SnapshotKinds])
  /\ slot \in Nat \cup {NoRequest}
  /\ serving \in [index : Nat \cup {NoRequest}, kind : SnapshotKinds]
  /\ named \in Nat \cup {NoRequest}
  /\ status \in {"running", "exited"}
  /\ qpc \in {"running", "named", "waiting"}
  /\ lpc \in {"polling", "saving", "resumed"}
  /\ format \in Formats
  /\ writer \in {"savevm", "plugins"}
  /\ lpc = "resumed" => Len(saved) = count + 1
  /\ lpc # "resumed" => Len(saved) = count
  /\ status = "exited" => lpc = "polling" /\ count = Required
  /\ status = "running" => count < Required

(* A request is outstanding only while its requester waits, and its name    *)
(* was built from the present count or the one before.                      *)
Request ==
  /\ writer = "plugins" => slot = NoRequest /\ lpc = "polling"
  /\ slot # NoRequest \/ lpc = "saving" => qpc = "waiting"
  /\ lpc # "polling" => slot = NoRequest
  /\ writer = "plugins" /\ qpc = "named" => named = initIndex + count
  /\ qpc = "named" /\ lpc = "resumed" => named = initIndex + count
  /\ qpc = "named" => named - initIndex \in {count, count - 1}
  /\ slot # NoRequest => slot - initIndex \in {count, count - 1}
  /\ lpc = "saving" => serving.index - initIndex \in {count, count - 1}

Inv == Counted /\ Request /\ NameAtMostOneBehind

LEMMA KindSavedType == KindSaved \in SnapshotKinds
BY DEF KindSaved, SnapshotKinds

LEMMA FormatTypes ==
  ASSUME format \in Formats, NEW kind
  PROVE  FormatAfterLoad(kind) \in Formats /\ FormatAfterSave \in Formats
BY DEF FormatAfterLoad, FormatAfterSave, Formats

LEMMA InitInv == SnapshotInit => Inv
<1> SUFFICES ASSUME SnapshotInit PROVE Inv
  OBVIOUS
<1>1. Counted
  <2>1. format \in Formats
    BY OptionAssumption DEF SnapshotInit, Formats
  <2>2. serving \in [index : Nat \cup {NoRequest}, kind : SnapshotKinds]
    BY DEF SnapshotInit, SnapshotKinds
  <2>3. saved = <<>> /\ count = 0 /\ lpc = "polling"
    BY DEF SnapshotInit
  <2> QED BY <2>1, <2>2, <2>3, RequiredAssumption, IndexAssumption, OptionAssumption
       DEF SnapshotInit, Counted, NoRequest
<1>2. Request /\ NameAtMostOneBehind
  BY DEF SnapshotInit, Request, NameAtMostOneBehind, NoRequest
<1> QED BY <1>1, <1>2 DEF Inv

LEMMA StepInv == Inv /\ [SnapshotNext]_snapshotVars => Inv'
<1> SUFFICES ASSUME Inv, [SnapshotNext]_snapshotVars PROVE Inv'
  OBVIOUS
<1> USE RequiredAssumption, IndexAssumption, OptionAssumption
<1>1. ASSUME NEW s \in OnDisk, LoadVM(s.index) PROVE Inv'
  <2>1. IndexAfterLoad(s.index, DetectedKind(s.index)) \in Nat
    BY OnDiskAssumption DEF IndexAfterLoad, Inv, Counted
  <2>2. FormatAfterLoad(DetectedKind(s.index)) \in Formats
    BY FormatTypes DEF Inv, Counted
  <2> QED BY <1>1, <2>1, <2>2
       DEF LoadVM, vCPU, Inv, Counted, Request, NameAtMostOneBehind, NoRequest
<1>2. ASSUME NEW diff \in 1..MaxDiff, QuantumCheck(diff) PROVE Inv'
  BY <1>2 DEF QuantumCheck, NextIndex, loop, Inv, Counted, Request,
              NameAtMostOneBehind, NoRequest
<1>3. CASE RequestRefused
  BY <1>3 DEF RequestRefused, loop, Inv, Counted, Request, NameAtMostOneBehind
<1>4. CASE RequestSnapshot
  BY <1>4 DEF RequestSnapshot, loop, Inv, Counted, Request, NameAtMostOneBehind,
              NoRequest
<1>5. CASE SerializePlugins
  <2>1. [index |-> named, kind |-> "plugins_only"]
          \in [index : Nat \cup {NoRequest}, kind : SnapshotKinds]
    BY DEF Inv, Counted, SnapshotKinds
  <2>2. Counted'
    BY <1>5, <2>1 DEF SerializePlugins, Reached, loop, Inv, Counted, Request
  <2>3. Request'
    BY <1>5 DEF SerializePlugins, loop, Inv, Counted, Request, NoRequest
  <2>4. NameAtMostOneBehind'
    BY <1>5 DEF SerializePlugins, loop, Inv, Counted, Request, NameAtMostOneBehind
  <2> QED BY <2>2, <2>3, <2>4 DEF Inv
<1>6. CASE ServeRequest
  <2>1. [index |-> slot, kind |-> KindSaved]
          \in [index : Nat \cup {NoRequest}, kind : SnapshotKinds]
    BY KindSavedType DEF Inv, Counted
  <2>2. FormatAfterSave \in Formats
    BY FormatTypes DEF Inv, Counted
  <2> QED BY <1>6, <2>1, <2>2
       DEF ServeRequest, vCPU, Inv, Counted, Request, NameAtMostOneBehind, NoRequest
<1>7. CASE SaveVM
  <2>1. Counted'
    BY <1>7 DEF SaveVM, Inv, Counted, Request
  <2>2. Request'
    BY <1>7 DEF SaveVM, Inv, Counted, Request, NoRequest
  <2>3. NameAtMostOneBehind'
    BY <1>7 DEF SaveVM, Inv, Counted, Request, NameAtMostOneBehind
  <2> QED BY <2>1, <2>2, <2>3 DEF Inv
<1>8. CASE CountSnapshot
  <2>1. Counted'
    BY <1>8 DEF CountSnapshot, Reached, vCPU, Inv, Counted, Request
  <2>2. Request'
    BY <1>8 DEF CountSnapshot, vCPU, Inv, Counted, Request, NoRequest
  <2>3. NameAtMostOneBehind'
    BY <1>8 DEF CountSnapshot, Inv, NameAtMostOneBehind
  <2> QED BY <2>1, <2>2, <2>3 DEF Inv
<1>9. CASE Terminated \/ UNCHANGED snapshotVars
  BY <1>9 DEF Terminated, snapshotVars, vCPU, loop, Inv, Counted, Request, NameAtMostOneBehind
<1> QED BY <1>1, <1>2, <1>3, <1>4, <1>5, <1>6, <1>7, <1>8, <1>9
     DEF SnapshotNext, QuantumThread, EventLoop

(* The process exits after exactly Required snapshots, whatever the         *)
(* interleaving of the quantum callback and the event loop.                 *)
THEOREM SnapshotCount == SnapshotSpec => []ExactlyRequired
<1>1. Inv => ExactlyRequired
  BY RequiredAssumption DEF Inv, Counted, ExactlyRequired
<1> QED BY <1>1, InitInv, StepInv, PTL DEF SnapshotSpec

(* A snapshot's name lags at most one behind the snapshots written before.  *)
THEOREM SnapshotNames == SnapshotSpec => []NameAtMostOneBehind
<1>1. Inv => NameAtMostOneBehind
  BY DEF Inv
<1> QED BY <1>1, InitInv, StepInv, PTL DEF SnapshotSpec

(* ---- bases and names --------------------------------------------------- *)
Families == {<<"base", "delta">>, <<"raw_base", "raw_delta">>}

(* A base of the family was written or lies behind the loaded snapshot.     *)
BaseWritten(family) == \E j \in 1..Len(saved) : saved[j].kind = family[1]

BaseLoaded(family) == loaded # NoLoad /\ DetectedKind(loaded) \in {family[1], family[2]}

NothingLoaded == loaded = NoLoad \/ DetectedKind(loaded) = "none"

(* What the format of the next snapshot says of the ones before it.         *)
FormatOf(family) == IF family[1] = "base" THEN "incremental" ELSE "raw_delta"

FamilyOK(family) ==
  /\ format = FormatOf(family) =>
       \/ BaseWritten(family) \/ BaseLoaded(family)
       \/ lpc = "saving" /\ serving.kind = family[1]
  /\ lpc = "saving" /\ serving.kind = family[2] =>
       BaseWritten(family) \/ BaseLoaded(family)
  /\ \A k \in 1..Len(saved) : saved[k].kind = family[2] =>
       \/ \E j \in 1..(k - 1) : saved[j].kind = family[1]
       \/ BaseLoaded(family)
  /\ lpc = "saving" /\ serving.kind = family[1] => saved = <<>> /\ NothingLoaded
  /\ \A k \in 1..Len(saved) : saved[k].kind = family[1] => k = 1 /\ NothingLoaded

(* The first base is still to be written, and nothing has been.             *)
FirstFormat ==
  writer = "savevm" /\ format \in {"incremental_first_base", "raw_first_base"} =>
    saved = <<>> /\ lpc = "polling" /\ NothingLoaded

(* Where the numbering of the run starts, and how plugins continue it.      *)
Numbering ==
  /\ loaded = NoLoad \/ DetectedKind(loaded) \notin {"delta", "raw_delta"} =>
       initIndex = InitIndexOption
  /\ loaded # NoLoad /\ DetectedKind(loaded) \in {"delta", "raw_delta"} =>
       initIndex = loaded + 1
  /\ writer = "plugins" => \A k \in 1..Len(saved) :
       saved[k].index = initIndex + k - 1 /\ saved[k].kind = "plugins_only"

SnapshotFiles ==
  /\ ahead \in Int /\ writer \in Writers
  /\ loaded \in {s.index : s \in OnDisk} \cup {NoLoad}
  /\ \A family \in Families : FamilyOK(family)
  /\ FirstFormat /\ Numbering

LEMMA InitFiles == SnapshotInit => SnapshotFiles
<1> SUFFICES ASSUME SnapshotInit PROVE SnapshotFiles
  OBVIOUS
<1>1. ahead \in Int /\ writer \in Writers /\ loaded = NoLoad /\ saved = <<>>
      /\ lpc = "polling" /\ initIndex = InitIndexOption
      /\ format \in {"incremental_first_base", "raw_first_base"}
  BY ThresholdAssumption, OptionAssumption DEF SnapshotInit
<1>2. \A family \in Families : FamilyOK(family)
  BY <1>1 DEF Families, FamilyOK, FormatOf
<1> QED BY <1>1, <1>2 DEF SnapshotFiles, FirstFormat, Numbering, NothingLoaded

LEMMA FamilyNames ==
  ASSUME NEW family \in Families
  PROVE  \/ family[1] = "base" /\ family[2] = "delta" /\ FormatOf(family) = "incremental"
         \/ family[1] = "raw_base" /\ family[2] = "raw_delta" /\ FormatOf(family) = "raw_delta"
BY DEF Families, FormatOf

(* A step that writes nothing and changes nothing of the files.             *)
LEMMA FilesStay ==
  ASSUME SnapshotFiles, UNCHANGED <<writer, loaded, saved, format, initIndex>>, ahead' \in Int,
         UNCHANGED <<lpc, serving>> \/ (lpc # "saving" /\ lpc' = "polling")
  PROVE  SnapshotFiles'
<1>1. ASSUME NEW family \in Families PROVE FamilyOK(family)'
  <2>1. FamilyOK(family)
    BY DEF SnapshotFiles
  <2>2. /\ BaseWritten(family)' = BaseWritten(family)
        /\ BaseLoaded(family)' = BaseLoaded(family) /\ NothingLoaded' = NothingLoaded
    BY DEF BaseWritten, BaseLoaded, NothingLoaded, DetectedKind, KindsOf
  <2>3. lpc' = "saving" => lpc = "saving" /\ serving' = serving
    OBVIOUS
  <2>4. lpc = "saving" => lpc' = "saving" /\ serving' = serving
    OBVIOUS
  <2> QED BY <2>1, <2>2, <2>3, <2>4 DEF FamilyOK
<1>2. FirstFormat'
  BY DEF SnapshotFiles, FirstFormat, NothingLoaded, DetectedKind, KindsOf
<1>3. Numbering'
  BY DEF SnapshotFiles, Numbering, DetectedKind, KindsOf
<1> QED BY <1>1, <1>2, <1>3 DEF SnapshotFiles

(* The loaded snapshot stands for the base of its family.                   *)
LEMMA LoadFiles ==
  ASSUME Inv, SnapshotFiles, NEW s \in OnDisk, LoadVM(s.index)
  PROVE  SnapshotFiles'
<1> DEFINE kind == DetectedKind(s.index)
<1>1. /\ lpc = "polling" /\ saved = <<>> /\ loaded = NoLoad /\ loaded' = s.index
      /\ format' = FormatAfterLoad(kind) /\ initIndex' = IndexAfterLoad(s.index, kind)
      /\ UNCHANGED <<writer, ahead, lpc, serving, saved>>
  BY DEF LoadVM, vCPU
<1>2. s.index \in Nat /\ loaded' # NoLoad /\ DetectedKind(loaded)' = kind
  BY <1>1, OnDiskAssumption DEF NoLoad, DetectedKind, KindsOf
<1>3. kind \in {"base", "delta", "raw_base", "raw_delta", "none"}
  BY Zenon DEF DetectedKind
<1> HIDE DEF kind
<1>4. ASSUME NEW family \in Families PROVE FamilyOK(family)'
  <2>1. FamilyOK(family)
    BY DEF SnapshotFiles
  <2>2. format' = FormatOf(family) => kind \in {family[1], family[2]}
    <3>1. ~BaseWritten(family) /\ ~BaseLoaded(family) /\ lpc # "saving"
      BY <1>1 DEF BaseWritten, BaseLoaded
    <3>2. format # FormatOf(family)
      BY <2>1, <3>1 DEF FamilyOK
    <3> QED BY <1>1, <1>3, <3>2, FamilyNames DEF FormatAfterLoad
  <2>3. BaseLoaded(family)' <=> kind \in {family[1], family[2]}
    BY <1>2 DEF BaseLoaded
  <2> QED BY <1>1, <2>2, <2>3 DEF FamilyOK
<1>5. FirstFormat'
  BY <1>1, <1>2, <1>3 DEF SnapshotFiles, FirstFormat, FormatAfterLoad, NothingLoaded
<1>6. Numbering'
  BY <1>1, <1>2 DEF SnapshotFiles, Numbering, IndexAfterLoad
<1> QED BY <1>1, <1>2, <1>4, <1>5, <1>6 DEF SnapshotFiles

(* A request takes the present format; a base is followed by deltas.        *)
LEMMA ServeFiles ==
  ASSUME Inv, SnapshotFiles, ServeRequest
  PROVE  SnapshotFiles'
<1>1. /\ lpc = "polling" /\ lpc' = "saving" /\ serving' = [index |-> slot, kind |-> KindSaved]
      /\ format' = FormatAfterSave
      /\ UNCHANGED <<writer, ahead, initIndex, saved, loaded>>
  BY DEF ServeRequest, vCPU
<1>2. writer = "savevm" /\ format \in Formats
  BY DEF ServeRequest, Inv, Counted, Request
<1>3. serving'.kind = KindSaved
  BY <1>1
<1>4. ASSUME NEW family \in Families PROVE FamilyOK(family)'
  <2>1. FamilyOK(family)
    BY DEF SnapshotFiles
  <2>2. /\ BaseWritten(family)' = BaseWritten(family)
        /\ BaseLoaded(family)' = BaseLoaded(family) /\ NothingLoaded' = NothingLoaded
    BY <1>1 DEF BaseWritten, BaseLoaded, NothingLoaded, DetectedKind, KindsOf
  <2>3. serving'.kind = family[2] => format = FormatOf(family)
    BY <1>2, <1>3, FamilyNames DEF KindSaved, Formats
  <2>4. serving'.kind = family[1] => saved = <<>> /\ NothingLoaded
    BY <1>2, <1>3, FamilyNames DEF KindSaved, Formats, SnapshotFiles, FirstFormat
  <2>5. format' = FormatOf(family) => format = FormatOf(family) \/ serving'.kind = family[1]
    BY <1>1, <1>2, <1>3, FamilyNames DEF KindSaved, FormatAfterSave, Formats
  <2>6. format = FormatOf(family) => BaseWritten(family) \/ BaseLoaded(family)
    BY <1>1, <2>1 DEF FamilyOK
  <2>7. \A k \in 1..Len(saved) : saved[k].kind = family[2] =>
          (\E j \in 1..(k - 1) : saved[j].kind = family[1]) \/ BaseLoaded(family)
    BY <2>1 DEF FamilyOK
  <2>8. \A k \in 1..Len(saved) : saved[k].kind = family[1] => k = 1 /\ NothingLoaded
    BY <2>1 DEF FamilyOK
  <2> QED BY <1>1, <2>2, <2>3, <2>4, <2>5, <2>6, <2>7, <2>8 DEF FamilyOK
<1>5. FirstFormat'
  BY <1>1, <1>2 DEF FirstFormat, FormatAfterSave, Formats
<1>6. Numbering'
  BY <1>1 DEF SnapshotFiles, Numbering, DetectedKind, KindsOf
<1> QED BY <1>1, <1>4, <1>5, <1>6 DEF SnapshotFiles

(* A written snapshot is a first base, or finds the base of its family.     *)
LEMMA AppendFamily ==
  ASSUME Inv, NEW family \in Families, FamilyOK(family),
         NEW x \in [index : Nat \cup {NoRequest}, kind : SnapshotKinds], saved' = Append(saved, x),
         UNCHANGED <<loaded, format>>, lpc' # "saving",
         lpc = "saving" => x = serving,
         lpc # "saving" => x.kind = "plugins_only"
  PROVE  FamilyOK(family)'
<1>1. /\ Len(saved) \in Nat /\ Len(saved') = Len(saved) + 1
      /\ \A k \in 1..Len(saved) : saved'[k] = saved[k]
      /\ saved'[Len(saved) + 1] = x
  BY DEF Inv, Counted
<1>2. BaseLoaded(family)' = BaseLoaded(family) /\ NothingLoaded' = NothingLoaded
  BY DEF BaseLoaded, NothingLoaded, DetectedKind, KindsOf
<1>3. BaseWritten(family) => BaseWritten(family)'
  BY <1>1 DEF BaseWritten
<1>4. x.kind = family[1] => saved = <<>> /\ NothingLoaded /\ BaseWritten(family)'
  <2>1. x.kind = family[1] => lpc = "saving" /\ serving.kind = family[1]
    BY FamilyNames
  <2>2. x.kind = family[1] => BaseWritten(family)'
    BY <1>1 DEF BaseWritten
  <2> QED BY <2>1, <2>2 DEF FamilyOK
<1>5. x.kind = family[2] => BaseWritten(family) \/ BaseLoaded(family)
  <2>1. x.kind = family[2] => lpc = "saving" /\ serving.kind = family[2]
    BY FamilyNames
  <2> QED BY <2>1 DEF FamilyOK
<1>6. format' = FormatOf(family) => BaseWritten(family)' \/ BaseLoaded(family)'
  BY <1>2, <1>3, <1>4 DEF FamilyOK
<1>7. ASSUME NEW k \in 1..Len(saved'), saved'[k].kind = family[2]
      PROVE  (\E j \in 1..(k - 1) : saved'[j].kind = family[1]) \/ BaseLoaded(family)
  <2>1. CASE k \in 1..Len(saved)
    BY <1>1, <1>7, <2>1 DEF FamilyOK
  <2>2. CASE k = Len(saved) + 1
    BY <1>1, <1>5, <1>7, <2>2 DEF BaseWritten
  <2> QED BY <1>1, <2>1, <2>2
<1>8. ASSUME NEW k \in 1..Len(saved'), saved'[k].kind = family[1]
      PROVE  k = 1 /\ NothingLoaded
  <2>1. CASE k \in 1..Len(saved)
    BY <1>1, <1>8, <2>1 DEF FamilyOK
  <2>2. CASE k = Len(saved) + 1
    BY <1>1, <1>4, <1>8, <2>2
  <2> QED BY <1>1, <2>1, <2>2
<1> QED BY <1>2, <1>6, <1>7, <1>8 DEF FamilyOK

LEMMA SaveFiles ==
  ASSUME Inv, SnapshotFiles, SaveVM
  PROVE  SnapshotFiles'
<1>1. /\ lpc = "saving" /\ lpc' = "resumed" /\ saved' = Append(saved, serving)
      /\ UNCHANGED <<writer, ahead, format, initIndex, loaded>>
  BY DEF SaveVM
<1>2. writer = "savevm" /\ serving \in [index : Nat \cup {NoRequest}, kind : SnapshotKinds]
  BY <1>1 DEF Inv, Counted, Request
<1>3. \A family \in Families : FamilyOK(family)'
  BY <1>1, <1>2, AppendFamily DEF SnapshotFiles
<1>4. FirstFormat'
  BY <1>1, <1>2 DEF SnapshotFiles, FirstFormat
<1>5. Numbering'
  BY <1>1, <1>2 DEF SnapshotFiles, Numbering, DetectedKind, KindsOf
<1> QED BY <1>1, <1>3, <1>4, <1>5 DEF SnapshotFiles

LEMMA SerializeFiles ==
  ASSUME Inv, SnapshotFiles, SerializePlugins
  PROVE  SnapshotFiles'
<1> DEFINE x == [index |-> named, kind |-> "plugins_only"]
<1>1. /\ writer = "plugins" /\ lpc = "polling" /\ lpc' = lpc /\ saved' = Append(saved, x)
      /\ named = initIndex + Len(saved)
      /\ UNCHANGED <<writer, format, initIndex, loaded>>
  BY DEF SerializePlugins, loop, Inv, Counted, Request
<1>2. x \in [index : Nat \cup {NoRequest}, kind : SnapshotKinds]
      /\ x.kind = "plugins_only" /\ x.index = named
  BY DEF Inv, Counted, SnapshotKinds
<1> HIDE DEF x
<1>3. \A family \in Families : FamilyOK(family)'
  BY <1>1, <1>2, AppendFamily DEF SnapshotFiles
<1>4. ahead' \in Int
  BY ThresholdAssumption DEF SerializePlugins, SnapshotFiles
<1>5. FirstFormat'
  BY <1>1 DEF FirstFormat
<1>6. Numbering'
  <2>1. /\ Len(saved) \in Nat /\ Len(saved') = Len(saved) + 1
        /\ \A k \in 1..Len(saved) : saved'[k] = saved[k]
        /\ saved'[Len(saved) + 1] = x
    BY <1>1, <1>2 DEF Inv, Counted
  <2>2. ASSUME NEW k \in 1..Len(saved')
        PROVE  saved'[k].index = initIndex + k - 1 /\ saved'[k].kind = "plugins_only"
    <3>1. CASE k \in 1..Len(saved)
      BY <1>1, <2>1, <3>1 DEF SnapshotFiles, Numbering
    <3>2. CASE k = Len(saved) + 1
      BY <1>1, <1>2, <2>1, <3>2 DEF Inv, Counted
    <3> QED BY <2>1, <3>1, <3>2
  <2> QED BY <1>1, <2>2 DEF SnapshotFiles, Numbering, DetectedKind, KindsOf
<1> QED BY <1>1, <1>3, <1>4, <1>5, <1>6 DEF SnapshotFiles

LEMMA StepFiles == Inv /\ SnapshotFiles /\ [SnapshotNext]_snapshotVars => SnapshotFiles'
<1> SUFFICES ASSUME Inv, SnapshotFiles, [SnapshotNext]_snapshotVars PROVE SnapshotFiles'
  OBVIOUS
<1> USE DEF vCPU, loop
<1>1. ASSUME NEW diff \in 1..MaxDiff, QuantumCheck(diff) PROVE SnapshotFiles'
  <2>1. ahead' \in Int
    BY <1>1, BoundAssumption DEF QuantumCheck, Advanced, SnapshotFiles
  <2> QED BY <1>1, <2>1, FilesStay DEF QuantumCheck
<1>2. CASE RequestRefused
  BY <1>2, FilesStay DEF RequestRefused, SnapshotFiles
<1>3. CASE RequestSnapshot
  <2>1. ahead' \in Int
    BY <1>3, ThresholdAssumption DEF RequestSnapshot, SnapshotFiles
  <2> QED BY <1>3, <2>1, FilesStay DEF RequestSnapshot
<1>4. CASE CountSnapshot
  BY <1>4, FilesStay DEF CountSnapshot, SnapshotFiles
<1>5. CASE Terminated \/ UNCHANGED snapshotVars
  BY <1>5, FilesStay DEF Terminated, snapshotVars, SnapshotFiles
<1> QED BY <1>1, <1>2, <1>3, <1>4, <1>5, LoadFiles, ServeFiles, SaveFiles, SerializeFiles
     DEF SnapshotNext, QuantumThread, EventLoop

LEMMA FilesInvariant == SnapshotSpec => [](Inv /\ SnapshotFiles)
<1>1. SnapshotInit => Inv /\ SnapshotFiles
  BY InitInv, InitFiles
<1>2. Inv /\ SnapshotFiles /\ [SnapshotNext]_snapshotVars => (Inv /\ SnapshotFiles)'
  BY StepInv, StepFiles
<1> QED BY <1>1, <1>2, PTL DEF SnapshotSpec

(* No delta without a base, and no second base, whatever snapshots are on   *)
(* disk and whichever of them the run starts from.                          *)
THEOREM DeltasHaveBases == SnapshotSpec => []DeltaHasBase
<1>1. Inv /\ SnapshotFiles => DeltaHasBase
  <2> SUFFICES ASSUME Inv, SnapshotFiles PROVE DeltaHasBase
    OBVIOUS
  <2>1. TypeOK
    <3>1. loaded \in Nat \cup {NoLoad}
      BY OnDiskAssumption DEF SnapshotFiles
    <3> QED BY <3>1 DEF TypeOK, Inv, Counted, SnapshotFiles
  <2>2. FamilyOK(<<"base", "delta">>) /\ FamilyOK(<<"raw_base", "raw_delta">>)
    BY DEF SnapshotFiles, Families
  <2> QED BY <2>1, <2>2 DEF DeltaHasBase, FamilyOK, BaseLoaded, NothingLoaded
<1> QED BY <1>1, FilesInvariant, PTL

(* The only snapshot a plugin's name can fall on is the base the run        *)
(* started from, when its number lies in the range the run writes.          *)
PluginNamesUnlessBase ==
  writer = "plugins" =>
    \A k \in 1..Len(saved) :
      /\ \A j \in 1..(k - 1) : saved[j].index # saved[k].index
      /\ saved[k].index = loaded =>
           /\ DetectedKind(loaded) \notin {"delta", "raw_delta"}
           /\ loaded \in InitIndexOption..(InitIndexOption + Required - 1)

LEMMA PluginNamesInv == Inv /\ SnapshotFiles => PluginNamesUnlessBase
<1> SUFFICES ASSUME Inv, SnapshotFiles, writer = "plugins", NEW k \in 1..Len(saved)
             PROVE  /\ \A j \in 1..(k - 1) : saved[j].index # saved[k].index
                    /\ saved[k].index = loaded =>
                         /\ DetectedKind(loaded) \notin {"delta", "raw_delta"}
                         /\ loaded \in InitIndexOption..(InitIndexOption + Required - 1)
  BY DEF PluginNamesUnlessBase
<1>1. Len(saved) \in Nat /\ Len(saved) <= Required /\ initIndex \in Nat
  BY RequiredAssumption DEF Inv, Counted
<1>2. \A j \in 1..Len(saved) : saved[j].index = initIndex + j - 1
  BY DEF SnapshotFiles, Numbering
<1>3. ASSUME NEW j \in 1..(k - 1) PROVE saved[j].index # saved[k].index
  <2>1. j \in 1..Len(saved) /\ j # k /\ j \in Int /\ k \in Int
    BY <1>1
  <2>2. saved[j].index = initIndex + j - 1 /\ saved[k].index = initIndex + k - 1
    BY <1>2, <2>1
  <2> QED BY <1>1, <2>1, <2>2
<1>4. ASSUME saved[k].index = loaded
      PROVE  /\ DetectedKind(loaded) \notin {"delta", "raw_delta"}
             /\ loaded \in InitIndexOption..(InitIndexOption + Required - 1)
  <2>1. loaded = initIndex + k - 1 /\ loaded # NoLoad
    BY <1>1, <1>2, <1>4 DEF NoLoad
  <2>2. DetectedKind(loaded) \notin {"delta", "raw_delta"}
    BY <1>1, <2>1 DEF SnapshotFiles, Numbering
  <2>3. initIndex = InitIndexOption
    BY <2>2 DEF SnapshotFiles, Numbering
  <2> QED BY <1>1, <2>1, <2>2, <2>3, IndexAssumption, RequiredAssumption
<1> QED BY <1>3, <1>4

(* No two snapshots the plugins write share a name; the number of a loaded  *)
(* delta is skipped, that of a loaded base is not looked at.                *)
THEOREM PluginNamesApart == SnapshotSpec => []PluginNamesUnlessBase
BY PluginNamesInv, FilesInvariant, PTL

(* With the bases on disk numbered outside the run's own range, no plugin   *)
(* overwrites a snapshot of the run or the one it started from.             *)
THEOREM PluginNames ==
  ASSUME \A s \in OnDisk :
           \/ DetectedKind(s.index) \in {"delta", "raw_delta"}
           \/ s.index \notin InitIndexOption..(InitIndexOption + Required - 1)
  PROVE  SnapshotSpec => []PluginNamesDistinct
<1>1. Inv /\ SnapshotFiles => PluginNamesDistinct
  <2> SUFFICES ASSUME Inv, SnapshotFiles PROVE PluginNamesDistinct
    OBVIOUS
  <2>1. PluginNamesUnlessBase
    BY PluginNamesInv
  <2>2. ASSUME NEW k \in 1..Len(saved), writer = "plugins" PROVE saved[k].index # loaded
    <3>1. saved[k].index # NoLoad
      BY <2>2, IndexAssumption DEF Inv, Counted, SnapshotFiles, Numbering, NoLoad
    <3>2. loaded # NoLoad => \E s \in OnDisk : loaded = s.index
      BY DEF SnapshotFiles
    <3> QED BY <2>1, <2>2, <3>1, <3>2 DEF PluginNamesUnlessBase
  <2> QED BY <2>1, <2>2 DEF PluginNamesDistinct, PluginNamesUnlessBase
<1> QED BY <1>1, FilesInvariant, PTL

-----------------------------------------------------------------------------
(* ---- CheckpointFiles and CheckpointExport ------------------------------ *)

(* ---- numbers ----------------------------------------------------------- *)
LEMMA Division ==
  ASSUME NEW W \in Int, W > 0, NEW a \in Nat
  PROVE  a = W * (a \div W) + (a % W) /\ a \div W \in Nat /\ a % W \in 0..W - 1
OBVIOUS

LEMMA Divided ==
  \A W \in Nat \ {0}, a \in Nat :
    a = W * (a \div W) + (a % W) /\ a \div W \in Nat /\ a % W \in 0..W - 1
<1> SUFFICES ASSUME NEW W \in Nat \ {0}, NEW a \in Nat
             PROVE  a = W * (a \div W) + (a % W) /\ a \div W \in Nat /\ a % W \in 0..W - 1
  OBVIOUS
<1>1. W \in Int /\ W > 0
  OBVIOUS
<1> QED BY <1>1, Division

LEMMA Quotient ==
  \A W \in Nat \ {0}, a \in Nat : \E q \in Int : a = W * q + (a % W) /\ a % W \in 0..W - 1
<1> SUFFICES ASSUME NEW W \in Nat \ {0}, NEW a \in Nat
             PROVE  \E q \in Int : a = W * q + (a % W) /\ a % W \in 0..W - 1
  OBVIOUS
<1>1. a = W * (a \div W) + (a % W) /\ a \div W \in Int /\ a % W \in 0..W - 1
  BY Divided
<1> QED BY <1>1

LEMMA RemainderOf ==
  ASSUME NEW n \in Nat \ {0}, NEW z \in 0..n - 1, NEW s \in Int, NEW x, x = n * s + z
  PROVE  x % n = z
OBVIOUS

(* Reducing by a divisor afterwards is the same as reducing by it at once.  *)
LEMMA ModMod ==
  ASSUME NEW m \in Nat \ {0}, NEW n \in Nat \ {0}, NEW x \in Nat, m % n = 0
  PROVE  (x % m) % n = x % n
<1>1. PICK q \in Int : x = m * q + (x % m)
  BY Quotient
<1>2. PICK p \in Int : m = n * p + (m % n)
  BY Quotient
<1>3. PICK r \in Int : (x % m) = n * r + ((x % m) % n)
  <2>1. x % m \in Nat
    BY Quotient
  <2> QED BY <2>1, Quotient
<1> DEFINE y == x % m
           z == y % n
<1>4. z \in 0..n - 1 /\ y \in Int
  BY Quotient
<1>5. x = n * (p * q + r) + z
  <2>1. m = n * p
    BY <1>2
  <2>2. m * q = n * (p * q)
    BY <2>1
  <2>3. n * (p * q + r) = n * (p * q) + n * r
    OBVIOUS
  <2>4. x = m * q + y /\ y = n * r + z
    BY <1>1, <1>3
  <2> HIDE DEF y, z
  <2> QED BY <1>4, <2>2, <2>3, <2>4
<1>6. p * q + r \in Int
  OBVIOUS
<1> HIDE DEF z
<1>7. x % n = z
  BY <1>4, <1>5, <1>6, RemainderOf
<1> QED BY <1>7 DEF z

(* ---- the slices -------------------------------------------------------- *)
LEMMA KindsAre ==
  /\ Kinds = {"fetch", "harvard", "mmus", "pht", "directory", "llc"}
  /\ HierarchyOrder \in Seq(Kinds) /\ Len(HierarchyOrder) = 5
<1>1. Range(HierarchyOrder) = {"harvard", "mmus", "pht", "directory", "llc"}
  <2>1. DOMAIN HierarchyOrder = 1..5
    BY DEF HierarchyOrder
  <2>2. \A i \in 1..5 : i = 1 \/ i = 2 \/ i = 3 \/ i = 4 \/ i = 5
    OBVIOUS
  <2> QED BY <2>1, <2>2 DEF Range, HierarchyOrder
<1> QED BY <1>1 DEF Kinds, HierarchyOrder

LEMMA UnitsNat ==
  /\ NCores \in Nat \ {0} /\ NWorkers \in Nat \ {0} /\ \A k : Units(k) \in Nat
  /\ DOMAIN NSets = {"directory", "llc"}
  /\ NCores % NWorkers = 0
BY FilesAssumption DEF Units

(* The slices of a kind lie in the order of their workers and cover it.     *)
LEMMA SliceBounds ==
  ASSUME NEW k, NEW w \in Worker
  PROVE  /\ Begin(k, w) \in Nat /\ End(k, w) \in Nat
         /\ Begin(k, w) <= End(k, w) /\ End(k, w) <= Units(k)
         /\ w = NWorkers - 1 => End(k, w) = Units(k)
         /\ \A v \in Worker : v < w => End(k, v) <= Begin(k, w)
<1> DEFINE q == Units(k) \div NWorkers
           r == Units(k) % NWorkers
<1>1. q \in Nat /\ NWorkers * q <= Units(k) /\ NWorkers \in Nat \ {0} /\ Units(k) \in Nat
  <2>1. NWorkers \in Nat \ {0} /\ Units(k) \in Nat
    BY UnitsNat
  <2>2. Units(k) = NWorkers * q + r /\ q \in Nat /\ r \in 0..NWorkers - 1
    BY <2>1, Divided
  <2> HIDE DEF q, r
  <2> QED BY <2>1, <2>2
<1>2. \A v \in Worker : /\ v \in Nat /\ v + 1 <= NWorkers
                        /\ (v + 1) * q = v * q + q /\ v * q \in Nat /\ (v + 1) * q \in Nat
                        /\ (v + 1) * q <= NWorkers * q
  <2> SUFFICES ASSUME NEW v \in Worker
               PROVE  /\ v \in Nat /\ v + 1 <= NWorkers
                      /\ (v + 1) * q = v * q + q /\ v * q \in Nat /\ (v + 1) * q \in Nat
                      /\ (v + 1) * q <= NWorkers * q
    OBVIOUS
  <2>1. v \in Nat /\ v + 1 <= NWorkers
    BY <1>1 DEF Worker
  <2> HIDE DEF q
  <2> QED BY <1>1, <2>1
<1>3. \A v \in Worker : v < w => (v + 1) * q <= w * q
  <2> SUFFICES ASSUME NEW v \in Worker, v < w
               PROVE  (v + 1) * q <= w * q
    OBVIOUS
  <2>1. v \in Nat /\ w \in Nat /\ v + 1 <= w
    BY <1>2
  <2>2. PICK d \in Nat : w = (v + 1) + d
    BY <2>1
  <2> HIDE DEF q
  <2>3. w * q = (v + 1) * q + d * q /\ d * q \in Nat
    BY <1>1, <2>1, <2>2
  <2> QED BY <1>2, <2>3
<1>4. \A v : Begin(k, v) = v * q
  BY DEF Begin
<1>5. \A v \in Worker : End(k, v) = IF k \in DOMAIN NSets /\ v + 1 = NWorkers THEN Units(k)
                                    ELSE (v + 1) * q
  BY DEF End, SetEnd, CoreEnd, Units
<1>6. k \notin DOMAIN NSets => NWorkers * q = Units(k)
  BY UnitsNat, Divided DEF Units
<1> HIDE DEF q
<1> QED BY <1>1, <1>2, <1>3, <1>4, <1>5, <1>6 DEF Worker

LEMMA SliceCover ==
  ASSUME NEW k, NEW u \in 0..Units(k) - 1
  PROVE  \E w \in Worker : u \in Begin(k, w)..End(k, w) - 1
<1> DEFINE q == Units(k) \div NWorkers
           last == NWorkers - 1
<1>1. q \in Nat /\ NWorkers \in Nat \ {0} /\ Units(k) \in Nat /\ last \in Worker
  BY UnitsNat, Divided DEF Worker
<1>2. CASE u >= Begin(k, last)
  BY <1>1, <1>2, SliceBounds
<1>3. CASE u < Begin(k, last)
  <2>1. u < last * q
    BY <1>3 DEF Begin
  <2>2. q > 0
    BY <1>1, <2>1
  <2> DEFINE w == u \div q
  <2>3. w \in Nat /\ w * q <= u /\ u < (w + 1) * q
    <3>1. u = q * w + (u % q) /\ w \in Nat /\ u % q \in 0..q - 1
      <4>1. q \in Nat \ {0} /\ u \in Nat
        BY <1>1, <2>2
      <4> HIDE DEF q
      <4> QED BY <4>1, Divided
    <3> HIDE DEF w, q
    <3>2. (w + 1) * q = q * w + q /\ w * q = q * w /\ q * w \in Nat
      BY <1>1, <3>1
    <3> QED BY <1>1, <3>1, <3>2
  <2>4. w < last
    <3> SUFFICES ASSUME w >= last PROVE FALSE
      BY <1>1, <2>3
    <3>0. w \in Nat /\ last \in Nat /\ q \in Nat
      BY <1>1, <2>3
    <3> HIDE DEF w, q
    <3>1. PICK d \in Nat : w = last + d
      <4> HIDE DEF last
      <4>1. w - last \in Nat
        BY <3>0
      <4> QED BY <3>0, <4>1
    <3>2. w * q = last * q + d * q /\ d * q \in Nat /\ last * q \in Int
      BY <1>1, <3>1
    <3> QED BY <1>1, <2>1, <2>3, <3>2
  <2>5. w \in Worker /\ w + 1 # NWorkers
    BY <1>1, <2>3, <2>4 DEF Worker
  <2>6. Begin(k, w) = w * q /\ End(k, w) = (w + 1) * q
    BY <2>5 DEF Begin, End, SetEnd, CoreEnd, Units
  <2>7. w * q \in Nat /\ (w + 1) * q \in Nat
    BY <1>1, <2>3
  <2> HIDE DEF w, q
  <2> QED BY <2>3, <2>5, <2>6, <2>7
<1> QED BY <1>1, <1>2, <1>3, SliceBounds

(* ---- the files --------------------------------------------------------- *)
UnitState == [unit : Int, save : Int]
SliceOf(k, w, n) ==
  [i \in 1..End(k, w) - Begin(k, w) |-> [unit |-> Begin(k, w) + i - 1, save |-> n]]
PluginOf(k) == IF k = "fetch" THEN 1 ELSE 2
PositionOf(k) ==
  CASE k = "mmus" -> 2 [] k = "pht" -> 3 [] k = "directory" -> 4 [] k = "llc" -> 5 [] OTHER -> 1
Size(p) == IF p = 1 THEN 1 ELSE 5

(* The kinds whose slice worker w has written, and those of which the slice *)
(* of worker w has been read.                                               *)
Wrote(k, w) == PluginOf(k) < plugin \/ (PluginOf(k) = plugin /\ PositionOf(k) <= turn[w])
HasRead(k, w) ==
  PluginOf(k) < plugin \/ (PluginOf(k) = plugin /\ w * Size(plugin) + PositionOf(k) <= turn[0])

FilesTyped ==
  /\ activity \in {"running", "saving", "loading", "loaded", "panicked"}
  /\ saves \in Nat /\ plugin \in {1, 2} /\ turn \in [Worker -> Nat]
  /\ timeFile \in Nat \cup {HalfTime} /\ timeFile <= saves /\ time \in Nat
  /\ reported \subseteq Kinds
  /\ files \in [Kinds -> [Worker -> Seq(UnitState)]]
  /\ machine = [k \in Kinds |-> machine[k]]
  /\ \A k \in Kinds : machine[k] \in [0..Units(k) - 1 -> UnitState]

(* A file holds a slice of one save, which is not younger than the time.    *)
FilesOfSaves ==
  \A k \in Kinds, w \in Worker :
    \/ files[k][w] \in {Absent, Truncated}
    \/ \E n \in 1..saves : /\ files[k][w] = SliceOf(k, w, n)
                           /\ timeFile # HalfTime => n <= timeFile

(* What a save has written so far.                                          *)
SaveProgress ==
  /\ activity = "running" =>
       /\ plugin = 1 /\ \A w \in Worker : turn[w] = 0
       /\ saves > 0 => \A k \in Kinds, w \in Worker : files[k][w] = SliceOf(k, w, saves)
  /\ activity = "saving" =>
       /\ saves > 0 /\ \A w \in Worker : turn[w] <= Size(plugin)
       /\ \A k \in Kinds, w \in Worker : Wrote(k, w) => files[k][w] = SliceOf(k, w, saves)

(* What a load has restored so far.                                         *)
LoadProgress ==
  activity \in {"loading", "loaded"} =>
    /\ \A k \in Kinds : \A u \in 0..Units(k) - 1 :
         machine[k][u] # Cold =>
           machine[k][u].unit = u /\ (timeFile # HalfTime => machine[k][u].save <= timeFile)
    /\ \A k \in reported, w \in Worker :
         HasRead(k, w) => \A u \in Begin(k, w)..End(k, w) - 1 : machine[k][u] # Cold
    /\ SaveComplete =>
         /\ reported = Kinds
         /\ \A k \in Kinds, w \in Worker : HasRead(k, w) =>
              \A u \in Begin(k, w)..End(k, w) - 1 : machine[k][u] = [unit |-> u, save |-> saves]
    /\ activity = "loaded" =>
         plugin = 2 /\ turn[0] = NWorkers * 5 /\ time = timeFile /\ timeFile # HalfTime

(* A load only fails on what a kill left half written.                      *)
PanicCause ==
  activity = "panicked" =>
    timeFile = HalfTime \/ \E k \in Kinds, w \in Worker : files[k][w] = Truncated

FilesInv == FilesTyped /\ FilesOfSaves /\ SaveProgress /\ LoadProgress /\ PanicCause

LEMMA OrderFacts ==
  /\ PluginOrder[1] = <<"fetch">> /\ PluginOrder[2] = HierarchyOrder /\ Len(PluginOrder) = 2
  /\ Len(PluginOrder[1]) = 1 /\ Len(PluginOrder[2]) = 5
  /\ \A p \in {1, 2} : Len(PluginOrder[p]) = Size(p)
  /\ \A p \in {1, 2} : \A i \in 1..Size(p) :
       /\ PluginOrder[p][i] \in Kinds
       /\ PluginOf(PluginOrder[p][i]) = p /\ PositionOf(PluginOrder[p][i]) = i
  /\ \A k \in Kinds :
       /\ PluginOf(k) \in {1, 2} /\ PositionOf(k) \in 1..Size(PluginOf(k))
       /\ PluginOrder[PluginOf(k)][PositionOf(k)] = k
<1>1. /\ PluginOrder[1] = <<"fetch">> /\ PluginOrder[2] = HierarchyOrder /\ Len(PluginOrder) = 2
      /\ Len(PluginOrder[1]) = 1 /\ Len(PluginOrder[2]) = 5
  BY DEF PluginOrder, HierarchyOrder
<1>2. \A p \in {1, 2} : Len(PluginOrder[p]) = Size(p)
  BY <1>1 DEF Size
<1>3. /\ HierarchyOrder[1] = "harvard" /\ HierarchyOrder[2] = "mmus" /\ HierarchyOrder[3] = "pht"
      /\ HierarchyOrder[4] = "directory" /\ HierarchyOrder[5] = "llc"
      /\ PluginOrder[1][1] = "fetch"
  BY DEF PluginOrder, HierarchyOrder
<1>4. \A p \in {1, 2} : \A i \in 1..Size(p) :
        /\ PluginOrder[p][i] \in Kinds
        /\ PluginOf(PluginOrder[p][i]) = p /\ PositionOf(PluginOrder[p][i]) = i
  <2> SUFFICES ASSUME NEW p \in {1, 2}, NEW i \in 1..Size(p)
               PROVE  /\ PluginOrder[p][i] \in Kinds
                      /\ PluginOf(PluginOrder[p][i]) = p /\ PositionOf(PluginOrder[p][i]) = i
    OBVIOUS
  <2>1. CASE p = 1
    BY <1>1, <1>3, <2>1, KindsAre DEF Size, PluginOf, PositionOf
  <2>2. CASE p = 2
    <3>1. i = 1 \/ i = 2 \/ i = 3 \/ i = 4 \/ i = 5
      BY <2>2 DEF Size
    <3> QED BY <1>1, <1>3, <2>2, <3>1, KindsAre DEF PluginOf, PositionOf
  <2> QED BY <2>1, <2>2
<1>5. \A k \in Kinds :
       /\ PluginOf(k) \in {1, 2} /\ PositionOf(k) \in 1..Size(PluginOf(k))
       /\ PluginOrder[PluginOf(k)][PositionOf(k)] = k
  BY <1>1, <1>3, KindsAre DEF PluginOf, PositionOf, Size
<1> QED BY <1>1, <1>2, <1>4, <1>5

LEMMA SliceFacts ==
  ASSUME NEW k \in Kinds, NEW w \in Worker, NEW n \in Int
  PROVE  /\ SliceOf(k, w, n) # Absent /\ SliceOf(k, w, n) # Truncated
         /\ SliceOf(k, w, n) \in Seq(UnitState)
         /\ DOMAIN SliceOf(k, w, n) = 1..End(k, w) - Begin(k, w)
         /\ \A u \in Int : u - Begin(k, w) + 1 \in DOMAIN SliceOf(k, w, n) =>
              SliceOf(k, w, n)[u - Begin(k, w) + 1] = [unit |-> u, save |-> n]
<1> DEFINE b == Begin(k, w)
           e == End(k, w)
<1>1. b \in Nat /\ e \in Nat /\ b <= e
  BY SliceBounds
<1>2. SliceOf(k, w, n) = [i \in 1..e - b |-> [unit |-> b + i - 1, save |-> n]]
  BY DEF SliceOf
<1> HIDE DEF b, e
<1>3. SliceOf(k, w, n) \in Seq(UnitState)
  <2>1. \A i \in 1..e - b : [unit |-> b + i - 1, save |-> n] \in UnitState
    BY <1>1 DEF UnitState
  <2>2. e - b \in Nat
    BY <1>1
  <2> QED BY <1>2, <2>1, <2>2
<1>4. DOMAIN SliceOf(k, w, n) = 1..e - b
  BY <1>2
<1>5. \A i \in 1..e - b : SliceOf(k, w, n)[i].unit >= 0
  BY <1>1, <1>2
<1>6. /\ DOMAIN Absent = 1..1 /\ Absent[1].unit = -1
      /\ DOMAIN Truncated = 1..1 /\ Truncated[1].unit = -1
  BY DEF Absent, Truncated, Cold
<1>7. SliceOf(k, w, n) # Absent /\ SliceOf(k, w, n) # Truncated
  <2> DEFINE f == SliceOf(k, w, n)
  <2>1. ASSUME DOMAIN f = 1..1 PROVE f[1].unit # -1
    <3>1. 1 \in 1..e - b
      BY <2>1, <1>4
    <3> QED BY <3>1, <1>5
  <2> HIDE DEF f
  <2>2. f # Absent
    BY <1>6, <2>1
  <2>3. f # Truncated
    BY <1>6, <2>1
  <2> QED BY <2>2, <2>3 DEF f
<1>8. \A u \in Int : u - b + 1 \in 1..e - b =>
        SliceOf(k, w, n)[u - b + 1] = [unit |-> u, save |-> n]
  <2> SUFFICES ASSUME NEW u \in Int, u - b + 1 \in 1..e - b
               PROVE  SliceOf(k, w, n)[u - b + 1] = [unit |-> u, save |-> n]
    OBVIOUS
  <2>1. b + (u - b + 1) - 1 = u
    BY <1>1
  <2> QED BY <1>2, <2>1
<1> QED BY <1>3, <1>4, <1>7, <1>8 DEF b, e

LEMMA AbsentFacts ==
  Absent # Truncated /\ Absent \in Seq(UnitState) /\ Truncated \in Seq(UnitState) /\ Cold \in UnitState
BY DEF Absent, Truncated, Cold, UnitState

LEMMA SliceIs ==
  ASSUME NEW k, NEW w
  PROVE  Slice(k, w) = SliceOf(k, w, saves)
BY DEF Slice, Contents, SliceOf

LEMMA NowFacts ==
  ASSUME NEW n \in Int
  PROVE  /\ \A k \in Kinds : Now(n)[k] \in [0..Units(k) - 1 -> UnitState]
         /\ \A k \in Kinds : ColdMachine[k] \in [0..Units(k) - 1 -> UnitState]
         /\ Now(n) = [k \in Kinds |-> Now(n)[k]] /\ ColdMachine = [k \in Kinds |-> ColdMachine[k]]
<1>1. \A k \in Kinds : Now(n)[k] = [u \in 0..Units(k) - 1 |-> [unit |-> u, save |-> n]]
  BY DEF Now
<1>2. \A k \in Kinds : \A u \in 0..Units(k) - 1 : [unit |-> u, save |-> n] \in UnitState
  BY UnitsNat DEF UnitState
<1>3. \A k \in Kinds : ColdMachine[k] = [u \in 0..Units(k) - 1 |-> Cold]
  BY DEF ColdMachine
<1>4. Now(n) = [k \in Kinds |-> Now(n)[k]] /\ ColdMachine = [k \in Kinds |-> ColdMachine[k]]
  BY DEF Now, ColdMachine
<1> QED BY <1>1, <1>2, <1>3, <1>4, AbsentFacts

LEMMA FilesInitInv ==
  ASSUME FilesInit
  PROVE  FilesInv
<1>1. FilesTyped
  <2>1. files \in [Kinds -> [Worker -> Seq(UnitState)]]
    BY AbsentFacts DEF FilesInit
  <2>2. machine = [k \in Kinds |-> machine[k]] /\ \A k \in Kinds : machine[k] \in [0..Units(k) - 1 -> UnitState]
    BY NowFacts DEF FilesInit
  <2> QED BY <2>1, <2>2 DEF FilesInit, FilesTyped, NoTime
<1>2. FilesOfSaves /\ SaveProgress /\ LoadProgress /\ PanicCause
  BY DEF FilesInit, FilesOfSaves, SaveProgress, LoadProgress, PanicCause
<1> QED BY <1>1, <1>2 DEF FilesInv

LEMMA RequestSaveInv ==
  ASSUME FilesInv, RequestSave
  PROVE  FilesInv'
<1> USE DEF FilesInv, RequestSave
<1>1. FilesTyped'
  <2>1. saves + 1 \in Int /\ saves + 1 \in Nat
    BY DEF FilesTyped
  <2>2. machine' = [k \in Kinds |-> machine'[k]] /\ \A k \in Kinds : machine'[k] \in [0..Units(k) - 1 -> UnitState]
    BY <2>1, NowFacts
  <2> QED BY <2>1, <2>2 DEF FilesTyped, HalfTime
<1>2. FilesOfSaves'
  <2>1. 1..saves \subseteq 1..saves + 1
    BY DEF FilesTyped
  <2> QED BY <2>1 DEF FilesOfSaves
<1>3. SaveProgress'
  <2>1. \A k \in Kinds, w \in Worker : ~Wrote(k, w)'
    BY OrderFacts DEF SaveProgress, Wrote
  <2>2. \A w \in Worker : turn[w] <= Size(plugin)
    BY DEF SaveProgress, Size
  <2> QED BY <2>1, <2>2 DEF SaveProgress, FilesTyped
<1>4. LoadProgress' /\ PanicCause'
  BY DEF LoadProgress, PanicCause
<1> QED BY <1>1, <1>2, <1>3, <1>4

LEMMA WriteTimeInv ==
  ASSUME FilesInv, WriteTime
  PROVE  FilesInv'
<1> USE DEF FilesInv, WriteTime
<1>1. FilesTyped'
  BY DEF FilesTyped, HalfTime
<1>2. FilesOfSaves'
  <2>1. timeFile' = HalfTime \/ timeFile' = saves
    OBVIOUS
  <2>2. \A n \in 1..saves : timeFile' # HalfTime => n <= timeFile'
    BY <2>1 DEF FilesTyped
  <2> QED BY <2>2 DEF FilesOfSaves
<1>3. SaveProgress'
  BY DEF SaveProgress, Wrote
<1>4. LoadProgress' /\ PanicCause'
  BY DEF LoadProgress, PanicCause
<1> QED BY <1>1, <1>2, <1>3, <1>4

LEMMA WriteFileInv ==
  ASSUME FilesInv, NEW w \in Worker, WriteFile(w)
  PROVE  FilesInv'
<1> USE DEF FilesInv
<1> DEFINE k == PluginOrder[plugin][turn[w] + 1]
<1>1. /\ activity = "saving" /\ timeFile = saves /\ turn[w] < Size(plugin) /\ turn[w] \in Nat
      /\ plugin \in {1, 2} /\ saves \in Nat
      /\ UNCHANGED <<activity, saves, plugin, timeFile, time, machine, reported>>
  BY OrderFacts DEF WriteFile, TimeWritten, FilesTyped
<1>2. k \in Kinds /\ PluginOf(k) = plugin /\ PositionOf(k) = turn[w] + 1
  <2>1. turn[w] + 1 \in 1..Size(plugin)
    BY <1>1 DEF Size
  <2> QED BY <1>1, <2>1, OrderFacts
<1>3. \/ /\ files' = [files EXCEPT ![k][w] = SliceOf(k, w, saves)]
         /\ turn' = [turn EXCEPT ![w] = @ + 1]
      \/ files' = [files EXCEPT ![k][w] = Truncated] /\ turn' = turn
  BY SliceIs DEF WriteFile
<1>4. \A j \in Kinds : PluginOf(j) = plugin /\ PositionOf(j) = turn[w] + 1 => j = k
  BY OrderFacts
<1> HIDE DEF k
<1>5. \A j \in Kinds, v \in Worker : <<j, v>> # <<k, w>> => files'[j][v] = files[j][v]
  BY <1>2, <1>3 DEF FilesTyped
<1>6. \/ files'[k][w] = SliceOf(k, w, saves) /\ turn'[w] = turn[w] + 1
      \/ files'[k][w] = Truncated /\ turn'[w] = turn[w]
  BY <1>2, <1>3 DEF FilesTyped
<1>7. \A v \in Worker : v # w => turn'[v] = turn[v]
  BY <1>3 DEF FilesTyped
<1>8. FilesTyped'
  <2>1. SliceOf(k, w, saves) \in Seq(UnitState) /\ Truncated \in Seq(UnitState)
    BY <1>1, <1>2, SliceFacts, AbsentFacts
  <2>2. files' \in [Kinds -> [Worker -> Seq(UnitState)]]
    <3> DEFINE S == Seq(UnitState)
    <3>1. files \in [Kinds -> [Worker -> S]] /\ SliceOf(k, w, saves) \in S /\ Truncated \in S
      BY <2>1 DEF FilesTyped
    <3> HIDE DEF S
    <3>2. files' \in [Kinds -> [Worker -> S]]
      BY <1>2, <1>3, <3>1
    <3> QED BY <3>2 DEF S
  <2>3. turn' \in [Worker -> Nat]
    BY <1>1, <1>3 DEF FilesTyped
  <2> QED BY <1>1, <2>2, <2>3 DEF FilesTyped
<1>9. FilesOfSaves'
  <2> SUFFICES ASSUME NEW j \in Kinds, NEW v \in Worker
               PROVE  \/ files'[j][v] \in {Absent, Truncated}
                      \/ \E n \in 1..saves : /\ files'[j][v] = SliceOf(j, v, n)
                                             /\ timeFile # HalfTime => n <= timeFile
    BY <1>1 DEF FilesOfSaves
  <2>1. CASE <<j, v>> # <<k, w>>
    BY <1>5, <2>1 DEF FilesOfSaves
  <2>2. CASE j = k /\ v = w
    <3>1. saves \in 1..saves
      BY <1>1 DEF SaveProgress
    <3> QED BY <1>1, <1>6, <2>2, <3>1
  <2> QED BY <2>1, <2>2
<1>10. SaveProgress'
  <2>1. \A v \in Worker : turn'[v] <= Size(plugin)
    BY <1>1, <1>6, <1>7 DEF SaveProgress, Size
  <2>2. ASSUME NEW j \in Kinds, NEW v \in Worker, Wrote(j, v)'
        PROVE  files'[j][v] = SliceOf(j, v, saves)
    <3>1. CASE j = k /\ v = w
      <4>1. turn'[w] = turn[w] + 1
        BY <1>1, <1>2, <1>6, <2>2, <3>1 DEF Wrote
      <4> QED BY <1>1, <1>6, <3>1, <4>1
    <3>2. CASE <<j, v>> # <<k, w>>
      <4>1. Wrote(j, v)
        <5>1. CASE v # w
          BY <1>1, <1>7, <2>2, <5>1 DEF Wrote
        <5>2. CASE v = w /\ j # k
          <6>1. PositionOf(j) \in Nat
            BY OrderFacts DEF Size
          <6>2. ~(PluginOf(j) = plugin /\ PositionOf(j) = turn[w] + 1)
            BY <1>4, <5>2
          <6> QED BY <1>1, <1>6, <2>2, <5>2, <6>1, <6>2 DEF Wrote
        <5> QED BY <3>2, <5>1, <5>2
      <4> QED BY <1>1, <1>5, <3>2, <4>1 DEF SaveProgress
    <3> QED BY <3>1, <3>2
  <2> QED BY <1>1, <2>1, <2>2 DEF SaveProgress
<1>11. LoadProgress' /\ PanicCause'
  BY <1>1 DEF LoadProgress, PanicCause
<1> QED BY <1>8, <1>9, <1>10, <1>11

LEMMA JoinInv ==
  ASSUME FilesInv, Join
  PROVE  FilesInv'
<1> USE DEF FilesInv, Join
<1>1. /\ activity = "saving" /\ plugin \in {1, 2} /\ saves \in Nat
      /\ \A w \in Worker : turn[w] = Size(plugin) /\ turn'[w] = 0
      /\ plugin' = IF plugin = 1 THEN 2 ELSE 1
      /\ activity' = IF plugin = 2 THEN "running" ELSE "saving"
      /\ UNCHANGED <<saves, files, timeFile, time, machine, reported>>
  BY OrderFacts DEF FilesTyped
<1>2. FilesTyped'
  BY <1>1 DEF FilesTyped
<1>3. FilesOfSaves'
  BY <1>1 DEF FilesOfSaves
<1>4. \A k \in Kinds, w \in Worker : PluginOf(k) <= plugin => Wrote(k, w)
  <2> SUFFICES ASSUME NEW k \in Kinds, NEW w \in Worker, PluginOf(k) <= plugin
               PROVE  Wrote(k, w)
    OBVIOUS
  <2>1. PluginOf(k) \in {1, 2} /\ PositionOf(k) \in 1..Size(PluginOf(k))
    BY OrderFacts
  <2> QED BY <1>1, <2>1 DEF Wrote, Size
<1>5. SaveProgress'
  <2>1. CASE plugin = 1
    <3>1. \A k \in Kinds, w \in Worker : Wrote(k, w)' => Wrote(k, w)
      BY <1>1, <1>4, <2>1, OrderFacts DEF Wrote
    <3> QED BY <1>1, <2>1, <3>1 DEF SaveProgress, Size
  <2>2. CASE plugin = 2
    <3>1. \A k \in Kinds, w \in Worker : Wrote(k, w)
      BY <1>4, <2>2, OrderFacts
    <3> QED BY <1>1, <2>2, <3>1 DEF SaveProgress
  <2> QED BY <1>1, <2>1, <2>2
<1>6. LoadProgress' /\ PanicCause'
  BY <1>1 DEF LoadProgress, PanicCause
<1> QED BY <1>2, <1>3, <1>5, <1>6

LEMMA RestartInv ==
  ASSUME FilesInv, Restart
  PROVE  FilesInv'
<1> USE DEF FilesInv, Restart
<1>1. FilesTyped'
  <2>1. machine' = [k \in Kinds |-> machine'[k]] /\ \A k \in Kinds : machine'[k] \in [0..Units(k) - 1 -> UnitState]
    BY NowFacts
  <2> QED BY <2>1 DEF FilesTyped
<1>2. FilesOfSaves' /\ SaveProgress' /\ PanicCause'
  BY DEF FilesOfSaves, SaveProgress, PanicCause
<1>3. LoadProgress'
  <2>1. \A k \in Kinds : \A u : u \in 0..Units(k) - 1 => machine'[k][u] = Cold
    BY DEF ColdMachine
  <2>2. \A k \in Kinds, w \in Worker : ~HasRead(k, w)'
    <3>1. 0 \in Worker
      BY UnitsNat DEF Worker
    <3> SUFFICES ASSUME NEW k \in Kinds, NEW w \in Worker PROVE ~HasRead(k, w)'
      OBVIOUS
    <3>2. w \in Nat
      BY UnitsNat DEF Worker
    <3>3. PluginOf(k) \in {1, 2} /\ PositionOf(k) \in Nat /\ PositionOf(k) >= 1
      BY OrderFacts DEF Size
    <3> QED BY <3>1, <3>2, <3>3 DEF HasRead, Size
  <2> QED BY <2>1, <2>2 DEF LoadProgress
<1> QED BY <1>1, <1>2, <1>3

LEMMA LoadNextPluginInv ==
  ASSUME FilesInv, LoadNextPlugin
  PROVE  FilesInv'
<1> USE DEF FilesInv, LoadNextPlugin
<1>1. /\ activity = "loading" /\ plugin = 1 /\ plugin' = 2 /\ turn[0] = NWorkers /\ 0 \in Worker
      /\ turn'[0] = 0 /\ turn' \in [Worker -> Nat]
      /\ UNCHANGED <<activity, saves, files, timeFile, time, machine, reported>>
  <2>1. plugin \in {1, 2} /\ turn \in [Worker -> Nat] /\ plugin < 2
    BY OrderFacts DEF FilesTyped
  <2>2. NWorkers \in Nat \ {0} /\ 0 \in Worker
    BY UnitsNat DEF Worker
  <2>3. plugin = 1 /\ turn[0] = NWorkers * 1
    <3>1. plugin = 1
      BY <2>1
    <3>2. Len(PluginOrder[1]) = 1
      BY OrderFacts
    <3> QED BY <3>1, <3>2
  <2> QED BY <2>1, <2>2, <2>3
<1>2. FilesTyped' /\ FilesOfSaves' /\ SaveProgress' /\ PanicCause'
  BY <1>1 DEF FilesTyped, FilesOfSaves, SaveProgress, PanicCause
<1>3. \A k \in Kinds, w \in Worker : HasRead(k, w)' => HasRead(k, w)
  <2> SUFFICES ASSUME NEW k \in Kinds, NEW w \in Worker, HasRead(k, w)' PROVE HasRead(k, w)
    OBVIOUS
  <2>1. w \in Nat /\ w + 1 <= NWorkers
    BY UnitsNat DEF Worker
  <2>2. PluginOf(k) \in {1, 2} /\ PositionOf(k) \in 1..Size(PluginOf(k))
    BY OrderFacts
  <2> QED BY <1>1, <2>1, <2>2 DEF HasRead, Size
<1>4. SaveComplete' <=> SaveComplete
  BY <1>1 DEF SaveComplete, Slice, Contents
<1>5. LoadProgress'
  BY <1>1, <1>3, <1>4 DEF LoadProgress
<1> QED BY <1>2, <1>5

LEMMA FilePanicInv ==
  ASSUME FilesInv, FilePanic,
         timeFile = HalfTime \/ \E k \in Kinds, w \in Worker : files[k][w] = Truncated
  PROVE  FilesInv'
BY DEF FilesInv, FilePanic, FilesTyped, FilesOfSaves, SaveProgress, LoadProgress, PanicCause

LEMMA LoadTimeInv ==
  ASSUME FilesInv, LoadTime
  PROVE  FilesInv'
<1>1. CASE timeFile = HalfTime
  BY <1>1, FilePanicInv DEF LoadTime
<1>2. CASE timeFile # HalfTime
  <2> USE DEF FilesInv
  <2>1. /\ activity = "loading" /\ activity' = "loaded" /\ time' = timeFile
        /\ plugin = 2 /\ turn[0] = NWorkers * 5
        /\ UNCHANGED <<saves, plugin, turn, files, timeFile, machine, reported>>
    BY <1>2, OrderFacts DEF LoadTime
  <2>2. FilesTyped' /\ FilesOfSaves' /\ SaveProgress' /\ PanicCause'
    BY <1>2, <2>1 DEF FilesTyped, FilesOfSaves, SaveProgress, PanicCause
  <2>3. LoadProgress'
    BY <1>2, <2>1 DEF LoadProgress, SaveComplete, Slice, Contents, HasRead
  <2> QED BY <2>2, <2>3
<1> QED BY <1>1, <1>2

LEMMA ReadFileInv ==
  ASSUME FilesInv, ReadFile
  PROVE  FilesInv'
<1> USE DEF FilesInv
<1> DEFINE t == turn[0]
           L == Size(plugin)
           w == t \div L
           r == t % L
           k == PluginOrder[plugin][r + 1]
<1>1. /\ activity = "loading" /\ plugin \in {1, 2} /\ t \in Nat /\ 0 \in Worker
      /\ Len(PluginOrder[plugin]) = L /\ t < NWorkers * L
      /\ NWorkers \in Nat \ {0} /\ L \in {1, 5}
  <2>1. plugin \in {1, 2} /\ 0 \in Worker /\ NWorkers \in Nat \ {0} /\ turn \in [Worker -> Nat]
    BY UnitsNat DEF FilesTyped, Worker
  <2>2. Len(PluginOrder[plugin]) = L
    BY <2>1, OrderFacts
  <2> QED BY <2>1, <2>2 DEF ReadFile, Size
<1>2. \/ files[k][w] = Truncated /\ FilePanic
      \/ /\ files[k][w] # Truncated
         /\ machine' = [machine EXCEPT ![k] = Restored(k, w)]
         /\ reported' = Missing(k, w)
         /\ turn' = [turn EXCEPT ![0] = t + 1]
         /\ UNCHANGED <<activity, saves, plugin, files, timeFile, time>>
  BY <1>1 DEF ReadFile
<1>3. t = L * w + r /\ w \in Nat /\ r \in 0..L - 1
  <2>1. L \in Nat \ {0}
    BY <1>1
  <2> HIDE DEF t, L
  <2> QED BY <1>1, <2>1, Divided
<1> HIDE DEF t, L, w, r
<1>4. w \in Worker
  <2>1. w < NWorkers
    <3>1. CASE L = 1
      BY <1>1, <1>3, <3>1
    <3>2. CASE L = 5
      BY <1>1, <1>3, <3>2
    <3> QED BY <1>1, <3>1, <3>2
  <2> QED BY <1>1, <1>3, <2>1 DEF Worker
<1>41. k \in Kinds /\ PluginOf(k) = plugin /\ PositionOf(k) = r + 1
  <2>1. r + 1 \in 1..Size(plugin)
    BY <1>1, <1>3 DEF L
  <2> QED BY <1>1, <2>1, OrderFacts
<1> HIDE DEF k
<1>5. CASE files[k][w] = Truncated
  BY <1>2, <1>4, <1>41, <1>5, FilePanicInv
<1>6. CASE files[k][w] # Truncated
  <2>1. /\ machine' = [machine EXCEPT ![k] = Restored(k, w)]
        /\ reported' = Missing(k, w)
        /\ turn' = [turn EXCEPT ![0] = t + 1]
        /\ UNCHANGED <<activity, saves, plugin, files, timeFile, time>>
    BY <1>2, <1>6
  <2>2. \A j \in Kinds, v \in Worker :
          PluginOf(j) = plugin /\ v * L + PositionOf(j) = t + 1 => j = k /\ v = w
    <3> SUFFICES ASSUME NEW j \in Kinds, NEW v \in Worker,
                        PluginOf(j) = plugin, v * L + PositionOf(j) = t + 1
                 PROVE  j = k /\ v = w
      OBVIOUS
    <3>1. v \in Nat
      BY <1>1 DEF Worker
    <3>2. PositionOf(j) \in 1..L
      BY <1>1, OrderFacts DEF L
    <3>3. v = w /\ PositionOf(j) = r + 1
      <4>1. CASE L = 1
        BY <1>3, <3>1, <3>2, <4>1
      <4>2. CASE L = 5
        BY <1>3, <3>1, <3>2, <4>2
      <4> QED BY <1>1, <4>1, <4>2
    <3>4. j = PluginOrder[plugin][r + 1]
      BY <3>3, OrderFacts
    <3> QED BY <3>3, <3>4 DEF k
  <2>3. turn'[0] = t + 1 /\ turn' \in [Worker -> Nat] /\ t = turn[0]
    BY <1>1, <2>1 DEF FilesTyped, t
  <2>4. \A j \in Kinds, v \in Worker : HasRead(j, v)' => HasRead(j, v) \/ (j = k /\ v = w)
    <3> SUFFICES ASSUME NEW j \in Kinds, NEW v \in Worker, HasRead(j, v)', ~HasRead(j, v)
                 PROVE  j = k /\ v = w
      OBVIOUS
    <3>1. v \in Nat /\ PluginOf(j) \in Nat /\ PositionOf(j) \in Nat
      BY <1>1, OrderFacts DEF Worker, Size
    <3>2. PluginOf(j) = plugin /\ v * L + PositionOf(j) = t + 1
      <4>1. v * L + PositionOf(j) \in Nat
        BY <1>1, <3>1
      <4>2. UNCHANGED plugin
        BY <2>1
      <4> QED BY <1>1, <2>3, <3>1, <4>1, <4>2 DEF HasRead, L
    <3> QED BY <2>2, <3>2
  <2>5. files[k][w] = Absent \/ \E n \in 1..saves : /\ files[k][w] = SliceOf(k, w, n)
                                                    /\ timeFile # HalfTime => n <= timeFile
    BY <1>4, <1>41, <1>6 DEF FilesOfSaves
  <2>6. \A j \in Kinds : j # k => machine'[j] = machine[j]
    BY <2>1 DEF FilesTyped
  <2>7. machine'[k] = Restored(k, w) /\ machine' = [j \in Kinds |-> machine'[j]]
    BY <1>41, <2>1 DEF FilesTyped
  (* What one file does to its kind.                                        *)
  <2>8. /\ machine'[k] \in [0..Units(k) - 1 -> UnitState]
        /\ \A u \in 0..Units(k) - 1 :
             \/ machine'[k][u] = machine[k][u] /\ (files[k][w] = Absent \/ u \notin Begin(k, w)..End(k, w) - 1)
             \/ \E n \in 1..saves : /\ files[k][w] = SliceOf(k, w, n)
                                    /\ timeFile # HalfTime => n <= timeFile
                                    /\ machine'[k][u] = [unit |-> u, save |-> n]
                                    /\ u \in Begin(k, w)..End(k, w) - 1
    <3>1. machine[k] \in [0..Units(k) - 1 -> UnitState] /\ saves \in Nat
      BY <1>41 DEF FilesTyped
    <3>2. Restored(k, w) = [u \in 0..Units(k) - 1 |->
              IF /\ files[k][w] # Absent
                 /\ IF k \in {"harvard", "pht", "llc"} THEN Zipped(k, w, u) ELSE Indexed(k, w, u)
              THEN files[k][w][u - Begin(k, w) + 1] ELSE machine[k][u]]
      BY <3>1 DEF Restored
    <3>3. CASE files[k][w] = Absent
      <4>1. Restored(k, w) = [u \in 0..Units(k) - 1 |-> machine[k][u]]
        BY <3>2, <3>3
      <4> QED BY <2>7, <3>1, <3>3, <4>1
    <3>4. CASE files[k][w] # Absent
      <4>0. PICK n \in 1..saves : /\ files[k][w] = SliceOf(k, w, n)
                                  /\ timeFile # HalfTime => n <= timeFile
        BY <2>5, <3>4
      <4> DEFINE b == Begin(k, w)
                 e == End(k, w)
      <4>1. /\ files[k][w] # Absent /\ DOMAIN files[k][w] = 1..e - b
            /\ b \in Nat /\ e \in Nat /\ n \in Int
            /\ \A u \in Int : u - b + 1 \in 1..e - b => files[k][w][u - b + 1] = [unit |-> u, save |-> n]
        <5>1. n \in Int /\ files[k][w] = SliceOf(k, w, n)
          BY <3>1, <4>0
        <5> QED BY <1>4, <1>41, <3>4, <5>1, SliceFacts, SliceBounds
      <4> HIDE DEF b, e
      <4>2. \A u \in 0..Units(k) - 1 :
              (IF k \in {"harvard", "pht", "llc"} THEN Zipped(k, w, u) ELSE Indexed(k, w, u))
                <=> u \in b..e - 1
        <5> SUFFICES ASSUME NEW u \in 0..Units(k) - 1
                     PROVE  (IF k \in {"harvard", "pht", "llc"} THEN Zipped(k, w, u) ELSE Indexed(k, w, u))
                              <=> u \in b..e - 1
          OBVIOUS
        <5>1. u \in Int
          BY UnitsNat
        <5>2. Zipped(k, w, u) <=> u - b + 1 \in 1..e - b /\ u < e
          BY <4>1 DEF Zipped, b, e
        <5>3. Indexed(k, w, u) <=> u - b + 1 \in 1..e - b
          BY <4>1 DEF Indexed, b, e
        <5> QED BY <4>1, <5>1, <5>2, <5>3
      <4>3. \A u \in 0..Units(k) - 1 :
              machine'[k][u] = IF u \in b..e - 1 THEN [unit |-> u, save |-> n] ELSE machine[k][u]
        <5> SUFFICES ASSUME NEW u \in 0..Units(k) - 1
                     PROVE  machine'[k][u] = IF u \in b..e - 1 THEN [unit |-> u, save |-> n] ELSE machine[k][u]
          OBVIOUS
        <5>1. u \in Int
          BY UnitsNat
        <5>2. machine'[k][u] = IF u \in b..e - 1 THEN files[k][w][u - b + 1] ELSE machine[k][u]
          BY <2>7, <3>2, <4>1, <4>2 DEF b
        <5>3. u \in b..e - 1 => u - b + 1 \in 1..e - b
          BY <4>1, <5>1
        <5> QED BY <4>1, <5>1, <5>2, <5>3
      <4>4. \A u \in 0..Units(k) - 1 : machine'[k][u] \in UnitState
        <5>1. \A u \in 0..Units(k) - 1 : [unit |-> u, save |-> n] \in UnitState
          BY <4>1, UnitsNat DEF UnitState
        <5> QED BY <3>1, <4>3, <5>1
      <4>5. machine'[k] = [u \in 0..Units(k) - 1 |-> machine'[k][u]]
        BY <2>7, <3>2
      <4>6. machine'[k] \in [0..Units(k) - 1 -> UnitState]
        BY <4>4, <4>5
      <4>7. ASSUME NEW u \in 0..Units(k) - 1, u \in b..e - 1
            PROVE  \E m \in 1..saves : /\ files[k][w] = SliceOf(k, w, m)
                                       /\ timeFile # HalfTime => m <= timeFile
                                       /\ machine'[k][u] = [unit |-> u, save |-> m]
                                       /\ u \in b..e - 1
        <5>1. machine'[k][u] = [unit |-> u, save |-> n]
          BY <4>3, <4>7
        <5> QED BY <4>0, <4>7, <5>1
      <4>8. ASSUME NEW u \in 0..Units(k) - 1, u \notin b..e - 1
            PROVE  machine'[k][u] = machine[k][u]
        BY <4>3, <4>8
      <4> QED BY <4>6, <4>7, <4>8 DEF b, e
    <3> QED BY <3>3, <3>4
  <2>9. FilesTyped'
    <3>1. reported' \subseteq Kinds
      BY <1>41, <2>1 DEF Missing, FilesTyped
    <3>2. \A j \in Kinds : machine'[j] \in [0..Units(j) - 1 -> UnitState]
      BY <2>6, <2>8 DEF FilesTyped
    <3> QED BY <2>1, <2>3, <2>7, <3>1, <3>2 DEF FilesTyped
  <2>10. FilesOfSaves' /\ SaveProgress' /\ PanicCause'
    BY <1>1, <2>1 DEF FilesOfSaves, SaveProgress, PanicCause
  <2>11. SaveComplete' <=> SaveComplete
    BY <2>1 DEF SaveComplete, Slice, Contents
  <2>12. LoadProgress'
    <3>1. ASSUME NEW j \in Kinds, NEW u \in 0..Units(j) - 1, machine'[j][u] # Cold
          PROVE  machine'[j][u].unit = u /\ (timeFile # HalfTime => machine'[j][u].save <= timeFile)
      <4>1. CASE machine'[j][u] = machine[j][u]
        BY <1>1, <3>1, <4>1 DEF LoadProgress
      <4>2. CASE j = k /\ machine'[j][u] # machine[j][u]
        <5>1. PICK n \in 1..saves : /\ timeFile # HalfTime => n <= timeFile
                                    /\ machine'[k][u] = [unit |-> u, save |-> n]
          BY <2>8, <4>2
        <5> QED BY <4>2, <5>1
      <4> QED BY <2>6, <4>1, <4>2
    <3>2. ASSUME NEW j \in reported', NEW v \in Worker, HasRead(j, v)',
                 NEW u \in Begin(j, v)..End(j, v) - 1
          PROVE  machine'[j][u] # Cold
      <4>1. j \in Kinds /\ j \in reported
        BY <2>1, <3>2 DEF Missing, FilesTyped
      <4>2. u \in 0..Units(j) - 1
        BY <4>1, SliceBounds, UnitsNat
      <4>3. \A n : [unit |-> u, save |-> n] # Cold
        <5>1. u # -1 /\ Cold.unit = -1
          BY <4>2, UnitsNat DEF Cold
        <5> QED BY <5>1
      <4>4. CASE j = k /\ v = w
        <5>1. files[k][w] # Absent
          BY <2>1, <3>2, <4>4 DEF Missing
        <5>2. \E n \in 1..saves : machine'[k][u] = [unit |-> u, save |-> n]
          BY <2>8, <4>2, <4>4, <5>1, <3>2
        <5> QED BY <4>3, <4>4, <5>2
      <4>5. CASE <<j, v>> # <<k, w>>
        <5>1. machine[j][u] # Cold
          BY <1>1, <2>4, <3>2, <4>1, <4>5 DEF LoadProgress
        <5>2. machine'[j][u] = machine[j][u] \/ \E n : machine'[j][u] = [unit |-> u, save |-> n]
          BY <2>6, <2>8, <4>1, <4>2
        <5> QED BY <4>3, <5>1, <5>2
      <4> QED BY <4>4, <4>5
    <3>3. ASSUME SaveComplete
          PROVE  /\ reported' = Kinds
                 /\ \A j \in Kinds, v \in Worker : HasRead(j, v)' =>
                      \A u \in Begin(j, v)..End(j, v) - 1 : machine'[j][u] = [unit |-> u, save |-> saves]
      <4>1. files[k][w] = SliceOf(k, w, saves) /\ files[k][w] # Absent
        <5>1. saves \in Int
          BY DEF FilesTyped
        <5> QED BY <1>4, <1>41, <3>3, <5>1, SliceIs, SliceFacts DEF SaveComplete
      <4>2. reported' = Kinds
        BY <1>1, <2>1, <3>3, <4>1 DEF Missing, LoadProgress
      <4>3. ASSUME NEW j \in Kinds, NEW v \in Worker, HasRead(j, v)',
                   NEW u \in Begin(j, v)..End(j, v) - 1
            PROVE  machine'[j][u] = [unit |-> u, save |-> saves]
        <5>1. u \in 0..Units(j) - 1
          BY SliceBounds, UnitsNat
        <5>2. ASSUME NEW n \in 1..saves, files[k][w] = SliceOf(k, w, n), u \in Begin(k, w)..End(k, w) - 1
              PROVE  n = saves
          <6>1. DOMAIN files[k][w] = 1..End(k, w) - Begin(k, w) /\ n \in Int /\ saves \in Int
            BY <1>4, <1>41, <4>1, SliceFacts DEF FilesTyped
          <6>2. /\ Begin(k, w) \in Nat /\ End(k, w) \in Nat /\ u \in Int
                /\ u - Begin(k, w) + 1 \in 1..End(k, w) - Begin(k, w)
            BY <1>4, <1>41, <5>2, SliceBounds
          <6>3. \A m \in Int : SliceOf(k, w, m)[u - Begin(k, w) + 1] = [unit |-> u, save |-> m]
            <7> SUFFICES ASSUME NEW m \in Int
                         PROVE  SliceOf(k, w, m)[u - Begin(k, w) + 1] = [unit |-> u, save |-> m]
              OBVIOUS
            <7>1. DOMAIN SliceOf(k, w, m) = 1..End(k, w) - Begin(k, w)
              BY <1>4, <1>41, SliceFacts
            <7> QED BY SMTT(30), <1>4, <1>41, <6>2, <7>1, SliceFacts
          <6>4. [unit |-> u, save |-> n] = [unit |-> u, save |-> saves]
            BY <4>1, <5>2, <6>1, <6>3
          <6>5. [unit |-> u, save |-> n].save = [unit |-> u, save |-> saves].save
            BY <6>4
          <6> QED BY <6>5
        <5>3. CASE j = k /\ machine'[k][u] # machine[k][u]
          <6>1. PICK n \in 1..saves : /\ files[k][w] = SliceOf(k, w, n)
                                      /\ machine'[k][u] = [unit |-> u, save |-> n]
                                      /\ u \in Begin(k, w)..End(k, w) - 1
            BY <2>8, <5>1, <5>3
          <6> QED BY <5>2, <5>3, <6>1
        <5>4. CASE machine'[j][u] = machine[j][u] /\ <<j, v>> # <<k, w>>
          BY <1>1, <2>4, <3>3, <4>3, <5>4 DEF LoadProgress
        <5>5. CASE j = k /\ v = w
          BY <2>8, <4>1, <5>1, <5>2, <5>5
        <5> QED BY <2>6, <5>3, <5>4, <5>5
      <4> QED BY <4>2, <4>3
    <3> QED BY <1>1, <2>1, <2>11, <3>1, <3>2, <3>3 DEF LoadProgress
  <2> QED BY <2>9, <2>10, <2>12
<1> QED BY <1>5, <1>6

LEMMA FilesStepInv ==
  ASSUME FilesInv, FilesNext
  PROVE  FilesInv'
BY RequestSaveInv, WriteTimeInv, JoinInv, RestartInv, ReadFileInv, LoadNextPluginInv,
   LoadTimeInv, WriteFileInv
DEF FilesNext

LEMMA FilesInvSaved ==
  ASSUME FilesInv
  PROVE  SavedIsLoaded
<1> USE DEF FilesInv
<1>1. ASSUME activity = "loaded" PROVE \A k \in Kinds, w \in Worker : HasRead(k, w)
  <2> SUFFICES ASSUME NEW k \in Kinds, NEW w \in Worker PROVE HasRead(k, w)
    OBVIOUS
  <2>1. plugin = 2 /\ turn[0] = NWorkers * 5
    BY <1>1 DEF LoadProgress
  <2>2. PluginOf(k) \in {1, 2} /\ PositionOf(k) \in 1..Size(PluginOf(k))
    BY OrderFacts
  <2>3. w \in Nat /\ w + 1 <= NWorkers /\ NWorkers \in Nat
    BY UnitsNat DEF Worker
  <2> QED BY <2>1, <2>2, <2>3 DEF HasRead, Size
<1>2. \A k \in Kinds : DOMAIN machine[k] = 0..Units(k) - 1
  BY DEF FilesTyped
<1>3. ASSUME activity = "loaded", NEW k \in Kinds, NEW u \in DOMAIN machine[k]
      PROVE  /\ machine[k][u] # Cold => machine[k][u].unit = u /\ machine[k][u].save <= time
             /\ k \in reported => machine[k][u] # Cold
  <2>1. u \in 0..Units(k) - 1
    BY <1>2
  <2>2. PICK w \in Worker : u \in Begin(k, w)..End(k, w) - 1
    BY <2>1, SliceCover
  <2> QED BY <1>1, <1>3, <2>1, <2>2 DEF LoadProgress
<1>4. ASSUME SaveComplete, timeFile = saves PROVE activity # "panicked"
  <2>1. timeFile # HalfTime
    BY <1>4 DEF FilesTyped, HalfTime
  <2>2. \A k \in Kinds, w \in Worker : files[k][w] # Truncated
    BY <1>4, SliceIs, SliceFacts DEF SaveComplete, FilesTyped
  <2> QED BY <2>1, <2>2 DEF PanicCause
<1>5. ASSUME SaveComplete, activity = "loaded" PROVE machine = Now(saves) /\ reported = Kinds
  <2>1. ASSUME NEW k \in Kinds, NEW u \in 0..Units(k) - 1
        PROVE  machine[k][u] = [unit |-> u, save |-> saves]
    <3>1. PICK w \in Worker : u \in Begin(k, w)..End(k, w) - 1
      BY SliceCover
    <3> QED BY <1>1, <1>5, <3>1 DEF LoadProgress
  <2>2. \A k \in Kinds : machine[k] = [u \in 0..Units(k) - 1 |-> [unit |-> u, save |-> saves]]
    BY <2>1 DEF FilesTyped
  <2>3. machine = [k \in Kinds |-> [u \in 0..Units(k) - 1 |-> [unit |-> u, save |-> saves]]]
    BY <2>2 DEF FilesTyped
  <2> QED BY <1>5, <2>3 DEF Now, LoadProgress
<1> QED BY <1>3, <1>4, <1>5 DEF SavedIsLoaded

(* ---- the order of the units -------------------------------------------- *)
(* With numbers from 0, the elements below one are as many as its number.   *)
LEMMA Rank ==
  ASSUME NEW S, NEW N \in Nat, NEW g \in [S -> 0..N - 1],
         \A p, q \in S : g[p] = g[q] => p = q,
         \A i \in 0..N - 1 : \E p \in S : g[p] = i,
         NEW p \in S
  PROVE  Cardinality({q \in S : g[q] < g[p]}) = g[p]
<1> DEFINE n == g[p]
           T == {q \in S : g[q] < n}
           I == 0..n - 1
           f == [i \in I |-> CHOOSE q \in S : g[q] = i]
<1>1. n \in Nat /\ n \in 0..N - 1 /\ I \subseteq 0..N - 1
  OBVIOUS
<1>2. \A i \in I : f[i] \in S /\ g[f[i]] = i
  <2> SUFFICES ASSUME NEW i \in I PROVE f[i] \in S /\ g[f[i]] = i
    OBVIOUS
  <2>1. \E q \in S : g[q] = i
    BY <1>1
  <2> QED BY <2>1
<1> HIDE DEF n
<1>3. \A i \in I : f[i] \in T
  BY <1>1, <1>2
<1>4. \A q \in T : g[q] \in I /\ f[g[q]] = q
  <2> SUFFICES ASSUME NEW q \in T PROVE g[q] \in I /\ f[g[q]] = q
    OBVIOUS
  <2>1. g[q] \in I /\ q \in S
    BY <1>1
  <2>2. f[g[q]] \in S /\ g[f[g[q]]] = g[q]
    BY <1>2, <2>1
  <2> HIDE DEF f, I, T
  <2> QED BY <2>1, <2>2
<1>5. f \in [I -> T]
  BY <1>3
<1>6. f \in Bijection(I, T)
  <2>1. \A i, j \in I : f[i] = f[j] => i = j
    BY <1>2
  <2>2. \A q \in T : \E i \in I : f[i] = q
    BY <1>4
  <2> HIDE DEF f, I, T
  <2> QED BY <1>5, <2>1, <2>2 DEF Bijection, Injection, Surjection, IsInjective
<1>7. IsFiniteSet(I) /\ Cardinality(I) = n
  <2>1. IsFiniteSet(0..n - 1) /\ Cardinality(0..n - 1) = IF 0 > n - 1 THEN 0 ELSE (n - 1) - 0 + 1
    <3>1. 0 \in Int /\ n - 1 \in Int
      BY <1>1
    <3> QED BY <3>1, FS_Interval
  <2>2. n = IF 0 > n - 1 THEN 0 ELSE (n - 1) - 0 + 1
    BY <1>1
  <2> QED BY <2>1, <2>2 DEF I
<1>8. ExistsBijection(I, T)
  BY <1>6 DEF ExistsBijection
<1> HIDE DEF I, T, f
<1>9. Cardinality(T) = n
  BY <1>7, <1>8, FS_Bijection
<1> QED BY <1>9 DEF T, n

(* Units whose numbers follow the order of their places are read in order.  *)
LEMMA ReadInOrder ==
  ASSUME NEW k, NEW N \in Nat, NEW g \in [Places(k) -> 0..N - 1],
         \A i \in 0..N - 1 : \E p \in Places(k) : g[p] = i,
         \A p, q \in Places(k) : g[p] = g[q] => p = q,
         \A p, q \in Places(k) : Precedes(q, p) <=> g[q] < g[p],
         \A p \in Places(k) : files[k][p[1]][p[2]].unit = g[p],
         NEW u \in 0..N - 1
  PROVE  Collected(k, u).unit = u
<1>1. \A p \in Places(k) : Cardinality({q \in Places(k) : Precedes(q, p)}) = g[p]
  <2> SUFFICES ASSUME NEW p \in Places(k)
               PROVE  Cardinality({q \in Places(k) : Precedes(q, p)}) = g[p]
    OBVIOUS
  <2>1. {q \in Places(k) : Precedes(q, p)} = {q \in Places(k) : g[q] < g[p]}
    OBVIOUS
  <2> QED BY <2>1, Rank
<1>2. Place(k, u) \in Places(k) /\ g[Place(k, u)] = u
  <2>1. \E p \in Places(k) : Cardinality({q \in Places(k) : Precedes(q, p)}) = u
    BY <1>1
  <2>2. /\ Place(k, u) \in Places(k)
        /\ Cardinality({q \in Places(k) : Precedes(q, Place(k, u))}) = u
    BY <2>1 DEF Place
  <2> QED BY <1>1, <2>2
<1> QED BY <1>2 DEF Collected

LEMMA SlicesInOrder ==
  ASSUME NEW k \in Kinds, NEW n \in Int,
         \A w \in Worker : files[k][w] = SliceOf(k, w, n),
         NEW u \in 0..Units(k) - 1
  PROVE  Collected(k, u).unit = u
<1> DEFINE P == Places(k)
           g == [p \in P |-> Begin(k, p[1]) + p[2] - 1]
<1>1. \A w \in Worker : files[k][w] # Absent /\ DOMAIN files[k][w] = 1..End(k, w) - Begin(k, w)
  BY SliceFacts
<1>2. Detected(k) = Worker
  BY <1>1 DEF Detected
<1>3. \A p : p \in P <=> \E w \in Worker : \E i \in 1..End(k, w) - Begin(k, w) : p = <<w, i>>
  <2>1. P = UNION {{w} \X (1..End(k, w) - Begin(k, w)) : w \in Worker}
    BY <1>1, <1>2 DEF Places
  <2> HIDE DEF P
  <2> QED BY <2>1
<1>4. \A p \in P : /\ p[1] \in Worker /\ p[2] \in 1..End(k, p[1]) - Begin(k, p[1])
                   /\ p = <<p[1], p[2]>>
  BY <1>3
<1>5. \A p \in P : /\ g[p] \in Begin(k, p[1])..End(k, p[1]) - 1 /\ g[p] \in 0..Units(k) - 1
                   /\ p[2] = g[p] - Begin(k, p[1]) + 1
  <2> SUFFICES ASSUME NEW p \in P
               PROVE  /\ g[p] \in Begin(k, p[1])..End(k, p[1]) - 1 /\ g[p] \in 0..Units(k) - 1
                      /\ p[2] = g[p] - Begin(k, p[1]) + 1
    OBVIOUS
  <2>1. p[1] \in Worker /\ p[2] \in 1..End(k, p[1]) - Begin(k, p[1])
    BY <1>4
  <2>2. g[p] = Begin(k, p[1]) + p[2] - 1
    OBVIOUS
  <2> HIDE DEF g, P
  <2> QED BY <2>1, <2>2, SliceBounds, UnitsNat
<1>6. g \in [P -> 0..Units(k) - 1]
  BY <1>5
<1> HIDE DEF g
<1>7. \A v, w \in Worker : \A i \in Begin(k, v)..End(k, v) - 1, j \in Begin(k, w)..End(k, w) - 1 :
        v < w => i < j
  <2> SUFFICES ASSUME NEW v \in Worker, NEW w \in Worker, v < w,
                      NEW i \in Begin(k, v)..End(k, v) - 1, NEW j \in Begin(k, w)..End(k, w) - 1
               PROVE  i < j
    OBVIOUS
  <2>1. End(k, v) <= Begin(k, w) /\ Begin(k, w) \in Nat /\ End(k, w) \in Nat
    BY SliceBounds
  <2>2. Begin(k, v) \in Nat /\ End(k, v) \in Nat
    BY SliceBounds
  <2> QED BY <2>1, <2>2
<1>8. \A p, q \in P : Precedes(q, p) <=> g[q] < g[p]
  <2> SUFFICES ASSUME NEW p \in P, NEW q \in P
               PROVE  Precedes(q, p) <=> g[q] < g[p]
    OBVIOUS
  <2>1. /\ p[1] \in Int /\ q[1] \in Int /\ p[1] \in Worker /\ q[1] \in Worker
        /\ g[p] \in Int /\ g[q] \in Int /\ p[2] \in Int /\ q[2] \in Int
    BY <1>4, <1>6, UnitsNat DEF Worker
  <2>2. CASE q[1] = p[1]
    <3>1. Begin(k, p[1]) \in Nat
      BY <2>1, SliceBounds
    <3>2. p[2] = g[p] - Begin(k, p[1]) + 1 /\ q[2] = g[q] - Begin(k, p[1]) + 1
      BY <1>5, <2>2
    <3> QED BY <2>1, <2>2, <3>1, <3>2 DEF Precedes, Earlier
  <2>3. CASE q[1] < p[1]
    BY <1>5, <1>7, <2>1, <2>3 DEF Precedes, Earlier
  <2>4. CASE q[1] > p[1]
    <3>1. g[p] < g[q]
      BY <1>5, <1>7, <2>1, <2>4
    <3> QED BY <2>1, <2>4, <3>1 DEF Precedes, Earlier
  <2> QED BY <2>1, <2>2, <2>3, <2>4
<1>9. \A p, q \in P : g[p] = g[q] => p = q
  <2> SUFFICES ASSUME NEW p \in P, NEW q \in P, g[p] = g[q]
               PROVE  p = q
    OBVIOUS
  <2>1. /\ p[1] \in Int /\ q[1] \in Int /\ g[p] \in Int
    BY <1>4, <1>6, UnitsNat DEF Worker
  <2>2. p[1] = q[1]
    BY <1>4, <1>5, <1>7, <2>1
  <2>3. p[2] = q[2]
    BY <1>5, <2>2
  <2> QED BY <1>4, <2>2, <2>3
<1>10. \A i \in 0..Units(k) - 1 : \E p \in P : g[p] = i
  <2> SUFFICES ASSUME NEW i \in 0..Units(k) - 1 PROVE \E p \in P : g[p] = i
    OBVIOUS
  <2>1. PICK w \in Worker : i \in Begin(k, w)..End(k, w) - 1
    BY SliceCover
  <2>2. Begin(k, w) \in Nat /\ End(k, w) \in Nat /\ i \in Int
    BY <2>1, SliceBounds
  <2> DEFINE j == i - Begin(k, w) + 1
  <2>3. j \in 1..End(k, w) - Begin(k, w) /\ Begin(k, w) + j - 1 = i
    BY <2>1, <2>2
  <2>4. <<w, j>> \in P
    BY <1>3, <2>3
  <2>5. g[<<w, j>>] = i
    BY <2>3, <2>4 DEF g
  <2> QED BY <2>4, <2>5
<1>11. \A p \in P : files[k][p[1]][p[2]].unit = g[p]
  <2> SUFFICES ASSUME NEW p \in P PROVE files[k][p[1]][p[2]].unit = g[p]
    OBVIOUS
  <2>1. /\ p[1] \in Worker /\ p[2] \in 1..End(k, p[1]) - Begin(k, p[1])
        /\ p[2] = g[p] - Begin(k, p[1]) + 1 /\ g[p] \in Int
    BY <1>4, <1>5, <1>6, UnitsNat
  <2> DEFINE v == p[1]
             y == g[p]
             b == Begin(k, v)
  <2>2. /\ DOMAIN SliceOf(k, v, n) = 1..End(k, v) - b
        /\ \A x \in Int : x - b + 1 \in DOMAIN SliceOf(k, v, n) =>
             SliceOf(k, v, n)[x - b + 1] = [unit |-> x, save |-> n]
    BY <2>1, SliceFacts
  <2>3. y - b + 1 \in DOMAIN SliceOf(k, v, n) /\ y \in Int
    BY <2>1, <2>2
  <2>4. SliceOf(k, v, n)[y - b + 1] = [unit |-> y, save |-> n]
    BY <2>2, <2>3
  <2>5. files[k][v][p[2]] = [unit |-> y, save |-> n]
    BY <2>1, <2>4
  <2> QED BY <2>5
<1>12. Units(k) \in Nat
  BY UnitsNat
<1> QED BY <1>6, <1>8, <1>9, <1>10, <1>11, <1>12, ReadInOrder

LEMMA WholeInOrder ==
  ASSUME NEW k \in Kinds,
         files[k] = [w \in Worker |-> WholeFile(k, w)],
         NEW u \in 0..Units(k) - 1
  PROVE  Collected(k, u).unit = u
<1> DEFINE P == Places(k)
           g == [p \in P |-> p[2] - 1]
<1>1. Units(k) \in Nat /\ 0 \in Worker /\ \A w \in Worker : w \in Nat
  BY UnitsNat DEF Worker
<1>2. files[k][0] = [i \in 1..Units(k) |-> [unit |-> i - 1, save |-> saves]]
  <2>1. files[k][0] = Contents(0, Units(k))
    BY <1>1 DEF WholeFile
  <2>2. 1..Units(k) - 0 = 1..Units(k) /\ \A i \in 1..Units(k) : 0 + i - 1 = i - 1
    BY <1>1
  <2> QED BY <2>1, <2>2 DEF Contents
<1>3. files[k][0] # Absent
  <2>1. Absent[1].unit = -1 /\ DOMAIN Absent = 1..1
    BY DEF Absent, Cold
  <2>2. DOMAIN files[k][0] = 1..1 => files[k][0][1].unit = 0
    <3> SUFFICES ASSUME DOMAIN files[k][0] = 1..1 PROVE files[k][0][1].unit = 0
      OBVIOUS
    <3>1. 1..Units(k) = 1..1
      BY <1>2
    <3>2. 1 \in 1..Units(k)
      BY <3>1
    <3> QED BY <1>2, <3>2
  <2> QED BY <2>1, <2>2
<1>4. Detected(k) = {0}
  BY <1>1, <1>3 DEF Detected, WholeFile
<1>5. \A p : p \in P <=> \E i \in 1..Units(k) : p = <<0, i>>
  <2>1. P = {0} \X (1..Units(k))
    <3>1. P = UNION {{w} \X DOMAIN files[k][w] : w \in {0}}
      BY <1>4 DEF Places
    <3>2. DOMAIN files[k][0] = 1..Units(k)
      BY <1>2
    <3> QED BY <3>1, <3>2
  <2> HIDE DEF P
  <2> QED BY <2>1
<1>6. \A p \in P : p[1] = 0 /\ p[2] \in 1..Units(k) /\ p = <<0, p[2]>> /\ g[p] = p[2] - 1
  BY <1>5
<1>7. g \in [P -> 0..Units(k) - 1]
  BY <1>1, <1>6
<1> HIDE DEF g
<1>8. \A p, q \in P : Precedes(q, p) <=> g[q] < g[p]
  BY <1>1, <1>6 DEF Precedes, Earlier
<1>9. \A p, q \in P : g[p] = g[q] => p = q
  <2> SUFFICES ASSUME NEW p \in P, NEW q \in P, g[p] = g[q] PROVE p = q
    OBVIOUS
  <2>1. p[2] = q[2]
    BY <1>1, <1>6
  <2> QED BY <1>6, <2>1
<1>10. \A i \in 0..Units(k) - 1 : \E p \in P : g[p] = i
  <2> SUFFICES ASSUME NEW i \in 0..Units(k) - 1 PROVE \E p \in P : g[p] = i
    OBVIOUS
  <2>1. i + 1 \in 1..Units(k) /\ (i + 1) - 1 = i
    BY <1>1
  <2>2. <<0, i + 1>> \in P
    BY <1>5, <2>1
  <2> QED BY <2>1, <2>2 DEF g
<1>11. \A p \in P : files[k][p[1]][p[2]].unit = g[p]
  <2> SUFFICES ASSUME NEW p \in P PROVE files[k][p[1]][p[2]].unit = g[p]
    OBVIOUS
  <2>1. p[1] = 0 /\ p[2] \in 1..Units(k) /\ g[p] = p[2] - 1
    BY <1>6
  <2>2. \A i \in 1..Units(k) : files[k][0][i] = [unit |-> i - 1, save |-> saves]
    BY <1>2
  <2>3. files[k][p[1]][p[2]] = [unit |-> p[2] - 1, save |-> saves]
    BY <2>1, <2>2
  <2> QED BY <2>1, <2>3
<1> QED BY <1>1, <1>7, <1>8, <1>9, <1>10, <1>11, ReadInOrder

(* ---- resizing ---------------------------------------------------------- *)
Geometry(g) == g.sets \in Nat \ {0} /\ g.ways \in Nat \ {0}

LEMMA StructureFacts ==
  ASSUME NEW sets, NEW content, IsStructure(sets, content)
  PROVE  \E N \in Nat \ {0} :
           /\ Cardinality(DOMAIN sets) = N /\ DOMAIN sets = 0..N - 1
           /\ sets = [k \in 0..N - 1 |-> sets[k]]
           /\ \A k \in 0..N - 1 : sets[k] \subseteq content /\ IsFiniteSet(sets[k])
<1> DEFINE N == Cardinality(DOMAIN sets)
<1>1. N \in Nat
  BY FS_CardinalityType DEF IsStructure
<1>2. N # 0
  BY FS_EmptySet DEF IsStructure
<1>3. sets \in [0..N - 1 -> SUBSET content] /\ DOMAIN sets = 0..N - 1
  BY DEF IsStructure
<1>4. \A k \in 0..N - 1 : IsFiniteSet(sets[k])
  BY DEF IsStructure
<1> HIDE DEF N
<1> QED BY <1>1, <1>2, <1>3, <1>4 DEF N

LEMMA CardinalityOfSets ==
  ASSUME NEW n \in Nat \ {0}
  PROVE  IsFiniteSet(0..n - 1) /\ Cardinality(0..n - 1) = n
<1>1. 0 \in Int /\ n - 1 \in Int /\ (IF 0 > n - 1 THEN 0 ELSE (n - 1) - 0 + 1) = n
  OBVIOUS
<1> QED BY <1>1, FS_Interval

LEMMA MinFacts ==
  ASSUME NEW n \in Nat, NEW m \in Nat
  PROVE  Min({n, m}) = IF n <= m THEN n ELSE m
<1> DEFINE least == IF n <= m THEN n ELSE m
<1>1. least \in {n, m} /\ \A y \in {n, m} : least <= y
  OBVIOUS
<1>2. \A x \in {n, m} : (\A y \in {n, m} : x <= y) => x = least
  OBVIOUS
<1> HIDE DEF least
<1> QED BY <1>1, <1>2 DEF Min

(* A set whose entries are fewer than the ways keeps them all; of a larger  *)
(* one the ways are full of entries at least as young as those that go.     *)
LEMMA YoungestFacts ==
  ASSUME NEW S, IsFiniteSet(S), NEW n \in Nat \ {0}, NEW K \in Youngest(S, n)
  PROVE  /\ K \subseteq S /\ IsFiniteSet(K) /\ Cardinality(K) <= n
         /\ \A e \in S \ K : Cardinality(K) = n /\ \A k \in K : e.ts <= k.ts
         /\ Cardinality(S) <= n => K = S
<1>1. K \in SUBSET S /\ Cardinality(K) = Min({n, Cardinality(S)})
      /\ \A k \in K, e \in S \ K : e.ts <= k.ts
  BY DEF Youngest
<1>2. Cardinality(S) \in Nat
  BY FS_CardinalityType
<1>3. Cardinality(K) = IF n <= Cardinality(S) THEN n ELSE Cardinality(S)
  BY <1>1, <1>2, MinFacts
<1>4. IsFiniteSet(K) /\ (Cardinality(S) = Cardinality(K) => S = K)
  BY <1>1, FS_Subset
<1> QED BY <1>1, <1>2, <1>3, <1>4

LEMMA MergedFacts ==
  ASSUME NEW source, NEW content, IsStructure(source, content), NEW n \in Nat \ {0}, NEW s \in 0..n - 1
  PROVE  /\ Merged(source, n)[s] \subseteq All(source) /\ IsFiniteSet(Merged(source, n)[s])
         /\ All(source) \subseteq content
         /\ \A e : e \in Merged(source, n)[s] <=> \E k \in DOMAIN source : k % n = s /\ e \in source[k]
<1>1. PICK N \in Nat \ {0} :
        /\ Cardinality(DOMAIN source) = N /\ DOMAIN source = 0..N - 1
        /\ source = [k \in 0..N - 1 |-> source[k]]
        /\ \A k \in 0..N - 1 : source[k] \subseteq content /\ IsFiniteSet(source[k])
  BY StructureFacts
<1> DEFINE chosen == {k \in DOMAIN source : k % n = s}
           family == {source[k] : k \in chosen}
           f == [k \in chosen |-> source[k]]
<1>2. Merged(source, n)[s] = UNION family
  BY DEF Merged
<1>3. IsFiniteSet(chosen)
  <2>1. IsFiniteSet(DOMAIN source)
    BY <1>1, CardinalityOfSets
  <2> QED BY <2>1, FS_Subset
<1>4. IsFiniteSet(family)
  <2>1. f \in Surjection(chosen, family)
    BY DEF Surjection
  <2> QED BY <1>3, <2>1, FS_Surjection
<1>5. \A T \in family : IsFiniteSet(T)
  BY <1>1
<1>6. IsFiniteSet(UNION family)
  BY <1>4, <1>5, FS_UNION
<1>7. UNION family \subseteq All(source)
  BY DEF All, Range
<1>8. All(source) \subseteq content
  BY <1>1 DEF All, Range
<1> QED BY <1>2, <1>6, <1>7, <1>8

LEMMA ResizedFacts ==
  ASSUME NEW source, NEW content, IsStructure(source, content), NEW g, Geometry(g),
         NEW kept \in Resized(source, g)
  PROVE  /\ kept = [s \in 0..g.sets - 1 |-> kept[s]]
         /\ DOMAIN kept = 0..g.sets - 1 /\ Cardinality(DOMAIN kept) = g.sets
         /\ \A s \in 0..g.sets - 1 :
              /\ kept[s] \subseteq Merged(source, g.sets)[s]
              /\ IsFiniteSet(kept[s])
              /\ \A e \in Merged(source, g.sets)[s] \ kept[s] :
                   Cardinality(kept[s]) = g.ways /\ \A k \in kept[s] : e.ts <= k.ts
         /\ All(kept) \subseteq All(source)
<1>1. /\ kept \in [0..g.sets - 1 -> UNION {Youngest(Merged(source, g.sets)[s], g.ways) : s \in 0..g.sets - 1}]
      /\ \A s \in 0..g.sets - 1 : kept[s] \in Youngest(Merged(source, g.sets)[s], g.ways)
  BY DEF Resized
<1>2. g.sets \in Nat \ {0} /\ g.ways \in Nat \ {0}
  BY DEF Geometry
<1>3. \A s \in 0..g.sets - 1 :
        /\ kept[s] \subseteq Merged(source, g.sets)[s]
        /\ IsFiniteSet(kept[s])
        /\ \A e \in Merged(source, g.sets)[s] \ kept[s] :
             Cardinality(kept[s]) = g.ways /\ \A k \in kept[s] : e.ts <= k.ts
  <2> SUFFICES ASSUME NEW s \in 0..g.sets - 1
               PROVE  /\ kept[s] \subseteq Merged(source, g.sets)[s]
                      /\ IsFiniteSet(kept[s])
                      /\ \A e \in Merged(source, g.sets)[s] \ kept[s] :
                           Cardinality(kept[s]) = g.ways /\ \A k \in kept[s] : e.ts <= k.ts
    OBVIOUS
  <2>1. IsFiniteSet(Merged(source, g.sets)[s])
    BY <1>2, MergedFacts
  <2>2. kept[s] \in Youngest(Merged(source, g.sets)[s], g.ways)
    BY <1>1
  <2> QED BY <1>2, <2>1, <2>2, YoungestFacts
<1>4. kept = [s \in 0..g.sets - 1 |-> kept[s]] /\ DOMAIN kept = 0..g.sets - 1
  BY <1>1
<1>5. Cardinality(DOMAIN kept) = g.sets
  BY <1>2, <1>4, CardinalityOfSets
<1>6. All(kept) \subseteq All(source)
  <2>1. \A s \in 0..g.sets - 1 : Merged(source, g.sets)[s] \subseteq All(source)
    BY <1>2, MergedFacts
  <2> QED BY <1>3, <1>4, <2>1 DEF All, Range
<1> QED BY <1>3, <1>4, <1>5, <1>6

(* Numbers that select a set of the source select the merged set.           *)
LEMMA SameSetAfterMerge ==
  ASSUME NEW N \in Nat \ {0}, NEW n \in Nat \ {0}, N % n = 0, NEW x \in Nat
  PROVE  (x % N) % n = x % n /\ x % N \in 0..N - 1 /\ x % n \in 0..n - 1
BY ModMod, Quotient

(* A structure of the target's shape is taken over as it is.                *)
LEMMA SameResized ==
  ASSUME NEW source, NEW content, IsStructure(source, content), NEW g, Geometry(g),
         HasShape(source, g)
  PROVE  /\ Fits(source, g)
         /\ \A kept \in Resized(source, g) : kept = source
         /\ \A s \in 0..g.sets - 1 : Merged(source, g.sets)[s] = source[s]
<1> DEFINE n == g.sets
<1>1. n \in Nat \ {0} /\ g.ways \in Nat \ {0}
  BY DEF Geometry
<1>2. /\ Cardinality(DOMAIN source) = n /\ DOMAIN source = 0..n - 1
      /\ source = [k \in 0..n - 1 |-> source[k]]
      /\ \A k \in 0..n - 1 : IsFiniteSet(source[k]) /\ Cardinality(source[k]) <= g.ways
  BY StructureFacts DEF HasShape
<1>3. \A k \in 0..n - 1 : k % n = k
  <2> SUFFICES ASSUME NEW k \in 0..n - 1 PROVE k % n = k
    OBVIOUS
  <2>1. 0 \in Int /\ k = n * 0 + k
    BY <1>1
  <2> HIDE DEF n
  <2> QED BY <1>1, <2>1, RemainderOf
<1>4. n % n = 0
  <2>1. n = n * 1 + 0 /\ 0 \in 0..n - 1 /\ 1 \in Int
    BY <1>1
  <2> HIDE DEF n
  <2> QED BY <1>1, <2>1, RemainderOf
<1>5. Fits(source, g)
  BY <1>2, <1>4 DEF Fits
<1>6. \A s \in 0..n - 1 : Merged(source, n)[s] = source[s]
  <2> SUFFICES ASSUME NEW s \in 0..n - 1 PROVE Merged(source, n)[s] = source[s]
    OBVIOUS
  <2>1. {k \in DOMAIN source : k % n = s} = {s}
    BY <1>2, <1>3
  <2>2. Merged(source, n)[s] = UNION {source[k] : k \in {s}}
    BY <2>1 DEF Merged
  <2> QED BY <2>2
<1>7. ASSUME NEW kept \in Resized(source, g) PROVE kept = source
  <2>1. kept = [s \in 0..n - 1 |-> kept[s]]
    BY <1>7, ResizedFacts
  <2>2. \A s \in 0..n - 1 : kept[s] = source[s]
    <3> SUFFICES ASSUME NEW s \in 0..n - 1 PROVE kept[s] = source[s]
      OBVIOUS
    <3>1. kept[s] \in Youngest(source[s], g.ways)
      BY <1>6, <1>7 DEF Resized
    <3>2. IsFiniteSet(source[s]) /\ Cardinality(source[s]) <= g.ways
      BY <1>2
    <3> HIDE DEF n
    <3> QED BY <1>1, <3>1, <3>2, YoungestFacts
  <2> QED BY <1>2, <2>1, <2>2
<1> QED BY <1>5, <1>6, <1>7

(* ---- the checkpoints --------------------------------------------------- *)
LEMMA TargetFacts ==
  ASSUME NEW to \in Parameters
  PROVE  /\ Geometry(to.l1i) /\ Geometry(to.l1d) /\ Geometry(to.l2)
         /\ Geometry(to.itlb) /\ Geometry(to.dtlb) /\ Geometry(to.stlb)
         /\ Geometry(to.btb) /\ Geometry(to.pht) /\ to.directory.sets \in Nat \ {0}
         /\ to.slices \in Nat \ {0}
BY ExportAssumption DEF IsTarget, Geometry

LEMMA CacheFacts ==
  ASSUME NEW from \in Checkpoints, NEW c \in Core, NEW s \in Side
  PROVE  /\ Harvard(from, c) = [t \in Side |-> Harvard(from, c)[t]]
         /\ IsStructure(Harvard(from, c)[s], Line) /\ BlocksInPlace(Harvard(from, c)[s])
<1>1. IsCheckpoint(from)
  BY ExportAssumption
<1> DEFINE source == from.caches[c]
<1>2. /\ source = [t \in Side |-> source[t]]
      /\ \A t \in Side : IsStructure(source[t], Line) /\ BlocksInPlace(source[t])
  BY <1>1 DEF IsCheckpoint
<1>3. CASE ~from.unified
  <2>1. Harvard(from, c) = source
    BY <1>3 DEF Harvard
  <2> QED BY <1>2, <2>1
<1>4. CASE from.unified
  <2> DEFINE half == [k \in DOMAIN source.d |->
                        {e \in source.d[k] : (e.block \in from.code) = (s = "i")}]
  <2>1. Harvard(from, c) = [t \in Side |-> [k \in DOMAIN source.d |->
          {e \in source.d[k] : (e.block \in from.code) = (t = "i")}]]
    BY <1>4 DEF Harvard
  <2>2. Harvard(from, c)[s] = half
    BY <2>1
  <2>3. IsStructure(source.d, Line) /\ BlocksInPlace(source.d)
    BY <1>2 DEF Side
  <2>4. DOMAIN half = DOMAIN source.d /\ \A k \in DOMAIN half : half[k] \subseteq source.d[k]
    OBVIOUS
  <2>5. \A k \in DOMAIN half : half[k] \in SUBSET Line /\ IsFiniteSet(half[k])
    <3> SUFFICES ASSUME NEW k \in DOMAIN half
                 PROVE  half[k] \in SUBSET Line /\ IsFiniteSet(half[k])
      OBVIOUS
    <3>1. source.d[k] \in SUBSET Line /\ IsFiniteSet(source.d[k])
      BY <2>3, <2>4 DEF IsStructure
    <3>2. half[k] \in SUBSET source.d[k]
      BY <2>4
    <3> HIDE DEF half
    <3> QED BY <3>1, <3>2, FS_Subset
  <2>6. half \in [DOMAIN half -> SUBSET Line]
    BY <2>5
  <2> HIDE DEF half
  <2>7. IsStructure(half, Line)
    BY <2>3, <2>4, <2>5, <2>6 DEF IsStructure
  <2>8. BlocksInPlace(half)
    BY <2>3, <2>4 DEF BlocksInPlace
  <2> QED BY <2>1, <2>2, <2>7, <2>8
<1> QED BY <1>3, <1>4

(* A modified line is the only one of its block; a cache has one.           *)
LEMMA OneLine ==
  ASSUME NEW from \in Checkpoints, NEW c \in Core, NEW s \in Side, NEW d \in Core, NEW t \in Side,
         NEW e \in All(Harvard(from, c)[s]), NEW f \in All(Harvard(from, d)[t]), e.block = f.block
  PROVE  /\ <<c, s>> = <<d, t>> => e = f
         /\ e.modified \/ f.modified => e = f
<1>1. IsCheckpoint(from)
  BY ExportAssumption
<1>2. /\ e.block = f.block => IF <<c, s>> = <<d, t>> THEN e = f ELSE ~e.modified
      /\ f.block = e.block => IF <<d, t>> = <<c, s>> THEN f = e ELSE ~f.modified
  BY <1>1 DEF IsCheckpoint
<1> QED BY <1>2

LEMMA TableFacts ==
  ASSUME NEW from \in Checkpoints, NEW c \in Core
  PROVE  /\ from.table[c] = [t \in TableNames |-> from.table[c][t]]
         /\ \A t \in TableNames : IsStructure(from.table[c][t], Entry) /\ TagsInPlace(from.table[c][t])
         /\ IsStructure(from.stlb[c], Entry) /\ TagsInPlace(from.stlb[c])
         /\ \A e, f \in All(from.table[c].btb) : e.tag = f.tag => e = f
BY ExportAssumption DEF IsCheckpoint

LEMMA SharedFacts ==
  ASSUME NEW from \in Checkpoints
  PROVE  /\ IsStructure(from.l2, Copy) /\ BlocksInPlace(from.l2) /\ NSets["llc"] \in Nat \ {0}
         /\ DOMAIN from.l2 = 0..NSets["llc"] - 1 /\ Cardinality(DOMAIN from.l2) = NSets["llc"]
<1>1. IsStructure(from.l2, Copy) /\ BlocksInPlace(from.l2) /\ DOMAIN from.l2 = 0..NSets["llc"] - 1
  BY ExportAssumption DEF IsCheckpoint
<1>2. NSets["llc"] \in Nat
  BY FilesAssumption
<1>3. DOMAIN from.l2 # {}
  BY <1>1 DEF IsStructure
<1>4. NSets["llc"] # 0
  BY <1>1, <1>3
<1>5. Cardinality(0..NSets["llc"] - 1) = NSets["llc"]
  BY <1>2, <1>4, CardinalityOfSets
<1> QED BY <1>1, <1>2, <1>4, <1>5

(* ---- the invariant of the conversion ----------------------------------- *)
(* Every unit is read as the unit it was saved as.                          *)
FolderInv ==
  /\ stage = "folder" => FilesInv
  /\ stage # "folder" =>
       activity = "running" /\ \A k \in Kinds : \A u \in 0..Units(k) - 1 : SavedAs(k, u) = u

ConversionTyped ==
  /\ checkpoint \in Checkpoints /\ flexus \in Parameters
  /\ stage \in {"folder", "caches", "directory", "l2", "btb", "mmus", "pht", "done", "panicked"}
  /\ scanned \in Core
  /\ stage \in {"folder", "directory", "l2", "done"} => scanned = 0
  /\ held = [c \in Core |-> [s \in Side |-> held[c][s]]]
  /\ entries \in [Block -> [sharers : SUBSET Nat, ts : Nat]]
  /\ evicted \in [Block -> Line \cup {NoLine}]
  /\ table = [c \in Core |-> [t \in TableNames |-> table[c][t]]]
  /\ stlb = [c \in Core |-> stlb[c]]

Source(c, s) == Harvard(checkpoint, c)[s]
Unscanned(c) == stage = "folder" \/ (stage = "caches" /\ c >= scanned)
L2Stages == {"btb", "mmus", "pht", "done"}

(* A converted cache holds lines of the cache of the checkpoint, in place.  *)
HeldInv ==
  \A c \in Core, s \in Side :
    /\ DOMAIN held[c][s] \in {{}, 0..L1(s).sets - 1}
    /\ \A k \in DOMAIN held[c][s] : \A e \in held[c][s][k] :
         e \in All(Source(c, s)) /\ e.block % L1(s).sets = k
    /\ Unscanned(c) => All(held[c][s]) = {}

(* The directory is that of the caches, at every step.                      *)
SharersOf(b) ==
  {2 * c : c \in {c \in Core : Holds(c, "d", b)}} \union
  {2 * c + 1 : c \in {c \in Core : Holds(c, "i", b)}}
Sharing ==
  \A b \in Block :
    /\ entries[b].sharers = SharersOf(b)
    /\ Replicas(b) = {} => entries[b].ts = 0
    /\ Replicas(b) # {} => \E e \in Replicas(b) : e.ts = entries[b].ts
    /\ \A e \in Replicas(b) : e.ts <= entries[b].ts
Guards ==
  stage \in L2Stages \union {"l2"} =>
    flexus.directory.infinite \/ flexus.directory.sets % flexus.slices = 0

(* What was set aside stands for its block: it is as dirty as the only line *)
(* that can be dirty, and as young as every line that had to go.            *)
EvictedInv ==
  \A b \in Block : evicted[b] # NoLine =>
    /\ evicted[b].block = b
    /\ \A c \in Core, s \in Side : \A line \in All(Source(c, s)) :
         line.block = b /\ line.modified => evicted[b].modified
LinesKept ==
  /\ stage \in {"caches", "directory", "l2"} =>
       \A c \in Core, s \in Side : ~Unscanned(c) =>
         \A line \in All(Source(c, s)) :
           \/ line \in All(held[c][s])
           \/ evicted[line.block] # NoLine /\ line.ts <= evicted[line.block].ts
  /\ stage \in L2Stages => NoLineForgotten

SharedInv ==
  /\ stage \in {"caches", "directory", "l2"} => l2 = checkpoint.l2
  /\ stage \in L2Stages =>
       /\ flexus.l2.sets % flexus.slices = 0
       /\ DOMAIN l2 = 0..flexus.l2.sets - 1
       /\ \A s \in DOMAIN l2 : \A e \in l2[s] : e.block \in Block /\ e.block % flexus.l2.sets = s

TablesInv ==
  \A c \in Core :
    /\ \A t \in TableNames : TagsInPlace(table[c][t])
    /\ TagsInPlace(stlb[c])
    /\ (stage = "mmus" /\ c < scanned) \/ stage \in {"pht", "done"} => TranslationsKept(c)

(* With the geometry of the checkpoint every step takes over what it reads. *)
SameInv ==
  flexus.same =>
    /\ stage # "panicked" /\ \A b \in Block : evicted[b] = NoLine
    /\ \A c \in Core : ~Unscanned(c) => held[c] = Harvard(checkpoint, c)
    /\ stage \in L2Stages => l2 = checkpoint.l2
    /\ \A c \in Core :
         /\ (stage = "btb" /\ c < scanned) \/ stage \in {"mmus", "pht", "done"} =>
              table[c].btb = checkpoint.table[c].btb
         /\ (stage = "mmus" /\ c < scanned) \/ stage \in {"pht", "done"} =>
              /\ table[c].itlb = checkpoint.table[c].itlb
              /\ table[c].dtlb = checkpoint.table[c].dtlb
              /\ stlb[c] = StlbOf(c)
         /\ (stage = "pht" /\ c < scanned) \/ stage = "done" =>
              table[c].pht = checkpoint.table[c].pht

CachesInv == HeldInv /\ Sharing /\ Guards /\ EvictedInv /\ LinesKept /\ SharedInv
ExportInv == FolderInv /\ ConversionTyped /\ CachesInv /\ TablesInv /\ SameInv

-----------------------------------------------------------------------------
LEMMA CoreFacts ==
  /\ NCores \in Nat \ {0} /\ 0 \in Core /\ \A c \in Core : c \in Nat /\ c < NCores
  /\ \A c \in Core, s, t \in {0, 1}, d \in Core : 2 * c + s = 2 * d + t => c = d /\ s = t
  /\ \A k \in {"fetch", "harvard", "mmus", "pht"} : k \in Kinds /\ Units(k) = NCores
  /\ "llc" \in Kinds /\ Units("llc") = NSets["llc"]
  /\ Side = {"i", "d"}
<1>1. NCores \in Nat \ {0}
  BY UnitsNat
<1>2. \A c \in Core : c \in Nat /\ c < NCores
  BY <1>1 DEF Core
<1>3. \A c \in Core, s, t \in {0, 1}, d \in Core : 2 * c + s = 2 * d + t => c = d /\ s = t
  BY <1>2
<1>4. \A k \in {"fetch", "harvard", "mmus", "pht"} : k \in Kinds /\ Units(k) = NCores
  BY UnitsNat, KindsAre DEF Units
<1>5. "llc" \in Kinds /\ Units("llc") = NSets["llc"]
  BY UnitsNat, KindsAre DEF Units
<1> QED BY <1>1, <1>2, <1>3, <1>4, <1>5 DEF Core, Side

(* The cores and sets are read in their order.                              *)
LEMMA ReadAsSaved ==
  ASSUME FolderInv, stage # "folder", NEW c \in Core
  PROVE  /\ SavedAs("fetch", c) = c /\ SavedAs("harvard", c) = c
         /\ SavedAs("mmus", c) = c /\ SavedAs("pht", c) = c
BY CoreFacts DEF FolderInv, Core

LEMMA EmptyCache ==
  /\ DOMAIN (<<>>) = {} /\ All(<<>>) = {} /\ TagsInPlace(<<>>)
BY DEF All, Range, TagsInPlace

LEMMA SharedSetsRead ==
  ASSUME checkpoint \in Checkpoints, \A u \in 0..Units("llc") - 1 : SavedAs("llc", u) = u
  PROVE  SharedSets = checkpoint.l2
<1>1. \A u \in 0..NSets["llc"] - 1 : SavedAs("llc", u) = u
  BY CoreFacts
<1>2. /\ DOMAIN checkpoint.l2 = 0..NSets["llc"] - 1
      /\ checkpoint.l2 = [s \in DOMAIN checkpoint.l2 |-> checkpoint.l2[s]]
  BY SharedFacts DEF IsStructure
<1> QED BY <1>1, <1>2 DEF SharedSets

LEMMA ExportInitInv == Init => ExportInv
<1> SUFFICES ASSUME Init PROVE ExportInv
  OBVIOUS
<1> USE DEF Init
<1>1. FolderInv
  <2>1. CASE stage = "folder"
    BY <2>1, FilesInitInv DEF FolderInv, AlreadySaved
  <2>2. CASE stage # "folder"
    <3>1. AlreadySaved
      BY <2>2
    <3>2. activity = "running" /\ saves = 1
      BY <3>1 DEF AlreadySaved
    <3>3. ASSUME NEW k \in Kinds, NEW u \in 0..Units(k) - 1 PROVE SavedAs(k, u) = u
      <4>1. CASE files = [x \in Kinds |-> [w \in Worker |-> Slice(x, w)]]
        <5>1. \A w \in Worker : files[k][w] = SliceOf(k, w, 1)
          BY <3>2, <4>1 DEF Slice, SliceOf, Contents
        <5> QED BY <3>3, <5>1, SlicesInOrder DEF SavedAs
      <4>2. CASE files = [x \in Kinds |-> [w \in Worker |-> WholeFile(x, w)]]
        <5>1. files[k] = [w \in Worker |-> WholeFile(k, w)]
          BY <4>2
        <5> QED BY <3>3, <5>1, WholeInOrder DEF SavedAs
      <4> QED BY <3>1, <4>1, <4>2 DEF AlreadySaved
    <3> QED BY <2>2, <3>2, <3>3 DEF FolderInv
  <2> QED BY <2>1, <2>2
<1>2. ConversionTyped
  BY CoreFacts DEF ConversionTyped
<1>3. \A c \in Core, s \in Side : held[c][s] = <<>>
  OBVIOUS
<1>4. stage \in {"folder", "caches"} /\ scanned = 0 /\ \A c \in Core : Unscanned(c)
  <2>1. stage \in {"folder", "caches"} /\ scanned = 0
    OBVIOUS
  <2>2. \A c \in Core : c >= 0
    BY CoreFacts
  <2> QED BY <2>1, <2>2 DEF Unscanned
<1>5. HeldInv
  <2>1. \A c \in Core, s \in Side : DOMAIN held[c][s] = {} /\ All(held[c][s]) = {}
    BY <1>3, EmptyCache
  <2> HIDE DEF Init
  <2> QED BY <2>1 DEF HeldInv
<1>6. \A b \in Block : Replicas(b) = {} /\ SharersOf(b) = {}
  <2>1. \A c \in Core, s \in Side : All(held[c][s]) = {}
    BY <1>3, EmptyCache
  <2> HIDE DEF Init
  <2>2. \A c \in Core, b \in Block : ~Holds(c, "d", b) /\ ~Holds(c, "i", b)
    BY <2>1, CoreFacts DEF Holds
  <2>3. \A b \in Block : SharersOf(b) = {}
    BY <2>2 DEF SharersOf
  <2>4. \A b \in Block : Replicas(b) = {}
    BY <2>1 DEF Replicas
  <2> QED BY <2>3, <2>4
<1>7. Sharing
  BY <1>6 DEF Sharing
<1>8. EvictedInv /\ Guards /\ LinesKept
  BY <1>4 DEF EvictedInv, Guards, LinesKept, L2Stages
<1>9. SharedInv
  <2>1. CASE stage = "folder"
    BY <2>1 DEF SharedInv, L2Stages
  <2>2. CASE stage = "caches"
    <3>1. checkpoint \in Checkpoints
      OBVIOUS
    <3>2. SharedSets = checkpoint.l2
      BY <1>1, <2>2, <3>1, CoreFacts, SharedSetsRead DEF FolderInv
    <3> QED BY <2>2, <3>2 DEF SharedInv, L2Stages
  <2> QED BY <1>4, <2>1, <2>2
<1>10. \A c \in Core : stlb[c] = <<>> /\ \A t \in TableNames : table[c][t] = <<>>
  OBVIOUS
<1>11. TablesInv
  BY <1>4, <1>10, EmptyCache DEF TablesInv
<1>12. SameInv
  BY <1>4 DEF SameInv, L2Stages
<1> QED BY <1>1, <1>2, <1>5, <1>7, <1>8, <1>9, <1>11, <1>12 DEF ExportInv, CachesInv

(* ---- what a step leaves alone ------------------------------------------ *)
LEMMA CachesFrame ==
  ASSUME UNCHANGED <<checkpoint, flexus, held, entries, evicted>>,
         \A c \in Core : Unscanned(c)' => Unscanned(c)
  PROVE  (HeldInv => HeldInv') /\ (Sharing => Sharing') /\ (EvictedInv => EvictedInv')
<1>1. HeldInv => HeldInv'
  BY DEF HeldInv, L1, Source
<1>2. Sharing => Sharing'
  BY DEF Sharing, SharersOf, Holds, Replicas
<1>3. EvictedInv => EvictedInv'
  BY DEF EvictedInv, Source
<1> QED BY <1>1, <1>2, <1>3

LEMMA LateFrame ==
  ASSUME CachesInv, UNCHANGED <<checkpoint, flexus, held, entries, evicted, l2>>,
         stage \in L2Stages, stage' \in L2Stages
  PROVE  CachesInv'
<1>1. HeldInv' /\ Sharing' /\ EvictedInv'
  BY CachesFrame DEF CachesInv, Unscanned, L2Stages
<1>2. Guards'
  BY DEF CachesInv, Guards
<1>3. NoLineForgotten'
  BY DEF CachesInv, LinesKept, NoLineForgotten, CrowdedOut
<1>4. LinesKept'
  BY <1>3 DEF LinesKept, L2Stages
<1>5. SharedInv'
  BY DEF CachesInv, SharedInv, L2Stages
<1> QED BY <1>1, <1>2, <1>4, <1>5 DEF CachesInv

LEMMA TablesFrame ==
  ASSUME TablesInv, UNCHANGED <<checkpoint, flexus, table, stlb>>,
         stage' \notin {"mmus", "pht", "done"}
  PROVE  TablesInv'
BY DEF TablesInv, TagsInPlace

LEMMA FolderFrame ==
  ASSUME FolderInv, stage # "folder", stage' # "folder", UNCHANGED fileVars
  PROVE  FolderInv'
<1>1. UNCHANGED <<activity, files>>
  BY DEF fileVars
<1>2. \A k, u : SavedAs(k, u)' = SavedAs(k, u)
  BY <1>1 DEF SavedAs, Collected, Place, Places, Detected, Precedes, Earlier
<1> QED BY <1>1, <1>2 DEF FolderInv

LEMMA PanicInv ==
  ASSUME ExportInv, Panic, ~flexus.same, stage # "folder"
  PROVE  ExportInv'
<1>1. /\ stage' = "panicked" /\ scanned' = scanned
      /\ UNCHANGED fileVars
      /\ UNCHANGED <<checkpoint, flexus, held, entries, evicted, l2, table, stlb>>
  BY DEF Panic, cacheVars, tableVars
<1>2. FolderInv'
  BY <1>1, FolderFrame DEF ExportInv
<1>3. ConversionTyped'
  BY <1>1 DEF ExportInv, ConversionTyped
<1>4. HeldInv' /\ Sharing' /\ EvictedInv'
  BY <1>1, CachesFrame DEF ExportInv, CachesInv, Unscanned
<1>5. Guards' /\ LinesKept' /\ SharedInv'
  BY <1>1 DEF Guards, LinesKept, SharedInv, L2Stages
<1>6. TablesInv'
  BY <1>1, TablesFrame DEF ExportInv
<1>7. SameInv'
  BY <1>1 DEF SameInv
<1> QED BY <1>2, <1>3, <1>4, <1>5, <1>6, <1>7 DEF ExportInv, CachesInv

LEMMA FinishedInv ==
  ASSUME ExportInv, UNCHANGED vars
  PROVE  ExportInv'
<1>1. /\ UNCHANGED <<activity, saves, plugin, turn, files, timeFile, time, machine, reported>>
      /\ UNCHANGED <<checkpoint, flexus, stage, scanned, held, entries, evicted, l2, table, stlb>>
  BY DEF vars, fileVars, cacheVars, tableVars
<1>2. FolderInv'
  <2>1. CASE stage = "folder"
    <3>1. FilesInv
      BY <2>1 DEF ExportInv, FolderInv
    <3>2. FilesTyped' /\ FilesOfSaves'
      BY <1>1, <3>1 DEF FilesInv, FilesTyped, FilesOfSaves
    <3>3. SaveProgress' /\ PanicCause'
      BY <1>1, <3>1 DEF FilesInv, SaveProgress, PanicCause, Wrote
    <3>4. SaveComplete' = SaveComplete
      BY <1>1 DEF SaveComplete, Slice, Contents
    <3>5. \A k, w : HasRead(k, w)' = HasRead(k, w)
      BY <1>1 DEF HasRead
    <3>6. LoadProgress'
      BY <1>1, <3>1, <3>4, <3>5 DEF FilesInv, LoadProgress
    <3>7. FilesInv'
      BY <3>2, <3>3, <3>6 DEF FilesInv
    <3> QED BY <1>1, <2>1, <3>7 DEF FolderInv
  <2>2. CASE stage # "folder"
    BY <1>1, <2>2, FolderFrame DEF ExportInv, fileVars
  <2> QED BY <2>1, <2>2
<1>3. ConversionTyped'
  BY <1>1 DEF ExportInv, ConversionTyped
<1>4. HeldInv' /\ Sharing' /\ EvictedInv'
  BY <1>1, CachesFrame DEF ExportInv, CachesInv, Unscanned
<1>5. Guards' /\ SharedInv'
  BY <1>1 DEF ExportInv, CachesInv, Guards, SharedInv, L2Stages
<1>6. LinesKept'
  BY <1>1 DEF ExportInv, CachesInv, LinesKept, NoLineForgotten, CrowdedOut, Source, Unscanned
<1>7. TablesInv'
  BY <1>1 DEF ExportInv, TablesInv, TagsInPlace, TranslationsKept, CrowdedOut
<1>8. SameInv'
  BY <1>1 DEF ExportInv, SameInv, Unscanned, StlbOf
<1> QED BY <1>2, <1>3, <1>4, <1>5, <1>6, <1>7, <1>8 DEF ExportInv, CachesInv

(* ---- from the folder --------------------------------------------------- *)
LEMMA FolderStepInv ==
  ASSUME ExportInv, FolderStep
  PROVE  ExportInv'
<1>1. /\ stage = "folder" /\ FilesNext
      /\ UNCHANGED <<checkpoint, flexus, stage, scanned, held, entries, evicted, l2, table, stlb>>
  BY DEF FolderStep, cacheVars, tableVars
<1>2. FolderInv'
  BY <1>1, FilesStepInv DEF ExportInv, FolderInv
<1>3. ConversionTyped'
  BY <1>1 DEF ExportInv, ConversionTyped
<1>4. HeldInv' /\ Sharing' /\ EvictedInv'
  BY <1>1, CachesFrame DEF ExportInv, CachesInv, Unscanned
<1>5. Guards' /\ LinesKept' /\ SharedInv'
  BY <1>1 DEF Guards, LinesKept, SharedInv, L2Stages
<1>6. TablesInv'
  BY <1>1, TablesFrame DEF ExportInv
<1>7. SameInv'
  BY <1>1 DEF ExportInv, SameInv, Unscanned, L2Stages
<1> QED BY <1>2, <1>3, <1>4, <1>5, <1>6, <1>7 DEF ExportInv, CachesInv

LEMMA StartConversionInv ==
  ASSUME ExportInv, StartConversion
  PROVE  ExportInv'
<1>1. /\ stage = "folder" /\ activity = "running" /\ saves > 0 /\ stage' = "caches"
      /\ l2' = SharedSets
      /\ UNCHANGED <<activity, files, saves>>
      /\ UNCHANGED <<checkpoint, flexus, scanned, held, entries, evicted, table, stlb>>
  BY DEF StartConversion, fileVars, tableVars
<1>2. \A k, u : SavedAs(k, u)' = SavedAs(k, u)
  BY <1>1 DEF SavedAs, Collected, Place, Places, Detected, Precedes, Earlier
<1>3. ASSUME NEW k \in Kinds, NEW u \in 0..Units(k) - 1 PROVE SavedAs(k, u) = u
  <2>1. FilesInv
    BY <1>1 DEF ExportInv, FolderInv
  <2>2. saves \in Int /\ \A w \in Worker : files[k][w] = SliceOf(k, w, saves)
    BY <1>1, <2>1 DEF FilesInv, FilesTyped, SaveProgress
  <2> QED BY <2>2, SlicesInOrder DEF SavedAs
<1>4. FolderInv'
  BY <1>1, <1>2, <1>3 DEF FolderInv
<1>5. ConversionTyped'
  BY <1>1 DEF ExportInv, ConversionTyped
<1>6. scanned = 0 /\ \A c \in Core : Unscanned(c) /\ Unscanned(c)'
  BY <1>1, CoreFacts DEF ExportInv, ConversionTyped, Unscanned
<1>7. HeldInv' /\ Sharing' /\ EvictedInv'
  BY <1>1, <1>6, CachesFrame DEF ExportInv, CachesInv
<1>8. Guards' /\ LinesKept'
  BY <1>1, <1>6 DEF Guards, LinesKept, L2Stages
<1>9. SharedInv'
  <2>1. l2' = checkpoint'.l2
    BY <1>1, <1>3, CoreFacts, SharedSetsRead DEF ExportInv, ConversionTyped
  <2> QED BY <1>1, <2>1 DEF SharedInv, L2Stages
<1>10. TablesInv'
  BY <1>1, TablesFrame DEF ExportInv
<1>11. SameInv'
  BY <1>1, <1>6 DEF ExportInv, SameInv, L2Stages
<1> QED BY <1>4, <1>5, <1>7, <1>8, <1>9, <1>10, <1>11 DEF ExportInv, CachesInv

(* ---- the private caches ------------------------------------------------ *)
LEMMA NextCoreFacts ==
  ASSUME NEW next, NextCore(next), scanned \in Core
  PROVE  /\ scanned' \in Core
         /\ \/ scanned + 1 # NCores /\ scanned' = scanned + 1 /\ stage' = stage
            \/ scanned + 1 = NCores /\ scanned' = 0 /\ stage' = next
<1>1. NCores \in Nat \ {0} /\ scanned \in Nat /\ scanned < NCores
  BY CoreFacts
<1>2. CASE scanned + 1 = NCores
  <2>1. NCores = NCores * 1 + 0 /\ 0 \in 0..NCores - 1 /\ 1 \in Int
    BY <1>1
  <2>2. NCores % NCores = 0
    BY <1>1, <2>1, RemainderOf
  <2> QED BY <1>1, <1>2, <2>2, CoreFacts DEF NextCore
<1>3. CASE scanned + 1 # NCores
  <2>1. scanned + 1 = NCores * 0 + (scanned + 1) /\ scanned + 1 \in 0..NCores - 1 /\ 0 \in Int
    BY <1>1, <1>3
  <2>2. (scanned + 1) % NCores = scanned + 1
    BY <1>1, <2>1, RemainderOf
  <2> QED BY <1>1, <1>3, <2>1, <2>2 DEF NextCore, Core
<1> QED BY <1>2, <1>3

LEMMA MaxIs ==
  ASSUME NEW S \in SUBSET Nat, NEW m \in S, \A x \in S : x <= m
  PROVE  Max(S) = m
<1>1. \A y \in S : m >= y
  OBVIOUS
<1>2. \A x \in S : (\A y \in S : x >= y) => x = m
  OBVIOUS
<1> QED BY <1>1, <1>2 DEF Max

LEMMA LargestOfThree ==
  ASSUME NEW a \in Nat, NEW T \in SUBSET Nat, NEW U \in SUBSET Nat,
         \A x, y \in T : x = y, \A x, y \in U : x = y
  PROVE  \E m \in {a} \cup T \cup U : \A x \in {a} \cup T \cup U : x <= m
<1> DEFINE t == IF T = {} THEN a ELSE CHOOSE x \in T : TRUE
           u == IF U = {} THEN a ELSE CHOOSE x \in U : TRUE
           V == {a} \cup T \cup U
<1>1. t \in V /\ \A x \in T : x = t
  OBVIOUS
<1>2. u \in V /\ \A x \in U : x = u
  OBVIOUS
<1>3. V \subseteq Nat /\ a \in V
  OBVIOUS
<1>4. \A x \in V : x = a \/ x = t \/ x = u
  BY <1>1, <1>2
<1> HIDE DEF t, u, V
<1>5. \E m \in V : \A x \in V : x <= m
  <2>1. CASE t <= a /\ u <= a
    BY <1>1, <1>2, <1>3, <1>4, <2>1
  <2>2. CASE a <= t /\ u <= t
    BY <1>1, <1>2, <1>3, <1>4, <2>2
  <2>3. CASE a <= u /\ t <= u
    BY <1>1, <1>2, <1>3, <1>4, <2>3
  <2>4. a \in Nat /\ t \in Nat /\ u \in Nat
    BY <1>1, <1>2, <1>3
  <2> QED BY <2>1, <2>2, <2>3, <2>4
<1> QED BY <1>5 DEF V

LEMMA LineFacts ==
  /\ NoLine.ts = 0 /\ NoLine \notin Line
  /\ \A e \in Line : /\ e.block \in Block /\ e.block \in Nat /\ e.ts \in Nat \ {0}
                     /\ e.modified \in BOOLEAN /\ e # NoLine
<1>1. \A e \in Line : e.ts \in Nat \ {0} /\ e.block \in Block /\ e.modified \in BOOLEAN
  BY DEF Line
<1>2. NoLine.ts = 0
  BY DEF NoLine
<1> QED BY <1>1, <1>2, ExportAssumption

LEMMA SetAsideFacts ==
  ASSUME NEW aside \in [Block -> Line \cup {NoLine}], NEW lines \in SUBSET Line,
         \A e, f \in lines : e.block = f.block => e = f
  PROVE  /\ SetAside(aside, lines) \in [Block -> Line \cup {NoLine}]
         /\ \A b \in Block :
              /\ SetAside(aside, lines)[b] \in {aside[b]} \cup {e \in lines : e.block = b}
              /\ aside[b].ts <= SetAside(aside, lines)[b].ts
              /\ \A e \in lines : e.block = b =>
                   /\ SetAside(aside, lines)[b] # NoLine
                   /\ e.ts <= SetAside(aside, lines)[b].ts
<1> DEFINE new == SetAside(aside, lines)
<1>1. \A b \in Block : aside[b].ts \in Nat /\ (aside[b].ts # 0 => aside[b] # NoLine)
  BY LineFacts
<1>2. ASSUME NEW b \in Block
      PROVE  /\ new[b] \in {aside[b]} \cup {e \in lines : e.block = b}
             /\ aside[b].ts <= new[b].ts
             /\ \A e \in lines : e.block = b => new[b] # NoLine /\ e.ts <= new[b].ts
  <2>1. new[b] = IF \E e \in lines : e.block = b /\ aside[b].ts < e.ts
                 THEN CHOOSE e \in lines : e.block = b ELSE aside[b]
    BY DEF SetAside
  <2>2. CASE \E e \in lines : e.block = b /\ aside[b].ts < e.ts
    <3>1. PICK e \in lines : e.block = b /\ aside[b].ts < e.ts
      BY <2>2
    <3>2. new[b] \in lines /\ new[b].block = b
      BY <2>1, <2>2
    <3>3. new[b] = e
      BY <3>1, <3>2
    <3>4. \A f \in lines : f.block = b => f = e
      BY <3>1
    <3> HIDE DEF new
    <3> QED BY <1>1, <3>1, <3>3, <3>4, LineFacts
  <2>3. CASE ~\E e \in lines : e.block = b /\ aside[b].ts < e.ts
    <3>1. new[b] = aside[b]
      BY <2>1, <2>3
    <3> HIDE DEF new
    <3>2. \A e \in lines : e.block = b => e.ts <= aside[b].ts /\ e.ts \in Nat \ {0}
      BY <1>1, <2>3, LineFacts
    <3>3. \A e \in lines : e.block = b => aside[b].ts # 0
      BY <1>1, <3>2
    <3> QED BY <1>1, <3>1, <3>2, <3>3
  <2> QED BY <2>2, <2>3
<1>3. new \in [Block -> Line \cup {NoLine}]
  BY <1>2 DEF SetAside
<1> QED BY <1>2, <1>3

(* A line of a merged set lies in the set its number selects.               *)
LEMMA LinesInPlace ==
  ASSUME NEW source, NEW content, IsStructure(source, content), BlocksInPlace(source),
         \A e \in content : e.block \in Nat,
         NEW n \in Nat \ {0}, Cardinality(DOMAIN source) % n = 0,
         NEW s \in 0..n - 1, NEW e \in Merged(source, n)[s]
  PROVE  e.block % n = s
<1>1. PICK k \in DOMAIN source : k % n = s /\ e \in source[k]
  BY MergedFacts
<1>2. PICK N \in Nat \ {0} : Cardinality(DOMAIN source) = N /\ source[k] \subseteq content
  BY StructureFacts
<1>3. e.block % N = k /\ e.block \in Nat
  BY <1>1, <1>2 DEF BlocksInPlace
<1> QED BY <1>1, <1>2, <1>3, SameSetAfterMerge

LEMMA TagsInPlaceMerged ==
  ASSUME NEW source, NEW content, IsStructure(source, content), TagsInPlace(source),
         \A e \in content : e.tag \in Nat,
         NEW n \in Nat \ {0}, Cardinality(DOMAIN source) % n = 0,
         NEW s \in 0..n - 1, NEW e \in Merged(source, n)[s]
  PROVE  e.tag % n = s
<1>1. PICK k \in DOMAIN source : k % n = s /\ e \in source[k]
  BY MergedFacts
<1>2. PICK N \in Nat \ {0} : Cardinality(DOMAIN source) = N /\ source[k] \subseteq content
  BY StructureFacts
<1>3. e.tag % N = k /\ e.tag \in Nat
  BY <1>1, <1>2 DEF TagsInPlace
<1> QED BY <1>1, <1>2, <1>3, SameSetAfterMerge

Kept(c, kept) == \A s \in Side : kept[s] \in Resized(Source(c, s), L1(s))

LEMMA KeptFacts ==
  ASSUME checkpoint \in Checkpoints, flexus \in Parameters, NEW c \in Core, NEW kept, Kept(c, kept),
         \A s \in Side : Fits(Source(c, s), L1(s)), NEW s \in Side
  PROVE  /\ DOMAIN kept[s] = 0..L1(s).sets - 1
         /\ All(kept[s]) \subseteq All(Source(c, s)) /\ All(Source(c, s)) \subseteq Line
         /\ \A k \in DOMAIN kept[s] : \A e \in kept[s][k] :
              e \in All(Source(c, s)) /\ e.block % L1(s).sets = k
         /\ \A e, f \in All(Source(c, s)) : e.block = f.block => e = f
<1> DEFINE source == Source(c, s)
           g == L1(s)
           n == g.sets
<1>1. IsStructure(source, Line) /\ BlocksInPlace(source)
  BY CacheFacts DEF Source
<1>2. Geometry(g)
  BY TargetFacts DEF L1
<1>3. n \in Nat \ {0}
  BY <1>2 DEF Geometry
<1>4. kept[s] \in Resized(source, g)
  BY DEF Kept
<1>5. Cardinality(DOMAIN source) % n = 0
  BY DEF Fits
<1> HIDE DEF source, g
<1>6. /\ DOMAIN kept[s] = 0..n - 1 /\ All(kept[s]) \subseteq All(source)
      /\ \A k \in 0..n - 1 : kept[s][k] \subseteq Merged(source, n)[k]
  BY <1>1, <1>2, <1>4, ResizedFacts
<1>7. ASSUME NEW k \in 0..n - 1, NEW e \in kept[s][k]
      PROVE  e \in All(source) /\ e.block % n = k
  <2>1. e \in Merged(source, n)[k]
    BY <1>6, <1>7
  <2>2. e \in All(source)
    BY <1>1, <1>3, <1>7, <2>1, MergedFacts
  <2>3. \A x \in Line : x.block \in Nat
    BY LineFacts
  <2> HIDE DEF n
  <2>4. e.block % n = k
    BY <1>1, <1>3, <1>5, <1>7, <2>1, <2>3, LinesInPlace DEF n
  <2> QED BY <2>2, <2>4
<1>8. All(source) \subseteq Line
  <2>1. 0 \in 0..n - 1
    BY <1>3
  <2> HIDE DEF n
  <2> QED BY <1>1, <1>3, <2>1, MergedFacts DEF n
<1>9. \A e, f \in All(source) : e.block = f.block => e = f
  BY OneLine DEF source, Source
<1> QED BY <1>6, <1>7, <1>8, <1>9 DEF source, g

LEMMA SourceLines ==
  ASSUME checkpoint \in Checkpoints, NEW c \in Core, NEW s \in Side
  PROVE  All(Source(c, s)) \subseteq Line
BY CacheFacts, StructureFacts DEF Source, All, Range

(* What a core that is scanned enters into the directory.                   *)
LEMMA RegisteredSharing ==
  ASSUME ConversionTyped, HeldInv, Sharing, NEW c \in Core, Unscanned(c), NEW kept, Kept(c, kept),
         \A s \in Side : Fits(Source(c, s), L1(s)), NEW new, new = [s \in Side |-> kept[s]],
         held' = [held EXCEPT ![c] = new], entries' = Registered(c, kept)
  PROVE  /\ Sharing'
         /\ entries' \in [Block -> [sharers : SUBSET Nat, ts : Nat]]
<1> DEFINE mine(b) == {s \in Side : \E e \in All(kept[s]) : e.block = b}
           here(b, s) == {e \in All(kept[s]) : e.block = b}
           times(b) == {e.ts : e \in {e \in UNION {All(kept[s]) : s \in Side} : e.block = b}}
           timesOf(b, s) == {e.ts : e \in here(b, s)}
<1>0. "i" \in Side /\ "d" \in Side
  BY CoreFacts
<1>1. \A s \in Side : All(held[c][s]) = {}
  BY DEF HeldInv
<1>2. \A x \in Core, s \in Side : held'[x][s] = IF x = c THEN kept[s] ELSE held[x][s]
  BY DEF ConversionTyped
<1>3. \A b : \A x \in Core, s \in Side :
        Holds(x, s, b)' <=> IF x = c THEN s \in mine(b) ELSE Holds(x, s, b)
  BY <1>2 DEF Holds
<1>4. \A b : \A s \in Side : ~Holds(c, s, b)
  BY <1>1 DEF Holds
<1>5. \A b : SharersOf(b)' = SharersOf(b) \union {SharerPosition(c, s) : s \in mine(b)}
  <2> SUFFICES ASSUME NEW b
               PROVE  SharersOf(b)' = SharersOf(b) \union {SharerPosition(c, s) : s \in mine(b)}
    OBVIOUS
  <2>1. \A y : y \in SharersOf(b) <=> \/ \E x \in Core : Holds(x, "d", b) /\ y = 2 * x
                                      \/ \E x \in Core : Holds(x, "i", b) /\ y = 2 * x + 1
    BY DEF SharersOf
  <2>2. \A y : y \in SharersOf(b)' <=> \/ \E x \in Core : Holds(x, "d", b)' /\ y = 2 * x
                                       \/ \E x \in Core : Holds(x, "i", b)' /\ y = 2 * x + 1
    BY DEF SharersOf
  <2>3. SharerPosition(c, "d") = 2 * c /\ SharerPosition(c, "i") = 2 * c + 1
    BY CoreFacts DEF SharerPosition
  <2>4. \A y : y \in {SharerPosition(c, s) : s \in mine(b)} <=>
                 ("d" \in mine(b) /\ y = 2 * c) \/ ("i" \in mine(b) /\ y = 2 * c + 1)
    BY <2>3, CoreFacts
  <2> HIDE DEF mine
  <2>5. \A x \in Core : /\ Holds(x, "d", b)' <=> IF x = c THEN "d" \in mine(b) ELSE Holds(x, "d", b)
                        /\ Holds(x, "i", b)' <=> IF x = c THEN "i" \in mine(b) ELSE Holds(x, "i", b)
    BY <1>0, <1>3
  <2>6. ~Holds(c, "d", b) /\ ~Holds(c, "i", b)
    BY <1>0, <1>4
  <2>7. ASSUME NEW y
        PROVE  y \in SharersOf(b)' <=> y \in SharersOf(b) \union {SharerPosition(c, s) : s \in mine(b)}
    <3>1. y \in SharersOf(b)' => y \in SharersOf(b) \union {SharerPosition(c, s) : s \in mine(b)}
      <4>1. ASSUME NEW x \in Core, Holds(x, "d", b)', y = 2 * x
            PROVE  y \in SharersOf(b) \union {SharerPosition(c, s) : s \in mine(b)}
        BY <2>1, <2>4, <2>5, <4>1
      <4>2. ASSUME NEW x \in Core, Holds(x, "i", b)', y = 2 * x + 1
            PROVE  y \in SharersOf(b) \union {SharerPosition(c, s) : s \in mine(b)}
        BY <2>1, <2>4, <2>5, <4>2
      <4> QED BY <2>2, <4>1, <4>2
    <3>2. y \in SharersOf(b) => y \in SharersOf(b)'
      BY <2>1, <2>2, <2>5, <2>6
    <3>3. y \in {SharerPosition(c, s) : s \in mine(b)} => y \in SharersOf(b)'
      BY <2>2, <2>4, <2>5
    <3> QED BY <3>1, <3>2, <3>3
  <2> QED BY <2>7
<1>6. \A b : Replicas(b)' = Replicas(b) \union here(b, "i") \union here(b, "d")
  <2> SUFFICES ASSUME NEW b
               PROVE  Replicas(b)' = Replicas(b) \union here(b, "i") \union here(b, "d")
    OBVIOUS
  <2>1. \A e : e \in Replicas(b)' <=> \E x \in Core, s \in Side : e \in All(held'[x][s]) /\ e.block = b
    BY DEF Replicas
  <2>2. \A e : e \in Replicas(b) <=> \E x \in Core, s \in Side : e \in All(held[x][s]) /\ e.block = b
    BY DEF Replicas
  <2>3. \A e : e \in here(b, "i") \union here(b, "d") <=>
                 \E s \in Side : e \in All(kept[s]) /\ e.block = b
    BY CoreFacts
  <2> QED BY <1>1, <1>2, <2>1, <2>2, <2>3
<1>7. \A b : times(b) = timesOf(b, "i") \union timesOf(b, "d")
  BY CoreFacts
<1>8. \A s \in Side : /\ All(kept[s]) \subseteq Line
                      /\ \A e, f \in All(kept[s]) : e.block = f.block => e = f
  <2> SUFFICES ASSUME NEW s \in Side
               PROVE  /\ All(kept[s]) \subseteq Line
                      /\ \A e, f \in All(kept[s]) : e.block = f.block => e = f
    OBVIOUS
  <2>1. /\ All(kept[s]) \subseteq All(Source(c, s)) /\ All(Source(c, s)) \subseteq Line
        /\ \A e, f \in All(Source(c, s)) : e.block = f.block => e = f
    BY KeptFacts DEF ConversionTyped
  <2> QED BY <2>1
<1>9. \A b : \A s \in Side : /\ timesOf(b, s) \in SUBSET Nat /\ \A x, y \in timesOf(b, s) : x = y
                         /\ 0 \notin timesOf(b, s)
  BY <1>8, LineFacts
<1>10. ASSUME NEW b \in Block
       PROVE  /\ entries'[b].sharers = SharersOf(b)'
              /\ entries'[b].ts \in {entries[b].ts} \union times(b)
              /\ \A x \in {entries[b].ts} \union times(b) : x <= entries'[b].ts
              /\ entries'[b] \in [sharers : SUBSET Nat, ts : Nat]
  <2>1. entries'[b] = [sharers |-> entries[b].sharers \union {SharerPosition(c, s) : s \in mine(b)},
                       ts |-> Max({entries[b].ts} \union times(b))]
    BY DEF Registered
  <2>2. entries[b].ts \in Nat /\ entries[b].sharers \subseteq Nat /\ entries[b].sharers = SharersOf(b)
    BY DEF ConversionTyped, Sharing
  <2>3. PICK m \in {entries[b].ts} \union times(b) : \A x \in {entries[b].ts} \union times(b) : x <= m
    <3>1. /\ timesOf(b, "i") \in SUBSET Nat /\ timesOf(b, "d") \in SUBSET Nat
          /\ \A x, y \in timesOf(b, "i") : x = y
          /\ \A x, y \in timesOf(b, "d") : x = y
      BY <1>0, <1>9
    <3>3. times(b) = timesOf(b, "i") \union timesOf(b, "d")
      BY <1>7
    <3> HIDE DEF timesOf, times
    <3>2. \E m \in {entries[b].ts} \cup timesOf(b, "i") \cup timesOf(b, "d") :
            \A x \in {entries[b].ts} \cup timesOf(b, "i") \cup timesOf(b, "d") : x <= m
      BY <2>2, <3>1, LargestOfThree
    <3> QED BY <3>2, <3>3
  <2>4. {entries[b].ts} \union times(b) \in SUBSET Nat
    <3>1. timesOf(b, "i") \in SUBSET Nat /\ timesOf(b, "d") \in SUBSET Nat
      BY <1>0, <1>9
    <3>2. times(b) = timesOf(b, "i") \union timesOf(b, "d")
      BY <1>7
    <3> HIDE DEF timesOf, times
    <3> QED BY <2>2, <3>1, <3>2
  <2> HIDE DEF times, mine
  <2>5. Max({entries[b].ts} \union times(b)) = m
    BY <2>3, <2>4, MaxIs
  <2>6. {SharerPosition(c, s) : s \in mine(b)} \subseteq Nat
    BY CoreFacts DEF SharerPosition
  <2> QED BY <1>5, <2>1, <2>2, <2>3, <2>4, <2>5, <2>6
<1>11. \A b \in Block : /\ times(b) = {} <=> here(b, "i") \union here(b, "d") = {}
                        /\ \A e \in here(b, "i") \union here(b, "d") : e.ts \in times(b)
                        /\ \A x \in times(b) : \E e \in here(b, "i") \union here(b, "d") : e.ts = x
                        /\ \A x \in times(b) : x \in Nat \ {0}
  <2> SUFFICES ASSUME NEW b \in Block
               PROVE  /\ times(b) = {} <=> here(b, "i") \union here(b, "d") = {}
                      /\ \A e \in here(b, "i") \union here(b, "d") : e.ts \in times(b)
                      /\ \A x \in times(b) : \E e \in here(b, "i") \union here(b, "d") : e.ts = x
                      /\ \A x \in times(b) : x \in Nat \ {0}
    OBVIOUS
  <2>1. times(b) = timesOf(b, "i") \union timesOf(b, "d")
    BY <1>7
  <2>2. \A s \in Side : \A x : x \in timesOf(b, s) <=> \E e \in here(b, s) : x = e.ts
    OBVIOUS
  <2>3. \A s \in Side : \A x \in timesOf(b, s) : x \in Nat \ {0}
    BY <1>9
  <2> HIDE DEF times, timesOf, here
  <2>4. \A x : x \in times(b) <=> \E e \in here(b, "i") \union here(b, "d") : x = e.ts
    BY <1>0, <2>1, <2>2
  <2> QED BY <1>0, <2>1, <2>3, <2>4
<1>12. ASSUME NEW b \in Block
       PROVE  /\ Replicas(b)' = {} => entries'[b].ts = 0
              /\ Replicas(b)' # {} => \E e \in Replicas(b)' : e.ts = entries'[b].ts
              /\ \A e \in Replicas(b)' : e.ts <= entries'[b].ts
  <2> DEFINE R == here(b, "i") \union here(b, "d")
             t == entries[b].ts
             tt == entries'[b].ts
  <2>1. /\ Replicas(b) = {} => t = 0
        /\ Replicas(b) # {} => \E e \in Replicas(b) : e.ts = t
        /\ \A e \in Replicas(b) : e.ts <= t
        /\ t \in Nat
    BY DEF Sharing, ConversionTyped
  <2>2. Replicas(b)' = Replicas(b) \union R
    BY <1>6
  <2>3. tt \in {t} \union times(b) /\ t <= tt /\ tt \in Nat /\ \A x \in times(b) : x <= tt
    BY <1>10
  <2>4. /\ times(b) = {} <=> R = {}
        /\ \A e \in R : e.ts \in times(b)
        /\ \A x \in times(b) : \E e \in R : e.ts = x
        /\ \A x \in times(b) : x \in Nat \ {0}
    BY <1>11
  <2>5. \A e \in Replicas(b) : e \in Line
    <3>1. \A x \in Core, s \in Side : All(held[x][s]) \subseteq Line
      <4> SUFFICES ASSUME NEW x \in Core, NEW s \in Side PROVE All(held[x][s]) \subseteq Line
        OBVIOUS
      <4>1. All(held[x][s]) \subseteq All(Source(x, s))
        BY DEF HeldInv, All, Range
      <4>2. All(Source(x, s)) \subseteq Line
        BY SMTT(30), CacheFacts, StructureFacts DEF ConversionTyped, Source, All, Range
      <4> QED BY <4>1, <4>2
    <3> QED BY <3>1 DEF Replicas
  <2>6. \A e \in Replicas(b) : e.ts \in Nat
    BY <2>5, LineFacts
  <2> HIDE DEF R, t, tt, times
  <2>7. Replicas(b)' = {} => tt = 0
    BY <2>1, <2>2, <2>3, <2>4
  <2>8. Replicas(b)' # {} => \E e \in Replicas(b)' : e.ts = tt
    <3>1. CASE tt \in times(b)
      BY <2>2, <2>4, <3>1
    <3>2. CASE tt \notin times(b)
      <4>1. tt = t
        BY <2>3, <3>2
      <4>2. CASE Replicas(b) # {}
        BY <2>1, <2>2, <4>1, <4>2
      <4>3. CASE Replicas(b) = {}
        <5>1. \A x \in times(b) : FALSE
          BY <2>1, <2>3, <2>4, <4>1, <4>3
        <5> QED BY <2>2, <2>4, <4>3, <5>1
      <4> QED BY <4>2, <4>3
    <3> QED BY <3>1, <3>2
  <2>9. \A e \in Replicas(b)' : e.ts <= tt
    BY <2>1, <2>2, <2>3, <2>4, <2>6
  <2> QED BY <2>7, <2>8, <2>9 DEF tt
<1> HIDE DEF mine, here, times, timesOf
<1>13. Sharing'
  BY <1>10, <1>12 DEF Sharing
<1>14. entries' \in [Block -> [sharers : SUBSET Nat, ts : Nat]]
  BY <1>10 DEF Registered
<1> QED BY <1>13, <1>14

LEMMA ScanCoreInv ==
  ASSUME ExportInv, NEW c \in Core, ScanCore(c)
  PROVE  ExportInv'
<1> DEFINE source == Harvard(checkpoint, c)
<1>1. stage = "caches" /\ c = scanned /\ scanned \in Core /\ SavedAs("harvard", c) = c
  BY ReadAsSaved DEF ExportInv, ConversionTyped, ScanCore
<1>2. /\ "i" \in Side /\ "d" \in Side /\ \A s \in Side : s \in {"i", "d"}
      /\ checkpoint \in Checkpoints /\ flexus \in Parameters
  BY CoreFacts DEF ExportInv, ConversionTyped
<1>3. ASSUME flexus.same, NEW s \in Side
      PROVE  /\ Fits(source[s], L1(s))
             /\ \A kept \in Resized(source[s], L1(s)) : kept = source[s]
  <2>1. HasShape(source.i, flexus.l1i) /\ HasShape(source.d, flexus.l1d)
    BY <1>2, <1>3, ExportAssumption DEF IsSame
  <2>2. HasShape(source[s], L1(s))
    BY <1>2, <2>1 DEF L1
  <2>3. IsStructure(source[s], Line)
    BY <1>2, CacheFacts
  <2>4. Geometry(L1(s))
    BY <1>2, TargetFacts DEF L1
  <2> HIDE DEF source
  <2> QED BY <2>2, <2>3, <2>4, SameResized
<1>4. CASE ~\A s \in Side : Fits(source[s], L1(s))
  <2>1. ~flexus.same
    BY <1>3, <1>4
  <2>2. Panic
    BY <1>1, <1>4 DEF ScanCore
  <2> QED BY <1>1, <2>1, <2>2, PanicInv
<1>5. CASE \A s \in Side : Fits(source[s], L1(s))
  <2>1. PICK i \in Resized(source.i, flexus.l1i), d \in Resized(source.d, flexus.l1d) :
          /\ held' = [held EXCEPT ![c] = [i |-> i, d |-> d]]
          /\ entries' = Registered(c, [i |-> i, d |-> d])
          /\ evicted' = SetAside(SetAside(evicted, All(source.i) \ All(i)), All(source.d) \ All(d))
          /\ NextCore("directory")
          /\ UNCHANGED <<fileVars, checkpoint, flexus, l2, tableVars>>
    BY <1>1, <1>5 DEF ScanCore
  <2> DEFINE kept == [i |-> i, d |-> d]
             first == SetAside(evicted, All(source.i) \ All(i))
  <2>2. kept["i"] = i /\ kept["d"] = d /\ kept = [s \in Side |-> kept[s]]
    BY DEF Side
  <2>3. Kept(c, kept)
    BY <1>2, <2>1, <2>2 DEF Kept, L1, Source
  <2>4. /\ held' = [held EXCEPT ![c] = kept] /\ entries' = Registered(c, kept)
        /\ evicted' = SetAside(first, All(source.d) \ All(kept["d"]))
        /\ first = SetAside(evicted, All(source.i) \ All(kept["i"]))
        /\ UNCHANGED <<fileVars, checkpoint, flexus, l2, table, stlb>>
    BY <2>1, <2>2 DEF tableVars
  <2>5. /\ scanned' \in Core
        /\ \/ scanned + 1 # NCores /\ scanned' = scanned + 1 /\ stage' = "caches"
           \/ scanned + 1 = NCores /\ scanned' = 0 /\ stage' = "directory"
    BY <1>1, <2>1, NextCoreFacts
  <2> HIDE DEF kept, first
  <2>6. \A x \in Core : Unscanned(x)' <=> Unscanned(x) /\ x # c
    <3> SUFFICES ASSUME NEW x \in Core PROVE Unscanned(x)' <=> Unscanned(x) /\ x # c
      OBVIOUS
    <3>1. x \in Nat /\ c \in Nat /\ x < NCores /\ NCores \in Nat
      BY CoreFacts
    <3> QED BY <1>1, <2>5, <3>1 DEF Unscanned
  <2>7. \A s \in Side : Fits(Source(c, s), L1(s))
    BY <1>5 DEF Source
  <2>8. Unscanned(c)
    <3>1. c \in Nat
      BY CoreFacts
    <3> QED BY <1>1, <3>1 DEF Unscanned
  <2>9. \A s \in Side :
          /\ DOMAIN kept[s] = 0..L1(s).sets - 1
          /\ All(kept[s]) \subseteq All(Source(c, s)) /\ All(Source(c, s)) \subseteq Line
          /\ \A k \in DOMAIN kept[s] : \A e \in kept[s][k] :
               e \in All(Source(c, s)) /\ e.block % L1(s).sets = k
          /\ \A e, f \in All(Source(c, s)) : e.block = f.block => e = f
    BY <1>2, <2>3, <2>7, KeptFacts
  <2>10. \A x \in Core, s \in Side : held'[x][s] = IF x = c THEN kept[s] ELSE held[x][s]
    BY <2>4 DEF ExportInv, ConversionTyped
  <2>11. Sharing' /\ entries' \in [Block -> [sharers : SUBSET Nat, ts : Nat]]
    BY <2>2, <2>3, <2>4, <2>7, <2>8, RegisteredSharing DEF ExportInv, CachesInv
  <2>12. HeldInv'
    <3>1. ASSUME NEW x \in Core, NEW s \in Side
          PROVE  /\ DOMAIN held'[x][s] \in {{}, 0..L1(s)'.sets - 1}
                 /\ \A k \in DOMAIN held'[x][s] : \A e \in held'[x][s][k] :
                      e \in All(Source(x, s)') /\ e.block % L1(s)'.sets = k
                 /\ Unscanned(x)' => All(held'[x][s]) = {}
      <4>1. Source(x, s)' = Source(x, s) /\ L1(s)' = L1(s)
        BY <2>4 DEF Source, L1
      <4>2. CASE x = c
        BY <2>6, <2>9, <2>10, <4>1, <4>2
      <4>3. CASE x # c
        BY <2>6, <2>10, <4>1, <4>3 DEF ExportInv, CachesInv, HeldInv
      <4> QED BY <4>2, <4>3
    <3> QED BY <3>1 DEF HeldInv
  <2> DEFINE Rest(s) == All(Source(c, s)) \ All(kept[s])
  <2>13. \A s \in Side : /\ Rest(s) \in SUBSET Line
                         /\ \A e, f \in Rest(s) : e.block = f.block => e = f
    BY <2>9
  <2>14. evicted' = SetAside(first, Rest("d")) /\ first = SetAside(evicted, Rest("i"))
    BY <2>4 DEF Source
  <2> HIDE DEF Rest
  <2>15. evicted \in [Block -> Line \cup {NoLine}]
    BY DEF ExportInv, ConversionTyped
  <2>16. /\ first \in [Block -> Line \cup {NoLine}]
         /\ \A b \in Block :
              /\ first[b] \in {evicted[b]} \cup {e \in Rest("i") : e.block = b}
              /\ evicted[b].ts <= first[b].ts
              /\ \A e \in Rest("i") : e.block = b => first[b] # NoLine /\ e.ts <= first[b].ts
    BY <1>2, <2>13, <2>14, <2>15, SetAsideFacts
  <2>17. /\ evicted' \in [Block -> Line \cup {NoLine}]
         /\ \A b \in Block :
              /\ evicted'[b] \in {first[b]} \cup {e \in Rest("d") : e.block = b}
              /\ first[b].ts <= evicted'[b].ts
              /\ \A e \in Rest("d") : e.block = b => evicted'[b] # NoLine /\ e.ts <= evicted'[b].ts
    BY <1>2, <2>13, <2>14, <2>16, SetAsideFacts
  <2>18. \A b \in Block : /\ evicted[b].ts \in Nat /\ first[b].ts \in Nat /\ evicted'[b].ts \in Nat
                          /\ evicted[b].ts # 0 <=> evicted[b] # NoLine
                          /\ first[b].ts # 0 <=> first[b] # NoLine
                          /\ evicted'[b].ts # 0 <=> evicted'[b] # NoLine
    BY <2>15, <2>16, <2>17, LineFacts
  <2>19. \A b \in Block : /\ evicted[b].ts <= evicted'[b].ts
                          /\ evicted[b] # NoLine => evicted'[b] # NoLine
                          /\ evicted'[b] \in {evicted[b]} \cup {e \in Rest("i") \cup Rest("d") : e.block = b}
                          /\ \A e \in Rest("i") \cup Rest("d") : e.block = b =>
                               evicted'[b] # NoLine /\ e.ts <= evicted'[b].ts
    <3>1. \A b \in Block : evicted[b].ts <= evicted'[b].ts /\ (evicted[b] # NoLine => evicted'[b] # NoLine)
      BY <2>16, <2>17, <2>18
    <3>2. \A b \in Block : evicted'[b] \in {evicted[b]} \cup {e \in Rest("i") \cup Rest("d") : e.block = b}
      BY <2>16, <2>17
    <3>3. \A s \in Side : \A e \in Rest(s) : e.ts \in Nat
      BY <2>13, LineFacts
    <3>4. \A b \in Block : \A e \in Rest("i") \cup Rest("d") : e.block = b =>
            evicted'[b] # NoLine /\ e.ts <= evicted'[b].ts
      BY <1>2, <2>16, <2>17, <2>18, <3>3
    <3> QED BY <3>1, <3>2, <3>4
  <2>20. EvictedInv'
    <3> SUFFICES ASSUME NEW b \in Block, evicted'[b] # NoLine
                 PROVE  /\ evicted'[b].block = b
                        /\ \A x \in Core, s \in Side : \A line \in All(Source(x, s)) :
                             line.block = b /\ line.modified => evicted'[b].modified
      BY <2>4 DEF EvictedInv, Source
    <3>1. CASE evicted'[b] = evicted[b]
      BY <3>1 DEF ExportInv, CachesInv, EvictedInv
    <3>2. CASE evicted'[b] # evicted[b]
      <4>1. PICK e \in Rest("i") \cup Rest("d") : e.block = b /\ evicted'[b] = e
        BY <2>19, <3>2
      <4>2. PICK s \in Side : e \in All(Source(c, s))
        BY <1>2, <4>1 DEF Rest
      <4>3. ASSUME NEW x \in Core, NEW t \in Side, NEW line \in All(Source(x, t)),
                   line.block = b, line.modified
            PROVE  e.modified
        <5>1. line = e
          BY <1>2, <4>1, <4>2, <4>3, OneLine DEF Source
        <5> QED BY <4>3, <5>1
      <4> QED BY <4>1, <4>3
    <3> QED BY <3>1, <3>2
  <2>21. LinesKept'
    <3>1. ASSUME NEW x \in Core, NEW s \in Side, ~Unscanned(x)', NEW line \in All(Source(x, s))
          PROVE  \/ line \in All(held'[x][s])
                 \/ evicted'[line.block] # NoLine /\ line.ts <= evicted'[line.block].ts
      <4>1. line \in Line
        BY <1>2, <3>1, SourceLines
      <4>2. line.block \in Block /\ line.ts \in Nat
        BY <4>1, LineFacts
      <4>3. CASE x = c
        <5>1. held'[x][s] = kept[s]
          BY <2>10, <4>3
        <5>2. CASE line \in Rest(s)
          BY <1>2, <2>19, <4>2, <5>2
        <5>3. CASE line \notin Rest(s)
          BY <3>1, <4>3, <5>1, <5>3 DEF Rest
        <5> QED BY <5>2, <5>3
      <4>4. CASE x # c
        <5>1. ~Unscanned(x) /\ held'[x][s] = held[x][s]
          BY <2>6, <2>10, <3>1, <4>4
        <5>2. \/ line \in All(held[x][s])
              \/ evicted[line.block] # NoLine /\ line.ts <= evicted[line.block].ts
          BY <1>1, <3>1, <5>1 DEF ExportInv, CachesInv, LinesKept
        <5> QED BY <2>18, <2>19, <4>2, <5>1, <5>2
      <4> QED BY <4>3, <4>4
    <3>2. \A x \in Core, s \in Side : Source(x, s)' = Source(x, s)
      BY <2>4 DEF Source
    <3>3. stage' \notin L2Stages
      BY <2>5 DEF L2Stages
    <3> QED BY <3>1, <3>2, <3>3 DEF LinesKept
  <2>22. Guards' /\ SharedInv'
    BY <1>1, <2>4, <2>5 DEF ExportInv, CachesInv, Guards, SharedInv, L2Stages
  <2>23. FolderInv'
    BY <1>1, <2>4, <2>5, FolderFrame DEF ExportInv
  <2>24. TablesInv'
    BY <2>4, <2>5, TablesFrame DEF ExportInv
  <2>25. ConversionTyped'
    <3>1. held' = [x \in Core |-> [s \in Side |-> held'[x][s]]]
      <4>1. held = [x \in Core |-> [s \in Side |-> held[x][s]]]
        BY DEF ExportInv, ConversionTyped
      <4>2. held' = [x \in Core |-> held'[x]]
        BY <2>4, <4>1
      <4>3. \A x \in Core : held'[x] = IF x = c THEN kept ELSE held[x]
        BY <2>4, <4>1
      <4>4. \A x \in Core : held[x] = [s \in Side |-> held[x][s]]
        BY <4>1
      <4>5. \A x \in Core : held'[x] = [s \in Side |-> held'[x][s]]
        BY <2>2, <4>3, <4>4
      <4> QED BY <4>2, <4>5
    <3>2. table' = [x \in Core |-> [t \in TableNames |-> table'[x][t]]] /\ stlb' = [x \in Core |-> stlb'[x]]
      BY <2>4 DEF ExportInv, ConversionTyped
    <3>3. checkpoint' \in Checkpoints /\ flexus' \in Parameters
      BY <1>2, <2>4
    <3>4. /\ stage' \in {"caches", "directory"}
          /\ stage' \in {"folder", "directory", "l2", "done"} => scanned' = 0
      BY <2>5
    <3> QED BY <2>5, <2>11, <2>17, <3>1, <3>2, <3>3, <3>4 DEF ConversionTyped
  <2>26. SameInv'
    <3> SUFFICES ASSUME flexus.same PROVE SameInv'
      BY <2>4 DEF SameInv
    <3>1. \A s \in Side : kept[s] = source[s]
      BY <1>3, <2>3 DEF Kept, Source
    <3>2. \A s \in Side : Rest(s) = {}
      BY <3>1 DEF Rest, Source
    <3>3. \A b \in Block : evicted'[b] = NoLine
      BY <1>2, <2>19, <3>2 DEF ExportInv, SameInv
    <3>4. kept = source
      <4>1. source = [t \in Side |-> source[t]]
        BY <1>2, CacheFacts
      <4> HIDE DEF source
      <4> QED BY <2>2, <3>1, <4>1
    <3>5. \A x \in Core : ~Unscanned(x)' => held'[x] = Harvard(checkpoint', x)
      <4> SUFFICES ASSUME NEW x \in Core, ~Unscanned(x)' PROVE held'[x] = Harvard(checkpoint', x)
        OBVIOUS
      <4>1. CASE x = c
        BY <2>4, <3>4, <4>1 DEF ExportInv, ConversionTyped
      <4>2. CASE x # c
        BY <2>4, <2>6, <4>2 DEF ExportInv, ConversionTyped, SameInv
      <4> QED BY <4>1, <4>2
    <3>6. stage' \notin L2Stages /\ stage' # "panicked"
      BY <2>5 DEF L2Stages
    <3> QED BY <3>3, <3>5, <3>6 DEF SameInv, L2Stages
  <2> QED BY <2>11, <2>12, <2>20, <2>21, <2>22, <2>23, <2>24, <2>25, <2>26 DEF ExportInv, CachesInv
<1> QED BY <1>4, <1>5

(* ---- the directory ----------------------------------------------------- *)
LEMMA AggregateFacts ==
  ASSUME ConversionTyped, HeldInv, Sharing, NEW b \in Tracked
  PROVE  /\ Aggregate(b) \in Line /\ Aggregate(b).block = b
         /\ \A e \in Replicas(b) : e.ts <= Aggregate(b).ts
         /\ \A e \in Replicas(b) : e.modified => Aggregate(b).modified
         /\ Replicas(b) # {}
         /\ \A e \in Replicas(b) : e.block = b /\ \E c \in Core, s \in Side : e \in All(Source(c, s))
<1>0. "i" \in Side /\ "d" \in Side /\ b \in Block
  BY CoreFacts DEF Tracked
<1>1. \A c \in Core, s \in Side : All(held[c][s]) \subseteq All(Source(c, s))
  BY DEF HeldInv, All, Range
<1>2. \A e \in Replicas(b) : e.block = b /\ \E c \in Core, s \in Side : e \in All(Source(c, s))
  BY <1>1 DEF Replicas
<1>3. Replicas(b) # {}
  <2>1. SharersOf(b) # {}
    BY <1>0 DEF Sharing, Tracked
  <2>2. \E c \in Core : Holds(c, "d", b) \/ Holds(c, "i", b)
    BY <2>1 DEF SharersOf
  <2>3. PICK c \in Core, s \in Side : Holds(c, s, b)
    BY <1>0, <2>2
  <2>4. PICK e \in All(held[c][s]) : e.block = b
    BY <2>3 DEF Holds
  <2>5. e \in Replicas(b)
    BY <2>4 DEF Replicas
  <2> QED BY <2>5
<1>4. \A e \in Replicas(b) : e \in Line
  BY <1>2, SourceLines DEF ConversionTyped
<1>5. \A e \in Replicas(b) : e.ts \in Nat \ {0}
  BY <1>4, LineFacts
<1> DEFINE t == entries[b].ts
           S == {0} \union {e.ts : e \in Replicas(b)}
<1>6. t \in Nat \ {0} /\ t \in S /\ \A e \in Replicas(b) : e.ts <= t
  BY <1>0, <1>3, <1>5 DEF Sharing
<1>7. S \in SUBSET Nat /\ \A x \in S : x <= t
  BY <1>5, <1>6
<1> HIDE DEF t, S
<1>8. Max(S) = t
  BY <1>6, <1>7, MaxIs
<1>9. Aggregate(b) = [block |-> b, ts |-> t, writeable |-> \E e \in Replicas(b) : e.writeable,
                      modified |-> \E e \in Replicas(b) : e.modified]
  BY <1>8 DEF Aggregate, S
<1>10. Aggregate(b) \in Line
  BY <1>0, <1>6, <1>9 DEF Line
<1> QED BY <1>2, <1>3, <1>6, <1>9, <1>10

LEMMA EvictEntryInv ==
  ASSUME ExportInv, NEW b \in Block, EvictEntry(b)
  PROVE  ExportInv'
<1>1. /\ stage = "directory" /\ b \in Tracked /\ Overfull(b % flexus.directory.sets)
      /\ evicted' = SetAside(evicted, {Aggregate(b)}) /\ held' = WithoutLines(b)
      /\ entries' = [entries EXCEPT ![b] = [sharers |-> {}, ts |-> 0]]
      /\ stage' = "directory" /\ scanned' = scanned
      /\ UNCHANGED <<fileVars, checkpoint, flexus, l2, table, stlb>>
  BY DEF EvictEntry, tableVars
<1>2. ConversionTyped /\ HeldInv /\ Sharing /\ EvictedInv
  BY DEF ExportInv, CachesInv
<1>3. checkpoint \in Checkpoints /\ flexus \in Parameters /\ evicted \in [Block -> Line \cup {NoLine}]
  BY <1>2 DEF ConversionTyped
<1>4. ~flexus.same
  BY <1>1, <1>3, ExportAssumption DEF IsSame, Overfull
<1> DEFINE line == Aggregate(b)
<1>5. /\ line \in Line /\ line.block = b
      /\ \A e \in Replicas(b) : e.ts <= line.ts
      /\ \A e \in Replicas(b) : e.modified => line.modified
      /\ Replicas(b) # {}
      /\ \A e \in Replicas(b) : e.block = b /\ \E c \in Core, s \in Side : e \in All(Source(c, s))
  BY <1>1, <1>2, AggregateFacts
<1> HIDE DEF line
<1>6. /\ evicted' \in [Block -> Line \cup {NoLine}]
      /\ \A a \in Block :
           /\ evicted'[a] \in {evicted[a]} \cup {e \in {line} : e.block = a}
           /\ evicted[a].ts <= evicted'[a].ts
           /\ \A e \in {line} : e.block = a => evicted'[a] # NoLine /\ e.ts <= evicted'[a].ts
  <2>1. {line} \in SUBSET Line /\ \A e, f \in {line} : e.block = f.block => e = f
    BY <1>5
  <2>2. evicted' = SetAside(evicted, {line})
    BY <1>1 DEF line
  <2> QED BY <1>3, <2>1, <2>2, SetAsideFacts
<1>7. /\ \A c \in Core, s \in Side : DOMAIN held'[c][s] = DOMAIN held[c][s]
      /\ \A c \in Core, s \in Side : \A k \in DOMAIN held[c][s] :
           held'[c][s][k] = {e \in held[c][s][k] : e.block # b}
      /\ held' = [c \in Core |-> [s \in Side |-> held'[c][s]]]
  BY <1>1 DEF WithoutLines
<1>8. \A c \in Core, s \in Side : All(held'[c][s]) = {e \in All(held[c][s]) : e.block # b}
  <2> SUFFICES ASSUME NEW c \in Core, NEW s \in Side
               PROVE  All(held'[c][s]) = {e \in All(held[c][s]) : e.block # b}
    OBVIOUS
  <2>1. \A e : e \in All(held'[c][s]) <=> \E k \in DOMAIN held'[c][s] : e \in held'[c][s][k]
    BY DEF All, Range
  <2>2. \A e : e \in All(held[c][s]) <=> \E k \in DOMAIN held[c][s] : e \in held[c][s][k]
    BY DEF All, Range
  <2> QED BY <1>7, <2>1, <2>2
<1>9. \A c, s : Source(c, s)' = Source(c, s) /\ L1(s)' = L1(s)
  BY <1>1 DEF Source, L1
<1>10. \A c \in Core : ~Unscanned(c) /\ ~Unscanned(c)'
  BY <1>1 DEF Unscanned
<1>11. HeldInv'
  <2>1. ASSUME NEW c \in Core, NEW s \in Side
        PROVE  /\ DOMAIN held'[c][s] \in {{}, 0..L1(s)'.sets - 1}
               /\ \A k \in DOMAIN held'[c][s] : \A e \in held'[c][s][k] :
                    e \in All(Source(c, s)') /\ e.block % L1(s)'.sets = k
    BY <1>2, <1>7, <1>9 DEF HeldInv
  <2> QED BY <1>10, <2>1 DEF HeldInv
<1>12. Sharing'
  <2> SUFFICES ASSUME NEW a \in Block
               PROVE  /\ entries'[a].sharers = SharersOf(a)'
                      /\ Replicas(a)' = {} => entries'[a].ts = 0
                      /\ Replicas(a)' # {} => \E e \in Replicas(a)' : e.ts = entries'[a].ts
                      /\ \A e \in Replicas(a)' : e.ts <= entries'[a].ts
    BY DEF Sharing
  <2>0. "i" \in Side /\ "d" \in Side
    BY CoreFacts
  <2>1. \A c \in Core, s \in Side : Holds(c, s, a)' <=> Holds(c, s, a) /\ a # b
    BY <1>8 DEF Holds
  <2>2. \A e : e \in Replicas(a)' <=> e \in Replicas(a) /\ a # b
    <3>1. \A e : e \in Replicas(a)' <=> \E c \in Core, s \in Side : e \in All(held'[c][s]) /\ e.block = a
      BY DEF Replicas
    <3>2. \A e : e \in Replicas(a) <=> \E c \in Core, s \in Side : e \in All(held[c][s]) /\ e.block = a
      BY DEF Replicas
    <3> QED BY <1>8, <3>1, <3>2
  <2>3. \A c \in Core : /\ Holds(c, "d", a)' <=> Holds(c, "d", a) /\ a # b
                        /\ Holds(c, "i", a)' <=> Holds(c, "i", a) /\ a # b
    BY <2>0, <2>1
  <2>4. CASE a = b
    <3>1. SharersOf(a)' = {}
      BY <2>3, <2>4 DEF SharersOf
    <3>2. Replicas(a)' = {}
      BY <2>2, <2>4
    <3>3. entries'[a] = [sharers |-> {}, ts |-> 0]
      BY <1>1, <1>2, <2>4 DEF ConversionTyped
    <3> QED BY <3>1, <3>2, <3>3
  <2>5. CASE a # b
    <3>1. SharersOf(a)' = SharersOf(a)
      BY <2>3, <2>5 DEF SharersOf
    <3>2. Replicas(a)' = Replicas(a)
      BY <2>2, <2>5
    <3>3. entries'[a] = entries[a]
      BY <1>1, <1>2, <2>5 DEF ConversionTyped
    <3> QED BY <1>2, <3>1, <3>2, <3>3 DEF Sharing
  <2> QED BY <2>4, <2>5
<1>13. EvictedInv'
  <2> SUFFICES ASSUME NEW a \in Block, evicted'[a] # NoLine
               PROVE  /\ evicted'[a].block = a
                      /\ \A c \in Core, s \in Side : \A x \in All(Source(c, s)) :
                           x.block = a /\ x.modified => evicted'[a].modified
    BY <1>9 DEF EvictedInv
  <2>1. CASE evicted'[a] = evicted[a]
    BY <1>2, <2>1 DEF EvictedInv
  <2>2. CASE evicted'[a] # evicted[a]
    <3>1. evicted'[a] = line /\ a = b
      BY <1>5, <1>6, <2>2
    <3>2. PICK r \in Replicas(b) : TRUE
      BY <1>5
    <3>3. PICK d \in Core, t \in Side : r \in All(Source(d, t))
      BY <1>5
    <3>4. ASSUME NEW c \in Core, NEW s \in Side, NEW x \in All(Source(c, s)), x.block = a, x.modified
          PROVE  line.modified
      <4>1. x = r
        BY <1>3, <1>5, <3>1, <3>3, <3>4, OneLine DEF Source
      <4> QED BY <1>5, <3>4, <4>1
    <3> QED BY <1>5, <3>1, <3>4
  <2> QED BY <2>1, <2>2
<1>14. LinesKept'
  <2>1. ASSUME NEW c \in Core, NEW s \in Side, NEW x \in All(Source(c, s))
        PROVE  \/ x \in All(held'[c][s])
               \/ evicted'[x.block] # NoLine /\ x.ts <= evicted'[x.block].ts
    <3>1. x \in Line
      BY <1>3, <2>1, SourceLines
    <3>2. x.block \in Block /\ x.ts \in Nat
      BY <3>1, LineFacts
    <3>3. /\ evicted[x.block].ts \in Nat /\ evicted'[x.block].ts \in Nat
          /\ evicted[x.block].ts # 0 <=> evicted[x.block] # NoLine
          /\ evicted'[x.block].ts # 0 <=> evicted'[x.block] # NoLine
      BY <1>3, <1>6, <3>2, LineFacts
    <3>4. \/ x \in All(held[c][s])
          \/ evicted[x.block] # NoLine /\ x.ts <= evicted[x.block].ts
      BY <1>1, <1>10, <2>1 DEF ExportInv, CachesInv, LinesKept
    <3>5. CASE evicted[x.block] # NoLine /\ x.ts <= evicted[x.block].ts
      BY <1>6, <3>2, <3>3, <3>5
    <3>6. CASE x \in All(held[c][s]) /\ x.block # b
      BY <1>8, <3>6
    <3>7. CASE x \in All(held[c][s]) /\ x.block = b
      <4>1. x \in Replicas(b)
        BY <3>7 DEF Replicas
      <4>2. x.ts <= line.ts /\ line.ts \in Nat
        BY <1>5, <4>1, LineFacts
      <4>3. evicted'[b] # NoLine /\ line.ts <= evicted'[b].ts
        BY <1>5, <1>6
      <4> QED BY <3>2, <3>3, <3>7, <4>2, <4>3
    <3> QED BY <3>4, <3>5, <3>6, <3>7
  <2>2. stage' \notin L2Stages
    BY <1>1 DEF L2Stages
  <2> QED BY <1>9, <2>1, <2>2 DEF LinesKept
<1>15. Guards' /\ SharedInv'
  BY <1>1 DEF ExportInv, CachesInv, Guards, SharedInv, L2Stages
<1>16. FolderInv'
  BY <1>1, FolderFrame DEF ExportInv
<1>17. TablesInv'
  BY <1>1, TablesFrame DEF ExportInv
<1>18. ConversionTyped'
  <2>1. entries' \in [Block -> [sharers : SUBSET Nat, ts : Nat]]
    BY <1>1, <1>2 DEF ConversionTyped
  <2>2. table' = [x \in Core |-> [t \in TableNames |-> table'[x][t]]] /\ stlb' = [x \in Core |-> stlb'[x]]
    BY <1>1, <1>2 DEF ConversionTyped
  <2>3. scanned' \in Core /\ scanned' = 0 /\ checkpoint' \in Checkpoints /\ flexus' \in Parameters
    BY <1>1, <1>2 DEF ConversionTyped
  <2> QED BY <1>1, <1>6, <1>7, <2>1, <2>2, <2>3 DEF ConversionTyped
<1>19. SameInv'
  BY <1>1, <1>4 DEF SameInv
<1> QED BY <1>11, <1>12, <1>13, <1>14, <1>15, <1>16, <1>17, <1>18, <1>19 DEF ExportInv, CachesInv

LEMMA FinishDirectoryInv ==
  ASSUME ExportInv, FinishDirectory
  PROVE  ExportInv'
<1>1. checkpoint \in Checkpoints /\ flexus \in Parameters /\ stage = "directory"
  BY DEF ExportInv, ConversionTyped, FinishDirectory
<1>2. CASE ~flexus.directory.infinite /\ flexus.directory.sets % flexus.slices # 0
  <2>1. ~flexus.same
    BY <1>1, <1>2, ExportAssumption DEF IsSame
  <2>2. Panic
    BY <1>2 DEF FinishDirectory
  <2> QED BY <1>1, <2>1, <2>2, PanicInv
<1>3. CASE ~(~flexus.directory.infinite /\ flexus.directory.sets % flexus.slices # 0)
  <2>1. /\ stage' = "l2" /\ scanned' = scanned /\ UNCHANGED fileVars
        /\ UNCHANGED <<checkpoint, flexus, held, entries, evicted, l2, table, stlb>>
    BY <1>3 DEF FinishDirectory, cacheVars, tableVars
  <2>2. FolderInv'
    BY <1>1, <2>1, FolderFrame DEF ExportInv
  <2>3. ConversionTyped'
    BY <1>1, <2>1 DEF ExportInv, ConversionTyped
  <2>4. \A c \in Core : ~Unscanned(c) /\ ~Unscanned(c)'
    BY <1>1, <2>1 DEF Unscanned
  <2>5. HeldInv' /\ Sharing' /\ EvictedInv'
    BY <2>1, <2>4, CachesFrame DEF ExportInv, CachesInv
  <2>6. Guards' /\ SharedInv'
    BY <1>1, <1>3, <2>1 DEF ExportInv, CachesInv, Guards, SharedInv, L2Stages
  <2>7. LinesKept'
    <3>1. \A c, s : Source(c, s)' = Source(c, s)
      BY <2>1 DEF Source
    <3> QED BY <1>1, <2>1, <2>4, <3>1 DEF ExportInv, CachesInv, LinesKept, L2Stages
  <2>8. TablesInv'
    BY <2>1, TablesFrame DEF ExportInv
  <2>9. SameInv'
    BY <1>1, <2>1, <2>4 DEF ExportInv, SameInv, L2Stages
  <2> QED BY <2>2, <2>3, <2>5, <2>6, <2>7, <2>8, <2>9 DEF ExportInv, CachesInv
<1> QED BY <1>2, <1>3

(* ---- the shared cache -------------------------------------------------- *)
AllReceived == [s \in DOMAIN l2 |-> Received(s)]

LEMMA AbsorbedFacts ==
  ASSUME evicted \in [Block -> Line \cup {NoLine}], NEW e \in Copy
  PROVE  /\ Absorbed(e) \in Copy /\ Absorbed(e).block = e.block /\ e.block \in Block
         /\ evicted[e.block].ts <= Absorbed(e).ts
         /\ e.ts < evicted[e.block].ts => Absorbed(e).modified = evicted[e.block].modified
<1> DEFINE line == evicted[e.block]
<1>1. e.block \in Block /\ e.ts \in Nat /\ e.modified \in BOOLEAN
      /\ e = [block |-> e.block, ts |-> e.ts, modified |-> e.modified]
  BY DEF Copy
<1>2. line \in Line \cup {NoLine} /\ line.ts \in Nat
  BY <1>1, LineFacts
<1>3. CASE line.ts > e.ts
  <2>1. line \in Line
    BY <1>1, <1>2, <1>3, LineFacts
  <2>2. line.modified \in BOOLEAN
    BY <2>1, LineFacts
  <2>3. Absorbed(e) = [e EXCEPT !.ts = line.ts, !.modified = line.modified]
    BY <1>3 DEF Absorbed
  <2> HIDE DEF line
  <2>4. Absorbed(e) = [block |-> e.block, ts |-> line.ts, modified |-> line.modified]
    BY <1>1, <2>3
  <2> QED BY <1>1, <1>2, <2>2, <2>4 DEF Copy, line
<1>4. CASE ~(line.ts > e.ts)
  <2>1. Absorbed(e) = e
    BY <1>4 DEF Absorbed
  <2> QED BY <1>1, <1>2, <1>4, <2>1 DEF Copy
<1> QED BY <1>3, <1>4

LEMMA ReceivedFacts ==
  ASSUME checkpoint \in Checkpoints, l2 = checkpoint.l2, evicted \in [Block -> Line \cup {NoLine}]
  PROVE  IsStructure(AllReceived, Copy) /\ BlocksInPlace(AllReceived)
<1> DEFINE N == NSets["llc"]
<1>1. /\ IsStructure(l2, Copy) /\ BlocksInPlace(l2) /\ N \in Nat \ {0}
      /\ DOMAIN l2 = 0..N - 1 /\ Cardinality(DOMAIN l2) = N
  BY SharedFacts
<1>2. \A s \in 0..N - 1 : l2[s] \in SUBSET Copy /\ IsFiniteSet(l2[s])
  BY <1>1 DEF IsStructure
<1>3. DOMAIN AllReceived = 0..N - 1 /\ \A s \in 0..N - 1 : AllReceived[s] = Received(s)
  BY <1>1 DEF AllReceived
<1>4. ASSUME NEW s \in 0..N - 1
      PROVE  /\ Received(s) \in SUBSET Copy /\ IsFiniteSet(Received(s))
             /\ \A e \in Received(s) : e.block % N = s
  <2> DEFINE old == {Absorbed(e) : e \in l2[s]}
             missing == {b \in Block : /\ evicted[b] # NoLine /\ b % Cardinality(DOMAIN l2) = s
                                       /\ \A e \in l2[s] : e.block # b}
             added(b) == [block |-> b, ts |-> evicted[b].ts, modified |-> evicted[b].modified]
             new == {added(b) : b \in missing}
  <2>1. Received(s) = old \union new
    BY DEF Received
  <2>2. old \in SUBSET Copy /\ \A e \in old : e.block % N = s
    <3>1. \A e \in l2[s] : e \in Copy /\ e.block % N = s
      BY <1>1, <1>2 DEF BlocksInPlace
    <3> QED BY <3>1, AbsorbedFacts
  <2>3. new \in SUBSET Copy /\ \A e \in new : e.block % N = s
    <3>1. \A b \in missing : evicted[b] \in Line /\ b \in Block /\ b % N = s
      BY <1>1
    <3>2. \A b \in missing : added(b) \in Copy /\ added(b).block = b
      BY <3>1, LineFacts DEF Copy
    <3> HIDE DEF missing, added
    <3> QED BY <3>1, <3>2
  <2>4. IsFiniteSet(old)
    <3> DEFINE f == [e \in l2[s] |-> Absorbed(e)]
    <3>1. f \in Surjection(l2[s], old)
      BY DEF Surjection
    <3> HIDE DEF f, old
    <3> QED BY <1>2, <3>1, FS_Surjection
  <2>5. IsFiniteSet(missing)
    <3>1. missing \in SUBSET Block /\ IsFiniteSet(Block)
      BY ExportAssumption
    <3> QED BY <3>1, FS_Subset
  <2>6. IsFiniteSet(new)
    <3> DEFINE f == [b \in missing |-> added(b)]
    <3>1. f \in Surjection(missing, new)
      BY DEF Surjection
    <3> HIDE DEF f, missing, new
    <3> QED BY <2>5, <3>1, FS_Surjection
  <2>7. IsFiniteSet(old \union new)
    BY <2>4, <2>6, FS_Union
  <2> QED BY <2>1, <2>2, <2>3, <2>7
<1>5. AllReceived \in [0..N - 1 -> SUBSET Copy]
  BY <1>1, <1>4 DEF AllReceived
<1>6. IsFiniteSet(0..N - 1) /\ Cardinality(0..N - 1) = N /\ 0..N - 1 # {}
  <2>1. 0 \in 0..N - 1 /\ N \in Nat \ {0}
    BY <1>1
  <2> HIDE DEF N
  <2> QED BY <2>1, CardinalityOfSets
<1> HIDE DEF N
<1>7. IsStructure(AllReceived, Copy)
  BY <1>3, <1>4, <1>5, <1>6 DEF IsStructure
<1>8. BlocksInPlace(AllReceived)
  BY <1>3, <1>4, <1>6 DEF BlocksInPlace
<1> QED BY <1>7, <1>8

(* What was set aside reaches the set of its block.                         *)
LEMMA ReceivedLine ==
  ASSUME checkpoint \in Checkpoints, l2 = checkpoint.l2, evicted \in [Block -> Line \cup {NoLine}],
         NEW b \in Block, evicted[b] # NoLine, evicted[b].block = b
  PROVE  \E s \in DOMAIN l2 : /\ s = b % NSets["llc"]
           /\ \E e \in Received(s) :
                /\ e.block = b /\ e \in Copy /\ evicted[b].ts <= e.ts
                /\ (\A x \in All(checkpoint.l2) : x.block = b => x.ts < evicted[b].ts) =>
                     e.modified = evicted[b].modified
<1> DEFINE N == NSets["llc"]
           s == b % N
<1>1. /\ IsStructure(l2, Copy) /\ N \in Nat \ {0}
      /\ DOMAIN l2 = 0..N - 1 /\ Cardinality(DOMAIN l2) = N
  BY SharedFacts
<1>2. b \in Nat /\ evicted[b] \in Line /\ evicted[b].ts \in Nat /\ evicted[b].modified \in BOOLEAN
  BY LineFacts, ExportAssumption
<1>3. s \in 0..N - 1
  BY <1>1, <1>2, Quotient
<1>4. CASE \E e \in l2[s] : e.block = b
  <2>1. PICK e \in l2[s] : e.block = b
    BY <1>4
  <2>2. e \in Copy /\ e \in All(checkpoint.l2)
    BY <1>1, <1>3, <2>1 DEF IsStructure, All, Range
  <2>3. Absorbed(e) \in Received(s)
    BY <2>1 DEF Received
  <2> QED BY <1>1, <1>3, <2>1, <2>2, <2>3, AbsorbedFacts
<1>5. CASE \A e \in l2[s] : e.block # b
  <2> DEFINE new == [block |-> b, ts |-> evicted[b].ts, modified |-> evicted[b].modified]
  <2>1. new \in Received(s)
    BY <1>1, <1>5 DEF Received
  <2>2. new \in Copy /\ new.block = b /\ new.ts = evicted[b].ts /\ new.modified = evicted[b].modified
    BY <1>2 DEF Copy
  <2>3. evicted[b].ts <= new.ts
    BY <1>2
  <2> HIDE DEF new
  <2> QED BY <1>1, <1>3, <2>1, <2>2, <2>3
<1> QED BY <1>4, <1>5

LEMMA ConvertL2Inv ==
  ASSUME ExportInv, ConvertL2
  PROVE  ExportInv'
<1> DEFINE g == flexus.l2
           n == g.sets
           ok == /\ Fits(AllReceived, g) /\ flexus.l2.sets % flexus.slices = 0
                 /\ flexus.noResizing => \A b \in Block : evicted[b] = NoLine
<1>1. /\ stage = "l2" /\ checkpoint \in Checkpoints /\ flexus \in Parameters
      /\ evicted \in [Block -> Line \cup {NoLine}] /\ l2 = checkpoint.l2 /\ scanned = 0
  BY DEF ExportInv, ConversionTyped, CachesInv, SharedInv, ConvertL2
<1>2. IsStructure(AllReceived, Copy) /\ BlocksInPlace(AllReceived)
  BY <1>1, ReceivedFacts
<1>3. Geometry(g) /\ n \in Nat \ {0} /\ g.ways \in Nat \ {0}
  BY <1>1, TargetFacts DEF Geometry
<1>4. ASSUME flexus.same
      PROVE  ok /\ \A kept \in Resized(AllReceived, g) : kept = checkpoint.l2
  <2>1. IsSame(checkpoint, flexus)
    BY <1>1, <1>4, ExportAssumption
  <2>2. \A b \in Block : evicted[b] = NoLine
    BY <1>4 DEF ExportInv, SameInv
  <2>3. (\A s \in DOMAIN l2 : l2[s] \subseteq Copy) /\ l2 = [t \in DOMAIN l2 |-> l2[t]]
    BY <1>1, SharedFacts DEF IsStructure
  <2>4. \A s \in DOMAIN l2 : \A e \in l2[s] : Absorbed(e) = e
    <3> SUFFICES ASSUME NEW s \in DOMAIN l2, NEW e \in l2[s] PROVE Absorbed(e) = e
      OBVIOUS
    <3>1. e.block \in Block /\ e.ts \in Nat
      BY <2>3 DEF Copy
    <3>2. evicted[e.block].ts = 0
      BY <2>2, <3>1, LineFacts
    <3> QED BY <3>1, <3>2 DEF Absorbed
  <2>5. \A s \in DOMAIN l2 : Received(s) = l2[s]
    BY <2>2, <2>4 DEF Received
  <2>6. AllReceived = l2
    BY <2>3, <2>5 DEF AllReceived
  <2>7. HasShape(AllReceived, g)
    BY <1>1, <2>1, <2>6 DEF IsSame
  <2>8. Fits(AllReceived, g) /\ \A kept \in Resized(AllReceived, g) : kept = AllReceived
    BY <1>2, <1>3, <2>7, SameResized
  <2> QED BY <1>1, <2>1, <2>2, <2>6, <2>8 DEF IsSame
<1>5. CASE ~ok
  <2>1. Panic
    BY <1>5 DEF ConvertL2, AllReceived
  <2> QED BY <1>1, <1>4, <1>5, <2>1, PanicInv
<1>6. CASE ok
  <2>1. /\ l2' \in Resized(AllReceived, g) /\ stage' = "btb"
        /\ UNCHANGED <<fileVars, checkpoint, flexus, scanned, held, entries, evicted, table, stlb>>
    BY <1>6 DEF ConvertL2, AllReceived, tableVars
  <2>2. FolderInv'
    BY <1>1, <2>1, FolderFrame DEF ExportInv
  <2>3. ConversionTyped'
    BY <1>1, <2>1 DEF ExportInv, ConversionTyped
  <2>4. \A c \in Core : ~Unscanned(c) /\ ~Unscanned(c)'
    BY <1>1, <2>1 DEF Unscanned
  <2>5. HeldInv' /\ Sharing' /\ EvictedInv'
    BY <2>1, <2>4, CachesFrame DEF ExportInv, CachesInv
  <2>6. Guards'
    BY <1>1, <2>1 DEF ExportInv, CachesInv, Guards
  <2>7. /\ DOMAIN l2' = 0..n - 1
        /\ \A s \in 0..n - 1 :
             /\ l2'[s] \subseteq Merged(AllReceived, n)[s]
             /\ \A e \in Merged(AllReceived, n)[s] \ l2'[s] :
                  Cardinality(l2'[s]) = g.ways /\ \A k \in l2'[s] : e.ts <= k.ts
    BY <1>2, <1>3, <2>1, ResizedFacts
  <2>8. Cardinality(DOMAIN AllReceived) % n = 0
    BY <1>6 DEF Fits
  <2>9. \A s \in 0..n - 1 : \A e \in Merged(AllReceived, n)[s] : e \in Copy /\ e.block % n = s
    <3> SUFFICES ASSUME NEW s \in 0..n - 1, NEW e \in Merged(AllReceived, n)[s]
                 PROVE  e \in Copy /\ e.block % n = s
      OBVIOUS
    <3>1. \A x \in Copy : x.block \in Nat
      BY ExportAssumption DEF Copy
    <3> HIDE DEF n
    <3>2. e.block % n = s
      BY <1>2, <1>3, <2>8, <3>1, LinesInPlace
    <3>3. e \in Copy
      BY <1>2, <1>3, MergedFacts
    <3> QED BY <3>2, <3>3
  <2>10. SharedInv'
    <3>1. \A s \in DOMAIN l2' : \A e \in l2'[s] : e.block \in Block /\ e.block % n = s
      <4>1. \A x \in Copy : x.block \in Block
        BY DEF Copy
      <4> HIDE DEF n
      <4> QED BY <2>7, <2>9, <4>1
    <3> QED BY <1>6, <2>1, <2>7, <3>1 DEF SharedInv, L2Stages
  <2>11. NoLineForgotten'
    <3> SUFFICES ASSUME NEW c \in Core, NEW s \in Side, NEW line \in All(Source(c, s)),
                        line \notin All(held[c][s])
                 PROVE  LET b == line.block
                            set == l2'[b % n]
                            older == \A e \in All(checkpoint.l2) : e.block = b => e.ts < line.ts
                        IN CrowdedOut(set, g.ways, line.ts)
                           \/ \E e \in set : /\ e.block = b /\ e.ts >= line.ts
                                             /\ line.modified /\ older => e.modified
      BY <2>1 DEF NoLineForgotten, Source
    <3> DEFINE b == line.block
               set == l2'[b % n]
               older == \A e \in All(checkpoint.l2) : e.block = b => e.ts < line.ts
    <3>1. line \in Line /\ b \in Block /\ b \in Nat /\ line.ts \in Nat
      BY <1>1, SourceLines, LineFacts
    <3>2. evicted[b] # NoLine /\ line.ts <= evicted[b].ts
      BY <1>1, <2>4 DEF ExportInv, CachesInv, LinesKept
    <3>3. evicted[b].block = b /\ (line.modified => evicted[b].modified)
      BY <3>1, <3>2 DEF ExportInv, CachesInv, EvictedInv
    <3>4. evicted[b] \in Line /\ evicted[b].ts \in Nat
      BY <1>1, <3>1, <3>2, LineFacts
    <3> DEFINE s0 == b % NSets["llc"]
    <3>5. s0 \in DOMAIN l2 /\ \E e \in Received(s0) :
                /\ e.block = b /\ e \in Copy /\ evicted[b].ts <= e.ts
                /\ (\A x \in All(checkpoint.l2) : x.block = b => x.ts < evicted[b].ts) =>
                     e.modified = evicted[b].modified
      <4> HIDE DEF b
      <4> QED BY <1>1, <3>1, <3>2, <3>3, ReceivedLine
    <3>6. PICK e \in Received(s0) :
                /\ e.block = b /\ e \in Copy /\ evicted[b].ts <= e.ts
                /\ (\A x \in All(checkpoint.l2) : x.block = b => x.ts < evicted[b].ts) =>
                     e.modified = evicted[b].modified
      BY <3>5
    <3>7. e \in Merged(AllReceived, n)[b % n] /\ b % n \in 0..n - 1
      <4>1. NSets["llc"] \in Nat \ {0} /\ Cardinality(DOMAIN l2) = NSets["llc"]
        BY <1>1, SharedFacts
      <4>2. DOMAIN AllReceived = DOMAIN l2 /\ AllReceived[s0] = Received(s0)
        BY <3>5 DEF AllReceived
      <4> HIDE DEF n, b
      <4>3. NSets["llc"] % n = 0
        BY <2>8, <4>1, <4>2
      <4>4. s0 % n = b % n /\ b % n \in 0..n - 1
        BY ZenonT(60), <1>3, <3>1, <4>1, <4>3, SameSetAfterMerge
      <4> HIDE DEF s0
      <4> QED BY <1>2, <1>3, <3>5, <3>6, <4>2, <4>4, MergedFacts
    <3>8. e.ts \in Nat /\ line.ts <= e.ts
      BY <3>1, <3>2, <3>4, <3>6 DEF Copy
    <3>9. older => \A x \in All(checkpoint.l2) : x.block = b => x.ts < evicted[b].ts
      <4>1. All(checkpoint.l2) \subseteq Copy
        BY <1>1, SharedFacts DEF IsStructure, All, Range
      <4>2. \A x \in All(checkpoint.l2) : x.ts \in Nat
        BY <4>1 DEF Copy
      <4> HIDE DEF b
      <4> QED BY <3>1, <3>2, <3>4, <4>2
    <3>10. CASE e \in set
      <4>1. e.ts >= line.ts
        BY <3>1, <3>8
      <4>2. line.modified /\ older => e.modified
        BY <3>3, <3>6, <3>9
      <4> HIDE DEF older, set, b
      <4>3. \E x \in set : /\ x.block = b /\ x.ts >= line.ts
                           /\ line.modified /\ older => x.modified
        BY <3>6, <3>10, <4>1, <4>2
      <4> QED BY <4>3 DEF older, set, b
    <3>11. CASE e \notin set
      <4>1. Cardinality(set) = g.ways /\ \A k \in set : e.ts <= k.ts
        BY <2>7, <3>7, <3>11
      <4>2. \A k \in set : k.ts \in Nat
        BY <2>7, <2>9, <3>7 DEF Copy
      <4> HIDE DEF set
      <4>3. \A k \in set : k.ts >= line.ts
        BY <3>1, <3>8, <4>1, <4>2
      <4>4. CrowdedOut(set, g.ways, line.ts)
        BY <4>1, <4>3 DEF CrowdedOut
      <4> QED BY <4>4 DEF set
    <3> QED BY <3>10, <3>11
  <2>12. LinesKept'
    BY <2>1, <2>11 DEF LinesKept
  <2>13. TablesInv'
    BY <2>1, TablesFrame DEF ExportInv
  <2>14. SameInv'
    <3> SUFFICES ASSUME flexus.same PROVE SameInv'
      BY <2>1 DEF SameInv
    <3>1. l2' = checkpoint.l2
      BY <1>4, <2>1
    <3>2. \A c \in Core : c \in Nat
      BY CoreFacts
    <3>3. \A c \in Core : ~(c < scanned')
      BY <1>1, <2>1, <3>2
    <3> QED BY <2>1, <2>4, <3>1, <3>3 DEF ExportInv, SameInv
  <2> QED BY <2>2, <2>3, <2>5, <2>6, <2>10, <2>12, <2>13, <2>14 DEF ExportInv, CachesInv
<1> QED BY <1>5, <1>6

(* ---- the tables -------------------------------------------------------- *)
Tagged == [tag : Tags, ts : Nat, from : {"l1", "stlb"}]

LEMMA TagFacts ==
  /\ \A e \in Entry : e.tag \in Tags /\ e.tag \in Nat /\ e.ts \in Nat
  /\ \A e \in Tagged : e.tag \in Nat /\ e.ts \in Nat
<1>1. Tags \subseteq Nat
  BY ExportAssumption
<1> QED BY <1>1 DEF Entry, Tagged

LEMMA AllFinite ==
  ASSUME NEW sets, NEW content, IsStructure(sets, content)
  PROVE  IsFiniteSet(All(sets)) /\ All(sets) \subseteq content
<1>1. PICK N \in Nat \ {0} : DOMAIN sets = 0..N - 1 /\ \A k \in 0..N - 1 : sets[k] \subseteq content /\ IsFiniteSet(sets[k])
  BY StructureFacts
<1>2. IsFiniteSet(DOMAIN sets)
  BY DEF IsStructure
<1>3. sets \in Surjection(DOMAIN sets, Range(sets))
  <2>1. sets \in [DOMAIN sets -> SUBSET content]
    BY DEF IsStructure
  <2>2. sets = [k \in DOMAIN sets |-> sets[k]]
    BY <2>1
  <2>3. sets \in [DOMAIN sets -> Range(sets)]
    BY <2>2 DEF Range
  <2>4. \A T \in Range(sets) : \E k \in DOMAIN sets : sets[k] = T
    BY DEF Range
  <2> QED BY <2>3, <2>4 DEF Surjection
<1>4. IsFiniteSet(Range(sets))
  BY <1>2, <1>3, FS_Surjection
<1>5. \A T \in Range(sets) : IsFiniteSet(T) /\ T \subseteq content
  BY <1>1 DEF Range
<1> QED BY <1>4, <1>5, FS_UNION DEF All

LEMMA KeptTags ==
  ASSUME NEW source, NEW content, IsStructure(source, content), TagsInPlace(source),
         \A e \in content : e.tag \in Nat, NEW g, Geometry(g),
         Cardinality(DOMAIN source) % g.sets = 0, NEW kept \in Resized(source, g)
  PROVE  TagsInPlace(kept)
<1> DEFINE n == g.sets
<1>1. n \in Nat \ {0}
  BY DEF Geometry
<1>2. /\ DOMAIN kept = 0..n - 1 /\ Cardinality(DOMAIN kept) = n
      /\ \A s \in 0..n - 1 : kept[s] \subseteq Merged(source, n)[s]
  BY ResizedFacts
<1>3. Cardinality(DOMAIN source) % n = 0
  OBVIOUS
<1> HIDE DEF n
<1>4. ASSUME NEW s \in 0..n - 1, NEW e \in kept[s] PROVE e.tag % n = s
  <2>1. e \in Merged(source, n)[s]
    BY <1>2, <1>4
  <2> QED BY <1>1, <1>3, <2>1, TagsInPlaceMerged
<1> QED BY <1>2, <1>4 DEF TagsInPlace

LEMMA ConvertTableInv ==
  ASSUME ExportInv, NEW name, NEW kind, NEW g, NEW next,
         \/ name = "btb" /\ kind = "fetch" /\ g = flexus.btb /\ next = "mmus"
         \/ name = "pht" /\ kind = "pht" /\ g = flexus.pht /\ next = "done",
         ConvertTable(name, kind, g, next)
  PROVE  ExportInv'
<1> DEFINE source == checkpoint.table[scanned][name]
           distinct == \A e, f \in All(source) : e.tag = f.tag => e = f
<1>1. /\ stage = name /\ stage \in {"btb", "pht"} /\ name \in TableNames /\ scanned \in Core
      /\ checkpoint \in Checkpoints /\ flexus \in Parameters
  BY DEF ExportInv, ConversionTyped, ConvertTable, TableNames
<1>2. SavedAs(kind, scanned) = scanned
  BY <1>1, ReadAsSaved DEF ExportInv
<1>3. IsStructure(source, Entry) /\ TagsInPlace(source) /\ (name = "btb" => distinct)
  BY <1>1, TableFacts
<1>4. Geometry(g)
  BY <1>1, TargetFacts
<1>5. ASSUME flexus.same
      PROVE  Fits(source, g) /\ \A t \in Resized(source, g) : t = source
  <2>1. HasShape(source, g)
    BY <1>1, <1>5, ExportAssumption DEF IsSame
  <2> HIDE DEF source
  <2> QED BY <1>3, <1>4, <2>1, SameResized
<1> HIDE DEF distinct
<1>6. CASE ~(Fits(source, g) /\ (name = "btb" => distinct))
  <2>1. ~flexus.same
    BY <1>3, <1>5, <1>6
  <2>2. Panic
    BY <1>2, <1>6 DEF ConvertTable, distinct
  <2> QED BY <1>1, <2>1, <2>2, PanicInv
<1>7. CASE Fits(source, g) /\ (name = "btb" => distinct)
  <2>1. PICK t \in Resized(source, g) :
          /\ table' = [table EXCEPT ![scanned][name] = t] /\ NextCore(next)
          /\ UNCHANGED <<fileVars, checkpoint, flexus, cacheVars, stlb>>
    BY <1>2, <1>7 DEF ConvertTable, distinct
  <2>2. /\ UNCHANGED fileVars /\ UNCHANGED <<checkpoint, flexus, held, entries, evicted, l2, stlb>>
    BY <2>1 DEF cacheVars
  <2>3. /\ scanned' \in Core
        /\ \/ scanned + 1 # NCores /\ scanned' = scanned + 1 /\ stage' = stage
           \/ scanned + 1 = NCores /\ scanned' = 0 /\ stage' = next
    BY <1>1, <2>1, NextCoreFacts
  <2>4. /\ \A c \in Core, u \in TableNames :
             table'[c][u] = IF c = scanned /\ u = name THEN t ELSE table[c][u]
        /\ table' = [c \in Core |-> [u \in TableNames |-> table'[c][u]]]
    <3>1. table = [c \in Core |-> [u \in TableNames |-> table[c][u]]]
      BY DEF ExportInv, ConversionTyped
    <3> QED BY <1>1, <2>1, <3>1
  <2>5. FolderInv'
    BY <1>1, <2>2, <2>3, FolderFrame DEF ExportInv
  <2>6. CachesInv'
    BY <1>1, <2>2, <2>3, LateFrame DEF ExportInv, L2Stages
  <2>7. ConversionTyped'
    <3>1. /\ stage' \in {"btb", "mmus", "pht", "done"}
          /\ stage' \in {"folder", "directory", "l2", "done"} => scanned' = 0
      BY <1>1, <2>3
    <3>2. held' = [c \in Core |-> [s \in Side |-> held'[c][s]]] /\ stlb' = [c \in Core |-> stlb'[c]]
      BY <2>2 DEF ExportInv, ConversionTyped
    <3>3. /\ entries' \in [Block -> [sharers : SUBSET Nat, ts : Nat]]
          /\ evicted' \in [Block -> Line \cup {NoLine}]
      BY <2>2 DEF ExportInv, ConversionTyped
    <3> QED BY <1>1, <2>2, <2>3, <2>4, <3>1, <3>2, <3>3 DEF ConversionTyped
  <2>8. TagsInPlace(t)
    <3>1. Cardinality(DOMAIN source) % g.sets = 0
      BY <1>7 DEF Fits
    <3> HIDE DEF source
    <3> QED BY <1>3, <1>4, <2>1, <3>1, TagFacts, KeptTags
  <2>9. \A c \in Core : c \in Nat /\ ~(c < 0)
    BY CoreFacts
  <2>10. TablesInv'
    <3> SUFFICES ASSUME NEW c \in Core
                 PROVE  /\ \A u \in TableNames : TagsInPlace(table'[c][u])
                        /\ TagsInPlace(stlb'[c])
                        /\ (stage' = "mmus" /\ c < scanned') \/ stage' \in {"pht", "done"} =>
                             TranslationsKept(c)'
      BY DEF TablesInv, TagsInPlace
    <3>1. \A u \in TableNames : TagsInPlace(table'[c][u])
      BY <2>4, <2>8 DEF ExportInv, TablesInv
    <3>2. TagsInPlace(stlb'[c])
      BY <2>2 DEF ExportInv, TablesInv
    <3>3. (stage' = "mmus" /\ c < scanned') \/ stage' \in {"pht", "done"} => stage = "pht"
      BY <1>1, <2>3, <2>9
    <3>4. stage = "pht" => TranslationsKept(c)
      BY DEF ExportInv, TablesInv
    <3>5. TranslationsKept(c) => TranslationsKept(c)'
      <4>1. \A u \in {"itlb", "dtlb"} : table'[c][u] = table[c][u]
        BY <1>1, <2>4 DEF TableNames
      <4> QED BY <2>2, <4>1 DEF TranslationsKept, CrowdedOut
    <3> QED BY <3>1, <3>2, <3>3, <3>4, <3>5
  <2>11. SameInv'
    <3> SUFFICES ASSUME flexus.same PROVE SameInv'
      BY <2>2 DEF SameInv
    <3>1. t = source
      BY <1>5, <2>1
    <3>2. SameInv
      BY DEF ExportInv
    <3>3. stage' # "panicked" /\ \A b \in Block : evicted'[b] = NoLine
      BY <1>1, <2>2, <2>3, <3>2 DEF SameInv
    <3>4. \A c \in Core : held'[c] = Harvard(checkpoint', c)
      BY <1>1, <2>2, <3>2 DEF SameInv, Unscanned
    <3>5. l2' = checkpoint'.l2
      BY <1>1, <2>2, <3>2 DEF SameInv, L2Stages
    <3>6. ASSUME NEW c \in Core
          PROVE  /\ (stage' = "btb" /\ c < scanned') \/ stage' \in {"mmus", "pht", "done"} =>
                      table'[c].btb = checkpoint.table[c].btb
                 /\ (stage' = "mmus" /\ c < scanned') \/ stage' \in {"pht", "done"} =>
                      /\ table'[c].itlb = checkpoint.table[c].itlb
                      /\ table'[c].dtlb = checkpoint.table[c].dtlb
                      /\ stlb'[c] = StlbOf(c)
                 /\ (stage' = "pht" /\ c < scanned') \/ stage' = "done" =>
                      table'[c].pht = checkpoint.table[c].pht
      <4>1. /\ table'[c].btb = IF c = scanned /\ name = "btb" THEN t ELSE table[c].btb
            /\ table'[c].pht = IF c = scanned /\ name = "pht" THEN t ELSE table[c].pht
            /\ table'[c].itlb = table[c].itlb /\ table'[c].dtlb = table[c].dtlb
            /\ stlb'[c] = stlb[c]
        BY <1>1, <2>2, <2>4 DEF TableNames
      <4>2. c \in Nat /\ scanned \in Nat /\ c < NCores /\ NCores \in Nat
        BY <1>1, CoreFacts
      <4>3. CASE name = "btb"
        <5>1. stage = "btb" /\ next = "mmus"
          BY <1>1, <4>3
        <5>2. stage' \in {"btb", "mmus"} /\ (stage' = "mmus" => ~(c < scanned'))
          BY <2>3, <2>9, <5>1
        <5>3. (stage' = "btb" /\ c < scanned') \/ stage' = "mmus" => c < scanned \/ c = scanned
          BY <2>3, <4>2, <5>1
        <5>4. c < scanned => table[c].btb = checkpoint.table[c].btb
          BY <3>2, <5>1 DEF SameInv
        <5> QED BY <3>1, <4>1, <4>3, <5>2, <5>3, <5>4
      <4>4. CASE name = "pht"
        <5>1. stage = "pht" /\ next = "done"
          BY <1>1, <4>4
        <5>2. stage' \in {"pht", "done"}
          BY <2>3, <5>1
        <5>3. (stage' = "pht" /\ c < scanned') \/ stage' = "done" => c < scanned \/ c = scanned
          BY <2>3, <4>2, <5>1
        <5>4. c < scanned => table[c].pht = checkpoint.table[c].pht
          BY <3>2, <5>1 DEF SameInv
        <5>5. /\ table[c].btb = checkpoint.table[c].btb
              /\ table[c].itlb = checkpoint.table[c].itlb /\ table[c].dtlb = checkpoint.table[c].dtlb
              /\ stlb[c] = StlbOf(c)
          BY <3>2, <5>1 DEF SameInv
        <5> QED BY <3>1, <4>1, <4>4, <5>2, <5>3, <5>4, <5>5
      <4> QED BY <1>1, <4>3, <4>4
    <3>7. \A c \in Core : StlbOf(c)' = StlbOf(c)
      BY <2>2 DEF StlbOf
    <3> QED BY <2>2, <3>3, <3>4, <3>5, <3>6, <3>7 DEF SameInv
  <2> QED BY <2>5, <2>6, <2>7, <2>10, <2>11 DEF ExportInv
<1> QED BY <1>6, <1>7

(* ---- the TLBs ---------------------------------------------------------- *)
(* Every tag that goes to the second level goes with some entry of it.      *)
LEMMA PassedOnFacts ==
  ASSUME NEW i, NEW d, NEW e \in i \union d
  PROVE  \E f \in PassedOn(i, d) : f.tag = e.tag
BY DEF PassedOn, Keyed

LEMMA FiledFacts ==
  ASSUME NEW base, IsStructure(base, Tagged), TagsInPlace(base), NEW passed \in SUBSET Tagged,
         IsFiniteSet(passed)
  PROVE  /\ IsStructure(Filed(base, passed), Tagged) /\ TagsInPlace(Filed(base, passed))
         /\ DOMAIN Filed(base, passed) = DOMAIN base
         /\ \A s \in DOMAIN base :
              Filed(base, passed)[s] = base[s] \union {e \in passed : e.tag % Cardinality(DOMAIN base) = s}
<1> DEFINE n == Cardinality(DOMAIN base)
           filed == Filed(base, passed)
           mine(s) == {e \in passed : e.tag % n = s}
<1>1. DOMAIN filed = DOMAIN base /\ \A s \in DOMAIN base : filed[s] = base[s] \union mine(s)
  BY DEF Filed
<1>2. \A s \in DOMAIN base : base[s] \in SUBSET Tagged /\ IsFiniteSet(base[s])
  BY DEF IsStructure
<1>3. \A s \in DOMAIN base : filed[s] \in SUBSET Tagged /\ IsFiniteSet(filed[s])
  <2> SUFFICES ASSUME NEW s \in DOMAIN base PROVE filed[s] \in SUBSET Tagged /\ IsFiniteSet(filed[s])
    OBVIOUS
  <2>1. mine(s) \in SUBSET passed
    OBVIOUS
  <2> HIDE DEF mine, filed
  <2>2. IsFiniteSet(mine(s))
    BY <2>1, FS_Subset
  <2>3. IsFiniteSet(base[s] \union mine(s))
    BY <1>2, <2>2, FS_Union
  <2> QED BY <1>1, <1>2, <2>1, <2>3
<1>4. filed \in [DOMAIN base -> SUBSET Tagged]
  BY <1>3 DEF Filed
<1>5. IsStructure(filed, Tagged)
  <2> HIDE DEF filed
  <2> QED BY <1>1, <1>3, <1>4 DEF IsStructure
<1>6. TagsInPlace(filed)
  BY <1>1 DEF TagsInPlace
<1> QED BY <1>1, <1>5, <1>6

LEMMA MergedStructure ==
  ASSUME NEW source, NEW content, IsStructure(source, content), TagsInPlace(source),
         \A e \in content : e.tag \in Nat, NEW n \in Nat \ {0},
         Cardinality(DOMAIN source) % n = 0
  PROVE  /\ IsStructure(Merged(source, n), content) /\ TagsInPlace(Merged(source, n))
         /\ DOMAIN Merged(source, n) = 0..n - 1 /\ Cardinality(0..n - 1) = n
<1> DEFINE merged == Merged(source, n)
<1>1. DOMAIN merged = 0..n - 1
  BY DEF Merged
<1>2. \A s \in 0..n - 1 : merged[s] \in SUBSET content /\ IsFiniteSet(merged[s])
  BY MergedFacts
<1>3. merged \in [0..n - 1 -> SUBSET content]
  BY <1>2 DEF Merged
<1>4. IsFiniteSet(0..n - 1) /\ Cardinality(0..n - 1) = n
  BY CardinalityOfSets
<1>5. \A s \in 0..n - 1 : \A e \in merged[s] : e.tag % n = s
  BY TagsInPlaceMerged
<1>6. 0..n - 1 # {}
  <2>1. 0 \in 0..n - 1
    OBVIOUS
  <2> QED BY <2>1
<1> HIDE DEF merged
<1>7. IsStructure(merged, content)
  BY <1>1, <1>2, <1>3, <1>4, <1>6 DEF IsStructure
<1>8. TagsInPlace(merged)
  BY <1>1, <1>4, <1>5 DEF TagsInPlace
<1> QED BY <1>1, <1>4, <1>7, <1>8 DEF merged

(* The second-level TLB as the conversion of one core reads it is in place. *)
LEMMA StlbFacts ==
  ASSUME checkpoint \in Checkpoints, NEW c \in Core
  PROVE  /\ IsStructure(StlbOf(c), Tagged) /\ TagsInPlace(StlbOf(c))
         /\ \A g : Geometry(g) /\ HasShape(checkpoint.stlb[c], g) => HasShape(StlbOf(c), g)
<1> DEFINE source == checkpoint.stlb[c]
           copy(e) == [tag |-> e.tag, ts |-> e.ts, from |-> "stlb"]
           base == StlbOf(c)
<1>1. IsStructure(source, Entry) /\ TagsInPlace(source)
  BY TableFacts
<1>2. DOMAIN base = DOMAIN source /\ \A s \in DOMAIN source : base[s] = {copy(e) : e \in source[s]}
  BY DEF StlbOf
<1>3. \A s \in DOMAIN source : source[s] \in SUBSET Entry /\ IsFiniteSet(source[s])
  BY <1>1 DEF IsStructure
<1>4. ASSUME NEW s \in DOMAIN source
      PROVE  /\ base[s] \in SUBSET Tagged /\ IsFiniteSet(base[s])
             /\ Cardinality(base[s]) <= Cardinality(source[s])
             /\ \A x \in base[s] : \E e \in source[s] : x.tag = e.tag
  <2> DEFINE f == [e \in source[s] |-> copy(e)]
  <2>1. \A e \in source[s] : copy(e) \in Tagged /\ copy(e).tag = e.tag
    BY <1>3, TagFacts DEF Tagged
  <2>2. f \in Surjection(source[s], base[s])
    BY <1>2 DEF Surjection
  <2> HIDE DEF f, base, source
  <2>3. IsFiniteSet(base[s]) /\ Cardinality(base[s]) <= Cardinality(source[s])
    BY <1>3, <1>4, <2>2, FS_Surjection
  <2> QED BY <1>2, <1>4, <2>1, <2>3
<1>5. base \in [DOMAIN source -> SUBSET Tagged]
  BY <1>4 DEF StlbOf
<1> HIDE DEF base, source
<1>6. IsStructure(base, Tagged)
  BY <1>1, <1>2, <1>4, <1>5 DEF IsStructure
<1>7. TagsInPlace(base)
  BY <1>1, <1>2, <1>4 DEF TagsInPlace
<1>8. ASSUME NEW g, Geometry(g), HasShape(source, g) PROVE HasShape(base, g)
  <2>1. \A s \in DOMAIN source : Cardinality(source[s]) <= g.ways
    BY <1>8 DEF HasShape
  <2>2. \A s \in DOMAIN source : Cardinality(source[s]) \in Nat /\ Cardinality(base[s]) \in Nat
    BY <1>3, <1>4, FS_CardinalityType
  <2>3. \A s \in DOMAIN base : Cardinality(base[s]) <= g.ways
    BY <1>2, <1>4, <1>8, <2>1, <2>2 DEF Geometry
  <2> QED BY <1>2, <1>8, <2>3 DEF HasShape
<1> QED BY <1>6, <1>7, <1>8 DEF base, source

LEMMA CopiesFacts ==
  ASSUME checkpoint \in Checkpoints, NEW c \in Core,
         NEW i \in SUBSET All(checkpoint.table[c].itlb), NEW d \in SUBSET All(checkpoint.table[c].dtlb)
  PROVE  Copies(PassedOn(i, d)) \in SUBSET Tagged /\ IsFiniteSet(Copies(PassedOn(i, d)))
<1> DEFINE S == PassedOn(i, d)
           copy(e) == [tag |-> e.tag, ts |-> e.ts, from |-> "l1"]
           f == [e \in S |-> copy(e)]
           A == All(checkpoint.table[c].itlb)
           B == All(checkpoint.table[c].dtlb)
<1>1. /\ IsStructure(checkpoint.table[c].itlb, Entry) /\ IsStructure(checkpoint.table[c].dtlb, Entry)
  BY TableFacts DEF TableNames
<1>2. IsFiniteSet(A) /\ A \subseteq Entry /\ IsFiniteSet(B) /\ B \subseteq Entry
  BY <1>1, AllFinite
<1>3. S \in SUBSET (A \union B)
  BY DEF PassedOn
<1>4. IsFiniteSet(S)
  <2> HIDE DEF A, B, S
  <2>1. IsFiniteSet(A \union B)
    BY <1>2, FS_Union
  <2> QED BY <1>3, <2>1, FS_Subset
<1>5. f \in Surjection(S, Copies(S))
  BY DEF Surjection, Copies
<1>6. \A e \in S : copy(e) \in Tagged
  BY <1>2, <1>3, TagFacts DEF Tagged
<1> HIDE DEF S, f, A, B
<1>7. IsFiniteSet(Copies(S))
  BY <1>4, <1>5, FS_Surjection
<1>8. Copies(S) \in SUBSET Tagged
  BY <1>6 DEF Copies
<1> QED BY <1>7, <1>8 DEF S

LEMMA ConvertTlbsInv ==
  ASSUME ExportInv, NEW c \in Core, ConvertTlbs(c)
  PROVE  ExportInv'
<1> DEFINE source == checkpoint.table[c]
           base == StlbOf(c)
           n == flexus.stlb.sets
           fits == /\ Fits(source.itlb, flexus.itlb) /\ Fits(source.dtlb, flexus.dtlb)
                   /\ Fits(base, flexus.stlb)
           passed(i, d) == Copies(PassedOn(Passed(source.itlb, i), Passed(source.dtlb, d)))
           filed(i, d) == Filed(Merged(base, n), passed(i, d))
<1>1. /\ stage = "mmus" /\ c = scanned /\ SavedAs("mmus", c) = c
      /\ checkpoint \in Checkpoints /\ flexus \in Parameters /\ scanned \in Core
  BY ReadAsSaved DEF ExportInv, ConversionTyped, ConvertTlbs
<1>2. /\ IsStructure(source.itlb, Entry) /\ TagsInPlace(source.itlb)
      /\ IsStructure(source.dtlb, Entry) /\ TagsInPlace(source.dtlb)
  BY <1>1, TableFacts DEF TableNames
<1>3. IsStructure(base, Tagged) /\ TagsInPlace(base)
  BY <1>1, StlbFacts
<1>4. Geometry(flexus.itlb) /\ Geometry(flexus.dtlb) /\ Geometry(flexus.stlb) /\ n \in Nat \ {0}
  BY <1>1, TargetFacts DEF Geometry
<1>5. \/ ~fits /\ Panic
      \/ /\ fits
         /\ \E i \in Resized(source.itlb, flexus.itlb), d \in Resized(source.dtlb, flexus.dtlb) :
              IF Fits(filed(i, d), flexus.stlb)
              THEN /\ table' = [table EXCEPT ![c].itlb = i, ![c].dtlb = d]
                   /\ \E t \in Resized(filed(i, d), flexus.stlb) : stlb' = [stlb EXCEPT ![c] = t]
                   /\ NextCore("pht")
                   /\ UNCHANGED <<fileVars, checkpoint, flexus, cacheVars>>
              ELSE Panic
  BY <1>1 DEF ConvertTlbs
<1>6. ASSUME fits, NEW i \in Resized(source.itlb, flexus.itlb), NEW d \in Resized(source.dtlb, flexus.dtlb)
      PROVE  /\ All(i) \subseteq All(source.itlb) /\ TagsInPlace(i)
             /\ All(d) \subseteq All(source.dtlb) /\ TagsInPlace(d)
             /\ passed(i, d) \in SUBSET Tagged
             /\ IsStructure(filed(i, d), Tagged) /\ TagsInPlace(filed(i, d))
             /\ DOMAIN filed(i, d) = 0..n - 1
             /\ \A s \in 0..n - 1 :
                  filed(i, d)[s] = Merged(base, n)[s] \union {e \in passed(i, d) : e.tag % n = s}
  <2>1. /\ Cardinality(DOMAIN source.itlb) % flexus.itlb.sets = 0
        /\ Cardinality(DOMAIN source.dtlb) % flexus.dtlb.sets = 0
        /\ Cardinality(DOMAIN base) % n = 0
    BY <1>6 DEF Fits
  <2>2. \A e \in Entry : e.tag \in Nat
    BY TagFacts
  <2>3. \A e \in Tagged : e.tag \in Nat
    BY TagFacts
  <2>4. All(i) \subseteq All(source.itlb) /\ TagsInPlace(i)
    <3> HIDE DEF source
    <3> QED BY <1>2, <1>4, <1>6, <2>1, <2>2, ResizedFacts, KeptTags
  <2>5. All(d) \subseteq All(source.dtlb) /\ TagsInPlace(d)
    <3> HIDE DEF source
    <3> QED BY <1>2, <1>4, <1>6, <2>1, <2>2, ResizedFacts, KeptTags
  <2>6. /\ Passed(source.itlb, i) \in SUBSET All(source.itlb)
        /\ Passed(source.dtlb, d) \in SUBSET All(source.dtlb)
    BY DEF Passed
  <2>7. passed(i, d) \in SUBSET Tagged /\ IsFiniteSet(passed(i, d))
    BY <1>1, <2>6, CopiesFacts
  <2>8. /\ IsStructure(Merged(base, n), Tagged) /\ TagsInPlace(Merged(base, n))
        /\ DOMAIN Merged(base, n) = 0..n - 1 /\ Cardinality(0..n - 1) = n
    <3> HIDE DEF base, n
    <3> QED BY <1>3, <1>4, <2>1, <2>3, MergedStructure
  <2>9. /\ IsStructure(filed(i, d), Tagged) /\ TagsInPlace(filed(i, d))
        /\ DOMAIN filed(i, d) = 0..n - 1
        /\ \A s \in 0..n - 1 :
             filed(i, d)[s] = Merged(base, n)[s] \union {e \in passed(i, d) : e.tag % n = s}
    <3> DEFINE m == Merged(base, n)
               p == passed(i, d)
    <3>1. filed(i, d) = Filed(m, p)
      OBVIOUS
    <3>2. IsStructure(m, Tagged) /\ TagsInPlace(m) /\ p \in SUBSET Tagged /\ IsFiniteSet(p)
      BY <2>7, <2>8
    <3>3. DOMAIN m = 0..n - 1 /\ Cardinality(DOMAIN m) = n
      BY <2>8
    <3> HIDE DEF filed, m, p, n
    <3>4. /\ IsStructure(Filed(m, p), Tagged) /\ TagsInPlace(Filed(m, p))
          /\ DOMAIN Filed(m, p) = DOMAIN m
          /\ \A s \in DOMAIN m :
               Filed(m, p)[s] = m[s] \union {e \in p : e.tag % Cardinality(DOMAIN m) = s}
      BY <3>2, FiledFacts
    <3> QED BY <3>1, <3>3, <3>4 DEF m, p
  <2> QED BY <2>4, <2>5, <2>7, <2>9
<1>7. ASSUME flexus.same
      PROVE  /\ fits
             /\ \A i \in Resized(source.itlb, flexus.itlb), d \in Resized(source.dtlb, flexus.dtlb) :
                  /\ i = source.itlb /\ d = source.dtlb /\ Fits(filed(i, d), flexus.stlb)
                  /\ \A t \in Resized(filed(i, d), flexus.stlb) : t = base
  <2>1. IsSame(checkpoint, flexus)
    BY <1>1, <1>7, ExportAssumption
  <2>2. /\ HasShape(source.itlb, flexus.itlb) /\ HasShape(source.dtlb, flexus.dtlb)
        /\ HasShape(checkpoint.stlb[c], flexus.stlb) /\ ~flexus.inclusive
    BY <2>1 DEF IsSame
  <2>3. HasShape(base, flexus.stlb)
    BY <1>1, <1>4, <2>2, StlbFacts
  <2>4. /\ Fits(source.itlb, flexus.itlb)
        /\ \A i \in Resized(source.itlb, flexus.itlb) : i = source.itlb
    <3> HIDE DEF source
    <3> QED BY <1>2, <1>4, <2>2, SameResized
  <2>5. /\ Fits(source.dtlb, flexus.dtlb)
        /\ \A d \in Resized(source.dtlb, flexus.dtlb) : d = source.dtlb
    <3> HIDE DEF source
    <3> QED BY <1>2, <1>4, <2>2, SameResized
  <2>6. Fits(base, flexus.stlb) /\ \A s \in 0..n - 1 : Merged(base, n)[s] = base[s]
    <3> HIDE DEF base
    <3> QED BY <1>3, <1>4, <2>3, SameResized
  <2>7. ASSUME NEW i \in Resized(source.itlb, flexus.itlb), NEW d \in Resized(source.dtlb, flexus.dtlb)
        PROVE  /\ i = source.itlb /\ d = source.dtlb /\ Fits(filed(i, d), flexus.stlb)
               /\ \A t \in Resized(filed(i, d), flexus.stlb) : t = base
    <3>1. i = source.itlb /\ d = source.dtlb
      BY <2>4, <2>5
    <3>2. Passed(source.itlb, i) = {} /\ Passed(source.dtlb, d) = {}
      BY <2>2, <3>1 DEF Passed
    <3>3. passed(i, d) = {}
      BY <3>2 DEF PassedOn, Copies
    <3>4. /\ IsStructure(filed(i, d), Tagged) /\ DOMAIN filed(i, d) = 0..n - 1
          /\ \A s \in 0..n - 1 :
               filed(i, d)[s] = Merged(base, n)[s] \union {e \in passed(i, d) : e.tag % n = s}
      BY <1>6, <2>4, <2>5, <2>6
    <3> HIDE DEF passed, filed
    <3>5. \A s \in 0..n - 1 : filed(i, d)[s] = base[s]
      BY <2>6, <3>3, <3>4
    <3>6. Cardinality(DOMAIN filed(i, d)) = n
      <4> HIDE DEF n
      <4> QED BY <1>4, <3>4, CardinalityOfSets
    <3>7. DOMAIN base = 0..n - 1
      <4>1. Cardinality(DOMAIN base) = n
        BY <2>3 DEF HasShape
      <4>2. DOMAIN base = 0..Cardinality(DOMAIN base) - 1
        BY <1>3 DEF IsStructure
      <4> QED BY <4>1, <4>2
    <3>8. HasShape(filed(i, d), flexus.stlb)
      BY <2>3, <3>4, <3>5, <3>6, <3>7 DEF HasShape
    <3>9. filed(i, d) = base
      <4>1. filed(i, d) = [s \in 0..n - 1 |-> filed(i, d)[s]]
        BY <3>4 DEF IsStructure
      <4>2. base = [s \in 0..n - 1 |-> base[s]]
        BY <1>3, <3>7 DEF IsStructure
      <4> HIDE DEF base
      <4> QED BY <3>5, <4>1, <4>2
    <3>10. /\ Fits(filed(i, d), flexus.stlb)
           /\ \A t \in Resized(filed(i, d), flexus.stlb) : t = filed(i, d)
      BY <1>4, <3>4, <3>8, SameResized
    <3> QED BY <3>1, <3>9, <3>10
  <2> QED BY <2>4, <2>5, <2>6, <2>7
<1> HIDE DEF filed, base
<1>8. CASE Panic
  <2> SUFFICES ASSUME flexus.same PROVE FALSE
    BY <1>1, <1>8, PanicInv
  <2>1. stage' = "panicked"
    BY <1>8 DEF Panic
  <2>2. PICK i \in Resized(source.itlb, flexus.itlb), d \in Resized(source.dtlb, flexus.dtlb) :
          Fits(filed(i, d), flexus.stlb) /\ NextCore("pht")
    BY <1>5, <1>7
  <2>3. stage' = stage \/ stage' = "pht"
    BY <1>1, <2>2, NextCoreFacts
  <2> QED BY <1>1, <2>1, <2>3
<1>9. CASE ~Panic
  <2>1. PICK i \in Resized(source.itlb, flexus.itlb), d \in Resized(source.dtlb, flexus.dtlb) :
          /\ fits /\ Fits(filed(i, d), flexus.stlb)
          /\ table' = [table EXCEPT ![c].itlb = i, ![c].dtlb = d]
          /\ \E t \in Resized(filed(i, d), flexus.stlb) : stlb' = [stlb EXCEPT ![c] = t]
          /\ NextCore("pht")
          /\ UNCHANGED <<fileVars, checkpoint, flexus, cacheVars>>
    BY <1>5, <1>9
  <2>2. PICK t \in Resized(filed(i, d), flexus.stlb) : stlb' = [stlb EXCEPT ![c] = t]
    BY <2>1
  <2>3. /\ All(i) \subseteq All(source.itlb) /\ TagsInPlace(i)
        /\ All(d) \subseteq All(source.dtlb) /\ TagsInPlace(d)
        /\ passed(i, d) \in SUBSET Tagged
        /\ IsStructure(filed(i, d), Tagged) /\ TagsInPlace(filed(i, d))
        /\ DOMAIN filed(i, d) = 0..n - 1
        /\ \A s \in 0..n - 1 :
             filed(i, d)[s] = Merged(base, n)[s] \union {e \in passed(i, d) : e.tag % n = s}
    BY <1>6, <2>1
  <2>4. UNCHANGED fileVars /\ UNCHANGED <<checkpoint, flexus, held, entries, evicted, l2>>
    BY <2>1 DEF cacheVars
  <2>5. /\ scanned' \in Core
        /\ \/ scanned + 1 # NCores /\ scanned' = scanned + 1 /\ stage' = "mmus"
           \/ scanned + 1 = NCores /\ scanned' = 0 /\ stage' = "pht"
    BY <1>1, <2>1, NextCoreFacts
  <2>6. /\ \A x \in Core, u \in TableNames :
             table'[x][u] = IF x = c /\ u = "itlb" THEN i
                            ELSE IF x = c /\ u = "dtlb" THEN d ELSE table[x][u]
        /\ table' = [x \in Core |-> [u \in TableNames |-> table'[x][u]]]
    <3>1. table = [x \in Core |-> [u \in TableNames |-> table[x][u]]]
      BY DEF ExportInv, ConversionTyped
    <3>2. "itlb" \in TableNames /\ "dtlb" \in TableNames
      BY DEF TableNames
    <3> DEFINE row == [table[c] EXCEPT !.itlb = i, !.dtlb = d]
    <3>3. table' = [table EXCEPT ![c] = row]
      BY <2>1, <3>1
    <3>4. row = [u \in TableNames |-> row[u]]
      BY <3>1, <3>2
    <3>5. \A u \in TableNames : row[u] = IF u = "itlb" THEN i ELSE IF u = "dtlb" THEN d ELSE table[c][u]
      BY <3>1, <3>2
    <3> HIDE DEF row
    <3>6. table' = [x \in Core |-> table'[x]] /\ \A x \in Core : table'[x] = IF x = c THEN row ELSE table[x]
      BY <3>1, <3>3
    <3>7. \A x \in Core : table'[x] = [u \in TableNames |-> table'[x][u]]
      BY <3>1, <3>4, <3>6
    <3> QED BY <3>5, <3>6, <3>7
  <2>7. /\ stlb' = [x \in Core |-> stlb'[x]]
        /\ \A x \in Core : stlb'[x] = IF x = c THEN t ELSE stlb[x]
    BY <2>2 DEF ExportInv, ConversionTyped
  <2>8. FolderInv'
    BY <1>1, <2>4, <2>5, FolderFrame DEF ExportInv
  <2>9. CachesInv'
    BY <1>1, <2>4, <2>5, LateFrame DEF ExportInv, L2Stages
  <2>10. ConversionTyped'
    <3>1. held' = [x \in Core |-> [s \in Side |-> held'[x][s]]]
      BY <2>4 DEF ExportInv, ConversionTyped
    <3>2. /\ entries' \in [Block -> [sharers : SUBSET Nat, ts : Nat]]
          /\ evicted' \in [Block -> Line \cup {NoLine}]
      BY <2>4 DEF ExportInv, ConversionTyped
    <3>3. stage' \in {"mmus", "pht"}
      BY <2>5
    <3> QED BY <1>1, <2>4, <2>5, <2>6, <2>7, <3>1, <3>2, <3>3 DEF ConversionTyped
  <2>11. /\ TagsInPlace(t) /\ DOMAIN t = 0..n - 1
         /\ \A s \in 0..n - 1 :
              \A e \in Merged(filed(i, d), n)[s] \ t[s] :
                Cardinality(t[s]) = flexus.stlb.ways /\ \A k \in t[s] : e.ts <= k.ts
         /\ \A s \in 0..n - 1 : t[s] \subseteq Merged(filed(i, d), n)[s]
    <3>1. Cardinality(DOMAIN filed(i, d)) % n = 0
      BY <2>1 DEF Fits
    <3>2. TagsInPlace(t)
      BY <1>4, <2>2, <2>3, <3>1, TagFacts, KeptTags
    <3> QED BY <1>4, <2>2, <2>3, <3>2, ResizedFacts
  <2>12. TranslationsKept(c)'
    <3> SUFFICES ASSUME NEW name \in {"itlb", "dtlb"}, NEW e \in All(source[name])
                 PROVE  LET set == t[e.tag % n] IN
                        \/ ~flexus.inclusive /\ e \in All(table'[c][name])
                        \/ e.tag \in Keyed(set)
                        \/ \E u \in {"itlb", "dtlb"} : \E f \in All(source[u]) :
                             f.tag = e.tag /\ CrowdedOut(set, flexus.stlb.ways, f.ts)
      BY <2>4, <2>7 DEF TranslationsKept, CrowdedOut
    <3> DEFINE p == Passed(source.itlb, i)
               q == Passed(source.dtlb, d)
               k == e.tag % n
    <3>1. table'[c].itlb = i /\ table'[c].dtlb = d
      BY <2>6 DEF TableNames
    <3>2. \A u \in {"itlb", "dtlb"} : All(source[u]) \subseteq Entry
      BY <1>2, AllFinite
    <3>3. e \in Entry /\ e.tag \in Nat
      BY <3>2, TagFacts
    <3>4. k \in 0..n - 1 /\ k % n = k
      <4>1. k \in 0..n - 1
        BY <1>4, <3>3, Quotient
      <4>2. k = n * 0 + k /\ 0 \in Int
        BY <1>4, <4>1
      <4> HIDE DEF k, n
      <4> QED BY <1>4, <4>1, <4>2, RemainderOf
    <3>5. CASE e \notin p \union q
      <4>1. ~flexus.inclusive /\ e \in All(table'[c][name])
        <5>1. CASE name = "itlb"
          BY <3>1, <3>5, <5>1 DEF Passed
        <5>2. CASE name = "dtlb"
          BY <3>1, <3>5, <5>2 DEF Passed
        <5> QED BY <5>1, <5>2
      <4> QED BY <4>1
    <3>6. CASE e \in p \union q
      <4>1. PICK f \in PassedOn(p, q) : f.tag = e.tag
        BY <3>6, PassedOnFacts
      <4>2. f \in All(source.itlb) \/ f \in All(source.dtlb)
        BY <4>1 DEF PassedOn, Passed
      <4>3. PICK u \in {"itlb", "dtlb"} : f \in All(source[u])
        BY <4>2
      <4> DEFINE copy == [tag |-> f.tag, ts |-> f.ts, from |-> "l1"]
      <4>4. copy \in passed(i, d) /\ copy.tag = e.tag /\ copy.ts = f.ts
        BY <4>1 DEF Copies
      <4>5. f.ts \in Nat
        BY <3>2, <4>3, TagFacts
      <4> HIDE DEF copy, passed, k
      <4>6. copy \in filed(i, d)[k]
        BY <2>3, <3>4, <4>4 DEF k
      <4>7. copy \in Merged(filed(i, d), n)[k]
        BY <1>4, <2>3, <3>4, <4>6, MergedFacts
      <4>8. CASE copy \in t[k]
        <5>1. e.tag \in Keyed(t[k])
          BY <4>4, <4>8 DEF Keyed
        <5> QED BY <5>1 DEF k
      <4>9. CASE copy \notin t[k]
        <5>1. Cardinality(t[k]) = flexus.stlb.ways /\ \A x \in t[k] : f.ts <= x.ts
          BY <2>11, <3>4, <4>4, <4>7, <4>9
        <5>2. \A x \in t[k] : x \in Tagged
          BY <1>4, <2>3, <2>11, <3>4, MergedFacts
        <5>3. \A x \in t[k] : x.ts >= f.ts
          BY <4>5, <5>1, <5>2, TagFacts
        <5>4. CrowdedOut(t[k], flexus.stlb.ways, f.ts)
          BY <5>1, <5>3 DEF CrowdedOut
        <5> QED BY <4>1, <4>3, <5>4 DEF k
      <4> QED BY <4>8, <4>9
    <3> QED BY <3>5, <3>6
  <2>13. \A x \in Core : x \in Nat /\ x < NCores
    BY CoreFacts
  <2>14. TablesInv'
    <3> SUFFICES ASSUME NEW x \in Core
                 PROVE  /\ \A u \in TableNames : TagsInPlace(table'[x][u])
                        /\ TagsInPlace(stlb'[x])
                        /\ (stage' = "mmus" /\ x < scanned') \/ stage' \in {"pht", "done"} =>
                             TranslationsKept(x)'
      BY DEF TablesInv, TagsInPlace
    <3>1. \A u \in TableNames : TagsInPlace(table'[x][u])
      BY <2>3, <2>6 DEF ExportInv, TablesInv
    <3>2. TagsInPlace(stlb'[x])
      BY <2>7, <2>11 DEF ExportInv, TablesInv
    <3>3. ASSUME (stage' = "mmus" /\ x < scanned') \/ stage' \in {"pht", "done"}, x # c
          PROVE  TranslationsKept(x)'
      <4>1. x < scanned
        BY <1>1, <2>5, <2>13, <3>3
      <4>2. TranslationsKept(x)
        BY <1>1, <4>1 DEF ExportInv, TablesInv
      <4>3. /\ \A u \in {"itlb", "dtlb"} : table'[x][u] = table[x][u]
            /\ stlb'[x] = stlb[x]
        BY <2>6, <2>7, <3>3 DEF TableNames
      <4> QED BY <2>4, <4>2, <4>3 DEF TranslationsKept, CrowdedOut
    <3> QED BY <2>12, <3>1, <3>2, <3>3
  <2>15. SameInv'
    <3> SUFFICES ASSUME flexus.same PROVE SameInv'
      BY <2>4 DEF SameInv
    <3>1. i = source.itlb /\ d = source.dtlb /\ t = StlbOf(c)
      BY <1>7, <2>1, <2>2 DEF base
    <3>2. SameInv
      BY DEF ExportInv
    <3>3. stage' # "panicked" /\ \A b \in Block : evicted'[b] = NoLine
      BY <1>1, <2>4, <2>5, <3>2 DEF SameInv
    <3>4. \A x \in Core : held'[x] = Harvard(checkpoint', x)
      BY <1>1, <2>4, <3>2 DEF SameInv, Unscanned
    <3>5. l2' = checkpoint'.l2
      BY <1>1, <2>4, <3>2 DEF SameInv, L2Stages
    <3>6. ASSUME NEW x \in Core
          PROVE  /\ (stage' = "btb" /\ x < scanned') \/ stage' \in {"mmus", "pht", "done"} =>
                      table'[x].btb = checkpoint.table[x].btb
                 /\ (stage' = "mmus" /\ x < scanned') \/ stage' \in {"pht", "done"} =>
                      /\ table'[x].itlb = checkpoint.table[x].itlb
                      /\ table'[x].dtlb = checkpoint.table[x].dtlb
                      /\ stlb'[x] = StlbOf(x)
                 /\ (stage' = "pht" /\ x < scanned') \/ stage' = "done" =>
                      table'[x].pht = checkpoint.table[x].pht
      <4>1. /\ table'[x].btb = table[x].btb
            /\ table'[x].itlb = IF x = c THEN i ELSE table[x].itlb
            /\ table'[x].dtlb = IF x = c THEN d ELSE table[x].dtlb
            /\ stlb'[x] = IF x = c THEN t ELSE stlb[x]
        BY <2>6, <2>7 DEF TableNames
      <4>2. table[x].btb = checkpoint.table[x].btb
        BY <1>1, <3>2 DEF SameInv
      <4>3. (stage' = "mmus" /\ x < scanned') \/ stage' = "pht" => x < scanned \/ x = c
        BY <1>1, <2>5, <2>13
      <4>4. x < scanned => /\ table[x].itlb = checkpoint.table[x].itlb
                           /\ table[x].dtlb = checkpoint.table[x].dtlb
                           /\ stlb[x] = StlbOf(x)
        BY <1>1, <3>2 DEF SameInv
      <4>5. stage' \in {"mmus", "pht"} /\ ~(stage' = "pht" /\ x < scanned')
        BY <2>5, <2>13
      <4> QED BY <3>1, <4>1, <4>2, <4>3, <4>4, <4>5
    <3>7. \A x \in Core : StlbOf(x)' = StlbOf(x)
      BY <2>4 DEF StlbOf
    <3> QED BY <2>4, <3>3, <3>4, <3>5, <3>6, <3>7 DEF SameInv
  <2> QED BY <2>8, <2>9, <2>10, <2>14, <2>15 DEF ExportInv
<1> QED BY <1>8, <1>9

-----------------------------------------------------------------------------
(* Every step keeps the invariant of the conversion.                        *)
THEOREM ConversionInvariant == Spec => []ExportInv
<1>1. Init => ExportInv
  BY ExportInitInv
<1>2. ExportInv /\ [Next]_vars => ExportInv'
  <2> SUFFICES ASSUME ExportInv, [Next]_vars PROVE ExportInv'
    OBVIOUS
  <2>1. CASE FolderStep
    BY <2>1, FolderStepInv
  <2>2. CASE StartConversion
    BY <2>2, StartConversionInv
  <2>3. ASSUME NEW c \in Core, ScanCore(c) PROVE ExportInv'
    BY <2>3, ScanCoreInv
  <2>4. ASSUME NEW c \in Core, ConvertTlbs(c) PROVE ExportInv'
    BY <2>4, ConvertTlbsInv
  <2>5. ASSUME NEW b \in Block, EvictEntry(b) PROVE ExportInv'
    BY <2>5, EvictEntryInv
  <2>6. CASE FinishDirectory
    BY <2>6, FinishDirectoryInv
  <2>7. CASE ConvertL2
    BY <2>7, ConvertL2Inv
  <2>8. CASE ConvertTable("btb", "fetch", flexus.btb, "mmus")
    BY <2>8, ConvertTableInv
  <2>9. CASE ConvertTable("pht", "pht", flexus.pht, "done")
    BY <2>9, ConvertTableInv
  <2>10. CASE Finished
    BY <2>10, FinishedInv DEF Finished
  <2>11. CASE UNCHANGED vars
    BY <2>11, FinishedInv
  <2> QED BY <2>1, <2>2, <2>3, <2>4, <2>5, <2>6, <2>7, <2>8, <2>9, <2>10, <2>11 DEF Next
<1> QED BY <1>1, <1>2, PTL DEF Spec

(* Whatever was killed, written over or left out, a load puts only state of *)
(* the right unit and of no later time in its place, and a complete save is *)
(* loaded completely.                                                       *)
THEOREM SavedLoaded == Spec => []SavedIsLoaded
<1>1. ExportInv => SavedIsLoaded
  <2> SUFFICES ASSUME ExportInv PROVE SavedIsLoaded
    OBVIOUS
  <2>1. CASE stage = "folder"
    BY <2>1, FilesInvSaved DEF ExportInv, FolderInv
  <2>2. CASE stage # "folder"
    <3>1. activity = "running"
      BY <2>2 DEF ExportInv, FolderInv
    <3> QED BY <3>1 DEF SavedIsLoaded
  <2> QED BY <2>1, <2>2
<1> QED BY <1>1, ConversionInvariant, PTL

(* The exported directory is the one of the exported caches, and its slices *)
(* agree with those of the shared cache.                                    *)
THEOREM DirectoryMatches == Spec => []DirectoryMatchesCaches
<1>1. ExportInv => DirectoryMatchesCaches
  <2> SUFFICES ASSUME ExportInv, stage \notin {"folder", "caches", "directory", "panicked"},
                      NEW b \in Block
               PROVE  /\ entries[b].sharers = SharersOf(b)
                      /\ Replicas(b) # {} => entries[b].ts = Max({e.ts : e \in Replicas(b)})
                      /\ stage # "l2" => \A j, k \in 0..flexus.slices - 1 :
                           b \in DirectorySlice(j) /\ (\E e \in All(L2Slice(k)) : e.block = b) => j = k
    BY DEF DirectoryMatchesCaches, SharersOf
  <2>1. /\ stage \in L2Stages \union {"l2"} /\ ConversionTyped /\ HeldInv /\ Sharing
        /\ flexus \in Parameters /\ checkpoint \in Checkpoints
    BY DEF ExportInv, CachesInv, ConversionTyped, L2Stages
  <2>2. entries[b].sharers = SharersOf(b)
    BY <2>1 DEF Sharing
  <2>3. ASSUME Replicas(b) # {} PROVE entries[b].ts = Max({e.ts : e \in Replicas(b)})
    <3> DEFINE S == {e.ts : e \in Replicas(b)}
    <3>1. \A e \in Replicas(b) : e \in Line
      <4>1. \A x \in Core, s \in Side : All(held[x][s]) \subseteq All(Source(x, s))
        BY <2>1 DEF HeldInv, All, Range
      <4>2. \A x \in Core, s \in Side : All(held[x][s]) \subseteq Line
        BY <2>1, <4>1, SourceLines
      <4> QED BY <4>2 DEF Replicas
    <3>2. S \in SUBSET Nat
      BY <3>1, LineFacts
    <3>3. entries[b].ts \in S /\ \A x \in S : x <= entries[b].ts
      BY <2>1, <2>3 DEF Sharing
    <3> QED BY <3>2, <3>3, MaxIs
  <2>4. ASSUME stage # "l2", NEW j \in 0..flexus.slices - 1, NEW k \in 0..flexus.slices - 1,
               b \in DirectorySlice(j), NEW e \in All(L2Slice(k)), e.block = b
        PROVE  j = k
    <3> DEFINE m == flexus.slices
               n == flexus.l2.sets
               D == flexus.directory.sets
    <3>1. m \in Nat \ {0} /\ n \in Nat \ {0} /\ D \in Nat \ {0} /\ b \in Nat
      BY <2>1, TargetFacts, ExportAssumption DEF Geometry
    <3>2. j = b % m
      <4>1. CASE flexus.directory.infinite
        BY <2>4, <4>1 DEF DirectorySlice
      <4>2. CASE ~flexus.directory.infinite
        <5>1. D % m = 0
          BY <2>1, <4>2 DEF ExportInv, CachesInv, Guards
        <5>2. PICK s \in 0..D - 1 : s % m = j /\ b % D = s
          BY <2>4, <4>2 DEF DirectorySlice, Peers
        <5> HIDE DEF m, D
        <5> QED BY <3>1, <5>1, <5>2, ModMod
      <4> QED BY <4>1, <4>2
    <3>3. /\ n % m = 0 /\ DOMAIN l2 = 0..n - 1
          /\ \A s \in 0..n - 1 : \A x \in l2[s] : x.block % n = s
      BY <2>1, <2>4 DEF ExportInv, CachesInv, SharedInv
    <3> DEFINE ratio == n \div m
    <3>4. n = m * ratio /\ ratio \in Nat
      <4> HIDE DEF n, m
      <4>1. n = m * (n \div m) + (n % m) /\ n \div m \in Nat
        BY <3>1, Divided
      <4> QED BY <3>1, <3>3, <4>1 DEF ratio
    <3>5. PICK i \in 0..ratio - 1 : e \in l2[i * m + k]
      BY <2>4 DEF L2Slice, All, Range
    <3> HIDE DEF ratio, m, n
    <3>6. i * m + k \in 0..n - 1 /\ k \in Nat /\ k < m
      <4>1. i \in Nat /\ i + 1 <= ratio /\ k \in Nat /\ k < m
        BY <2>4, <3>1, <3>4, <3>5 DEF m
      <4>2. PICK r \in Nat : ratio = i + 1 + r
        <5>1. ratio - (i + 1) \in Nat
          BY <3>4, <4>1
        <5> QED BY <3>4, <4>1, <5>1
      <4>3. m * ratio = m * i + m + m * r /\ m * r \in Nat /\ m * i \in Nat /\ i * m = m * i
        BY <3>1, <4>1, <4>2
      <4> QED BY <3>1, <3>4, <4>1, <4>3
    <3>7. b % n = i * m + k
      BY <2>4, <3>3, <3>5, <3>6
    <3>8. (b % n) % m = b % m
      BY <3>1, <3>3, ModMod
    <3>9. (i * m + k) % m = k
      <4>1. i * m + k = m * i + k /\ i \in Int /\ k \in 0..m - 1
        BY <3>1, <3>4, <3>5, <3>6
      <4> QED BY <3>1, <4>1, RemainderOf
    <3> QED BY <3>2, <3>7, <3>8, <3>9
  <2> QED BY <2>2, <2>3, <2>4
<1> QED BY <1>1, ConversionInvariant, PTL

(* What a conversion drops from a first level is in the next one, unless    *)
(* that is full of what is at least as young, and every entry lies in the   *)
(* set its number selects.                                                  *)
THEOREM NothingIsForgotten == Spec => []NothingForgotten
<1>1. ExportInv => NothingForgotten
  <2> SUFFICES ASSUME ExportInv, stage = "done"
               PROVE  PlacedByNumber /\ NoLineForgotten /\ NoTranslationForgotten
    BY DEF NothingForgotten
  <2>1. checkpoint \in Checkpoints /\ flexus \in Parameters /\ flexus.l2.sets \in Nat \ {0}
    BY TargetFacts DEF ExportInv, ConversionTyped, Geometry
  <2>2. NoLineForgotten /\ NoTranslationForgotten
    BY DEF ExportInv, CachesInv, LinesKept, L2Stages, TablesInv, NoTranslationForgotten
  <2>3. BlocksInPlace(l2)
    <3>1. /\ DOMAIN l2 = 0..flexus.l2.sets - 1
          /\ \A s \in DOMAIN l2 : \A e \in l2[s] : e.block % flexus.l2.sets = s
      BY DEF ExportInv, CachesInv, SharedInv, L2Stages
    <3>2. Cardinality(DOMAIN l2) = flexus.l2.sets
      BY <2>1, <3>1, CardinalityOfSets
    <3> QED BY <3>1, <3>2 DEF BlocksInPlace
  <2>4. ASSUME NEW c \in Core, NEW s \in Side PROVE BlocksInPlace(held[c][s])
    <3> DEFINE n == L1(s).sets
               sets == held[c][s]
    <3>1. /\ DOMAIN sets \in {{}, 0..n - 1}
          /\ \A k \in DOMAIN sets : \A e \in sets[k] : e.block % n = k
      BY DEF ExportInv, CachesInv, HeldInv
    <3>2. n \in Nat \ {0}
      BY <2>1, TargetFacts DEF L1, Geometry
    <3> HIDE DEF n, sets
    <3>3. CASE DOMAIN sets = {}
      BY <3>3 DEF BlocksInPlace, sets
    <3>4. CASE DOMAIN sets = 0..n - 1
      <4>1. Cardinality(DOMAIN sets) = n
        BY <3>2, <3>4, CardinalityOfSets
      <4>2. BlocksInPlace(sets)
        BY <3>1, <4>1 DEF BlocksInPlace
      <4> QED BY <4>2 DEF sets
    <3> QED BY <3>1, <3>3, <3>4
  <2>5. \A c \in Core : TagsInPlace(stlb[c]) /\ \A t \in TableNames : TagsInPlace(table[c][t])
    BY DEF ExportInv, TablesInv
  <2> QED BY <2>2, <2>3, <2>4, <2>5 DEF PlacedByNumber
<1> QED BY <1>1, ConversionInvariant, PTL

(* A checkpoint converted to its own geometry without resizing comes out as *)
(* it went in, the second-level TLBs included, with the directory its       *)
(* caches give, and no assertion fails on the way.                          *)
THEOREM SameIsUnchanged == Spec => []UnresizedUnchanged
<1>1. ExportInv => UnresizedUnchanged
  <2> SUFFICES ASSUME ExportInv, flexus.same
               PROVE  /\ stage # "panicked"
                      /\ stage = "done" =>
                           /\ \A c \in Core : /\ held[c] = Harvard(checkpoint, c)
                                              /\ table[c] = checkpoint.table[c] /\ stlb[c] = StlbOf(c)
                           /\ l2 = checkpoint.l2 /\ \A b \in Block : entries[b] = SavedEntry(b)
    BY DEF UnresizedUnchanged
  <2>1. SameInv /\ checkpoint \in Checkpoints
    BY DEF ExportInv, ConversionTyped
  <2>2. stage # "panicked"
    BY <2>1 DEF SameInv
  <2>3. ASSUME stage = "done", NEW c \in Core
        PROVE  /\ held[c] = Harvard(checkpoint, c)
               /\ table[c] = checkpoint.table[c] /\ stlb[c] = StlbOf(c)
    <3>1. held[c] = Harvard(checkpoint, c)
      BY <2>1, <2>3 DEF SameInv, Unscanned
    <3>2. /\ table[c].btb = checkpoint.table[c].btb /\ table[c].pht = checkpoint.table[c].pht
          /\ table[c].itlb = checkpoint.table[c].itlb /\ table[c].dtlb = checkpoint.table[c].dtlb
          /\ stlb[c] = StlbOf(c)
      BY <2>1, <2>3 DEF SameInv
    <3>3. \A u \in TableNames : table[c][u] = checkpoint.table[c][u]
      BY <3>2 DEF TableNames
    <3>4. checkpoint.table[c] = [t \in TableNames |-> checkpoint.table[c][t]]
      BY <2>1, TableFacts
    <3>5. table[c] = [t \in TableNames |-> table[c][t]]
      BY DEF ExportInv, ConversionTyped
    <3> QED BY <3>1, <3>2, <3>3, <3>4, <3>5
  <2>4. stage = "done" => l2 = checkpoint.l2
    BY <2>1 DEF SameInv, L2Stages
  <2>5. ASSUME stage = "done", NEW b \in Block PROVE entries[b] = SavedEntry(b)
    <3> DEFINE S == {e.ts : e \in Replicas(b)}
    <3>1. Sharing /\ entries[b] = [sharers |-> entries[b].sharers, ts |-> entries[b].ts]
      BY DEF ExportInv, CachesInv, ConversionTyped
    <3>2. \A c \in Core, s \in Side : \A e :
            e \in SavedLines(c, s, b) <=> e \in All(held[c][s]) /\ e.block = b
      BY <2>3, <2>5 DEF SavedLines
    <3>3. \A c \in Core, s \in Side : SavedLines(c, s, b) # {} <=> Holds(c, s, b)
      BY <3>2 DEF Holds
    <3>4. UNION {SavedLines(c, s, b) : c \in Core, s \in Side} = Replicas(b)
      BY <3>2 DEF Replicas
    <3>5. SavedEntry(b) = [sharers |-> SharersOf(b), ts |-> Max({0} \union S)]
      <4> DEFINE D == {c \in Core : SavedLines(c, "d", b) # {}}
                 I == {c \in Core : SavedLines(c, "i", b) # {}}
                 R == UNION {SavedLines(c, s, b) : c \in Core, s \in Side}
                 HoldD == {c \in Core : Holds(c, "d", b)}
                 HoldI == {c \in Core : Holds(c, "i", b)}
                 both(d, i) == {2 * c : c \in d} \union {2 * c + 1 : c \in i}
                 times(r) == {e.ts : e \in r}
      <4>1. D = HoldD /\ I = HoldI
        BY <3>3 DEF Side
      <4>2. SavedEntry(b) = [sharers |-> both(D, I), ts |-> Max({0} \union times(R))]
        BY DEF SavedEntry
      <4>3. SharersOf(b) = both(HoldD, HoldI)
        BY DEF SharersOf
      <4>4. S = times(Replicas(b)) /\ R = Replicas(b)
        BY <3>4
      <4> HIDE DEF D, I, R, HoldD, HoldI, both, times, S
      <4> QED BY <4>1, <4>2, <4>3, <4>4
    <3>6. S \in SUBSET Nat
      <4>1. \A c \in Core, s \in Side : All(held[c][s]) \subseteq Line
        BY <2>1, <2>3, <2>5, SourceLines DEF Source
      <4> QED BY <4>1, LineFacts DEF Replicas
    <3>7. entries[b].ts \in {0} \union S /\ \A x \in {0} \union S : x <= entries[b].ts
      BY <3>1, <3>6 DEF Sharing, ExportInv, ConversionTyped
    <3>8. {0} \union S \in SUBSET Nat
      BY <3>6
    <3> HIDE DEF S
    <3>9. Max({0} \union S) = entries[b].ts
      BY <3>7, <3>8, MaxIs
    <3> QED BY <3>1, <3>5, <3>9 DEF Sharing
  <2> QED BY <2>2, <2>3, <2>4, <2>5
<1> QED BY <1>1, ConversionInvariant, PTL
=============================================================================
