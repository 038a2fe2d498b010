# WormCache in TLA+

WormCache is a QEMU plugin that warms the micro-architectural state of a
many-core machine (caches, directory, TLBs, branch predictors) while the guest
runs, and writes it out as checkpoints. Every virtual CPU is a QEMU thread that
calls into the plugin; the threads share the cache hierarchy, the checkpoint
machinery and the analysis tools. This directory holds a TLA+ model of that
program, the TLC configurations that check it, and machine-checked proofs.

Paths below are relative to the crate's `src/`; `ch/` stands for
`components/cache_hierarchy/`.

## 1. Inventory

| Component | State | Operations | Interacts through |
|---|---|---|---|
| Coherence protocol, `ch/parallel_hierarchy/hierarchy/access_logic.rs`, `hierarchy.rs` | none of its own; locals of an access between critical sections | `access_memory_pblock_id`, `handle_eviction` | locks of the directory sets, then of private sets, then of shared-cache sets |
| Private caches, `ch/common/private_cache/` | per set: lines (block, valid, writeable, modified, ts), `recent_invalid_slot_index`, `touched_count` | `poke_and_update`, `fill_with_potential_eviction_slot`, `invalidate`, `request_sharer` | own thread pokes; other threads invalidate and downgrade |
| Directory, `ch/common/directory*` | per set: entries (sharers, shared, lru_ts) | `fetch_one_entry`, `fetch_two_entries`, `get_or_create`, `run_gc` | held for a whole miss |
| Shared cache, `ch/common/shared_cache/` | per set: blocks (ts, modified), `recent_evict_ts`, `touched_count` | `lookup`, `insert`, `lookup_and_insert`, `invalidate` | leaf lock under the directory lock |
| MMU, `ch/mmu/` | TLB entries, page-walk cache | translate, flush by VPN, ASID, all | per core; page walks become cache accesses |
| SMS prefetcher, `ch/common/sms/` | filter, accumulation and pattern tables | record, evict, predict | per core locks taken under directory and private-set locks |
| Modes, `mode/`, `timestamp.rs` | instruction counts, snapshot request slot, checkpoint counter | quantum callbacks, serve snapshot, quit | every vCPU thread and QEMU's event loop |
| Causality detector, `components/causality` | last writer and readers of a block | load, store | every vCPU thread |
| Communication recorder, `components/communication` | last write and readers of each line, intervals, idle and spin state of each core | load, store, fetch, CAS, WFE, WFI, interrupt, dump | every vCPU thread; lines in locked shards |
| Branch predictors, `components/bp` | BTB, return stack, TAGE tables and histories | train | per core |
| Checkpoints, `checkpoint/`, `bin/checkpoint_conversion.rs`, the `_worker` and `_shard` functions | files of a folder; the machine's state in another geometry | save, load, resize, export | a pool of workers over slices of cores and sets |
| Single-threaded hierarchy, `ch/single_cache_hierarchy` | as the parallel one | as the parallel one | one thread; not modelled but for its calls of the shared cache |
| Statistics, histories, small recorders, tools, QEMU binding | counters, files | | not modelled |

What is hard here:

* an access is a sequence of critical sections. It pokes its private set,
  releases it, takes one or two directory sets, and then private sets again; what
  it learnt at the poke (the slot, the victim, that it lacked permission) may be
  out of date when it fills;
* sharer bits and lines are updated in different critical sections, and the code
  asserts their agreement in many places;
* several locks are taken at once;
* directory entries, lines and shared-cache blocks are evicted for reasons that
  have nothing to do with the block being accessed;
* the checkpoints and the analysis tools read and clear state other threads use.

What makes each part correct: one writer per block and no assertion failing
(coherence protocol); a set never holds more blocks than ways and never loses a
slot (caches); inclusion and exactness of sharers (directory); one owner of dirty
data (shared cache); translations equal to the page table's after any flush (MMU);
every pattern learnt belongs to one generation of a region (SMS); one checkpoint
per request with increasing names (modes); every transfer of a line charged once
(communication recorder); history registers that are the history, folded (TAGE);
state that returns to the core and set it came from, and files that agree with
each other (checkpoints).

`PROJECT.json` lists the hazards by line, with the properties that cover them.

## 2. Plan

Done: the coherence protocol, the warm mode, the shared set, both MMUs, the SMS
prefetcher, the causality detector, the communication recorder with its decoder, the
files of a checkpoint and their conversion, and the branch predictors, all with
proofs. Left, in this order:

1. The private set at the level of slots and timestamps (`set_and_line.rs` of the
   private caches): `recent_invalid_slot_index` and the late accesses, implementing
   an abstract set as `LRUSharedCache` does.
2. The access front end (L0 filter, page walks that become accesses), which
   composes the MMU and the hierarchy.
3. The single-threaded hierarchy against `AtomicCoherence`.

## 3. The modules

### ParallelHierarchy

The coherence protocol over private caches, directory and shared cache. One
action is one critical section, and threads interleave between them.

| Action | Code |
|---|---|
| `PokeHit`, `PokePermissionViolation`, `PokeMiss` | `poke_and_update` under the private set lock |
| `LockDirectorySet` | one lock of `fetch_one_entry` / `fetch_two_entries`, in index order |
| `FindEntry`, `CreateEntry`, `CreateEntryEvicting` | `get_or_create`, and what the access does with an evicted entry |
| `LlcMiss`, `LlcHit`, `LlcLate` | the shared cache lookup of a block without sharers, and the permission that goes into the directory |
| `FillPrivate` | the fill after it, a critical section of its own |
| `JoinSharers` | the fast path of a read of a shared block (its fill is `FillPrivate`) |
| `InvalidateSharers`, `DowngradeWriter` | the slow paths, which hold the set locks of all sharers |
| `HandleEviction` | `handle_eviction` of a replaced line |
| `CollectGarbage` | `run_gc` of one set, which a checkpoint calls |

Correspondence and abstractions:

* A line is `I`, `S`, `E` or `M`: the valid, writeable and modified bits. Slots
  are not named; the poke's answer `Invalid`, `Valid` or `Same` is, with the
  victim, and `recent` says in which sets `recent_invalid_slot_index` is set.
* Timestamps decide who is oldest and whether a lookup is late. Both are
  nondeterministic, so every order of timestamps is covered. The assertions that
  compare timestamps are not part of this module.
* Private-set and shared-cache locks protect single actions, so they are not
  variables; while an access works on a block, the directory lock keeps every
  other miss on that block out. That is checked, not assumed: the only exclusion
  in the model is `dirLock`.
* The instruction and the data cache of a core are two caches with the same
  number of sets and ways, as in `parameter.rs`. A unified cache is the instance
  in which they coincide.
* Prefetches are accesses like others (the code differs only in statistics);
  `SMS` bookkeeping is left out.
* `assert!`, `panic!` and `unwrap` of the path are the argument of `Asserting`;
  `NoPanic` says none fails.

`ParallelHierarchyInvariant` adds the inductive invariant and the refinement;
`MCParallelHierarchy` the instances; `AtomicCoherence` is the abstract
specification: each access and each lost directory entry is one atomic step on
the lines, whose guards are those of MESI.

### PeriodicSnapshot

The warm mode, `mode/warm.rs`, with `savevm_cb` and `loadvm_cb` of `lib.rs`. The
vCPU thread that runs the quantum callback (`QuantumCheck`, `RequestRefused`,
`RequestSnapshot`, or `SerializePlugins` with `no_qemu_snapshot`) and QEMU's event
loop (`ServeRequest`, `SaveVM`, `CountSnapshot`) share the request slot. The name
is a local of the callback, built before the lock is tried; the event loop holds
the lock from taking the request to counting the snapshot. `SaveVM` is the part of
QEMU the code relies on: it writes and resumes the vCPUs. `LoadVM` is the start
from a snapshot, with the detection of its format from the files on disk.
The value of the cycle counter is kept relative to the threshold; how far it runs
ahead is capped by `MaxAhead`.

### Tlb, OrdinaryMMU, FullyAssociativeMMU, MMU

`Tlb` is `mmu/tlb.rs` as operators on values: sets of ways with timestamps, the
fill pointer that prefers ways never used, and the flush loops with their early
breaks. `OrdinaryMMU` and `FullyAssociativeMMU` are the two MMUs of one core
(their translations and flushes run on that core's thread), each under a guest
that changes a mapping and performs the TLB maintenance before it uses the
mapping again. Such a change and its flush are one action, since the architecture
promises nothing between the two. A huge page covers several page numbers
(`RegionOf`); address arithmetic within a page is left out. The page walk
(`arch/aarch64.rs`) is the mapping in force; its memory accesses are not modelled.
The first level of `FullyAssociativeMMU` piles insertions up and replaces late
(`RunLru`); the history variable `eager` holds the keys that an immediate LRU
replacement would keep, each with the time of its last use.
`MMU` composes them: a build has one of the two (`build`), under the same running
process and clock. It extends the ordinary MMU and takes the other as the instance
`Associative`; `BuildSpec` lets what belongs to the MMU that is absent take any value.
`MCMMU` fixes those values, to check both in one run.
`NoDuplicates` allows one doubling the code has: a page of the kernel may be in a
first-level set twice, once as global and once under the address space of a process
(`ordinary_mmu.rs:195`); both say the same.

### SmsPrefetcher

The filter, accumulation and pattern tables, the set of pending prefetches and its
counters, per core. A thread is in an access (`StartAccess`, or `StartWalk` for a
page walk, after which nothing is recorded), in the prefetches that follow it
(`LookupPattern`, `Prefetch`, `CountPrefetches`), or recording the access
(`PokeAcc`, `PokeFilter`, `Promote`, `LearnEvicted`). During an access it may take
lines from any core, which ends generations in that core's tables (`StartEvict`,
`EvictFilter`, `EvictAcc`, `EvictLearn`). Each action is one critical section of
`pf_blocks`/`pf_stats` or of one table. Which lines are lost is free: the caches are
not part of this module, so every choice they could make is covered. The oldest
entry of a full table is any entry. The pattern table is one set.

### CausalityDetector

The memory part of `components/causality`. `ReadTime` is the read of the target
time outside the lock, `Process` the critical section of the shard
(`process_read`, `process_write`), `ClearShard` one step of `clear_all`. The target
times belong to the emulator; all the model assumes is that a core's never goes
back. `log` is a history variable: what arrived at a line since it was cleared.

### CommunicationRecorder, Aarch64Decoder

`components/communication`. A thread reads the quantum count (`MemAccess`,
`FetchInsn`, `CompareAndSwap`), then takes the lock of the line's shard
(`Record`, and `RecordWalk` for each entry a page walk reads); other threads and
the dump move in between. `Wfe`, `Wfi` and `Interrupt` are the callbacks of idle
cores, `StartDump`, `DumpShard` and `Exit` the periodic check that ends the run.
`log` (the accesses to each line) and `coreLog` (the CASes, the WFEs, and the WFIs and
interrupts of each core) are history variables, and the properties say what should have
been charged from them. `toDump` holds the shards the dump has not locked yet, all of
them until it starts, so an access is logged with the side of the dump it fell on. `Aarch64Decoder` is the bit patterns `on_translation`
decides by; a guest's instruction is any word of its encodings, so a pattern that
mistakes one for another shows in `CommunicationFaithful`.

Merged steps: reading the time and counting an access, which only its own thread
looks at. The counters of a core are dumped as they stand, without torn reads. The
line of a fetch is the same virtually and physically. A WFI in the first quantum
fails an assertion (`WfiTooEarly`), which ends the process.

Where decoder and comments part without a run about it: `is_atomic` also accepts
`LDAR`/`STLR`; a `CASP` is taken for a load-exclusive and not for a CAS although
`aarch64_decoder.rs:88` lists it; store-exclusive and 64-byte forms are documented
as atomic and commented out in the code.

### CacheSet, LRUSharedCache

`CacheSet` is what a shared set promises the protocol: a block leaves only when it
is taken or when the set is full, and dirtiness is remembered. `LRUSharedCache` is
the slots: the fill pointer `touched`, the two ways to choose a slot (`Oldest` of
`insert`, `Victim` of `lookup_and_insert`), late accesses, the counter of warm
sets, which a thread increases after it has released the set (`counting`), and the
checkpoint by shards (`Save`, `Load`). A call is one action (`Call`), since it holds
the set's lock throughout (`Section`). Only `invalidate`, which a store on the slow
path calls (`access_logic.rs:845`), takes that lock twice (`lru_shared_cache.rs:108`,
`109`): `InvalidateFirst` removes the block and drops what it found, `InvalidateAgain`
does the same again, perhaps on a block that another thread has inserted in between,
and returns what it finds. `invalidating` holds the stores between the two. Threads
differ only in the times they bring. `recent_evict_ts`, `last_accessor` and the access
counts are left out, as is `peek`, which only reads: its callers count network hops.

### CheckpointFiles, CheckpointExport

`CheckpointFiles` is the folder of a checkpoint. `savevm_cb` writes the time and
then, plugin by plugin, lets a pool of workers each write its slice of the cores and
sets (`WriteFile`, which first creates a file and then fills it); a later save under
the same name overwrites. `Restart` is a kill at any point followed by `loadvm_cb`,
which reads the slices one by one; a truncated file is a panic, a missing one leaves
its slice cold. The content of a slice is which unit (core or set) of which save it
is, so a unit restored in the wrong place or from the wrong time is seen.

`CheckpointExport` adds the conversion: `ScanCore` (private caches of a core,
resized, and the directory built from them), `EvictEntry` (a directory set that is
too large), `ConvertL2`, `ConvertTable` (branch target buffers, pattern tables) and
`ConvertTlbs`. It reads the files as `detect_checkpoint_files` collects them: the files that are
there in the order of their numbers, so that a slice counts from the files before it
(`Collected`). `ExportAssumption` says what a checkpoint is: entries where their
numbers put them, no block twice in a cache, and no modified line beside a replica,
as section 5 proves of the hierarchy. A set is a set of entries with times; ties go
either way, as they may in an unstable sort.
Left out: the order of entries in a file, the recorded accessor of an evicted line,
the TAGE dump, and the formats; both kinds of slices have the same count.

Seen while modelling, within what the properties allow: a younger clean line
replaces the dirty bit of its copy in the exported shared cache, where `insert`
would have kept it; an inclusive second-level TLB can hold a page twice, and panic
without resizing; a data entry takes the place of an instruction entry of the same
page whichever is younger; evicted lines carry the index 0, 1 or 2 as their
accessor, not the core; the second-level TLB is exported youngest first, other
structures oldest first; a fully associative TLB is exported without `run_lru`; a
missing worker file silently renumbers the cores of a conversion; a save that
overwrites another and is killed leaves slices of both, never younger than the clock;
snapshots written without QEMU (one file per kind) can be converted but not loaded.

### FetchUnit

The predictors of one core, `components/bp/fetch`; cores share nothing and a core's
branches come from its own thread, so the one action is `Train`. Tables, tags,
counters and histories keep their bits; the widths are constants
(`HISTORIES`, `TBITS`, `LOGG`...), and the instance makes them small enough for
aliases, allocation failures, ageing and the periodic reset to happen in eight
branches. What the code hashes is a bit string, and a bit string is the set of the
positions of its ones: a shift adds to the positions (`Left`, `Right`), an
exclusive-or is the symmetric difference, a mask an intersection. `WordBits` is the
width of a pc without its two low bits. `program` is which branches the guest may take. `log` is a history
variable: the branches, each with the type the BTB gave `train` and whether it found
the branch or was told to learn it (`met`).

A branch that is not conditional but that the BTB knows as conditional (another
process or new code at its address) goes to `TAGEPredictor::train`, which updates
the history only for conditional results: it is missing from the history, although
`fetch.rs:95` says of the history that "This has to be done for non-conditional
branches." `HistoryFaithful` states the history as the code keeps it. The check of
newly allocated entries (`tage.rs:498`) never applies, because the prediction always
has the sign of that counter. Empty BTB and TAGE entries have tag zero and answer
for it.

## 4. The runs

The mutated definitions next to the code's (their comments begin with "Mutant")
are plausible bugs; each property is known to fail with the one `PROJECT.json`
pairs it with.

| Run | Bounds | Shows |
|---|---|---|
| `two_directory_sets` | 2 cores, 3 blocks, 1-way private sets, 2 directory sets of 1 way, 2-way shared cache | no assertion fails; the directory is exact when unlocked; the inductive invariant; some access always returns |
| `harvard` | 2 cores with 2 caches each, 2 blocks, page walks, exclusive shared cache, no exclusive state | one writer; the writer owns the dirty data; assertions on permission upgrades and of the exclusive mode |
| `invalidated_slot` | 2 cores, 3 blocks, 2-way private sets, 3-way directory | capacity, although the slot was chosen earlier; refinement of `AtomicCoherence` |
| `snapshots` | 3 snapshots, both writers, both first formats, one loadable snapshot of each kind | the count, the names, bases before deltas; the process quits |
| `mmu` | either MMU; 2 processes; a huge page, a kernel page, user pages; first levels of 2 ways, second levels of 1; 4 translations | every hit agrees with the walk and no page of an address space fills two ways (`Consistent`, `AssociativeConsistent`); evictions and the late replacement are LRU |
| `sms` | 2 cores, 2 program counters, 2 regions of 2 blocks, tables of one entry, 4 accesses, each taking at most one line | a generation is in one table; no prefetch is judged twice; a pattern predicts what was touched |
| `causality` | 3 cores, 1 line, times 0 to 2, 4 accesses, 1 checkpoint | the record of a line is faithful; nobody is accused unless accesses of two cores came in the wrong order; neighbours are caught |
| `recorder` | five guests of 3 to 6 callbacks: two cores that share a line, fetch with page walks, one core that spins or idles; at most 2 quanta | transfers, spinning and idling are charged as they happened; the recorder quits |
| `shared_set` | five guests: one thread that brings times in any order to a 2-way set; two threads that do so while stores invalidate; a cache of 1 and one of 2 sets under the same insertions, lookups of stores and invalidations, or under insertions only; 3 sets saved by 2 workers | each set implements `CacheSet`; dirtiness is handed over; a resized cache holds what the smaller one does, and nothing else if blocks are only inserted; a checkpoint restores it |
| `lru_order` (violation) | the same two caches under `lookup_and_insert` | a resized cache and the smaller one differ (`ResizedEqual`) |
| `export` | 2 cores, 2 workers, 3 blocks, caches of 2 sets, 2 saves with a kill at any point, 4 targets | what is loaded was saved; exported directory and caches agree; nothing is forgotten; without resizing no cache, table or TLB changes, and the directory is that of the saved caches |
| `fetch` | 2 banks of 4 entries, histories of 3 and 1, 2-way BTB, return stack of 2; programs of 8, 6 and 7 branches | history registers are the history; targets and returns are the last ones; useful entries are spared |

Why these bounds are enough to be interesting. Coherence: three blocks in one
private set and two directory sets make the block and its victim need two locks in
either order; one-way sets make every miss an eviction; a second way is needed only
for a set to have both a victim and another freed slot, which is what
`invalidated_slot` has. Three cores add no state to the protocol: a block's
opponents are treated alike, and the proofs cover any number. Snapshots: three are
the least with a first, a middle and a last one. MMU: four translations fill a
2-way set, hit it, evict from it and look again; a huge page is found under two page
numbers. SMS: a generation takes two accesses, a third learns and predicts, a fourth
uses or loses the prefetch; tables of one entry evict at every second region.
Causality: two writes out of order, a read that sees it and a write that ends it are
four accesses; lines do not interact, so one is enough. Recorder: a write, its
reader, another write and a read cover every transition of a line; a guest only makes
the callbacks that share state, since the others do not interact. Shared set: three
blocks overfill two ways; `Width` 4 makes late accesses straddle a multiple of it; two
threads are enough for one to insert what another is invalidating.
Export: two sets that collapse into one, a directory of one way, and a second save
cut short. Fetch: among eight branches every allocation case, ageing and the reset
occur; `WordBits` 5 covers all its addresses. Symmetry is used where only invariants and action properties are checked,
over names the module treats alike.

Bounds that cut behaviour off: `MaxTime`, `MaxAccesses`, `MaxEvicts`, `MaxClears`,
`MaxDiff`, `MaxAhead`, `MaxSaves`, the `events` and `quitAt` of a guest of the
recorder, and the `length` of a program. At the bound on accesses the SMS prefetcher,
the causality detector and the fetch unit stop (`Halted`); a process that has exited,
aborted or panicked stutters; nothing else deadlocks.

Fairness: the `FairSpec` of `ParallelHierarchy` asks weak fairness of the steps of
an access in progress, because a QEMU thread keeps running; a core need never start
an access. Spin locks are not fair, so a single access may starve; the property is
that some access returns when all cores are inside one. The `FairSnapshotSpec` of
`PeriodicSnapshot` asks weak fairness of the quantum callback and of the event loop:
the guest keeps running quanta while its vCPUs run, and QEMU polls its loop. The
`FairSpec` of `CommunicationRecorder` asks it of the quantum count, of the periodic
check and of the dump, whose shard locks are held for one step only; no callback need
ever come.

## 5. What is proved

Eight modules of proofs, checked by TLAPS for every value of the constants that the
assumptions named in the models allow; TLC evaluates those assumptions in every run
of the model. Where a theorem has a hypothesis of its own, it is given here with the
reason.

### The coherence protocol

`ParallelHierarchyProofs`, for any numbers of cores, caches, blocks, sets and ways,
any set index functions and any combination of the flags, the exclusive shared cache
included:

* `TypeCorrect` (`TypeOK`), and `Invariant`: `IndInv` is an invariant;
* `Coherent` (`SingleWriter`), `DirectoryCorrect` (`DirectoryInclusive` and
  `DirectoryExact`), `DirtyOwned` (`WriterOwnsDirty`);
* `OneWayToPanic` (`PanicsOnlyOnReinsertion`): of all assertions of an access only the
  one of section 6 can fail, where an exclusive shared cache is given the block of a
  replaced directory entry a second time;
* `NeverPanics` (`NoPanic`): none fails if the shared cache is not exclusive (the
  shipped `SHARED_CACHE_EXCLUSIVE = false`), or if the directory has a way for every
  block of a set (`DirectoryFits`; `harvard` is such a configuration). Without the
  hypothesis the claim is false: `harvard` with one way per directory set panics.

The argument. The coherence properties are about blocks between critical
sections, but they hold because of what pending accesses still know. `IndInv`
therefore has a part per core (`CoreInv`: what the poke saw is still true or an
invalidation has been noted in that set; a grant in the directory whose line is
not filled yet; an evicted line whose sharer bit is not cleared yet) and a part
per block (`BlockInv`: holders are sharers, a sharer without a line is owed by
the core that holds the set's lock, a writer is alone in the directory). Each
action is shown to preserve the part of the core that moves and of the blocks it
touches; frame lemmas (`OtherCore`, `OtherBlock`) carry the rest over, because
the directory lock excludes the others (`LocksExclude`). What an exclusive shared cache
adds is `LlcYields`: it has given a block up by the time a private cache may write it,
which the assertions of the write-back and of the eviction rest on. `IndInv` does not
say that no assertion has failed. It also describes the state that a thread which
panicked leaves to the others, so what it claims of the directory stays true then.

The same module, for the same configurations:

* `NoSetOverflows` (`WithinCapacity`). A slot is chosen at the poke and filled
  several critical sections later, so "no more lines than ways" is not inductive. What
  is: a set with a note in `recent` has a free way (`PrivateSetOK`), and what a pending
  access saw of its set still holds or a note tells its fill otherwise (`SlotOK`).
  Towards one set a step either fills one line of one cache (`Fills`) or only takes lines away and
  notes that it did (`Sheds`); each of the two preserves the invariant, and each action
  is shown to be one of them.
* `ImplementsAtomicCoherence`: every interleaving of critical sections implements
  `AtomicCoherence`. Three critical sections fill a line. Each is shown to serve its
  access in one step (`Serves`), from what `IndInv` knows of the other holders while
  the directory entry is locked; all other steps take lines away or stutter.

### The warm mode

`CheckpointProofs`, its first part, for every count, threshold, interval, set of options
and contents of the disk.

* `SnapshotCount` (`ExactlyRequired`), `SnapshotNames` (`NameAtMostOneBehind`). The
  count alone is not inductive: between `SaveVM` and `CountSnapshot` it is one behind
  the snapshots written, and a name built then is one behind too. `Counted` ties the
  count to the event loop's position, `Request` says that a request is outstanding only
  while its requester waits and how old its name may be.
* `DeltasHaveBases` (`DeltaHasBase`). `FamilyOK` relates the format of the next
  snapshot to the ones written, being written and loaded, for qcow2 and raw files alike;
  `FirstFormat` says that the first base is only due while nothing was written.
* `PluginNames` (`PluginNamesDistinct`), if the bases on disk are numbered outside the
  range the run writes. Without that it is false: a run that starts from a loaded base
  numbers its snapshots from the option (`warm.rs:312`), and may meet the number of that
  base. `PluginNamesApart` is what holds in general: that is the only collision.

### The shared set

`LRUSharedCacheProofs`, for any caches, workloads, ways and times and both settings of
`SHARED_CACHE_EXCLUSIVE`.

* `Refinement` (each set implements `CacheSet`, `ImplementsCacheSet`),
  `NoDirtyBlockForgotten` (`DirtyHandedOver`), `SetsInOrder` (`NoDuplicates` and
  `ColdSlotsEmpty`), `WarmSetsCounted` (`WarmedExact`), under every call, `invalidate`
  with its two locks included, from any number of threads. `DirtyHandedOver` names the
  one step that takes dirtiness without telling anyone, the first lock of `invalidate`
  (section 6). That no block is lost while a
  slot is free does not follow from "no block twice": `insert` searches for the oldest
  slot, `lookup_and_insert` for the fill pointer or for time zero, and lookups empty
  slots in between. `SetInv` adds what makes the searches meet: time zero and "no block"
  mark the same slots, and all slots beyond the fill pointer are free. Then either
  search finds a slot that is `Usable`: free, or the set is full. Every operation has
  one of five effects on its set (`OperationEffect`), each effect preserves `SetInv` and
  is one step of `CacheSet`. `CountInv` relates `warmed_sets` and the threads still to
  count to the sets whose fill pointer has reached the end, which it never leaves.
* `SharedSetsConsistent` (`SetsConsistent`) adds the lateness an access reports, with
  the hypothesis `TimesApart`: times that come out of order differ by less than
  `Width`. Beyond that the truncated times of the code cannot tell late from early.
* `CheckpointRestored` (`RestoredExactly`). `LoadInv`: the sets of the shards loaded so
  far are the saved ones and all others empty; the shards lie side by side and end with
  the last set, also when the workers do not divide the sets (`ShardBounds`).
* `ResizingExact` (`ResizedAgrees`): after insertions, lookups that take the block and
  invalidations in the order of their times, the resized cache has all that the smaller
  one has; if there are only insertions, nothing else. `AgesInv`: times are distinct, and
  each set of the smaller cache holds the youngest of the pool of blocks that the sets of
  the larger one mapped to it hold. `YoungestStep` shows that an insertion, which may
  drop a block from either, keeps them the youngest, and the pool from growing beyond
  them if nothing was ever taken (`Complete`); `TakenStep` that taking a block from both
  does. The hypothesis `InsertsOrTakes` leaves out two calls, for which it is false:
  `lookup_and_insert`, which is the finding of section 6, and lookups that leave the block
  where it is, since one that the smaller cache misses makes the block young in the larger
  one only. What it leaves is what the parallel hierarchy calls if
  `SHARED_CACHE_FILL_WITH_PRIVATE_CACHE` is off and the shared cache is exclusive or all
  accesses are data accesses with exclusive states (`access_logic.rs:418-453`). As
  shipped the option is on (`parameter.rs:238`), fetches and page walks call
  `lookup_and_insert`, and nothing like it holds.

### The MMUs

`MMUProofs`, for any TLBs, page sizes, processes and numbers of translations. For the
ordinary MMU:

* `MMUInvariant`: `MMUInv` is an invariant, with the hypothesis that the guest flushes
  everything or by address space (`FlushKinds` within `{"All", "ByASID"}`): with flushes
  of a page the claim is false, see section 6;
* `Consistency` (`Consistent`: types, `HitsAgreeWithWalk`, `NoDuplicates`), under the
  same hypothesis;
* `Placement` (types and `NoDuplicates`) and `Evictions` (`EvictionIsLru`), for every
  kind of flush.

`EntryInv`: a valid entry lies in the set of its page, maps it as the page tables do,
and has a time between one and the clock; an emptied one has time zero. The victim of
an insertion is the way with the least time, so it is never valid while a way is free,
which is what LRU eviction needs after a flush. The second level files every entry in
its own address space or as global (`InOwnSpace`), so that one entry at most serves a
process; the first level does not. A change of a mapping with its flush preserves
agreement because no entry that the flush covers is left.

`PlaceInv`, for `Placement` and `Evictions`, asks of each TLB only that it agrees with
some reading of page tables (`Placed`): a flush of a page that stops too early
(section 6) leaves an entry that the guest's tables no longer agree with, yet moves
nothing and makes nothing older or younger. An insertion where no entry answers extends
the reading by its own mapping, and every flush, also of one page after the other, does
no more than empty entries (`Emptied`), so the lemmas about one TLB serve both
invariants.

For the fully associative MMU, whose second level is the same `Tlb` and rests on the
same lemmas (they are about any view of the page tables, `Seen` for the one MMU and
`SmallSeen` for the other):

* `AssociativeHits`: types and `HitsAgreeWithWalk`, under flushes of everything or by
  address space, the latter with the hypothesis that no ASID is in `MaskedAsid`;
* `AssociativeConsistency` (`AssociativeConsistent`, which adds `ReplacementIsLru`),
  under flushes of everything. Section 6 says what happens under the others.

`AssociativeInv` says that what waits in the first level, also what the replacement
will drop, is what the page tables say under the key of its page; the lookup for a
global entry of a user page therefore never finds one. `ReplacementInv` relates the
two replacements (`LruInv`): what an immediate one would hold is among what has piled
up, in the same order of use, all else is older, and there is nothing else while there
is room. Then the entries with fewer than `L1Ways` younger ones are exactly those
(`RunLruFacts`), and each use keeps it so (`UseKeeps`). A hit in `l0_itlb` refreshes
no timestamp in the first level; that is harmless because the page it answers for is
the one the instruction side used last (`Newest`, `L0HitKeeps`).

### The SMS prefetcher

`SmsPrefetcherProofs`, for any cores, program counters and regions, tables of any size
and every setting of the flags.

* `Generation` (`OneGeneration`). Between two table locks a region may be in a thread's
  hands. `Generations` adds what the thread may rely on meanwhile: a region it looks for
  in the filter table is not in the accumulation table, and one it promotes is in
  neither; others only take entries away in between.
* `AccountsKept` (`PrefetchesAccounted`). `Accounts` counts what other threads judge
  against what was issued, including prefetches not yet added to the statistics.
* `PredictionsRest` (`PredictionsSeen`). `Sightings` says that the core touched every
  block an entry notes, also while a thread carries the entry from one table to the
  next, and `Predictions` that every counter high enough to predict is supported by such
  a touch.

### The causality detector

`CausalityDetectorProofs`, for any cores, lines, times and accesses: `RecordsFaithful`
(`SummaryFaithful`), `Neighbours` (`NeighboursCaught`) and `Alarms`
(`AlarmsJustified`). The record of a line is a summary of the log: `ReadSince`,
`WrittenSince` and `Scrambled` say which part of it each of its states stands for
(`Summary`), and each outcome of an access extends the summary to the longer log. That
a count is right is then a bijection between readers noted and accesses logged
(`LateCounted`). `IndInv` is `Typed /\ Bounded /\ Ordered /\ Judged`; `Ordered` is that
the target time of a core never goes back, which `NeighboursCaught` rests on.

### The communication recorder

`CommunicationRecorderProofs`, for any cores, lines, guests, page walks and thresholds.

* `TypesHold`: `TypeOK`.
* `ChargesCorrect` (`CommunicationFaithful`). The property compares counters with counts
  over a history that grows without end; what makes it inductive is what the record of
  a line knows of that history (`RecordOf`: the last write, and the other cores that have
  accessed the line since). Then an access is charged exactly if it communicates
  (`RecordFollows`), and the charge is one more of its kind in the counts
  (`ChargesAppend`); the dump moves a line's charges to the file and starts a new count
  (`DumpFaithful`), and `NothingCharged` is the case the dump writes no file for. The
  decoder's verdicts are those of the instructions (`DecodedKinds`). `Counted` relates
  the accesses counted to those recorded, with the one in between.
* `SpinsCorrect` (`SpinFaithful`). `SpinsOf`: the state of a pc is its last CAS in the
  log (`LastAt`), and its flag says whether that one spun, however CASes of other pcs
  are interleaved; a CAS of another pc leaves both as they are. `DozesOf` is the same
  for WFEs, of which only the last matters.
* `IdlesCorrect` (`IdleFaithful`). `IdleOf`: the time noted is that of the first WFI
  since the last interrupt, and zero if there is none, for which the assertion that a
  WFI's time is not zero is needed.

### Checkpoints and their conversion

`CheckpointProofs`, its second part, for any numbers of cores, workers, saves and sets,
any checkpoint and any target that `ExportAssumption` allows.

* `SavedLoaded` (`SavedIsLoaded`). `FilesInv` says of every file which slice of which
  save it holds and how far the save that may be running has come, of a restart which
  files it has read, and what a panic was caused by.
* `ConversionInvariant` (`ExportInv`), `DirectoryMatches` (`DirectoryMatchesCaches`),
  `NothingIsForgotten` (`NothingForgotten`), `SameIsUnchanged` (`UnresizedUnchanged`).
  When the conversion begins all files are there, so the units it collects are in place
  (`FolderInv`). For the caches: what was scanned lies in its set and comes from the
  checkpoint (`HeldInv`), the sharers of an entry are exactly the caches scanned so far
  that hold its block (`Sharing`), and a line given up is in the pool of evicted lines,
  as dirty and as young, until the shared cache takes it (`EvictedInv`, `LinesKept`).
  The coherence of the checkpoint is used there: a modified line has no replica, so no
  younger clean line can take its place in the pool. `TablesInv` is the
  same for translations, and `SameInv` says that with the same geometry no step gives
  anything up: private caches, shared cache, tables and second-level TLB (`StlbOf`) come
  out as they were. The directory is no part of what is read; `SavedEntry` is what it
  has to be, computed from the caches of the checkpoint alone, and follows from `Sharing`.

### The branch predictors

`FetchUnitProofs`, for any number of banks, sets and ways, any widths, history lengths
and stack depth, and any sequence of branches. Of the configuration the assumptions ask
that no width vanishes, that a bank's number is below `LOGG`, and that the two parts of
a rotated path hash share no bit, which the code adds (`RotationAssumption`; 16 is less
than twice the shipped `LOGG` of 9). `PowersAssumption` says that two powers of two are
positive; the provers cannot derive that.

* `FoldedHistories` (`HistoryFaithful`). The register `FoldedHistory::update` shifts and
  patches at two places is, after any number of branches, the parity per class of ages
  (`FoldOf`), which names no earlier register. `ClassStep` says how a class grows when
  all ages do: it is the class before it, shifted, with the newest outcome joining class
  zero and the one that reaches the length of the bank leaving; `FoldedBit` says the
  same of the bits of the register, where the bit that runs over its end comes back at
  zero; `FoldedStep` puts the two together through parities. The assertion at the start
  of `update` never fails, since a register has no bit beyond its width.
* `FaithfulTargets` (`TargetsFaithful`). Of a set of the BTB it takes more than the
  property: entries are filled from the first on and an unused one is empty (`Packed`).
  Hence the lookup by tag alone, which may stop at an empty entry when the address is
  zero, never passes by a valid entry, and the replaced entry leaves all others younger
  than the branch it held (`HitFacts`, `Learnt`). For the return stack, `NestingStep`
  and `OpenStep` say what one branch does to the nesting of all calls before it;
  `StackStep` has a case for each way the stack moves, the full and the empty one
  included.
* `UsefulEntriesStay` (`UsefulSpared`), an action property. Allocation gives away at
  most one cell and only one whose useful counter is the least of all, zero; ageing, the
  reset and the training of counters leave every tag (`SameTags`). All of them are
  computed from indices read before the history moves on.
* `PredictorTypes` (`TypeOK`): the saturating counters stay within their widths, and the
  seed and the histories within theirs.

### Only model-checked

* Liveness, which is outside TLAPS: `SomeAccessReturns`, `EventuallyQuits`, `Quits`.


## 6. Findings

* `lru_order`: the shared cache's `lookup_and_insert` starts its search for the
  oldest block from time zero (`set_and_line.rs:317`), so in a full set it always
  gives up the first slot; `tests/resize.rs:255` asserts that a resized cache equals the
  smaller one under the same accesses, which relies on the replacement being LRU. The
  single-threaded hierarchy makes no other call; the parallel one makes it for fetches
  and page walks as shipped (`parameter.rs:238`, `access_logic.rs:405-450`).

Behaviours the runs leave out on purpose, seen with other constants of the same
modules:

* With `FlushKinds = {"ByVPN"}` or `{"ByVPNAndASID"}` in `mmu.cfg`,
  `HitsAgreeWithWalk` is violated: the flush of a page stops at the first way that
  carries its number, valid or not (`tlb.rs:244`, `tlb.rs:257`), and an entry emptied
  by an earlier flush shields a valid one.
* In the fully associative MMU, `AssociativeFlushes = {"ByVPN"}` violates it because
  the flush removes the entries of address space 0 and the global ones only
  (`tlb.rs:538`). `{"ByASID"}` violates it when `MaskedAsid` holds a process: global
  entries are recognised by masking the low twelve bits of the key's address space
  (`tlb.rs:530`), which also matches an ASID that is a multiple of 4096. For other
  ASIDs hits stay right (`AssociativeHits`), but `ReplacementIsLru` is violated: entries that wait for
  the late replacement survive a flush that empties the places of younger ones.
* The equality of that test also fails without `lookup_and_insert`, once a store takes a
  block out: the smaller cache has a free slot then, while the larger one still has an
  older block that the smaller one had evicted. (`ResizedEqual` on the guest `Resizing`;
  `ResizedAgrees` states the half that is left.)
* `invalidate` of the shared cache locks and invalidates twice and returns the second
  result (`lru_shared_cache.rs:101-110`): a dirty copy leaves and the caller is told of a
  miss. Its only caller, the store of `access_logic.rs:845`, uses no result and makes its
  own line modified (lines 850-866), so no dirtiness is lost to the hierarchy; a caller
  that looked at the result would be misled.
* The name of a snapshot is built from the count before the lock is tried
  (`warm.rs:169`), and savevm resumes the vCPUs before the event loop counts, so a
  name built in that window is used again. `NameAtMostOneBehind` says this is the
  worst that happens, and `PluginNamesDistinct` that `no_qemu_snapshot` is free of it.
* The comment at `access_logic.rs:386` says the replicas of an evicted directory
  entry are written back to the shared cache; the block is inserted as not modified
  (line 392) whatever they were, so their dirtiness is lost. The model does the same.
* With an exclusive shared cache (`LlcExclusive`) and a directory without room, a
  read that downgrades a modified replica writes it back; when the directory entry
  is evicted later the block is inserted again (`access_logic.rs:388`) and
  `SharedCacheSet::insert` panics. `harvard`, which is exclusive, therefore has room
  in the directory. The shipped configuration is not exclusive. `OneWayToPanic` says
  that no other assertion of an access can fail.
* A read of a line whose writes came in the wrong order is accused although it came in
  time itself (`causality/mod.rs:104`): the writes of two other cores at times 2 and 1
  and then a read at time 2 count against the reader. `AlarmsJustified` allows this case
  and says that there are two such writes.
* An accepted read hides the write before it from the causality detector: a later
  arrival that is too early for that write is not noticed. `NeighboursCaught` states
  what is.
* A region promoted between two table locks of the SMS prefetcher may miss the loss
  of a line in between; its generation then ends at the next one.

## 7. Not modelled

* Statistics, network hop counts, histories and `access_from_device_with_pa` (no
  caller).
* The single-threaded hierarchy, a second front end over the same private and shared
  caches without concurrency; its call of the shared cache is in `lru_order`.
* The access front end: the plugin callbacks hand physical addresses to the MMU and
  the hierarchy, which are modelled apart. The L0 instruction filter is in
  `CommunicationRecorder`, which has its own.
* Small recorders (touch-once, traces, instruction frequencies, page-walk and WFI
  logs): counters and files per core, nothing shared.
* `PERFECT_PHT`, basic block vectors (switched off), the unused predictors `bimodal.rs` and `gshare.rs`.
* The interrupt counters of the causality detector, which compare values that live
  in the emulator; the decoder predicates that only feed statistics.
* The text of files and reports; the QEMU binding and command-line parsing.
