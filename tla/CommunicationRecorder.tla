------------------------ MODULE CommunicationRecorder ------------------------
(* The communication recorder (components/communication).  Every virtual    *)
(* CPU calls into it from its own host thread.  Time is the number of       *)
(* quanta QEMU has counted; a thread reads it before it takes any lock.     *)
(* Per cache line the recorder keeps the last write and who has read it     *)
(* since, and charges a core with an interval whenever it obtains the line  *)
(* from another core.  Per core it measures idle times and recognises       *)
(* spinning on WFE and CAS.  A periodic callback dumps it all and quits.    *)
EXTENDS Aarch64Decoder, Sequences, FiniteSets, FiniteSetsExt, SequencesExt, Functions

CONSTANTS
  Core, Line, Pc,
  Workloads,     \* guests: which cores make which callbacks, on which lines, how
                 \* many at most, and after how many quanta the recorder is to quit
  Walks,         \* the lines a page walk may read, in order; <<>> for a TLB hit
  SpinInsns,     \* BUSY_WAIT_INSTRUCTION_THRESHOLD
  MaxTime        \* bound: quanta any guest runs for

ASSUME RecorderAssumption ==
  /\ MaxTime \in Nat /\ SpinInsns \in Nat \ {0} /\ IsFiniteSet(Line) /\ Walks \subseteq Seq(Line)
  /\ \A g \in Workloads : g.events \in Nat /\ g.lines \subseteq Line /\ g.cores \subseteq Core
                         /\ g.privilege \subseteq {"os"} /\ g.quitAt \in 0..MaxTime

VARIABLES
  generation,    \* QUANTUM_GENERATION
  guest,         \* which callbacks this guest makes
  cpu,           \* per core the callback in progress, or Idle
  l0,            \* the line each core fetched from last
  total,         \* memory_access_count
  records,       \* per line the last write and recent_readers, or NoRecord
  charged,       \* per line and core: per_core_intervals and the counters
  insns,         \* instruction count of each core (the global statistics)
  wfi, idle,     \* last_wfi_timestamp, idle_intervals
  interrupt,     \* last_interrupt_timestamp and interrupt_intervals
  wfe,           \* WFEState with its counters
  cas, spins,    \* CASPCState per pc, and the CAS counters of the core
  status,        \* of the process: running, dumping, exited or aborted
  toDump,        \* shards the dump has still to lock, in order
  file,          \* what the dump has written for each line
  events,
  log, coreLog   \* history: accesses to each line; CASes, WFEs and the WFIs and
                 \* interrupts of each core

lineVars == <<records, charged, log>>
coreVars == <<insns, wfi, idle, interrupt, wfe, cas, spins, coreLog>>
dumpVars == <<status, toDump, file>>
vars == <<generation, guest, cpu, l0, total, lineVars, coreVars, dumpVars, events>>

Times == 0..MaxTime
Category == {"page_walk", "os", "atomic", "load_exclusive", "instruction"}
Insns == {"load", "store", "ldxr", "stxr", "lse"}

(* on_translation decodes each instruction once; whether an access stores   *)
(* is known to QEMU.                                                        *)
Decoded == [insn \in DOMAIN Encodings |-> {Flags(w) : w \in Encodings[insn]}]
DecodedCas == {Flags(w) : w \in {x \in Encodings["cas"] : IsCas(x)}}
IsStore(insn) == insn \in {"store", "stxr", "lse", "cas"}

Idle == [stage |-> "idle"]
NoRecord == [writer |-> "none"]
NoCharge == [intervals |-> [t \in Times |-> 0], by |-> [k \in Category |-> 0]]
NewPc == [insns |-> 0, ts |-> 0, addr |-> "none", waiting |-> FALSE]
Since(ts, last) == IF ts > last THEN ts - last ELSE 0
Bump(counts, t) == [counts EXCEPT ![t] = @ + 1]

Init ==
  /\ generation = 0 /\ guest \in Workloads
  /\ cpu = [c \in Core |-> Idle] /\ l0 = [c \in Core |-> "none"]
  /\ total = [c \in Core |-> 0]
  /\ records = [l \in Line |-> NoRecord]
  /\ charged = [l \in Line |-> [c \in Core |-> NoCharge]]
  /\ insns = [c \in Core |-> 0]
  /\ wfi = [c \in Core |-> 0] /\ idle = [c \in Core |-> [t \in Times |-> 0]]
  /\ interrupt = [c \in Core |-> [last |-> 0, intervals |-> [t \in Times |-> 0]]]
  /\ wfe = [c \in Core |-> [ts |-> 0, insns |-> 0, total |-> 0, busy |-> 0]]
  /\ cas = [c \in Core |-> [pc \in Pc |-> NewPc]]
  /\ spins = [c \in Core |-> [total |-> 0, compared |-> 0, busy |-> 0, entries |-> 0]]
  /\ status = "running" /\ toDump = SetToSeq(Line) /\ file = [l \in Line |-> [c \in Core |-> NoCharge]]
  /\ events = 0
  /\ log = [l \in Line |-> <<>>]
  /\ coreLog = [c \in Core |-> [cas |-> <<>>, wfe |-> <<>>, idle |-> <<>>]]

Alive == status \in {"running", "dumping"}
Calls(c, kind) ==
  /\ Alive /\ c \in guest.cores /\ kind \in guest.calls /\ cpu[c] = Idle /\ events < guest.events
  /\ events' = events + 1

(* QEMU counts another quantum.                                             *)
Advance ==
  /\ Alive /\ generation < guest.quitAt
  /\ generation' = generation + 1
  /\ UNCHANGED <<guest, cpu, l0, total, lineVars, coreVars, dumpVars, events>>

(* An access reads the time and, when its page walk is over, counts itself; *)
(* only its own thread looks at either, so both are one step.               *)
Begin(c, insn, l, walk, by) ==
  /\ cpu' = [cpu EXCEPT ![c] =
               [stage |-> IF walk = <<>> THEN "record" ELSE "walk", insn |-> insn, line |-> l,
                walk |-> walk, by |-> by \union guest.privilege, ts |-> generation]]
  /\ total' = [total EXCEPT ![c] = @ + IF walk = <<>> THEN 1 ELSE 0]

(* vcpu_mem_access.                                                         *)
MemAccess(c, insn, l) ==
  /\ Calls(c, insn)
  /\ \E flags \in Decoded[insn] : Begin(c, insn, l, <<>>, flags)
  /\ UNCHANGED <<generation, guest, l0, lineVars, coreVars, dumpVars>>

(* vcpu_insn_exec: a fetch from the line fetched last is not looked at; of  *)
(* a page walk every entry read is recorded before the fetch itself.        *)
FetchInsn(c, l, walk) ==
  /\ Calls(c, "fetch") /\ l0[c] # l
  /\ l0' = [l0 EXCEPT ![c] = l]
  /\ Begin(c, "fetch", l, walk, {"instruction"})
  /\ UNCHANGED <<generation, guest, lineVars, coreVars, dumpVars>>

(* record_access, under the lock of the line's shard.                       *)
(* Mutant: any access by another core than the writer is charged.           *)
ObtainsAlways(r, c, write) ==
  /\ r # NoRecord /\ r.writer # c
  /\ write => r.ts > 0

Obtains(r, c, write) ==
  /\ r # NoRecord /\ r.writer # c
  /\ IF write THEN r.ts > 0 ELSE c \notin r.readers

(* Mutant: a write leaves the readers of the previous one.                  *)
AfterKeepingReaders(r, c, write, ts) ==
  IF write
  THEN [ts |-> ts, writer |-> c, readers |-> IF r = NoRecord THEN {} ELSE r.readers]
  ELSE IF Obtains(r, c, FALSE)
       THEN [ts |-> r.ts, writer |-> r.writer, readers |-> r.readers \union {c}] ELSE r

After(r, c, write, ts) ==
  IF write THEN [ts |-> ts, writer |-> c, readers |-> {}]
  ELSE IF Obtains(r, c, FALSE)
       THEN [ts |-> r.ts, writer |-> r.writer, readers |-> r.readers \union {c}] ELSE r

RecordAccess(c, insn, l, by, ts) ==
  LET r == records[l]
      write == IsStore(insn)
  IN
  /\ records' = [records EXCEPT ![l] = After(r, c, write, ts)]
  /\ charged' = IF Obtains(r, c, write)
                THEN [charged EXCEPT ![l][c] =
                        [intervals |-> Bump(@.intervals, Since(ts, r.ts)),
                         by |-> [k \in Category |-> @.by[k] + IF k \in by THEN 1 ELSE 0]]]
                ELSE charged
  /\ log' = [log EXCEPT ![l] = Append(@, [core |-> c, insn |-> insn, ts |-> ts,
                                          dumped |-> l \notin Range(toDump)])]

RecordWalk(c) ==
  /\ Alive /\ cpu[c].stage = "walk"
  /\ RecordAccess(c, "walk", Head(cpu[c].walk), {"page_walk"} \union guest.privilege, cpu[c].ts)
  /\ cpu' = [cpu EXCEPT ![c].stage = "countWalk"]
  /\ UNCHANGED <<generation, guest, l0, total, coreVars, dumpVars, events>>

(* Mutant: the reads of a page walk do not count as accesses.               *)
CountWalkNot(c) == total' = total

CountOfWalk(c) == total' = [total EXCEPT ![c] = @ + 1]

CountWalk(c) ==
  /\ Alive /\ cpu[c].stage = "countWalk"
  /\ CountOfWalk(c)
  /\ cpu' = [cpu EXCEPT ![c].walk = Tail(@),
                        ![c].stage = IF Len(cpu[c].walk) = 1 THEN "count" ELSE "walk"]
  /\ UNCHANGED <<generation, guest, l0, lineVars, coreVars, dumpVars, events>>

CountAccess(c) ==
  /\ Alive /\ cpu[c].stage = "count"
  /\ total' = [total EXCEPT ![c] = @ + 1]
  /\ cpu' = [cpu EXCEPT ![c].stage = "record"]
  /\ UNCHANGED <<generation, guest, l0, lineVars, coreVars, dumpVars, events>>

Record(c) ==
  /\ Alive /\ cpu[c].stage = "record"
  /\ RecordAccess(c, cpu[c].insn, cpu[c].line, cpu[c].by, cpu[c].ts)
  /\ cpu' = [cpu EXCEPT ![c] = Idle]
  /\ UNCHANGED <<generation, guest, l0, total, coreVars, dumpVars, events>>

(* A CAS first goes through record_cas, on the state of its pc; d is the    *)
(* number of instructions the core has run since its last event.            *)
Near(now, before) == Since(now, before) < SpinInsns

(* Mutant: the busy-wait flag survives a CAS that does not spin.            *)
WaitingForever(s, spinning) == spinning \/ s.waiting

Waiting(s, spinning) == IF s.ts > 0 THEN spinning ELSE s.waiting

CompareAndSwap(c, pc, l, d) ==
  LET now == insns[c] + d
      s == cas[c][pc]
      spinning == s.ts > 0 /\ s.addr = l /\ Near(now, s.insns)
      entering == spinning /\ ~s.waiting
  IN /\ Calls(c, "cas")
     /\ insns' = [insns EXCEPT ![c] = now]
     /\ spins' = [spins EXCEPT ![c] =
                    [total |-> @.total + 1, compared |-> @.compared + IF s.ts > 0 THEN 1 ELSE 0,
                     busy |-> @.busy + IF spinning THEN 1 ELSE 0,
                     entries |-> @.entries + IF entering THEN 1 ELSE 0]]
     /\ cas' = [cas EXCEPT ![c][pc] = [insns |-> now, ts |-> generation, addr |-> l,
                                       waiting |-> Waiting(s, spinning)]]
     /\ coreLog' = [coreLog EXCEPT ![c].cas = Append(@, [pc |-> pc, addr |-> l, insns |-> now,
                                                         ts |-> generation])]
     /\ \E flags \in DecodedCas : Begin(c, "cas", l, <<>>, flags)
     /\ UNCHANGED <<generation, guest, l0, lineVars, wfi, idle, interrupt, wfe, dumpVars>>

(* record_wfe, with the instruction count of the statistics.                *)
Wfe(c, d) ==
  LET now == insns[c] + d
      s == wfe[c]
      spinning == s.ts > 0 /\ Near(now, s.insns) /\ Since(generation, s.ts) = 0
  IN /\ Calls(c, "wfe")
     /\ insns' = [insns EXCEPT ![c] = now]
     /\ wfe' = [wfe EXCEPT ![c] = [ts |-> generation, insns |-> now, total |-> @.total + 1,
                                   busy |-> @.busy + IF spinning THEN 1 ELSE 0]]
     /\ coreLog' = [coreLog EXCEPT ![c].wfe = Append(@, [insns |-> now, ts |-> generation])]
     /\ UNCHANGED <<generation, guest, cpu, l0, total, lineVars, wfi, idle, interrupt, cas,
                    spins, dumpVars>>

(* record_wfi keeps the first WFI since the last interrupt.  It asserts     *)
(* that its time is not zero.                                               *)
(* Mutant: the last WFI counts.                                             *)
FirstWfiLast(before, now) == now

FirstWfi(before, now) == IF before = 0 THEN now ELSE before

Wfi(c) ==
  /\ Calls(c, "wfi") /\ generation # 0
  /\ wfi' = [wfi EXCEPT ![c] = FirstWfi(@, generation)]
  /\ coreLog' = [coreLog EXCEPT ![c].idle = Append(@, [op |-> "wfi", ts |-> generation])]
  /\ UNCHANGED <<generation, guest, cpu, l0, total, lineVars, insns, idle, interrupt, wfe, cas,
                 spins, dumpVars>>

WfiTooEarly(c) ==
  /\ Calls(c, "wfi") /\ generation = 0
  /\ status' = "aborted"
  /\ UNCHANGED <<generation, guest, cpu, l0, total, lineVars, coreVars, toDump, file>>

(* record_interrupt.                                                        *)
Interrupt(c) ==
  LET last == interrupt[c].last IN
  /\ Calls(c, "wfi")
  /\ interrupt' = [interrupt EXCEPT ![c] =
        [last |-> generation,
         intervals |-> IF last > 0 THEN Bump(@.intervals, Since(generation, last))
                       ELSE @.intervals]]
  /\ idle' = IF wfi[c] > 0 THEN [idle EXCEPT ![c] = Bump(@, Since(generation, wfi[c]))] ELSE idle
  /\ wfi' = [wfi EXCEPT ![c] = 0]
  /\ coreLog' = [coreLog EXCEPT ![c].idle = Append(@, [op |-> "interrupt", ts |-> generation])]
  /\ UNCHANGED <<generation, guest, cpu, l0, total, lineVars, insns, wfe, cas, spins, dumpVars>>

(* periodic_checking_callback: at the threshold it dumps shard by shard,    *)
(* taking what it writes, then the per-core counters, and exits.            *)
(* Mutant: the threshold must be exceeded.                                  *)
QuitDueLate == generation > guest.quitAt

QuitDue == generation >= guest.quitAt

StartDump ==
  /\ status = "running" /\ QuitDue
  /\ status' = "dumping"
  /\ UNCHANGED <<generation, guest, cpu, l0, total, lineVars, coreVars, toDump, file, events>>

(* Mutant: what is dumped stays in the record.                              *)
AfterDumpKept(l) == charged[l]

AfterDump(l) == [c \in Core |-> NoCharge]

DumpShard(l) ==
  /\ status = "dumping" /\ toDump # <<>> /\ l = Head(toDump)
  /\ toDump' = Tail(toDump)
  /\ IF \E c \in Core, t \in Times : charged[l][c].intervals[t] > 0
     THEN /\ file' = [file EXCEPT ![l] = charged[l]]
          /\ charged' = [charged EXCEPT ![l] = AfterDump(l)]
     ELSE UNCHANGED <<file, charged>>
  /\ UNCHANGED <<generation, guest, cpu, l0, total, records, log, coreVars, status, events>>

Exit ==
  /\ status = "dumping" /\ toDump = <<>>
  /\ status' = "exited"
  /\ UNCHANGED <<generation, guest, cpu, l0, total, lineVars, coreVars, toDump, file, events>>

Terminated == ~Alive /\ UNCHANGED vars

Next ==
  \/ Advance \/ StartDump \/ Exit \/ Terminated
  \/ \E l \in Line : DumpShard(l)
  \/ \E c \in Core :
       \/ RecordWalk(c) \/ CountWalk(c) \/ CountAccess(c) \/ Record(c)
       \/ Wfi(c) \/ WfiTooEarly(c) \/ Interrupt(c)
       \/ \E d \in {1, SpinInsns} : Wfe(c, d)
       \/ \E l \in guest.lines :
            \/ \E insn \in Insns : MemAccess(c, insn, l)
            \/ \E walk \in Walks : FetchInsn(c, l, walk)
            \/ \E pc \in Pc, d \in {1, SpinInsns} : CompareAndSwap(c, pc, l, d)

Spec == Init /\ [][Next]_vars

(* QEMU keeps counting quanta and keeps calling the periodic check, which   *)
(* waits for nothing but locks held for one step.                           *)
FairSpec ==
  /\ Spec /\ WF_vars(Advance) /\ WF_vars(StartDump) /\ WF_vars(Exit)
  /\ \A l \in Line : WF_vars(DumpShard(l))

-----------------------------------------------------------------------------
(* Every variable has its type.                                             *)
Charge == [intervals : [Times -> Nat], by : [Category -> Nat]]
TypeOK ==
  /\ generation \in Times /\ guest \in Workloads /\ events \in 0..guest.events
  /\ status \in {"running", "dumping", "exited", "aborted"} /\ toDump \in SeqOf(Line, Cardinality(Line))
  /\ \A l \in Line : records[l] = NoRecord \/
        records[l] \in [ts : Times, writer : Core, readers : SUBSET Core]
  /\ charged \in [Line -> [Core -> Charge]] /\ file \in [Line -> [Core -> Charge]]
  /\ total \in [Core -> Nat] /\ wfi \in [Core -> Times] /\ idle \in [Core -> [Times -> Nat]]
  /\ interrupt \in [Core -> [last : Times, intervals : [Times -> Nat]]]
  /\ \A c \in Core : \A pc \in Pc : cas[c][pc] = NewPc \/
        cas[c][pc] \in [insns : Nat, ts : Times, addr : Line, waiting : BOOLEAN]

(* What the recorder is for, said of the accesses a line has received in    *)
(* the order their shard lock was taken: a core obtains the line at a read  *)
(* if another core wrote it last and it has not read it since, and at a     *)
(* write if another core wrote it last (after the first quantum, whose time *)
(* is the code's "never").                                                  *)
LastWrite(h, i) == Max({0} \union {j \in 1..i - 1 : IsStore(h[j].insn)})
Communicates(h, i) ==
  LET w == LastWrite(h, i) IN
  /\ w # 0 /\ h[w].core # h[i].core
  /\ IF IsStore(h[i].insn) THEN h[w].ts > 0
     ELSE \A j \in w + 1..i - 1 : h[j].core # h[i].core
Kinds(insn, privilege) ==
  privilege \union
    CASE insn = "ldxr" -> {"load_exclusive"}
      [] insn \in {"lse", "cas"} -> {"atomic"}
      [] insn = "fetch" -> {"instruction"}
      [] insn = "walk" -> {"page_walk"}
      [] OTHER -> {}
ChargesIn(h, c, late, privilege) ==
  LET mine == {i \in DOMAIN h : h[i].core = c /\ h[i].dumped = late /\ Communicates(h, i)} IN
  [intervals |-> [t \in Times |->
                    Cardinality({i \in mine : Since(h[i].ts, h[LastWrite(h, i)].ts) = t})],
   by |-> [k \in Category |-> Cardinality({i \in mine : k \in Kinds(h[i].insn, privilege)})]]
Accesses(c) ==
  UNION {{<<l, i>> : i \in {i \in DOMAIN log[l] : log[l][i].core = c}} : l \in Line}

(* Each transfer of a line between cores is charged once, to the core that  *)
(* obtains it, with its interval and the categories of its instruction;     *)
(* what was recorded before a shard was dumped is in the file only.  A core *)
(* has counted every access it has recorded once, but for the page-walk     *)
(* read it is about to count, and the access it is about to record.         *)
CommunicationFaithful ==
  \A c \in Core :
    /\ \A l \in Line :
         LET dumped == l \notin Range(toDump) IN
         /\ file[l][c] = IF dumped THEN ChargesIn(log[l], c, FALSE, guest.privilege) ELSE NoCharge
         /\ charged[l][c] = ChargesIn(log[l], c, dumped, guest.privilege)
    /\ Cardinality(Accesses(c)) + (IF cpu[c].stage = "record" THEN 1 ELSE 0)
         = total[c] + (IF cpu[c].stage = "countWalk" THEN 1 ELSE 0)

(* A core enters a busy-wait loop once per run of CASes of one pc on one    *)
(* address, each within SpinInsns of the one before, however other pcs are  *)
(* interleaved; WFEs spin if they are as close and in one quantum.          *)
Prior(h, i) == Max({0} \union {j \in 1..i - 1 : h[j].pc = h[i].pc})
Spins(h, i) ==
  LET p == Prior(h, i) IN
  p # 0 /\ h[p].ts > 0 /\ h[p].addr = h[i].addr /\ h[i].insns - h[p].insns < SpinInsns
Dozes(h, i) == /\ i > 1 /\ h[i].ts = h[i - 1].ts /\ h[i].ts > 0
               /\ h[i].insns - h[i - 1].insns < SpinInsns
SpinFaithful ==
  TypeOK /\ \A c \in Core :
    LET h == coreLog[c].cas
        w == coreLog[c].wfe
    IN /\ spins[c].busy = Cardinality({i \in DOMAIN h : Spins(h, i)})
       /\ spins[c].entries =
            Cardinality({i \in DOMAIN h : Spins(h, i) /\ ~Spins(h, Prior(h, i))})
       /\ wfe[c].busy = Cardinality({i \in DOMAIN w : Dozes(w, i)})

(* A core is idle from the first WFI after an interrupt to the next         *)
(* interrupt, and each such time is recorded once.                          *)
Start(h, i) == 1 + Max({0} \union {j \in 1..i - 1 : h[j].op = "interrupt"})
IdleFaithful ==
  \A c \in Core :
    LET h == coreLog[c].idle
        ends == {i \in DOMAIN h : h[i].op = "interrupt" /\ Start(h, i) < i}
    IN \A t \in Times :
         idle[c][t] = Cardinality({i \in ends : h[i].ts - h[Start(h, i)].ts = t})

(* The recorder always comes to its end: it dumps and quits, unless a WFI   *)
(* in the first quantum has aborted the process.                            *)
Quits == <>(status = "exited" \/ (status = "aborted" /\ generation = 0))
=============================================================================
