-------------------------- MODULE CausalityDetector --------------------------
(* The shared-memory part of the causality detector (components/causality). *)
(* Each simulated core runs on its own host thread and has its own target   *)
(* time; accesses reach the detector in host order.  Per cache line the     *)
(* detector keeps a summary of what came last, and counts the accesses that *)
(* came too late: a read that should not have seen a write, a write that    *)
(* earlier reads should have seen.  A checkpoint clears the summaries.      *)
EXTENDS Integers, Sequences, FiniteSets, FiniteSetsExt

CONSTANTS
  Core, Line,
  MaxTime,       \* bound: target times
  MaxAccesses,   \* bound: accesses altogether
  MaxClears      \* bound: checkpoints altogether

ASSUME BoundAssumption == {MaxTime, MaxAccesses, MaxClears} \subseteq Nat

VARIABLES
  target,      \* target_time_ptrs: the target time of each core
  records,     \* the BlockAccessState of each line, or Vacant
  pending,     \* per core the access whose time was read, or Idle
  violations,  \* SharedMemoryCausalityViolation of each core
  toClear,     \* lines whose shard the running clear_all has still to clear
  accesses, clears,
  log          \* history: per line the accesses since it was cleared

vars == <<target, records, pending, violations, toClear, accesses, clears, log>>

Idle == [op |-> "none"]
Vacant == [state |-> "Vacant"]
JustWrite(time) == [state |-> "JustWrite", time |-> time]
UnorderedWrite(max) == [state |-> "UnorderedWrite", max |-> max]
JustRead(readers) == [state |-> "JustRead", readers |-> readers]

Init ==
  /\ target = [c \in Core |-> 0]
  /\ records = [l \in Line |-> Vacant]
  /\ pending = [c \in Core |-> Idle]
  /\ violations = [c \in Core |-> 0]
  /\ toClear = {} /\ accesses = 0 /\ clears = 0
  /\ log = [l \in Line |-> <<>>]

(* The emulator lets time pass for a core.                                  *)
Advance(c) ==
  /\ target[c] < MaxTime /\ target' = [target EXCEPT ![c] = @ + 1]
  /\ UNCHANGED <<records, pending, violations, toClear, accesses, clears, log>>

(* record_memory_access reads the target time before any lock is taken.     *)
ReadTime(c, l, op) ==
  /\ pending[c] = Idle /\ accesses < MaxAccesses
  /\ accesses' = accesses + 1
  /\ pending' = [pending EXCEPT ![c] = [op |-> op, line |-> l, time |-> target[c]]]
  /\ UNCHANGED <<target, records, violations, toClear, clears, log>>

(* What an access leaves in its line's record, and how many violations it   *)
(* adds.                                                                    *)
(* Mutant: a simultaneous read counts as late.                              *)
LateOrEqual(reader, time) == reader.time >= time

Late(reader, time) == reader.time > time

FirstReader(me) == <<me>>

(* Mutant: only the last reader is noted.                                   *)
LastReaderOnly(readers, me) == <<me>>

OneMoreReader(readers, me) == Append(readers, me)

ReadOutcome(record, c, time) ==
  LET me == [core |-> c, time |-> time] IN
  CASE record.state = "Vacant" -> [record |-> JustRead(FirstReader(me)), count |-> 0]
    [] record.state = "JustWrite" /\ time < record.time -> [record |-> record, count |-> 1]
    [] record.state = "JustWrite" /\ time >= record.time ->
         [record |-> JustRead(FirstReader(me)), count |-> 0]
    [] record.state = "JustRead" ->
         [record |-> JustRead(OneMoreReader(record.readers, me)), count |-> 0]
    [] record.state = "UnorderedWrite" -> [record |-> record, count |-> 1]

(* Mutant: the latest of unordered writes is forgotten for the last one.    *)
StillUnorderedLast(max, time) == UnorderedWrite(time)

StillUnordered(max, time) == UnorderedWrite(IF time > max THEN time ELSE max)

WriteOutcome(record, time) ==
  CASE record.state = "Vacant" -> [record |-> JustWrite(time), count |-> 0]
    [] record.state = "JustWrite" ->
         [record |-> IF time < record.time THEN StillUnordered(record.time, time)
                     ELSE JustWrite(time), count |-> 0]
    [] record.state = "JustRead" ->
         [record |-> JustWrite(time),
          count |-> Cardinality({i \in DOMAIN record.readers : Late(record.readers[i], time)})]
    [] record.state = "UnorderedWrite" ->
         [record |-> IF time > record.max THEN JustWrite(time)
                     ELSE StillUnordered(record.max, time), count |-> 0]

(* process_read and process_write: one critical section of the line's shard.*)
Process(c) ==
  /\ pending[c] # Idle
  /\ LET p == pending[c]
         outcome == IF p.op = "read" THEN ReadOutcome(records[p.line], c, p.time)
                    ELSE WriteOutcome(records[p.line], p.time)
     IN /\ records' = [records EXCEPT ![p.line] = outcome.record]
        /\ violations' = [violations EXCEPT ![c] = @ + outcome.count]
        /\ log' = [log EXCEPT ![p.line] =
             Append(@, [core |-> c, op |-> p.op, time |-> p.time, count |-> outcome.count])]
  /\ pending' = [pending EXCEPT ![c] = Idle]
  /\ UNCHANGED <<target, toClear, accesses, clears>>

(* clear_all, which a checkpoint calls; it locks one shard at a time.       *)
StartClear ==
  /\ toClear = {} /\ clears < MaxClears
  /\ clears' = clears + 1 /\ toClear' = Line
  /\ UNCHANGED <<target, records, pending, violations, accesses, log>>

(* Mutant: the record of a cleared line stays.                              *)
ClearedKept(l) == records[l]

Cleared(l) == Vacant

ClearShard(l) ==
  /\ l \in toClear
  /\ toClear' = toClear \ {l}
  /\ records' = [records EXCEPT ![l] = Cleared(l)]
  /\ log' = [log EXCEPT ![l] = <<>>]
  /\ UNCHANGED <<target, pending, violations, accesses, clears>>

(* The bounds are reached.                                                  *)
Halted ==
  /\ accesses = MaxAccesses /\ toClear = {}
  /\ \A c \in Core : pending[c] = Idle
  /\ UNCHANGED vars

Next ==
  \/ \E c \in Core :
       \/ Advance(c) \/ Process(c)
       \/ \E l \in Line, op \in {"read", "write"} : ReadTime(c, l, op)
  \/ StartClear
  \/ \E l \in Line : ClearShard(l)

Spec == Init /\ [][Next \/ Halted]_vars

(* ---- properties -------------------------------------------------------- *)
Reader == [core : Core, time : 0..MaxTime]

TypeOK ==
  /\ target \in [Core -> 0..MaxTime]
  /\ \A l \in Line :
       \/ records[l] = Vacant
       \/ \E t \in 0..MaxTime : records[l] \in {JustWrite(t), UnorderedWrite(t)}
       \/ /\ records[l].state = "JustRead"
          /\ Len(records[l].readers) \in 1..MaxAccesses
          /\ \A i \in DOMAIN records[l].readers : records[l].readers[i] \in Reader
  /\ violations \in [Core -> 0..(MaxAccesses * MaxAccesses)]
  /\ toClear \subseteq Line

Writes(s) == {i \in DOMAIN s : s[i].op = "write"}
AcceptedReads(s) == {i \in DOMAIN s : s[i].op = "read" /\ s[i].count = 0}
LastOf(indices) == Max(indices \cup {0})

(* Two accesses of a line that arrived in the wrong order.                  *)
Inverted(s, i, j) ==
  /\ i < j /\ s[i].time > s[j].time
  /\ s[i].core # s[j].core
  /\ "write" \in {s[i].op, s[j].op}

(* The record of a line, with which later accesses are judged, says what    *)
(* arrived since the checkpoint: the reads after the last write, or of the  *)
(* writes after the last read that was in order the last one, unless it     *)
(* came too late.                                                           *)
SummaryFaithful ==
  TypeOK /\ \A l \in Line :
    LET s == log[l]
        recent == {i \in Writes(s) : i > LastOf(AcceptedReads(s))}
        latest == Max({s[i].time : i \in recent})
    IN CASE s = <<>> -> records[l] = Vacant
         [] s # <<>> /\ recent = {} ->
              LET since == {i \in DOMAIN s : i > LastOf(Writes(s))} IN
              /\ records[l].state = "JustRead"
              /\ Len(records[l].readers) = Cardinality(AcceptedReads(s) \cap since)
              /\ \A i \in AcceptedReads(s) \cap since : \E k \in DOMAIN records[l].readers :
                   records[l].readers[k] = [core |-> s[i].core, time |-> s[i].time]
         [] recent # {} ->
              \/ records[l] = JustWrite(latest) /\ s[LastOf(recent)].time = latest
              \/ /\ records[l] = UnorderedWrite(latest)
                 /\ \E i, j \in recent : Inverted(s, i, j)

(* A violation is counted against a core only if accesses of two cores      *)
(* really arrived in the wrong order: a write is accused for each read it   *)
(* comes after although the read is later, a read once for a later write    *)
(* it comes after, or for writes before it that came in the wrong order.    *)
(* In the last case the read itself may have come in time: a core is also   *)
(* accused for what two others have done.                                   *)
AlarmsJustified ==
  [][\A c \in Core : violations'[c] > violations[c] =>
       \E l \in Line :
         LET s == log'[l]
             n == Len(s)
             early == {i \in DOMAIN s : Inverted(s, i, n)}
         IN /\ n = Len(log[l]) + 1 /\ s[n].core = c
            /\ \/ violations'[c] - violations[c] <= Cardinality(early)
               \/ /\ s[n].op = "read" /\ violations'[c] = violations[c] + 1
                  /\ \E i, j \in Writes(s) : Inverted(s, i, j)]_vars

(* What a neighbour can tell is never missed: a read whose last write       *)
(* before it is later, with no read in order between them, is accused, and  *)
(* a write once for every later read since the write before it.             *)
NeighboursCaught ==
  \A l \in Line : \A j \in DOMAIN log[l] :
    LET s == log[l]
        w == LastOf({i \in Writes(s) : i < j})
        reads == {i \in AcceptedReads(s) : w < i /\ i < j}
    IN IF s[j].op = "write"
       THEN s[j].count = Cardinality({i \in reads : s[i].time > s[j].time})
       ELSE w > 0 /\ reads = {} /\ s[w].time > s[j].time => s[j].count = 1
=============================================================================
