----------------------- MODULE CausalityDetectorProofs -----------------------
(* What the records of CausalityDetector say of the accesses they stand for,*)
(* for any number of cores, lines, times and accesses.                      *)
EXTENDS CausalityDetector, FiniteSetTheorems, FunctionTheorems, TLAPS

Time == 0..MaxTime
Access == [core : Core, op : {"read", "write"}, time : Time, count : Nat]
Request == [op : {"read", "write"}, line : Line, time : Time]

(* ---- a record and the accesses behind it ------------------------------- *)
Accepted(s, i) == s[i].op = "read" /\ s[i].count = 0
Refused(s, i) == s[i].op = "read" /\ s[i].count # 0

(* The last write of s is w, or there is none; the reads after it up to b   *)
(* were refused.                                                            *)
RefusedSince(s, w, b) ==
  /\ w \in 0..b /\ (w > 0 => s[w].op = "write")
  /\ \A i \in (w + 1)..b : Refused(s, i)

(* The readers are the accesses of s from index a on.                       *)
ReadSince(readers, s, a, w) ==
  /\ a \in 1..Len(s) /\ Len(readers) = Len(s) - a + 1
  /\ \A k \in 1..Len(readers) :
       /\ Accepted(s, a + k - 1)
       /\ readers[k] = [core |-> s[a + k - 1].core, time |-> s[a + k - 1].time]
  /\ RefusedSince(s, w, a - 1)

(* The last accepted read of s is q, or there is none; m is the latest time *)
(* of the writes after it, and w the last of them.                          *)
WrittenSince(s, m, w, q) ==
  /\ RefusedSince(s, w, Len(s))
  /\ q \in 0..(w - 1) /\ (q > 0 => Accepted(s, q))
  /\ \A i \in (q + 1)..Len(s) : ~Accepted(s, i) /\ (s[i].op = "write" => s[i].time <= m)
  /\ \E i \in (q + 1)..Len(s) : s[i].op = "write" /\ s[i].time = m

(* Two of the writes after q came in the wrong order.                       *)
Scrambled(s, q) == \E i, j \in (q + 1)..Len(s) :
  s[i].op = "write" /\ s[j].op = "write" /\ Inverted(s, i, j)

Summary(record, s) ==
  \/ record = Vacant /\ s = <<>>
  \/ \E readers \in Seq(Reader), a, w \in Nat :
       record = JustRead(readers) /\ ReadSince(readers, s, a, w)
  \/ \E m \in Time, w, q \in Nat :
       record = JustWrite(m) /\ WrittenSince(s, m, w, q) /\ s[w].time = m
  \/ \E m \in Time, w, q \in Nat :
       record = UnorderedWrite(m) /\ WrittenSince(s, m, w, q) /\ Scrambled(s, q)

(* An access appended to a log leaves what was said of the ones before it.  *)
LEMMA Appended ==
  ASSUME NEW s \in Seq(Access), NEW e \in Access, NEW t, t = Append(s, e)
  PROVE  /\ Len(s) \in Nat /\ Len(t) = Len(s) + 1 /\ t[Len(s) + 1] = e
         /\ DOMAIN s = 1..Len(s) /\ DOMAIN t = 1..(Len(s) + 1)
         /\ \A i \in 1..Len(s) : /\ t[i] = s[i]
                                 /\ Accepted(t, i) <=> Accepted(s, i)
                                 /\ Refused(t, i) <=> Refused(s, i)
         /\ \A i, j \in 1..Len(s) : Inverted(t, i, j) <=> Inverted(s, i, j)
<1>1. /\ Len(s) \in Nat /\ Len(t) = Len(s) + 1 /\ t[Len(s) + 1] = e
      /\ DOMAIN s = 1..Len(s) /\ DOMAIN t = 1..(Len(s) + 1)
      /\ \A i \in 1..Len(s) : t[i] = s[i]
  OBVIOUS
<1> QED BY <1>1 DEF Accepted, Refused, Inverted

(* The states of a record can be told apart.                                *)
LEMMA RecordStates ==
  /\ Vacant.state = "Vacant"
  /\ \A m : JustWrite(m).state = "JustWrite" /\ JustWrite(m).time = m
  /\ \A m : UnorderedWrite(m).state = "UnorderedWrite" /\ UnorderedWrite(m).max = m
  /\ \A readers : /\ JustRead(readers).state = "JustRead"
                  /\ JustRead(readers).readers = readers
BY DEF Vacant, JustWrite, UnorderedWrite, JustRead

(* How the detector notes a reader.                                         *)
Noted(c, time) == [core |-> c, time |-> time]

LEMMA ReadCases ==
  ASSUME NEW c, NEW time \in Int
  PROVE  /\ ReadOutcome(Vacant, c, time) = [record |-> JustRead(<<Noted(c, time)>>), count |-> 0]
         /\ \A readers : ReadOutcome(JustRead(readers), c, time)
                         = [record |-> JustRead(Append(readers, Noted(c, time))), count |-> 0]
         /\ \A m \in Int : time < m =>
              ReadOutcome(JustWrite(m), c, time) = [record |-> JustWrite(m), count |-> 1]
         /\ \A m \in Int : ~(time < m) =>
              ReadOutcome(JustWrite(m), c, time)
              = [record |-> JustRead(<<Noted(c, time)>>), count |-> 0]
         /\ \A m : ReadOutcome(UnorderedWrite(m), c, time)
                   = [record |-> UnorderedWrite(m), count |-> 1]
<1> USE DEF ReadOutcome, FirstReader, OneMoreReader, Noted
<1>1. ReadOutcome(Vacant, c, time) = [record |-> JustRead(<<Noted(c, time)>>), count |-> 0]
  BY RecordStates
<1>2. ASSUME NEW readers
      PROVE  ReadOutcome(JustRead(readers), c, time)
             = [record |-> JustRead(Append(readers, Noted(c, time))), count |-> 0]
  BY RecordStates
<1>3. ASSUME NEW m \in Int, time < m
      PROVE  ReadOutcome(JustWrite(m), c, time) = [record |-> JustWrite(m), count |-> 1]
  <2> DEFINE r == JustWrite(m)
  <2>1. r.state = "JustWrite" /\ r.time = m
    BY RecordStates
  <2>2. HIDE DEF r
  <2>3. ~(time >= r.time) /\ time < r.time
    BY <1>3, <2>1
  <2>4. ReadOutcome(r, c, time) = [record |-> r, count |-> 1]
    BY <2>1, <2>3
  <2> QED BY <2>4 DEF r
<1>4. ASSUME NEW m \in Int, ~(time < m)
      PROVE  ReadOutcome(JustWrite(m), c, time)
             = [record |-> JustRead(<<Noted(c, time)>>), count |-> 0]
  <2> DEFINE r == JustWrite(m)
  <2>1. r.state = "JustWrite" /\ r.time = m
    BY RecordStates
  <2>2. HIDE DEF r
  <2>3. time >= r.time /\ ~(time < r.time)
    BY <1>4, <2>1
  <2>4. ReadOutcome(r, c, time) = [record |-> JustRead(<<Noted(c, time)>>), count |-> 0]
    BY <2>1, <2>3
  <2> QED BY <2>4 DEF r
<1>5. ASSUME NEW m
      PROVE  ReadOutcome(UnorderedWrite(m), c, time) = [record |-> UnorderedWrite(m), count |-> 1]
  BY RecordStates
<1> QED BY <1>1, <1>2, <1>3, <1>4, <1>5

(* What a read does to a record, in each of its states.                     *)
LEMMA ReadCounts ==
  ASSUME NEW s, NEW record, Summary(record, s), NEW c, NEW time \in Time
  PROVE  ReadOutcome(record, c, time).count \in {0, 1}
<1>0. time \in Int /\ Time \subseteq Int
  BY DEF Time
<1>a. ASSUME NEW r, NEW k \in {0, 1}, ReadOutcome(record, c, time) = [record |-> r, count |-> k]
      PROVE  ReadOutcome(record, c, time).count \in {0, 1}
  BY <1>a
<1>1. CASE record = Vacant
  <2>1. ReadOutcome(Vacant, c, time) = [record |-> JustRead(<<Noted(c, time)>>), count |-> 0]
    BY <1>0, ReadCases
  <2> QED BY <1>1, <1>a, <2>1
<1>2. ASSUME NEW readers, record = JustRead(readers)
      PROVE  ReadOutcome(record, c, time).count \in {0, 1}
  <2>1. ReadOutcome(JustRead(readers), c, time)
        = [record |-> JustRead(Append(readers, Noted(c, time))), count |-> 0]
    BY <1>0, ReadCases
  <2> QED BY <1>2, <1>a, <2>1
<1>3. ASSUME NEW m \in Time, record = JustWrite(m)
      PROVE  ReadOutcome(record, c, time).count \in {0, 1}
  <2>1. CASE time < m
    <3>1. ReadOutcome(JustWrite(m), c, time) = [record |-> JustWrite(m), count |-> 1]
      BY <1>0, <2>1, ReadCases
    <3> QED BY <1>3, <1>a, <3>1
  <2>2. CASE ~(time < m)
    <3>1. ReadOutcome(JustWrite(m), c, time)
          = [record |-> JustRead(<<Noted(c, time)>>), count |-> 0]
      BY <1>0, <2>2, ReadCases
    <3> QED BY <1>3, <1>a, <3>1
  <2> QED BY <2>1, <2>2
<1>4. ASSUME NEW m \in Time, record = UnorderedWrite(m)
      PROVE  ReadOutcome(record, c, time).count \in {0, 1}
  <2>1. ReadOutcome(UnorderedWrite(m), c, time) = [record |-> UnorderedWrite(m), count |-> 1]
    BY <1>0, ReadCases
  <2> QED BY <1>4, <1>a, <2>1
<1> QED BY <1>1, <1>2, <1>3, <1>4 DEF Summary

(* A read that is not accused is noted, and one that is leaves the record.  *)
LEMMA ReadSummary ==
  ASSUME NEW s \in Seq(Access), NEW record, Summary(record, s),
         NEW c \in Core, NEW time \in Time, NEW outcome, outcome = ReadOutcome(record, c, time),
         NEW e, e = [core |-> c, op |-> "read", time |-> time, count |-> outcome.count]
  PROVE  e \in Access /\ Summary(outcome.record, Append(s, e))
<1> PICK t : t = Append(s, e)
  OBVIOUS
<1> PICK n \in Nat : n = Len(s)
  OBVIOUS
<1> PICK me : me = Noted(c, time)
  OBVIOUS
<1>a. /\ me \in Reader /\ me = [core |-> c, time |-> time]
      /\ time \in Int /\ Time \subseteq Int
  BY DEF Reader, Time, Noted
<1>0. outcome.count \in {0, 1}
  BY ReadCounts
<1>b. /\ e \in Access /\ e.op = "read" /\ e.count = outcome.count
      /\ e.core = c /\ e.time = time
  BY <1>0 DEF Access
<1>c. /\ Len(t) = n + 1 /\ t[n + 1] = e
      /\ \A i \in 1..n : /\ t[i] = s[i]
                         /\ Accepted(t, i) <=> Accepted(s, i)
                         /\ Refused(t, i) <=> Refused(s, i)
      /\ \A i, j \in 1..n : Inverted(t, i, j) <=> Inverted(s, i, j)
  <2>1. e \in Access
    BY <1>b
  <2>2. Len(t) = n + 1 /\ t[n + 1] = e /\ \A i \in 1..n : t[i] = s[i]
    BY <2>1, Appended
  <2> QED BY <2>2 DEF Accepted, Refused, Inverted
<1>d. /\ outcome.count = 0 => Accepted(t, n + 1)
      /\ outcome.count = 1 => Refused(t, n + 1) /\ ~Accepted(t, n + 1)
  BY <1>b, <1>c DEF Accepted, Refused
<1>e. ASSUME outcome = [record |-> JustRead(<<me>>), count |-> 0],
             NEW w \in Nat, RefusedSince(s, w, n)
      PROVE  Summary(outcome.record, t)
  <2>1. outcome.record = JustRead(<<me>>) /\ outcome.count = 0
    BY <1>e
  <2>2. ReadSince(<<me>>, t, n + 1, w)
    <3>1. RefusedSince(t, w, n)
      BY <1>c, <1>e, <2>1 DEF RefusedSince
    <3>2. /\ Len(<<me>>) = 1 /\ <<me>>[1] = me
          /\ me = [core |-> t[n + 1].core, time |-> t[n + 1].time]
      BY <1>a, <1>b, <1>c, <2>1
    <3>3. \A k \in 1..Len(<<me>>) : k = 1
      BY <3>2
    <3> QED BY <1>c, <1>d, <2>1, <3>1, <3>2, <3>3 DEF ReadSince
  <2>3. <<me>> \in Seq(Reader)
    BY <1>a
  <2>4. \E readers \in Seq(Reader), a, v \in Nat :
          outcome.record = JustRead(readers) /\ ReadSince(readers, t, a, v)
    <3>1. n + 1 \in Nat
      OBVIOUS
    <3> QED BY <2>1, <2>2, <2>3, <3>1, Zenon
  <2> QED BY <2>4 DEF Summary
<1>f. ASSUME outcome.count = 1, NEW m, NEW w \in Nat, NEW q \in Nat, WrittenSince(s, m, w, q)
      PROVE  WrittenSince(t, m, w, q) /\ t[w] = s[w] /\ (Scrambled(s, q) => Scrambled(t, q))
  <2>0. Refused(t, n + 1) /\ ~Accepted(t, n + 1) /\ t[n + 1].op = "read"
    BY <1>b, <1>c, <1>d, <1>f
  <2>1. /\ w \in 1..n /\ q \in 0..(w - 1)
        /\ \A i \in (w + 1)..Len(t) : i \in (w + 1)..n \/ i = n + 1
        /\ \A i \in (q + 1)..Len(t) : i \in (q + 1)..n \/ i = n + 1
        /\ \A i \in (q + 1)..n : i \in (q + 1)..Len(t)
    BY <1>c, <1>f DEF WrittenSince, RefusedSince
  <2>2. RefusedSince(t, w, Len(t))
    <3>1. w \in 0..Len(t) /\ (w > 0 => t[w].op = "write")
      BY <1>c, <1>f, <2>1 DEF WrittenSince, RefusedSince
    <3>2. \A i \in (w + 1)..n : Refused(s, i)
      BY <1>f DEF WrittenSince, RefusedSince
    <3>3. \A i \in (w + 1)..Len(t) : Refused(t, i)
      BY <1>c, <2>0, <2>1, <3>2
    <3> QED BY <3>1, <3>3 DEF RefusedSince
  <2>3. \A i \in (q + 1)..Len(t) : ~Accepted(t, i) /\ (t[i].op = "write" => t[i].time <= m)
    <3>1. \A i \in (q + 1)..n : ~Accepted(s, i) /\ (s[i].op = "write" => s[i].time <= m)
      BY <1>f DEF WrittenSince
    <3> QED BY <1>c, <2>0, <2>1, <3>1
  <2>4. \E i \in (q + 1)..Len(t) : t[i].op = "write" /\ t[i].time = m
    BY <1>c, <1>f, <2>1 DEF WrittenSince
  <2>5. q > 0 => Accepted(t, q)
    BY <1>c, <1>f, <2>1 DEF WrittenSince
  <2>6. Scrambled(s, q) => Scrambled(t, q)
    BY <1>c, <1>f, <2>1 DEF Scrambled
  <2> QED BY <1>c, <2>1, <2>2, <2>3, <2>4, <2>5, <2>6 DEF WrittenSince
<1>1. CASE record = Vacant /\ s = <<>>
  <2>1. n = 0 /\ RefusedSince(s, 0, n)
    BY <1>1 DEF RefusedSince
  <2>2. ReadOutcome(Vacant, c, time) = [record |-> JustRead(<<me>>), count |-> 0]
    BY <1>a, ReadCases
  <2>3. outcome = [record |-> JustRead(<<me>>), count |-> 0]
    BY <1>1, <2>2
  <2>4. RefusedSince(s, 0, n) /\ 0 \in Nat
    BY <2>1
  <2> QED BY <1>b, <1>e, <2>3, <2>4
<1>2. ASSUME NEW readers \in Seq(Reader), NEW a \in Nat, NEW w \in Nat,
             record = JustRead(readers), ReadSince(readers, s, a, w)
      PROVE  Summary(outcome.record, t)
  <2> PICK more : more = Append(readers, me)
    OBVIOUS
  <2>0. /\ more \in Seq(Reader)
        /\ Len(more) = Len(readers) + 1 /\ more[Len(readers) + 1] = me
        /\ \A k \in 1..Len(readers) : more[k] = readers[k]
    BY <1>a
  <2>1. outcome.record = JustRead(more) /\ outcome.count = 0
    <3>1. ReadOutcome(JustRead(readers), c, time) = [record |-> JustRead(more), count |-> 0]
      BY <1>a, ReadCases
    <3>2. outcome = [record |-> JustRead(more), count |-> 0]
      BY <1>2, <3>1
    <3> QED BY <3>2
  <2>2. a \in 1..n /\ Len(readers) \in Nat /\ Len(readers) = n - a + 1
    BY <1>2 DEF ReadSince
  <2>4. ASSUME NEW k \in 1..Len(more)
        PROVE  /\ Accepted(t, a + k - 1)
               /\ more[k] = [core |-> t[a + k - 1].core, time |-> t[a + k - 1].time]
    <3>1. CASE k \in 1..Len(readers)
      <4>1. a + k - 1 \in 1..n
        BY <2>2, <3>1
      <4>2. /\ Accepted(s, a + k - 1)
            /\ readers[k] = [core |-> s[a + k - 1].core, time |-> s[a + k - 1].time]
        BY <1>2, <3>1 DEF ReadSince
      <4> QED BY <1>c, <2>0, <3>1, <4>1, <4>2
    <3>2. CASE k = Len(readers) + 1
      <4>1. a + k - 1 = n + 1
        BY <2>2, <3>2
      <4>2. more[k] = me /\ Accepted(t, n + 1)
        BY <1>d, <2>0, <2>1, <3>2
      <4>3. more[k] = [core |-> t[n + 1].core, time |-> t[n + 1].time]
        BY <1>a, <1>b, <1>c, <4>2
      <4> QED BY <4>1, <4>2, <4>3
    <3>3. k \in 1..Len(readers) \/ k = Len(readers) + 1
      BY <2>0, <2>2
    <3> QED BY <3>1, <3>2, <3>3
  <2>5. RefusedSince(t, w, a - 1)
    <3>1. RefusedSince(s, w, a - 1)
      BY <1>2 DEF ReadSince
    <3> QED BY <1>c, <2>2, <3>1 DEF RefusedSince
  <2>6. ReadSince(more, t, a, w)
    <3>1. a \in 1..Len(t) /\ Len(more) = Len(t) - a + 1
      BY <1>c, <2>0, <2>2
    <3> QED BY <2>4, <2>5, <3>1 DEF ReadSince
  <2> QED BY <2>0, <2>1, <2>6 DEF Summary
<1>3. ASSUME NEW m \in Time, NEW w \in Nat, NEW q \in Nat,
             record = JustWrite(m), WrittenSince(s, m, w, q), s[w].time = m
      PROVE  Summary(outcome.record, t)
  <2>1. CASE time < m
    <3>1. ReadOutcome(JustWrite(m), c, time) = [record |-> JustWrite(m), count |-> 1]
      BY <1>a, <2>1, ReadCases
    <3>2. outcome.record = JustWrite(m) /\ outcome.count = 1
      BY <1>3, <3>1
    <3>3. WrittenSince(t, m, w, q) /\ t[w].time = m
      BY <1>3, <1>f, <3>2
    <3> QED BY <3>2, <3>3 DEF Summary
  <2>2. CASE ~(time < m)
    <3>1. ReadOutcome(JustWrite(m), c, time) = [record |-> JustRead(<<me>>), count |-> 0]
      BY <1>a, <2>2, ReadCases
    <3>2. outcome = [record |-> JustRead(<<me>>), count |-> 0]
      BY <1>3, <3>1
    <3>3. RefusedSince(s, w, n)
      BY <1>3 DEF WrittenSince
    <3> QED BY <1>e, <3>2, <3>3
  <2> QED BY <2>1, <2>2
<1>4. ASSUME NEW m \in Time, NEW w \in Nat, NEW q \in Nat,
             record = UnorderedWrite(m), WrittenSince(s, m, w, q), Scrambled(s, q)
      PROVE  Summary(outcome.record, t)
  <2>1. ReadOutcome(UnorderedWrite(m), c, time) = [record |-> UnorderedWrite(m), count |-> 1]
    BY <1>a, ReadCases
  <2>2. outcome.record = UnorderedWrite(m) /\ outcome.count = 1
    BY <1>4, <2>1
  <2>3. WrittenSince(t, m, w, q) /\ Scrambled(t, q)
    BY <1>4, <1>f, <2>2
  <2> QED BY <2>2, <2>3 DEF Summary
<1> QED BY <1>1, <1>2, <1>3, <1>4, <1>b DEF Summary

(* What a write does to a record, in each of its states.                    *)
LateOf(readers, time) == {i \in DOMAIN readers : Late(readers[i], time)}

LEMMA WriteCases ==
  ASSUME NEW time \in Int
  PROVE  /\ WriteOutcome(Vacant, time) = [record |-> JustWrite(time), count |-> 0]
         /\ \A readers : WriteOutcome(JustRead(readers), time)
                         = [record |-> JustWrite(time), count |-> Cardinality(LateOf(readers, time))]
         /\ \A m \in Int : time < m =>
              WriteOutcome(JustWrite(m), time) = [record |-> UnorderedWrite(m), count |-> 0]
         /\ \A m \in Int : ~(time < m) =>
              WriteOutcome(JustWrite(m), time) = [record |-> JustWrite(time), count |-> 0]
         /\ \A m \in Int : time > m =>
              WriteOutcome(UnorderedWrite(m), time) = [record |-> JustWrite(time), count |-> 0]
         /\ \A m \in Int : ~(time > m) =>
              WriteOutcome(UnorderedWrite(m), time) = [record |-> UnorderedWrite(m), count |-> 0]
<1> USE DEF WriteOutcome
<1>1. WriteOutcome(Vacant, time) = [record |-> JustWrite(time), count |-> 0]
  BY RecordStates
<1>2. ASSUME NEW readers
      PROVE  WriteOutcome(JustRead(readers), time)
             = [record |-> JustWrite(time), count |-> Cardinality(LateOf(readers, time))]
  <2> DEFINE r == JustRead(readers)
  <2>1. r.state = "JustRead" /\ r.readers = readers
    BY RecordStates
  <2>2. HIDE DEF r
  <2>3. WriteOutcome(r, time)
        = [record |-> JustWrite(time),
           count |-> Cardinality({i \in DOMAIN r.readers : Late(r.readers[i], time)})]
    BY <2>1
  <2> QED BY <2>1, <2>3 DEF r, LateOf
<1>3. ASSUME NEW m \in Int
      PROVE  /\ time < m =>
                  WriteOutcome(JustWrite(m), time) = [record |-> UnorderedWrite(m), count |-> 0]
             /\ ~(time < m) =>
                  WriteOutcome(JustWrite(m), time) = [record |-> JustWrite(time), count |-> 0]
  <2> DEFINE r == JustWrite(m)
  <2>1. r.state = "JustWrite" /\ r.time = m
    BY RecordStates
  <2>2. HIDE DEF r
  <2>3. WriteOutcome(r, time)
        = [record |-> IF time < m THEN StillUnordered(m, time) ELSE JustWrite(time), count |-> 0]
    BY <2>1
  <2>4. time < m => StillUnordered(m, time) = UnorderedWrite(m)
    BY DEF StillUnordered
  <2> QED BY <2>3, <2>4 DEF r
<1>4. ASSUME NEW m \in Int
      PROVE  /\ time > m =>
                  WriteOutcome(UnorderedWrite(m), time) = [record |-> JustWrite(time), count |-> 0]
             /\ ~(time > m) =>
                  WriteOutcome(UnorderedWrite(m), time) = [record |-> UnorderedWrite(m), count |-> 0]
  <2> DEFINE r == UnorderedWrite(m)
  <2>1. r.state = "UnorderedWrite" /\ r.max = m
    BY RecordStates
  <2>2. HIDE DEF r
  <2>3. WriteOutcome(r, time)
        = [record |-> IF time > m THEN JustWrite(time) ELSE StillUnordered(m, time), count |-> 0]
    BY <2>1
  <2>4. ~(time > m) => StillUnordered(m, time) = UnorderedWrite(m)
    BY DEF StillUnordered
  <2> QED BY <2>3, <2>4 DEF r
<1> QED BY <1>1, <1>2, <1>3, <1>4

(* A write is accused at most once for every access before it.              *)
LEMMA WriteCounts ==
  ASSUME NEW s \in Seq(Access), NEW record, Summary(record, s), NEW time \in Time
  PROVE  /\ WriteOutcome(record, time).count \in Nat
         /\ WriteOutcome(record, time).count <= Len(s)
<1>0. time \in Int /\ Time \subseteq Int /\ Len(s) \in Nat
  BY DEF Time
<1>a. ASSUME NEW r, WriteOutcome(record, time) = [record |-> r, count |-> 0]
      PROVE  /\ WriteOutcome(record, time).count \in Nat
             /\ WriteOutcome(record, time).count <= Len(s)
  BY <1>0, <1>a
<1>1. CASE record = Vacant
  <2>1. WriteOutcome(Vacant, time) = [record |-> JustWrite(time), count |-> 0]
    BY <1>0, WriteCases
  <2> QED BY <1>1, <1>a, <2>1
<1>2. ASSUME NEW readers \in Seq(Reader), NEW a \in Nat, NEW w \in Nat,
             record = JustRead(readers), ReadSince(readers, s, a, w)
      PROVE  /\ WriteOutcome(record, time).count \in Nat
             /\ WriteOutcome(record, time).count <= Len(s)
  <2>1. WriteOutcome(JustRead(readers), time)
        = [record |-> JustWrite(time), count |-> Cardinality(LateOf(readers, time))]
    BY <1>0, WriteCases
  <2>2. /\ Len(readers) \in Nat /\ Len(readers) <= Len(s)
        /\ LateOf(readers, time) \subseteq 1..Len(readers)
    BY <1>2 DEF ReadSince, LateOf
  <2>3. /\ IsFiniteSet(1..Len(readers)) /\ Cardinality(1..Len(readers)) = Len(readers)
    <3>1. 1 \in Int /\ Len(readers) \in Int /\ Len(readers) - 1 + 1 = Len(readers)
      BY <2>2
    <3>2. ~(1 > Len(readers))
      BY <1>2 DEF ReadSince
    <3> QED BY <3>1, <3>2, FS_Interval
  <2>4. /\ Cardinality(LateOf(readers, time)) \in Nat
        /\ Cardinality(LateOf(readers, time)) <= Len(readers)
    BY <2>2, <2>3, FS_Subset, FS_CardinalityType
  <2>5. WriteOutcome(record, time).count = Cardinality(LateOf(readers, time))
    BY <1>2, <2>1
  <2> QED BY <1>0, <2>2, <2>4, <2>5
<1>3. ASSUME NEW m \in Time, record = JustWrite(m) \/ record = UnorderedWrite(m)
      PROVE  /\ WriteOutcome(record, time).count \in Nat
             /\ WriteOutcome(record, time).count <= Len(s)
  <2>1. \E r : WriteOutcome(JustWrite(m), time) = [record |-> r, count |-> 0]
    BY <1>0, WriteCases
  <2>2. \E r : WriteOutcome(UnorderedWrite(m), time) = [record |-> r, count |-> 0]
    BY <1>0, WriteCases
  <2>3. PICK r : WriteOutcome(record, time) = [record |-> r, count |-> 0]
    BY <1>3, <2>1, <2>2
  <2> QED BY <1>a, <2>3
<1> QED BY <1>1, <1>2, <1>3 DEF Summary

(* A write becomes the last write of its line.  A core's own accesses come  *)
(* in order, so the later write it finds is another core's.                 *)
LEMMA WriteSummary ==
  ASSUME NEW s \in Seq(Access), NEW record, Summary(record, s),
         NEW c \in Core, NEW time \in Time, NEW outcome, outcome = WriteOutcome(record, time),
         \A i \in 1..Len(s) : s[i].core = c => s[i].time <= time,
         NEW e, e = [core |-> c, op |-> "write", time |-> time, count |-> outcome.count]
  PROVE  e \in Access /\ Summary(outcome.record, Append(s, e))
<1> PICK t : t = Append(s, e)
  OBVIOUS
<1> PICK n \in Nat : n = Len(s)
  OBVIOUS
<1>a. time \in Int /\ Time \subseteq Int
  BY DEF Time
<1>0. outcome.count \in Nat
  BY WriteCounts
<1>b. /\ e \in Access /\ e.op = "write" /\ e.count = outcome.count
      /\ e.core = c /\ e.time = time
  BY <1>0 DEF Access
<1>c. /\ Len(t) = n + 1 /\ t[n + 1] = e
      /\ \A i \in 1..n : /\ t[i] = s[i] /\ s[i].time \in Int
                         /\ Accepted(t, i) <=> Accepted(s, i)
                         /\ Refused(t, i) <=> Refused(s, i)
      /\ \A i, j \in 1..n : Inverted(t, i, j) <=> Inverted(s, i, j)
  <2>1. e \in Access
    BY <1>b
  <2>2. Len(t) = n + 1 /\ t[n + 1] = e /\ \A i \in 1..n : t[i] = s[i]
    BY <2>1, Appended
  <2>3. ASSUME NEW i \in 1..n
        PROVE  s[i].time \in Int
    <3>1. s[i] \in Access
      OBVIOUS
    <3> QED BY <1>a, <3>1 DEF Access
  <2> QED BY <2>2, <2>3 DEF Accepted, Refused, Inverted
<1>d. ~Accepted(t, n + 1) /\ t[n + 1].op = "write" /\ t[n + 1].time = time
  BY <1>b, <1>c DEF Accepted
<1>e. RefusedSince(t, n + 1, Len(t))
  BY <1>c, <1>d DEF RefusedSince
<1>f. ASSUME NEW m \in Time, NEW w \in Nat, NEW q \in Nat, WrittenSince(s, m, w, q),
             NEW later \in Time, (later = m /\ time <= m) \/ (later = time /\ m <= time)
      PROVE  WrittenSince(t, later, n + 1, q) /\ (Scrambled(s, q) => Scrambled(t, q))
  <2>0. w \in 1..n /\ q \in 0..(w - 1)
    BY <1>f DEF WrittenSince, RefusedSince
  <2>1. /\ \A i \in (q + 1)..Len(t) : i \in (q + 1)..n \/ i = n + 1
        /\ \A i \in (q + 1)..n : i \in (q + 1)..Len(t) /\ i \in 1..n
        /\ n + 1 \in (q + 1)..Len(t) /\ q \in 0..n
    <3>1. Len(t) = n + 1 /\ w \in Int /\ w <= n /\ q \in Int /\ 0 <= q /\ q < w
      BY <1>c, <2>0
    <3> QED BY <3>1
  <2>2. m \in Int /\ later \in Int /\ m <= later /\ time <= later
    BY <1>a, <1>f
  <2>3. \A i \in (q + 1)..Len(t) : ~Accepted(t, i) /\ (t[i].op = "write" => t[i].time <= later)
    <3>1. \A i \in (q + 1)..n : ~Accepted(s, i) /\ (s[i].op = "write" => s[i].time <= m)
      BY <1>f DEF WrittenSince
    <3>2. \A i \in (q + 1)..n : s[i].op = "write" => s[i].time <= later
      BY <1>c, <2>1, <2>2, <3>1
    <3> QED BY <1>c, <1>d, <2>1, <2>2, <3>1, <3>2
  <2>4. \E i \in (q + 1)..Len(t) : t[i].op = "write" /\ t[i].time = later
    <3>1. \E i \in (q + 1)..n : s[i].op = "write" /\ s[i].time = m
      BY <1>f DEF WrittenSince
    <3> QED BY <1>c, <1>d, <1>f, <2>1, <3>1
  <2>5. q > 0 => Accepted(t, q)
    BY <1>c, <1>f, <2>1 DEF WrittenSince
  <2>6. Scrambled(s, q) => Scrambled(t, q)
    BY <1>c, <1>f, <2>1 DEF Scrambled
  <2> QED BY <1>e, <2>1, <2>3, <2>4, <2>5, <2>6 DEF WrittenSince
<1>k. ASSUME NEW m \in Time, NEW w \in Nat, NEW q \in Nat, WrittenSince(s, m, w, q), m <= time
      PROVE  WrittenSince(t, time, n + 1, q)
  <2> PICK later \in Time : later = time
    OBVIOUS
  <2>1. later = time /\ m <= time
    BY <1>k
  <2>2. WrittenSince(t, later, n + 1, q)
    BY <1>k, <1>f, <2>1, Zenon
  <2> QED BY <2>1, <2>2
<1>l. ASSUME NEW m \in Time, NEW w \in Nat, NEW q \in Nat, WrittenSince(s, m, w, q), time <= m
      PROVE  WrittenSince(t, m, n + 1, q) /\ (Scrambled(s, q) => Scrambled(t, q))
  BY <1>l, <1>f, Zenon
<1>g. ASSUME NEW q \in Nat, outcome.record = JustWrite(time), WrittenSince(t, time, n + 1, q)
      PROVE  e \in Access /\ Summary(outcome.record, Append(s, e))
  <2>1. \E m \in Time, w, v \in Nat :
          outcome.record = JustWrite(m) /\ WrittenSince(t, m, w, v) /\ t[w].time = m
    BY <1>d, <1>g
  <2> QED BY <1>b, <2>1 DEF Summary
<1>h. ASSUME NEW m \in Time, NEW q \in Nat, outcome.record = UnorderedWrite(m),
             WrittenSince(t, m, n + 1, q), Scrambled(t, q)
      PROVE  e \in Access /\ Summary(outcome.record, Append(s, e))
  <2>1. \E l \in Time, w, v \in Nat :
          outcome.record = UnorderedWrite(l) /\ WrittenSince(t, l, w, v) /\ Scrambled(t, v)
    BY <1>h
  <2> QED BY <1>b, <2>1 DEF Summary
<1>1. CASE record = Vacant /\ s = <<>>
  <2>1. WriteOutcome(Vacant, time) = [record |-> JustWrite(time), count |-> 0]
    BY <1>a, WriteCases
  <2>2. outcome.record = JustWrite(time)
    BY <1>1, <2>1
  <2>3. n = 0
    BY <1>1
  <2>4. WrittenSince(t, time, n + 1, 0)
    BY <1>a, <1>c, <1>d, <1>e, <2>3 DEF WrittenSince
  <2> QED BY <1>g, <2>2, <2>4
<1>2. ASSUME NEW readers \in Seq(Reader), NEW a \in Nat, NEW w \in Nat,
             record = JustRead(readers), ReadSince(readers, s, a, w)
      PROVE  e \in Access /\ Summary(outcome.record, Append(s, e))
  <2>1. WriteOutcome(JustRead(readers), time)
        = [record |-> JustWrite(time), count |-> Cardinality(LateOf(readers, time))]
    BY <1>a, WriteCases
  <2>2. outcome.record = JustWrite(time)
    BY <1>2, <2>1
  <2>3. /\ n \in 1..n /\ a \in 1..n /\ Len(readers) = n - a + 1
    BY <1>2 DEF ReadSince
  <2>4. Accepted(s, n)
    <3>1. Len(readers) \in 1..Len(readers) /\ a + Len(readers) - 1 = n
      BY <2>3
    <3> QED BY <1>2, <3>1 DEF ReadSince
  <2>5. WrittenSince(t, time, n + 1, n)
    BY <1>a, <1>c, <1>d, <1>e, <2>3, <2>4 DEF WrittenSince
  <2> QED BY <1>g, <2>2, <2>5
<1>3. ASSUME NEW m \in Time, NEW w \in Nat, NEW q \in Nat,
             record = JustWrite(m), WrittenSince(s, m, w, q), s[w].time = m
      PROVE  e \in Access /\ Summary(outcome.record, Append(s, e))
  <2>1. CASE time < m
    <3>1. WriteOutcome(JustWrite(m), time) = [record |-> UnorderedWrite(m), count |-> 0]
      BY <1>a, <2>1, WriteCases
    <3>2. outcome.record = UnorderedWrite(m)
      BY <1>3, <3>1
    <3>3. WrittenSince(t, m, n + 1, q)
      <4>0. m \in Int /\ time \in Int
        BY <1>a
      <4>1. time <= m
        BY <2>1, <4>0
      <4> QED BY <1>3, <1>l, <4>1, Zenon
    <3>4. Scrambled(t, q)
      <4>1. w \in 1..n /\ w \in (q + 1)..n /\ s[w].op = "write" /\ q \in 0..n
        BY <1>3 DEF WrittenSince, RefusedSince
      <4>2. s[w].core # c
        BY <1>3, <1>a, <2>1, <4>1
      <4>3. Inverted(t, w, n + 1)
        BY <1>3, <1>a, <1>b, <1>c, <1>d, <2>1, <4>1, <4>2 DEF Inverted
      <4> QED BY <1>c, <1>d, <4>1, <4>3 DEF Scrambled
    <3> QED BY <1>h, <3>2, <3>3, <3>4
  <2>2. CASE ~(time < m)
    <3>1. WriteOutcome(JustWrite(m), time) = [record |-> JustWrite(time), count |-> 0]
      BY <1>a, <2>2, WriteCases
    <3>2. outcome.record = JustWrite(time)
      BY <1>3, <3>1
    <3>3. WrittenSince(t, time, n + 1, q)
      <4>0. m \in Int /\ time \in Int
        BY <1>a
      <4>1. m <= time
        BY <2>2, <4>0
      <4> QED BY <1>3, <1>k, <4>1, Zenon
    <3> QED BY <1>g, <3>2, <3>3
  <2> QED BY <2>1, <2>2
<1>4. ASSUME NEW m \in Time, NEW w \in Nat, NEW q \in Nat,
             record = UnorderedWrite(m), WrittenSince(s, m, w, q), Scrambled(s, q)
      PROVE  e \in Access /\ Summary(outcome.record, Append(s, e))
  <2>1. CASE time > m
    <3>1. WriteOutcome(UnorderedWrite(m), time) = [record |-> JustWrite(time), count |-> 0]
      BY <1>a, <2>1, WriteCases
    <3>2. outcome.record = JustWrite(time)
      BY <1>4, <3>1
    <3>3. WrittenSince(t, time, n + 1, q)
      <4>0. m \in Int /\ time \in Int
        BY <1>a
      <4>1. m <= time
        BY <2>1, <4>0
      <4> QED BY <1>4, <1>k, <4>1, Zenon
    <3> QED BY <1>g, <3>2, <3>3
  <2>2. CASE ~(time > m)
    <3>1. WriteOutcome(UnorderedWrite(m), time) = [record |-> UnorderedWrite(m), count |-> 0]
      BY <1>a, <2>2, WriteCases
    <3>2. outcome.record = UnorderedWrite(m)
      BY <1>4, <3>1
    <3>3. WrittenSince(t, m, n + 1, q) /\ Scrambled(t, q)
      <4>0. m \in Int /\ time \in Int
        BY <1>a
      <4>1. time <= m
        BY <2>2, <4>0
      <4> QED BY <1>4, <1>l, <4>1, Zenon
    <3> QED BY <1>h, <3>2, <3>3
  <2> QED BY <2>1, <2>2
<1> QED BY <1>1, <1>2, <1>3, <1>4 DEF Summary

(* ---- which accesses a record stands for -------------------------------- *)
LEMMA LastIs ==
  ASSUME NEW I \in SUBSET Nat, NEW x \in Nat, x \in I \cup {0}, \A i \in I : i <= x
  PROVE  LastOf(I) = x
<1>1. \A i \in I \cup {0} : i \in Nat /\ x >= i
  OBVIOUS
<1>2. \A y \in I \cup {0} : (\A i \in I \cup {0} : y >= i) => y = x
  BY <1>1
<1> QED BY <1>1, <1>2 DEF LastOf, Max

(* The readers of a record are the accepted reads since the last write, and *)
(* there is none before it that counts.                                     *)
LEMMA ReadersOf ==
  ASSUME NEW s \in Seq(Access), NEW readers \in Seq(Reader), NEW a \in Nat, NEW w \in Nat,
         ReadSince(readers, s, a, w)
  PROVE  /\ LastOf(Writes(s)) = w /\ LastOf(AcceptedReads(s)) = Len(s)
         /\ {i \in AcceptedReads(s) : w < i} = a..Len(s)
<1> PICK n \in Nat : n = Len(s)
  OBVIOUS
<1>1. /\ a \in 1..n /\ Len(readers) = n - a + 1 /\ DOMAIN s = 1..n
      /\ w \in 0..(a - 1) /\ (w > 0 => s[w].op = "write")
      /\ \A i \in (w + 1)..(a - 1) : Refused(s, i)
  BY DEF ReadSince, RefusedSince
<1>2. ASSUME NEW i \in a..n
      PROVE  Accepted(s, i)
  <2>1. i - a + 1 \in 1..Len(readers) /\ a + (i - a + 1) - 1 = i
    BY <1>1, <1>2
  <2> QED BY <2>1 DEF ReadSince
<1>3. \A i \in 1..n : w < i => i \in (w + 1)..(a - 1) \/ i \in a..n
  BY <1>1
<1>4. \A i \in 1..n : w < i => s[i].op = "read"
  BY <1>1, <1>2, <1>3 DEF Accepted, Refused
<1>5. LastOf(Writes(s)) = w
  <2>1. /\ Writes(s) \in SUBSET Nat /\ w \in Nat
        /\ \A i \in Writes(s) : i <= w
    BY <1>1, <1>4 DEF Writes
  <2>2. w \in Writes(s) \cup {0}
    <3>1. CASE w = 0
      BY <3>1
    <3>2. CASE w > 0
      BY <1>1, <3>2 DEF Writes
    <3> QED BY <1>1, <3>1, <3>2
  <2> QED BY <2>1, <2>2, LastIs
<1>6. LastOf(AcceptedReads(s)) = n
  <2>1. /\ AcceptedReads(s) \in SUBSET Nat
        /\ \A i \in AcceptedReads(s) : i <= n
    BY <1>1 DEF AcceptedReads
  <2>2. n \in AcceptedReads(s)
    BY <1>1, <1>2 DEF AcceptedReads, Accepted
  <2> QED BY <2>1, <2>2, LastIs
<1>7. {i \in AcceptedReads(s) : w < i} = a..n
  <2>1. ASSUME NEW i \in AcceptedReads(s), w < i
        PROVE  i \in a..n
    BY <1>1, <1>3, <2>1 DEF AcceptedReads, Refused
  <2>2. \A i \in a..n : i \in AcceptedReads(s) /\ w < i
    BY <1>1, <1>2 DEF AcceptedReads, Accepted
  <2> QED BY <2>1, <2>2
<1> QED BY <1>5, <1>6, <1>7

(* The late ones among the readers are as many as the late ones among the   *)
(* accesses they stand for.                                                 *)
LateReads(s, w, time) == {i \in AcceptedReads(s) : w < i /\ s[i].time > time}

LEMMA LateCounted ==
  ASSUME NEW s \in Seq(Access), NEW readers \in Seq(Reader), NEW a \in Nat, NEW w \in Nat,
         ReadSince(readers, s, a, w), NEW time \in Time
  PROVE  Cardinality(LateOf(readers, time)) = Cardinality(LateReads(s, w, time))
<1> PICK n \in Nat : n = Len(s)
  OBVIOUS
<1> DEFINE S == LateOf(readers, time)
           T == LateReads(s, w, time)
           f == [k \in S |-> a + k - 1]
<1>1. a \in 1..n /\ Len(readers) = n - a + 1 /\ DOMAIN readers = 1..Len(readers)
  BY DEF ReadSince
<1>2. ASSUME NEW k \in 1..Len(readers)
      PROVE  readers[k].time = s[a + k - 1].time
  <2>1. readers[k] = [core |-> s[a + k - 1].core, time |-> s[a + k - 1].time]
    BY DEF ReadSince
  <2> QED BY <2>1
<1>3. \A i : i \in T <=> i \in a..n /\ s[i].time > time
  BY ReadersOf DEF LateReads
<1>4. \A k : k \in S <=> k \in 1..Len(readers) /\ s[a + k - 1].time > time
  BY <1>1, <1>2 DEF LateOf, Late
<1> HIDE DEF S, T
<1>5. \A k \in S : k \in Int /\ a + k - 1 \in a..n
  BY <1>1, <1>4
<1>6. f \in [S -> T]
  BY <1>3, <1>4, <1>5
<1>7. \A k, l \in S : f[k] = f[l] => k = l
  BY <1>1, <1>5
<1>8. ASSUME NEW i \in T
      PROVE  \E k \in S : f[k] = i
  <2>1. i \in a..n /\ s[i].time > time
    BY <1>3
  <2>2. i - a + 1 \in 1..Len(readers) /\ a + (i - a + 1) - 1 = i
    BY <1>1, <2>1
  <2>3. i - a + 1 \in S
    BY <1>4, <2>1, <2>2
  <2> QED BY <2>2, <2>3
<1> HIDE DEF f
<1>9. f \in Bijection(S, T)
  BY <1>6, <1>7, <1>8, Fun_IsBij
<1>10. IsFiniteSet(S)
  <2>1. S \in SUBSET (1..Len(readers)) /\ Len(readers) \in Int /\ 1 \in Int
    BY <1>1, <1>4
  <2> QED BY <2>1, FS_Interval, FS_Subset
<1> QED BY <1>9, <1>10, FS_Bijection DEF ExistsBijection, S, T

(* The write that a record names is the last one, and no read after it was  *)
(* accepted.                                                                *)
LEMMA WritesOf ==
  ASSUME NEW s \in Seq(Access), NEW m \in Time, NEW w \in Nat, NEW q \in Nat,
         WrittenSince(s, m, w, q)
  PROVE  /\ LastOf(Writes(s)) = w /\ w \in 1..Len(s) /\ s[w].op = "write"
         /\ LastOf(AcceptedReads(s)) = q
         /\ {i \in AcceptedReads(s) : w < i} = {}
         /\ \A i : i \in Writes(s) /\ i > q <=> i \in (q + 1)..Len(s) /\ s[i].op = "write"
<1> PICK n \in Nat : n = Len(s)
  OBVIOUS
<1>1. w \in 1..n /\ s[w].op = "write" /\ q \in 0..(w - 1) /\ DOMAIN s = 1..n
  BY DEF WrittenSince, RefusedSince
<1>2. \A i \in 1..n : w < i => i \in (w + 1)..n /\ i \in (q + 1)..n
  BY <1>1
<1>3. \A i \in (w + 1)..n : s[i].op = "read" /\ s[i].count # 0
  BY DEF WrittenSince, RefusedSince, Refused
<1>4. \A i \in (q + 1)..n : ~(s[i].op = "read" /\ s[i].count = 0)
  BY DEF WrittenSince, Accepted
<1>5. LastOf(Writes(s)) = w
  <2>1. /\ Writes(s) \in SUBSET Nat /\ w \in Writes(s)
        /\ \A i \in Writes(s) : i <= w
    BY <1>1, <1>2, <1>3 DEF Writes
  <2> QED BY <2>1, LastIs
<1>6. LastOf(AcceptedReads(s)) = q
  <2>1. /\ AcceptedReads(s) \in SUBSET Nat
        /\ \A i \in AcceptedReads(s) : i <= q
    BY <1>1, <1>4 DEF AcceptedReads
  <2>2. q \in AcceptedReads(s) \cup {0}
    <3>1. q > 0 => q \in 1..n /\ Accepted(s, q)
      BY <1>1 DEF WrittenSince
    <3> QED BY <1>1, <3>1 DEF AcceptedReads, Accepted
  <2> QED BY <2>1, <2>2, LastIs
<1>7. {i \in AcceptedReads(s) : w < i} = {}
  BY <1>1, <1>2, <1>3 DEF AcceptedReads
<1>8. \A i : i \in Writes(s) /\ i > q <=> i \in (q + 1)..n /\ s[i].op = "write"
  BY <1>1 DEF Writes
<1> QED BY <1>1, <1>5, <1>6, <1>7, <1>8

(* ---- what the record says of the log ----------------------------------- *)
RecordTyped(record) ==
  \/ record = Vacant
  \/ \E t \in 0..MaxTime : record \in {JustWrite(t), UnorderedWrite(t)}
  \/ /\ record.state = "JustRead"
     /\ Len(record.readers) \in 1..MaxAccesses
     /\ \A i \in DOMAIN record.readers : record.readers[i] \in Reader

(* SummaryFaithful for one line.                                            *)
Faithful(record, s) ==
  LET recent == {i \in Writes(s) : i > LastOf(AcceptedReads(s))}
      latest == Max({s[i].time : i \in recent})
  IN CASE s = <<>> -> record = Vacant
       [] s # <<>> /\ recent = {} ->
            LET since == {i \in DOMAIN s : i > LastOf(Writes(s))} IN
            /\ record.state = "JustRead"
            /\ Len(record.readers) = Cardinality(AcceptedReads(s) \cap since)
            /\ \A i \in AcceptedReads(s) \cap since : \E k \in DOMAIN record.readers :
                 record.readers[k] = [core |-> s[i].core, time |-> s[i].time]
       [] recent # {} ->
            \/ record = JustWrite(latest) /\ s[LastOf(recent)].time = latest
            \/ /\ record = UnorderedWrite(latest)
               /\ \E i, j \in recent : Inverted(s, i, j)

LEMMA SummaryTyped ==
  ASSUME NEW s \in Seq(Access), NEW record, Summary(record, s), Len(s) <= MaxAccesses
  PROVE  RecordTyped(record)
<1>0. MaxAccesses \in Nat
  BY BoundAssumption
<1>1. ASSUME NEW readers \in Seq(Reader), NEW a \in Nat, NEW w \in Nat,
             record = JustRead(readers), ReadSince(readers, s, a, w)
      PROVE  RecordTyped(record)
  <2>1. record.state = "JustRead" /\ record.readers = readers
    BY <1>1, RecordStates
  <2>2. Len(readers) \in 1..MaxAccesses
    BY <1>0, <1>1 DEF ReadSince
  <2>3. \A i \in DOMAIN readers : readers[i] \in Reader
    OBVIOUS
  <2> QED BY <2>1, <2>2, <2>3 DEF RecordTyped
<1> QED BY <1>1 DEF Summary, RecordTyped, Time

LEMMA SummaryIsFaithful ==
  ASSUME NEW s \in Seq(Access), NEW record, Summary(record, s)
  PROVE  Faithful(record, s)
<1> PICK n \in Nat : n = Len(s)
  OBVIOUS
<1> DEFINE recent == {i \in Writes(s) : i > LastOf(AcceptedReads(s))}
           latest == Max({s[i].time : i \in recent})
           since == {i \in DOMAIN s : i > LastOf(Writes(s))}
<1>0. DOMAIN s = 1..n
  OBVIOUS
<1>1. CASE record = Vacant /\ s = <<>>
  <2>1. recent = {}
    BY <1>0, <1>1 DEF Writes
  <2> QED BY <1>1, <2>1 DEF Faithful
<1>2. ASSUME NEW readers \in Seq(Reader), NEW a \in Nat, NEW w \in Nat,
             record = JustRead(readers), ReadSince(readers, s, a, w)
      PROVE  Faithful(record, s)
  <2>0. a \in 1..n /\ Len(readers) = n - a + 1 /\ DOMAIN readers = 1..Len(readers) /\ s # <<>>
    BY <1>2 DEF ReadSince
  <2>1. recent = {}
    <3>1. LastOf(AcceptedReads(s)) = n
      BY <1>2, ReadersOf
    <3> QED BY <1>0, <3>1 DEF Writes
  <2>2. AcceptedReads(s) \cap since = a..n
    <3>1. LastOf(Writes(s)) = w /\ {i \in AcceptedReads(s) : w < i} = a..n
      BY <1>2, ReadersOf
    <3>2. AcceptedReads(s) \subseteq DOMAIN s
      BY DEF AcceptedReads
    <3> QED BY <1>0, <3>1, <3>2
  <2>3. Cardinality(AcceptedReads(s) \cap since) = Len(readers)
    <3>1. a \in Int /\ n \in Int /\ ~(a > n)
      BY <2>0
    <3> QED BY <2>0, <2>2, <3>1, FS_Interval
  <2>4. ASSUME NEW i \in a..n
        PROVE  \E k \in DOMAIN readers : readers[k] = [core |-> s[i].core, time |-> s[i].time]
    <3>1. i - a + 1 \in 1..Len(readers) /\ a + (i - a + 1) - 1 = i
      BY <2>0
    <3> QED BY <1>2, <2>0, <3>1 DEF ReadSince
  <2>5. record.state = "JustRead" /\ record.readers = readers
    BY <1>2, RecordStates
  <2> HIDE DEF recent, since
  <2> QED BY <2>0, <2>1, <2>2, <2>3, <2>4, <2>5 DEF Faithful, recent, since
<1>3. ASSUME NEW m \in Time, NEW w \in Nat, NEW q \in Nat, WrittenSince(s, m, w, q),
             \/ record = JustWrite(m) /\ s[w].time = m
             \/ record = UnorderedWrite(m) /\ Scrambled(s, q)
      PROVE  Faithful(record, s)
  <2>0. /\ w \in 1..n /\ q \in 0..(w - 1) /\ LastOf(Writes(s)) = w /\ s # <<>>
        /\ s[w].op = "write" /\ LastOf(AcceptedReads(s)) = q
        /\ \A i : i \in Writes(s) /\ i > q <=> i \in (q + 1)..n /\ s[i].op = "write"
    <3>1. /\ w \in 1..n /\ LastOf(Writes(s)) = w /\ s[w].op = "write"
          /\ LastOf(AcceptedReads(s)) = q
          /\ \A i : i \in Writes(s) /\ i > q <=> i \in (q + 1)..n /\ s[i].op = "write"
      BY <1>3, WritesOf
    <3> QED BY <1>3, <3>1 DEF WrittenSince
  <2>1. \A i : i \in recent <=> i \in (q + 1)..n /\ s[i].op = "write"
    BY <2>0
  <2>2. w \in recent
    BY <2>0, <2>1
  <2>3. LastOf(recent) = w
    <3>1. \A i \in Writes(s) : i \in Nat /\ i <= w
      <4>1. \A i \in (w + 1)..n : s[i].op = "read"
        BY <1>3 DEF WrittenSince, RefusedSince, Refused
      <4> QED BY <1>0, <2>0, <4>1 DEF Writes
    <3>2. recent \in SUBSET Nat /\ \A i \in recent : i <= w
      BY <3>1
    <3> HIDE DEF recent
    <3> QED BY <2>2, <3>2, LastIs
  <2>4. latest = m
    <3>1. \A i \in recent : s[i].time \in Nat /\ s[i].time <= m
      <4>1. \A i \in 1..n : s[i] \in Access
        OBVIOUS
      <4>2. \A i \in 1..n : s[i].time \in Nat
        BY <4>1 DEF Access, Time
      <4>3. \A i \in (q + 1)..n : s[i].op = "write" => s[i].time <= m
        BY <1>3 DEF WrittenSince
      <4> QED BY <2>0, <2>1, <4>2, <4>3
    <3>2. \E i \in recent : s[i].time = m
      BY <1>3, <2>1 DEF WrittenSince
    <3>3. m \in Nat
      BY DEF Time
    <3> HIDE DEF recent
    <3> DEFINE times == {s[i].time : i \in recent}
    <3>4. m \in times /\ \A y \in times : y \in Nat /\ m >= y
      BY <3>1, <3>2, <3>3
    <3> HIDE DEF times
    <3>5. ASSUME NEW x \in times, \A y \in times : x >= y
          PROVE  x = m
      BY <3>3, <3>4, <3>5
    <3>6. Max(times) = m
      BY <3>4, <3>5 DEF Max
    <3> QED BY <3>6 DEF times
  <2>5. Scrambled(s, q) => \E i, j \in recent : Inverted(s, i, j)
    BY <2>1 DEF Scrambled
  <2>6. Scrambled(s, q) /\ record = UnorderedWrite(m) =>
          record = UnorderedWrite(latest) /\ \E i, j \in recent : Inverted(s, i, j)
    BY <2>4, <2>5
  <2>7. record = JustWrite(m) /\ s[w].time = m =>
          record = JustWrite(latest) /\ s[LastOf(recent)].time = latest
    BY <2>3, <2>4
  <2>8. recent # {} /\ s # <<>>
    BY <2>0, <2>2
  <2> HIDE DEF recent, latest
  <2> QED BY <1>3, <2>6, <2>7, <2>8 DEF Faithful, recent, latest
<1> QED BY <1>1, <1>2, <1>3 DEF Summary

(* ---- accusations ------------------------------------------------------- *)
(* NeighboursCaught for one access of a line; w is the last write before it.*)
Caught(s, j) ==
  \E w \in 0..(j - 1) :
    /\ w = LastOf({i \in Writes(s) : i < j})
    /\ LET reads == {i \in AcceptedReads(s) : w < i /\ i < j} IN
       IF s[j].op = "write"
       THEN s[j].count = Cardinality({i \in reads : s[i].time > s[j].time})
       ELSE w > 0 /\ reads = {} /\ s[w].time > s[j].time => s[j].count = 1

(* A new access changes nothing for the ones before it.                     *)
LEMMA CaughtBefore ==
  ASSUME NEW s \in Seq(Access), NEW e \in Access, NEW t, t = Append(s, e),
         NEW j \in 1..Len(s), Caught(s, j)
  PROVE  Caught(t, j)
<1> PICK n \in Nat : n = Len(s)
  OBVIOUS
<1>1. /\ Len(t) = n + 1 /\ t[n + 1] = e /\ DOMAIN t = 1..(n + 1) /\ DOMAIN s = 1..n
      /\ \A i \in 1..n : t[i] = s[i]
  BY Appended
<1> PICK w \in 0..(j - 1) :
      /\ w = LastOf({i \in Writes(s) : i < j})
      /\ LET reads == {i \in AcceptedReads(s) : w < i /\ i < j} IN
         IF s[j].op = "write"
         THEN s[j].count = Cardinality({i \in reads : s[i].time > s[j].time})
         ELSE w > 0 /\ reads = {} /\ s[w].time > s[j].time => s[j].count = 1
  BY DEF Caught
<1> DEFINE reads == {i \in AcceptedReads(s) : w < i /\ i < j}
<1>2. {i \in Writes(t) : i < j} = {i \in Writes(s) : i < j}
  BY <1>1 DEF Writes
<1>3. {i \in AcceptedReads(t) : w < i /\ i < j} = reads
  BY <1>1 DEF AcceptedReads
<1>4. t[j] = s[j] /\ (w > 0 => t[w] = s[w])
  BY <1>1
<1>5. {i \in reads : t[i].time > t[j].time} = {i \in reads : s[i].time > s[j].time}
  BY <1>1, <1>4 DEF AcceptedReads
<1>6. IF s[j].op = "write"
      THEN s[j].count = Cardinality({i \in reads : s[i].time > s[j].time})
      ELSE w > 0 /\ reads = {} /\ s[w].time > s[j].time => s[j].count = 1
  OBVIOUS
<1> HIDE DEF reads
<1>7. IF t[j].op = "write"
      THEN t[j].count = Cardinality({i \in reads : t[i].time > t[j].time})
      ELSE w > 0 /\ reads = {} /\ t[w].time > t[j].time => t[j].count = 1
  BY <1>4, <1>5, <1>6
<1> QED BY <1>2, <1>3, <1>7 DEF Caught

(* It is judged by all of them.                                             *)
LEMMA CaughtNow ==
  ASSUME NEW s \in Seq(Access), NEW e \in Access, NEW t, t = Append(s, e),
         NEW w \in 0..Len(s), w = LastOf(Writes(s)),
         e.op = "write" => e.count = Cardinality(LateReads(s, w, e.time)),
         e.op # "write" => \/ w = 0
                           \/ {i \in AcceptedReads(s) : w < i} # {}
                           \/ ~(s[w].time > e.time)
                           \/ e.count = 1
  PROVE  Caught(t, Len(s) + 1)
<1> PICK n \in Nat : n = Len(s)
  OBVIOUS
<1>1. /\ Len(t) = n + 1 /\ t[n + 1] = e /\ DOMAIN t = 1..(n + 1) /\ DOMAIN s = 1..n
      /\ \A i \in 1..n : t[i] = s[i]
  BY Appended
<1> DEFINE reads == {i \in AcceptedReads(s) : w < i}
<1>2. {i \in Writes(t) : i < n + 1} = Writes(s)
  BY <1>1 DEF Writes
<1>3. {i \in AcceptedReads(t) : w < i /\ i < n + 1} = reads
  BY <1>1 DEF AcceptedReads
<1>4. w > 0 => t[w] = s[w]
  BY <1>1
<1>5. {i \in reads : t[i].time > t[n + 1].time} = LateReads(s, w, e.time)
  BY <1>1 DEF AcceptedReads, LateReads
<1>6. \/ w = 0 \/ reads # {} \/ ~(s[w].time > e.time) \/ e.count = 1 \/ e.op = "write"
  OBVIOUS
<1> HIDE DEF reads
<1>7. IF t[n + 1].op = "write"
      THEN t[n + 1].count = Cardinality({i \in reads : t[i].time > t[n + 1].time})
      ELSE w > 0 /\ reads = {} /\ t[w].time > t[n + 1].time => t[n + 1].count = 1
  <2>1. t[n + 1] = e
    BY <1>1
  <2>2. CASE e.op = "write"
    BY <1>5, <2>1, <2>2
  <2>3. CASE e.op # "write" /\ w = 0
    BY <2>1, <2>3
  <2>4. CASE e.op # "write" /\ w # 0
    BY <1>4, <1>6, <2>1, <2>4
  <2> QED BY <2>2, <2>3, <2>4
<1>8. w \in 0..((n + 1) - 1) /\ w = LastOf({i \in Writes(t) : i < n + 1})
  <2>1. w \in 0..((n + 1) - 1)
    OBVIOUS
  <2>2. w = LastOf({i \in Writes(t) : i < n + 1})
    BY <1>2, Zenon
  <2> QED BY <2>1, <2>2
<1>9. Caught(t, n + 1)
  BY <1>3, <1>7, <1>8, Zenon DEF Caught
<1> QED BY <1>9

(* The new access is accused of what the record tells of the ones before it.*)
LEMMA AccusedRead ==
  ASSUME NEW s \in Seq(Access), NEW record, Summary(record, s),
         NEW c \in Core, NEW time \in Time, NEW outcome, outcome = ReadOutcome(record, c, time),
         NEW e, e = [core |-> c, op |-> "read", time |-> time, count |-> outcome.count]
  PROVE  Caught(Append(s, e), Len(s) + 1)
<1> PICK t : t = Append(s, e)
  OBVIOUS
<1> PICK n \in Nat : n = Len(s)
  OBVIOUS
<1>a. /\ e \in Access /\ e.op = "read" /\ e.count = outcome.count /\ e.time = time
      /\ time \in Int /\ Time \subseteq Int
  BY ReadSummary DEF Time
<1>b. ASSUME NEW w \in 0..n, w = LastOf(Writes(s)),
             \/ w = 0
             \/ {i \in AcceptedReads(s) : w < i} # {}
             \/ ~(s[w].time > time)
             \/ outcome.count = 1
      PROVE  Caught(t, n + 1)
  BY <1>a, <1>b, CaughtNow
<1>1. CASE record = Vacant /\ s = <<>>
  <2>1. Writes(s) = {} /\ 0 \in 0..n
    BY <1>1 DEF Writes
  <2>2. LastOf(Writes(s)) = 0
    BY <2>1, LastIs
  <2> QED BY <1>b, <2>1, <2>2
<1>2. ASSUME NEW readers \in Seq(Reader), NEW a \in Nat, NEW w \in Nat,
             record = JustRead(readers), ReadSince(readers, s, a, w)
      PROVE  Caught(t, n + 1)
  <2>1. LastOf(Writes(s)) = w /\ {i \in AcceptedReads(s) : w < i} = a..n
    BY <1>2, ReadersOf
  <2>2. a \in 1..n /\ w \in 0..n
    BY <1>2 DEF ReadSince, RefusedSince
  <2>3. n \in a..n
    BY <2>2
  <2> QED BY <1>b, <2>1, <2>2, <2>3
<1>3. ASSUME NEW m \in Time, NEW w \in Nat, NEW q \in Nat,
             record = JustWrite(m), WrittenSince(s, m, w, q), s[w].time = m
      PROVE  Caught(t, n + 1)
  <2>1. LastOf(Writes(s)) = w /\ w \in 0..n
    BY <1>3, WritesOf
  <2>2. CASE time < m
    <3>1. ReadOutcome(JustWrite(m), c, time) = [record |-> JustWrite(m), count |-> 1]
      BY <1>a, <2>2, ReadCases
    <3>2. outcome.count = 1
      BY <1>3, <3>1
    <3> QED BY <1>b, <2>1, <3>2
  <2>3. CASE ~(time < m)
    <3>1. ~(s[w].time > time)
      BY <1>3, <2>3
    <3> QED BY <1>b, <2>1, <3>1
  <2> QED BY <2>2, <2>3
<1>4. ASSUME NEW m \in Time, NEW w \in Nat, NEW q \in Nat,
             record = UnorderedWrite(m), WrittenSince(s, m, w, q), Scrambled(s, q)
      PROVE  Caught(t, n + 1)
  <2>1. LastOf(Writes(s)) = w /\ w \in 0..n
    BY <1>4, WritesOf
  <2>2. ReadOutcome(UnorderedWrite(m), c, time) = [record |-> UnorderedWrite(m), count |-> 1]
    BY ZenonT(60), <1>a, ReadCases
  <2>3. outcome.count = 1
    BY <1>4, <2>2
  <2> QED BY <1>b, <2>1, <2>3
<1> QED BY <1>1, <1>2, <1>3, <1>4 DEF Summary

LEMMA AccusedWrite ==
  ASSUME NEW s \in Seq(Access), NEW record, Summary(record, s),
         NEW c \in Core, NEW time \in Time, NEW outcome, outcome = WriteOutcome(record, time),
         NEW e, e = [core |-> c, op |-> "write", time |-> time, count |-> outcome.count]
  PROVE  /\ \E w \in 0..Len(s) : outcome.count = Cardinality(LateReads(s, w, time))
         /\ Caught(Append(s, e), Len(s) + 1)
<1> PICK t : t = Append(s, e)
  OBVIOUS
<1> PICK n \in Nat : n = Len(s)
  OBVIOUS
<1>a. time \in Int /\ Time \subseteq Int
  BY DEF Time
<1>b. ASSUME NEW w \in 0..n, w = LastOf(Writes(s)),
             outcome.count = Cardinality(LateReads(s, w, time))
      PROVE  /\ \E v \in 0..n : outcome.count = Cardinality(LateReads(s, v, time))
             /\ Caught(t, n + 1)
  <2>1. e \in Access /\ e.op = "write" /\ e.count = outcome.count /\ e.time = time
    <3>1. outcome.count \in Nat
      BY WriteCounts
    <3> QED BY <3>1 DEF Access
  <2> QED BY <1>b, <2>1, CaughtNow
<1>c. ASSUME NEW w \in 0..n, w = LastOf(Writes(s)), {i \in AcceptedReads(s) : w < i} = {},
             NEW r, outcome = [record |-> r, count |-> 0]
      PROVE  /\ \E v \in 0..n : outcome.count = Cardinality(LateReads(s, v, time))
             /\ Caught(t, n + 1)
  <2>1. LateReads(s, w, time) = {}
    BY <1>c DEF LateReads
  <2>2. outcome.count = 0 /\ Cardinality({}) = 0
    BY <1>c, FS_EmptySet
  <2> QED BY <1>b, <1>c, <2>1, <2>2
<1>1. CASE record = Vacant /\ s = <<>>
  <2>1. Writes(s) = {} /\ 0 \in 0..n /\ AcceptedReads(s) = {}
    BY <1>1 DEF Writes, AcceptedReads
  <2>2. LastOf(Writes(s)) = 0
    BY <2>1, LastIs
  <2>3. WriteOutcome(Vacant, time) = [record |-> JustWrite(time), count |-> 0]
    BY <1>a, WriteCases
  <2>4. {i \in AcceptedReads(s) : 0 < i} = {}
    BY <2>1
  <2>5. outcome = [record |-> JustWrite(time), count |-> 0]
    BY <1>1, <2>3
  <2> QED BY <1>c, <2>1, <2>2, <2>4, <2>5
<1>2. ASSUME NEW readers \in Seq(Reader), NEW a \in Nat, NEW w \in Nat,
             record = JustRead(readers), ReadSince(readers, s, a, w)
      PROVE  /\ \E v \in 0..n : outcome.count = Cardinality(LateReads(s, v, time))
             /\ Caught(t, n + 1)
  <2>1. LastOf(Writes(s)) = w
    BY <1>2, ReadersOf
  <2>2. w \in 0..n
    <3>1. a \in 1..n /\ w \in 0..(a - 1)
      BY <1>2 DEF ReadSince, RefusedSince
    <3> QED BY <3>1
  <2>3. WriteOutcome(JustRead(readers), time)
        = [record |-> JustWrite(time), count |-> Cardinality(LateOf(readers, time))]
    BY <1>a, WriteCases
  <2>4. outcome.count = Cardinality(LateOf(readers, time))
    BY <1>2, <2>3
  <2>5. outcome.count = Cardinality(LateReads(s, w, time))
    BY <1>2, <2>4, LateCounted
  <2> QED BY <1>b, <2>1, <2>2, <2>5
<1>3. ASSUME NEW m \in Time, NEW w \in Nat, NEW q \in Nat, WrittenSince(s, m, w, q),
             record = JustWrite(m) \/ record = UnorderedWrite(m)
      PROVE  /\ \E v \in 0..n : outcome.count = Cardinality(LateReads(s, v, time))
             /\ Caught(t, n + 1)
  <2>1. LastOf(Writes(s)) = w /\ w \in 0..n /\ {i \in AcceptedReads(s) : w < i} = {}
    BY <1>3, WritesOf
  <2>2. \E r : WriteOutcome(JustWrite(m), time) = [record |-> r, count |-> 0]
    BY <1>a, WriteCases
  <2>3. \E r : WriteOutcome(UnorderedWrite(m), time) = [record |-> r, count |-> 0]
    BY <1>a, WriteCases
  <2>4. PICK r : outcome = [record |-> r, count |-> 0]
    BY <1>3, <2>2, <2>3
  <2> QED BY <1>c, <2>1, <2>4
<1> QED BY <1>1, <1>2, <1>3 DEF Summary

Early(s, n) == {i \in DOMAIN s : Inverted(s, i, n)}

(* An accusation that AlarmsJustified accepts.                              *)
Justified(s, n) ==
  \/ s[n].count = 0
  \/ s[n].count <= Cardinality(Early(s, n))
  \/ s[n].op = "read" /\ s[n].count = 1 /\ \E i, j \in Writes(s) : Inverted(s, i, j)

(* One access of another core that came too early is a witness.             *)
LEMMA EarlyCounted ==
  ASSUME NEW s \in Seq(Access), NEW n, NEW I \in SUBSET (DOMAIN s),
         \A i \in I : Inverted(s, i, n)
  PROVE  /\ Cardinality(I) \in Nat
         /\ Cardinality(I) <= Cardinality(Early(s, n))
<1>1. IsFiniteSet(Early(s, n)) /\ I \subseteq Early(s, n)
  <2>1. DOMAIN s = 1..Len(s) /\ Len(s) \in Int /\ 1 \in Int
    OBVIOUS
  <2>2. IsFiniteSet(1..Len(s))
    BY <2>1, FS_Interval
  <2>3. Early(s, n) \in SUBSET (1..Len(s)) /\ I \subseteq Early(s, n)
    BY <2>1 DEF Early
  <2> QED BY <2>2, <2>3, FS_Subset
<1>2. IsFiniteSet(I) /\ Cardinality(I) <= Cardinality(Early(s, n))
  BY <1>1, FS_Subset
<1>3. Cardinality(I) \in Nat
  BY <1>2, FS_CardinalityType
<1> QED BY <1>2, <1>3

LEMMA JustifiedRead ==
  ASSUME NEW s \in Seq(Access), NEW record, Summary(record, s),
         NEW c \in Core, NEW time \in Time, NEW outcome, outcome = ReadOutcome(record, c, time),
         \A i \in 1..Len(s) : s[i].core = c => s[i].time <= time,
         NEW e, e = [core |-> c, op |-> "read", time |-> time, count |-> outcome.count]
  PROVE  Justified(Append(s, e), Len(s) + 1)
<1> PICK t : t = Append(s, e)
  OBVIOUS
<1> PICK n \in Nat : n = Len(s)
  OBVIOUS
<1>0. time \in Int
  BY DEF Time
<1>a. /\ e \in Access /\ e.op = "read" /\ e.count = outcome.count /\ e.time = time /\ e.core = c
      /\ time \in Int /\ Time \subseteq Int
  BY ReadSummary DEF Time
<1>b. /\ Len(t) = n + 1 /\ t[n + 1] = e /\ t \in Seq(Access)
      /\ DOMAIN s = 1..n /\ DOMAIN t = 1..(n + 1)
      /\ \A i \in 1..n : t[i] = s[i]
      /\ \A i, j \in 1..n : Inverted(t, i, j) <=> Inverted(s, i, j)
  <2>1. /\ Len(t) = n + 1 /\ t[n + 1] = e /\ t \in Seq(Access)
        /\ DOMAIN s = 1..n /\ DOMAIN t = 1..(n + 1)
        /\ \A i \in 1..n : t[i] = s[i]
    BY <1>a, Appended
  <2> QED BY <2>1 DEF Inverted
<1>c. CASE outcome.count = 0
  BY <1>a, <1>b, <1>c DEF Justified
<1>1. ASSUME NEW m \in Time, NEW w \in Nat, NEW q \in Nat,
             record = JustWrite(m), WrittenSince(s, m, w, q), s[w].time = m
      PROVE  Justified(t, n + 1)
  <2>1. CASE time < m
    <3>1. ReadOutcome(JustWrite(m), c, time) = [record |-> JustWrite(m), count |-> 1]
      BY <1>a, <2>1, ReadCases
    <3>2. e.count = 1
      BY <1>1, <1>a, <3>1
    <3>3. w \in 1..n /\ s[w].op = "write"
      BY <1>1, WritesOf
    <3>4. s[w].core # c
      BY <1>1, <1>a, <2>1, <3>3
    <3>5. Inverted(t, w, n + 1)
      BY <1>1, <1>a, <1>b, <2>1, <3>3, <3>4 DEF Inverted
    <3>6. {w} \in SUBSET (DOMAIN t) /\ Cardinality({w}) = 1
      <4>1. w \in DOMAIN t
        BY <1>b, <3>3
      <4> QED BY <4>1, FS_Singleton
    <3>7. 1 <= Cardinality(Early(t, n + 1))
      BY <1>b, <3>5, <3>6, EarlyCounted
    <3> QED BY <1>b, <3>2, <3>7 DEF Justified
  <2>2. CASE ~(time < m)
    <3>1. ReadOutcome(JustWrite(m), c, time)
          = [record |-> JustRead(<<Noted(c, time)>>), count |-> 0]
      BY <1>a, <2>2, ReadCases
    <3>2. outcome.count = 0
      BY <1>1, <3>1
    <3> QED BY <1>c, <3>2
  <2> QED BY <2>1, <2>2
<1>2. ASSUME NEW m \in Time, NEW w \in Nat, NEW q \in Nat,
             record = UnorderedWrite(m), WrittenSince(s, m, w, q), Scrambled(s, q)
      PROVE  Justified(t, n + 1)
  <2>1. ReadOutcome(UnorderedWrite(m), c, time) = [record |-> UnorderedWrite(m), count |-> 1]
    BY <1>0, ReadCases
  <2>2. e.count = 1
    BY <1>2, <1>a, <2>1
  <2>3. PICK i, j \in (q + 1)..n : s[i].op = "write" /\ s[j].op = "write" /\ Inverted(s, i, j)
    BY <1>2 DEF Scrambled
  <2>4. i \in 1..n /\ j \in 1..n
    OBVIOUS
  <2>5. i \in Writes(t) /\ j \in Writes(t) /\ Inverted(t, i, j)
    BY <1>b, <2>3, <2>4 DEF Writes
  <2> QED BY <1>a, <1>b, <2>2, <2>5 DEF Justified
<1>3. CASE record = Vacant
  <2>1. ReadOutcome(Vacant, c, time) = [record |-> JustRead(<<Noted(c, time)>>), count |-> 0]
    BY <1>0, ReadCases
  <2>2. outcome.count = 0
    BY <1>3, <2>1
  <2> QED BY <1>c, <2>2
<1>4. ASSUME NEW readers, record = JustRead(readers)
      PROVE  Justified(t, n + 1)
  <2>1. ReadOutcome(JustRead(readers), c, time)
        = [record |-> JustRead(Append(readers, Noted(c, time))), count |-> 0]
    BY <1>0, ReadCases
  <2>2. outcome.count = 0
    BY <1>4, <2>1
  <2> QED BY <1>c, <2>2
<1> QED BY <1>1, <1>2, <1>3, <1>4 DEF Summary

LEMMA JustifiedWrite ==
  ASSUME NEW s \in Seq(Access), NEW record, Summary(record, s),
         NEW c \in Core, NEW time \in Time, NEW outcome, outcome = WriteOutcome(record, time),
         \A i \in 1..Len(s) : s[i].core = c => s[i].time <= time,
         NEW e, e = [core |-> c, op |-> "write", time |-> time, count |-> outcome.count]
  PROVE  Justified(Append(s, e), Len(s) + 1)
<1> PICK t : t = Append(s, e)
  OBVIOUS
<1> PICK n \in Nat : n = Len(s)
  OBVIOUS
<1>a. /\ e \in Access /\ e.op = "write" /\ e.count = outcome.count /\ e.time = time /\ e.core = c
      /\ time \in Int
  BY WriteSummary DEF Time
<1>b. /\ Len(t) = n + 1 /\ t[n + 1] = e /\ t \in Seq(Access)
      /\ DOMAIN s = 1..n /\ DOMAIN t = 1..(n + 1)
      /\ \A i \in 1..n : t[i] = s[i]
  BY <1>a, Appended
<1>1. PICK w \in 0..n : outcome.count = Cardinality(LateReads(s, w, time))
  BY AccusedWrite
<1>2. ASSUME NEW i \in LateReads(s, w, time)
      PROVE  i \in DOMAIN t /\ Inverted(t, i, n + 1)
  <2>1. i \in 1..n /\ s[i].time > time
    BY <1>b DEF LateReads, AcceptedReads
  <2>2. s[i].core # c
    <3>1. s[i] \in Access
      BY <2>1
    <3>2. s[i].time \in Int
      BY <3>1 DEF Access, Time
    <3> QED BY <1>a, <2>1, <3>2
  <2> QED BY <1>a, <1>b, <2>1, <2>2 DEF Inverted
<1>3. LateReads(s, w, time) \in SUBSET (DOMAIN t)
  BY <1>2
<1>4. outcome.count <= Cardinality(Early(t, n + 1))
  BY <1>1, <1>2, <1>3, <1>b, EarlyCounted
<1> QED BY <1>a, <1>b, <1>4 DEF Justified

(* ---- the inductive invariant ------------------------------------------- *)
Busy == {c \in Core : pending[c] # Idle}

Typed ==
  /\ target \in [Core -> Time]
  /\ DOMAIN records = Line
  /\ pending \in [Core -> {Idle} \cup Request]
  /\ violations \in [Core -> Nat]
  /\ toClear \subseteq Line
  /\ accesses \in 0..MaxAccesses
  /\ log \in [Line -> Seq(Access)]

(* Every access that was begun is either pending or was judged, and each    *)
(* accuses at most as often as there were accesses.                         *)
Bounded ==
  /\ IsFiniteSet(Busy)
  /\ \A l \in Line : Len(log[l]) + Cardinality(Busy) <= accesses
  /\ \A c \in Core : violations[c] <= MaxAccesses * (accesses - Cardinality(Busy))

(* A core's accesses come in the order of their times: the one that is      *)
(* pending is the last.                                                     *)
Ordered ==
  \A c \in Core :
    /\ pending[c] # Idle => pending[c].time <= target[c]
    /\ \A l \in Line : \A i \in 1..Len(log[l]) : log[l][i].core = c =>
         /\ log[l][i].time <= target[c]
         /\ pending[c] # Idle => log[l][i].time <= pending[c].time

Judged ==
  \A l \in Line :
    /\ Summary(records[l], log[l])
    /\ \A j \in 1..Len(log[l]) : Caught(log[l], j)

IndInv == Typed /\ Bounded /\ Ordered /\ Judged

LEMMA InitInv == Init => IndInv
<1> SUFFICES ASSUME Init PROVE IndInv
  OBVIOUS
<1> USE DEF Init
<1>0. {MaxTime, MaxAccesses} \subseteq Nat
  BY BoundAssumption
<1>1. Busy = {} /\ Cardinality(Busy) = 0 /\ IsFiniteSet(Busy)
  BY FS_EmptySet DEF Busy
<1>2. Typed
  <2>1. \A l \in Line : log[l] \in Seq(Access)
    OBVIOUS
  <2>2. log \in [Line -> Seq(Access)]
    BY <2>1
  <2> QED BY <1>0, <2>2 DEF Typed, Time
<1>3. Bounded
  <2>1. \A l \in Line : Len(log[l]) = 0
    OBVIOUS
  <2> QED BY <1>0, <1>1, <2>1 DEF Bounded
<1>4. Ordered
  BY DEF Ordered
<1>5. Judged
  BY DEF Judged, Summary
<1> QED BY <1>2, <1>3, <1>4, <1>5 DEF IndInv

LEMMA AdvanceInv == ASSUME IndInv, NEW c \in Core, Advance(c) PROVE IndInv'
<1> USE DEF IndInv, Advance
<1>0. MaxTime \in Nat
  BY BoundAssumption
<1>1. Typed'
  <2>1. target[c] \in Time /\ target[c] + 1 \in Time
    BY <1>0 DEF Typed, Time
  <2> QED BY <2>1 DEF Typed
<1>2. Bounded'
  BY DEF Bounded, Busy
<1>3. Ordered'
  <2>1. \A d \in Core : target[d] \in Int /\ target'[d] \in Int /\ target[d] <= target'[d]
    BY <1>0 DEF Typed, Time
  <2> SUFFICES ASSUME NEW d \in Core
               PROVE  /\ pending[d] # Idle => pending[d].time <= target'[d]
                      /\ \A l \in Line : \A i \in 1..Len(log[l]) : log[l][i].core = d =>
                           /\ log[l][i].time <= target'[d]
                           /\ pending[d] # Idle => log[l][i].time <= pending[d].time
    BY DEF Ordered
  <2>2. pending[d] # Idle => pending[d].time \in Int
    BY <1>0 DEF Typed, Request, Time
  <2>3. ASSUME NEW l \in Line, NEW i \in 1..Len(log[l])
        PROVE  log[l][i].time \in Int
    <3>1. log[l][i] \in Access
      BY DEF Typed
    <3> QED BY <1>0, <3>1 DEF Access, Time
  <2> QED BY <2>1, <2>2, <2>3 DEF Ordered
<1>4. Judged'
  BY DEF Judged
<1> QED BY <1>1, <1>2, <1>3, <1>4

LEMMA ReadTimeInv ==
  ASSUME IndInv, NEW c \in Core, NEW l \in Line, NEW op \in {"read", "write"}, ReadTime(c, l, op)
  PROVE  IndInv'
<1> USE DEF IndInv, ReadTime
<1>0. {MaxTime, MaxAccesses} \subseteq Nat
  BY BoundAssumption
<1> DEFINE p == [op |-> op, line |-> l, time |-> target[c]]
<1>1. p \in Request /\ p # Idle /\ p.time = target[c]
  BY DEF Typed, Request, Idle
<1>2. pending' = [pending EXCEPT ![c] = p]
  OBVIOUS
<1> HIDE DEF p
<1>3. Typed'
  BY <1>0, <1>1, <1>2 DEF Typed
<1>4. Bounded'
  <2>1. Busy' = Busy \cup {c} /\ c \notin Busy
    BY <1>1, <1>2 DEF Typed, Busy
  <2>2. IsFiniteSet(Busy') /\ Cardinality(Busy') = Cardinality(Busy) + 1
    BY <2>1, FS_AddElement DEF Bounded
  <2>3. Cardinality(Busy) \in Nat
    BY FS_CardinalityType DEF Bounded
  <2>4. accesses \in Int /\ accesses' = accesses + 1
    BY DEF Typed
  <2>5. accesses' - Cardinality(Busy') = accesses - Cardinality(Busy)
    BY <2>2, <2>3, <2>4
  <2>6. \A k \in Line : Len(log[k]) \in Int
    BY DEF Typed
  <2>7. \A k \in Line : Len(log[k]) + Cardinality(Busy') <= accesses'
    BY <2>2, <2>3, <2>4, <2>6 DEF Bounded
  <2>8. \A d \in Core : violations'[d] <= MaxAccesses * (accesses' - Cardinality(Busy'))
    BY <2>5 DEF Bounded
  <2> QED BY <2>2, <2>7, <2>8 DEF Bounded
<1>5. Ordered'
  <2> SUFFICES ASSUME NEW d \in Core
               PROVE  /\ pending'[d] # Idle => pending'[d].time <= target[d]
                      /\ \A k \in Line : \A i \in 1..Len(log[k]) : log[k][i].core = d =>
                           /\ log[k][i].time <= target[d]
                           /\ pending'[d] # Idle => log[k][i].time <= pending'[d].time
    BY DEF Ordered
  <2>1. CASE d = c
    <3>1. pending'[d].time = target[d] /\ target[d] \in Int
      BY <1>0, <1>1, <1>2, <2>1 DEF Typed, Time
    <3> QED BY <3>1 DEF Ordered
  <2>2. CASE d # c
    <3>1. pending'[d] = pending[d]
      BY <1>2, <2>2 DEF Typed
    <3> QED BY <3>1 DEF Ordered
  <2> QED BY <2>1, <2>2
<1>6. Judged'
  BY DEF Judged
<1> QED BY <1>3, <1>4, <1>5, <1>6

LEMMA ClearInv == ASSUME IndInv, NEW l \in Line, ClearShard(l) PROVE IndInv'
<1> USE DEF IndInv, ClearShard, Cleared
<1>1. log'[l] = <<>> /\ \A k \in Line : k # l => log'[k] = log[k] /\ records'[k] = records[k]
  BY DEF Typed
<1>2. records'[l] = Vacant
  BY DEF Typed
<1>3. Typed'
  BY DEF Typed
<1>4. Bounded'
  <2>1. \A k \in Line : Len(log'[k]) \in Nat /\ Len(log[k]) \in Nat /\ Len(log'[k]) <= Len(log[k])
    BY <1>1 DEF Typed
  <2>2. Busy' = Busy /\ Cardinality(Busy) \in Nat /\ accesses \in Int
    BY FS_CardinalityType DEF Busy, Bounded, Typed
  <2> QED BY <2>1, <2>2 DEF Bounded
<1>5. Ordered'
  <2>1. \A k \in Line : \A i \in 1..Len(log'[k]) : k # l
    BY <1>1
  <2> QED BY <1>1, <2>1 DEF Ordered
<1>6. Judged'
  <2> SUFFICES ASSUME NEW k \in Line
               PROVE  /\ Summary(records'[k], log'[k])
                      /\ \A j \in 1..Len(log'[k]) : Caught(log'[k], j)
    BY DEF Judged
  <2>1. CASE k = l
    BY <1>1, <1>2, <2>1 DEF Summary
  <2>2. CASE k # l
    BY <1>1, <2>2 DEF Judged
  <2> QED BY <2>1, <2>2
<1> QED BY <1>3, <1>4, <1>5, <1>6

(* What a processed access leaves behind.                                   *)
Processing(c, l, e, r) ==
  /\ log' = [log EXCEPT ![l] = Append(@, e)]
  /\ records' = [records EXCEPT ![l] = r]
  /\ violations' = [violations EXCEPT ![c] = @ + e.count]
  /\ pending' = [pending EXCEPT ![c] = Idle]
  /\ UNCHANGED <<target, toClear, accesses>>

LEMMA Processed ==
  ASSUME IndInv, NEW c \in Core, Process(c)
  PROVE  \E l \in Line, e \in Access : \E r :
           /\ Processing(c, l, e, r)
           /\ e.core = c /\ e.time = pending[c].time /\ e.count <= MaxAccesses
           /\ Summary(r, Append(log[l], e))
           /\ Caught(Append(log[l], e), Len(log[l]) + 1)
           /\ Justified(Append(log[l], e), Len(log[l]) + 1)
<1> USE DEF IndInv
<1>0. MaxAccesses \in Nat
  BY BoundAssumption
<1> PICK p : p = pending[c]
  OBVIOUS
<1>1. p \in Request /\ p # Idle
  BY DEF Process, Typed
<1>2. p.line \in Line /\ p.time \in Time /\ p.op \in {"read", "write"}
  BY <1>1 DEF Request
<1> PICK l \in Line : l = p.line
  BY <1>2
<1> PICK time \in Time : time = p.time
  BY <1>2
<1> PICK s \in Seq(Access) : s = log[l]
  BY DEF Typed
<1>3. Summary(records[l], s) /\ \A i \in 1..Len(s) : s[i].core = c => s[i].time <= time
  BY <1>1 DEF Judged, Ordered
<1>4. Len(s) + 1 <= MaxAccesses
  <2>1. c \in Busy /\ IsFiniteSet(Busy)
    BY <1>1 DEF Busy, Bounded
  <2>2. Cardinality(Busy) \in Nat /\ Cardinality(Busy) # 0
    BY <2>1, FS_CardinalityType, FS_EmptySet
  <2>3. Len(s) \in Nat /\ Len(s) + Cardinality(Busy) <= accesses /\ accesses \in 0..MaxAccesses
    BY DEF Typed, Bounded
  <2> QED BY <1>0, <2>2, <2>3
<1>5. CASE p.op = "read"
  <2> PICK outcome : outcome = ReadOutcome(records[l], c, time)
    OBVIOUS
  <2> PICK e : e = [core |-> c, op |-> "read", time |-> time, count |-> outcome.count]
    OBVIOUS
  <2>1. Processing(c, l, e, outcome.record)
    BY <1>5 DEF Process, Processing
  <2>2. e \in Access /\ Summary(outcome.record, Append(s, e))
    BY <1>3, ReadSummary
  <2>3. e.count <= MaxAccesses
    <3>1. outcome.count \in {0, 1} /\ Len(s) \in Nat
      BY <1>3, ReadCounts
    <3> QED BY <1>0, <1>4, <3>1
  <2>4. Caught(Append(s, e), Len(s) + 1)
    BY <1>3, AccusedRead
  <2>5. Justified(Append(s, e), Len(s) + 1)
    BY <1>3, JustifiedRead
  <2>6. e.core = c /\ e.time = time
    OBVIOUS
  <2> QED BY <2>1, <2>2, <2>3, <2>4, <2>5, <2>6
<1>6. CASE p.op = "write"
  <2> PICK outcome : outcome = WriteOutcome(records[l], time)
    OBVIOUS
  <2> PICK e : e = [core |-> c, op |-> "write", time |-> time, count |-> outcome.count]
    OBVIOUS
  <2>1. Processing(c, l, e, outcome.record)
    BY <1>6 DEF Process, Processing
  <2>2. e \in Access /\ Summary(outcome.record, Append(s, e))
    BY <1>3, WriteSummary
  <2>3. e.count <= MaxAccesses
    <3>1. outcome.count \in Nat /\ outcome.count <= Len(s) /\ Len(s) \in Nat
      BY <1>3, WriteCounts
    <3> QED BY <1>0, <1>4, <3>1
  <2>4. Caught(Append(s, e), Len(s) + 1)
    BY <1>3, AccusedWrite
  <2>5. Justified(Append(s, e), Len(s) + 1)
    BY <1>3, JustifiedWrite
  <2>6. e.core = c /\ e.time = time
    OBVIOUS
  <2> QED BY <2>1, <2>2, <2>3, <2>4, <2>5, <2>6
<1> QED BY <1>2, <1>5, <1>6

LEMMA ProcessInv == ASSUME IndInv, NEW c \in Core, Process(c) PROVE IndInv'
<1> USE DEF IndInv
<1>0. {MaxTime, MaxAccesses} \subseteq Nat
  BY BoundAssumption
<1> PICK l \in Line, e \in Access : \E r :
      /\ Processing(c, l, e, r)
      /\ e.core = c /\ e.time = pending[c].time /\ e.count <= MaxAccesses
      /\ Summary(r, Append(log[l], e))
      /\ Caught(Append(log[l], e), Len(log[l]) + 1)
  BY Processed
<1> PICK r :
      /\ Processing(c, l, e, r)
      /\ e.core = c /\ e.time = pending[c].time /\ e.count <= MaxAccesses
      /\ Summary(r, Append(log[l], e))
      /\ Caught(Append(log[l], e), Len(log[l]) + 1)
  OBVIOUS
<1> PICK s \in Seq(Access) : s = log[l]
  BY DEF Typed
<1> PICK t : t = Append(s, e)
  OBVIOUS
<1>1. /\ t \in Seq(Access) /\ Len(s) \in Nat /\ Len(t) = Len(s) + 1 /\ t[Len(s) + 1] = e
      /\ \A i \in 1..Len(s) : t[i] = s[i]
  OBVIOUS
<1>2. /\ log'[l] = t /\ records'[l] = r
      /\ \A k \in Line : k # l => log'[k] = log[k] /\ records'[k] = records[k]
      /\ DOMAIN records' = Line
  BY DEF Processing, Typed
<1>3. /\ pending'[c] = Idle /\ pending[c] # Idle
      /\ \A d \in Core : d # c => pending'[d] = pending[d]
      /\ violations'[c] = violations[c] + e.count
      /\ \A d \in Core : d # c => violations'[d] = violations[d]
      /\ accesses' = accesses /\ target' = target
  BY DEF Processing, Typed, Process
<1>4. e.count \in Nat
  BY DEF Access
<1>5. Typed'
  <2>1. \A d \in Core : violations'[d] \in Nat
    BY <1>3, <1>4 DEF Typed
  <2>2. violations' \in [Core -> Nat]
    BY <2>1 DEF Processing, Typed
  <2>3. log' \in [Line -> Seq(Access)]
    BY <1>1 DEF Processing, Typed
  <2> QED BY <1>2, <2>2, <2>3 DEF Processing, Typed
<1>6. Bounded'
  <2>1. Busy' = Busy \ {c} /\ c \in Busy
    BY <1>3 DEF Busy
  <2>2. IsFiniteSet(Busy') /\ Cardinality(Busy') = Cardinality(Busy) - 1
    BY <2>1, FS_RemoveElement DEF Bounded
  <2>3. Cardinality(Busy) \in Nat /\ accesses \in Int
    BY FS_CardinalityType DEF Bounded, Typed
  <2>4. \A k \in Line : Len(log[k]) \in Int
    BY DEF Typed
  <2>5. \A k \in Line : Len(log'[k]) + Cardinality(Busy') <= accesses'
    <3>1. \A k \in Line : Len(log'[k]) \in Int /\ Len(log'[k]) <= Len(log[k]) + 1
      BY <1>1, <1>2, <2>4
    <3> QED BY <1>3, <2>2, <2>3, <2>4, <3>1 DEF Bounded
  <2>6. MaxAccesses * (accesses - Cardinality(Busy'))
        = MaxAccesses * (accesses - Cardinality(Busy)) + MaxAccesses
    BY <1>0, <2>2, <2>3
  <2>7. \A d \in Core : violations'[d] <= violations[d] + MaxAccesses
    BY <1>0, <1>3, <1>4 DEF Typed
  <2>8. ASSUME NEW d \in Core
        PROVE  violations'[d] <= MaxAccesses * (accesses - Cardinality(Busy'))
    <3> DEFINE b == MaxAccesses * (accesses - Cardinality(Busy))
    <3>1. violations[d] <= b /\ b \in Int /\ violations[d] \in Int /\ violations'[d] \in Int
      BY <1>0, <1>5, <2>3 DEF Bounded, Typed
    <3>2. MaxAccesses * (accesses - Cardinality(Busy')) = b + MaxAccesses
      BY <2>6
    <3> HIDE DEF b
    <3> QED BY <1>0, <2>7, <3>1, <3>2
  <2> QED BY <1>3, <2>2, <2>5, <2>8 DEF Bounded
<1>7. Ordered'
  <2> SUFFICES ASSUME NEW d \in Core
               PROVE  /\ pending'[d] # Idle => pending'[d].time <= target[d]
                      /\ \A k \in Line : \A i \in 1..Len(log'[k]) : log'[k][i].core = d =>
                           /\ log'[k][i].time <= target[d]
                           /\ pending'[d] # Idle => log'[k][i].time <= pending'[d].time
    BY <1>3 DEF Ordered
  <2>1. pending'[d] # Idle => d # c /\ pending'[d] = pending[d]
    BY <1>3
  <2>2. ASSUME NEW k \in Line, NEW i \in 1..Len(log'[k]), log'[k][i].core = d
        PROVE  /\ log'[k][i].time <= target[d]
               /\ pending'[d] # Idle => log'[k][i].time <= pending'[d].time
    <3>1. CASE k # l \/ i \in 1..Len(s)
      <4>1. i \in 1..Len(log[k]) /\ log'[k][i] = log[k][i]
        BY <1>1, <1>2, <3>1
      <4> QED BY <2>1, <2>2, <4>1 DEF Ordered
    <3>2. CASE k = l /\ i = Len(s) + 1
      <4>1. log'[k][i] = e
        BY <1>1, <1>2, <3>2
      <4>2. d = c
        BY <2>2, <4>1
      <4> QED BY <1>3, <4>1, <4>2 DEF Ordered
    <3> QED BY <1>1, <1>2, <3>1, <3>2
  <2> QED BY <2>1, <2>2 DEF Ordered
<1>8. Judged'
  <2> SUFFICES ASSUME NEW k \in Line
               PROVE  /\ Summary(records'[k], log'[k])
                      /\ \A j \in 1..Len(log'[k]) : Caught(log'[k], j)
    BY DEF Judged
  <2>1. CASE k # l
    BY <1>2, <2>1 DEF Judged
  <2>2. CASE k = l
    <3>1. Summary(records'[k], log'[k])
      BY <1>2, <2>2
    <3>2. ASSUME NEW j \in 1..Len(t)
          PROVE  Caught(t, j)
      <4>1. CASE j \in 1..Len(s)
        <5>1. Caught(s, j)
          BY <4>1 DEF Judged
        <5> QED BY <4>1, <5>1, CaughtBefore
      <4>2. CASE j = Len(s) + 1
        BY <4>2
      <4> QED BY <1>1, <4>1, <4>2
    <3> QED BY <1>2, <2>2, <3>1, <3>2
  <2> QED BY <2>1, <2>2
<1> QED BY <1>5, <1>6, <1>7, <1>8

(* ---- theorems ---------------------------------------------------------- *)
LEMMA StepInv == IndInv /\ [Next \/ Halted]_vars => IndInv'
<1> SUFFICES ASSUME IndInv, [Next \/ Halted]_vars PROVE IndInv'
  OBVIOUS
<1>1. CASE UNCHANGED vars
  BY <1>1 DEF vars, IndInv, Typed, Bounded, Busy, Ordered, Judged
<1>2. CASE StartClear
  BY <1>2 DEF StartClear, IndInv, Typed, Bounded, Busy, Ordered, Judged
<1>3. CASE Halted
  BY <1>1, <1>3 DEF Halted
<1> QED BY <1>1, <1>2, <1>3, AdvanceInv, ReadTimeInv, ProcessInv, ClearInv DEF Next

LEMMA Inductive == Spec => []IndInv
BY InitInv, StepInv, PTL DEF Spec

(* The record of every line says what arrived since the checkpoint, for any *)
(* number of cores, lines and accesses: the reads after the last write, or  *)
(* the writes after the last read in order (process_read, process_write).   *)
THEOREM RecordsFaithful == Spec => []SummaryFaithful
<1>1. ASSUME IndInv
      PROVE  SummaryFaithful
  <2>0. {MaxTime, MaxAccesses} \subseteq Nat
    BY BoundAssumption
  <2>1. ASSUME NEW l \in Line
        PROVE  log[l] \in Seq(Access) /\ Summary(records[l], log[l]) /\ Len(log[l]) <= MaxAccesses
    <3>1. log[l] \in Seq(Access) /\ Len(log[l]) \in Nat /\ accesses \in 0..MaxAccesses
      BY <1>1 DEF IndInv, Typed
    <3>2. Cardinality(Busy) \in Nat
      BY <1>1, FS_CardinalityType DEF IndInv, Bounded
    <3> QED BY <1>1, <2>0, <3>1, <3>2 DEF IndInv, Bounded, Judged
  <2>2. \A l \in Line : RecordTyped(records[l])
    BY <2>1, SummaryTyped
  <2>3. \A l \in Line : Faithful(records[l], log[l])
    BY <2>1, SummaryIsFaithful
  <2>4. violations \in [Core -> 0..(MaxAccesses * MaxAccesses)]
    <3>1. Cardinality(Busy) \in Nat /\ accesses \in Nat /\ accesses <= MaxAccesses
      BY <1>1, <2>0, FS_CardinalityType DEF IndInv, Bounded, Typed
    <3>2. MaxAccesses * (accesses - Cardinality(Busy)) <= MaxAccesses * MaxAccesses
      BY <2>0, <3>1
    <3>3. \A c \in Core : violations[c] \in Nat
      BY <1>1 DEF IndInv, Typed
    <3>4. \A c \in Core : violations[c] <= MaxAccesses * MaxAccesses
      BY <1>1, <2>0, <3>1, <3>2, <3>3 DEF IndInv, Bounded
    <3>5. \A c \in Core : violations[c] \in 0..(MaxAccesses * MaxAccesses)
      BY <2>0, <3>3, <3>4
    <3> QED BY <1>1, <3>5 DEF IndInv, Typed
  <2>5. TypeOK
    BY <1>1, <2>2, <2>4 DEF TypeOK, RecordTyped, IndInv, Typed, Time
  <2> QED BY <2>3, <2>5 DEF SummaryFaithful, Faithful
<1> QED BY <1>1, Inductive, PTL

(* A read whose last write before it is later, with no read in order        *)
(* between them, is always accused, and a write once for every later read   *)
(* since the write before it (the counts of SharedMemoryCausalityViolation).*)
THEOREM Neighbours == Spec => []NeighboursCaught
<1>1. ASSUME IndInv
      PROVE  NeighboursCaught
  <2> SUFFICES ASSUME NEW l \in Line, NEW j \in DOMAIN log[l]
               PROVE  LET s == log[l]
                          w == LastOf({i \in Writes(s) : i < j})
                          reads == {i \in AcceptedReads(s) : w < i /\ i < j}
                      IN IF s[j].op = "write"
                         THEN s[j].count = Cardinality({i \in reads : s[i].time > s[j].time})
                         ELSE w > 0 /\ reads = {} /\ s[w].time > s[j].time => s[j].count = 1
    BY DEF NeighboursCaught
  <2>1. Caught(log[l], j)
    <3>1. log[l] \in Seq(Access)
      BY <1>1 DEF IndInv, Typed
    <3>2. j \in 1..Len(log[l])
      BY <3>1
    <3> QED BY <1>1, <3>2 DEF IndInv, Judged
  <2> QED BY <2>1 DEF Caught
<1> QED BY <1>1, Inductive, PTL

(* A core is accused only if accesses of two cores came in the wrong order: *)
(* its own and another's, or, for a read, two writes before it.             *)
THEOREM Alarms == Spec => AlarmsJustified
<1> DEFINE A == \A c \in Core : violations'[c] > violations[c] =>
       \E l \in Line :
         LET s == log'[l]
             n == Len(s)
             early == {i \in DOMAIN s : Inverted(s, i, n)}
         IN /\ n = Len(log[l]) + 1 /\ s[n].core = c
            /\ \/ violations'[c] - violations[c] <= Cardinality(early)
               \/ /\ s[n].op = "read" /\ violations'[c] = violations[c] + 1
                  /\ \E i, j \in Writes(s) : Inverted(s, i, j)
<1>1. ASSUME IndInv, [Next \/ Halted]_vars
      PROVE  [A]_vars
  <2>1. ASSUME NEW d \in Core, Process(d)
        PROVE  A
    <3> SUFFICES ASSUME NEW c \in Core, violations'[c] > violations[c]
                 PROVE  \E l \in Line :
                          LET s == log'[l]
                              n == Len(s)
                              early == {i \in DOMAIN s : Inverted(s, i, n)}
                          IN /\ n = Len(log[l]) + 1 /\ s[n].core = c
                             /\ \/ violations'[c] - violations[c] <= Cardinality(early)
                                \/ /\ s[n].op = "read" /\ violations'[c] = violations[c] + 1
                                   /\ \E i, j \in Writes(s) : Inverted(s, i, j)
      OBVIOUS
    <3> PICK l \in Line, e \in Access : \E r :
          /\ Processing(d, l, e, r) /\ e.core = d
          /\ Justified(Append(log[l], e), Len(log[l]) + 1)
      BY <1>1, <2>1, Processed
    <3>1. /\ violations' = [violations EXCEPT ![d] = @ + e.count]
          /\ log' = [log EXCEPT ![l] = Append(@, e)]
      BY DEF Processing
    <3> PICK s : s = log'[l]
      OBVIOUS
    <3> PICK n \in Nat : n = Len(log[l]) + 1
      BY <1>1 DEF IndInv, Typed
    <3>2. s = Append(log[l], e) /\ Len(s) = n /\ s[n] = e
      BY <1>1, <3>1 DEF IndInv, Typed
    <3>3. e.count \in Nat /\ violations[c] \in Nat /\ violations'[c] \in Nat
      BY <1>1, <3>1 DEF IndInv, Typed, Access
    <3>4. c = d
      BY <1>1, <3>1, <3>3 DEF IndInv, Typed
    <3>5. violations'[c] - violations[c] = e.count /\ violations'[c] = violations[c] + e.count
      BY <1>1, <3>1, <3>3, <3>4 DEF IndInv, Typed
    <3>6. /\ n = Len(log[l]) + 1 /\ s[n].core = c
          /\ \/ violations'[c] - violations[c] <= Cardinality(Early(s, n))
             \/ /\ s[n].op = "read" /\ violations'[c] = violations[c] + 1
                /\ \E i, j \in Writes(s) : Inverted(s, i, j)
      <4>1. Justified(s, n) /\ s[n].count # 0
        BY <3>2, <3>3, <3>5
      <4>2. s[n].count = e.count
        BY <3>2
      <4> QED BY <3>2, <3>4, <3>5, <4>1, <4>2 DEF Justified
    <3> QED BY <3>2, <3>6 DEF Early
  <2>2. CASE \A c \in Core : ~Process(c)
    <3>1. violations' = violations
      BY <1>1, <2>2 DEF Next, Halted, vars, Advance, ReadTime, StartClear, ClearShard
    <3>2. \A c \in Core : violations[c] \in Nat
      BY <1>1 DEF IndInv, Typed
    <3> QED BY <3>1, <3>2
  <2> QED BY <2>1, <2>2
<1> HIDE DEF A
<1>2. Spec => [][A]_vars
  BY <1>1, Inductive, PTL DEF Spec
<1> QED BY <1>2 DEF AlarmsJustified, A
=============================================================================
