------------------------- MODULE SmsPrefetcherProofs -------------------------
(* Proofs about SmsPrefetcher for any number of cores, program counters and *)
(* regions, tables of any size and every setting of its flags.              *)
EXTENDS SmsPrefetcher, FiniteSetTheorems, TLAPS

(* ---- what the state consists of ---------------------------------------- *)
Label == {"accessing", "prefetching", "recording", "filtering", "promoting", "learning",
          "evicting_filter", "evicting_acc", "evicting_learn"}
Request == [op : Op, pc : Pc]
PhtEntry == [key : [pc : Pc, offset : Offset], counters : [PatternType -> [Offset -> 0..3]]]

Running == [at : Label, phase : {"demand", "walk", "prefetch"}, block : Block,
            request : Request \cup {<<>>}, todo : SUBSET Block, count : Nat,
            entry : SUBSET AccEntry, victim : (Core \X Block) \cup {<<>>}, evicts : Nat]

(* A thread that records or prefetches has a request, one that evicts has a *)
(* victim, and only between prefetches are there any to count.              *)
ThreadOK(r) ==
  \/ r = Idle
  \/ /\ r \in Running
     /\ r.phase # "walk" => r.request \in Request
     /\ r.at \in {"prefetching", "recording", "filtering", "promoting", "learning"} =>
          r.phase = "prefetch"
     /\ r.at \in {"evicting_filter", "evicting_acc", "evicting_learn"} =>
          r.victim \in Core \X Block
     /\ r.count # 0 => /\ r.phase = "prefetch"
                       /\ r.at \notin {"recording", "filtering", "promoting", "learning"}

Typed ==
  /\ filter \in [Core -> SUBSET FilterEntry]
  /\ acc \in [Core -> SUBSET AccEntry]
  /\ pht \in [Core -> SUBSET PhtEntry]
  /\ pf \in [Core -> SUBSET Block]
  /\ stats \in [Core -> [total : Nat, useless : Nat, useful : Nat]]
  /\ DOMAIN thread = Core /\ \A c \in Core : ThreadOK(thread[c])
  /\ seen \in [Core -> SUBSET (Pc \X Block)]

Within(table, n) == IsFiniteSet(table) /\ Cardinality(table) <= n

Sized ==
  \A c \in Core :
    /\ Within(filter[c], NFilter) /\ Within(acc[c], NAcc)
    /\ Within(pht[c], PhtWays) /\ IsFiniteSet(pf[c])
    /\ \A e, f \in pht[c] : e.key = f.key => e = f
    /\ \A e, f \in filter[c] : e.region = f.region => e = f
    /\ \A e, f \in acc[c] : e.region = f.region => e = f

(* A region that a thread looks for in the filter table is not in the       *)
(* accumulation table, and one it promotes is in neither.                   *)
Generations ==
  \A c \in Core :
    /\ \A e \in filter[c], f \in acc[c] : e.region # f.region
    /\ At(c, "filtering") => \A f \in acc[c] : f.region # thread[c].block[1]
    /\ At(c, "promoting") =>
         \E e \in AccEntry : /\ thread[c].entry = {e}
                             /\ \A f \in filter[c] : f.region # e.region
                             /\ \A f \in acc[c] : f.region # e.region

(* ---- the tables -------------------------------------------------------- *)
LEMMA Fewer ==
  ASSUME NEW table, NEW n \in Nat, Within(table, n), NEW less \in SUBSET table
  PROVE  Within(less, n)
<1>1. IsFiniteSet(less) /\ Cardinality(less) <= Cardinality(table)
  BY FS_Subset DEF Within
<1>2. Cardinality(less) \in Nat /\ Cardinality(table) \in Nat
  BY <1>1, FS_CardinalityType DEF Within
<1> QED BY <1>1, <1>2 DEF Within

LEMMA OneMore ==
  ASSUME NEW table, IsFiniteSet(table), NEW entry
  PROVE  /\ IsFiniteSet(table \cup {entry})
         /\ Cardinality(table) \in Nat /\ Cardinality(table \cup {entry}) \in Nat
         /\ Cardinality(table \cup {entry}) <= Cardinality(table) + 1
<1>1. /\ IsFiniteSet(table \cup {entry})
      /\ \/ Cardinality(table \cup {entry}) = Cardinality(table)
         \/ Cardinality(table \cup {entry}) = Cardinality(table) + 1
  BY FS_AddElement
<1>2. Cardinality(table) \in Nat /\ Cardinality(table \cup {entry}) \in Nat
  BY <1>1, FS_CardinalityType
<1> QED BY <1>1, <1>2

LEMMA OneReplaced ==
  ASSUME NEW table, NEW n \in Nat, Within(table, n), NEW old \in table, NEW entry
  PROVE  Within((table \ {old}) \cup {entry}, n)
<1> DEFINE rest == table \ {old}
<1>1. /\ IsFiniteSet(rest) /\ Cardinality(rest) = Cardinality(table) - 1
      /\ Cardinality(table) \in Nat
  BY FS_RemoveElement, FS_CardinalityType DEF Within
<1> HIDE DEF rest
<1>2. /\ IsFiniteSet(rest \cup {entry})
      /\ Cardinality(rest \cup {entry}) <= Cardinality(rest) + 1
      /\ Cardinality(rest \cup {entry}) \in Nat
  BY <1>1, OneMore
<1>3. Cardinality(rest \cup {entry}) <= Cardinality(table)
  BY <1>1, <1>2
<1> QED BY <1>1, <1>2, <1>3 DEF Within, rest

LEMMA InsertedWithin ==
  ASSUME NEW table, NEW n \in Nat, Within(table, n), NEW entry,
         NEW new \in Inserted(table, entry, n)
  PROVE  Within(new, n) /\ new \subseteq table \cup {entry}
<1>0. Cardinality(table) \in Nat /\ IsFiniteSet(table)
  BY FS_CardinalityType DEF Within
<1>1. CASE Cardinality(table) < n
  <2>1. new = table \cup {entry}
    BY <1>1 DEF Inserted
  <2>2. /\ IsFiniteSet(new) /\ Cardinality(new) <= Cardinality(table) + 1
        /\ Cardinality(new) \in Nat
    BY <1>0, <2>1, OneMore
  <2> QED BY <1>0, <1>1, <2>1, <2>2 DEF Within
<1>2. CASE ~(Cardinality(table) < n)
  <2>1. PICK old \in table : new = (table \ {old}) \cup {entry}
    BY <1>2 DEF Inserted
  <2> QED BY <2>1, OneReplaced
<1> QED BY <1>1, <1>2

LEMMA Sizes == {NFilter, NAcc, PhtWays, NBlk} \subseteq Nat /\ NBlk > 0
BY TableAssumption

(* ---- what is kept in them ---------------------------------------------- *)
LEMMA ExtendedEntry ==
  ASSUME NEW e \in AccEntry, NEW offset \in Offset, NEW op \in {"read", "write"},
         NEW x, x = Extended(e, offset, op)
  PROVE  x \in AccEntry /\ x.region = e.region /\ x.pc = e.pc /\ x.offset = e.offset
<1>1. x.region = e.region /\ x.pc = e.pc /\ x.offset = e.offset
  BY DEF Extended, AccEntry
<1>2. x \in AccEntry
  BY DEF Extended, AccEntry, Pattern
<1> QED BY <1>1, <1>2

(* An entry that leaves the filter table holds the two blocks it has seen.  *)
LEMMA PromotedEntry ==
  ASSUME NEW r \in Running, r.request \in Request, NEW e \in FilterEntry,
         NEW x, x = Promoted(r, e)
  PROVE  /\ x \in AccEntry /\ x.region = e.region /\ x.pc = e.pc /\ x.offset = e.offset
         /\ \A o \in Offset : x.pattern[o] # "none" => o = r.block[2] \/ o = e.offset
<1>1. r.request.op \in {"read", "write"} /\ e.op \in {"read", "write"}
  BY OpAssumption DEF Request, FilterEntry
<1>2. e.region \in Region /\ e.pc \in Pc /\ e.offset \in Offset
  BY DEF FilterEntry
<1> DEFINE p == [o \in Offset |-> CASE o = r.block[2] -> r.request.op
                                    [] o = e.offset -> e.op
                                    [] OTHER -> "none"]
<1>3. /\ p \in Pattern
      /\ \A o \in Offset : p[o] # "none" => o = r.block[2] \/ o = e.offset
  BY <1>1 DEF Pattern
<1>4. x = [region |-> e.region, pc |-> e.pc, offset |-> e.offset, pattern |-> p]
  BY DEF Promoted
<1> HIDE DEF p
<1> QED BY <1>2, <1>3, <1>4 DEF AccEntry

(* What a pattern history table holds once an entry is learnt.              *)
LEMMA LearnTypes ==
  ASSUME NEW entry \in AccEntry
  PROVE  /\ Key(entry.pc, entry.offset) \in [pc : Pc, offset : Offset]
         /\ Fresh(entry) \in [PatternType -> [Offset -> 0..3]]
         /\ \A counters \in [PatternType -> [Offset -> 0..3]] :
              Trained(counters, entry) \in [PatternType -> [Offset -> 0..3]]
<1>1. Key(entry.pc, entry.offset) \in [pc : Pc, offset : Offset]
  <2>1. 0 \in Offset
    BY Sizes DEF Offset
  <2> QED BY <2>1 DEF Key, AccEntry
<1>2. Fresh(entry) \in [PatternType -> [Offset -> 0..3]]
  BY DEF Fresh
<1>3. ASSUME NEW counters \in [PatternType -> [Offset -> 0..3]]
      PROVE  Trained(counters, entry) \in [PatternType -> [Offset -> 0..3]]
  <2> DEFINE count(type, o) ==
        LET bit == Touched(entry, type)[o]
            n   == counters[type][o]
        IN CASE ~SatCnt -> IF bit THEN 2 ELSE 1
             [] SatCnt /\ bit -> IF n < 3 THEN n + 1 ELSE n
             [] SatCnt /\ ~bit -> IF n > 0 THEN n - 1 ELSE n
  <2>1. ASSUME NEW type \in PatternType, NEW o \in Offset
        PROVE  count(type, o) \in 0..3
    <3>1. counters[type][o] \in 0..3
      OBVIOUS
    <3> QED BY <3>1
  <2> HIDE DEF count
  <2>2. [type \in PatternType |-> [o \in Offset |-> count(type, o)]]
          \in [PatternType -> [Offset -> 0..3]]
    BY <2>1
  <2> QED BY <2>2 DEF Trained, count
<1> QED BY <1>1, <1>2, <1>3

LEMMA Learned ==
  ASSUME pht \in [Core -> SUBSET PhtEntry], NEW c \in Core, Within(pht[c], PhtWays),
         \A e, f \in pht[c] : e.key = f.key => e = f,
         NEW entry \in AccEntry, Learn(c, entry)
  PROVE  \E T \in SUBSET PhtEntry :
           /\ pht' = [pht EXCEPT ![c] = T]
           /\ Within(T, PhtWays)
           /\ \A e, f \in T : e.key = f.key => e = f
           /\ \A x \in T :
                \/ x \in pht[c]
                \/ /\ x.key = Key(entry.pc, entry.offset)
                   /\ \/ x.counters = Fresh(entry)
                      \/ \E e \in pht[c] : /\ e.key = x.key
                                           /\ x.counters = Trained(e.counters, entry)
<1> DEFINE key == Key(entry.pc, entry.offset)
           same == {e \in pht[c] : e.key = key}
<1>1. key \in [pc : Pc, offset : Offset]
  BY LearnTypes
<1>2. CASE same # {}
  <2> PICK e \in pht[c] : e.key = key
    BY <1>2
  <2>1. same = {e}
    OBVIOUS
  <2> DEFINE x == [e EXCEPT !.counters = Trained(@, entry)]
             T == (pht[c] \ {e}) \cup {x}
  <2>2. x \in PhtEntry /\ x.key = key /\ x.counters = Trained(e.counters, entry)
    <3>1. /\ e \in PhtEntry /\ e.counters \in [PatternType -> [Offset -> 0..3]]
          /\ e.key \in [pc : Pc, offset : Offset]
      BY DEF PhtEntry
    <3>2. Trained(e.counters, entry) \in [PatternType -> [Offset -> 0..3]]
      BY <3>1, LearnTypes
    <3> QED BY <3>1, <3>2 DEF PhtEntry
  <2>3. pht' = [pht EXCEPT ![c] = T]
    <3>1. pht' = [pht EXCEPT ![c] =
                    (@ \ same) \cup {[y EXCEPT !.counters = Trained(@, entry)] : y \in same}]
      BY <1>2 DEF Learn
    <3>2. {[y EXCEPT !.counters = Trained(@, entry)] : y \in {e}} = {x}
      OBVIOUS
    <3> QED BY <2>1, <3>1, <3>2
  <2> HIDE DEF x
  <2>4. Within(T, PhtWays)
    BY Sizes, OneReplaced
  <2>5. T \in SUBSET PhtEntry
    BY <2>2
  <2>6. \A y, f \in T : y.key = f.key => y = f
    BY <2>2
  <2>7. \A y \in T : y \in pht[c] \/ y = x
    OBVIOUS
  <2> HIDE DEF T
  <2> QED BY <2>2, <2>3, <2>4, <2>5, <2>6, <2>7
<1>3. CASE same = {}
  <2> DEFINE x == [key |-> key, counters |-> Fresh(entry)]
  <2>1. PICK T \in Inserted(pht[c], x, PhtWays) : pht' = [pht EXCEPT ![c] = T]
    BY <1>3 DEF Learn
  <2>2. x \in PhtEntry /\ x.key = key /\ x.counters = Fresh(entry)
    BY <1>1, LearnTypes DEF PhtEntry
  <2> HIDE DEF x
  <2>3. Within(T, PhtWays) /\ T \subseteq pht[c] \cup {x}
    BY Sizes, InsertedWithin
  <2>4. \A y, f \in T : y.key = f.key => y = f
    BY <1>3, <2>2, <2>3
  <2>5. T \in SUBSET PhtEntry
    BY <2>2, <2>3
  <2> QED BY <2>1, <2>2, <2>3, <2>4, <2>5
<1> QED BY <1>2, <1>3

(* ---- types ------------------------------------------------------------- *)
TypesInv == Typed /\ Sized

LEMMA InitTypes == Init => TypesInv
<1> SUFFICES ASSUME Init PROVE TypesInv
  OBVIOUS
<1>1. Typed
  BY DEF Init, Typed, ThreadOK
<1>2. IsFiniteSet({}) /\ Cardinality({}) = 0
  BY FS_EmptySet
<1> QED BY <1>1, <1>2, Sizes DEF Init, TypesInv, Sized, Within

(* A thread that moves on keeps the others where they are.                  *)
LEMMA Moved ==
  ASSUME Typed, NEW t \in Core, NEW r, ThreadOK(r), thread' = [thread EXCEPT ![t] = r]
  PROVE  /\ DOMAIN thread' = Core /\ \A c \in Core : ThreadOK(thread'[c])
         /\ thread'[t] = r /\ \A c \in Core : c # t => thread'[c] = thread[c]
BY DEF Typed

LEMMA EnterTypes ==
  ASSUME TypesInv, NEW t \in Core, NEW block \in Block, NEW phase \in {"demand", "walk"},
         NEW request, (request = <<>> /\ phase = "walk") \/ request \in Request,
         Enter(t, block, phase, request),
         seen' \in [Core -> SUBSET (Pc \X Block)]
  PROVE  TypesInv'
<1> USE DEF TypesInv
<1> DEFINE r == [at |-> "accessing", phase |-> phase, block |-> block, request |-> request,
                 todo |-> {}, count |-> 0, entry |-> {}, victim |-> <<>>, evicts |-> 0]
<1>1. ThreadOK(r)
  BY DEF ThreadOK, Running, Label
<1>2. thread' = [thread EXCEPT ![t] = r]
  BY DEF Enter
<1> HIDE DEF r
<1>3. pf' \in [Core -> SUBSET Block] /\ \A c \in Core : pf'[c] \subseteq pf[c]
  BY DEF Enter, Used, Typed
<1>4. stats' \in [Core -> [total : Nat, useless : Nat, useful : Nat]]
  <2> DEFINE n == IF block \in pf[t] THEN stats[t].useful + 1 ELSE stats[t].useful
  <2>1. stats[t] \in [total : Nat, useless : Nat, useful : Nat] /\ n \in Nat
    BY DEF Typed
  <2>2. stats' = [stats EXCEPT ![t] = [stats[t] EXCEPT !.useful = n]]
    BY DEF Enter
  <2> HIDE DEF n
  <2> QED BY <2>1, <2>2 DEF Typed
<1>5. Typed'
  BY <1>1, <1>2, <1>3, <1>4, Moved DEF Enter, tables, Typed
<1>6. \A c \in Core : IsFiniteSet(pf'[c])
  BY <1>3, FS_Subset DEF Sized
<1> QED BY <1>5, <1>6 DEF Enter, tables, Sized

LEMMA StartTypes ==
  ASSUME TypesInv, NEW t \in Core, NEW block \in Block,
         \/ \E op \in Op, pc \in Pc : StartAccess(t, op, pc, block)
         \/ StartWalk(t, block)
  PROVE  TypesInv'
<1>1. ASSUME NEW op \in Op, NEW pc \in Pc, StartAccess(t, op, pc, block)
      PROVE  TypesInv'
  <2>1. Enter(t, block, "demand", [op |-> op, pc |-> pc])
    BY <1>1 DEF StartAccess
  <2>2. [op |-> op, pc |-> pc] \in Request
    BY DEF Request
  <2>3. seen' \in [Core -> SUBSET (Pc \X Block)]
    BY <1>1 DEF StartAccess, TypesInv, Typed
  <2> QED BY <2>1, <2>2, <2>3, EnterTypes
<1>2. CASE StartWalk(t, block)
  <2>1. Enter(t, block, "walk", <<>>) /\ seen' = seen
    BY <1>2 DEF StartWalk
  <2>2. seen' \in [Core -> SUBSET (Pc \X Block)]
    BY <2>1 DEF TypesInv, Typed
  <2> QED BY <2>1, <2>2, EnterTypes
<1> QED BY <1>1, <1>2

(* A thread that is not idle, with what its state says.                     *)
LEMMA Awake ==
  ASSUME TypesInv, NEW t \in Core, thread[t].at # "idle"
  PROVE  /\ thread[t] # Idle /\ thread[t] \in Running /\ ThreadOK(thread[t])
         /\ thread[t].phase # "walk" => thread[t].request \in Request
         /\ thread[t].at \in {"prefetching", "recording", "filtering", "promoting", "learning"} =>
              thread[t].phase = "prefetch"
         /\ thread[t].at \in {"evicting_filter", "evicting_acc", "evicting_learn"} =>
              thread[t].victim \in Core \X Block
         /\ thread[t].count # 0 =>
              /\ thread[t].phase = "prefetch"
              /\ thread[t].at \notin {"recording", "filtering", "promoting", "learning"}
<1>1. thread[t] # Idle /\ ThreadOK(thread[t])
  BY DEF Idle, TypesInv, Typed
<1> QED BY <1>1 DEF ThreadOK

LEMMA WalkTypes == ASSUME TypesInv, NEW t \in Core, FinishWalk(t) PROVE TypesInv'
<1>1. ThreadOK(Idle)
  BY DEF ThreadOK
<1>2. thread' = [thread EXCEPT ![t] = Idle]
  BY DEF FinishWalk
<1> QED BY <1>1, <1>2, Moved DEF FinishWalk, tables, TypesInv, Typed, Sized

LEMMA LookupTypes == ASSUME TypesInv, NEW t \in Core, LookupPattern(t) PROVE TypesInv'
<1> PICK r : r = thread[t]
  OBVIOUS
<1>1. r.at = "accessing" /\ r.phase = "demand"
  BY DEF LookupPattern, At
<1>2. r \in Running /\ r.request \in Request /\ r.count = 0
  BY <1>1, Awake
<1> DEFINE todo == {<<r.block[1], o>> : o \in Predicted(t, r.request.pc, r.block[2], r.request.op)}
                   \ {r.block}
<1>3. todo \in SUBSET Block
  <2>1. Predicted(t, r.request.pc, r.block[2], r.request.op) \subseteq Offset
    BY DEF Predicted
  <2>2. r.block[1] \in Region
    BY <1>2 DEF Running, Block
  <2> QED BY <2>1, <2>2 DEF Block
<1> DEFINE x == [r EXCEPT !.at = "prefetching", !.phase = "prefetch", !.evicts = 0, !.todo = todo]
<1>4. thread' = [thread EXCEPT ![t] = x]
  BY DEF LookupPattern
<1> HIDE DEF todo
<1>5. ThreadOK(x)
  BY <1>2, <1>3 DEF ThreadOK, Running, Label
<1> HIDE DEF x
<1> QED BY ZenonT(60), <1>4, <1>5, Moved DEF LookupPattern, tables, TypesInv, Typed, Sized

LEMMA Between ==
  ASSUME TypesInv, NEW t \in Core, BetweenPrefetches(t)
  PROVE  /\ thread[t] \in Running /\ thread[t].phase = "prefetch" /\ thread[t].request \in Request
         /\ thread[t] # Idle
<1>1. thread[t].at \in {"prefetching", "accessing"}
  BY DEF BetweenPrefetches, At
<1>2. thread[t].phase = "prefetch"
  BY <1>1, Awake DEF BetweenPrefetches, At
<1> QED BY <1>1, <1>2, Awake

LEMMA PrefetchTypes == ASSUME TypesInv, NEW t \in Core, Prefetch(t) PROVE TypesInv'
<1> PICK r : r = thread[t]
  OBVIOUS
<1>1. r \in Running /\ r.phase = "prefetch" /\ r.request \in Request
  BY Between DEF Prefetch
<1> PICK n \in Nat : n = r.count + 1
  <2>1. r.count \in Nat
    BY <1>1 DEF Running
  <2> QED BY <2>1
<1> PICK block \in r.todo :
      /\ pf' = [pf EXCEPT ![t] = @ \cup {block}]
      /\ thread' = [thread EXCEPT ![t] =
           [r EXCEPT !.at = "accessing", !.todo = r.todo \ {block}, !.count = n, !.evicts = 0]]
  BY DEF Prefetch
<1> DEFINE x == [r EXCEPT !.at = "accessing", !.todo = r.todo \ {block}, !.count = n, !.evicts = 0]
<1>2. ThreadOK(x)
  BY <1>1 DEF ThreadOK, Running, Label
<1>3. thread' = [thread EXCEPT ![t] = x]
  OBVIOUS
<1> HIDE DEF x
<1>4. block \in Block
  BY <1>1 DEF Running
<1>5. pf' \in [Core -> SUBSET Block]
  BY <1>4 DEF TypesInv, Typed
<1>6. \A c \in Core : IsFiniteSet(pf'[c])
  <2>1. IsFiniteSet(pf[t] \cup {block})
    BY OneMore DEF TypesInv, Sized
  <2> QED BY <2>1 DEF TypesInv, Typed, Sized
<1>7. DOMAIN thread' = Core /\ \A c \in Core : ThreadOK(thread'[c])
  BY <1>2, <1>3, Moved DEF TypesInv
<1> QED BY <1>5, <1>6, <1>7 DEF Prefetch, tables, TypesInv, Typed, Sized

LEMMA CountTypes == ASSUME TypesInv, NEW t \in Core, CountPrefetches(t) PROVE TypesInv'
<1> PICK r : r = thread[t]
  OBVIOUS
<1>1. r \in Running /\ r.phase = "prefetch" /\ r.request \in Request
  BY Between DEF CountPrefetches
<1> DEFINE x == [r EXCEPT !.at = "recording", !.count = 0, !.evicts = 0]
<1>2. ThreadOK(x)
  BY <1>1 DEF ThreadOK, Running, Label
<1>3. thread' = [thread EXCEPT ![t] = x]
  BY DEF CountPrefetches
<1> HIDE DEF x
<1>4. stats' \in [Core -> [total : Nat, useless : Nat, useful : Nat]]
  <2>1. r.count \in Nat
    BY <1>1 DEF Running
  <2> QED BY <2>1 DEF CountPrefetches, TypesInv, Typed
<1> QED BY <1>2, <1>3, <1>4, Moved DEF CountPrefetches, tables, TypesInv, Typed, Sized

LEMMA PokeAccTypes ==
  ASSUME TypesInv, NEW t \in Core, PokeAcc(t)
  PROVE  /\ TypesInv'
         /\ \E T : /\ acc' = [acc EXCEPT ![t] = T]
                   /\ \A x \in T : \/ x \in acc[t]
                                   \/ \E e \in acc[t] :
                                        /\ e.region = thread[t].block[1]
                                        /\ x = Extended(e, thread[t].block[2],
                                                        thread[t].request.op)
<1> PICK r : r = thread[t]
  OBVIOUS
<1> PICK hit : hit = Of(acc[t], r.block[1])
  OBVIOUS
<1>1. r.at = "recording"
  BY DEF PokeAcc, At
<1>2. r \in Running /\ r.phase = "prefetch" /\ r.request \in Request /\ r.count = 0
  BY <1>1, Awake
<1> DEFINE x(e) == Extended(e, r.block[2], r.request.op)
           T == (acc[t] \ hit) \cup {x(e) : e \in hit}
<1>3. ASSUME NEW e \in hit
      PROVE  e \in acc[t] /\ e.region = r.block[1] /\ x(e) \in AccEntry /\ x(e).region = e.region
  <2>1. e \in AccEntry /\ e \in acc[t] /\ e.region = r.block[1]
    BY DEF TypesInv, Typed, Of
  <2>2. r.block[2] \in Offset /\ r.request.op \in {"read", "write"}
    BY <1>2, OpAssumption DEF Running, Block, Request
  <2> QED BY <2>1, <2>2, ExtendedEntry
<1>4. ThreadOK([r EXCEPT !.at = "filtering"]) /\ ThreadOK(Idle)
  BY <1>2 DEF ThreadOK, Running, Label
<1>5. acc' = [acc EXCEPT ![t] = T]
  BY DEF PokeAcc
<1> HIDE DEF x
<1>6. T \in SUBSET AccEntry
  BY <1>3 DEF TypesInv, Typed
<1>7. \A e, f \in hit : e = f
  BY <1>3 DEF TypesInv, Sized
<1>8. Within(T, NAcc) /\ \A e, f \in T : e.region = f.region => e = f
  <2>1. CASE hit = {}
    <3>1. T = acc[t]
      BY <2>1
    <3>2. Within(acc[t], NAcc) /\ \A e, f \in acc[t] : e.region = f.region => e = f
      BY DEF TypesInv, Sized
    <3> HIDE DEF T
    <3> QED BY <3>1, <3>2
  <2>2. ASSUME NEW e \in hit
        PROVE  Within(T, NAcc) /\ \A y, f \in T : y.region = f.region => y = f
    <3>1. hit = {e}
      BY <1>7
    <3>2. T = (acc[t] \ {e}) \cup {x(e)}
      BY <3>1
    <3>3. e \in acc[t] /\ x(e).region = e.region
      BY <1>3
    <3> HIDE DEF T
    <3>4. Within(T, NAcc)
      BY <3>2, <3>3, OneReplaced, Sizes DEF TypesInv, Sized
    <3>5. \A y, f \in acc[t] : y.region = f.region => y = f
      BY DEF TypesInv, Sized
    <3> QED BY <3>2, <3>3, <3>4, <3>5
  <2> HIDE DEF T
  <2> QED BY <2>1, <2>2
<1>9. \A y \in T : y \in acc[t] \/ \E e \in acc[t] : e.region = r.block[1] /\ y = x(e)
  BY <1>3
<1> HIDE DEF T
<1>10. Typed'
  <2>1. thread' = [thread EXCEPT ![t] = [r EXCEPT !.at = "filtering"]]
        \/ thread' = [thread EXCEPT ![t] = Idle]
    BY DEF PokeAcc
  <2>2. DOMAIN thread' = Core /\ \A c \in Core : ThreadOK(thread'[c])
    BY <1>4, <2>1, Moved DEF TypesInv
  <2> QED BY <1>5, <1>6, <2>2 DEF PokeAcc, TypesInv, Typed
<1>11. Sized'
  BY <1>5, <1>8 DEF PokeAcc, TypesInv, Typed, Sized
<1> QED BY <1>5, <1>9, <1>10, <1>11 DEF TypesInv, x

LEMMA PokeFilterTypes ==
  ASSUME TypesInv, NEW t \in Core, PokeFilter(t)
  PROVE  /\ TypesInv'
         /\ \/ \E e \in filter[t] :
                 /\ e.region = thread[t].block[1]
                 /\ filter' = [filter EXCEPT ![t] = @ \ {e}]
                 /\ thread' = [thread EXCEPT ![t] = [thread[t] EXCEPT !.at = "promoting",
                                                       !.entry = {Promoted(thread[t], e)}]]
            \/ /\ thread' = [thread EXCEPT ![t] = Idle]
               /\ \E T, new : /\ filter' = [filter EXCEPT ![t] = T]
                              /\ T \subseteq filter[t] \cup {new}
                              /\ new \in FilterEntry /\ new.region = thread[t].block[1]
                              /\ new.pc = thread[t].request.pc /\ new.offset = thread[t].block[2]
<1> PICK r : r = thread[t]
  OBVIOUS
<1> PICK hit : hit = Of(filter[t], r.block[1])
  OBVIOUS
<1>1. r.at = "filtering"
  BY DEF PokeFilter, At
<1>2. r \in Running /\ r.phase = "prefetch" /\ r.request \in Request /\ r.count = 0
  BY <1>1, Awake
<1>3. /\ \A e : e \in hit <=> e \in filter[t] /\ e.region = r.block[1]
      /\ \A e, f \in hit : e = f
      /\ \A e \in hit : e \in FilterEntry
  BY DEF Of, TypesInv, Typed, Sized
<1>4. ASSUME NEW e \in hit, e.offset # r.block[2],
             filter' = [filter EXCEPT ![t] = FilterAfterPromotion(t, hit)],
             thread' = [thread EXCEPT ![t] =
               [@ EXCEPT !.at = "promoting", !.entry = {Promoted(r, f) : f \in hit}]]
      PROVE  /\ TypesInv'
             /\ \E f \in filter[t] :
                  /\ f.region = r.block[1]
                  /\ filter' = [filter EXCEPT ![t] = @ \ {f}]
                  /\ thread' = [thread EXCEPT ![t] =
                       [r EXCEPT !.at = "promoting", !.entry = {Promoted(r, f)}]]
  <2>1. hit = {e}
    BY <1>3
  <2> DEFINE x == [r EXCEPT !.at = "promoting", !.entry = {Promoted(r, e)}]
  <2>2. {Promoted(r, f) : f \in hit} = {Promoted(r, e)}
    BY <2>1
  <2>3. thread' = [thread EXCEPT ![t] = x]
    BY <1>4, <2>2
  <2>4. filter' = [filter EXCEPT ![t] = @ \ {e}]
    BY <1>4, <2>1 DEF FilterAfterPromotion
  <2>5. ThreadOK(x)
    <3>1. Promoted(r, e) \in AccEntry
      BY <1>2, <1>3, PromotedEntry
    <3> QED BY <1>2, <3>1 DEF ThreadOK, Running, Label
  <2> HIDE DEF x
  <2>6. Within(filter[t] \ {e}, NFilter)
    BY Fewer, Sizes DEF TypesInv, Sized
  <2>7. TypesInv'
    BY <2>3, <2>4, <2>5, <2>6, Moved DEF PokeFilter, TypesInv, Typed, Sized
  <2> QED BY <1>3, <2>3, <2>4, <2>7 DEF x
<1> DEFINE new == [region |-> r.block[1], pc |-> r.request.pc, offset |-> r.block[2],
                   op |-> r.request.op]
<1>5. ASSUME NEW T \in Inserted(filter[t] \ hit, new, NFilter),
             filter' = [filter EXCEPT ![t] = T],
             thread' = [thread EXCEPT ![t] = Idle]
      PROVE  /\ TypesInv'
             /\ T \subseteq filter[t] \cup {new}
             /\ new \in FilterEntry /\ new.region = r.block[1]
             /\ new.pc = r.request.pc /\ new.offset = r.block[2]
  <2>1. /\ new \in FilterEntry /\ new.region = r.block[1]
        /\ new.pc = r.request.pc /\ new.offset = r.block[2]
    BY <1>2, OpAssumption DEF FilterEntry, Running, Request, Block
  <2> HIDE DEF new
  <2>2. Within(filter[t] \ hit, NFilter)
    BY Fewer, Sizes DEF TypesInv, Sized
  <2>3. Within(T, NFilter) /\ T \subseteq (filter[t] \ hit) \cup {new}
    BY <2>2, InsertedWithin, Sizes
  <2>4. \A e, f \in T : e.region = f.region => e = f
    <3>1. \A e, f \in filter[t] : e.region = f.region => e = f
      BY DEF TypesInv, Sized
    <3>2. \A e \in filter[t] \ hit : e.region # new.region
      BY <1>3, <2>1
    <3> QED BY <2>3, <3>1, <3>2
  <2>5. ThreadOK(Idle)
    BY DEF ThreadOK
  <2>6. T \in SUBSET FilterEntry
    BY <2>1, <2>3 DEF TypesInv, Typed
  <2>7. TypesInv'
    BY <1>5, <2>3, <2>4, <2>5, <2>6, Moved DEF PokeFilter, TypesInv, Typed, Sized
  <2> QED BY <2>1, <2>3, <2>7
<1>6. CASE \E e \in hit : e.offset # r.block[2]
  <2>1. /\ filter' = [filter EXCEPT ![t] = FilterAfterPromotion(t, hit)]
        /\ thread' = [thread EXCEPT ![t] =
             [@ EXCEPT !.at = "promoting", !.entry = {Promoted(r, f) : f \in hit}]]
    BY <1>6 DEF PokeFilter
  <2> QED BY <1>4, <1>6, <2>1
<1>7. CASE \A e \in hit : e.offset = r.block[2]
  <2>1. /\ \E T \in Inserted(filter[t] \ hit, new, NFilter) : filter' = [filter EXCEPT ![t] = T]
        /\ thread' = [thread EXCEPT ![t] = Idle]
    BY <1>7 DEF PokeFilter
  <2> HIDE DEF new
  <2> QED BY <1>5, <2>1
<1> QED BY <1>6, <1>7

LEMMA PromoteTypes ==
  ASSUME TypesInv, Generations, NEW t \in Core, Promote(t)
  PROVE  /\ TypesInv'
         /\ \E e \in thread[t].entry : \E T :
              /\ acc' = [acc EXCEPT ![t] = T] /\ T \subseteq acc[t] \cup {e}
              /\ \/ thread' = [thread EXCEPT ![t] = Idle]
                 \/ \E E \in SUBSET acc[t] : thread' = [thread EXCEPT ![t] =
                      [thread[t] EXCEPT !.at = "learning", !.entry = E]]
<1> PICK r : r = thread[t]
  OBVIOUS
<1>1. r.at = "promoting"
  BY DEF Promote, At
<1>2. r \in Running /\ r.phase = "prefetch" /\ r.request \in Request /\ r.count = 0
  BY <1>1, Awake
<1>3. PICK e \in AccEntry : r.entry = {e} /\ \A f \in acc[t] : f.region # e.region
  BY <1>1 DEF Generations, At
<1>4. (CHOOSE x \in r.entry : TRUE) = e
  BY <1>3
<1>5. PICK T \in Inserted(acc[t], e, NAcc) :
        /\ acc' = [acc EXCEPT ![t] = T]
        /\ thread' = [thread EXCEPT ![t] =
             IF acc[t] \ T = {} THEN Idle
             ELSE [@ EXCEPT !.at = "learning", !.entry = acc[t] \ T]]
  BY <1>4 DEF Promote
<1>6. Within(T, NAcc) /\ T \subseteq acc[t] \cup {e}
  BY InsertedWithin, Sizes DEF TypesInv, Sized
<1>7. \A x, y \in T : x.region = y.region => x = y
  BY <1>3, <1>6 DEF TypesInv, Sized
<1>8. PICK E \in SUBSET acc[t] : E = acc[t] \ T
  OBVIOUS
<1>9. \/ thread' = [thread EXCEPT ![t] = Idle]
      \/ thread' = [thread EXCEPT ![t] = [r EXCEPT !.at = "learning", !.entry = E]]
  BY <1>5, <1>8
<1>10. ThreadOK(Idle) /\ ThreadOK([r EXCEPT !.at = "learning", !.entry = E])
  <2>1. E \in SUBSET AccEntry
    BY DEF TypesInv, Typed
  <2> QED BY <1>2, <2>1 DEF ThreadOK, Running, Label
<1>11. DOMAIN thread' = Core /\ \A c \in Core : ThreadOK(thread'[c])
  BY <1>9, <1>10, Moved DEF TypesInv
<1>12. TypesInv'
  <2>1. acc' \in [Core -> SUBSET AccEntry]
    BY <1>5, <1>6 DEF TypesInv, Typed
  <2> QED BY <1>5, <1>6, <1>7, <1>11, <2>1 DEF Promote, TypesInv, Typed, Sized
<1> QED BY <1>3, <1>5, <1>6, <1>9, <1>12

(* What learning an entry of core c does to its pattern history table.      *)
Learns(c, entry) ==
  /\ \A d \in Core : d # c => pht'[d] = pht[d]
  /\ \A x \in pht'[c] :
       \/ x \in pht[c]
       \/ /\ x.key = Key(entry.pc, entry.offset)
          /\ \/ x.counters = Fresh(entry)
             \/ \E e \in pht[c] : /\ e.key = x.key
                                  /\ x.counters = Trained(e.counters, entry)

LEMMA LearnTyped ==
  ASSUME TypesInv, NEW c \in Core, NEW entry \in AccEntry, Learn(c, entry)
  PROVE  /\ Learns(c, entry)
         /\ pht' \in [Core -> SUBSET PhtEntry]
         /\ \A d \in Core : /\ Within(pht'[d], PhtWays)
                            /\ \A e, f \in pht'[d] : e.key = f.key => e = f
<1>1. PICK T \in SUBSET PhtEntry :
        /\ pht' = [pht EXCEPT ![c] = T]
        /\ Within(T, PhtWays)
        /\ \A e, f \in T : e.key = f.key => e = f
        /\ \A x \in T :
             \/ x \in pht[c]
             \/ /\ x.key = Key(entry.pc, entry.offset)
                /\ \/ x.counters = Fresh(entry)
                   \/ \E e \in pht[c] : /\ e.key = x.key
                                        /\ x.counters = Trained(e.counters, entry)
  BY Learned DEF TypesInv, Typed, Sized
<1>2. pht'[c] = T /\ \A d \in Core : d # c => pht'[d] = pht[d]
  BY <1>1 DEF TypesInv, Typed
<1>3. pht' \in [Core -> SUBSET PhtEntry]
  BY <1>1 DEF TypesInv, Typed
<1> QED BY <1>1, <1>2, <1>3 DEF Learns, TypesInv, Sized

LEMMA LearnEvictedTypes ==
  ASSUME TypesInv, NEW t \in Core, LearnEvicted(t)
  PROVE  TypesInv' /\ \E entry \in thread[t].entry : Learns(t, entry)
<1>1. thread[t].at = "learning"
  BY DEF LearnEvicted, At
<1>2. thread[t] \in Running
  BY <1>1, Awake
<1>3. PICK entry \in thread[t].entry : Learn(t, entry)
  BY DEF LearnEvicted
<1>4. entry \in AccEntry
  BY <1>2 DEF Running
<1>5. /\ Learns(t, entry)
      /\ pht' \in [Core -> SUBSET PhtEntry]
      /\ \A d \in Core : /\ Within(pht'[d], PhtWays)
                         /\ \A e, f \in pht'[d] : e.key = f.key => e = f
  BY <1>3, <1>4, LearnTyped
<1>6. ThreadOK(Idle) /\ thread' = [thread EXCEPT ![t] = Idle]
  BY DEF ThreadOK, LearnEvicted
<1>7. TypesInv'
  BY ZenonT(60), <1>5, <1>6, Moved DEF LearnEvicted, TypesInv, Typed, Sized
<1> QED BY <1>3, <1>5, <1>7

LEMMA StartEvictTypes ==
  ASSUME TypesInv, NEW t \in Core, NEW c \in Core, NEW block \in Block, StartEvict(t, c, block)
  PROVE  TypesInv'
<1> PICK r : r = thread[t]
  OBVIOUS
<1>1. r.at = "accessing"
  BY DEF StartEvict, At
<1>2. r \in Running /\ ThreadOK(r) /\ r # Idle
  BY <1>1, Awake
<1> PICK n \in Nat : n = r.evicts + 1
  <2>1. r.evicts \in Nat
    BY <1>2 DEF Running
  <2> QED BY <2>1
<1> DEFINE x == [r EXCEPT !.at = "evicting_filter", !.victim = <<c, block>>, !.evicts = n]
<1>3. thread' = [thread EXCEPT ![t] = x]
  BY DEF StartEvict
<1>4. ThreadOK(x)
  BY <1>2 DEF ThreadOK, Running, Label
<1> HIDE DEF x
<1>5. pf' \in [Core -> SUBSET Block] /\ \A d \in Core : IsFiniteSet(pf'[d])
  <2>1. pf' = [pf EXCEPT ![c] = @ \ {block}]
    BY DEF StartEvict, Useless
  <2>2. IsFiniteSet(pf[c] \ {block})
    BY FS_Subset DEF TypesInv, Sized
  <2> QED BY <2>1, <2>2 DEF TypesInv, Typed, Sized
<1>6. stats' \in [Core -> [total : Nat, useless : Nat, useful : Nat]]
  <2> DEFINE k == IF block \in pf[c] THEN stats[c].useless + 1 ELSE stats[c].useless
  <2>1. stats[c] \in [total : Nat, useless : Nat, useful : Nat] /\ k \in Nat
    BY DEF TypesInv, Typed
  <2>2. stats' = [stats EXCEPT ![c] = [stats[c] EXCEPT !.useless = k]]
    BY DEF StartEvict
  <2> HIDE DEF k
  <2> QED BY <2>1, <2>2 DEF TypesInv, Typed
<1> QED BY <1>3, <1>4, <1>5, <1>6, Moved DEF StartEvict, tables, TypesInv, Typed, Sized

LEMMA EvictFilterTypes ==
  ASSUME TypesInv, NEW t \in Core, EvictFilter(t)
  PROVE  TypesInv' /\ \A c \in Core : filter'[c] \subseteq filter[c]
<1> PICK r : r = thread[t]
  OBVIOUS
<1>1. r.at = "evicting_filter"
  BY DEF EvictFilter, At
<1>2. r \in Running /\ ThreadOK(r) /\ r # Idle /\ r.victim \in Core \X Block
  BY <1>1, Awake
<1> DEFINE x == [r EXCEPT !.at = "evicting_acc"]
<1>3. thread' = [thread EXCEPT ![t] = x]
  BY DEF EvictFilter, GoTo
<1>4. ThreadOK(x)
  BY <1>2 DEF ThreadOK, Running, Label
<1> HIDE DEF x
<1>5. /\ filter' \in [Core -> SUBSET FilterEntry]
      /\ \A c \in Core : filter'[c] \subseteq filter[c]
  BY <1>2 DEF EvictFilter, TypesInv, Typed
<1>6. \A c \in Core : /\ Within(filter'[c], NFilter)
                      /\ \A e, f \in filter'[c] : e.region = f.region => e = f
  BY <1>5, Fewer, Sizes DEF TypesInv, Sized
<1>7. DOMAIN thread' = Core /\ \A c \in Core : ThreadOK(thread'[c])
  BY <1>3, <1>4, Moved DEF TypesInv
<1>8. Typed'
  BY <1>5, <1>7 DEF EvictFilter, TypesInv, Typed
<1>9. Sized'
  BY <1>6 DEF EvictFilter, TypesInv, Sized
<1> QED BY <1>5, <1>8, <1>9 DEF TypesInv

LEMMA EvictAccTypes ==
  ASSUME TypesInv, NEW t \in Core, EvictAcc(t)
  PROVE  /\ TypesInv'
         /\ thread[t].victim \in Core \X Block
         /\ \A c \in Core : acc'[c] \subseteq acc[c]
         /\ thread' = [thread EXCEPT ![t] = thread'[t]]
         /\ thread'[t].at \in {"accessing", "evicting_learn"}
         /\ thread'[t] \in Running /\ thread'[t].block = thread[t].block
         /\ thread'[t].phase = thread[t].phase /\ thread'[t].request = thread[t].request
         /\ thread'[t].count = thread[t].count
         /\ thread'[t].at = "evicting_learn" => thread'[t].victim = thread[t].victim
         /\ \A e \in thread'[t].entry : e \in acc[thread[t].victim[1]]
<1> PICK r : r = thread[t]
  OBVIOUS
<1>1. r.at = "evicting_acc"
  BY DEF EvictAcc, At
<1>2. r \in Running /\ ThreadOK(r) /\ r # Idle /\ r.victim \in Core \X Block
  BY <1>1, Awake
<1> PICK hit : hit = Of(acc[r.victim[1]], r.victim[2][1])
  OBVIOUS
<1>3. hit \subseteq acc[r.victim[1]] /\ hit \in SUBSET AccEntry
  BY <1>2 DEF Of, TypesInv, Typed
<1> PICK at \in {"accessing", "evicting_learn"} :
      at = IF hit = {} THEN "accessing" ELSE "evicting_learn"
  OBVIOUS
<1> PICK victim \in (Core \X Block) \cup {<<>>} : victim = IF hit = {} THEN <<>> ELSE r.victim
  BY <1>2
<1> DEFINE x == [r EXCEPT !.at = at, !.entry = hit, !.victim = victim]
<1>4. thread' = [thread EXCEPT ![t] = x]
  BY DEF EvictAcc
<1>5. at = "evicting_learn" => victim = r.victim
  OBVIOUS
<1>6. ThreadOK(x)
  BY ZenonT(60), <1>2, <1>3, <1>5 DEF ThreadOK, Running, Label
<1>7. /\ x.at = at /\ x.entry = hit /\ x.victim = victim /\ x.block = r.block
      /\ x.phase = r.phase /\ x.request = r.request /\ x.count = r.count /\ x \in Running
  BY <1>2, <1>3 DEF Running, Label
<1> HIDE DEF x
<1>8. /\ acc' \in [Core -> SUBSET AccEntry]
      /\ \A c \in Core : acc'[c] \subseteq acc[c]
  BY <1>2 DEF EvictAcc, TypesInv, Typed
<1>9. \A c \in Core : /\ Within(acc'[c], NAcc)
                      /\ \A e, f \in acc'[c] : e.region = f.region => e = f
  BY <1>8, Fewer, Sizes DEF TypesInv, Sized
<1>10. TypesInv'
  <2>1. DOMAIN thread' = Core /\ \A c \in Core : ThreadOK(thread'[c])
    BY <1>4, <1>6, Moved DEF TypesInv
  <2>2. Typed'
    BY <1>8, <2>1 DEF EvictAcc, TypesInv, Typed
  <2>3. Sized'
    BY <1>9 DEF EvictAcc, TypesInv, Sized
  <2> QED BY <2>2, <2>3 DEF TypesInv
<1>11. thread'[t] = x
  BY <1>4, <1>6, Moved DEF TypesInv
<1> QED BY <1>2, <1>3, <1>4, <1>5, <1>7, <1>8, <1>10, <1>11

LEMMA EvictLearnTypes ==
  ASSUME TypesInv, NEW t \in Core, EvictLearn(t)
  PROVE  /\ TypesInv' /\ thread[t].victim \in Core \X Block
         /\ \E entry \in thread[t].entry : Learns(thread[t].victim[1], entry)
<1> PICK r : r = thread[t]
  OBVIOUS
<1>1. r.at = "evicting_learn"
  BY DEF EvictLearn, At
<1>2. r \in Running /\ ThreadOK(r) /\ r # Idle /\ r.victim \in Core \X Block
  BY <1>1, Awake
<1>3. PICK entry \in r.entry : Learn(r.victim[1], entry)
  BY DEF EvictLearn
<1>4. entry \in AccEntry /\ r.victim[1] \in Core
  BY <1>2 DEF Running
<1>5. /\ Learns(r.victim[1], entry)
      /\ pht' \in [Core -> SUBSET PhtEntry]
      /\ \A d \in Core : /\ Within(pht'[d], PhtWays)
                         /\ \A e, f \in pht'[d] : e.key = f.key => e = f
  BY <1>3, <1>4, LearnTyped
<1> DEFINE x == [r EXCEPT !.at = "accessing", !.entry = {}, !.victim = <<>>]
<1>6. thread' = [thread EXCEPT ![t] = x]
  BY DEF EvictLearn
<1>7. ThreadOK(x)
  BY <1>2 DEF ThreadOK, Running, Label
<1> HIDE DEF x
<1>8. TypesInv'
  <2>1. DOMAIN thread' = Core /\ \A c \in Core : ThreadOK(thread'[c])
    BY <1>6, <1>7, Moved DEF TypesInv
  <2>2. Typed'
    BY <1>5, <2>1 DEF EvictLearn, TypesInv, Typed
  <2>3. Sized'
    BY <1>5 DEF EvictLearn, TypesInv, Sized
  <2> QED BY <2>2, <2>3 DEF TypesInv
<1> QED BY <1>2, <1>3, <1>5, <1>8

(* ---- generations ------------------------------------------------------- *)
LEMMA InitGenerations == Init => Generations
<1> SUFFICES ASSUME Init PROVE Generations
  OBVIOUS
<1>1. \A c \in Core : filter[c] = {} /\ acc[c] = {} /\ thread[c].at = "idle"
  BY DEF Init, Idle
<1> QED BY <1>1 DEF Generations, At

(* Tables that lose entries keep generations apart.                         *)
LEMMA ShrunkGenerations ==
  ASSUME Generations, NEW t \in Core,
         \A c \in Core : filter'[c] \subseteq filter[c] /\ acc'[c] \subseteq acc[c],
         \A c \in Core : c # t => thread'[c] = thread[c],
         thread'[t].at \notin {"filtering", "promoting"}
  PROVE  Generations'
BY DEF Generations, At

LEMMA PokeAccGenerations ==
  ASSUME TypesInv, Generations, NEW t \in Core, PokeAcc(t) PROVE Generations'
<1> PICK r : r = thread[t]
  OBVIOUS
<1>1. r.at = "recording"
  BY DEF PokeAcc, At
<1>2. r \in Running /\ r.request \in Request
  BY <1>1, Awake
<1> PICK hit : hit = Of(acc[t], r.block[1])
  OBVIOUS
<1>3. filter' = filter /\ DOMAIN thread = Core /\ acc \in [Core -> SUBSET AccEntry]
  BY DEF PokeAcc, TypesInv, Typed
<1>4. CASE hit = {}
  <2>1. {Extended(e, r.block[2], r.request.op) : e \in {}} = {}
    OBVIOUS
  <2>2. acc' = acc
    BY <1>3, <1>4, <2>1 DEF PokeAcc
  <2>3. \A f \in acc[t] : f.region # r.block[1]
    BY <1>4 DEF Of
  <2>4. thread' = [thread EXCEPT ![t] = [r EXCEPT !.at = "filtering"]]
    BY <1>4 DEF PokeAcc
  <2>5. /\ thread'[t].at = "filtering" /\ thread'[t].block = r.block
        /\ \A c \in Core : c # t => thread'[c] = thread[c]
    BY <1>2, <1>3, <2>4 DEF Running
  <2> QED BY <1>3, <2>2, <2>3, <2>5 DEF Generations, At
<1>5. CASE hit # {}
  <2>1. thread' = [thread EXCEPT ![t] = Idle]
    BY <1>5 DEF PokeAcc
  <2>2. thread'[t].at = "idle" /\ \A c \in Core : c # t => thread'[c] = thread[c]
    BY <1>3, <2>1 DEF Idle
  <2>3. PICK T : /\ acc' = [acc EXCEPT ![t] = T]
                 /\ \A x \in T : \/ x \in acc[t]
                                 \/ \E e \in acc[t] : x = Extended(e, r.block[2], r.request.op)
    <3>1. PICK T : /\ acc' = [acc EXCEPT ![t] = T]
                   /\ \A x \in T : \/ x \in acc[t]
                                   \/ \E e \in acc[t] :
                                        /\ e.region = thread[t].block[1]
                                        /\ x = Extended(e, thread[t].block[2],
                                                        thread[t].request.op)
      BY PokeAccTypes
    <3> QED BY <3>1
  <2>4. acc'[t] = T /\ \A c \in Core : c # t => acc'[c] = acc[c]
    BY <1>3, <2>3
  <2>5. \A x \in T : \E e \in acc[t] : x.region = e.region
    <3>1. r.block[2] \in Offset /\ r.request.op \in {"read", "write"}
      BY <1>2, OpAssumption DEF Running, Block, Request
    <3>2. \A e \in acc[t] : Extended(e, r.block[2], r.request.op).region = e.region
      BY <1>3, <3>1, ExtendedEntry
    <3> QED BY <2>3, <3>2
  <2>6. \A e \in filter[t], x \in T : e.region # x.region
    BY <2>5 DEF Generations
  <2> QED BY <1>3, <2>2, <2>4, <2>6 DEF Generations, At
<1> QED BY <1>4, <1>5

LEMMA PokeFilterGenerations ==
  ASSUME TypesInv, Generations, NEW t \in Core, PokeFilter(t) PROVE Generations'
<1> PICK r : r = thread[t]
  OBVIOUS
<1>1. r.at = "filtering"
  BY DEF PokeFilter, At
<1>2. r \in Running /\ r.request \in Request
  BY <1>1, Awake
<1>3. /\ acc' = acc /\ DOMAIN thread = Core /\ filter \in [Core -> SUBSET FilterEntry]
      /\ \A e, f \in filter[t] : e.region = f.region => e = f
  BY DEF PokeFilter, TypesInv, Typed, Sized
<1>4. \A f \in acc[t] : f.region # r.block[1]
  BY <1>1 DEF Generations, At
<1>5. ASSUME NEW e \in filter[t],
             filter' = [filter EXCEPT ![t] = @ \ {e}],
             thread' = [thread EXCEPT ![t] = [r EXCEPT !.at = "promoting",
                                                       !.entry = {Promoted(r, e)}]]
      PROVE  Generations'
  <2> PICK p : p = Promoted(r, e)
    OBVIOUS
  <2>1. p \in AccEntry /\ p.region = e.region
    BY <1>2, <1>3, PromotedEntry
  <2>2. /\ thread'[t].at = "promoting" /\ thread'[t].entry = {p}
        /\ \A c \in Core : c # t => thread'[c] = thread[c]
    BY <1>2, <1>3, <1>5 DEF Running
  <2>3. filter'[t] = filter[t] \ {e} /\ \A c \in Core : c # t => filter'[c] = filter[c]
    BY <1>3, <1>5
  <2>4. \A f \in filter'[t] : f.region # p.region
    BY <1>3, <2>1, <2>3
  <2>5. \A f \in acc[t] : f.region # p.region
    BY <2>1 DEF Generations
  <2> QED BY <1>3, <2>1, <2>2, <2>3, <2>4, <2>5 DEF Generations, At
<1>6. ASSUME thread' = [thread EXCEPT ![t] = Idle],
             NEW T, NEW new, filter' = [filter EXCEPT ![t] = T],
             T \subseteq filter[t] \cup {new}, new.region = r.block[1]
      PROVE  Generations'
  <2>1. thread'[t].at = "idle" /\ \A c \in Core : c # t => thread'[c] = thread[c]
    BY <1>3, <1>6 DEF Idle
  <2>2. filter'[t] = T /\ \A c \in Core : c # t => filter'[c] = filter[c]
    BY <1>3, <1>6
  <2>3. \A e \in T, f \in acc[t] : e.region # f.region
    BY <1>4, <1>6 DEF Generations
  <2> QED BY <1>3, <2>1, <2>2, <2>3 DEF Generations, At
<1>7. CASE \E e \in filter[t] :
             /\ e.region = thread[t].block[1]
             /\ filter' = [filter EXCEPT ![t] = @ \ {e}]
             /\ thread' = [thread EXCEPT ![t] = [thread[t] EXCEPT !.at = "promoting",
                                                   !.entry = {Promoted(thread[t], e)}]]
  BY <1>5, <1>7
<1>8. CASE /\ thread' = [thread EXCEPT ![t] = Idle]
           /\ \E T, new : /\ filter' = [filter EXCEPT ![t] = T]
                          /\ T \subseteq filter[t] \cup {new}
                          /\ new \in FilterEntry /\ new.region = thread[t].block[1]
                          /\ new.pc = thread[t].request.pc /\ new.offset = thread[t].block[2]
  BY <1>6, <1>8
<1> QED BY <1>7, <1>8, PokeFilterTypes

LEMMA PromoteGenerations ==
  ASSUME TypesInv, Generations, NEW t \in Core, Promote(t) PROVE Generations'
<1> PICK r : r = thread[t]
  OBVIOUS
<1>1. r.at = "promoting"
  BY DEF Promote, At
<1>2. r \in Running
  BY <1>1, Awake
<1>3. PICK e \in r.entry : \E T :
        /\ acc' = [acc EXCEPT ![t] = T] /\ T \subseteq acc[t] \cup {e}
        /\ \/ thread' = [thread EXCEPT ![t] = Idle]
           \/ \E E \in SUBSET acc[t] : thread' = [thread EXCEPT ![t] =
                [r EXCEPT !.at = "learning", !.entry = E]]
  BY PromoteTypes
<1>4. PICK T :
        /\ acc' = [acc EXCEPT ![t] = T] /\ T \subseteq acc[t] \cup {e}
        /\ \/ thread' = [thread EXCEPT ![t] = Idle]
           \/ \E E \in SUBSET acc[t] : thread' = [thread EXCEPT ![t] =
                [r EXCEPT !.at = "learning", !.entry = E]]
  BY <1>3
<1>5. \A f \in filter[t] : f.region # e.region
  <2>1. PICK x \in AccEntry : r.entry = {x} /\ \A f \in filter[t] : f.region # x.region
    BY <1>1 DEF Generations, At
  <2> QED BY <2>1
<1>6. filter' = filter /\ DOMAIN thread = Core /\ acc \in [Core -> SUBSET AccEntry]
  BY DEF Promote, TypesInv, Typed
<1>7. acc'[t] = T /\ \A c \in Core : c # t => acc'[c] = acc[c]
  BY <1>4, <1>6
<1>8. thread'[t].at \in {"idle", "learning"} /\ \A c \in Core : c # t => thread'[c] = thread[c]
  <2>1. CASE thread' = [thread EXCEPT ![t] = Idle]
    BY <1>6, <2>1 DEF Idle
  <2>2. ASSUME NEW E, thread' = [thread EXCEPT ![t] = [r EXCEPT !.at = "learning", !.entry = E]]
        PROVE  thread'[t].at = "learning" /\ \A c \in Core : c # t => thread'[c] = thread[c]
    BY <1>2, <1>6, <2>2 DEF Running
  <2> QED BY <1>4, <2>1, <2>2
<1>9. \A f \in filter[t], x \in T : f.region # x.region
  BY <1>4, <1>5 DEF Generations
<1> QED BY <1>6, <1>7, <1>8, <1>9 DEF Generations, At

(* ---- every step -------------------------------------------------------- *)
LEMMA Steps ==
  ASSUME Next
  PROVE  \E t \in Core :
    \/ \E block \in Block : (\E op \in Op, pc \in Pc : StartAccess(t, op, pc, block))
                            \/ StartWalk(t, block)
    \/ FinishWalk(t) \/ LookupPattern(t) \/ Prefetch(t) \/ CountPrefetches(t)
    \/ PokeAcc(t) \/ PokeFilter(t) \/ Promote(t) \/ LearnEvicted(t)
    \/ \E c \in Core, block \in Block : StartEvict(t, c, block)
    \/ EvictFilter(t) \/ EvictAcc(t) \/ EvictLearn(t)
BY DEF Next

LEMMA OtherGenerations ==
  ASSUME TypesInv, Generations, NEW t \in Core,
         \/ \E block \in Block : (\E op \in Op, pc \in Pc : StartAccess(t, op, pc, block))
                                 \/ StartWalk(t, block)
         \/ FinishWalk(t) \/ LookupPattern(t) \/ Prefetch(t) \/ CountPrefetches(t)
         \/ LearnEvicted(t) \/ \E c \in Core, block \in Block : StartEvict(t, c, block)
         \/ EvictFilter(t) \/ EvictAcc(t) \/ EvictLearn(t)
  PROVE  Generations'
<1> DEFINE Kept == filter' = filter /\ acc' = acc
           To(label) == /\ thread'[t].at = label
                        /\ \A c \in Core : c # t => thread'[c] = thread[c]
<1>0. DOMAIN thread = Core
  BY DEF TypesInv, Typed
<1>1. ASSUME NEW block, NEW phase, NEW request, Enter(t, block, phase, request)
      PROVE  Kept /\ To("accessing")
  BY <1>0, <1>1 DEF Enter, tables
<1>2. ASSUME NEW block, (\E op \in Op, pc \in Pc : StartAccess(t, op, pc, block))
                        \/ StartWalk(t, block)
      PROVE  Kept /\ To("accessing")
  <2>1. PICK phase, request : Enter(t, block, phase, request)
    BY <1>2 DEF StartAccess, StartWalk
  <2> QED BY <1>1, <2>1
<1>3. ASSUME FinishWalk(t) \/ LearnEvicted(t) PROVE Kept /\ To("idle")
  BY <1>0, <1>3 DEF FinishWalk, LearnEvicted, tables, Idle
<1>4. ASSUME LookupPattern(t) PROVE Kept /\ To("prefetching")
  <2>1. thread[t] \in Running
    BY <1>4, Awake DEF LookupPattern, At
  <2>2. PICK todo : thread' = [thread EXCEPT ![t] =
          [@ EXCEPT !.at = "prefetching", !.phase = "prefetch", !.evicts = 0, !.todo = todo]]
    BY <1>4 DEF LookupPattern
  <2> QED BY <1>0, <1>4, <2>1, <2>2 DEF LookupPattern, tables, Running
<1>5. ASSUME Prefetch(t) PROVE Kept /\ To("accessing")
  <2>1. thread[t] \in Running
    BY <1>5, Between DEF Prefetch
  <2>2. PICK todo, n : thread' = [thread EXCEPT ![t] =
          [thread[t] EXCEPT !.at = "accessing", !.todo = todo, !.count = n, !.evicts = 0]]
    BY <1>5 DEF Prefetch
  <2> QED BY <1>0, <1>5, <2>1, <2>2 DEF Prefetch, tables, Running
<1>6. ASSUME CountPrefetches(t) PROVE Kept /\ To("recording")
  <2>1. thread[t] \in Running
    BY <1>6, Between DEF CountPrefetches
  <2> QED BY <1>0, <1>6, <2>1 DEF CountPrefetches, tables, Running
<1>7. ASSUME NEW c \in Core, NEW block \in Block, StartEvict(t, c, block)
      PROVE  Kept /\ To("evicting_filter")
  <2>1. thread[t] \in Running
    BY <1>7, Awake DEF StartEvict, At
  <2>2. PICK n : thread' = [thread EXCEPT ![t] =
          [@ EXCEPT !.at = "evicting_filter", !.victim = <<c, block>>, !.evicts = n]]
    BY <1>7 DEF StartEvict
  <2> QED BY <1>0, <1>7, <2>1, <2>2 DEF StartEvict, tables, Running
<1>8. ASSUME EvictFilter(t)
      PROVE  /\ acc' = acc /\ \A c \in Core : filter'[c] \subseteq filter[c]
             /\ To("evicting_acc")
  <2>1. thread[t] \in Running
    BY <1>8, Awake DEF EvictFilter, At
  <2>2. To("evicting_acc")
    BY <1>0, <1>8, <2>1 DEF EvictFilter, GoTo, Running
  <2> QED BY <1>8, <2>2, EvictFilterTypes DEF EvictFilter
<1>9. ASSUME EvictAcc(t)
      PROVE  /\ filter' = filter /\ \A c \in Core : acc'[c] \subseteq acc[c]
             /\ To("accessing") \/ To("evicting_learn")
  <2>1. \A c \in Core : acc'[c] \subseteq acc[c]
    BY <1>9, EvictAccTypes
  <2>2. thread'[t].at \in {"accessing", "evicting_learn"}
    BY <1>9, EvictAccTypes
  <2>3. \A c \in Core : c # t => thread'[c] = thread[c]
    BY <1>0, <1>9 DEF EvictAcc
  <2> QED BY <1>9, <2>1, <2>2, <2>3 DEF EvictAcc
<1>10. ASSUME EvictLearn(t) PROVE Kept /\ To("accessing")
  <2>1. thread[t] \in Running
    BY <1>10, Awake DEF EvictLearn, At
  <2> QED BY <1>0, <1>10, <2>1 DEF EvictLearn, Running
<1>11. /\ \A c \in Core : filter'[c] \subseteq filter[c] /\ acc'[c] \subseteq acc[c]
       /\ \A c \in Core : c # t => thread'[c] = thread[c]
       /\ thread'[t].at \notin {"filtering", "promoting"}
  BY <1>2, <1>3, <1>4, <1>5, <1>6, <1>7, <1>8, <1>9, <1>10
<1> QED BY <1>11, ShrunkGenerations

StateInv == TypesInv /\ Generations

LEMMA StepState == ASSUME StateInv, Next PROVE StateInv'
<1> PICK t \in Core :
      \/ \E block \in Block : (\E op \in Op, pc \in Pc : StartAccess(t, op, pc, block))
                              \/ StartWalk(t, block)
      \/ FinishWalk(t) \/ LookupPattern(t) \/ Prefetch(t) \/ CountPrefetches(t)
      \/ PokeAcc(t) \/ PokeFilter(t) \/ Promote(t) \/ LearnEvicted(t)
      \/ \E c \in Core, block \in Block : StartEvict(t, c, block)
      \/ EvictFilter(t) \/ EvictAcc(t) \/ EvictLearn(t)
  BY Steps
<1>1. TypesInv /\ Generations
  BY DEF StateInv
<1>2. TypesInv'
  BY <1>1, StartTypes, WalkTypes, LookupTypes, PrefetchTypes, CountTypes, PokeAccTypes,
     PokeFilterTypes, PromoteTypes, LearnEvictedTypes, StartEvictTypes, EvictFilterTypes,
     EvictAccTypes, EvictLearnTypes
<1>3. Generations'
  BY <1>1, PokeAccGenerations, PokeFilterGenerations, PromoteGenerations, OtherGenerations
<1> QED BY <1>2, <1>3 DEF StateInv

LEMMA SameState == ASSUME StateInv, UNCHANGED vars PROVE StateInv'
<1>1. Typed' /\ Sized'
  BY DEF StateInv, TypesInv, vars, Typed, Sized
<1>2. Generations'
  BY DEF StateInv, vars, Generations, At
<1> QED BY <1>1, <1>2 DEF StateInv, TypesInv

LEMMA StateInvariant == Spec => []StateInv
<1>1. Init => StateInv
  BY InitTypes, InitGenerations DEF StateInv
<1>2. StateInv /\ [Next \/ Halted]_vars => StateInv'
  BY StepState, SameState DEF Halted
<1> QED BY <1>1, <1>2, PTL DEF Spec

LEMMA AtMostOne ==
  ASSUME NEW table, \A e, f \in table : e = f
  PROVE  IsFiniteSet(table) /\ Cardinality(table) \in Nat /\ Cardinality(table) <= 1
<1>1. CASE table = {}
  BY <1>1, FS_EmptySet
<1>2. ASSUME NEW e \in table PROVE IsFiniteSet(table) /\ Cardinality(table) = 1
  <2>1. table = {e}
    OBVIOUS
  <2> QED BY <2>1, FS_Singleton
<1> QED BY <1>1, <1>2

(* A region's generation is in one place, and the tables hold what they may.*)
LEMMA StateSays == StateInv => OneGeneration
<1> SUFFICES ASSUME StateInv PROVE OneGeneration
  OBVIOUS
<1> USE DEF StateInv, TypesInv
<1>1. TypeOK
  <2> SUFFICES ASSUME NEW c \in Core
               PROVE  /\ filter[c] \subseteq FilterEntry /\ Cardinality(filter[c]) <= NFilter
                      /\ acc[c] \subseteq AccEntry /\ Cardinality(acc[c]) <= NAcc
                      /\ Cardinality(pht[c]) <= PhtWays
                      /\ \A e \in pht[c] : e.counters \in [PatternType -> [Offset -> 0..3]]
                      /\ \A e, f \in pht[c] : e.key = f.key => e = f
                      /\ \A e, f \in filter[c] : e.region = f.region => e = f
                      /\ pf[c] \subseteq Block
    BY DEF TypeOK
  <2>1. /\ filter[c] \subseteq FilterEntry /\ acc[c] \subseteq AccEntry
        /\ pht[c] \subseteq PhtEntry /\ pf[c] \subseteq Block
    BY DEF Typed
  <2>2. \A e \in pht[c] : e.counters \in [PatternType -> [Offset -> 0..3]]
    BY <2>1 DEF PhtEntry
  <2> QED BY <2>1, <2>2 DEF Sized, Within
<1>2. ASSUME NEW c \in Core, NEW region \in Region
      PROVE  Cardinality(Of(filter[c], region)) + Cardinality(Of(acc[c], region))
               + (IF At(c, "promoting") THEN Cardinality(Of(thread[c].entry, region)) ELSE 0) <= 1
  <2> DEFINE f == Of(filter[c], region)
             a == Of(acc[c], region)
             p == IF At(c, "promoting") THEN Of(thread[c].entry, region) ELSE {}
  <2>1. (\A e, x \in f : e = x) /\ (\A e, x \in a : e = x)
    BY DEF Of, Sized
  <2>2. \A e, x \in p : e = x
    BY DEF Of, Generations
  <2>3. f = {} \/ a = {}
    BY DEF Of, Generations
  <2>4. p = {} \/ (f = {} /\ a = {})
    <3>1. CASE At(c, "promoting")
      <4>1. PICK e \in AccEntry : /\ thread[c].entry = {e}
                                  /\ \A x \in filter[c] : x.region # e.region
                                  /\ \A x \in acc[c] : x.region # e.region
        BY <3>1 DEF Generations
      <4>2. CASE e.region = region
        BY <4>1, <4>2 DEF Of
      <4>3. CASE e.region # region
        <5>1. Of(thread[c].entry, region) = {}
          BY <4>1, <4>3 DEF Of
        <5> QED BY <5>1
      <4> QED BY <4>2, <4>3
    <3>2. CASE ~At(c, "promoting")
      BY <3>2
    <3> QED BY <3>1, <3>2
  <2>5. /\ Cardinality(f) \in Nat /\ Cardinality(f) <= 1
        /\ Cardinality(a) \in Nat /\ Cardinality(a) <= 1
        /\ Cardinality(p) \in Nat /\ Cardinality(p) <= 1
    BY <2>1, <2>2, AtMostOne
  <2>6. Cardinality({}) = 0
    BY FS_EmptySet
  <2>7. (IF At(c, "promoting") THEN Cardinality(Of(thread[c].entry, region)) ELSE 0)
          = Cardinality(p)
    BY <2>6
  <2> HIDE DEF f, a, p
  <2>8. Cardinality(f) + Cardinality(a) + Cardinality(p) <= 1
    BY <2>3, <2>4, <2>5, <2>6
  <2> QED BY <2>7, <2>8 DEF f, a
<1> QED BY <1>1, <1>2 DEF OneGeneration

(* OneGeneration: whatever the sizes of the tables, the flags and the       *)
(* interleaving, a core never has a region's generation in two places:      *)
(* AGTPerCore::record drops the locks between its tables, and yet no access *)
(* is learnt twice.                                                         *)
THEOREM Generation == Spec => []OneGeneration
BY StateInvariant, StateSays, PTL

(* ---- the accounts ------------------------------------------------------ *)
(* Prefetches a thread has issued and not yet added to the statistics.      *)
Issued(r) == IF r = Idle THEN 0 ELSE r.count
Judged(c) == stats[c].useless + stats[c].useful + Cardinality(pf[c])
Accounts == \A c \in Core : Judged(c) <= stats[c].total + Issued(thread[c])

LEMMA AwakeIssued == ASSUME NEW r, r.at # "idle" PROVE Issued(r) = r.count
BY DEF Issued, Idle

LEMMA AccountTypes ==
  ASSUME TypesInv, NEW c \in Core
  PROVE  /\ stats[c].total \in Nat /\ stats[c].useless \in Nat /\ stats[c].useful \in Nat
         /\ Cardinality(pf[c]) \in Nat /\ Issued(thread[c]) \in Nat /\ Judged(c) \in Nat
<1>1. stats[c] \in [total : Nat, useless : Nat, useful : Nat] /\ ThreadOK(thread[c])
  BY DEF TypesInv, Typed
<1>2. Cardinality(pf[c]) \in Nat
  BY FS_CardinalityType DEF TypesInv, Sized
<1>3. Issued(thread[c]) \in Nat
  BY <1>1 DEF Issued, ThreadOK, Running
<1> QED BY <1>1, <1>2, <1>3 DEF Judged

(* A prefetched block that is judged leaves the set as it is counted.       *)
LEMMA JudgedOnce ==
  ASSUME NEW blocks, IsFiniteSet(blocks), NEW block
  PROVE  /\ Cardinality(blocks) \in Nat /\ Cardinality(blocks \ {block}) \in Nat
         /\ Cardinality(blocks \ {block}) + (IF block \in blocks THEN 1 ELSE 0)
              = Cardinality(blocks)
<1>1. Cardinality(blocks) \in Nat
  BY FS_CardinalityType
<1>2. CASE block \in blocks
  <2>1. Cardinality(blocks \ {block}) = Cardinality(blocks) - 1
    BY <1>2, FS_RemoveElement
  <2>2. IsFiniteSet(blocks \ {block})
    BY FS_Subset
  <2>3. Cardinality(blocks \ {block}) \in Nat
    BY <2>2, FS_CardinalityType
  <2> QED BY <1>1, <1>2, <2>1, <2>3
<1>3. CASE block \notin blocks
  <2>1. blocks \ {block} = blocks
    BY <1>3
  <2> QED BY <1>1, <1>3, <2>1
<1> QED BY <1>2, <1>3

LEMMA SameAccounts ==
  ASSUME TypesInv, Accounts, NEW t \in Core, pf' = pf, stats' = stats,
         Issued(thread'[t]) = Issued(thread[t]),
         \A c \in Core : c # t => thread'[c] = thread[c]
  PROVE  Accounts'
BY DEF Accounts, Judged

LEMMA EnterAccounts ==
  ASSUME TypesInv, Accounts, NEW t \in Core, NEW block, NEW phase, NEW request,
         Enter(t, block, phase, request)
  PROVE  Accounts'
<1>0. DOMAIN thread = Core
  BY DEF TypesInv, Typed
<1>1. thread[t] = Idle
  BY DEF Enter, At, TypesInv, Typed, ThreadOK, Running, Label
<1>2. Issued(thread[t]) = 0
  BY <1>1 DEF Issued
<1>3. thread'[t].at = "accessing" /\ thread'[t].count = 0
      /\ \A c \in Core : c # t => thread'[c] = thread[c]
  BY <1>0 DEF Enter
<1>4. Issued(thread'[t]) = 0
  BY <1>3, AwakeIssued
<1>5. pf'[t] = pf[t] \ {block} /\ \A c \in Core : c # t => pf'[c] = pf[c]
  BY DEF Enter, Used, TypesInv, Typed
<1>6. /\ stats'[t].total = stats[t].total /\ stats'[t].useless = stats[t].useless
      /\ stats'[t].useful = stats[t].useful + (IF block \in pf[t] THEN 1 ELSE 0)
      /\ \A c \in Core : c # t => stats'[c] = stats[c]
  <2>1. stats \in [Core -> [total : Nat, useless : Nat, useful : Nat]]
    BY DEF TypesInv, Typed
  <2>2. stats' = [stats EXCEPT ![t].useful =
                    IF block \in pf[t] THEN stats[t].useful + 1 ELSE stats[t].useful]
    BY DEF Enter
  <2>3. stats[t].useful \in Nat
    BY <2>1
  <2> QED BY <2>1, <2>2, <2>3
<1>7. /\ Cardinality(pf[t]) \in Nat /\ Cardinality(pf[t] \ {block}) \in Nat
      /\ Cardinality(pf[t] \ {block}) + (IF block \in pf[t] THEN 1 ELSE 0) = Cardinality(pf[t])
  BY JudgedOnce DEF TypesInv, Sized
<1>8. Judged(t) <= stats[t].total + 0
  BY <1>2 DEF Accounts
<1>9. Judged(t)' <= stats'[t].total + Issued(thread'[t])
  BY <1>4, <1>5, <1>6, <1>7, <1>8, AccountTypes DEF Judged
<1>10. \A c \in Core : c # t => Judged(c)' <= stats'[c].total + Issued(thread'[c])
  BY <1>3, <1>5, <1>6 DEF Accounts, Judged
<1> QED BY <1>9, <1>10 DEF Accounts

LEMMA PrefetchAccounts ==
  ASSUME TypesInv, Accounts, NEW t \in Core, Prefetch(t) PROVE Accounts'
<1> PICK r : r = thread[t]
  OBVIOUS
<1>1. r \in Running /\ r # Idle
  BY Between DEF Prefetch
<1>2. PICK block : /\ pf' = [pf EXCEPT ![t] = @ \cup {block}]
                   /\ thread' = [thread EXCEPT ![t] =
                        [r EXCEPT !.at = "accessing", !.todo = r.todo \ {block},
                                  !.count = r.count + 1, !.evicts = 0]]
  BY DEF Prefetch
<1>3. /\ thread'[t].at = "accessing" /\ thread'[t].count = r.count + 1
      /\ \A c \in Core : c # t => thread'[c] = thread[c]
  BY <1>1, <1>2 DEF Running, TypesInv, Typed
<1>4. Issued(thread'[t]) = r.count + 1 /\ Issued(thread[t]) = r.count /\ r.count \in Nat
  BY <1>1, <1>3, AwakeIssued DEF Issued, Running
<1>5. /\ Cardinality(pf'[t]) \in Nat /\ Cardinality(pf[t]) \in Nat
      /\ Cardinality(pf'[t]) <= Cardinality(pf[t]) + 1
      /\ \A c \in Core : c # t => pf'[c] = pf[c]
  <2>1. pf'[t] = pf[t] \cup {block} /\ \A c \in Core : c # t => pf'[c] = pf[c]
    BY <1>2 DEF TypesInv, Typed
  <2> QED BY <2>1, OneMore DEF TypesInv, Sized
<1>6. stats' = stats
  BY DEF Prefetch
<1>7. Judged(t) <= stats[t].total + r.count
  BY <1>4 DEF Accounts
<1>8. Judged(t)' <= stats'[t].total + Issued(thread'[t])
  BY <1>4, <1>5, <1>6, <1>7, AccountTypes DEF Judged
<1>9. \A c \in Core : c # t => Judged(c)' <= stats'[c].total + Issued(thread'[c])
  BY <1>3, <1>5, <1>6 DEF Accounts, Judged
<1> QED BY <1>8, <1>9 DEF Accounts

LEMMA CountAccounts ==
  ASSUME TypesInv, Accounts, NEW t \in Core, CountPrefetches(t) PROVE Accounts'
<1> PICK r : r = thread[t]
  OBVIOUS
<1>1. r \in Running /\ r # Idle
  BY Between DEF CountPrefetches
<1>2. thread' = [thread EXCEPT ![t] = [r EXCEPT !.at = "recording", !.count = 0, !.evicts = 0]]
  BY DEF CountPrefetches
<1>3. /\ thread'[t].at = "recording" /\ thread'[t].count = 0
      /\ \A c \in Core : c # t => thread'[c] = thread[c]
  BY <1>1, <1>2 DEF Running, TypesInv, Typed
<1>4. Issued(thread'[t]) = 0 /\ Issued(thread[t]) = r.count /\ r.count \in Nat
  BY <1>1, <1>3, AwakeIssued DEF Issued, Running
<1>5. /\ stats'[t].total = stats[t].total + r.count
      /\ stats'[t].useless = stats[t].useless /\ stats'[t].useful = stats[t].useful
      /\ \A c \in Core : c # t => stats'[c] = stats[c]
  <2>1. stats \in [Core -> [total : Nat, useless : Nat, useful : Nat]]
    BY DEF TypesInv, Typed
  <2>2. stats' = [stats EXCEPT ![t].total = @ + r.count]
    BY DEF CountPrefetches
  <2> QED BY <2>1, <2>2
<1>6. pf' = pf
  BY DEF CountPrefetches
<1>7. Judged(t) <= stats[t].total + r.count
  BY <1>4 DEF Accounts
<1>8. Judged(t)' <= stats'[t].total + Issued(thread'[t])
  BY <1>4, <1>5, <1>6, <1>7, AccountTypes DEF Judged
<1>9. \A c \in Core : c # t => Judged(c)' <= stats'[c].total + Issued(thread'[c])
  BY <1>3, <1>5, <1>6 DEF Accounts, Judged
<1> QED BY <1>8, <1>9 DEF Accounts

LEMMA StartEvictAccounts ==
  ASSUME TypesInv, Accounts, NEW t \in Core, NEW c \in Core, NEW block, StartEvict(t, c, block)
  PROVE  Accounts'
<1> PICK r : r = thread[t]
  OBVIOUS
<1>1. r \in Running /\ r # Idle /\ r.at = "accessing"
  BY Awake DEF StartEvict, At
<1>2. PICK n : thread' = [thread EXCEPT ![t] =
                 [r EXCEPT !.at = "evicting_filter", !.victim = <<c, block>>, !.evicts = n]]
  BY DEF StartEvict
<1>3. /\ thread'[t].at = "evicting_filter" /\ thread'[t].count = r.count
      /\ \A d \in Core : d # t => thread'[d] = thread[d]
  BY <1>1, <1>2 DEF Running, TypesInv, Typed
<1>4. \A d \in Core : Issued(thread'[d]) = Issued(thread[d])
  <2>1. Issued(thread'[t]) = r.count /\ Issued(thread[t]) = r.count
    BY <1>1, <1>3, AwakeIssued DEF Issued
  <2> QED BY <1>3, <2>1
<1>5. pf'[c] = pf[c] \ {block} /\ \A d \in Core : d # c => pf'[d] = pf[d]
  BY DEF StartEvict, Useless, TypesInv, Typed
<1>6. /\ stats'[c].total = stats[c].total /\ stats'[c].useful = stats[c].useful
      /\ stats'[c].useless = stats[c].useless + (IF block \in pf[c] THEN 1 ELSE 0)
      /\ \A d \in Core : d # c => stats'[d] = stats[d]
  <2>1. stats \in [Core -> [total : Nat, useless : Nat, useful : Nat]]
    BY DEF TypesInv, Typed
  <2>2. stats' = [stats EXCEPT ![c].useless =
                    IF block \in pf[c] THEN stats[c].useless + 1 ELSE stats[c].useless]
    BY DEF StartEvict
  <2>3. stats[c].useless \in Nat
    BY <2>1
  <2> QED BY <2>1, <2>2, <2>3
<1>7. /\ Cardinality(pf[c]) \in Nat /\ Cardinality(pf[c] \ {block}) \in Nat
      /\ Cardinality(pf[c] \ {block}) + (IF block \in pf[c] THEN 1 ELSE 0) = Cardinality(pf[c])
  BY JudgedOnce DEF TypesInv, Sized
<1>8. Judged(c) <= stats[c].total + Issued(thread[c])
  BY DEF Accounts
<1>9. Judged(c)' = Judged(c)
  BY <1>5, <1>6, <1>7, AccountTypes DEF Judged
<1>10. \A d \in Core : d # c => Judged(d)' = Judged(d) /\ stats'[d].total = stats[d].total
  BY <1>5, <1>6 DEF Judged
<1>11. \A d \in Core : Judged(d)' <= stats'[d].total + Issued(thread'[d])
  BY <1>4, <1>6, <1>9, <1>10 DEF Accounts
<1> QED BY <1>11 DEF Accounts

LEMMA OtherAccounts ==
  ASSUME TypesInv, Generations, Accounts, NEW t \in Core,
         \/ FinishWalk(t) \/ LookupPattern(t) \/ PokeAcc(t) \/ PokeFilter(t) \/ Promote(t)
         \/ LearnEvicted(t) \/ EvictFilter(t) \/ EvictAcc(t) \/ EvictLearn(t)
  PROVE  Accounts'
<1> PICK r : r = thread[t]
  OBVIOUS
<1>0. DOMAIN thread = Core
  BY DEF TypesInv, Typed
<1>1. r.at # "idle"
  BY DEF FinishWalk, LookupPattern, PokeAcc, PokeFilter, Promote, LearnEvicted, EvictFilter,
         EvictAcc, EvictLearn, At
<1>2. /\ r \in Running /\ r # Idle
      /\ r.count # 0 => /\ r.phase = "prefetch"
                        /\ r.at \notin {"recording", "filtering", "promoting", "learning"}
  BY <1>1, Awake
<1>3. Issued(r) = r.count /\ Issued(Idle) = 0
  BY <1>1, AwakeIssued DEF Issued
<1>4. ASSUME NEW x, thread' = [thread EXCEPT ![t] = x], Issued(x) = r.count
      PROVE  /\ Issued(thread'[t]) = Issued(thread[t])
             /\ \A c \in Core : c # t => thread'[c] = thread[c]
  BY <1>0, <1>3, <1>4
<1>5. /\ Issued(thread'[t]) = Issued(thread[t])
      /\ \A c \in Core : c # t => thread'[c] = thread[c]
  <2>1. ASSUME FinishWalk(t) \/ LearnEvicted(t)
        PROVE  thread' = [thread EXCEPT ![t] = Idle] /\ Issued(Idle) = r.count
    BY <1>2, <1>3, <2>1 DEF FinishWalk, LearnEvicted, At
  <2>2. ASSUME LookupPattern(t)
        PROVE  \E x : thread' = [thread EXCEPT ![t] = x] /\ Issued(x) = r.count
    <3>1. PICK todo : thread' = [thread EXCEPT ![t] =
            [r EXCEPT !.at = "prefetching", !.phase = "prefetch", !.evicts = 0, !.todo = todo]]
      BY <2>2 DEF LookupPattern
    <3> DEFINE x == [r EXCEPT !.at = "prefetching", !.phase = "prefetch", !.evicts = 0,
                              !.todo = todo]
    <3>2. x.at = "prefetching" /\ x.count = r.count
      BY <1>2 DEF Running
    <3> HIDE DEF x
    <3>3. Issued(x) = r.count
      BY <3>2, AwakeIssued
    <3> QED BY <3>1, <3>3 DEF x
  <2>3. ASSUME PokeAcc(t)
        PROVE  \E x : thread' = [thread EXCEPT ![t] = x] /\ Issued(x) = r.count
    <3>1. r.count = 0
      BY <1>2, <2>3 DEF PokeAcc, At
    <3> DEFINE x == [r EXCEPT !.at = "filtering"]
    <3>2. x.at = "filtering" /\ x.count = r.count
      BY <1>2 DEF Running
    <3>3. thread' = [thread EXCEPT ![t] = Idle] \/ thread' = [thread EXCEPT ![t] = x]
      BY <2>3 DEF PokeAcc
    <3> HIDE DEF x
    <3>4. Issued(x) = r.count
      BY <3>2, AwakeIssued
    <3> QED BY <1>3, <3>1, <3>3, <3>4
  <2>4. ASSUME PokeFilter(t)
        PROVE  \E x : thread' = [thread EXCEPT ![t] = x] /\ Issued(x) = r.count
    <3>1. r.count = 0
      BY <1>2, <2>4 DEF PokeFilter, At
    <3>2. PICK entry : \/ thread' = [thread EXCEPT ![t] = Idle]
                       \/ thread' = [thread EXCEPT ![t] =
                            [r EXCEPT !.at = "promoting", !.entry = entry]]
      BY <2>4 DEF PokeFilter
    <3> DEFINE x == [r EXCEPT !.at = "promoting", !.entry = entry]
    <3>3. x.at = "promoting" /\ x.count = r.count
      BY <1>2 DEF Running
    <3>4. thread' = [thread EXCEPT ![t] = Idle] \/ thread' = [thread EXCEPT ![t] = x]
      BY <3>2
    <3> HIDE DEF x
    <3>5. Issued(x) = r.count
      BY <3>3, AwakeIssued
    <3> QED BY <1>3, <3>1, <3>4, <3>5
  <2>5. ASSUME Promote(t)
        PROVE  \E x : thread' = [thread EXCEPT ![t] = x] /\ Issued(x) = r.count
    <3>1. r.count = 0
      BY <1>2, <2>5 DEF Promote, At
    <3>2. PICK entry : \/ thread' = [thread EXCEPT ![t] = Idle]
                       \/ thread' = [thread EXCEPT ![t] =
                            [r EXCEPT !.at = "learning", !.entry = entry]]
      BY <2>5, PromoteTypes
    <3> DEFINE x == [r EXCEPT !.at = "learning", !.entry = entry]
    <3>3. x.at = "learning" /\ x.count = r.count
      BY <1>2 DEF Running
    <3>4. thread' = [thread EXCEPT ![t] = Idle] \/ thread' = [thread EXCEPT ![t] = x]
      BY <3>2
    <3> HIDE DEF x
    <3>5. Issued(x) = r.count
      BY <3>3, AwakeIssued
    <3> QED BY <1>3, <3>1, <3>4, <3>5
  <2>6. ASSUME EvictFilter(t)
        PROVE  \E x : thread' = [thread EXCEPT ![t] = x] /\ Issued(x) = r.count
    <3> DEFINE x == [r EXCEPT !.at = "evicting_acc"]
    <3>1. x.at = "evicting_acc" /\ x.count = r.count
      BY <1>2 DEF Running
    <3>2. thread' = [thread EXCEPT ![t] = x]
      BY <2>6 DEF EvictFilter, GoTo
    <3> HIDE DEF x
    <3> QED BY <3>1, <3>2, AwakeIssued
  <2>7. ASSUME EvictAcc(t)
        PROVE  \E x : thread' = [thread EXCEPT ![t] = x] /\ Issued(x) = r.count
    <3> PICK at \in {"accessing", "evicting_learn"} : \E entry, victim :
            thread' = [thread EXCEPT ![t] =
              [r EXCEPT !.at = at, !.entry = entry, !.victim = victim]]
      BY <2>7 DEF EvictAcc
    <3>1. PICK entry, victim : thread' = [thread EXCEPT ![t] =
            [r EXCEPT !.at = at, !.entry = entry, !.victim = victim]]
      OBVIOUS
    <3> DEFINE x == [r EXCEPT !.at = at, !.entry = entry, !.victim = victim]
    <3>2. x.at # "idle" /\ x.count = r.count
      BY <1>2 DEF Running
    <3> HIDE DEF x
    <3>3. Issued(x) = r.count
      BY <3>2, AwakeIssued
    <3> QED BY <3>1, <3>3 DEF x
  <2>8. ASSUME EvictLearn(t)
        PROVE  \E x : thread' = [thread EXCEPT ![t] = x] /\ Issued(x) = r.count
    <3> DEFINE x == [r EXCEPT !.at = "accessing", !.entry = {}, !.victim = <<>>]
    <3>1. x.at = "accessing" /\ x.count = r.count
      BY <1>2 DEF Running
    <3>2. thread' = [thread EXCEPT ![t] = x]
      BY <2>8 DEF EvictLearn
    <3> HIDE DEF x
    <3> QED BY <3>1, <3>2, AwakeIssued
  <2>9. \E x : thread' = [thread EXCEPT ![t] = x] /\ Issued(x) = r.count
    BY <2>1, <2>2, <2>3, <2>4, <2>5, <2>6, <2>7, <2>8
  <2> QED BY <1>4, <2>9
<1>6. pf' = pf /\ stats' = stats
  BY DEF FinishWalk, LookupPattern, PokeAcc, PokeFilter, Promote, LearnEvicted, EvictFilter,
         EvictAcc, EvictLearn
<1> QED BY <1>5, <1>6, SameAccounts

LEMMA StepAccounts == ASSUME StateInv, Accounts, Next PROVE Accounts'
<1> PICK t \in Core :
      \/ \E block \in Block : (\E op \in Op, pc \in Pc : StartAccess(t, op, pc, block))
                              \/ StartWalk(t, block)
      \/ FinishWalk(t) \/ LookupPattern(t) \/ Prefetch(t) \/ CountPrefetches(t)
      \/ PokeAcc(t) \/ PokeFilter(t) \/ Promote(t) \/ LearnEvicted(t)
      \/ \E c \in Core, block \in Block : StartEvict(t, c, block)
      \/ EvictFilter(t) \/ EvictAcc(t) \/ EvictLearn(t)
  BY Steps
<1>1. TypesInv /\ Generations
  BY DEF StateInv
<1>2. ASSUME NEW block \in Block, (\E op \in Op, pc \in Pc : StartAccess(t, op, pc, block))
                                  \/ StartWalk(t, block)
      PROVE  Accounts'
  <2>1. PICK phase, request : Enter(t, block, phase, request)
    BY <1>2 DEF StartAccess, StartWalk
  <2> QED BY <1>1, <2>1, EnterAccounts
<1> QED BY <1>1, <1>2, PrefetchAccounts, CountAccounts, StartEvictAccounts, OtherAccounts

(* PrefetchesAccounted: however other threads' evictions interleave with a  *)
(* core's prefetching, its useful, useless and pending prefetches are never *)
(* more than it issued: cache_hierarchy's statistics judge each at most     *)
(* once.                                                                    *)
THEOREM AccountsKept == Spec => []PrefetchesAccounted
<1>1. Init => Accounts
  <2>1. Cardinality({}) = 0
    BY FS_EmptySet
  <2> QED BY <2>1 DEF Init, Accounts, Judged, Issued
<1>2. StateInv /\ Accounts /\ [Next \/ Halted]_vars => Accounts'
  <2> SUFFICES ASSUME StateInv, Accounts, [Next \/ Halted]_vars PROVE Accounts'
    OBVIOUS
  <2>1. CASE UNCHANGED vars
    BY <2>1 DEF vars, Accounts, Judged
  <2> QED BY <2>1, StepAccounts DEF Halted
<1>3. Accounts => PrefetchesAccounted
  BY DEF Accounts, Judged, Issued, PrefetchesAccounted
<1> QED BY <1>1, <1>2, <1>3, StateInvariant, PTL DEF Spec

(* ---- what predictions rest on ------------------------------------------ *)
(* An accumulated entry records accesses of the core: its trigger, and the  *)
(* block of every offset in its pattern.                                    *)
Witnessed(sights, e) ==
  /\ <<e.pc, <<e.region, e.offset>>>> \in sights
  /\ \A o \in Offset : e.pattern[o] # "none" =>
       \E pc \in Pc : <<pc, <<e.region, o>>>> \in sights

(* What core c's thread, in state r, holds in its hands.                    *)
Sighted(c, r, sights) ==
  /\ r.at # "idle" /\ r.phase # "walk" => <<r.request.pc, r.block>> \in sights[c]
  /\ r.at \in {"promoting", "learning"} => \A e \in r.entry : Witnessed(sights[c], e)
  /\ r.at = "evicting_learn" => \A e \in r.entry : Witnessed(sights[r.victim[1]], e)

Sightings ==
  \A c \in Core :
    /\ \A e \in filter[c] : <<e.pc, <<e.region, e.offset>>>> \in seen[c]
    /\ \A e \in acc[c] : Witnessed(seen[c], e)
    /\ Sighted(c, thread[c], seen)

(* What supports the prediction of an offset under a key.                   *)
Supported(sights, key, o) ==
  \E region \in Region, first \in Offset :
    /\ Rot \/ first = key.offset
    /\ <<key.pc, <<region, first>>>> \in sights
    /\ \E pc \in Pc : <<pc, <<region, IF Rot THEN (o + first) % NBlk ELSE o>>>> \in sights

Predictions ==
  \A c \in Core : \A e \in pht[c], type \in PatternType, o \in Offset :
    e.counters[type][o] >= 2 => Supported(seen[c], e.key, o)

LEMMA InOffset == ASSUME NEW n \in Int PROVE n % NBlk \in Offset
<1>1. NBlk \in Nat /\ NBlk > 0
  BY Sizes
<1> QED BY <1>1 DEF Offset

(* A touched offset supports its own prediction.                            *)
LEMMA TouchSupports ==
  ASSUME NEW sights, NEW entry \in AccEntry, Witnessed(sights, entry),
         NEW type \in PatternType, NEW o \in Offset, Touched(entry, type)[o]
  PROVE  Supported(sights, Key(entry.pc, entry.offset), o)
<1> DEFINE bit == [i \in Offset |-> IF type = "access" THEN entry.pattern[i] # "none"
                                    ELSE entry.pattern[i] = type]
           at == IF Rot THEN (o + entry.offset) % NBlk ELSE o
<1>1. /\ entry.region \in Region /\ entry.offset \in Offset
      /\ Key(entry.pc, entry.offset).pc = entry.pc
      /\ Rot \/ entry.offset = Key(entry.pc, entry.offset).offset
  BY DEF AccEntry, Key
<1>2. at \in Offset
  <2>1. o + entry.offset \in Int
    BY <1>1 DEF Offset
  <2> QED BY <2>1, InOffset
<1>3. bit[at]
  <2>1. CASE Rot
    BY <2>1 DEF Touched, RotatedLeft
  <2>2. CASE ~Rot
    BY <2>2 DEF Touched
  <2> QED BY <2>1, <2>2
<1>4. entry.pattern[at] # "none"
  <2>1. type \in {"access", "read", "write"}
    BY DEF PatternType
  <2>2. IF type = "access" THEN entry.pattern[at] # "none" ELSE entry.pattern[at] = type
    BY <1>2, <1>3
  <2> QED BY <2>1, <2>2
<1> HIDE DEF at
<1>5. \E pc \in Pc : <<pc, <<entry.region, at>>>> \in sights
  BY <1>2, <1>4 DEF Witnessed
<1>6. <<entry.pc, <<entry.region, entry.offset>>>> \in sights
  BY DEF Witnessed
<1> QED BY <1>1, <1>5, <1>6 DEF Supported, at

(* What an entry learns to predict rests on what was accumulated, or on     *)
(* what it predicted already.                                               *)
LEMMA LearnPredictions ==
  ASSUME TypesInv, Predictions, NEW c \in Core, NEW entry \in AccEntry,
         Learns(c, entry), Witnessed(seen[c], entry), seen' = seen
  PROVE  Predictions'
<1> SUFFICES ASSUME NEW d \in Core, NEW x \in pht'[d], NEW type \in PatternType,
                    NEW o \in Offset, x.counters[type][o] >= 2
             PROVE  Supported(seen[d], x.key, o)
  BY DEF Predictions
<1>1. CASE x \in pht[d]
  BY <1>1 DEF Predictions
<1>2. CASE x \notin pht[d]
  <2>1. /\ d = c /\ x.key = Key(entry.pc, entry.offset)
        /\ \/ x.counters = Fresh(entry)
           \/ \E e \in pht[c] : e.key = x.key /\ x.counters = Trained(e.counters, entry)
    BY <1>2 DEF Learns
  <2>2. CASE Touched(entry, type)[o]
    BY <2>1, <2>2, TouchSupports
  <2>3. CASE ~Touched(entry, type)[o]
    <3>1. CASE x.counters = Fresh(entry)
      <4>1. x.counters[type][o] = 1
        BY <2>3, <3>1 DEF Fresh
      <4> QED BY <4>1
    <3>2. ASSUME NEW e \in pht[c], e.key = x.key, x.counters = Trained(e.counters, entry)
          PROVE  Supported(seen[d], x.key, o)
      <4>1. e.counters[type][o] \in 0..3
        <5>1. e.counters \in [PatternType -> [Offset -> 0..3]]
          BY DEF TypesInv, Typed, PhtEntry
        <5> QED BY <5>1
      <4>2. e.counters[type][o] >= 2
        <5> PICK n : n = e.counters[type][o]
          OBVIOUS
        <5>1. x.counters[type][o] = IF ~SatCnt THEN 1 ELSE IF n > 0 THEN n - 1 ELSE n
          BY <2>3, <3>2, FlagAssumption DEF Trained
        <5> QED BY <4>1, <5>1
      <4> QED BY <2>1, <3>2, <4>2 DEF Predictions
    <3> QED BY <2>1, <3>1, <3>2
  <2> QED BY <2>2, <2>3
<1> QED BY <1>1, <1>2

(* What was seen stays seen.                                                *)
LEMMA MoreWitnessed ==
  ASSUME NEW less, NEW more, less \subseteq more, NEW e, Witnessed(less, e)
  PROVE  Witnessed(more, e)
BY DEF Witnessed

LEMMA KeptPredictions ==
  ASSUME Predictions, pht' = pht, \A c \in Core : seen[c] \subseteq seen'[c]
  PROVE  Predictions'
<1> SUFFICES ASSUME NEW c \in Core, NEW e \in pht[c], NEW type \in PatternType,
                    NEW o \in Offset, e.counters[type][o] >= 2
             PROVE  Supported(seen'[c], e.key, o)
  BY DEF Predictions
<1>1. Supported(seen[c], e.key, o)
  BY DEF Predictions
<1> QED BY <1>1 DEF Supported

LEMMA KeptSightings ==
  ASSUME TypesInv, Sightings, NEW t \in Core,
         \A c \in Core : /\ filter'[c] \subseteq filter[c] /\ acc'[c] \subseteq acc[c]
                         /\ seen[c] \subseteq seen'[c],
         NEW x, thread' = [thread EXCEPT ![t] = x], Sighted(t, x, seen')
  PROVE  Sightings'
<1>1. DOMAIN thread = Core /\ \A c \in Core : ThreadOK(thread[c])
  BY DEF TypesInv, Typed
<1>2. thread'[t] = x /\ \A c \in Core : c # t => thread'[c] = thread[c]
  BY <1>1
<1>3. ASSUME NEW c \in Core PROVE Sighted(c, thread'[c], seen')
  <2>1. CASE c = t
    BY <1>2, <2>1
  <2>2. CASE c # t
    <3> PICK r : r = thread[c]
      OBVIOUS
    <3>1. Sighted(c, r, seen)
      BY DEF Sightings
    <3>2. r.at = "evicting_learn" => r.victim[1] \in Core
      BY <1>1 DEF ThreadOK, Idle
    <3>3. \A d \in Core : \A e : Witnessed(seen[d], e) => Witnessed(seen'[d], e)
      BY MoreWitnessed
    <3>4. Sighted(c, r, seen')
      BY <3>1, <3>2, <3>3 DEF Sighted
    <3> QED BY <1>2, <2>2, <3>4
  <2> QED BY <2>1, <2>2
<1>4. ASSUME NEW c \in Core
      PROVE  /\ \A e \in filter'[c] : <<e.pc, <<e.region, e.offset>>>> \in seen'[c]
             /\ \A e \in acc'[c] : Witnessed(seen'[c], e)
  <2>1. \A e \in filter'[c] : <<e.pc, <<e.region, e.offset>>>> \in seen'[c]
    BY DEF Sightings
  <2>2. \A e \in acc'[c] : Witnessed(seen[c], e)
    BY DEF Sightings
  <2> QED BY <2>1, <2>2, MoreWitnessed
<1> QED BY <1>3, <1>4 DEF Sightings

(* ---- every step sights ------------------------------------------------- *)
LEMMA EnterSightings ==
  ASSUME TypesInv, Sightings, NEW t \in Core, NEW block \in Block,
         \/ \E op \in Op, pc \in Pc : StartAccess(t, op, pc, block)
         \/ StartWalk(t, block)
  PROVE  Sightings' /\ pht' = pht /\ \A c \in Core : seen[c] \subseteq seen'[c]
<1>1. ASSUME NEW phase, NEW request, Enter(t, block, phase, request),
             \A c \in Core : seen[c] \subseteq seen'[c],
             phase # "walk" => <<request.pc, block>> \in seen'[t]
      PROVE  Sightings' /\ pht' = pht
  <2> DEFINE x == [at |-> "accessing", phase |-> phase, block |-> block, request |-> request,
                   todo |-> {}, count |-> 0, entry |-> {}, victim |-> <<>>, evicts |-> 0]
  <2>1. thread' = [thread EXCEPT ![t] = x] /\ pht' = pht /\ filter' = filter /\ acc' = acc
    BY <1>1 DEF Enter, tables
  <2>2. Sighted(t, x, seen')
    BY <1>1 DEF Sighted
  <2> HIDE DEF x
  <2> QED BY <1>1, <2>1, <2>2, KeptSightings
<1>2. ASSUME NEW op \in Op, NEW pc \in Pc, StartAccess(t, op, pc, block)
      PROVE  Sightings' /\ pht' = pht /\ \A c \in Core : seen[c] \subseteq seen'[c]
  <2>1. Enter(t, block, "demand", [op |-> op, pc |-> pc])
    BY <1>2 DEF StartAccess
  <2>2. \A c \in Core : seen[c] \subseteq seen'[c]
    BY <1>2 DEF StartAccess, TypesInv, Typed
  <2>3. <<pc, block>> \in seen'[t]
    BY <1>2 DEF StartAccess, TypesInv, Typed
  <2>4. [op |-> op, pc |-> pc].pc = pc
    OBVIOUS
  <2> QED BY <1>1, <2>1, <2>2, <2>3, <2>4
<1>3. CASE StartWalk(t, block)
  <2>1. Enter(t, block, "walk", <<>>) /\ seen' = seen
    BY <1>3 DEF StartWalk
  <2> QED BY <1>1, <2>1
<1> QED BY <1>2, <1>3

(* A thread that keeps its access and holds no entry, or goes idle.         *)
LEMMA PlainSighted ==
  ASSUME NEW t \in Core, NEW r, NEW sights, NEW x,
         \/ x = Idle
         \/ /\ Sighted(t, r, sights) /\ r.at # "idle"
            /\ r.phase # "walk" \/ x.phase = "walk"
            /\ x.request = r.request /\ x.block = r.block
            /\ x.at \notin {"promoting", "learning", "evicting_learn"}
  PROVE  Sighted(t, x, sights)
BY DEF Sighted, Idle

LEMMA PlainSightings ==
  ASSUME TypesInv, Sightings, NEW t \in Core,
         \/ FinishWalk(t) \/ LookupPattern(t) \/ Prefetch(t) \/ CountPrefetches(t)
         \/ \E c \in Core, block \in Block : StartEvict(t, c, block)
         \/ EvictFilter(t)
  PROVE  Sightings' /\ pht' = pht /\ seen' = seen
<1> PICK r : r = thread[t]
  OBVIOUS
<1>1. r \in Running
  <2>1. r.at # "idle"
    BY DEF FinishWalk, LookupPattern, Prefetch, CountPrefetches, StartEvict, EvictFilter,
           BetweenPrefetches, At
  <2> QED BY <2>1, Awake
<1>2. Sighted(t, r, seen) /\ r.at # "idle"
  BY <1>1 DEF Sightings, Running, Label
<1>3. pht' = pht /\ seen' = seen /\ acc' = acc
  BY DEF FinishWalk, LookupPattern, Prefetch, CountPrefetches, StartEvict, EvictFilter, tables
<1>4. \A c \in Core : filter'[c] \subseteq filter[c]
  <2>1. CASE EvictFilter(t)
    BY <2>1, EvictFilterTypes
  <2>2. CASE ~EvictFilter(t)
    BY <2>2 DEF FinishWalk, LookupPattern, Prefetch, CountPrefetches, StartEvict, tables
  <2> QED BY <2>1, <2>2
<1>5. ASSUME NEW x, thread' = [thread EXCEPT ![t] = x], Sighted(t, x, seen)
      PROVE  Sightings' /\ pht' = pht /\ seen' = seen
  BY <1>3, <1>4, <1>5, KeptSightings
<1>6. CASE FinishWalk(t)
  BY <1>5, <1>6, PlainSighted DEF FinishWalk
<1>7. CASE LookupPattern(t)
  <2> PICK todo : thread' = [thread EXCEPT ![t] =
        [r EXCEPT !.at = "prefetching", !.phase = "prefetch", !.evicts = 0, !.todo = todo]]
    BY <1>7 DEF LookupPattern
  <2> DEFINE x == [r EXCEPT !.at = "prefetching", !.phase = "prefetch", !.evicts = 0,
                            !.todo = todo]
  <2>1. x.at = "prefetching" /\ x.request = r.request /\ x.block = r.block
    BY <1>1 DEF Running
  <2>2. r.phase = "demand"
    BY <1>7 DEF LookupPattern
  <2> HIDE DEF x
  <2>3. Sighted(t, x, seen)
    BY <1>2, <2>1, <2>2, PlainSighted
  <2> QED BY <1>5, <2>3 DEF x
<1>8. CASE Prefetch(t)
  <2> PICK todo, n : thread' = [thread EXCEPT ![t] =
        [r EXCEPT !.at = "accessing", !.todo = todo, !.count = n, !.evicts = 0]]
    BY <1>8 DEF Prefetch
  <2> DEFINE x == [r EXCEPT !.at = "accessing", !.todo = todo, !.count = n, !.evicts = 0]
  <2>1. x.at = "accessing" /\ x.request = r.request /\ x.block = r.block
    BY <1>1 DEF Running
  <2>2. r.phase = "prefetch"
    BY <1>8, Between DEF Prefetch
  <2> HIDE DEF x
  <2>3. Sighted(t, x, seen)
    BY <1>2, <2>1, <2>2, PlainSighted
  <2> QED BY <1>5, <2>3 DEF x
<1>9. CASE CountPrefetches(t)
  <2> DEFINE x == [r EXCEPT !.at = "recording", !.count = 0, !.evicts = 0]
  <2>1. x.at = "recording" /\ x.request = r.request /\ x.block = r.block
    BY <1>1 DEF Running
  <2>2. r.phase = "prefetch"
    BY <1>9, Between DEF CountPrefetches
  <2>3. thread' = [thread EXCEPT ![t] = x]
    BY <1>9 DEF CountPrefetches
  <2> HIDE DEF x
  <2>4. Sighted(t, x, seen)
    BY <1>2, <2>1, <2>2, PlainSighted
  <2> QED BY <1>5, <2>3, <2>4
<1>10. ASSUME NEW c \in Core, NEW block \in Block, StartEvict(t, c, block)
       PROVE  Sightings' /\ pht' = pht /\ seen' = seen
  <2> PICK n : thread' = [thread EXCEPT ![t] =
        [r EXCEPT !.at = "evicting_filter", !.victim = <<c, block>>, !.evicts = n]]
    BY <1>10 DEF StartEvict
  <2> DEFINE x == [r EXCEPT !.at = "evicting_filter", !.victim = <<c, block>>, !.evicts = n]
  <2>1. /\ x.at = "evicting_filter" /\ x.request = r.request /\ x.block = r.block
        /\ x.phase = r.phase
    BY <1>1 DEF Running
  <2> HIDE DEF x
  <2>2. Sighted(t, x, seen)
    BY <1>2, <2>1, PlainSighted
  <2> QED BY <1>5, <2>2 DEF x
<1>11. CASE EvictFilter(t)
  <2> DEFINE x == [r EXCEPT !.at = "evicting_acc"]
  <2>1. /\ x.at = "evicting_acc" /\ x.request = r.request /\ x.block = r.block
        /\ x.phase = r.phase
    BY <1>1 DEF Running
  <2>2. thread' = [thread EXCEPT ![t] = x]
    BY <1>11 DEF EvictFilter, GoTo
  <2> HIDE DEF x
  <2>3. Sighted(t, x, seen)
    BY <1>2, <2>1, PlainSighted
  <2> QED BY <1>5, <2>2, <2>3
<1> QED BY <1>6, <1>7, <1>8, <1>9, <1>10, <1>11

LEMMA PokeAccSightings ==
  ASSUME TypesInv, Sightings, NEW t \in Core, PokeAcc(t)
  PROVE  Sightings' /\ pht' = pht /\ seen' = seen
<1> PICK r : r = thread[t]
  OBVIOUS
<1>1. r.at = "recording"
  BY DEF PokeAcc, At
<1>2. r \in Running /\ r.request \in Request /\ r.phase = "prefetch"
  BY <1>1, Awake
<1>3. Sighted(t, r, seen) /\ <<r.request.pc, r.block>> \in seen[t]
  BY <1>1, <1>2 DEF Sightings, Sighted
<1>4. /\ filter' = filter /\ pht' = pht /\ seen' = seen /\ DOMAIN thread = Core
      /\ acc \in [Core -> SUBSET AccEntry]
  BY DEF PokeAcc, TypesInv, Typed
<1>5. Sighted(t, thread'[t], seen) /\ \A c \in Core : c # t => thread'[c] = thread[c]
  <2> DEFINE x == [r EXCEPT !.at = "filtering"]
  <2>1. /\ x.at = "filtering" /\ x.request = r.request /\ x.block = r.block
        /\ x.phase = r.phase
    BY <1>2 DEF Running
  <2>2. thread' = [thread EXCEPT ![t] = x] \/ thread' = [thread EXCEPT ![t] = Idle]
    BY DEF PokeAcc
  <2> HIDE DEF x
  <2>3. Sighted(t, x, seen) /\ Sighted(t, Idle, seen)
    BY <1>1, <1>2, <1>3, <2>1, PlainSighted
  <2> QED BY <1>4, <2>2, <2>3
<1>6. PICK T : /\ acc' = [acc EXCEPT ![t] = T]
               /\ \A x \in T : \/ x \in acc[t]
                               \/ \E e \in acc[t] :
                                    /\ e.region = thread[t].block[1]
                                    /\ x = Extended(e, thread[t].block[2],
                                                    thread[t].request.op)
  BY PokeAccTypes
<1>7. acc'[t] = T /\ \A c \in Core : c # t => acc'[c] = acc[c]
  BY <1>4, <1>6
<1>8. ASSUME NEW e \in acc[t], NEW x, e.region = r.block[1],
             x = Extended(e, r.block[2], r.request.op)
      PROVE  Witnessed(seen[t], x)
  <2>1. r.block[2] \in Offset /\ r.request.op \in {"read", "write"} /\ r.request.pc \in Pc
    BY <1>2, OpAssumption DEF Running, Block, Request
  <2>2. /\ x.region = e.region /\ x.pc = e.pc /\ x.offset = e.offset
        /\ \A o \in Offset : o # r.block[2] => x.pattern[o] = e.pattern[o]
    <3>1. e \in AccEntry
      BY <1>4
    <3> PICK offset \in Offset : offset = r.block[2]
      BY <2>1
    <3> PICK op \in {"read", "write"} : op = r.request.op
      BY <2>1
    <3>2. x = Extended(e, offset, op)
      BY <1>8
    <3>3. x.region = e.region /\ x.pc = e.pc /\ x.offset = e.offset
      BY <3>1, <3>2, ExtendedEntry
    <3>4. ASSUME NEW o \in Offset, o # offset PROVE x.pattern[o] = e.pattern[o]
      <4>1. e.pattern \in Pattern
        BY <3>1 DEF AccEntry
      <4>2. x.pattern = [e.pattern EXCEPT ![offset] = IF e.pattern[offset] = "none" THEN op
                                                      ELSE e.pattern[offset]]
        BY <3>1, <3>2 DEF Extended, AccEntry
      <4> QED BY <3>4, <4>1, <4>2 DEF Pattern
    <3> QED BY <3>3, <3>4
  <2>3. Witnessed(seen[t], e)
    BY DEF Sightings
  <2>4. <<r.block[1], r.block[2]>> = r.block
    BY <1>2 DEF Running, Block
  <2>5. <<r.request.pc, <<x.region, r.block[2]>>>> \in seen[t]
    BY <1>3, <1>8, <2>2, <2>4
  <2>6. ASSUME NEW o \in Offset, x.pattern[o] # "none"
        PROVE  \E pc \in Pc : <<pc, <<x.region, o>>>> \in seen[t]
    <3>1. CASE o = r.block[2]
      BY <2>1, <2>5, <3>1
    <3>2. CASE o # r.block[2]
      BY <2>2, <2>3, <2>6, <3>2 DEF Witnessed
    <3> QED BY <3>1, <3>2
  <2> QED BY <2>2, <2>3, <2>6 DEF Witnessed
<1>9. \A x \in T : Witnessed(seen[t], x)
  <2>1. \A x \in acc[t] : Witnessed(seen[t], x)
    BY DEF Sightings
  <2> QED BY <1>6, <1>8, <2>1
<1> QED BY <1>4, <1>5, <1>7, <1>9 DEF Sightings

LEMMA PokeFilterSightings ==
  ASSUME TypesInv, Sightings, NEW t \in Core, PokeFilter(t)
  PROVE  Sightings' /\ pht' = pht /\ seen' = seen
<1> PICK r : r = thread[t]
  OBVIOUS
<1>1. r.at = "filtering"
  BY DEF PokeFilter, At
<1>2. r \in Running /\ r.request \in Request /\ r.phase = "prefetch"
  BY <1>1, Awake
<1>3. Sighted(t, r, seen) /\ <<r.request.pc, r.block>> \in seen[t]
  BY <1>1, <1>2 DEF Sightings, Sighted
<1>4. /\ acc' = acc /\ pht' = pht /\ seen' = seen /\ DOMAIN thread = Core
      /\ filter \in [Core -> SUBSET FilterEntry]
  BY DEF PokeFilter, TypesInv, Typed
<1>5. r.block = <<r.block[1], r.block[2]>> /\ r.request.pc \in Pc
  BY <1>2 DEF Running, Block, Request
<1>6. ASSUME NEW e \in filter[t], e.region = r.block[1],
             filter' = [filter EXCEPT ![t] = @ \ {e}],
             thread' = [thread EXCEPT ![t] = [r EXCEPT !.at = "promoting",
                                                       !.entry = {Promoted(r, e)}]]
      PROVE  Sightings'
  <2> PICK p : p = Promoted(r, e)
    OBVIOUS
  <2>1. /\ p.region = e.region /\ p.pc = e.pc /\ p.offset = e.offset
        /\ \A o \in Offset : p.pattern[o] # "none" => o = r.block[2] \/ o = e.offset
    BY <1>2, <1>4, PromotedEntry
  <2>2. <<e.pc, <<e.region, e.offset>>>> \in seen[t] /\ e.pc \in Pc
    BY <1>4 DEF Sightings, FilterEntry
  <2>3. Witnessed(seen[t], p)
    BY <1>3, <1>5, <1>6, <2>1, <2>2 DEF Witnessed
  <2> DEFINE x == [r EXCEPT !.at = "promoting", !.entry = {p}]
  <2>4. /\ x.at = "promoting" /\ x.request = r.request /\ x.block = r.block
        /\ x.entry = {p}
    BY <1>2 DEF Running
  <2>5. thread' = [thread EXCEPT ![t] = x]
    BY <1>6
  <2> HIDE DEF x
  <2>6. Sighted(t, x, seen)
    BY <1>3, <2>3, <2>4 DEF Sighted
  <2>7. \A c \in Core : filter'[c] \subseteq filter[c]
    BY <1>4, <1>6
  <2> QED BY <1>4, <2>5, <2>6, <2>7, KeptSightings
<1>7. ASSUME thread' = [thread EXCEPT ![t] = Idle],
             NEW T, NEW new, filter' = [filter EXCEPT ![t] = T],
             T \subseteq filter[t] \cup {new}, new.region = r.block[1],
             new.pc = r.request.pc, new.offset = r.block[2]
      PROVE  Sightings'
  <2>1. thread'[t] = Idle /\ \A c \in Core : c # t => thread'[c] = thread[c]
    BY <1>4, <1>7
  <2>2. filter'[t] = T /\ \A c \in Core : c # t => filter'[c] = filter[c]
    BY <1>4, <1>7
  <2>3. <<new.pc, <<new.region, new.offset>>>> \in seen[t]
    BY <1>3, <1>5, <1>7
  <2>4. \A e \in T : <<e.pc, <<e.region, e.offset>>>> \in seen[t]
    BY <1>7, <2>3 DEF Sightings
  <2>5. Sighted(t, Idle, seen)
    BY PlainSighted
  <2> QED BY <1>4, <2>1, <2>2, <2>4, <2>5 DEF Sightings
<1>8. CASE \E e \in filter[t] :
             /\ e.region = thread[t].block[1]
             /\ filter' = [filter EXCEPT ![t] = @ \ {e}]
             /\ thread' = [thread EXCEPT ![t] = [thread[t] EXCEPT !.at = "promoting",
                                                   !.entry = {Promoted(thread[t], e)}]]
  BY <1>4, <1>6, <1>8
<1>9. CASE /\ thread' = [thread EXCEPT ![t] = Idle]
           /\ \E T, new : /\ filter' = [filter EXCEPT ![t] = T]
                          /\ T \subseteq filter[t] \cup {new}
                          /\ new \in FilterEntry /\ new.region = thread[t].block[1]
                          /\ new.pc = thread[t].request.pc /\ new.offset = thread[t].block[2]
  BY <1>4, <1>7, <1>9
<1> QED BY <1>8, <1>9, PokeFilterTypes

LEMMA PromoteSightings ==
  ASSUME TypesInv, Generations, Sightings, NEW t \in Core, Promote(t)
  PROVE  Sightings' /\ pht' = pht /\ seen' = seen
<1> PICK r : r = thread[t]
  OBVIOUS
<1>1. r.at = "promoting"
  BY DEF Promote, At
<1>2. r \in Running
  BY <1>1, Awake
<1>3. Sighted(t, r, seen) /\ \A e \in r.entry : Witnessed(seen[t], e)
  BY <1>1 DEF Sightings, Sighted
<1>4. /\ filter' = filter /\ pht' = pht /\ seen' = seen /\ DOMAIN thread = Core
      /\ acc \in [Core -> SUBSET AccEntry]
  BY DEF Promote, TypesInv, Typed
<1>5. PICK e \in thread[t].entry : \E T :
        /\ acc' = [acc EXCEPT ![t] = T] /\ T \subseteq acc[t] \cup {e}
        /\ \/ thread' = [thread EXCEPT ![t] = Idle]
           \/ \E E \in SUBSET acc[t] : thread' = [thread EXCEPT ![t] =
                [thread[t] EXCEPT !.at = "learning", !.entry = E]]
  BY PromoteTypes
<1>6. PICK T :
        /\ acc' = [acc EXCEPT ![t] = T] /\ T \subseteq acc[t] \cup {e}
        /\ \/ thread' = [thread EXCEPT ![t] = Idle]
           \/ \E E \in SUBSET acc[t] : thread' = [thread EXCEPT ![t] =
                [r EXCEPT !.at = "learning", !.entry = E]]
  BY <1>5
<1>7. \A x \in acc[t] : Witnessed(seen[t], x)
  BY DEF Sightings
<1>8. acc'[t] = T /\ \A c \in Core : c # t => acc'[c] = acc[c]
  BY <1>4, <1>6
<1>9. \A x \in T : Witnessed(seen[t], x)
  BY <1>3, <1>5, <1>6, <1>7
<1>10. Sighted(t, thread'[t], seen) /\ \A c \in Core : c # t => thread'[c] = thread[c]
  <2>1. CASE thread' = [thread EXCEPT ![t] = Idle]
    BY <1>4, <2>1, PlainSighted
  <2>2. ASSUME NEW E \in SUBSET acc[t],
               thread' = [thread EXCEPT ![t] = [r EXCEPT !.at = "learning", !.entry = E]]
        PROVE  Sighted(t, thread'[t], seen) /\ \A c \in Core : c # t => thread'[c] = thread[c]
    <3> DEFINE x == [r EXCEPT !.at = "learning", !.entry = E]
    <3>1. x.at = "learning" /\ x.request = r.request /\ x.block = r.block /\ x.entry = E
          /\ x.phase = r.phase
      BY <1>2 DEF Running
    <3>2. thread' = [thread EXCEPT ![t] = x]
      BY <2>2
    <3> HIDE DEF x
    <3>3. Sighted(t, x, seen)
      BY <1>1, <1>3, <1>7, <3>1 DEF Sighted
    <3> QED BY <1>4, <3>2, <3>3
  <2> QED BY <1>6, <2>1, <2>2
<1> QED BY <1>4, <1>8, <1>9, <1>10 DEF Sightings

LEMMA LearnEvictedSightings ==
  ASSUME TypesInv, Sightings, Predictions, NEW t \in Core, LearnEvicted(t)
  PROVE  Sightings' /\ Predictions' /\ seen' = seen
<1> PICK r : r = thread[t]
  OBVIOUS
<1>1. r.at = "learning"
  BY DEF LearnEvicted, At
<1>2. r \in Running
  BY <1>1, Awake
<1>3. \A e \in r.entry : Witnessed(seen[t], e)
  BY <1>1 DEF Sightings, Sighted
<1>4. /\ filter' = filter /\ acc' = acc /\ seen' = seen
      /\ thread' = [thread EXCEPT ![t] = Idle]
  BY DEF LearnEvicted
<1>5. PICK entry \in thread[t].entry : Learns(t, entry)
  BY LearnEvictedTypes
<1>6. entry \in AccEntry /\ Witnessed(seen[t], entry)
  BY <1>2, <1>3, <1>5 DEF Running
<1>7. Predictions'
  BY <1>4, <1>5, <1>6, LearnPredictions
<1>8. Sighted(t, Idle, seen')
  BY PlainSighted
<1>9. Sightings'
  BY <1>4, <1>8, KeptSightings
<1> QED BY <1>4, <1>7, <1>9

LEMMA EvictAccSightings ==
  ASSUME TypesInv, Sightings, NEW t \in Core, EvictAcc(t)
  PROVE  Sightings' /\ pht' = pht /\ seen' = seen
<1> PICK r : r = thread[t]
  OBVIOUS
<1>1. r.at = "evicting_acc"
  BY DEF EvictAcc, At
<1>2. r \in Running
  BY <1>1, Awake
<1>3. Sighted(t, r, seen)
  BY DEF Sightings
<1>4. filter' = filter /\ pht' = pht /\ seen' = seen
  BY DEF EvictAcc
<1> PICK x : x = thread'[t]
  OBVIOUS
<1>5. /\ \A c \in Core : acc'[c] \subseteq acc[c]
      /\ thread' = [thread EXCEPT ![t] = x]
      /\ x.at \in {"accessing", "evicting_learn"}
      /\ x.block = r.block /\ x.phase = r.phase /\ x.request = r.request
  BY EvictAccTypes
<1>6. /\ x.at = "evicting_learn" => x.victim = r.victim
      /\ r.victim \in Core \X Block
      /\ \A e \in x.entry : e \in acc[r.victim[1]]
  BY EvictAccTypes
<1>7. \A e \in x.entry : Witnessed(seen[r.victim[1]], e)
  BY <1>6 DEF Sightings
<1>8. Sighted(t, x, seen')
  BY <1>1, <1>3, <1>4, <1>5, <1>6, <1>7 DEF Sighted
<1> QED BY <1>4, <1>5, <1>8, KeptSightings

LEMMA EvictLearnSightings ==
  ASSUME TypesInv, Sightings, Predictions, NEW t \in Core, EvictLearn(t)
  PROVE  Sightings' /\ Predictions' /\ seen' = seen
<1> PICK r : r = thread[t]
  OBVIOUS
<1>1. r.at = "evicting_learn"
  BY DEF EvictLearn, At
<1>2. r \in Running
  BY <1>1, Awake
<1>3. Sighted(t, r, seen) /\ \A e \in r.entry : Witnessed(seen[r.victim[1]], e)
  BY <1>1 DEF Sightings, Sighted
<1> DEFINE x == [r EXCEPT !.at = "accessing", !.entry = {}, !.victim = <<>>]
<1>4. /\ filter' = filter /\ acc' = acc /\ seen' = seen /\ thread' = [thread EXCEPT ![t] = x]
  BY DEF EvictLearn
<1>5. /\ x.at = "accessing" /\ x.request = r.request /\ x.block = r.block
      /\ x.phase = r.phase
  BY <1>2 DEF Running
<1> HIDE DEF x
<1>6. PICK entry \in thread[t].entry : Learns(thread[t].victim[1], entry)
  BY EvictLearnTypes
<1>7. r.victim[1] \in Core
  BY EvictLearnTypes
<1>8. entry \in AccEntry /\ Witnessed(seen[r.victim[1]], entry) /\ Learns(r.victim[1], entry)
  BY <1>2, <1>3, <1>6 DEF Running
<1>9. Predictions'
  BY <1>4, <1>7, <1>8, LearnPredictions
<1>10. Sighted(t, x, seen')
  BY <1>1, <1>3, <1>4, <1>5, PlainSighted
<1>11. Sightings'
  BY <1>4, <1>10, KeptSightings
<1> QED BY <1>4, <1>9, <1>11

LEMMA StepSightings ==
  ASSUME StateInv, Sightings, Predictions, Next PROVE Sightings' /\ Predictions'
<1> PICK t \in Core :
      \/ \E block \in Block : (\E op \in Op, pc \in Pc : StartAccess(t, op, pc, block))
                              \/ StartWalk(t, block)
      \/ FinishWalk(t) \/ LookupPattern(t) \/ Prefetch(t) \/ CountPrefetches(t)
      \/ PokeAcc(t) \/ PokeFilter(t) \/ Promote(t) \/ LearnEvicted(t)
      \/ \E c \in Core, block \in Block : StartEvict(t, c, block)
      \/ EvictFilter(t) \/ EvictAcc(t) \/ EvictLearn(t)
  BY Steps
<1>1. TypesInv /\ Generations
  BY DEF StateInv
<1>2. ASSUME Sightings', pht' = pht, \A c \in Core : seen[c] \subseteq seen'[c]
      PROVE  Predictions'
  BY <1>2, KeptPredictions
<1>3. CASE \E block \in Block : (\E op \in Op, pc \in Pc : StartAccess(t, op, pc, block))
                                \/ StartWalk(t, block)
  BY <1>1, <1>2, <1>3, EnterSightings
<1>4. CASE \/ FinishWalk(t) \/ LookupPattern(t) \/ Prefetch(t) \/ CountPrefetches(t)
           \/ \E c \in Core, block \in Block : StartEvict(t, c, block)
           \/ EvictFilter(t)
  BY <1>1, <1>2, <1>4, PlainSightings
<1>5. CASE PokeAcc(t) \/ PokeFilter(t) \/ Promote(t) \/ EvictAcc(t)
  BY <1>1, <1>2, <1>5, PokeAccSightings, PokeFilterSightings, PromoteSightings,
     EvictAccSightings
<1>6. CASE LearnEvicted(t) \/ EvictLearn(t)
  BY <1>1, <1>6, LearnEvictedSightings, EvictLearnSightings
<1> QED BY <1>3, <1>4, <1>5, <1>6

(* PredictionsSeen: a pattern that PHTPerCore::lookup turns into prefetches *)
(* rests on accesses of the same core, whatever entries were evicted,       *)
(* replaced or learnt by other threads in between.                          *)
THEOREM PredictionsRest == Spec => []PredictionsSeen
<1>1. Init => Sightings /\ Predictions
  BY DEF Init, Idle, Sightings, Sighted, Predictions
<1>2. /\ StateInv /\ Sightings /\ Predictions /\ [Next \/ Halted]_vars
      => Sightings' /\ Predictions'
  <2> SUFFICES ASSUME StateInv, Sightings, Predictions, [Next \/ Halted]_vars
               PROVE  Sightings' /\ Predictions'
    OBVIOUS
  <2>1. CASE UNCHANGED vars
    BY <2>1 DEF vars, Sightings, Predictions
  <2> QED BY <2>1, StepSightings DEF Halted
<1>3. Predictions => PredictionsSeen
  BY DEF Predictions, Supported, PredictionsSeen
<1> QED BY <1>1, <1>2, <1>3, StateInvariant, PTL DEF Spec
=============================================================================
