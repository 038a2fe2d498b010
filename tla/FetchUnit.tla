------------------------------ MODULE FetchUnit ------------------------------
(* The branch predictors of one core (components/bp/fetch): a branch target *)
(* buffer, a TAGE predictor and a return address stack, all trained with    *)
(* each resolved branch.  Cores share nothing.  Entries and histories keep  *)
(* their bits; the widths are constants.  How often a prediction missed is  *)
(* statistics and left out.                                                 *)
EXTENDS Integers, Sequences, FiniteSets, SequencesExt, FiniteSetsExt

CONSTANTS
  BtbSets, BtbWays, RasDepth,
  NHIST, LOGB, LOGG, TBITS, CBITS,
  HISTORIES, MAXHIST,  \* history lengths of the banks, longest first
  LogReset,            \* ages between two resets, 18 in the code
  WordBits,            \* bits of the number of an instruction, 62 in the code
  Programs             \* branches a program may resolve, and how many (bound)

VARIABLES
  program,       \* what the guest runs
  btb, localTs,  \* the entries of each set; its clock
  ras,           \* the return addresses, the youngest last
  tage,          \* the TAGE predictor, a record
  log            \* history: the branches, with what the BTB knew of them

vars == <<program, btb, localTs, ras, tage, log>>

(* A bit string is the set of the positions of its ones; what the code      *)
(* hashes and folds is one, and so are a table index, a tag and a history.  *)
Positions(width) == 0..width - 1
Bits(n, width) == {i \in Positions(width) : (n \div 2^i) % 2 = 1}
Left(x, n) == {i + n : i \in x}
Right(x, n) == {i - n : i \in {j \in x : j >= n}}
Xor(x, y) == SymDiff(x, y)
Lowest(x) == x \intersect {0}

Bank == 0..NHIST - 1
Way == 0..BtbWays - 1
EmptyEntry == [tag |-> 0, target |-> 0, ts |-> 0, type |-> "NonBranch"]

(* The widths of the folded histories of a bank: for the index and twice    *)
(* for the tag.                                                             *)
TagWidth(bank) == TBITS - ((bank + (NHIST % 2)) \div 2)
Folds == {"i", "t0", "t1"}
Width(fold, bank) ==
  CASE fold = "i" -> LOGG [] fold = "t0" -> TagWidth(bank) [] fold = "t1" -> TagWidth(bank) - 1

(* Only a conditional branch may fall through; no property needs that.      *)
CallTypes == {"DirectCall", "IndirectCall"}
JumpTypes == {"Unconditional", "IndirectBranch", "Return"}
Branch ==
  [pc : Nat, type : {"Conditional"} \union CallTypes \union JumpTypes,
   taken : BOOLEAN, target : Nat]

ASSUME WidthsAssumption ==
  /\ {BtbSets, BtbWays, RasDepth, NHIST, LOGB, LOGG, TBITS, CBITS, LogReset, WordBits}
       \subseteq Nat \ {0}
  /\ MAXHIST \in Nat /\ HISTORIES \in [Bank -> 1..MAXHIST - 1]
  /\ NHIST <= LOGG
  /\ \A bank \in Bank : \A fold \in Folds : Width(fold, bank) >= 1

(* The code adds the two parts of a rotated hash: they share no bit.        *)
ASSUME RotationAssumption == 16 <= 2 * LOGG \/ \A bank \in Bank : HISTORIES[bank] <= 2 * LOGG

(* True of every width; the proofs need it and cannot derive it.            *)
ASSUME PowersAssumption == 2^(CBITS - 1) > 0 /\ 2^(2 * NHIST) > 0

ASSUME ProgramsAssumption ==
  \A p \in Programs : p.branches \subseteq Branch /\ p.length \in Nat

NewTage ==
  [tick |-> 0, seed |-> 0, phist |-> {}, ghist |-> {},
   comp |-> [f \in Folds |-> [bank \in Bank |-> {}]],
   btable |-> [i \in SUBSET Positions(LOGB) |-> [pred |-> 0, hyst |-> 1]],
   gtable |-> [bank \in Bank |-> [i \in SUBSET Positions(LOGG) |->
                 [ctr |-> 0, tag |-> {}, ubit |-> 0]]]]

Init ==
  /\ program \in Programs
  /\ btb = [s \in 0..BtbSets - 1 |-> [w \in Way |-> EmptyEntry]]
  /\ localTs = 0 /\ ras = <<>> /\ tage = NewTage /\ log = <<>>

-----------------------------------------------------------------------------
(* BTB::train.  An entry is matched by its tag alone; a taken branch that   *)
(* matches none replaces the entry with the least time.                     *)
SetOf(pc) == (pc \div 4) % BtbSets
Matching(set, pc) == {w \in Way : set[w].tag = pc}
(* Mutant: the first way is replaced.                                       *)
FirstWay(set) == 0

Oldest(set) == Min({w \in Way : \A v \in Way : set[w].ts <= set[v].ts})
Filled(b) == [tag |-> b.pc, target |-> b.target, ts |-> localTs + 1, type |-> b.type]

BtbTrained(set, b) ==
  LET hits == Matching(set, b.pc)
      way == IF hits # {} THEN Min(hits) ELSE Oldest(set)
  IN IF b.taken THEN [set EXCEPT ![way] = Filled(b)]
     ELSE IF hits # {} THEN [set EXCEPT ![way].ts = localTs + 1] ELSE set
KnownType(set, b) ==
  LET hits == Matching(set, b.pc) IN
  IF hits # {} THEN set[Min(hits)].type ELSE IF b.taken THEN b.type ELSE "NonBranch"

-----------------------------------------------------------------------------
(* Histories.                                                               *)

(* Mutant: the outcome that leaves the history is removed from bit zero.    *)
FoldedAtZero(comp, width, length, ghist) ==
  LET shifted == Xor(Left(comp, 1) \union Lowest(ghist), IF length \in ghist THEN {0} ELSE {}) IN
  Xor(shifted, Right(shifted, width)) \intersect Positions(width)

(* FoldedHistory::update; out_point is length % width.                      *)
Folded(comp, width, length, ghist) ==
  LET shifted == Xor(Left(comp, 1) \union Lowest(ghist),
                     IF length \in ghist THEN {length % width} ELSE {})
  IN Xor(shifted, Right(shifted, width)) \intersect Positions(width)

UpdateHistory(t, b) ==
  LET ghist == (Left(t.ghist, 1) \union (IF b.taken THEN {0} ELSE {})) \intersect Positions(MAXHIST)
      path == Lowest(Bits(b.pc \div 4, WordBits))
  IN [t EXCEPT
        !.ghist = ghist,
        !.phist = (Left(@, 1) \union path) \intersect Positions(16),
        !.comp = [f \in Folds |-> [bank \in Bank |->
                    Folded(t.comp[f][bank], Width(f, bank), HISTORIES[bank], ghist)]]]

(* Lookup.  An entry is matched by its tag alone here, too.                 *)
Rotated(x, bank) == (Left(x, bank) \intersect Positions(LOGG)) \union Right(x, LOGG - bank)
PathHash(phist, bank) ==
  LET a == phist \intersect Positions(Min({16, HISTORIES[bank]}))
  IN Rotated(Xor(a \intersect Positions(LOGG), Rotated(Right(a, LOGG), bank)), bank)

GIndex(t, pc, bank) ==
  LET word == Bits(pc \div 4, WordBits)
      pcHash == Xor(word, Right(word, LOGG - NHIST + bank + 1))
  IN Xor(Xor(pcHash, t.comp["i"][bank]), PathHash(t.phist, bank)) \intersect Positions(LOGG)
GTag(t, pc, bank) ==
  Xor(Xor(Bits(pc \div 4, WordBits), t.comp["t0"][bank]), Left(t.comp["t1"][bank], 1))
    \intersect Positions(TagWidth(bank))
BIndex(pc) == Bits(pc \div 4, WordBits) \intersect Positions(LOGB)

Entry(t, pc, bank) == t.gtable[bank][GIndex(t, pc, bank)]
HitBanks(t, pc) == {bank \in Bank : Entry(t, pc, bank).tag = GTag(t, pc, bank)}

(* is_cond_taken: the bank with the longest history that has a match; NHIST *)
(* stands for the bimodal table.                                            *)
PredictedBy(t, pc, bank) ==
  IF bank = NHIST THEN t.btable[BIndex(pc)].pred > 0 ELSE Entry(t, pc, bank).ctr >= 0
Predict(t, pc) ==
  LET bank == Min(HitBanks(t, pc) \union {NHIST})
      alternate == Min((HitBanks(t, pc) \ {bank}) \union {NHIST})
  IN [bank |-> bank, result |-> PredictedBy(t, pc, bank),
      alternate |-> PredictedBy(t, pc, alternate)]

-----------------------------------------------------------------------------
(* TAGEPredictor::train.                                                    *)
NextSeed(seed) == ((2^(2 * NHIST) + 1) * seed + 15988017) % 2^(2 * NHIST)

(* The draw skips a bank for each of the lowest ones of the seed, but never *)
(* the last one; the banks that are left are tried.                         *)
Drawn(seed, bank) ==
  {x \in 0..bank - 1 : x = 0 \/ ~(0..bank - 1 - x \subseteq Bits(seed, 2 * NHIST))}

PseudoNew(entry) == entry.ctr \in {0, -1} /\ entry.ubit = 0
Allocates(t, b, p) ==
  /\ p.result # b.taken /\ p.bank > 0
  /\ ~(/\ p.bank < NHIST /\ PseudoNew(Entry(t, b.pc, p.bank))
       /\ (Entry(t, b.pc, p.bank).ctr >= 0) = b.taken)

(* Every bank that could take the entry is in use: all of them age.         *)
Aged(t, b, p) ==
  [t EXCEPT !.gtable = [bank \in Bank |->
     IF bank < p.bank THEN [t.gtable[bank] EXCEPT ![GIndex(t, b.pc, bank)].ubit = @ - 1]
     ELSE t.gtable[bank]]]

(* Mutant: the bank that was drawn gives up its entry, useful or not.       *)
TargetsDrawn(t, b, banks, least) == banks

Targets(t, b, banks, least) == {bank \in banks : Entry(t, b.pc, bank).ubit = least}

Allocated(t, b, p) ==
  LET candidates == 0..p.bank - 1
      least == Min({3} \union {Entry(t, b.pc, bank).ubit : bank \in candidates})
      seed == NextSeed(t.seed)
      targets == Targets(t, b, Drawn(seed, p.bank), least)
      new(bank) == [tag |-> GTag(t, b.pc, bank), ctr |-> IF b.taken THEN 0 ELSE -1, ubit |-> 0]
  IN IF ~Allocates(t, b, p) THEN t
     ELSE IF least > 0 THEN Aged(t, b, p)
     ELSE IF targets = {} THEN [t EXCEPT !.seed = seed]
     ELSE [t EXCEPT !.seed = seed,
             !.gtable[Max(targets)][GIndex(t, b.pc, Max(targets))] = new(Max(targets))]

(* Every 2^LogReset branches one of the two useful bits is cleared.         *)
Kept(ubit, tick) ==
  IF (tick \div 2^LogReset) % 2 = 1 THEN ubit % 2 ELSE ubit - (ubit % 2)
Ticked(t) ==
  LET tick == t.tick + 1 IN
   IF tick % 2^LogReset # 0 THEN [t EXCEPT !.tick = tick]
     ELSE [t EXCEPT !.tick = tick,
             !.gtable = [bank \in Bank |-> [i \in SUBSET Positions(LOGG) |->
                           [t.gtable[bank][i] EXCEPT !.ubit = Kept(@, tick)]]]]

CtrUpdated(ctr, taken) ==
  IF taken THEN Min({ctr + 1, 2^(CBITS - 1) - 1}) ELSE Max({ctr - 1, -(2^(CBITS - 1))})
UbitUpdated(ubit, right) == IF right THEN Min({ubit + 1, 3}) ELSE Max({ubit - 1, 0})

Bimodal(e, taken) ==
  LET inter == IF taken THEN Min({2 * e.pred + e.hyst + 1, 3}) ELSE Max({2 * e.pred + e.hyst - 1, 0})
  IN IF (e.pred > 0) = taken THEN [e EXCEPT !.hyst = IF taken THEN 1 ELSE 0]
     ELSE [pred |-> inter \div 2, hyst |-> inter % 2]

(* Only the counter that gave the prediction is trained; its entry has been *)
(* useful when the next best would have been wrong.                         *)
Reinforced(t, b, p, gi) ==
  IF p.bank = NHIST
  THEN [t EXCEPT !.btable[BIndex(b.pc)] = Bimodal(@, b.taken)]
  ELSE LET e == t.gtable[p.bank][gi]
           useful == IF p.result # p.alternate THEN UbitUpdated(e.ubit, p.result = b.taken) ELSE e.ubit
       IN [t EXCEPT !.gtable[p.bank][gi] =
             [e EXCEPT !.ctr = CtrUpdated(e.ctr, b.taken), !.ubit = useful]]

(* Mutant: the history is updated first.                                    *)
TrainedAfterwards(t, b) ==
  LET u == IF b.type = "Conditional" THEN UpdateHistory(t, b) ELSE t
      p == Predict(u, b.pc)
  IN Reinforced(Ticked(Allocated(u, b, p)), b, p,
                IF p.bank = NHIST THEN {} ELSE GIndex(u, b.pc, p.bank))

Trained(t, b) ==
  LET p == Predict(t, b.pc)
      gi == IF p.bank = NHIST THEN {} ELSE GIndex(t, b.pc, p.bank)
      trained == Reinforced(Ticked(Allocated(t, b, p)), b, p, gi)
  IN IF b.type = "Conditional" THEN UpdateHistory(trained, b) ELSE trained

-----------------------------------------------------------------------------
(* ReturnAddressStack::train.                                               *)
IsCall(b) == b.type \in CallTypes
(* Mutant: a full stack ignores the call.                                   *)
PushedIfRoom(stack, address) == IF Len(stack) = RasDepth THEN stack ELSE Append(stack, address)

Pushed(stack, address) ==
  Append(IF Len(stack) = RasDepth THEN Tail(stack) ELSE stack, address)
Popped(stack) == IF stack = <<>> THEN stack ELSE Front(stack)

(* PerCoreFetchUnit::train.                                                 *)
Train(b) ==
  LET set == btb[SetOf(b.pc)]
      known == KnownType(set, b)
  IN
  /\ btb' = [btb EXCEPT ![SetOf(b.pc)] = BtbTrained(set, b)]
  /\ localTs' = localTs + 1
  /\ tage' = IF known = "Conditional" THEN Trained(tage, b) ELSE UpdateHistory(tage, b)
  /\ ras' = IF IsCall(b) THEN Pushed(ras, b.pc + 4)
            ELSE IF b.type = "Return" THEN Popped(ras) ELSE ras
  /\ log' = Append(log, [branch |-> b, known |-> known,
                          met |-> b.taken \/ Matching(set, b.pc) # {}])
  /\ UNCHANGED program

Next == \E b \in program.branches : Len(log) < program.length /\ Train(b)
Halted == Len(log) = program.length /\ UNCHANGED vars

Spec == Init /\ [][Next \/ Halted]_vars
-----------------------------------------------------------------------------
TageType ==
  [tick : Nat, seed : 0..2^(2 * NHIST) - 1,
   phist : SUBSET Positions(16), ghist : SUBSET Positions(MAXHIST),
   comp : [Folds -> [Bank -> SUBSET Nat]],
   btable : [SUBSET Positions(LOGB) -> [pred : {0, 1}, hyst : {0, 1}]],
   gtable : [Bank -> [SUBSET Positions(LOGG) ->
     [ctr : -(2^(CBITS - 1))..2^(CBITS - 1) - 1, tag : SUBSET Positions(TBITS), ubit : 0..3]]]]
KnownTypes == {"NonBranch", "Conditional"} \union CallTypes \union JumpTypes
EntryType == [tag : Nat, target : Nat, ts : Nat, type : KnownTypes]

(* What the tables and registers may hold; the clock counts the branches.   *)
TypeOK ==
  /\ program \in Programs
  /\ btb \in [0..BtbSets - 1 -> [Way -> EntryType]]
  /\ log \in Seq([branch : Branch, known : KnownTypes, met : BOOLEAN])
  /\ localTs = Len(log)
  /\ ras \in Seq(Nat)
  /\ tage \in TageType

(* The branches of the history: one the BTB takes for conditional and that  *)
(* is not is missing.  The age of one is the number of those since.         *)
Recorded == {n \in DOMAIN log : log[n].known = "Conditional" => log[n].branch.type = "Conditional"}
Age(n) == Cardinality({m \in Recorded : m > n})
Outcomes == {Age(n) : n \in {m \in Recorded : log[m].branch.taken}}
Path == {Age(n) : n \in {m \in Recorded : Bits(log[m].branch.pc \div 4, WordBits) \intersect {0} # {}}}
FoldOf(history, length, width) ==
  {j \in Positions(width) :
     Cardinality({i \in history : i < length /\ i % width = j}) % 2 = 1}

(* The global history holds the outcomes of the last branches by age, the   *)
(* path history a bit of their addresses, and each folded register the      *)
(* history folded: bit j is the parity of the taken branches whose age is   *)
(* below the length of the bank and j modulo the width.                     *)
HistoryFaithful ==
  /\ TypeOK
  /\ tage.ghist = Outcomes \intersect Positions(MAXHIST)
  /\ tage.phist = Path \intersect Positions(16)
  /\ \A f \in Folds : \A bank \in Bank :
       tage.comp[f][bank] = FoldOf(Outcomes, HISTORIES[bank], Width(f, bank))

(* A set of the BTB holds the branches it has met last, each once and with  *)
(* its last target and type.  A branch is met when it is taken or found; a  *)
(* branch found but never taken is at address zero, which the tag of an     *)
(* empty entry names.                                                       *)
Meetings(pc) == {n \in DOMAIN log : log[n].met /\ log[n].branch.pc = pc}
Takens(pc) == {n \in DOMAIN log : log[n].branch.taken /\ log[n].branch.pc = pc}
IsLast(n, S) == n \in S /\ \A m \in S : m <= n
LastTarget(e) ==
  \/ \E n \in Takens(e.tag) : /\ IsLast(n, Takens(e.tag))
                              /\ e.target = log[n].branch.target /\ e.type = log[n].branch.type
  \/ Takens(e.tag) = {} /\ e.tag = 0 /\ e.target = 0 /\ e.type = "NonBranch"
Valid(set) == {w \in Way : set[w].ts > 0}
SetFaithful(s, set) ==
  /\ \A w \in Valid(set) :
       SetOf(set[w].tag) = s /\ IsLast(set[w].ts, Meetings(set[w].tag)) /\ LastTarget(set[w])
  /\ \A v, w \in Valid(set) : set[v].tag = set[w].tag => v = w
  /\ \A n \in DOMAIN log : log[n].met /\ SetOf(log[n].branch.pc) = s =>
       \/ \E w \in Valid(set) : set[w].tag = log[n].branch.pc
       \/ \A w \in Way : set[w].ts > n

(* The return stack holds the calls that are open, the youngest on top: not *)
(* returned from, and never RasDepth calls deep since.                      *)
CallsIn(n, m) == {k \in n + 1..m : IsCall(log[k].branch)}
ReturnsIn(n, m) == {k \in n + 1..m : log[k].branch.type = "Return"}
Nesting(n, m) == Cardinality(CallsIn(n, m)) - Cardinality(ReturnsIn(n, m))
Open == {n \in DOMAIN log : /\ IsCall(log[n].branch)
                            /\ \A m \in n..Len(log) : Nesting(n, m) \in 0..RasDepth - 1}
Place(n) == Len(ras) - Nesting(n, Len(log))
StackFaithful ==
  /\ \A n \in Open : Place(n) \in DOMAIN ras /\ ras[Place(n)] = log[n].branch.pc + 4
  /\ \A k \in DOMAIN ras : \E n \in Open : Place(n) = k

TargetsFaithful == (\A s \in 0..BtbSets - 1 : SetFaithful(s, btb[s])) /\ StackFaithful

(* A tagged entry is replaced only after a wrong prediction, only in a bank *)
(* with a longer history than the one that gave it, only where this very    *)
(* branch will be looked for under this history, only one at a time, and    *)
(* never while it is useful.                                                *)
Replaced == {e \in Bank \X SUBSET Positions(LOGG) :
               tage.gtable[e[1]][e[2]].tag # tage'.gtable[e[1]][e[2]].tag}
SparesUseful(b, p) ==
  /\ \A d, e \in Replaced : d = e
  /\ \A e \in Replaced :
       /\ p.result # b.taken /\ e[1] < p.bank
       /\ e[2] = GIndex(tage, b.pc, e[1])
       /\ tage'.gtable[e[1]][e[2]].tag = GTag(tage, b.pc, e[1])
       /\ tage.gtable[e[1]][e[2]].ubit = 0
UsefulSpared == [][SparesUseful(Last(log').branch, Predict(tage, Last(log').branch.pc))]_log
=============================================================================
