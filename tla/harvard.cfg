CONSTANTS
  Core = {c1, c2}
  Cache <- HarvardCache
  Block = {0, 1}
  Op = {"InstructionFetch", "DataRead", "DataWrite", "PageWalkRead"}
  NoCore = NoCore
  NoBlock = NoBlock
  ICache <- HarvardICache
  DCache <- HarvardDCache
  PrivSet = {0}
  DirSet = {0}
  PSetOf <- OneSet
  DSetOf <- OneSet
  LSetOf <- OneSet
  PrivWays = 1
  DirWays = 2
  LlcWays = 2
  FillOnFill = FALSE
  FillOnEviction = FALSE
  FillOnWriteback = TRUE
  FillOnReplica = FALSE
  ExclusiveState = FALSE
  LlcExclusive = TRUE
SPECIFICATION Spec
SYMMETRY CoreSymmetry
INVARIANTS SingleWriter WriterOwnsDirty NoPanic
