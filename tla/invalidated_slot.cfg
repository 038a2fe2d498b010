CONSTANTS
  Core = {c1, c2}
  Cache <- UnifiedCache
  Block = {0, 1, 2}
  Op = {"DataRead", "DataWrite"}
  NoCore = NoCore
  NoBlock = NoBlock
  ICache <- UnifiedOf
  DCache <- UnifiedOf
  PrivSet = {0}
  DirSet = {0}
  PSetOf <- OneSet
  DSetOf <- OneSet
  LSetOf <- OneSet
  PrivWays = 2
  DirWays = 3
  LlcWays = 1
  FillOnFill = TRUE
  FillOnEviction = TRUE
  FillOnWriteback = TRUE
  FillOnReplica = TRUE
  ExclusiveState = TRUE
  LlcExclusive = FALSE
SPECIFICATION Spec
INVARIANTS TypeOK WithinCapacity
PROPERTIES AtomicSpec
