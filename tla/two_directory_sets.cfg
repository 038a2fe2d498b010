CONSTANTS
  Core = {c1, c2}
  Cache <- UnifiedCache
  Block = {0, 1, 2}
  Op = {"DataRead", "DataWrite"}
  NoCore = NoCore
  NoBlock = NoBlock
  ICache <- UnifiedOf
  DCache <- UnifiedOf
  PrivSet = {0}
  DirSet = {0, 1}
  PSetOf <- OneSet
  DSetOf <- Parity
  LSetOf <- OneSet
  PrivWays = 1
  DirWays = 1
  LlcWays = 2
  FillOnFill = TRUE
  FillOnEviction = TRUE
  FillOnWriteback = TRUE
  FillOnReplica = TRUE
  ExclusiveState = TRUE
  LlcExclusive = FALSE
SPECIFICATION FairSpec
INVARIANTS NoPanic DirectoryExact IndInv
PROPERTIES SomeAccessReturns
