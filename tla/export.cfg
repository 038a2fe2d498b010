SPECIFICATION Spec
CONSTANTS
  NCores = 2
  NWorkers = 2
  NSets <- Sets
  MaxSaves = 2
  Block = {1, 2, 3}
  Tags = {0, 1, 2, 3}
  Checkpoints <- SmallCheckpoints
  Written <- WrittenCheckpoints
  Parameters <- Targets
INVARIANTS SavedIsLoaded DirectoryMatchesCaches NothingForgotten UnresizedUnchanged
