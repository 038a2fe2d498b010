SPECIFICATION FairSnapshotSpec
CONSTANTS
  Required = 3
  InitThreshold = 2
  Interval = 2
  InitIndexOption = 0
  Writers = {"savevm", "plugins"}
  FirstFormats = {"incremental_first_base", "raw_first_base"}
  OnDisk <- MixedDisk
  MaxDiff = 2
  MaxAhead = 3
INVARIANTS ExactlyRequired NameAtMostOneBehind DeltaHasBase PluginNamesDistinct
PROPERTIES EventuallyQuits
