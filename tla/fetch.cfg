SPECIFICATION Spec
CONSTANTS
  BtbSets = 2
  BtbWays = 2
  RasDepth = 2
  NHIST = 2
  LOGB = 1
  LOGG = 2
  TBITS = 2
  CBITS = 2
  HISTORIES <- MCHistories
  MAXHIST = 4
  LogReset = 3
  WordBits = 5
  Programs <- MCPrograms
INVARIANTS HistoryFaithful TargetsFaithful
PROPERTY UsefulSpared
