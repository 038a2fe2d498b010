SPECIFICATION Spec
CONSTANTS
  Core = {c1, c2}
  Pc = {p1, p2}
  Region = {r1, r2}
  NBlk = 2
  NFilter = 1
  NAcc = 1
  PhtWays = 1
  Rot = FALSE
  SepRdWr = FALSE
  SatCnt = FALSE
  Op = {"read"}
  MaxAccesses = 4
  MaxEvicts = 1
INVARIANTS OneGeneration PrefetchesAccounted PredictionsSeen
SYMMETRY Symmetry
