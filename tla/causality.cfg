SPECIFICATION Spec
CONSTANTS
  Core = {c1, c2, c3}
  Line = {l1}
  MaxTime = 2
  MaxAccesses = 4
  MaxClears = 1
INVARIANTS SummaryFaithful NeighboursCaught
PROPERTY AlarmsJustified
SYMMETRY Symmetry
