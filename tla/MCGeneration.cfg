SPECIFICATION BoundedSpec
CONSTANTS
  Ids = {g1, g2, g3, g4}
  None = none
  Torn = torn
  Procs = {p}
  MaxSeq = 5
  MaxFaults = 2
  MaxStale = 1
INVARIANT PointersNameSealedTrees
INVARIANT EveryCrashIsRecoverable
INVARIANT SelectionsSurvive
PROPERTY TwoNewerAreKept
PROPERTY ImplementsRegister
CHECK_DEADLOCK FALSE
SYMMETRY Symmetry
