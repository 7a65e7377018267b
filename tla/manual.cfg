SPECIFICATION Spec
CONSTANTS
  Shells = {c1, c2}
  Forks = {f1}
  StageTurns = {x1}
  Inventories = {i1}
  Extractions = {o1, o2}
  o1 = o1
  o2 = o2
  SizeOf <- MCSizeOf
  MaxCandidates = 2
  Turns = {t1, t2}
  Selections <- MCSelections
  MaxBatches = 2
  MaxForeign = 1
  None = None
INVARIANTS
  TypeOK
  CompletedIsWhole
  PublishedOnce
  RecordsAreTrue
SYMMETRY MCSymmetry
CHECK_DEADLOCK FALSE
