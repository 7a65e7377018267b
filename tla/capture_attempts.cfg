\* One source of one slice, served by two overlapping runs.
SPECIFICATION Spec
CONSTANTS
  Runners = {r1, r2}
  Outputs = {o1, silent}
  Silent = {silent}
  Decisions = {d1, d2}
  MaxGenerations = 2
  MaxThreads = 3
  NoOutput = NoOutput
  Empty = Empty
INVARIANTS
  TypeOK
  OneResult
  TurnsRunInOpenThreads
PROPERTIES
  SettledStays
SYMMETRY MCSymmetry
CHECK_DEADLOCK FALSE
