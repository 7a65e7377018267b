SPECIFICATION Spec
CONSTANTS
  Installers = {i1, i2}
  Publishers = {p1, p2}
  Profiles = {pr1, pr2}
  Leftover = Leftover
  NoInstall = NoInstall
  NoBundle = NoBundle
  NoPointer = NoPointer
  MaxCommit = 2
  MaxInstalls = 2
SYMMETRY MCSymmetry
CHECK_DEADLOCK FALSE
INVARIANTS
  ModelsAreWhole
  SelectionIsRetained
  RetrievedIsConfirmed
