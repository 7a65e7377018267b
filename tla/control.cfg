\* The Candidate refresh card.
SPECIFICATION Spec
CONSTANTS
  Controls = {c1, c2}
  Actions = {a1, a2}
  PageActions = {p1}
  Sessions = {s1, s2}
  Views = {v1, v2}
  MaxLost = 1
  NoScope = NoScope
  NoAction = NoAction
  NoRequest = NoRequest
  NoSession = NoSession
  NoControl = NoControl
INVARIANTS
  OneRequestPerControl
  ScopeIsKept
SYMMETRY MCSymmetry
CHECK_DEADLOCK FALSE
