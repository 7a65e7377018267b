SPECIFICATION Spec
CONSTANTS
  s1 = s1
  i1 = i1
  i2 = i2
  x1 = x1
  x2 = x2
  spaceA = spaceA
  spaceB = spaceB
  Sessions = {s1}
  Task = s1
  Heads = {h1}
  Triggers = {"auto"}
  MaxTurns = 3
  MaxBreaks = 1
  Callers = {c1, c2}
  Intents = {i1, i2}
  SpacesOf <- MCSpacesOf
  Shortlists <- MCShortlists
  MaxCards = 1
  Generations = {1}
  MaxInterrupts = 1
  NoIntent = NoIntent
  Nobody = Nobody
INVARIANT TypeOK
INVARIANT ActiveSetIsReceipted
INVARIANT OneShortlistPerDelivery
INVARIANT ToolsFollowTheirGate
INVARIANT PendingGateIsCurrent
PROPERTY DecisionsStand
SYMMETRY MCSymmetry
CHECK_DEADLOCK FALSE
