SPECIFICATION Spec
CONSTANTS
  p1 = p1
  rt1 = rt1
  rt2 = rt2
  space1 = space1
  space2 = space2
  f1 = f1
  ca1 = ca1
  ca2 = ca2
  c1 = c1
  c2 = c2
  Families = {f1}
  Contents = {c1, c2}
  Routes = {rt1, rt2}
  Boundaries = {b1}
  Spaces = {space1, space2}
  SpaceOf <- MCSpaceOf
  Archived = {}
  Repositories = {p1}
  ClientActions = {ca1, ca2}
  Users = {u1}
  Devices = {d1, d2}
  Batches <- MCBatches
  LeaseSeconds = 1
  RetryDelays <- MCRetryDelays
  MaxAttempts = 2
  Home <- MCHome
  RouteHeads <- MCRouteHeads
  Toggled <- MCToggled
  NoDevice = NoDevice
  NoBoundary = NoBoundary
  NoBatch = NoBatch
  NoResult = NoResult
  NoRequest = NoRequest
SYMMETRY Symmetric
CHECK_DEADLOCK FALSE
INVARIANTS
  WakeupScheduled
  SuccessIsBacked
  GapFreeHistory
  ReceiptsMatchStore
  FamilyStaysInSpace
PROPERTIES
  StaleTokensAreFenced
  Promise
