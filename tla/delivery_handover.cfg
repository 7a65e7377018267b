SPECIFICATION FairDelivery
CONSTANTS
  p1 = p1
  rt1 = rt1
  rt2 = rt2
  space1 = space1
  d1 = d1
  f1 = f1
  c1 = c1
  ca1 = ca1
  ca2 = ca2
  s1 = s1
  s2 = s2
  Families = {f1}
  Contents = {c1}
  Routes = {rt1, rt2}
  Boundaries <- MCBoundaries
  Spaces = {space1}
  SpaceOf <- MCSpaceOf
  Archived = {}
  Repositories = {p1}
  ClientActions = {ca1}
  Users = {u1}
  Devices = {d1, d2}
  Batches <- MCBatches
  LeaseSeconds = 1
  RetryDelays <- MCRetryDelays
  MaxAttempts = 4
  Home <- MCHome
  RouteHeads <- MCRouteHeads
  Toggled = {}
  Sources = {s1}
  MaxTurns = 1
  Scope <- MCScope
  SingleSource <- MCSingleSource
  Origin <- MCOrigin
  SliceOrder <- MCSliceOrder
  MaxGrowth = 1
  MaxFaults = 2
  Timely = TRUE
  NoDevice = NoDevice
  NoBoundary = NoBoundary
  NoBatch = NoBatch
  NoResult = NoResult
  NoRequest = NoRequest
  NoFreeze = NoFreeze
  NoSelection = NoSelection
  NoDraft = NoDraft
  NoJob = NoJob
CHECK_DEADLOCK FALSE
PROPERTIES
  UpdatesEnd
INVARIANTS
  BatchesComeFromTheirBoundary
