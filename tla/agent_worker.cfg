\* From a Hook to the Session index.
SPECIFICATION Spec
CONSTANTS
  Events = {e1, e2}
  Stops = {e1, e2}
  Sessions = {s1}
  SessionOf <- MCSessionOf
  Workers = {w1, w2}
  ClaimLimit = 2
  MaxDeaths = 2
  MaxErrors = 1
  Nobody = Nobody
INVARIANTS
  ConsumedIsIndexed
PROPERTIES
  RecordedIsConsumed
