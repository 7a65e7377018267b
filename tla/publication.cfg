SPECIFICATION FairSpec
CONSTANTS
  f1 = f1
  f2 = f2
  Families = {f1, f2}
  Saves <- MixedSaves
  MaxRevision <- RevisedOnce
  MaxVersion = 4
  MaxReviews = 2
  MaxForeign = 1
  MaxFaults = 1
INVARIANTS CommittedOnce CompletedIsOnMain MainIsRecorded NoStaleRegistry
PROPERTIES Promise ConfirmedIsCurrent ConfirmedEnds
CHECK_DEADLOCK FALSE
