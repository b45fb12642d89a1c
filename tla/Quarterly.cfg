SPECIFICATION FairSpec
CONSTANTS
  NumJobs = 2
  NumConfirmations = 1
  MaxEdits = 1
  MaxCancels = 1
  MaxFaults = 2
INVARIANTS TypeOK ConfirmedIsFrozen PeriodIsOwn ExportedIsReal
PROPERTY CollectingEnds
CHECK_DEADLOCK FALSE
