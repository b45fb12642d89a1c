\* One confirmation, every retry the code allows.
SPECIFICATION FairSpec
CONSTANTS
  c1 = c1
  NoConf = NoConf
  Confs = {c1}
  MaxAttempts = 3
  MaxCrashes = 2 MaxCancels = 1 MaxFaults = 1 MaxOverlaps = 1
INVARIANTS NoDuplicateLog SuccessIsReal RetryableIsAbsent
PROPERTY SubmissionSettles
CHECK_DEADLOCK FALSE
