\* One repository, the actions the other instance leaves out, two crashes or failures.
SPECIFICATION FairSpec
CONSTANTS
  None = None
  NumItems = 1
  MaxAttempts = 2
  Actions = {"fetch_prune", "checkout", "push_set_upstream", "stash_create", "stash_apply", "stage_paths"}
  Worlds <- MCSingle
  MaxEdits = 1 MaxTroubles = 2
PROPERTY BatchSettles
CHECK_DEADLOCK FALSE
