\* Two repositories, one change from outside, two crashes or failures.
SPECIFICATION Spec
CONSTANTS
  None = None
  NumItems = 2
  MaxAttempts = 2
  Actions = {"pull_ff_only", "create_branch", "push", "commit"}
  Worlds <- MCWorlds
  MaxEdits = 1 MaxTroubles = 2
INVARIANTS TypeOK WrittenAsApproved CancelHonoured ResultTells PreviewWhole
CHECK_DEADLOCK FALSE
