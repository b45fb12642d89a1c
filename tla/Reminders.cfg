\* One reminder of one week whose confirmation opens at the second tick: its policy
\* may change once and the report twice, one cancel, two faults (deaths, rejected writes,
\* an answer that never ends), two POSTs in all.
SPECIFICATION FairSpec
CONSTANTS
  NumWeeks = 1
  Week = 2
  Offset <- MCOne
  Grace = 0
  NumVersions = 2
  MaxCalls = 2
  MaxFaults = 2
  MaxCancels = 1
  MaxChanges = 2
INVARIANTS TypeOK PageTells
PROPERTY PostedAsPlanned ReminderEnds
CHECK_DEADLOCK FALSE
