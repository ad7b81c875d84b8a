\* Two attempts, three faults, task timeouts: older invocations run on.
SPECIFICATION FairSpec
CONSTANTS
  MaxAttempts = 2
  MaxFaults = 3
  Wired = TRUE
  TimesOut = TRUE
INVARIANT TypeOK
INVARIANT OwnOutcome
INVARIANT ArchiveHandedOver
INVARIANT ArchiveRepeatedByTrouble
PROPERTY TasksEnd
\* The task ends, and nothing is left to do.
CHECK_DEADLOCK FALSE
