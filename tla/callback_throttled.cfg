\* One attempt, no fault but the one of S3.
SPECIFICATION Spec
CONSTANTS
  MaxAttempts = 1
  MaxFaults = 0
  Wired = FALSE
  TimesOut = FALSE
INVARIANT TroubleIsRetried
\* The task ends, and nothing is left to do.
CHECK_DEADLOCK FALSE
