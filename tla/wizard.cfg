SPECIFICATION FairSpec
CONSTANTS
  NumFiles = 3
  MaxClicks = 3
  MaxFaults = 1
INVARIANT TypeOK
INVARIANT OneAtATime
INVARIANT OneDocument
PROPERTY BatchEnds
\* With the clicks used up and nothing listed, the user may be through.
CHECK_DEADLOCK FALSE
