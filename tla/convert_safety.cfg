\* One document, two replicas: overlaps, faults and crashes.
SPECIFICATION Spec
CONSTANTS
  Docs = {1}
  Kind <- OneOffice
  Workers = {w1, w2}
  Copies = {"sent", "resent"}
  NoMsg = NoMsg
  Pos <- ScanOrder
  MaxReceive = 2
  Visibility = 2
  CallTimeout = 2
  StuckAfter = 3
  ScanLimit = 1
  MaxRows = 1
  MaxFaults = 2
  MaxCrashes = 1
INVARIANT TypeOK
INVARIANT DoneHasPdf
INVARIANT OverlapOnlyAtVisibility
PROPERTY AckAfterOutcome
PROPERTY ReapsOnlyStuckRows
PROPERTY FirstCallNotReaped
PROPERTY StartedAtKept
PROPERTY RowLifecycle
SYMMETRY WorkerSymmetry
