\* No fault at all.
SPECIFICATION FairSpec
CONSTANTS
  Docs = {1}
  Kind <- OneOffice
  Workers = {w1}
  Copies = {"sent"}
  NoMsg = NoMsg
  Pos <- ScanOrder
  MaxReceive = 2
  Visibility = 2
  CallTimeout = 2
  StuckAfter = 3
  ScanLimit = 1
  MaxRows = 1
  MaxFaults = 0
  MaxCrashes = 0
PROPERTY QueuedMovesOn
