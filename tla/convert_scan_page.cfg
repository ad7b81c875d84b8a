\* Two rows, one row per Scan page.
SPECIFICATION FairSpec
CONSTANTS
  Docs = {1, 2}
  Kind <- OtherFirst
  Workers = {w1}
  Copies = {"sent"}
  NoMsg = NoMsg
  Pos <- ScanOrder
  MaxReceive = 2
  Visibility = 2
  CallTimeout = 2
  StuckAfter = 3
  ScanLimit = 1
  MaxRows = 1
  MaxFaults = 0
  MaxCrashes = 0
PROPERTY ConversionsEnd
