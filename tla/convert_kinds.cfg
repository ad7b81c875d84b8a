\* A DWG upload and a malformed claim, with claims sent by hand: nobody calls
\* office-convert here.
SPECIFICATION FairSpec
CONSTANTS
  Docs = {2, 3}
  Kind <- EveryKind
  Workers = {w1}
  Copies = {"sent", "manual"}
  NoMsg = NoMsg
  Pos <- ScanOrder
  MaxReceive = 2
  Visibility = 2
  CallTimeout = 2
  StuckAfter = 3
  ScanLimit = 2
  MaxRows = 2
  MaxFaults = 1
  MaxCrashes = 1
PROPERTY ClaimsSettle
