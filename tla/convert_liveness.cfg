\* One document, two replicas, faults and a crash, under fairness.
SPECIFICATION FairSpec
CONSTANTS
  Docs = {1}
  Kind <- OneOffice
  Workers = {w1, w2}
  Copies = {"sent"}
  NoMsg = NoMsg
  Pos <- ScanOrder
  MaxReceive = 2
  Visibility = 2
  CallTimeout = 2
  StuckAfter = 3
  ScanLimit = 1
  MaxRows = 1
  MaxFaults = 2
  MaxCrashes = 1
PROPERTY ConversionsEnd
PROPERTY ClaimsSettle
