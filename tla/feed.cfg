SPECIFICATION FairSpec
CONSTANTS
  Docs = {1, 2}
  Default = {1, 2}
  Office = {1}
  Pages = {p1}
  Limit = 1
  MaxFlights = 2
  MaxFaults = 1
INVARIANT TypeOK
INVARIANT ToldIsListed
PROPERTY PagesCatchUp
