SPECIFICATION PoolSpec
CONSTANTS
  n1 = n1
  n2 = n2
  n3 = n3
  n4 = n4
  n5 = n5
  Absent = Absent
  PoolNodes = {n1, n2, n3, n4, n5}
  Group <- MCGroup
  Ranks <- MCRanks
  Layouts <- MCLayouts
  Payload <- MCPayload
  Encode <- encodeParts
  Decode <- decodeParts
  MaxFaults = 2
  MaxOps = 2
INVARIANTS PartsFit ProtectedSurvives
PROPERTY FailsOnlyIfLost
