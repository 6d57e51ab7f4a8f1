SPECIFICATION FairSpec
CONSTANTS
  c1 = c1
  c2 = c2
  d1 = d1
  Booter = Booter
  NoCaller = NoCaller
  Callers <- MCCallers
  Dispatches = {}
  Kinds <- MCToggles
  MaxGens = 6
  MaxRequests = 4
  MaxStarts = 2
  MaxFaults = 0
  MaxDrops = 1
INVARIANTS LoadedMeansPublished RequiredServes
PROPERTIES RequestsEnd
CHECK_DEADLOCK FALSE
