SPECIFICATION Spec
CONSTANTS
  c1 = c1
  c2 = c2
  d1 = d1
  Booter = Booter
  NoCaller = NoCaller
  Callers <- MCCallers
  Dispatches <- MCDispatches
  Kinds <- MCKinds
  MaxGens = 5
  MaxRequests = 3
  MaxStarts = 2
  MaxFaults = 1
  MaxDrops = 2
SYMMETRY Symmetry
INVARIANTS OneGeneration TasksAccounted PolicyCovers InactiveIsEmpty DeadNeverSeen
PROPERTIES NoCallOnceDisabled
CHECK_DEADLOCK FALSE
