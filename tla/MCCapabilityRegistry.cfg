SPECIFICATION FairSpec
CONSTANTS
  builtin = builtin
  lua = lua
  route = route
  hostRoute = hostRoute
  c1 = c1
  c2 = c2
  NoCaller = NoCaller
  Owners <- MCOwners
  BuiltinOwners <- MCBuiltinOwners
  Keys <- MCKeys
  ReservedKeys <- MCReservedKeys
  Callers <- MCCallers
  MaxSpecs = 1
  MaxRequests = 3
INVARIANTS PendingIsCurrent
PROPERTIES ImplementsStore EveryRequestEnds
CHECK_DEADLOCK FALSE
