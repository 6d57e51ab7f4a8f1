SPECIFICATION TasksFairSpec
CONSTANTS
  t1 = t1
  t2 = t2
  notes = notes
  cms = cms
  k1 = k1
  k2 = k2
  NoOwner = NoOwner
  Tasks <- MCTasks
  TaskOwners <- MCOwners
  Calls <- MCCalls
INVARIANTS DueAreSettled
PROPERTIES CallsEnd DueStop
ACTION_CONSTRAINT FirstFirst
CHECK_DEADLOCK FALSE
