SPECIFICATION Spec
CONSTANTS
  Params <- MCParams
  Stars <- MCStars
  NamedStars <- MCNamedStars
  Begins <- MCBegins
  SegmentOrder <- MCSegmentOrder
  Manifests <- MCManifests
  Others <- MCOthers
  PolicyKeys <- MCPolicyKeys
  ApiRoutes <- MCApiRoutes
  Pages <- MCPages
  Commands <- MCCommands
  Events <- MCEvents
  RawEntries <- MCRawEntries
  Modules <- MCModules
  Module <- MCModule
  Statements <- MCStatements
  MaxCalls = 2
INVARIANTS PublishesWithinGrants EachCallsItsOwn
CHECK_DEADLOCK FALSE
