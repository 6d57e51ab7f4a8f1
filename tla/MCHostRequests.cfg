SPECIFICATION Spec
CONSTANTS
  Params <- MCParams
  Stars <- MCStars
  NamedStars <- MCNamedStars
  SegmentOrder <- MCSegmentOrder
  Begins <- MCBegins
  Scripts <- MCScripts
  PluginKeys <- MCPluginKeys
  UserRoles <- MCUserRoles
  AccessTtl = 1
  RefreshTtl = 2
  Leeway = 1
  Bounds <- MCBounds
INVARIANTS BuiltinsKeepTheirKeys WorkspaceFollowsPages HolderIsServed SessionEnds
