SPECIFICATION Spec
CONSTANTS
  editor = editor
  guest = guest
  menus = menus
  reports = reports
  api = api
  page = page
  run = run
  ann = ann
  c1 = c1
  c2 = c2
  Roles <- MCRoles
  SystemRoles <- MCSystemRoles
  Perms <- MCPerms
  SystemPerms <- MCSystemPerms
  Keys <- MCKeys
  Routes <- MCRoutes
  Commands <- MCCommands
  Users <- MCUsers
  Clients <- MCClients
  Seeds <- MCSeeds
  SeedBound <- MCSeedBound
  Contracts <- MCContracts
  MaxId = 3
  MaxRequests = 4
  MaxFaults = 1
  MaxBinds = 1
  MaxStarts = 1
SYMMETRY Symmetry
INVARIANTS GrantsFollowPermissions SnapshotFollowsTables
PROPERTIES OtherGrantsStay
CHECK_DEADLOCK FALSE
