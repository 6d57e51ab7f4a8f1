SPECIFICATION Spec
CONSTANTS
  c1 = c1
  c2 = c2
  Contribs <- MCContribs
  Owner <- MCOwner
  Rank <- MCRank
  Label <- MCLabel
  Route <- MCRoute
  Parent <- MCParent
  Core <- MCCore
  SystemRoutes <- MCSystemRoutes
  SingleRoutes <- MCSingleRoutes
  Seeds <- MCSeeds
  Drafts <- MCDrafts
  Patches <- MCPatches
  Clients <- MCClients
  System = "system"
  MaxId = 4
  MaxRequests = 3
  MaxToggles = 2
  MaxFaults = 1
SYMMETRY Symmetry
INVARIANTS MenuFollowsPlugins NoGhostRows
PROPERTIES OwnRowsStay AloneListingAnswers
CHECK_DEADLOCK FALSE
