----------------------------- MODULE MCAdminMenu -----------------------------
(***************************************************************************)
(* AdminMenu with the host's system group, which a profile may make        *)
(* optional, a plugin with a group and a page below it that sorts before   *)
(* the group, and a second plugin that brings a page with the same route.  *)
(***************************************************************************)
EXTENDS AdminMenu, TLC

CONSTANTS c1, c2

MCContribs == {"system", "page", "notes", "rival"}
MCOwner    == [k \in MCContribs |-> CASE k = "system" -> "host" [] k = "rival" -> "q" [] OTHER -> "p"]
MCRank     == [system |-> 4, page |-> 1, notes |-> 2, rival |-> 3]
MCLabel    == [system |-> "System", page |-> "Page", notes |-> "Notes", rival |-> "Rival"]
MCRoute    == [system |-> "/admin/system", page |-> "/admin/notes", notes |-> "none",
               rival |-> "/admin/notes"]
MCParent   == [system |-> "none", page |-> "notes", notes |-> "system", rival |-> "none"]
MCCore     == {}
MCSystemRoutes == {"/admin/system", "/admin/menus"}
MCSingleRoutes == {"/admin/menus"}
MCSeeds    == << [label |-> "System", parent |-> 0, route |-> "/admin/system", by |-> "seed"] >>
MCDrafts   == {[label |-> "Notes", parent |-> 1, route |-> "/admin/menus", by |-> "admin"]}
MCPatches  == {{"parent", "route"}}
MCClients  == {c1, c2}
Symmetry   == Permutations(MCClients)
===============================================================================
