--------------------------- MODULE MCAccessControl ---------------------------
(***************************************************************************)
(* AccessControl with a seeded and a custom role, a seeded and a custom    *)
(* permission, a key of another surface, a plugin page and two clients, on *)
(* a database where grants follow permissions and on one where they do not.*)
(***************************************************************************)
EXTENDS AccessControl, TLC

CONSTANTS editor, guest, menus, reports, api, page, run, ann, c1, c2

MCRoles       == {editor, guest}
MCSystemRoles == {editor}
MCPerms       == {menus, reports}
MCSystemPerms == {menus}
MCKeys        == {menus, reports, api}
MCRoutes      == {page}
MCCommands    == {run}
MCUsers       == {ann}
MCClients     == {c1, c2}
MCSeeds ==
  {[assigned |-> {<<editor, menus>>}, granted |-> {<<editor, menus>>, <<editor, api>>}, keys |-> MCKeys],
   [assigned |-> {<<editor, menus>>}, granted |-> {<<editor, api>>, <<editor, reports>>}, keys |-> MCKeys]}
MCSeedBound   == {<<page, reports>>, <<run, api>>}
MCContracts   == {{<<page, menus>>}, {<<page, reports>>, <<run, menus>>}}
Symmetry      == Permutations(MCClients)
===============================================================================
