------------------------ MODULE MCCapabilityRegistry ------------------------
(***************************************************************************)
(* CapabilityRegistry with a builtin and a Lua plugin that compete for one *)
(* ordinary key and one host key, through two concurrent callers.          *)
(***************************************************************************)
EXTENDS CapabilityRegistry

CONSTANTS builtin, lua, route, hostRoute, c1, c2

MCOwners        == {builtin, lua}
MCBuiltinOwners == {builtin}
MCKeys          == {route, hostRoute}
MCReservedKeys  == {hostRoute}
MCCallers       == {c1, c2}
=============================================================================
