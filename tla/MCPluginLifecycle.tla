-------------------------- MODULE MCPluginLifecycle --------------------------
(***************************************************************************)
(* PluginLifecycle with one or two concurrent operations and requests; the *)
(* runs differ in what may go wrong.                                       *)
(***************************************************************************)
EXTENDS PluginLifecycle, TLC

CONSTANTS c1, c2, d1

MCCallers    == {c1, c2}
MCDispatches == {d1}
MCToggles    == {"enable", "disable"}
MCKinds      == {"enable", "disable", "reload"}
Symmetry     == Permutations(MCCallers)
===============================================================================
