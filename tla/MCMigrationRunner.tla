--------------------------- MODULE MCMigrationRunner ---------------------------
(***************************************************************************)
(* MigrationRunner with two processes and two migrations: the menu, whose  *)
(* table alone is left by old hosts and which is new otherwise, and the    *)
(* plugin governance, which may have to be recovered.  One of the two      *)
(* builds has another menu, and one of the two profiles does not have it.  *)
(***************************************************************************)
EXTENDS MigrationRunner, TLC

CONSTANTS p1, p2, menu, governance, column1, column2, body, shipped, edited

MCProcess     == {p1, p2}
MCMigration   == {menu, governance}
MCRank        == (menu :> 4) @@ (governance :> 8)
MCMarked      == {governance}
MCTabled      == {menu}
MCRecoverable == {governance}
MCPiece       == {column1, column2, body}
MCAlter       == {column1, column2}
MCVersion     == {1, 2}
MCBuild       == {shipped, edited}
MCChecksum    == (shipped :> [m \in MCMigration |-> 1]) @@
                 (edited :> [m \in MCMigration |-> IF m = governance THEN 1 ELSE 2])
MCProfile     == {MCMigration, {governance}}
Symmetry      == Permutations(MCProcess) \cup Permutations(MCAlter)
===============================================================================
