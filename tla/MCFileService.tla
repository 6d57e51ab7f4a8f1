---------------------------- MODULE MCFileService ----------------------------
(***************************************************************************)
(* Two callers in one virtual machine or in two (a plugin's old and new    *)
(* generation) over three trees: a directory with a file and a hidden one, *)
(* one with an empty directory, and two directories side by side.  The     *)
(* root is the whole tree, or two roots share it; the last manifests, a    *)
(* root inside another and one id for two roots, are refused.              *)
(***************************************************************************)
EXTENDS FileService, TLC

CONSTANTS c1, c2, vm, f1, f2, f3

Whole == [id |-> "all", path |-> <<>>, can |-> Ops]
Sub(n, can) == [id |-> n, path |-> <<n>>, can |-> can]

MCMachines == {(c1 :> c1) @@ (c2 :> c2), [c \in {c1, c2} |-> vm]}
MCSymmetry == Permutations({c1, c2})
MCConfigs == {<<Whole>>,
              <<Sub("a", Ops), Sub("b", {"list", "read", "download", "delete"})>>,
              <<Whole, Sub("a", Ops)>>, <<Whole, Whole>>}
MCRels == {<<>>, <<"a">>, <<"b">>, <<"a", "a">>, <<"b", "a">>, <<"h">>}
MCSeeds == {(<<"a">> :> "dir") @@ (<<"a", "a">> :> f1) @@ (<<"a", "h">> :> f2),
            (<<"a">> :> "dir") @@ (<<"a", "b">> :> "dir") @@ (<<"b">> :> f1),
            (<<"a">> :> "dir") @@ (<<"b">> :> "dir") @@ (<<"b", "a">> :> f1)}
==============================================================================
