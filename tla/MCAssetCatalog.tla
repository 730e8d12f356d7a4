--------------------------- MODULE MCAssetCatalog ---------------------------
EXTENDS AssetCatalog, TLC
CONSTANTS c1, c2
MCKey == 1 .. 5
MCTime == {2, 3}
(* In the order of their bytes, lowest first: 3 1 4 2 5.                   *)
MCDraws == {<<4, 3, 5>>}
(* A named asset, one in no list, and one that is too long.                *)
Drafted(name, lists, fits) == [name |-> name, lists |-> lists, fits |-> fits]
MCDraft == 1 :> Drafted(4, {OldList}, TRUE) @@ 2 :> Drafted(NoName, {}, TRUE)
           @@ 3 :> Drafted(5, {OldList}, FALSE)
Once(cmd, args) == [r \in {cmd} \X args |-> 1]
Twice(cmd, args) == [r \in {cmd} \X args |-> 2]
(* One adds, the other looks for what the first adds.                      *)
MCAsks ==
    c1 :> (Twice("assetAddString", {1}) @@ Once("assetAddString", {2, 3})) @@
    c2 :> (Once("assetFind", {0, OldAsset.key, 4}) @@ Twice("assetFindName", {4})
           @@ Once("listAdd", {1}) @@ Once("listFind", {1})
           @@ Once("listNext", {OldList, 5}))
MCMaxAsks == c1 :> 2 @@ c2 :> 2
MCMaxInFlight == c1 :> 1 @@ c2 :> 2
=============================================================================
