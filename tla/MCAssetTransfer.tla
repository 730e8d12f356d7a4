-------------------------- MODULE MCAssetTransfer --------------------------
EXTENDS AssetTransfer, TLC
CONSTANTS c1, c2
MCFile == {1, 2, 3}
(* File 1 has a chunk and a bit, file 2 is exactly one chunk.              *)
MCSize == 1 :> 3 @@ 2 :> 2 @@ 3 :> 1
(* One client adds the files; the other one loads them, and adds one too.  *)
MCAsks == {c1} \X {"add"} \X File \cup {<<c2, "add", 1>>}
          \cup {c2} \X {"load"} \X File
=============================================================================
