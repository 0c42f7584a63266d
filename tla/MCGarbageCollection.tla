-------------------------- MODULE MCGarbageCollection --------------------------
(* GarbageCollection over the contents that tell its cases apart: an image     *)
(* index with one manifest, that manifest with one layer, and a second version *)
(* of the image that shares nothing with the first.                            *)
EXTENDS GarbageCollection, TLC

CONSTANTS list, image, layer, update

Named(table, d) == IF d \in DOMAIN table THEN table[d] ELSE {}
ContentLeaves == [d \in Digests |-> Named(image :> {layer}, d)]
ContentChildren == [d \in Digests |-> Named(list :> {image}, d)]

Symmetry == Permutations(Tasks)
=============================================================================
