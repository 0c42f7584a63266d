---------------------------- MODULE MCManifestCache ----------------------------
(* ManifestCache with a manifest that only some clients accept and one that    *)
(* names no type, which suits everybody; each client accepts one type.         *)
EXTENDS ManifestCache, TLC

CONSTANTS foreign, bare, docker, oci

Types == [d \in Digests |->
    IF d = foreign THEN oci ELSE NoType]
EitherType == {{m} : m \in MediaTypes}

TaskSymmetry == Permutations(Tasks)
=============================================================================
