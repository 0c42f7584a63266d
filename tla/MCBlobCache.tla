----------------------------- MODULE MCBlobCache -----------------------------
(* BlobCache on small instances.  The initial key of an idle slot is read by   *)
(* nobody, so one value of it stands for all.  Task slots and allocation       *)
(* addresses are interchangeable: the safety run folds their permutations.     *)
EXTENDS BlobCache, TLC

SmallInit == Init /\ key = [c \in Callers |-> CHOOSE k \in Keys : TRUE]

SafetySpec == SmallInit /\ [][Next]_vars

LiveSpec == SafetySpec /\ Fairness

Symmetry == Permutations(Callers) \union Permutations(Entries)
=============================================================================
