------------------------------ MODULE MCTagIndex ------------------------------
(* TagIndex on small instances.  The job of an idle task is read by nobody, so *)
(* one initial value of it stands for all.                                     *)
EXTENDS TagIndex, TLC

SmallInit ==
    /\ Init
    /\ job = [t \in Tasks |-> [reference |-> CHOOSE r \in References : TRUE, digest |-> NoDigest]]

SmallSpec == SmallInit /\ [][Next]_vars

Symmetry == Permutations(Tasks) \union Permutations(Digests)
=============================================================================
