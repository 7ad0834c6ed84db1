------------------------ MODULE MCAsyncReplication ------------------------
(* Instances of AsyncReplication for TLC. *)
EXTENDS AsyncReplication, TLC

\* The bodies of two PUTs, and two DELETEs, are interchangeable.
RequestSymmetry == Permutations(Puts) \cup Permutations(Deletes)

=============================================================================
