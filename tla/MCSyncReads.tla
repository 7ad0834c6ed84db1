---------------------------- MODULE MCSyncReads ----------------------------
(* Instances of SyncReads for TLC. *)
EXTENDS SyncReads, TLC

\* The bodies of two PUTs are interchangeable.
PutSymmetry == Permutations(Puts)

=============================================================================
