----------------------------- MODULE MCStartUp -----------------------------
(* Instances of StartUp for TLC. *)
EXTENDS StartUp, TLC

\* Names are only compared.
NameSymmetry == Permutations(Names)

=============================================================================
