--------------------------- MODULE StorageBackend ---------------------------
(***************************************************************************)
(* The vocabulary shared by the models of ReplicaT4: the indexed list of   *)
(* storage backends a MultiBackend drives (src/src/storage/multi_backend/  *)
(* mod.rs) and which implementation of the StorageBackend trait stands at  *)
(* each index.                                                             *)
(*                                                                         *)
(* The models follow ONE object key.  No operation of MultiBackend other   *)
(* than LIST looks at two keys, so what a backend holds is one value: the  *)
(* object under the key, or Nil.                                           *)
(***************************************************************************)
EXTENDS Integers

CONSTANTS
    NumBackends,  \* length of MultiBackend.backends
    S3Backends,   \* indices served by S3Backend, the others by InMemoryStorage
    Nil           \* "no object under the key"

\* The indices of the vector MultiBackend.backends.
Backends == 0 .. NumBackends - 1

\* MultiBackend::new wants a non-empty list (mod.rs:27).
ASSUME BackendsAssumption ==
    /\ NumBackends \in Nat \ {0}
    /\ S3Backends \subseteq Backends

(***************************************************************************)
(* A call to a remote S3 service can fail, or be executed without its      *)
(* answer ever arriving.  A call to InMemoryStorage takes a lock and       *)
(* always succeeds (a PUT fails only if its own body does), and what it    *)
(* stored is lost with the process.                                        *)
(***************************************************************************)
IsRemote(b) == b \in S3Backends

=============================================================================
