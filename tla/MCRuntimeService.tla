-------------------------- MODULE MCRuntimeService --------------------------
(***************************************************************************)
(* RuntimeService on small instances.                                      *)
(***************************************************************************)
EXTENDS RuntimeLifecycle

\* Ids are only compared for equality, so permuting them changes nothing.
Symmetry == Permutations(Rpc) \cup Permutations(Cid) \cup Permutations(Pid)
=============================================================================
