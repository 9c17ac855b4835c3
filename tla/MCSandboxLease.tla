---------------------------- MODULE MCSandboxLease ----------------------------
(* Small instances of SandboxLease for TLC. *)
EXTENDS SandboxLease, TLC

Symmetry == Permutations(Builds) \cup Permutations(Reconcilers)
=============================================================================
