-------------------------- MODULE MCSandboxProviders --------------------------
(* Small instances of SandboxProviders for TLC. *)
EXTENDS SandboxProviders, TLC

CONSTANTS c1, c2, k1

OneKey == [c \in Callers |-> k1]
Symmetry == Permutations(Callers) \cup Permutations(Specs)
=============================================================================
