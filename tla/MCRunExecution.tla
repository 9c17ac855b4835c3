-------------------------- MODULE MCRunExecution --------------------------
EXTENDS RunExecution, TLC

Symmetry == Permutations(Runs) \cup Permutations(Workers)
==========================================================================
