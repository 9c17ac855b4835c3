---------------------------- MODULE MCWorkspace ----------------------------
EXTENDS Workspace

CONSTANTS c1, c2, c3

MCChats == {c1, c2, c3}
MCFirstChats == {c1, c2}
\* c1 has a version, c2 has no run yet.
MCFirstRuns == [r \in {1} |-> [chat |-> c1, status |-> "completed"]]
=============================================================================
