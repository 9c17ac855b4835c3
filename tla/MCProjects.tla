------------------------------ MODULE MCProjects ------------------------------
(* A small instance of Projects for TLC: one user with a project, a chat and *)
(* a run of the earlier layout, another user and project to be made.         *)
EXTENDS Projects

CONSTANTS u1, u2, p1, p2, c1, c2, r1

MCLegacyUsers == <<u1>>
MCLegacyRuns == r1 :> p1
\* A run whose project was deleted before the migration.
OrphanRuns == r1 :> p2
=============================================================================
