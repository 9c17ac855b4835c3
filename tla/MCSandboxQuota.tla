---------------------------- MODULE MCSandboxQuota ----------------------------
(* A small instance of SandboxQuota for TLC: two attempts at the build of a  *)
(* branch and a build of another branch of the project; limits for one.      *)
EXTENDS SandboxQuota, TLC

CONSTANTS r1, r2, r3, k1, k2, b1, b2, p1

MCKeyOf == r1 :> k1 @@ r2 :> k1 @@ r3 :> k2
MCBranchOf == k1 :> b1 @@ k2 :> b2
MCProjectOf == [k \in LeaseKeys |-> p1]
MCPurposeOf == [k \in LeaseKeys |-> "build"]
MCCpuOf == k1 :> 1 @@ k2 :> 2
OneEach == [p \in Purposes |-> 1]
TwoEach == [p \in Purposes |-> 2]
=============================================================================
