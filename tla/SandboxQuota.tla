----------------------------- MODULE SandboxQuota -----------------------------
(***************************************************************************)
(* Reservation of sandbox leases of one workspace: the Redis lock with a   *)
(* time to live (sandbox/WorkspaceQuotaLock.ts) around the checks and the  *)
(* insertion of QuotaScheduler.reserve (sandbox/QuotaScheduler.ts), while  *)
(* services and reconcilers change the states of leases without the lock.  *)
(*                                                                         *)
(* A request is one call of reserve. Requests of one provisioning key are  *)
(* attempts at the same lease. One action is one Redis command or one      *)
(* group of MongoDB reads.                                                 *)
(***************************************************************************)
EXTENDS Naturals, FiniteSets, Functions

CONSTANTS
  Requests, LeaseKeys, Branches, Projects,
  LeaseKey,                       \* the provisioning key of a request
  BranchOf, ProjectOf,            \* of the lease of a key
  PurposeOf,                      \* "build" or "preview"
  CpuOf,                          \* of its resource profile (memory and disk alike)
  ProjectLimit, WorkspaceLimit,   \* concurrent leases of a purpose
  MaxCpu,                         \* of the leases of the workspace
  NoToken,                        \* the lock is free
  MaxQuotaFaults                  \* bound: deaths, Redis errors, early expiries

Purposes == {"build", "preview"}

ASSUME QuotaAssumption ==
  /\ IsFiniteSet(LeaseKeys) /\ NoToken \notin Requests /\ MaxQuotaFaults \in Nat
  /\ LeaseKey \in [Requests -> LeaseKeys]
  /\ BranchOf \in [LeaseKeys -> Branches] /\ ProjectOf \in [LeaseKeys -> Projects]
  /\ PurposeOf \in [LeaseKeys -> Purposes]
  /\ CpuOf \in [LeaseKeys -> Nat \ {0}] /\ MaxCpu \in Nat
  /\ ProjectLimit \in [Purposes -> Nat] /\ WorkspaceLimit \in [Purposes -> Nat]

VARIABLES
  lock,        \* the token stored under sandbox-quota:<workspace>, or NoToken
  request,     \* the step of each call, and its outcome
  lost,        \* the calls whose renewal found the lock gone
  lease,       \* the state of the lease of each provisioning key
  lapsed,      \* history: did the protection of a count end before its insertion?
  quotaFaults  \* counter bounded by MaxQuotaFaults

quotaVars == <<lock, request, lost, lease, lapsed, quotaFaults>>

-----------------------------------------------------------------------------

ReserveSteps == {"idle", "wait", "scope", "existing", "busy", "count", "assert",
          "insert", "release", "done", "dead"}
Outcomes == {"none", "lease", "SANDBOX_BRANCH_BUSY", "SANDBOX_QUOTA_EXCEEDED",
             "SANDBOX_POLICY_DENIED", "SANDBOX_SCHEDULER_UNAVAILABLE"}

\* "used" stands for reserved, provisioning, ready and running, "freed" for
\* failed and lost.
LeaseStates == {"none", "used", "freed", "terminating", "terminated"}

QuotaTypeOK ==
  /\ lock \in Requests \cup {NoToken}
  /\ request \in [Requests -> [at: ReserveSteps, out: Outcomes]]
  /\ lost \subseteq Requests
  /\ lease \in [LeaseKeys -> LeaseStates]
  /\ lapsed \in BOOLEAN /\ quotaFaults \in 0 .. MaxQuotaFaults

QuotaInit ==
  /\ lock = NoToken
  /\ request = [r \in Requests |-> [at |-> "idle", out |-> "none"]]
  /\ lost = {}
  /\ lease = [k \in LeaseKeys |-> "none"]
  /\ lapsed = FALSE /\ quotaFaults = 0

AtStep(r, s) == request[r].at = s
ToStep(r, s) == request' = [request EXCEPT ![r].at = s]
\* The callback returns or throws; withLock releases in its finally block.
Leave(r, out) == request' = [request EXCEPT ![r] = [at |-> "release", out |-> out]]
Inside(r) == request[r].at \in {"scope", "existing", "busy", "count", "assert",
                                "insert", "release"}
QuotaFault == quotaFaults < MaxQuotaFaults /\ quotaFaults' = quotaFaults + 1

OCCUPYING_SANDBOX_STATES == {"used", "terminating"}
Occupying == {k \in LeaseKeys : lease[k] \in OCCUPYING_SANDBOX_STATES}
BranchBusy(k) ==
  /\ PurposeOf[k] = "build"
  /\ \E j \in Occupying \ {k} : PurposeOf[j] = "build" /\ BranchOf[j] = BranchOf[k]

InWorkspace(keys, k) == {j \in keys : PurposeOf[j] = PurposeOf[k]}
InProject(keys, k) == {j \in InWorkspace(keys, k) : ProjectOf[j] = ProjectOf[k]}
Cpu(keys) == FoldFunctionOnSet(+, 0, CpuOf, keys)
\* The leases occupying the quota, k among them, are within every limit.
Within(keys, k) ==
  /\ Cardinality(InProject(keys, k)) <= ProjectLimit[PurposeOf[k]]
  /\ Cardinality(InWorkspace(keys, k)) <= WorkspaceLimit[PurposeOf[k]]
  /\ Cpu(keys) <= MaxCpu

-----------------------------------------------------------------------------
(* WorkspaceQuotaLock.withLock.                                            *)

Call(r) ==
  /\ AtStep(r, "idle") /\ ToStep(r, "wait")
  /\ UNCHANGED <<lock, lost, lease, lapsed, quotaFaults>>

\* SET NX PX; a token that another call stored is left alone and asked again.
Acquire(r) ==
  /\ AtStep(r, "wait") /\ lock = NoToken
  /\ lock' = r /\ ToStep(r, "scope")
  /\ UNCHANGED <<lost, lease, lapsed, quotaFaults>>

\* The wait is over: nothing was acquired, so nothing is released.
WaitTimesOut(r) ==
  /\ AtStep(r, "wait") /\ lock # NoToken
  /\ request' = [request EXCEPT ![r] =
                   [at |-> "done", out |-> "SANDBOX_SCHEDULER_UNAVAILABLE"]]
  /\ UNCHANGED <<lock, lost, lease, lapsed, quotaFaults>>

\* The command fails, before or after Redis has executed it.
AcquireFails(r) ==
  /\ AtStep(r, "wait") /\ QuotaFault
  /\ lock' \in {lock, IF lock = NoToken THEN r ELSE lock}
  /\ request' = [request EXCEPT ![r] =
                   [at |-> "done", out |-> "SANDBOX_SCHEDULER_UNAVAILABLE"]]
  /\ UNCHANGED <<lost, lease, lapsed>>

\* The timer renews the time to live if the token is still the caller's.
Renew(r) ==
  /\ Inside(r) /\ r \notin lost /\ lock # r
  /\ lost' = lost \cup {r}
  /\ UNCHANGED <<lock, request, lease, lapsed, quotaFaults>>

RenewFails(r) ==
  /\ Inside(r) /\ r \notin lost /\ QuotaFault
  /\ lost' = lost \cup {r}
  /\ UNCHANGED <<lock, request, lease, lapsed>>

\* The script deletes the key if it holds the caller's token; errors are
\* swallowed and leave the lock to its time to live.
Release(r) ==
  /\ AtStep(r, "release")
  /\ lock' = (IF lock = r THEN NoToken ELSE lock)
  /\ ToStep(r, "done")
  /\ UNCHANGED <<lost, lease, lapsed, quotaFaults>>

ReleaseFails(r) ==
  /\ AtStep(r, "release") /\ QuotaFault /\ ToStep(r, "done")
  /\ UNCHANGED <<lock, lost, lease, lapsed>>

\* The time to live runs out: nobody renews the lock of a call that is dead or
\* over, or renewals come too late.
Expire ==
  /\ lock # NoToken
  /\ IF Inside(lock) THEN QuotaFault ELSE UNCHANGED quotaFaults
  /\ lapsed' = (lapsed \/ AtStep(lock, "insert"))
  /\ lock' = NoToken
  /\ UNCHANGED <<request, lost, lease>>

-----------------------------------------------------------------------------
(* The callback of QuotaScheduler.reserve.                                 *)

\* Request shape, workspace, project, branch and membership.
CheckScope(r) ==
  /\ AtStep(r, "scope")
  /\ ToStep(r, "existing") \/ Leave(r, "SANDBOX_POLICY_DENIED")
  /\ UNCHANGED <<lock, lost, lease, lapsed, quotaFaults>>

\* The lease of an earlier attempt is reused without another check: leases are
\* never deleted, so createReserved finds it again.
FindExisting(r) ==
  /\ AtStep(r, "existing")
  /\ IF lease[LeaseKey[r]] # "none" THEN Leave(r, "lease") ELSE ToStep(r, "busy")
  /\ UNCHANGED <<lock, lost, lease, lapsed, quotaFaults>>

CheckBranch(r) ==
  /\ AtStep(r, "busy")
  /\ IF BranchBusy(LeaseKey[r]) THEN Leave(r, "SANDBOX_BRANCH_BUSY") ELSE ToStep(r, "count")
  /\ UNCHANGED <<lock, lost, lease, lapsed, quotaFaults>>

Count(r) ==
  /\ AtStep(r, "count")
  /\ IF Within(Occupying \cup {LeaseKey[r]}, LeaseKey[r])
     THEN ToStep(r, "assert") ELSE Leave(r, "SANDBOX_QUOTA_EXCEEDED")
  /\ UNCHANGED <<lock, lost, lease, lapsed, quotaFaults>>

\* Mutant: the reservation is made without asking for the lock again.
AssertNothing(r) ==
  /\ AtStep(r, "assert") /\ ToStep(r, "insert")
  /\ UNCHANGED <<lock, lost, lease, lapsed, quotaFaults>>

AssertHeld(r) ==
  /\ AtStep(r, "assert")
  /\ IF r \in lost \/ lock # r THEN Leave(r, "SANDBOX_SCHEDULER_UNAVAILABLE")
                               ELSE ToStep(r, "insert")
  /\ UNCHANGED <<lock, lost, lease, lapsed, quotaFaults>>

VerifyFails(r) ==
  /\ AtStep(r, "assert") /\ QuotaFault /\ Leave(r, "SANDBOX_SCHEDULER_UNAVAILABLE")
  /\ UNCHANGED <<lock, lost, lease, lapsed>>

\* createReserved: the lease of the key, or a new one unless the unique index
\* on the branch refuses it.
CreateReserved(r) ==
  /\ AtStep(r, "insert")
  /\ LET k == LeaseKey[r] IN
     IF lease[k] # "none" THEN Leave(r, "lease") /\ UNCHANGED lease
     ELSE IF BranchBusy(k) THEN Leave(r, "SANDBOX_BRANCH_BUSY") /\ UNCHANGED lease
     ELSE Leave(r, "lease") /\ lease' = [lease EXCEPT ![k] = "used"]
  /\ UNCHANGED <<lock, lost, lapsed, quotaFaults>>

Die(r) ==
  /\ request[r].at \notin {"idle", "done", "dead"} /\ QuotaFault /\ ToStep(r, "dead")
  /\ UNCHANGED <<lock, lost, lease, lapsed>>

-----------------------------------------------------------------------------
(* The life of a lease goes on without the lock (SandboxLease).            *)

LeaseBecomes(k, from, to) ==
  /\ lease[k] \in from
  /\ lease' = [lease EXCEPT ![k] = to]
  /\ UNCHANGED <<lock, request, lost, quotaFaults>>

FailOrLose(k) == LeaseBecomes(k, {"used"}, "freed") /\ UNCHANGED lapsed
StartTermination(k) == LeaseBecomes(k, {"used"}, "terminating") /\ UNCHANGED lapsed
\* A freed lease occupies its branch and the quota again while terminating.
Reoccupy(k) ==
  /\ ~BranchBusy(k) /\ LeaseBecomes(k, {"freed"}, "terminating")
  /\ lapsed' = (lapsed \/ \E r \in Requests : request[r].at \in {"assert", "insert"})
Terminated(k) ==
  LeaseBecomes(k, {"terminating", "freed"}, "terminated") /\ UNCHANGED lapsed

-----------------------------------------------------------------------------

Reserve(r) ==
  \/ Call(r) \/ Acquire(r) \/ WaitTimesOut(r) \/ CheckScope(r) \/ FindExisting(r)
  \/ CheckBranch(r) \/ Count(r) \/ AssertHeld(r) \/ CreateReserved(r)
  \/ Release(r)

RedisFails(r) ==
  AcquireFails(r) \/ RenewFails(r) \/ VerifyFails(r) \/ ReleaseFails(r)

LeaseStep(k) == 
  FailOrLose(k) \/ StartTermination(k) \/ Reoccupy(k) \/ Terminated(k)

QuotaNext ==
  \/ \E r \in Requests : Reserve(r) \/ Renew(r) \/ RedisFails(r) \/ Die(r)
  \/ Expire
  \/ \E k \in LeaseKeys : LeaseStep(k)

QuotaSpec == QuotaInit /\ [][QuotaNext]_quotaVars

-----------------------------------------------------------------------------
(* Properties.                                                             *)

Inserts(k) == lease[k] = "none" /\ lease'[k] = "used"

\* A reservation never takes a project or the workspace past its limit of
\* occupying leases and CPUs, with concurrent calls, dead holders, early expiry and
\* Redis errors; except where the lock expires between assertHeld and the
\* insertion, or a failed lease that starts to terminate counts again between
\* a count and its insertion: see NoOversell.
CountedUnderLock ==
  [][\A k \in LeaseKeys : Inserts(k) /\ ~lapsed => Within(Occupying', k)]_quotaVars

\* What docs/superpowers/specs/2026-07-26-sandbox-core-design.md:760 promises:
\* quotas are not oversold under concurrency.
NoOversell == [][\A k \in LeaseKeys : Inserts(k) => Within(Occupying', k)]_quotaVars

=============================================================================
