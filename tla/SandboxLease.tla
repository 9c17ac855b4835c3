----------------------------- MODULE SandboxLease -----------------------------
(***************************************************************************)
(* Build sandboxes of one ProjectBranch: the SandboxLease documents        *)
(* (sandbox/SandboxRepository.ts), the service through which a validator   *)
(* creates, uses and terminates its sandbox (sandbox/SandboxService.ts),   *)
(* the reconcilers that every worker runs beside it                        *)
(* (sandbox/SandboxReconciler.ts) and the resources of the provider        *)
(* (sandbox/providers/DaytonaProvider.ts).                                 *)
(*                                                                         *)
(* Every action is one round trip to MongoDB or to the provider. A step    *)
(* that inspects a resource and acts only if it is missing is one action:  *)
(* a missing resource never comes back. A build is one provisioning key    *)
(* (run and attempt), so it names its lease and its validator.             *)
(***************************************************************************)
EXTENDS Naturals, FiniteSets

CONSTANTS
  Builds,         \* provisioning keys, all on one branch
  Reconcilers,    \* SandboxReconciler instances, one per worker process
  None,           \* no build
  MaxResources,   \* bound: resources the provider ever creates
  MaxDeaths,      \* bound: resources that disappear by themselves
  MaxFaults,      \* bound: crashes and errors nobody catches
  LongGrace       \* does the orphan grace period outlast any provisioning?

ASSUME SandboxLeaseAssumption ==
  /\ None \notin Builds /\ Builds \cap Reconcilers = {}
  /\ MaxResources \in Nat /\ MaxDeaths \in Nat /\ MaxFaults \in Nat
  /\ LongGrace \in BOOLEAN

VARIABLES
  lease,       \* SandboxLease: state, externalId, heartbeat and expiry
  resource,    \* provider resources, numbered in the order of creation
  actor,       \* what each validator and reconciler is doing
  deaths, faults  \* counters bounded by the constants

vars == <<lease, resource, actor, deaths, faults>>

-----------------------------------------------------------------------------

State == {"reserved", "provisioning", "ready", "running", "terminating",
          "terminated", "failed", "lost"}

\* Mutant: a lease frees the branch as soon as it is being terminated.
OccupyingUntilTerminating == {"reserved", "provisioning", "ready", "running"}
\* States that occupy quota and the branch (partial unique index).
Occupying == {"reserved", "provisioning", "ready", "running", "terminating"}

Actors == Builds \cup Reconcilers
Resources == 1 .. MaxResources
NoRef == 0

Step == {"idle", "start", "provision", "lookup", "create", "bind", "resume",
         "connect", "markReady", "cleanup", "cleanupDestroy", "cleanupSettle",
         "run", "exec", "terminate", "destroy", "confirm", "done",
         "failReserved", "claimStale", "checkReady", "checkRunning",
         "checkBound", "list", "destroyDuplicates", "claim", "destroyOrphan"}

NoLease == [state |-> "none", ext |-> NoRef, fresh |-> FALSE,
            expired |-> FALSE]

\* An actor between two jobs; a validator starts and ends with its own build.
Idle == [pc |-> "idle", build |-> None, ref |-> NoRef, dups |-> {}]
Validator(b, l) == [Idle EXCEPT !.pc = l, !.build = b]

Become(p, s) == actor' = [actor EXCEPT ![p] = s]
Goto(p, l) == Become(p, [actor[p] EXCEPT !.pc = l])
GotoWith(p, l, r) == Become(p, [actor[p] EXCEPT !.pc = l, !.ref = r])
Leave(p) == Become(p, IF p \in Builds THEN Validator(p, "done") ELSE Idle)

\* repository.transition: compare-and-set on the state.
transition(b, from, to) ==
  IF lease[b].state \in from THEN [lease EXCEPT ![b].state = to] ELSE lease

\* Another build of the branch occupies it: Mongo rejects a second one.
Busy(b) == \E c \in Builds \ {b} : lease[c].state \in Occupying

Present(r) == r # NoRef /\ resource[r].state \in {"live", "destroying"}
Found(b) == {r \in Resources : resource[r].key = b /\ Present(r)}
Oldest(r, S) == r \in S /\ \A q \in S : r <= q
Fresh(r) == resource[r].state = "none" /\ \A q \in 1 .. r - 1 :
              resource[q].state # "none"

\* provider.destroy: the resource is gone at once or later, whatever the
\* reply says; after an error it may also be untouched.
Reply == {"done", "pending", "error"}
Destroy(r, reply) ==
  \E s \in {"live", "destroying", "gone"} :
    /\ resource[r].state = "gone" => s = "gone"
    /\ s = "live" => reply = "error" /\ resource[r].state = "live"
    /\ resource' = [resource EXCEPT ![r].state = s]

Init ==
  /\ lease = [b \in Builds |-> NoLease]
  /\ resource = [r \in Resources |->
                   [key |-> None, state |-> "none"]]
  /\ actor = [p \in Actors |->
                IF p \in Builds THEN Validator(p, "start") ELSE Idle]
  /\ deaths = 0 /\ faults = 0

-----------------------------------------------------------------------------
(* createBuildSandbox and resumeProvisioning *)

\* QuotaScheduler.reserve: the unique index admits one build per branch.
Reserve(b) ==
  /\ actor[b].pc = "start" /\ lease[b].state = "none"
  /\ IF Busy(b)
       THEN Leave(b) /\ UNCHANGED lease
       ELSE /\ lease' = [lease EXCEPT ![b].state = "reserved"]
            /\ Goto(b, "provision")
  /\ UNCHANGED <<resource, deaths, faults>>

Provision(b) ==
  /\ actor[b].pc = "provision"
  /\ lease' = transition(b, {"reserved"}, "provisioning")
  /\ IF lease[b].state = "reserved" THEN Goto(b, "lookup") ELSE Leave(b)
  /\ UNCHANGED <<resource, deaths, faults>>

\* provider.create first looks for a resource with the provisioning key.
Lookup(p) ==
  LET found == Found(actor[p].build) IN
  /\ actor[p].pc = "lookup"
  /\ \/ found = {} /\ Goto(p, "create")
     \/ \E r \in Resources : Oldest(r, found) /\ GotoWith(p, "bind", r)
  /\ UNCHANGED <<lease, resource, deaths, faults>>

\* The provider creates the resource; its answer arrives, is lost, or is an
\* error of the set-up after creation that is taken for a rejection.
Create(p) ==
  LET b == actor[p].build IN
  /\ actor[p].pc = "create"
  /\ \E r \in Resources :
       /\ Fresh(r)
       /\ resource' = [resource EXCEPT ![r] =
                         [key |-> b, state |-> "live"]]
       /\ \/ GotoWith(p, "bind", r) /\ UNCHANGED lease
          \/ Leave(p) /\ UNCHANGED lease
          \/ Leave(p) /\ p \in Builds
             /\ lease' = transition(b, {"provisioning"}, "failed")
  /\ UNCHANGED <<deaths, faults>>

\* Nothing was created: the validator fails the lease, a reconciler throws.
CreateRejected(p) ==
  /\ actor[p].pc \in {"lookup", "create"}
  /\ lease' = IF p \in Builds
                THEN transition(p, {"provisioning"}, "failed") ELSE lease
  /\ Leave(p)
  /\ UNCHANGED <<resource, deaths, faults>>

\* bindExternalId; the loser of a race goes on with what the lease says (the
\* reconciler) or gives up (the validator).
Bind(p) ==
  LET b == actor[p].build IN
  /\ actor[p].pc = "bind"
  /\ lease' = IF lease[b].state = "provisioning" /\ lease[b].ext = NoRef
                THEN [lease EXCEPT ![b].ext = actor[p].ref] ELSE lease
  /\ CASE p \in Builds /\ lease'[b].ext = actor[p].ref -> Goto(p, "resume")
       [] p \in Reconcilers /\ lease'[b].ext # NoRef -> GotoWith(p, "claim", NoRef)
       [] OTHER -> Leave(p)
  /\ UNCHANGED <<resource, deaths, faults>>

\* resumeProvisioning, entered by the validator and by reconcilers.
Resume(p) ==
  LET l == lease[actor[p].build] IN
  /\ actor[p].pc = "resume"
  /\ CASE l.state = "provisioning" /\ l.ext # NoRef -> GotoWith(p, "connect", l.ext)
       [] l.state \in {"ready", "running"} /\ p \in Builds -> Goto(p, "run")
       [] OTHER -> Leave(p)
  /\ UNCHANGED <<lease, resource, deaths, faults>>

\* connect, waitUntilReady and writeFiles.
Connect(p) ==
  /\ actor[p].pc = "connect"
  /\ \/ resource[actor[p].ref].state = "live" /\ Goto(p, "markReady")
     \/ Goto(p, "cleanup")
  /\ UNCHANGED <<lease, resource, deaths, faults>>

MarkReady(p) ==
  LET b == actor[p].build IN
  /\ actor[p].pc = "markReady"
  /\ lease' = transition(b, {"provisioning"}, "ready")
  /\ IF p \in Builds THEN Goto(p, "run") ELSE Leave(p)
  /\ UNCHANGED <<resource, deaths, faults>>

\* cleanupFailedProvisioning: whatever the transition found, the resource is
\* destroyed and a terminating lease is settled.
Cleanup(p) ==
  /\ actor[p].pc = "cleanup"
  /\ lease' = transition(actor[p].build, {"provisioning"}, "terminating")
  /\ Goto(p, "cleanupDestroy")
  /\ UNCHANGED <<resource, deaths, faults>>

CleanupDestroy(p) ==
  /\ actor[p].pc = "cleanupDestroy"
  /\ \E reply \in Reply :
       /\ Destroy(actor[p].ref, reply)
       /\ IF reply = "done" THEN Goto(p, "cleanupSettle") ELSE Leave(p)
  /\ UNCHANGED <<lease, deaths, faults>>

CleanupSettle(p) ==
  /\ actor[p].pc = "cleanupSettle"
  /\ lease' = transition(actor[p].build, {"terminating"}, "terminated")
  /\ Leave(p)
  /\ UNCHANGED <<resource, deaths, faults>>

-----------------------------------------------------------------------------
(* runBuildCommand and terminate *)

\* A command is started on a live resource of a ready or running lease, or
\* the lease is found lost, or the call fails; then the validator terminates.
RunCommand(b) ==
  LET l == lease[b]
      usable == l.state \in {"ready", "running"} /\ l.ext # NoRef
  IN
  /\ actor[b].pc = "run"
  /\ \/ /\ usable /\ resource[l.ext].state = "live"
        /\ lease' = [lease EXCEPT ![b].state = "running", ![b].fresh = TRUE]
        /\ GotoWith(b, "exec", l.ext)
     \/ /\ usable /\ resource[l.ext].state = "gone"
        /\ lease' = transition(b, {l.state}, "lost")
        /\ Goto(b, "terminate")
     \/ Goto(b, "terminate") /\ UNCHANGED lease
  /\ UNCHANGED <<resource, deaths, faults>>

\* heartbeatRunning; losing the lease or the resource aborts the command.
Heartbeat(b) ==
  /\ actor[b].pc = "exec"
  /\ IF lease[b].state = "running" /\ resource[actor[b].ref].state = "live"
       THEN lease' = [lease EXCEPT ![b].fresh = TRUE] /\ UNCHANGED actor
       ELSE Goto(b, "terminate") /\ UNCHANGED lease
  /\ UNCHANGED <<resource, deaths, faults>>

\* The command ends; another one follows, or the build is over.
EndCommand(b) ==
  /\ actor[b].pc = "exec"
  /\ Goto(b, "run") \/ Goto(b, "terminate")
  /\ UNCHANGED <<lease, resource, deaths, faults>>

\* terminate. A failed or lost lease enters the index again, where another
\* build may have taken its place: then Mongo refuses and the call throws. So
\* it does when its own compare-and-set is lost, which is left to Throw.
Terminate(p) ==
  LET b == actor[p].build
      refused == lease[b].state \in {"failed", "lost"} /\ Busy(b)
  IN
  /\ actor[p].pc = "terminate"
  /\ IF lease[b].state = "terminated" \/ refused
       THEN Leave(p) /\ UNCHANGED lease
       ELSE /\ lease' = [lease EXCEPT ![b].state = "terminating"]
            /\ GotoWith(p, IF lease[b].ext = NoRef THEN "confirm" ELSE "destroy",
                        lease[b].ext)
  /\ UNCHANGED <<resource, deaths, faults>>

DestroyBound(p) ==
  /\ actor[p].pc = "destroy"
  /\ \E reply \in Reply :
       /\ Destroy(actor[p].ref, reply)
       /\ IF reply = "done" THEN Goto(p, "confirm") ELSE Leave(p)
  /\ UNCHANGED <<lease, deaths, faults>>

\* Mutant: the receipt of the destruction is enough.
ConfirmBlind(p) ==
  /\ actor[p].pc = "confirm"
  /\ lease' = transition(actor[p].build, {"terminating"}, "terminated")
  /\ Leave(p)
  /\ UNCHANGED <<resource, deaths, faults>>

\* inspect must find the resource missing before the lease is terminated.
Confirm(p) ==
  LET r == actor[p].ref IN
  /\ actor[p].pc = "confirm"
  /\ lease' = IF ~Present(r)
                THEN transition(actor[p].build, {"terminating"}, "terminated")
                ELSE lease
  /\ Leave(p)
  /\ UNCHANGED <<resource, deaths, faults>>

-----------------------------------------------------------------------------
(* SandboxReconciler *)

\* What reconcileLease does with the copy it was given.
Decision(l) ==
  CASE l.state \in {"failed", "lost", "terminating"} -> "terminate"
    [] l.state = "reserved" -> "failReserved"
    [] l.expired -> "terminate"
    [] l.state = "provisioning" /\ l.ext = NoRef -> "list"
    [] l.state = "provisioning" -> "checkBound"
    [] l.state = "running" /\ ~l.fresh -> "claimStale"
    [] l.state = "running" -> "checkRunning"
    [] l.state = "ready" -> "checkReady"

\* Mutant: only leases that occupy the branch are looked at.
ScanOccupying(p, b) ==
  LET l == lease[b] IN
  /\ p \in Reconcilers /\ actor[p].pc = "idle"
  /\ l.state \in Occupying
  /\ l.state = "reserved" => l.expired
  /\ Decision(l) \in {"checkReady", "checkRunning"} => l.ext # NoRef
  /\ Become(p, [Idle EXCEPT !.pc = Decision(l), !.build = b, !.ref = l.ext])
  /\ UNCHANGED <<lease, resource, deaths, faults>>

\* reconcile reads a batch of leases and works through the copies: the lease
\* may have changed when the decision is carried out. A reservation is left
\* alone until it expires, a lease in use without a resource until then too.
\* (One copy at a time: a pass that carries several is that
\* of several reconcilers.)
Scan(p, b) ==
  LET l == lease[b] IN
  /\ p \in Reconcilers /\ actor[p].pc = "idle"
  /\ l.state \notin {"none", "terminated"}
  /\ l.state = "reserved" => l.expired
  /\ Decision(l) \in {"checkReady", "checkRunning"} => l.ext # NoRef
  /\ Become(p, [Idle EXCEPT !.pc = Decision(l), !.build = b, !.ref = l.ext])
  /\ UNCHANGED <<lease, resource, deaths, faults>>

FailReserved(p) ==
  /\ actor[p].pc = "failReserved"
  /\ lease' = transition(actor[p].build, {"reserved"}, "failed")
  /\ Leave(p)
  /\ UNCHANGED <<resource, deaths, faults>>

\* Mutant: only the state is compared.
ClaimStaleBlind(p) ==
  LET b == actor[p].build IN
  /\ actor[p].pc = "claimStale"
  /\ IF lease[b].state = "running"
       THEN /\ lease' = [lease EXCEPT ![b].state = "terminating"]
            /\ Goto(p, "terminate")
       ELSE Leave(p) /\ UNCHANGED lease
  /\ UNCHANGED <<resource, deaths, faults>>

\* claimStaleRunning compares the heartbeat again.
ClaimStale(p) ==
  LET b == actor[p].build IN
  /\ actor[p].pc = "claimStale"
  /\ IF lease[b].state = "running" /\ ~lease[b].fresh
       THEN /\ lease' = [lease EXCEPT ![b].state = "terminating"]
            /\ Goto(p, "terminate")
       ELSE Leave(p) /\ UNCHANGED lease
  /\ UNCHANGED <<resource, deaths, faults>>

\* Mutant: a failed inspection counts as a missing resource.
CheckUsedOnError(p, from) ==
  /\ actor[p].pc = IF from = "ready" THEN "checkReady" ELSE "checkRunning"
  /\ lease' = transition(actor[p].build, {from}, "lost")
  /\ Leave(p)
  /\ UNCHANGED <<resource, deaths, faults>>

\* A ready or running lease whose resource is missing is lost.
CheckUsed(p, from) ==
  /\ actor[p].pc = IF from = "ready" THEN "checkReady" ELSE "checkRunning"
  /\ lease' = IF Present(actor[p].ref) THEN lease
                ELSE transition(actor[p].build, {from}, "lost")
  /\ Leave(p)
  /\ UNCHANGED <<resource, deaths, faults>>

\* A missing resource is unbound (clearExternalId) before a new one is sought.
CheckBound(p) ==
  LET b == actor[p].build
      r == actor[p].ref
  IN
  /\ actor[p].pc = "checkBound"
  /\ CASE Present(r) -> GotoWith(p, "claim", NoRef) /\ UNCHANGED lease
       [] ~Present(r) /\ lease[b].state = "provisioning" /\ lease[b].ext = r ->
            /\ lease' = [lease EXCEPT ![b].ext = NoRef]
            /\ GotoWith(p, "list", NoRef)
       [] OTHER -> Leave(p) /\ UNCHANGED lease
  /\ UNCHANGED <<resource, deaths, faults>>

\* The oldest resource with the key is retained, the others are duplicates.
List(p) ==
  LET found == Found(actor[p].build) IN
  /\ actor[p].pc = "list"
  /\ \/ found = {} /\ Goto(p, "lookup")
     \/ \E r \in Resources :
          /\ Oldest(r, found)
          /\ Become(p, [actor[p] EXCEPT
               !.pc = "destroyDuplicates", !.ref = r, !.dups = found \ {r}])
  /\ UNCHANGED <<lease, resource, deaths, faults>>

DestroyDuplicates(p) ==
  /\ actor[p].pc = "destroyDuplicates"
  /\ \/ actor[p].dups = {} /\ Goto(p, "bind") /\ UNCHANGED resource
     \/ \E d \in Resources, reply \in Reply :
          /\ Oldest(d, actor[p].dups)
          /\ Destroy(d, reply)
          /\ IF reply = "error"
               THEN Leave(p)
               ELSE Become(p, [actor[p] EXCEPT !.dups = @ \ {d}])
  /\ UNCHANGED <<lease, deaths, faults>>

\* claimProvisioning. Its compare-and-set on updatedAt only ends the losers'
\* pass, so it is the check of the state it is read with.
Claim(p) ==
  /\ actor[p].pc = "claim"
  /\ \/ lease[actor[p].build].state = "provisioning" /\ Goto(p, "resume")
     \/ Leave(p)
  /\ UNCHANGED <<lease, resource, deaths, faults>>

\* Mutant: a resource whose key has a lease is no orphan.
OrphanFoundByKey(p, r) ==
  /\ p \in Reconcilers /\ actor[p].pc = "idle"
  /\ Present(r)
  /\ \A b \in Builds : resource[r].key = b => lease[b].state = "none"
  /\ GotoWith(p, "destroyOrphan", r)
  /\ UNCHANGED <<lease, resource, deaths, faults>>

\* reconcileOrphans: bound to no lease in any state and older than the grace
\* period, of which nothing is assumed unless LongGrace ...
OrphanFound(p, r) ==
  /\ p \in Reconcilers /\ actor[p].pc = "idle"
  /\ Present(r)
  /\ \A b \in Builds : lease[b].ext # r
  /\ LongGrace => lease[resource[r].key].state # "provisioning"
  /\ GotoWith(p, "destroyOrphan", r)
  /\ UNCHANGED <<lease, resource, deaths, faults>>

\* ... when it was looked up.
DestroyOrphan(p) ==
  /\ actor[p].pc = "destroyOrphan"
  /\ \E reply \in Reply : Destroy(actor[p].ref, reply)
  /\ Leave(p)
  /\ UNCHANGED <<lease, deaths, faults>>

-----------------------------------------------------------------------------
(* Time, failures and the provider *)

LeaseExpires(b) ==
  /\ lease[b].state \in {"reserved", "provisioning", "ready", "running"}
  /\ ~lease[b].expired
  /\ lease' = [lease EXCEPT ![b].expired = TRUE]
  /\ UNCHANGED <<resource, actor, deaths, faults>>

HeartbeatAges(b) ==
  /\ lease[b].state = "running" /\ lease[b].fresh
  /\ lease' = [lease EXCEPT ![b].fresh = FALSE]
  /\ UNCHANGED <<resource, actor, deaths, faults>>

DestroyCompletes(r) ==
  /\ resource[r].state = "destroying"
  /\ resource' = [resource EXCEPT ![r].state = "gone"]
  /\ UNCHANGED <<lease, actor, deaths, faults>>

ResourceDies(r) ==
  /\ resource[r].state = "live" /\ deaths < MaxDeaths
  /\ resource' = [resource EXCEPT ![r].state = "gone"]
  /\ deaths' = deaths + 1
  /\ UNCHANGED <<lease, actor, faults>>

\* The process dies, or a call throws where nobody catches; an error of the
\* last step of resumeProvisioning is caught by its clean-up.
Throw(p) ==
  /\ actor[p].pc \notin {"idle", "start", "done"} /\ faults < MaxFaults
  /\ Leave(p) \/ (actor[p].pc = "markReady" /\ Goto(p, "cleanup"))
  /\ faults' = faults + 1
  /\ UNCHANGED <<lease, resource, deaths>>

-----------------------------------------------------------------------------

Provisioning(p) ==
  \/ Lookup(p) \/ Create(p) \/ CreateRejected(p) \/ Bind(p) \/ Resume(p)
  \/ Connect(p) \/ MarkReady(p) \/ Cleanup(p) \/ CleanupDestroy(p)
  \/ CleanupSettle(p)

Terminating(p) == Terminate(p) \/ DestroyBound(p) \/ Confirm(p)

\* What an actor does next by itself.
Validate(b) ==
  \/ Reserve(b) \/ Provision(b) \/ RunCommand(b) \/ EndCommand(b)
Reconcile(p) ==
  \/ FailReserved(p) \/ ClaimStale(p) \/ CheckUsed(p, "ready")
  \/ CheckUsed(p, "running") \/ CheckBound(p) \/ List(p)
  \/ DestroyDuplicates(p) \/ Claim(p) \/ DestroyOrphan(p)
Work(p) ==
  \/ Provisioning(p) \/ Terminating(p)
  \/ p \in Builds /\ Validate(p)
  \/ p \in Reconcilers /\ Reconcile(p)

Environment ==
  \/ \E b \in Builds : LeaseExpires(b) \/ HeartbeatAges(b)
  \/ \E r \in Resources : DestroyCompletes(r) \/ ResourceDies(r)

Next ==
  \/ \E p \in Actors : Work(p) \/ Throw(p)
  \/ \E b \in Builds : Heartbeat(b)
  \/ \E p \in Reconcilers, b \in Builds : Scan(p, b)
  \/ \E p \in Reconcilers, r \in Resources : OrphanFound(p, r)
  \/ Environment

Spec == Init /\ [][Next]_vars

\* What the deployment keeps running: live actors go on, the reconciler of a
\* live worker comes back to every lease and every unbound resource, leases
\* expire, and the provider is not out of order for ever.
Destroyed(p) ==
  \/ DestroyBound(p) /\ actor'[p].pc = "confirm"
  \/ DestroyOrphan(p) /\ resource' # resource
FairSpec ==
  /\ Spec
  /\ \A p \in Actors : WF_vars(Work(p))
  /\ SF_vars(\E p \in Actors : Destroyed(p))
  /\ \A b \in Builds : /\ WF_vars(LeaseExpires(b))
                       /\ SF_vars(\E p \in Reconcilers : Scan(p, b))
  /\ \A r \in Resources : /\ WF_vars(DestroyCompletes(r))
                          /\ SF_vars(\E p \in Reconcilers : OrphanFound(p, r))

-----------------------------------------------------------------------------
(* Properties *)

SlotRecord == [pc : Step, build : Builds \cup {None},
               ref : Resources \cup {NoRef}, dups : SUBSET Resources]
LeaseRecord == [state : State \cup {"none"}, ext : Resources \cup {NoRef},
                fresh : BOOLEAN, expired : BOOLEAN]
ResourceRecord == [key : Builds \cup {None},
                   state : {"none", "live", "destroying", "gone"}]

\* Shape of the state.
TypeOK ==
  /\ lease \in [Builds -> LeaseRecord]
  /\ resource \in [Resources -> ResourceRecord]
  /\ actor \in [Actors -> SlotRecord]
  /\ deaths \in Nat /\ faults \in Nat

\* A validator is running a command in a sandbox that exists.
Executing(b) == actor[b].pc = "exec" /\ resource[actor[b].ref].state = "live"

\* With one worker process, two builds of a branch never execute at once, in
\* spite of preemption, lost resources and failed provisioning.
ExclusiveBuild == \A b, c \in Builds : Executing(b) /\ Executing(c) => b = c

\* A lease is called lost only if its resource really is missing, so that a
\* build that takes its place in the branch is alone.
LostMeansGone ==
  \A b \in Builds : lease[b].state = "lost" => ~Present(lease[b].ext)

\* The reconciler takes no running lease that has renewed its heartbeat, even
\* if it read it before the renewal: only its own validator ends it.
NoPreemptFresh ==
  [][\A b \in Builds :
       /\ lease[b].state = "running" /\ lease[b].fresh /\ ~lease[b].expired
       /\ lease'[b].state # "running" /\ Present(lease[b].ext)
       => actor'[b].pc # actor[b].pc]_vars

\* Apart from the clean-up of failed provisioning a lease ends, and frees
\* quota and branch, only when its resource has been seen to be missing.
TerminatedOnlyWhenGone ==
  [][\A b \in Builds :
       lease[b].state # "terminated" /\ lease'[b].state = "terminated" =>
         ~Present(lease[b].ext) \/ \E p \in Actors : CleanupSettle(p)]_vars

\* A terminated lease leaves no live resource behind: nobody would look for
\* it, since orphan collection skips resources a lease refers to.
TerminatedIsDestroyed ==
  \A b \in Builds : lease[b].state = "terminated" /\ lease[b].ext # NoRef
                      => resource[lease[b].ext].state # "live"

\* The sandbox of a build that is running, heartbeating and not expired is
\* destroyed by nobody.
NoFriendlyFire ==
  [][\A b \in Builds :
       /\ Executing(b) /\ lease[b].state = "running" /\ lease[b].fresh
       /\ ~lease[b].expired /\ deaths' = deaths
       => resource'[actor[b].ref].state = "live"]_vars

\* Every reservation ends, whoever created or abandoned it: expired, lost and
\* failed leases are terminated, also when the branch is taken meanwhile.
EveryLeaseEnds ==
  \A b \in Builds : lease[b].state # "none" ~> lease[b].state = "terminated"

\* A resource that no lease refers to is adopted or destroyed.
Bound(r) == \E b \in Builds : lease[b].ext = r
OrphansReclaimed ==
  \A r \in Resources : Present(r) /\ ~Bound(r) ~> ~Present(r) \/ Bound(r)

-----------------------------------------------------------------------------
(* The inductive invariant behind LostMeansGone, NoPreemptFresh and         *)
(* TerminatedOnlyWhenGone: what an actor has read cannot change any more    *)

\* States whose externalId is final, and states no lease in use comes back to.
Used == {"ready", "running", "lost", "terminating", "terminated"}
Ended == {"failed", "lost", "terminating", "terminated"}
Over == {"terminating", "terminated"}

LeaseInv(b) ==
  /\ lease[b].ext # NoRef => resource[lease[b].ext].state # "none"
  /\ lease[b].state = "lost" => ~Present(lease[b].ext)

ActorInv(p) ==
  LET a == actor[p]
      l == lease[a.build]
  IN
  /\ p \in Builds => a.build = p
  /\ a.pc \notin {"idle", "destroyOrphan"} => a.build \in Builds
  /\ a.ref # NoRef => resource[a.ref].state # "none"
  /\ a.pc \in {"checkReady", "checkRunning"} => l.state \in Used /\ l.ext = a.ref
  /\ a.pc \in {"destroy", "confirm"} => l.state \in Over /\ l.ext = a.ref
  /\ a.pc = "terminate" /\ p \notin Builds => l.expired \/ l.state \in Ended

SafeInv == /\ \A b \in Builds : LeaseInv(b)
           /\ \A p \in Actors : ActorInv(p)
=============================================================================
