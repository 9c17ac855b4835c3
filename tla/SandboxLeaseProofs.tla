-------------------------- MODULE SandboxLeaseProofs --------------------------
(***************************************************************************)
(* What a lease guarantees for any number of builds and reconcilers: the   *)
(* shape of the state, that lost leases have lost their resource, that a   *)
(* fresh build is not preempted, that a lease ends when its resource is    *)
(* gone, and, with one reconciler, that one build executes at a time.      *)
(*                                                                         *)
(* SafeInv is inductive because a step moves leases and resources only     *)
(* forward (LeaseStep, ResourceStep): what an actor has read stays true    *)
(* until it acts (OthersKeep). An action then is shown to be such a step   *)
(* and to leave its own actor in order.                                    *)
(***************************************************************************)
EXTENDS SandboxLease, TLAPS

-----------------------------------------------------------------------------
(* Records *)

\* A transition of a SandboxLease document changes its state and nothing else.
LEMMA SetState ==
  ASSUME NEW l \in LeaseRecord, NEW s \in State
  PROVE  /\ [l EXCEPT !.state = s] \in LeaseRecord
         /\ [l EXCEPT !.state = s].state = s
         /\ [l EXCEPT !.state = s].ext = l.ext
         /\ [l EXCEPT !.state = s].fresh = l.fresh
         /\ [l EXCEPT !.state = s].expired = l.expired
BY DEF LeaseRecord

\* bindExternalId and clearExternalId change the resource and nothing else.
LEMMA SetExt ==
  ASSUME NEW l \in LeaseRecord, NEW r \in Resources \cup {NoRef}
  PROVE  /\ [l EXCEPT !.ext = r] \in LeaseRecord
         /\ [l EXCEPT !.ext = r].ext = r
         /\ [l EXCEPT !.ext = r].state = l.state
         /\ [l EXCEPT !.ext = r].expired = l.expired
BY DEF LeaseRecord

\* A heartbeat, or its age, changes nothing else.
LEMMA SetFresh ==
  ASSUME NEW l \in LeaseRecord, NEW f \in BOOLEAN
  PROVE  /\ [l EXCEPT !.fresh = f] \in LeaseRecord
         /\ [l EXCEPT !.fresh = f].state = l.state
         /\ [l EXCEPT !.fresh = f].ext = l.ext
         /\ [l EXCEPT !.fresh = f].expired = l.expired
BY DEF LeaseRecord

\* Expiry changes nothing else.
LEMMA SetExpired ==
  ASSUME NEW l \in LeaseRecord
  PROVE  /\ [l EXCEPT !.expired = TRUE] \in LeaseRecord
         /\ [l EXCEPT !.expired = TRUE].state = l.state
         /\ [l EXCEPT !.expired = TRUE].ext = l.ext
         /\ [l EXCEPT !.expired = TRUE].expired
BY DEF LeaseRecord

\* The fields of a lease document.
LEMMA LeaseFields ==
  ASSUME NEW l \in LeaseRecord
  PROVE  /\ l.state \in State \cup {"none"}
         /\ l.ext \in Resources \cup {NoRef}
         /\ l.fresh \in BOOLEAN /\ l.expired \in BOOLEAN
BY DEF LeaseRecord

\* The fields of an actor, and an actor that goes on with its job.
LEMMA SlotFields ==
  ASSUME NEW s \in SlotRecord
  PROVE  /\ s.pc \in Step /\ s.build \in Builds \cup {None}
         /\ s.ref \in Resources \cup {NoRef} /\ s.dups \subseteq Resources
BY DEF SlotRecord

LEMMA SlotGoto ==
  ASSUME NEW s \in SlotRecord, NEW l \in Step
  PROVE  /\ [s EXCEPT !.pc = l] \in SlotRecord
         /\ [s EXCEPT !.pc = l].pc = l
         /\ [s EXCEPT !.pc = l].build = s.build
         /\ [s EXCEPT !.pc = l].ref = s.ref
BY DEF SlotRecord

LEMMA SlotDups ==
  ASSUME NEW s \in SlotRecord, NEW D \in SUBSET Resources
  PROVE  /\ [s EXCEPT !.dups = D] \in SlotRecord
         /\ [s EXCEPT !.dups = D].pc = s.pc
         /\ [s EXCEPT !.dups = D].build = s.build
         /\ [s EXCEPT !.dups = D].ref = s.ref
BY DEF SlotRecord

\* A free actor, and a validator between two jobs.
LEMMA IdleSlot ==
  /\ Idle \in SlotRecord /\ Idle.pc = "idle" /\ Idle.ref = NoRef
BY DEF SlotRecord, Idle, Step

LEMMA ValidatorSlot ==
  ASSUME NEW b \in Builds, NEW l \in Step
  PROVE  /\ Validator(b, l) \in SlotRecord
         /\ Validator(b, l).pc = l /\ Validator(b, l).build = b
         /\ Validator(b, l).ref = NoRef
BY DEF SlotRecord, Idle, Validator

\* The fields of a resource, and a resource that changes its state.
LEMMA ResourceFields ==
  ASSUME NEW o \in ResourceRecord
  PROVE  o.state \in {"none", "live", "destroying", "gone"}
BY DEF ResourceRecord

LEMMA SetResource ==
  ASSUME NEW o \in ResourceRecord, NEW s \in {"none", "live", "destroying", "gone"}
  PROVE  /\ [o EXCEPT !.state = s] \in ResourceRecord
         /\ [o EXCEPT !.state = s].state = s
BY DEF ResourceRecord

-----------------------------------------------------------------------------
(* Steps that go only forward *)

Forward(s, t) == /\ s # "none" => t # "none"
                 /\ s \in Used => t \in Used
                 /\ s \in Ended => t \in Ended
                 /\ s \in Over => t \in Over

LeaseStep(b) ==
  /\ lease[b].state # "provisioning" => lease'[b].ext = lease[b].ext
  /\ Forward(lease[b].state, lease'[b].state)
  /\ lease[b].expired => lease'[b].expired

ResourceStep(r) ==
  /\ resource[r].state # "none" => resource'[r].state # "none"
  /\ resource[r].state = "gone" => resource'[r].state = "gone"
  /\ resource'[r].state = "live" => resource[r].state \in {"none", "live"}

\* The leases, and the resources, after a step.
LeasesOK == /\ lease' \in [Builds -> LeaseRecord]
            /\ \A b \in Builds : LeaseStep(b) /\ LeaseInv(b)'
ResourcesOK == /\ resource' \in [Resources -> ResourceRecord]
               /\ \A r \in Resources : ResourceStep(r)
ActorOK(p) == /\ actor' \in [Actors -> SlotRecord]
              /\ \A q \in Actors \ {p} : actor'[q] = actor[q]
              /\ ActorInv(p)'
Safe == TypeOK /\ SafeInv

\* What a step leaves behind.
Onward == Safe' /\ LeasesOK /\ ResourcesOK

\* The resource an actor or a lease refers to.
LEMMA RefState ==
  ASSUME TypeOK, NEW r \in Resources
  PROVE  resource[r].state \in {"none", "live", "destroying", "gone"}
BY ResourceFields DEF TypeOK

\* A resource that is missing stays missing.
LEMMA MissingStays ==
  ASSUME TypeOK, ResourcesOK, NEW r \in Resources \cup {NoRef}, ~Present(r),
         r # NoRef => resource[r].state # "none"
  PROVE  ~Present(r)'
<1>1. CASE r = NoRef
  BY <1>1 DEF Present
<1>2. CASE r # NoRef
  <2>1. r \in Resources
    BY <1>2
  <2>2. resource[r].state = "gone"
    BY <1>2, <2>1, RefState DEF Present
  <2>3. resource'[r].state = "gone"
    BY <2>1, <2>2 DEF ResourcesOK, ResourceStep
  <2> QED
    BY <2>3 DEF Present
<1> QED
  BY <1>1, <1>2

\* The actors that did not move keep their invariant: whatever they know of a
\* lease or a resource, a step cannot take back.
LEMMA OthersKeep ==
  ASSUME Safe, LeasesOK, ResourcesOK, NEW q \in Actors, actor'[q] = actor[q]
  PROVE  ActorInv(q)'
<1> DEFINE a == actor[q]
           b == a.build
<1>1. ActorInv(q) /\ a \in SlotRecord
  BY DEF Safe, SafeInv, TypeOK
<1>2. actor'[q] = a
  OBVIOUS
<1>3. a.ref \in Resources \cup {NoRef} /\ NoRef \notin Resources
  BY <1>1, SlotFields DEF NoRef, Resources
<1>4. a.ref # NoRef => resource'[a.ref].state # "none"
  BY <1>1, <1>3 DEF ActorInv, ResourcesOK, ResourceStep
<1>5. a.pc \in {"checkReady", "checkRunning", "destroy", "confirm", "terminate"}
        => b \in Builds
  BY <1>1 DEF ActorInv
<1>6. b \in Builds => LeaseStep(b)
  BY DEF LeasesOK
<1>7. a.pc \in {"checkReady", "checkRunning"} =>
        lease'[b].state \in Used /\ lease'[b].ext = a.ref
  BY <1>1, <1>5, <1>6 DEF ActorInv, LeaseStep, Forward, Used
<1>8. a.pc \in {"destroy", "confirm"} =>
        lease'[b].state \in Over /\ lease'[b].ext = a.ref
  BY <1>1, <1>5, <1>6 DEF ActorInv, LeaseStep, Forward, Over
<1>9. a.pc = "terminate" /\ q \notin Builds =>
        lease'[b].expired \/ lease'[b].state \in Ended
  BY <1>1, <1>5, <1>6 DEF ActorInv, LeaseStep, Forward
<1>10. (q \in Builds => a.build = q)
         /\ (a.pc \notin {"idle", "destroyOrphan"} => a.build \in Builds)
  BY <1>1 DEF ActorInv
<1> HIDE DEF a, b
<1> QED
  BY <1>2, <1>4, <1>7, <1>8, <1>9, <1>10 DEF ActorInv, b

\* A step that is in order in its leases, its resources and its actor.
LEMMA StepSafe ==
  ASSUME Safe, LeasesOK, ResourcesOK, deaths' \in Nat, faults' \in Nat,
         NEW p \in Actors, ActorOK(p)
  PROVE  Onward
<1>1. TypeOK'
  BY DEF TypeOK, LeasesOK, ResourcesOK, ActorOK
<1>2. \A q \in Actors \ {p} : ActorInv(q)'
  BY OthersKeep DEF ActorOK
<1> QED
  BY <1>1, <1>2 DEF Onward, Safe, SafeInv, LeasesOK, ActorOK

LEMMA QuietSafe ==
  ASSUME Safe, LeasesOK, ResourcesOK, deaths' \in Nat, faults' \in Nat,
         actor' = actor
  PROVE  Onward
<1>1. TypeOK'
  BY DEF TypeOK, LeasesOK, ResourcesOK, Safe
<1>2. \A q \in Actors : ActorInv(q)'
  BY OthersKeep
<1> QED
  BY <1>1, <1>2 DEF Onward, Safe, SafeInv, LeasesOK

-----------------------------------------------------------------------------
(* What actors do with themselves *)

\* An actor becomes another slot and nobody else does.
LEMMA BecomeOthers ==
  ASSUME TypeOK, NEW p \in Actors, NEW s \in SlotRecord, Become(p, s)
  PROVE  /\ actor' \in [Actors -> SlotRecord]
         /\ \A q \in Actors \ {p} : actor'[q] = actor[q]
         /\ actor'[p] = s
BY DEF TypeOK, Become

\* The steps whose actor relies on what it has read of its lease.
Relying == {"checkReady", "checkRunning", "destroy", "confirm", "terminate"}

\* A slot without such a step is in order.
LEMMA PlainSlot ==
  ASSUME TypeOK, NEW p \in Actors, NEW s \in SlotRecord, Become(p, s),
         p \in Builds => s.build = p,
         s.pc \notin {"idle", "destroyOrphan"} => s.build \in Builds,
         s.ref # NoRef => resource'[s.ref].state # "none",
         s.pc \in Relying => p \in Builds /\ s.pc = "terminate"
  PROVE  ActorOK(p)
<1>1. actor'[p] = s
  BY BecomeOthers
<1>2. ActorInv(p)'
  BY <1>1 DEF ActorInv, Relying
<1> QED
  BY <1>2, BecomeOthers DEF ActorOK

\* A build's name is not that of a reconciler, nor of none.
LEMMA BuildIsActor ==
  ASSUME NEW b \in Builds
  PROVE  b \in Actors /\ b # None /\ b \notin Reconcilers
BY SandboxLeaseAssumption DEF Actors

\* Ending a job.
LEMMA LeaveOK ==
  ASSUME Safe, NEW p \in Actors, Leave(p)
  PROVE  ActorOK(p)
<1> USE DEF Safe
<1>1. CASE p \in Builds
  <2>1. "done" \in Step
    BY DEF Step
  <2>2. Become(p, Validator(p, "done"))
    BY <1>1 DEF Leave
  <2> QED
    BY <1>1, <2>1, <2>2, ValidatorSlot, PlainSlot DEF Relying
<1>2. CASE p \notin Builds
  <2>1. Become(p, Idle)
    BY <1>2 DEF Leave
  <2> QED
    BY <1>2, <2>1, IdleSlot, PlainSlot DEF Relying
<1> QED
  BY <1>1, <1>2

\* Going on with the job, with the same or with another resource.
Busily(p) == actor[p].pc \notin {"idle", "destroyOrphan"}

LEMMA GotoOK ==
  ASSUME Safe, ResourcesOK, NEW p \in Actors, Busily(p), NEW l \in Step, Goto(p, l),
         l \in Relying => p \in Builds /\ l = "terminate"
  PROVE  ActorOK(p)
<1> DEFINE s == [actor[p] EXCEPT !.pc = l]
<1>1. ActorInv(p) /\ actor[p] \in SlotRecord
  BY DEF Safe, SafeInv, TypeOK
<1>2. s \in SlotRecord /\ s.pc = l /\ s.build = actor[p].build /\ s.ref = actor[p].ref
  BY <1>1, SlotGoto
<1>3. Become(p, s)
  BY DEF Goto
<1>4. s.ref # NoRef => resource'[s.ref].state # "none"
  BY <1>1, <1>2, SlotFields DEF ActorInv, ResourcesOK, ResourceStep
<1>5. s.build \in Builds /\ (p \in Builds => s.build = p)
  BY <1>1, <1>2 DEF ActorInv, Busily
<1> HIDE DEF s
<1> QED
  BY <1>2, <1>3, <1>4, <1>5, PlainSlot DEF Safe

LEMMA GotoWithOK ==
  ASSUME Safe, NEW p \in Actors, Busily(p), NEW l \in Step,
         NEW r \in Resources \cup {NoRef}, GotoWith(p, l, r), l \notin Relying,
         r # NoRef => resource'[r].state # "none"
  PROVE  ActorOK(p)
<1> DEFINE s == [actor[p] EXCEPT !.pc = l, !.ref = r]
<1>1. ActorInv(p) /\ actor[p] \in SlotRecord
  BY DEF Safe, SafeInv, TypeOK
<1>2. s \in SlotRecord /\ s.pc = l /\ s.build = actor[p].build /\ s.ref = r
  BY <1>1 DEF SlotRecord
<1>3. Become(p, s)
  BY DEF GotoWith
<1>5. s.build \in Builds /\ (p \in Builds => s.build = p)
  BY <1>1, <1>2 DEF ActorInv, Busily
<1> HIDE DEF s
<1> QED
  BY <1>2, <1>3, <1>5, PlainSlot DEF Safe

-----------------------------------------------------------------------------
(* What a step does to leases and resources *)

LEMMA SameResources ==
  ASSUME TypeOK, UNCHANGED resource
  PROVE  ResourcesOK
BY DEF TypeOK, ResourcesOK, ResourceStep

LEMMA ResourceTo ==
  ASSUME TypeOK, NEW r \in Resources,
         NEW s \in {"live", "destroying", "gone"},
         resource[r].state = "gone" => s = "gone",
         s = "live" => resource[r].state = "live",
         resource' = [resource EXCEPT ![r].state = s]
  PROVE  ResourcesOK
<1>1. resource' = [resource EXCEPT ![r] = [resource[r] EXCEPT !.state = s]]
  OBVIOUS
<1>2. /\ [resource[r] EXCEPT !.state = s] \in ResourceRecord
      /\ [resource[r] EXCEPT !.state = s].state = s
  <2>1. s \in {"none", "live", "destroying", "gone"}
    OBVIOUS
  <2>2. resource[r] \in ResourceRecord
    BY DEF TypeOK
  <2> QED
    BY <2>1, <2>2, SetResource
<1>3. resource' \in [Resources -> ResourceRecord]
  BY <1>1, <1>2 DEF TypeOK
<1>4. ASSUME NEW q \in Resources
      PROVE  ResourceStep(q)
  BY <1>1, <1>2 DEF TypeOK, ResourceStep
<1> QED
  BY <1>3, <1>4 DEF ResourcesOK

\* provider.destroy never brings a resource back.
LEMMA DestroyOK ==
  ASSUME Safe, NEW r \in Resources \cup {NoRef}, NEW reply, Destroy(r, reply)
  PROVE  ResourcesOK
<1>1. PICK s \in {"live", "destroying", "gone"} :
        /\ resource[r].state = "gone" => s = "gone"
        /\ s = "live" => resource[r].state = "live"
        /\ resource' = [resource EXCEPT ![r].state = s]
  BY DEF Destroy
<1>2. CASE r \in Resources
  BY <1>1, <1>2, ResourceTo DEF Safe
<1>3. CASE r \notin Resources
  <2>1. resource' = resource
    BY <1>1, <1>3 DEF Safe, TypeOK
  <2> QED
    BY <2>1, SameResources DEF Safe
<1> QED
  BY <1>2, <1>3

\* Every lease may be terminated; a lease in use may be used again or be lost;
\* before it is used it may become anything.
LEMMA ForwardTo ==
  ASSUME NEW s
  PROVE  /\ Forward(s, "terminating") /\ Forward(s, "terminated") /\ Forward(s, s)
         /\ s \in {"ready", "running"} => Forward(s, "lost") /\ Forward(s, "running")
         /\ s \in {"none", "reserved", "provisioning"} => \A t \in State : Forward(s, t)
BY DEF Forward, Used, Ended, Over, State

LEMMA SameLeases ==
  ASSUME Safe, ResourcesOK, UNCHANGED lease
  PROVE  LeasesOK
<1>1. ASSUME NEW b \in Builds
      PROVE  LeaseStep(b) /\ LeaseInv(b)'
  <2>1. LeaseInv(b) /\ lease[b].ext \in Resources \cup {NoRef}
    BY LeaseFields DEF Safe, SafeInv, TypeOK
  <2>2. lease[b].ext # NoRef => resource'[lease[b].ext].state # "none"
    BY <2>1 DEF LeaseInv, ResourcesOK, ResourceStep
  <2>3. lease[b].state = "lost" => ~Present(lease[b].ext)'
    BY <2>1, MissingStays DEF LeaseInv, Safe
  <2> QED
    BY <2>2, <2>3, ForwardTo DEF LeaseInv, LeaseStep, Present
<1> QED
  BY <1>1 DEF LeasesOK, Safe, TypeOK

\* One lease document is written.
LEMMA LeaseTo ==
  ASSUME Safe, ResourcesOK, NEW b \in Builds, NEW m \in LeaseRecord,
         lease' = [lease EXCEPT ![b] = m],
         Forward(lease[b].state, m.state),
         lease[b].expired => m.expired,
         lease[b].state # "provisioning" => m.ext = lease[b].ext,
         m.ext # NoRef => resource[m.ext].state # "none",
         m.state = "lost" => ~Present(m.ext)
  PROVE  LeasesOK
<1>1. lease' \in [Builds -> LeaseRecord] /\ lease'[b] = m
  BY DEF Safe, TypeOK
<1>2. ASSUME NEW c \in Builds
      PROVE  LeaseStep(c) /\ LeaseInv(c)'
  <2>1. LeaseInv(c)
    BY DEF Safe, SafeInv
  <2>2. c # b => lease'[c] = lease[c]
    BY DEF Safe, TypeOK
  <2>3. LeaseStep(c)
    BY <1>1, <2>2, ForwardTo DEF LeaseStep
  <2>4. lease'[c] \in LeaseRecord
    BY <1>1
  <2>5. lease'[c].ext # NoRef => resource[lease'[c].ext].state # "none"
    BY <1>1, <2>1, <2>2 DEF LeaseInv
  <2>6. lease'[c].state = "lost" => ~Present(lease'[c].ext)
    BY <1>1, <2>1, <2>2 DEF LeaseInv
  <2>7. lease'[c].ext \in Resources \cup {NoRef}
    BY <2>4, LeaseFields
  <2>8. lease'[c].ext # NoRef => resource'[lease'[c].ext].state # "none"
    BY <2>5, <2>7 DEF ResourcesOK, ResourceStep
  <2>9. ASSUME lease'[c].state = "lost"
        PROVE  ~Present(lease[c].ext)'
    BY <2>5, <2>6, <2>7, <2>9, MissingStays DEF Safe, Present
  <2> QED
    BY <2>3, <2>8, <2>9 DEF LeaseInv, Present
<1> QED
  BY <1>1, <1>2 DEF LeasesOK

\* ... in its state only.
LEMMA StateTo ==
  ASSUME Safe, ResourcesOK, NEW b \in Builds, NEW s \in State,
         lease' = [lease EXCEPT ![b].state = s],
         Forward(lease[b].state, s),
         s = "lost" => ~Present(lease[b].ext)
  PROVE  LeasesOK
<1> DEFINE m == [lease[b] EXCEPT !.state = s]
<1>1. lease' = [lease EXCEPT ![b] = m]
  OBVIOUS
<1>2. /\ m \in LeaseRecord /\ m.state = s
      /\ m.ext = lease[b].ext /\ m.expired = lease[b].expired
  BY SetState DEF Safe, TypeOK
<1>3. m.ext # NoRef => resource[m.ext].state # "none"
  BY <1>2 DEF Safe, SafeInv, LeaseInv
<1> HIDE DEF m
<1> QED
  BY <1>1, <1>2, <1>3, LeaseTo

\* A compare-and-set of the state.
LEMMA TransitionOK ==
  ASSUME Safe, ResourcesOK, NEW b \in Builds, NEW from, NEW to \in State,
         lease' = transition(b, from, to),
         lease[b].state \in from =>
           /\ Forward(lease[b].state, to)
           /\ to = "lost" => ~Present(lease[b].ext)
  PROVE  LeasesOK
<1>1. CASE lease[b].state \in from
  BY <1>1, StateTo DEF transition
<1>2. CASE lease[b].state \notin from
  BY <1>2, SameLeases DEF transition
<1> QED
  BY <1>1, <1>2

-----------------------------------------------------------------------------
(* createBuildSandbox and resumeProvisioning *)

\* An actor at work: its lease, and the resource it holds.
LEMMA AtWork ==
  ASSUME Safe, NEW p \in Actors, Busily(p)
  PROVE  /\ actor[p].build \in Builds
         /\ p \in Builds => actor[p].build = p
         /\ actor[p].ref \in Resources \cup {NoRef}
         /\ actor[p].ref # NoRef => resource[actor[p].ref].state # "none"
         /\ lease[actor[p].build] \in LeaseRecord
         /\ lease[actor[p].build].ext \in Resources \cup {NoRef}
         /\ LeaseInv(actor[p].build)
BY SlotFields, LeaseFields DEF Safe, SafeInv, TypeOK, ActorInv, Busily

LEMMA ReserveSafe ==
  ASSUME Safe, NEW b \in Builds, Reserve(b)
  PROVE  Onward
<1>1. b \in Actors /\ Busily(b)
  BY BuildIsActor DEF Reserve, Busily
<1>2. ResourcesOK
  BY SameResources DEF Reserve, Safe
<1>3. CASE Busy(b)
  BY <1>1, <1>2, <1>3, LeaveOK, SameLeases, StepSafe DEF Reserve, Safe, TypeOK
<1>4. CASE ~Busy(b)
  <2>1. LeasesOK
    BY <1>2, <1>4, StateTo, ForwardTo DEF Reserve, State
  <2>2. ActorOK(b)
    BY <1>1, <1>2, <1>4, GotoOK DEF Reserve, Step, Relying
  <2> QED
    BY <1>1, <1>2, <2>1, <2>2, StepSafe DEF Reserve, Safe, TypeOK
<1> QED
  BY <1>3, <1>4

LEMMA ProvisionSafe ==
  ASSUME Safe, NEW b \in Builds, Provision(b)
  PROVE  Onward
<1>1. b \in Actors /\ Busily(b)
  BY BuildIsActor DEF Provision, Busily
<1>2. ResourcesOK
  BY SameResources DEF Provision, Safe
<1>3. LeasesOK
  BY <1>2, TransitionOK, ForwardTo DEF Provision, State
<1>4. ActorOK(b)
  BY <1>1, <1>2, GotoOK, LeaveOK DEF Provision, Step, Relying
<1> QED
  BY <1>1, <1>2, <1>3, <1>4, StepSafe DEF Provision, Safe, TypeOK

LEMMA LookupSafe ==
  ASSUME Safe, NEW p \in Actors, Lookup(p)
  PROVE  Onward
<1>1. Busily(p)
  BY DEF Lookup, Busily
<1>2. ResourcesOK /\ LeasesOK
  BY SameResources, SameLeases DEF Lookup, Safe
<1>3. ASSUME Goto(p, "create")
      PROVE  ActorOK(p)
  BY <1>1, <1>2, <1>3, GotoOK DEF Step, Relying
<1>4. ASSUME NEW r \in Resources, Oldest(r, Found(actor[p].build)),
             GotoWith(p, "bind", r)
      PROVE  ActorOK(p)
  <2>1. resource'[r].state # "none"
    BY <1>4 DEF Oldest, Found, Present, Lookup
  <2> QED
    BY <1>1, <1>4, <2>1, GotoWithOK DEF Step, Relying
<1>5. ActorOK(p)
  BY <1>3, <1>4 DEF Lookup
<1> QED
  BY <1>2, <1>5, StepSafe DEF Lookup, Safe, TypeOK

LEMMA CreateSafe ==
  ASSUME Safe, NEW p \in Actors, Create(p)
  PROVE  Onward
<1> DEFINE b == actor[p].build
           o == [key |-> b, state |-> "live"]
<1>1. Busily(p)
  BY DEF Create, Busily
<1>2. PICK r \in Resources :
        /\ Fresh(r) /\ resource' = [resource EXCEPT ![r] = o]
        /\ \/ GotoWith(p, "bind", r) /\ UNCHANGED lease
           \/ Leave(p) /\ UNCHANGED lease
           \/ Leave(p) /\ p \in Builds
              /\ lease' = transition(b, {"provisioning"}, "failed")
  BY DEF Create
<1>3. ResourcesOK /\ resource'[r].state # "none"
  <2>1. o \in ResourceRecord /\ o.state = "live"
    BY <1>1, AtWork DEF ResourceRecord
  <2> HIDE DEF o
  <2>2. resource' \in [Resources -> ResourceRecord] /\ resource'[r] = o
    BY <1>2, <2>1 DEF Safe, TypeOK
  <2>3. ASSUME NEW q \in Resources
        PROVE  ResourceStep(q)
    BY <1>2, <2>1 DEF Safe, TypeOK, ResourceStep, Fresh
  <2> QED
    BY <2>1, <2>2, <2>3 DEF ResourcesOK
<1>4. LeasesOK
  <2>1. CASE UNCHANGED lease
    BY <1>3, <2>1, SameLeases
  <2>2. CASE lease' = transition(b, {"provisioning"}, "failed")
    BY <1>1, <1>3, <2>2, AtWork, TransitionOK, ForwardTo DEF State
  <2> QED
    BY <1>2, <2>1, <2>2
<1>5. ActorOK(p)
  <2>1. CASE GotoWith(p, "bind", r)
    BY <1>1, <1>3, <2>1, GotoWithOK DEF Step, Relying
  <2> QED
    BY <1>2, <2>1, LeaveOK
<1> QED
  BY <1>3, <1>4, <1>5, StepSafe DEF Create, Safe, TypeOK

LEMMA CreateRejectedSafe ==
  ASSUME Safe, NEW p \in Actors, CreateRejected(p)
  PROVE  Onward
<1>1. ResourcesOK /\ ActorOK(p)
  BY SameResources, LeaveOK DEF CreateRejected, Safe
<1>2. LeasesOK
  BY <1>1, SameLeases, TransitionOK, ForwardTo DEF CreateRejected, State
<1> QED
  BY <1>1, <1>2, StepSafe DEF CreateRejected, Safe, TypeOK

\* Only a provisioning lease without a resource is bound.
LEMMA BindSafe ==
  ASSUME Safe, NEW p \in Actors, Bind(p)
  PROVE  Onward
<1> DEFINE b == actor[p].build
           r == actor[p].ref
           m == [lease[b] EXCEPT !.ext = r]
<1>1. Busily(p) /\ b \in Builds
  BY AtWork DEF Bind, Busily
<1>2. ResourcesOK
  BY SameResources DEF Bind, Safe
<1>3. LeasesOK
  <2>1. CASE lease[b].state = "provisioning" /\ lease[b].ext = NoRef
    <3>1. lease' = [lease EXCEPT ![b] = m]
      BY <2>1 DEF Bind
    <3>2. /\ m \in LeaseRecord /\ m.ext = r
          /\ m.state = lease[b].state /\ m.expired = lease[b].expired
      BY <1>1, AtWork, SetExt
    <3>3. r # NoRef => resource[r].state # "none"
      BY <1>1, AtWork
    <3> HIDE DEF m, r
    <3> QED
      BY <1>1, <1>2, <2>1, <3>1, <3>2, <3>3, LeaseTo, ForwardTo
  <2>2. CASE ~(lease[b].state = "provisioning" /\ lease[b].ext = NoRef)
    BY <1>2, <2>2, SameLeases DEF Bind
  <2> QED
    BY <2>1, <2>2
<1>4. ActorOK(p)
  <2>1. CASE Goto(p, "resume")
    BY <1>1, <1>2, <2>1, GotoOK DEF Step, Relying
  <2>2. CASE GotoWith(p, "claim", NoRef)
    BY <1>1, <1>2, <2>2, GotoWithOK DEF Step, Relying
  <2> QED
    BY <2>1, <2>2, LeaveOK DEF Bind
<1> QED
  BY <1>2, <1>3, <1>4, StepSafe DEF Bind, Safe, TypeOK

LEMMA ResumeSafe ==
  ASSUME Safe, NEW p \in Actors, Resume(p)
  PROVE  Onward
<1> DEFINE l == lease[actor[p].build]
<1>1. Busily(p)
  BY DEF Resume, Busily
<1>2. ResourcesOK /\ LeasesOK
  BY SameResources, SameLeases DEF Resume, Safe
<1>3. CASE l.ext # NoRef /\ GotoWith(p, "connect", l.ext)
  <2>1. resource'[l.ext].state # "none"
    BY <1>1, <1>3, AtWork DEF LeaseInv, Resume
  <2>2. l.ext \in Resources \cup {NoRef}
    BY <1>1, AtWork
  <2>3. ActorOK(p)
    BY <1>1, <1>3, <2>1, <2>2, GotoWithOK DEF Step, Relying
  <2> QED
    BY <1>2, <2>3, StepSafe DEF Resume, Safe, TypeOK
<1>4. CASE Goto(p, "run")
  <2>1. ActorOK(p)
    BY <1>1, <1>2, <1>4, GotoOK DEF Step, Relying
  <2> QED
    BY <1>2, <2>1, StepSafe DEF Resume, Safe, TypeOK
<1>5. CASE Leave(p)
  BY <1>2, <1>5, LeaveOK, StepSafe DEF Resume, Safe, TypeOK
<1> QED
  BY <1>3, <1>4, <1>5 DEF Resume

LEMMA ConnectSafe ==
  ASSUME Safe, NEW p \in Actors, Connect(p)
  PROVE  Onward
<1>1. Busily(p)
  BY DEF Connect, Busily
<1>2. ResourcesOK /\ LeasesOK
  BY SameResources, SameLeases DEF Connect, Safe
<1>3. ActorOK(p)
  BY <1>1, <1>2, GotoOK DEF Connect, Step, Relying
<1> QED
  BY <1>2, <1>3, StepSafe DEF Connect, Safe, TypeOK

LEMMA MarkReadySafe ==
  ASSUME Safe, NEW p \in Actors, MarkReady(p)
  PROVE  Onward
<1>1. Busily(p)
  BY DEF MarkReady, Busily
<1>2. ResourcesOK
  BY SameResources DEF MarkReady, Safe
<1>3. LeasesOK
  BY <1>1, <1>2, AtWork, TransitionOK, ForwardTo DEF MarkReady, State
<1>4. ActorOK(p)
  BY <1>1, <1>2, GotoOK, LeaveOK DEF MarkReady, Step, Relying
<1> QED
  BY <1>2, <1>3, <1>4, StepSafe DEF MarkReady, Safe, TypeOK

LEMMA CleanupSafe ==
  ASSUME Safe, NEW p \in Actors, Cleanup(p)
  PROVE  Onward
<1>1. Busily(p)
  BY DEF Cleanup, Busily
<1>2. ResourcesOK
  BY SameResources DEF Cleanup, Safe
<1>3. LeasesOK
  BY <1>1, <1>2, AtWork, TransitionOK, ForwardTo DEF Cleanup, State
<1>4. ActorOK(p)
  BY <1>1, <1>2, GotoOK DEF Cleanup, Step, Relying
<1> QED
  BY <1>2, <1>3, <1>4, StepSafe DEF Cleanup, Safe, TypeOK

LEMMA CleanupDestroySafe ==
  ASSUME Safe, NEW p \in Actors, CleanupDestroy(p)
  PROVE  Onward
<1>1. Busily(p)
  BY DEF CleanupDestroy, Busily
<1>2. ResourcesOK
  BY <1>1, AtWork, DestroyOK DEF CleanupDestroy
<1>3. LeasesOK
  BY <1>2, SameLeases DEF CleanupDestroy
<1>4. ActorOK(p)
  BY <1>1, <1>2, GotoOK, LeaveOK DEF CleanupDestroy, Step, Relying
<1> QED
  BY <1>2, <1>3, <1>4, StepSafe DEF CleanupDestroy, Safe, TypeOK

LEMMA CleanupSettleSafe ==
  ASSUME Safe, NEW p \in Actors, CleanupSettle(p)
  PROVE  Onward
<1>1. Busily(p)
  BY DEF CleanupSettle, Busily
<1>2. ResourcesOK /\ ActorOK(p)
  BY SameResources, LeaveOK DEF CleanupSettle, Safe
<1>3. LeasesOK
  BY <1>1, <1>2, AtWork, TransitionOK, ForwardTo DEF CleanupSettle, State
<1> QED
  BY <1>2, <1>3, StepSafe DEF CleanupSettle, Safe, TypeOK

-----------------------------------------------------------------------------
(* runBuildCommand and terminate *)

LEMMA RunCommandSafe ==
  ASSUME Safe, NEW b \in Builds, RunCommand(b)
  PROVE  Onward
<1> DEFINE l == lease[b]
           m == [l EXCEPT !.state = "running", !.fresh = TRUE]
           usable == l.state \in {"ready", "running"} /\ l.ext # NoRef
<1>1. b \in Actors /\ Busily(b) /\ LeaseInv(b)
  BY BuildIsActor DEF RunCommand, Busily, Safe, SafeInv
<1>2. ResourcesOK
  BY SameResources DEF RunCommand, Safe
<1>3. l \in LeaseRecord /\ l.ext \in Resources \cup {NoRef}
  BY LeaseFields DEF Safe, TypeOK
<1>4. CASE /\ usable
           /\ lease' = [lease EXCEPT ![b].state = "running", ![b].fresh = TRUE]
           /\ GotoWith(b, "exec", l.ext)
  <2>1. lease' = [lease EXCEPT ![b] = m]
    BY <1>4
  <2>2. m \in LeaseRecord /\ m.state = "running" /\ m.ext = l.ext /\ m.expired = l.expired
    BY <1>3 DEF LeaseRecord, State
  <2>3. m.ext # NoRef => resource[m.ext].state # "none"
    BY <1>1, <2>2 DEF LeaseInv
  <2>4. Forward(l.state, "running")
    BY <1>4, ForwardTo
  <2>5. LeasesOK
    <3> HIDE DEF m
    <3> QED
      BY <1>2, <2>1, <2>2, <2>3, <2>4, LeaseTo
  <2>6. ActorOK(b)
    <3>1. l.ext # NoRef => resource'[l.ext].state # "none"
      BY <1>1 DEF LeaseInv, RunCommand
    <3> QED
      BY <1>1, <1>3, <1>4, <3>1, GotoWithOK DEF Step, Relying
  <2> QED
    BY <1>1, <1>2, <2>5, <2>6, StepSafe DEF RunCommand, Safe, TypeOK
<1>5. CASE /\ usable /\ resource[l.ext].state = "gone"
           /\ lease' = transition(b, {l.state}, "lost")
           /\ Goto(b, "terminate")
  <2>1. ~Present(l.ext)
    BY <1>5 DEF Present
  <2>2. LeasesOK
    BY <1>2, <1>5, <2>1, TransitionOK, ForwardTo DEF State
  <2>3. ActorOK(b)
    BY <1>1, <1>2, <1>5, GotoOK DEF Step
  <2> QED
    BY <1>1, <1>2, <2>2, <2>3, StepSafe DEF RunCommand, Safe, TypeOK
<1>6. CASE Goto(b, "terminate") /\ UNCHANGED lease
  <2>1. LeasesOK /\ ActorOK(b)
    BY <1>1, <1>2, <1>6, SameLeases, GotoOK DEF Step
  <2> QED
    BY <1>1, <1>2, <2>1, StepSafe DEF RunCommand, Safe, TypeOK
<1> QED
  BY <1>4, <1>5, <1>6 DEF RunCommand

LEMMA HeartbeatSafe ==
  ASSUME Safe, NEW b \in Builds, Heartbeat(b)
  PROVE  Onward
<1> DEFINE m == [lease[b] EXCEPT !.fresh = TRUE]
<1>1. b \in Actors /\ Busily(b) /\ LeaseInv(b)
  BY BuildIsActor DEF Heartbeat, Busily, Safe, SafeInv
<1>2. ResourcesOK
  BY SameResources DEF Heartbeat, Safe
<1>3. CASE lease' = [lease EXCEPT ![b].fresh = TRUE] /\ UNCHANGED actor
  <2>1. lease' = [lease EXCEPT ![b] = m]
    BY <1>3
  <2>2. /\ m \in LeaseRecord /\ m.state = lease[b].state
        /\ m.ext = lease[b].ext /\ m.expired = lease[b].expired
    BY SetFresh DEF Safe, TypeOK
  <2>3. LeasesOK
    <3> HIDE DEF m
    <3> QED
      BY <1>1, <1>2, <2>1, <2>2, LeaseTo, ForwardTo DEF LeaseInv
  <2> QED
    BY <1>2, <1>3, <2>3, QuietSafe DEF Heartbeat, Safe, TypeOK
<1>4. CASE Goto(b, "terminate") /\ UNCHANGED lease
  <2>1. LeasesOK /\ ActorOK(b)
    BY <1>1, <1>2, <1>4, SameLeases, GotoOK DEF Step
  <2> QED
    BY <1>1, <1>2, <2>1, StepSafe DEF Heartbeat, Safe, TypeOK
<1> QED
  BY <1>3, <1>4 DEF Heartbeat

LEMMA EndCommandSafe ==
  ASSUME Safe, NEW b \in Builds, EndCommand(b)
  PROVE  Onward
<1>1. b \in Actors /\ Busily(b)
  BY BuildIsActor DEF EndCommand, Busily
<1>2. ResourcesOK /\ LeasesOK
  BY SameResources, SameLeases DEF EndCommand, Safe
<1>3. ActorOK(b)
  BY <1>1, <1>2, GotoOK DEF EndCommand, Step, Relying
<1> QED
  BY <1>1, <1>2, <1>3, StepSafe DEF EndCommand, Safe, TypeOK

\* An actor that destroys or confirms holds the resource of an ended lease.
LEMMA EndingSlot ==
  ASSUME Safe, LeasesOK, NEW p \in Actors, NEW s \in SlotRecord, Become(p, s),
         s.pc \in {"destroy", "confirm"}, s.build \in Builds,
         p \in Builds => s.build = p,
         lease'[s.build].state \in Over, lease'[s.build].ext = s.ref
  PROVE  ActorOK(p)
<1>1. actor'[p] = s
  BY BecomeOthers DEF Safe
<1>2. s.ref # NoRef => resource'[s.ref].state # "none"
  BY DEF LeasesOK, LeaseInv
<1>3. ActorInv(p)'
  BY <1>1, <1>2 DEF ActorInv
<1> QED
  BY <1>3, BecomeOthers DEF ActorOK, Safe

LEMMA TerminateSafe ==
  ASSUME Safe, NEW p \in Actors, Terminate(p)
  PROVE  Onward
<1> DEFINE b == actor[p].build
           r == lease[b].ext
           l == IF r = NoRef THEN "confirm" ELSE "destroy"
           s == [actor[p] EXCEPT !.pc = l, !.ref = r]
<1>1. Busily(p)
  BY DEF Terminate, Busily
<1>2. ResourcesOK
  BY SameResources DEF Terminate, Safe
<1>3. CASE Leave(p) /\ UNCHANGED lease
  BY <1>2, <1>3, LeaveOK, SameLeases, StepSafe DEF Terminate, Safe, TypeOK
<1>4. CASE lease' = [lease EXCEPT ![b].state = "terminating"] /\ GotoWith(p, l, r)
  <2>1. b \in Builds /\ (p \in Builds => b = p) /\ r \in Resources \cup {NoRef}
    BY <1>1, AtWork
  <2>2. LeasesOK
    BY <1>2, <1>4, <2>1, StateTo, ForwardTo DEF State
  <2>3. lease'[b].state \in Over /\ lease'[b].ext = r
    BY <1>4, <2>1, SetState DEF Safe, TypeOK, LeaseRecord, Over
  <2>4. s \in SlotRecord /\ s.pc \in {"destroy", "confirm"} /\ s.build = b /\ s.ref = r
    <3>1. actor[p] \in SlotRecord
      BY DEF Safe, TypeOK
    <3>2. l \in Step /\ l \in {"destroy", "confirm"}
      BY DEF Step
    <3> HIDE DEF l, r
    <3> QED
      BY <2>1, <3>1, <3>2 DEF SlotRecord
  <2>5. Become(p, s)
    BY <1>4 DEF GotoWith
  <2>6. ActorOK(p)
    <3> HIDE DEF s, l, r
    <3> QED
      BY <2>1, <2>2, <2>3, <2>4, <2>5, EndingSlot
  <2> QED
    BY <1>2, <2>2, <2>6, StepSafe DEF Terminate, Safe, TypeOK
<1> QED
  BY <1>3, <1>4 DEF Terminate

LEMMA DestroyBoundSafe ==
  ASSUME Safe, NEW p \in Actors, DestroyBound(p)
  PROVE  Onward
<1> DEFINE s == [actor[p] EXCEPT !.pc = "confirm"]
<1>1. Busily(p)
  BY DEF DestroyBound, Busily
<1>2. ResourcesOK
  BY <1>1, AtWork, DestroyOK DEF DestroyBound
<1>3. LeasesOK
  BY <1>2, SameLeases DEF DestroyBound
<1>4. ASSUME Goto(p, "confirm")
      PROVE  ActorOK(p)
  <2>1. ActorInv(p) /\ actor[p].pc = "destroy" /\ actor[p] \in SlotRecord
    BY DEF DestroyBound, Safe, SafeInv, TypeOK
  <2>2. /\ s \in SlotRecord /\ s.pc = "confirm"
        /\ s.build = actor[p].build /\ s.ref = actor[p].ref
    <3>1. "confirm" \in Step
      BY DEF Step
    <3> QED
      BY <2>1, <3>1, SlotGoto
  <2>3. Become(p, s)
    BY <1>4 DEF Goto
  <2>4. lease'[s.build].state \in Over /\ lease'[s.build].ext = s.ref
    BY <2>1, <2>2 DEF ActorInv, DestroyBound
  <2>5. s.build \in Builds /\ (p \in Builds => s.build = p)
    BY <1>1, <2>2, AtWork
  <2> HIDE DEF s
  <2> QED
    BY <1>3, <2>2, <2>3, <2>4, <2>5, EndingSlot
<1>5. ActorOK(p)
  BY <1>4, LeaveOK DEF DestroyBound
<1> QED
  BY <1>2, <1>3, <1>5, StepSafe DEF DestroyBound, Safe, TypeOK

LEMMA ConfirmSafe ==
  ASSUME Safe, NEW p \in Actors, Confirm(p)
  PROVE  Onward
<1>1. Busily(p)
  BY DEF Confirm, Busily
<1>2. ResourcesOK /\ ActorOK(p)
  BY SameResources, LeaveOK DEF Confirm, Safe
<1>3. LeasesOK
  BY <1>1, <1>2, AtWork, SameLeases, TransitionOK, ForwardTo DEF Confirm, State
<1> QED
  BY <1>2, <1>3, StepSafe DEF Confirm, Safe, TypeOK

-----------------------------------------------------------------------------
(* SandboxReconciler *)

\* The reconciler takes up a lease as it reads it.
LEMMA ScanSafe ==
  ASSUME Safe, NEW p \in Reconcilers, NEW b \in Builds, Scan(p, b)
  PROVE  Onward
<1> DEFINE l == lease[b]
           s == [Idle EXCEPT !.pc = Decision(l), !.build = b, !.ref = l.ext]
<1>1. p \in Actors /\ p \notin Builds
  BY SandboxLeaseAssumption DEF Actors
<1>2. ResourcesOK /\ LeasesOK
  BY SameResources, SameLeases DEF Scan, Safe
<1>3. LeaseInv(b) /\ l \in LeaseRecord
  BY DEF Safe, SafeInv, TypeOK
<1>4. l.state \in State \ {"terminated"} /\ l.ext \in Resources \cup {NoRef}
  BY <1>3, LeaseFields DEF Scan
<1>5. /\ Decision(l) \in {"terminate", "failReserved", "list", "checkBound",
                          "claimStale", "checkRunning", "checkReady"}
      /\ Decision(l) \in {"checkReady", "checkRunning"} => l.state \in Used
      /\ Decision(l) = "terminate" => l.expired \/ l.state \in Ended
  BY <1>4 DEF Decision, State, Used, Ended
<1>6. Decision(l) \in Step
  BY <1>5 DEF Step
<1>7. s \in SlotRecord /\ s.pc = Decision(l) /\ s.build = b /\ s.ref = l.ext
  BY <1>4, <1>6 DEF SlotRecord, Idle
<1>8. Become(p, s)
  BY DEF Scan
<1>9. ActorOK(p)
  <2> HIDE DEF s
  <2>1. actor'[p] = s
    BY <1>1, <1>7, <1>8, BecomeOthers DEF Safe
  <2>2. lease' = lease /\ resource' = resource
    BY DEF Scan
  <2>3. ActorInv(p)'
    BY <1>1, <1>3, <1>5, <1>7, <2>1, <2>2 DEF ActorInv, LeaseInv
  <2> QED
    BY <1>1, <1>7, <1>8, <2>3, BecomeOthers DEF ActorOK, Safe
<1> QED
  BY <1>1, <1>2, <1>9, StepSafe DEF Scan, Safe, TypeOK

LEMMA FailReservedSafe ==
  ASSUME Safe, NEW p \in Actors, FailReserved(p)
  PROVE  Onward
<1>1. Busily(p)
  BY DEF FailReserved, Busily
<1>2. ResourcesOK /\ ActorOK(p)
  BY SameResources, LeaveOK DEF FailReserved, Safe
<1>3. LeasesOK
  BY <1>1, <1>2, AtWork, TransitionOK, ForwardTo DEF FailReserved, State
<1> QED
  BY <1>2, <1>3, StepSafe DEF FailReserved, Safe, TypeOK

LEMMA ClaimStaleSafe ==
  ASSUME Safe, NEW p \in Actors, ClaimStale(p)
  PROVE  Onward
<1> DEFINE b == actor[p].build
           s == [actor[p] EXCEPT !.pc = "terminate"]
<1>1. Busily(p) /\ b \in Builds /\ actor[p] \in SlotRecord
  BY AtWork DEF ClaimStale, Busily, Safe, TypeOK
<1>2. ResourcesOK
  BY SameResources DEF ClaimStale, Safe
<1>3. CASE Leave(p) /\ UNCHANGED lease
  BY <1>2, <1>3, LeaveOK, SameLeases, StepSafe DEF ClaimStale, Safe, TypeOK
<1>4. CASE lease' = [lease EXCEPT ![b].state = "terminating"] /\ Goto(p, "terminate")
  <2>1. LeasesOK
    BY <1>1, <1>2, <1>4, StateTo, ForwardTo DEF State
  <2>2. lease'[b].state \in Ended
    BY <1>1, <1>4, SetState DEF Safe, TypeOK, LeaseRecord, Ended
  <2>3. /\ s \in SlotRecord /\ s.pc = "terminate"
        /\ s.build = b /\ s.ref = actor[p].ref
    <3>1. "terminate" \in Step
      BY DEF Step
    <3> QED
      BY <1>1, <3>1, SlotGoto
  <2>4. ActorOK(p)
    <3>1. Become(p, s)
      BY <1>4 DEF Goto
    <3>2. s.ref # NoRef => resource'[s.ref].state # "none"
      BY <1>1, <2>3, AtWork DEF ClaimStale
    <3>3. p \in Builds => b = p
      BY <1>1, AtWork
    <3> HIDE DEF s, b
    <3>4. actor'[p] = s
      BY <2>3, <3>1, BecomeOthers DEF Safe
    <3>5. ActorInv(p)'
      BY <1>1, <2>2, <2>3, <3>2, <3>3, <3>4 DEF ActorInv
    <3> QED
      BY <2>3, <3>1, <3>5, BecomeOthers DEF ActorOK, Safe
  <2> QED
    BY <1>2, <2>1, <2>4, StepSafe DEF ClaimStale, Safe, TypeOK
<1> QED
  BY <1>3, <1>4 DEF ClaimStale

\* The copy of a lease in use still names its resource.
LEMMA CheckUsedSafe ==
  ASSUME Safe, NEW p \in Actors, NEW from \in {"ready", "running"}, CheckUsed(p, from)
  PROVE  Onward
<1> DEFINE b == actor[p].build
<1>1. actor[p].pc \in {"checkReady", "checkRunning"}
  BY DEF CheckUsed
<1>2. Busily(p) /\ b \in Builds /\ lease[b].ext = actor[p].ref
  BY <1>1, AtWork DEF Busily, Safe, SafeInv, ActorInv
<1>3. ResourcesOK /\ ActorOK(p)
  BY SameResources, LeaveOK DEF CheckUsed, Safe
<1>4. CASE Present(actor[p].ref)
  <2>1. LeasesOK
    BY <1>3, <1>4, SameLeases DEF CheckUsed
  <2> QED
    BY <1>3, <2>1, StepSafe DEF CheckUsed, Safe, TypeOK
<1>5. CASE ~Present(actor[p].ref)
  <2>1. ~Present(lease[b].ext)
    BY <1>2, <1>5
  <2>2. lease[b].state = from => Forward(lease[b].state, "lost")
    BY ForwardTo
  <2>3. LeasesOK
    BY <1>2, <1>3, <1>5, <2>1, <2>2, TransitionOK DEF CheckUsed, State
  <2> QED
    BY <1>3, <2>3, StepSafe DEF CheckUsed, Safe, TypeOK
<1> QED
  BY <1>4, <1>5

LEMMA CheckBoundSafe ==
  ASSUME Safe, NEW p \in Actors, CheckBound(p)
  PROVE  Onward
<1> DEFINE b == actor[p].build
           m == [lease[b] EXCEPT !.ext = NoRef]
<1>1. Busily(p) /\ b \in Builds
  BY AtWork DEF CheckBound, Busily
<1>2. ResourcesOK
  BY SameResources DEF CheckBound, Safe
<1>3. CASE GotoWith(p, "claim", NoRef) /\ UNCHANGED lease
  <2>1. LeasesOK /\ ActorOK(p)
    BY <1>1, <1>2, <1>3, SameLeases, GotoWithOK DEF Step, Relying
  <2> QED
    BY <1>2, <2>1, StepSafe DEF CheckBound, Safe, TypeOK
<1>4. CASE /\ lease[b].state = "provisioning"
           /\ lease' = [lease EXCEPT ![b].ext = NoRef]
           /\ GotoWith(p, "list", NoRef)
  <2>1. ActorOK(p)
    BY <1>1, <1>4, GotoWithOK DEF Step, Relying
  <2>2. lease' = [lease EXCEPT ![b] = m]
    BY <1>4
  <2>3. /\ m \in LeaseRecord /\ m.state = lease[b].state
        /\ m.ext = NoRef /\ m.expired = lease[b].expired
    BY <1>1, SetExt DEF Safe, TypeOK
  <2>4. LeasesOK
    <3> HIDE DEF m
    <3> QED
      BY <1>1, <1>2, <1>4, <2>2, <2>3, LeaseTo, ForwardTo
  <2> QED
    BY <1>2, <2>1, <2>4, StepSafe DEF CheckBound, Safe, TypeOK
<1>5. CASE Leave(p) /\ UNCHANGED lease
  BY <1>2, <1>5, LeaveOK, SameLeases, StepSafe DEF CheckBound, Safe, TypeOK
<1> QED
  BY <1>3, <1>4, <1>5 DEF CheckBound

LEMMA ListSafe ==
  ASSUME Safe, NEW p \in Actors, List(p)
  PROVE  Onward
<1>1. Busily(p) /\ actor[p] \in SlotRecord
  BY DEF List, Busily, Safe, TypeOK
<1>2. ResourcesOK /\ LeasesOK
  BY SameResources, SameLeases DEF List, Safe
<1>3. ASSUME Goto(p, "lookup")
      PROVE  ActorOK(p)
  BY <1>1, <1>2, <1>3, GotoOK DEF Step, Relying
<1>4. ASSUME NEW r \in Resources, Oldest(r, Found(actor[p].build)),
             Become(p, [actor[p] EXCEPT !.pc = "destroyDuplicates", !.ref = r,
                                        !.dups = Found(actor[p].build) \ {r}])
      PROVE  ActorOK(p)
  <2> DEFINE s == [actor[p] EXCEPT !.pc = "destroyDuplicates", !.ref = r,
                                   !.dups = Found(actor[p].build) \ {r}]
  <2>1. Found(actor[p].build) \ {r} \in SUBSET Resources
    BY DEF Found
  <2>2. /\ s \in SlotRecord /\ s.pc = "destroyDuplicates"
        /\ s.build = actor[p].build /\ s.ref = r
    BY <1>1, <2>1 DEF SlotRecord, Step
  <2>3. resource'[r].state # "none"
    BY <1>4 DEF Oldest, Found, Present, List
  <2>4. s.build \in Builds /\ (p \in Builds => s.build = p)
    BY <1>1, <2>2, AtWork
  <2>5. Become(p, s)
    BY <1>4
  <2> HIDE DEF s
  <2> QED
    BY <2>2, <2>3, <2>4, <2>5, PlainSlot DEF Safe, Relying
<1>5. ActorOK(p)
  BY <1>3, <1>4 DEF List
<1> QED
  BY <1>2, <1>5, StepSafe DEF List, Safe, TypeOK

LEMMA DestroyDuplicatesSafe ==
  ASSUME Safe, NEW p \in Actors, DestroyDuplicates(p)
  PROVE  Onward
<1>1. Busily(p) /\ actor[p] \in SlotRecord
  BY DEF DestroyDuplicates, Busily, Safe, TypeOK
<1>2. CASE Goto(p, "bind") /\ UNCHANGED resource
  <2>1. ResourcesOK /\ LeasesOK
    BY <1>2, SameResources, SameLeases DEF DestroyDuplicates, Safe
  <2>2. ActorOK(p)
    BY <1>1, <1>2, <2>1, GotoOK DEF Step, Relying
  <2> QED
    BY <2>1, <2>2, StepSafe DEF DestroyDuplicates, Safe, TypeOK
<1>3. ASSUME NEW d \in Resources, NEW reply \in Reply, Destroy(d, reply),
             IF reply = "error"
               THEN Leave(p)
               ELSE Become(p, [actor[p] EXCEPT !.dups = @ \ {d}])
      PROVE  Onward
  <2> DEFINE s == [actor[p] EXCEPT !.dups = @ \ {d}]
  <2>1. ResourcesOK
    BY <1>3, DestroyOK
  <2>2. LeasesOK
    BY <2>1, SameLeases DEF DestroyDuplicates
  <2>3. CASE Leave(p)
    BY <2>1, <2>2, <2>3, LeaveOK, StepSafe DEF DestroyDuplicates, Safe, TypeOK
  <2>4. CASE Become(p, s)
    <3>1. /\ s \in SlotRecord /\ s.pc = "destroyDuplicates"
          /\ s.build = actor[p].build /\ s.ref = actor[p].ref
      BY <1>1 DEF SlotRecord, DestroyDuplicates
    <3>2. s.build \in Builds /\ (p \in Builds => s.build = p)
      BY <1>1, <3>1, AtWork
    <3>3. s.ref # NoRef => resource'[s.ref].state # "none"
      BY <1>1, <2>1, <3>1, AtWork DEF ResourcesOK, ResourceStep
    <3>4. ActorOK(p)
      <4> HIDE DEF s
      <4> QED
        BY <2>4, <3>1, <3>2, <3>3, PlainSlot DEF Safe, Relying
    <3> QED
      BY <2>1, <2>2, <3>4, StepSafe DEF DestroyDuplicates, Safe, TypeOK
  <2> QED
    BY <1>3, <2>3, <2>4
<1> QED
  BY <1>2, <1>3 DEF DestroyDuplicates

LEMMA ClaimSafe ==
  ASSUME Safe, NEW p \in Actors, Claim(p)
  PROVE  Onward
<1>1. Busily(p)
  BY DEF Claim, Busily
<1>2. ResourcesOK /\ LeasesOK
  BY SameResources, SameLeases DEF Claim, Safe
<1>3. ActorOK(p)
  BY <1>1, <1>2, GotoOK, LeaveOK DEF Claim, Step, Relying
<1> QED
  BY <1>2, <1>3, StepSafe DEF Claim, Safe, TypeOK

LEMMA OrphanFoundSafe ==
  ASSUME Safe, NEW p \in Reconcilers, NEW r \in Resources, OrphanFound(p, r)
  PROVE  Onward
<1> DEFINE s == [actor[p] EXCEPT !.pc = "destroyOrphan", !.ref = r]
<1>1. p \in Actors /\ p \notin Builds
  BY SandboxLeaseAssumption DEF Actors
<1>2. ResourcesOK /\ LeasesOK
  BY SameResources, SameLeases DEF OrphanFound, Safe
<1>3. s \in SlotRecord /\ s.pc = "destroyOrphan" /\ s.ref = r
  BY <1>1 DEF Safe, TypeOK, SlotRecord, Step
<1>4. Become(p, s)
  BY DEF OrphanFound, GotoWith
<1>5. resource'[r].state # "none"
  BY DEF OrphanFound, Present
<1>6. ActorOK(p)
  <2> HIDE DEF s
  <2> QED
    BY <1>1, <1>3, <1>4, <1>5, PlainSlot DEF Safe, Relying
<1> QED
  BY <1>1, <1>2, <1>6, StepSafe DEF OrphanFound, Safe, TypeOK

LEMMA DestroyOrphanSafe ==
  ASSUME Safe, NEW p \in Actors, DestroyOrphan(p)
  PROVE  Onward
<1>1. actor[p].ref \in Resources \cup {NoRef}
  BY SlotFields DEF Safe, TypeOK
<1>2. ResourcesOK
  BY <1>1, DestroyOK DEF DestroyOrphan
<1>3. LeasesOK /\ ActorOK(p)
  BY <1>2, SameLeases, LeaveOK DEF DestroyOrphan
<1> QED
  BY <1>2, <1>3, StepSafe DEF DestroyOrphan, Safe, TypeOK

-----------------------------------------------------------------------------
(* Time, failures and the provider *)

LEMMA LeaseExpiresSafe ==
  ASSUME Safe, NEW b \in Builds, LeaseExpires(b)
  PROVE  Onward
<1> DEFINE m == [lease[b] EXCEPT !.expired = TRUE]
<1>1. ResourcesOK
  BY SameResources DEF LeaseExpires, Safe
<1>2. lease' = [lease EXCEPT ![b] = m]
  BY DEF LeaseExpires
<1>3. /\ m \in LeaseRecord /\ m.state = lease[b].state
      /\ m.ext = lease[b].ext /\ m.expired
  BY SetExpired DEF Safe, TypeOK
<1>4. LeasesOK
  <2>1. LeaseInv(b)
    BY DEF Safe, SafeInv
  <2> HIDE DEF m
  <2> QED
    BY <1>1, <1>2, <1>3, <2>1, LeaseTo, ForwardTo DEF LeaseInv
<1> QED
  BY <1>1, <1>4, QuietSafe DEF LeaseExpires, Safe, TypeOK

LEMMA HeartbeatAgesSafe ==
  ASSUME Safe, NEW b \in Builds, HeartbeatAges(b)
  PROVE  Onward
<1> DEFINE m == [lease[b] EXCEPT !.fresh = FALSE]
<1>1. ResourcesOK
  BY SameResources DEF HeartbeatAges, Safe
<1>2. lease' = [lease EXCEPT ![b] = m]
  BY DEF HeartbeatAges
<1>3. /\ m \in LeaseRecord /\ m.state = lease[b].state
      /\ m.ext = lease[b].ext /\ m.expired = lease[b].expired
  BY SetFresh DEF Safe, TypeOK
<1>4. LeasesOK
  <2>1. LeaseInv(b)
    BY DEF Safe, SafeInv
  <2> HIDE DEF m
  <2> QED
    BY <1>1, <1>2, <1>3, <2>1, LeaseTo, ForwardTo DEF LeaseInv
<1> QED
  BY <1>1, <1>4, QuietSafe DEF HeartbeatAges, Safe, TypeOK

LEMMA ProviderSafe ==
  ASSUME Safe, NEW r \in Resources, DestroyCompletes(r) \/ ResourceDies(r)
  PROVE  Onward
<1>1. resource' = [resource EXCEPT ![r].state = "gone"]
  BY DEF DestroyCompletes, ResourceDies
<1>2. ResourcesOK
  BY <1>1, ResourceTo DEF Safe
<1>3. LeasesOK
  BY <1>2, SameLeases DEF DestroyCompletes, ResourceDies
<1>4. deaths' \in Nat /\ faults' \in Nat /\ actor' = actor
  BY DEF DestroyCompletes, ResourceDies, Safe, TypeOK
<1> QED
  BY <1>2, <1>3, <1>4, QuietSafe

LEMMA ThrowSafe ==
  ASSUME Safe, NEW p \in Actors, Throw(p)
  PROVE  Onward
<1>1. ResourcesOK /\ LeasesOK
  BY SameResources, SameLeases DEF Throw, Safe
<1>2. ASSUME actor[p].pc = "markReady", Goto(p, "cleanup")
      PROVE  ActorOK(p)
  BY <1>1, <1>2, GotoOK DEF Step, Relying, Busily
<1>3. ActorOK(p)
  BY <1>2, LeaveOK DEF Throw
<1>4. deaths' \in Nat /\ faults' \in Nat
  BY DEF Throw, Safe, TypeOK
<1> QED
  BY <1>1, <1>3, <1>4, StepSafe

-----------------------------------------------------------------------------
(* The invariant *)

LEMMA InitSafe ==
  ASSUME Init
  PROVE  Safe
<1>1. NoLease \in LeaseRecord /\ NoLease.ext = NoRef /\ NoLease.state = "none"
  BY DEF NoLease, LeaseRecord
<1>2. lease \in [Builds -> LeaseRecord] /\ \A b \in Builds : LeaseInv(b)
  BY <1>1 DEF Init, LeaseInv
<1>3. resource \in [Resources -> ResourceRecord]
  BY DEF Init, ResourceRecord
<1>4. ASSUME NEW p \in Actors
      PROVE  actor[p] \in SlotRecord /\ ActorInv(p)
  <2>1. CASE p \in Builds
    <3>1. actor[p] = Validator(p, "start") /\ "start" \in Step
      BY <2>1 DEF Init, Step
    <3> QED
      BY <2>1, <3>1, ValidatorSlot DEF ActorInv
  <2>2. CASE p \notin Builds
    <3>1. actor[p] = Idle
      BY <2>2 DEF Init
    <3> QED
      BY <2>2, <3>1, IdleSlot DEF ActorInv
  <2> QED
    BY <2>1, <2>2
<1>5. actor \in [Actors -> SlotRecord]
  BY <1>4 DEF Init
<1> QED
  BY <1>2, <1>3, <1>4, <1>5 DEF Safe, SafeInv, TypeOK, Init

LEMMA WorkSafe ==
  ASSUME Safe, NEW p \in Actors, Work(p)
  PROVE  Onward
<1>1. CASE Provisioning(p)
  BY <1>1, LookupSafe, CreateSafe, CreateRejectedSafe, BindSafe, ResumeSafe,
     ConnectSafe, MarkReadySafe, CleanupSafe, CleanupDestroySafe,
     CleanupSettleSafe DEF Provisioning
<1>2. CASE Terminating(p)
  BY <1>2, TerminateSafe, DestroyBoundSafe, ConfirmSafe DEF Terminating
<1>3. CASE p \in Builds /\ Validate(p)
  BY <1>3, ReserveSafe, ProvisionSafe, RunCommandSafe, EndCommandSafe DEF Validate
<1>4. CASE Reconcile(p)
  BY <1>4, FailReservedSafe, ClaimStaleSafe, CheckUsedSafe, CheckBoundSafe,
     ListSafe, DestroyDuplicatesSafe, ClaimSafe, DestroyOrphanSafe DEF Reconcile
<1> QED
  BY <1>1, <1>2, <1>3, <1>4 DEF Work

LEMMA NextSafe ==
  ASSUME Safe, [Next]_vars
  PROVE  Onward
<1>1. CASE \E p \in Actors : Work(p) \/ Throw(p)
  BY <1>1, WorkSafe, ThrowSafe
<1>2. CASE \E b \in Builds : Heartbeat(b)
  BY <1>2, HeartbeatSafe
<1>3. CASE \E p \in Reconcilers, b \in Builds : Scan(p, b)
  BY <1>3, ScanSafe
<1>4. CASE \E p \in Reconcilers, r \in Resources : OrphanFound(p, r)
  BY <1>4, OrphanFoundSafe
<1>5. CASE Environment
  BY <1>5, LeaseExpiresSafe, HeartbeatAgesSafe, ProviderSafe DEF Environment
<1>6. CASE UNCHANGED vars
  <2>1. ResourcesOK /\ LeasesOK
    BY <1>6, SameResources, SameLeases DEF vars, Safe
  <2> QED
    BY <1>6, <2>1, QuietSafe DEF vars, Safe, TypeOK
<1> QED
  BY <1>1, <1>2, <1>3, <1>4, <1>5, <1>6 DEF Next

LEMMA AlwaysSafe == Spec => []Safe
<1>1. Init => Safe
  BY InitSafe
<1>2. Safe /\ [Next]_vars => Safe'
  BY NextSafe DEF Onward
<1> QED
  BY <1>1, <1>2, PTL DEF Spec

\* The state keeps its shape: every lease is in a state of the schema and every
\* actor in a step of its code, for any builds, reconcilers and bounds.
THEOREM SandboxTypeCorrect == Spec => []TypeOK
<1>1. Safe => TypeOK
  BY DEF Safe
<1> QED
  BY <1>1, AlwaysSafe, PTL

\* The inductive invariant: an externalId is final once the lease has been
\* used, so what SandboxReconciler and terminate have read stays true.
THEOREM SafeInvCorrect == Spec => []SafeInv
<1>1. Safe => SafeInv
  BY DEF Safe
<1> QED
  BY <1>1, AlwaysSafe, PTL

\* Neither the reconciler nor runBuildCommand calls a lease lost whose resource
\* is still there.
THEOREM LostCorrect == Spec => []LostMeansGone
<1>1. Safe => LostMeansGone
  BY DEF Safe, SafeInv, LeaseInv, LostMeansGone
<1> QED
  BY <1>1, AlwaysSafe, PTL

-----------------------------------------------------------------------------
(* Who changes the state of a lease *)

LEMMA Moved ==
  ASSUME TypeOK, NEW b \in Builds, NEW c \in Builds, NEW s \in State,
         lease' = [lease EXCEPT ![c].state = s], lease'[b].state # lease[b].state
  PROVE  b = c /\ lease'[b].state = s
BY SetState DEF TypeOK, LeaseRecord

LEMMA MovedFrom ==
  ASSUME TypeOK, NEW b \in Builds, NEW c \in Builds, NEW from, NEW s \in State,
         lease' = transition(c, from, s), lease'[b].state # lease[b].state
  PROVE  b = c /\ lease'[b].state = s /\ lease[b].state \in from
BY Moved DEF transition

\* What can have happened to a lease whose state has changed.
Mover(b) ==
  \/ lease[b].state \notin {"running", "terminating"} /\ lease'[b].state # "terminated"
  \/ actor'[b].pc # actor[b].pc /\ lease'[b].state # "terminated"
  \/ lease[b].expired /\ lease'[b].state # "terminated"
  \/ ~lease[b].fresh /\ lease'[b].state # "terminated"
  \/ ~Present(lease[b].ext)
  \/ lease[b].state = "terminating" /\ \E p \in Actors : CleanupSettle(p)

LEMMA ProvisioningMoves ==
  ASSUME Safe, NEW p \in Actors, Provisioning(p), NEW b \in Builds,
         lease'[b].state # lease[b].state
  PROVE  Mover(b)
<1> DEFINE c == actor[p].build
<1>1. CASE UNCHANGED lease
  BY <1>1
<1>2. CASE CleanupSettle(p)
  <2>1. c \in Builds
    BY <1>2, AtWork DEF CleanupSettle, Busily
  <2>2. lease[b].state = "terminating"
    BY <1>2, <2>1, MovedFrom DEF CleanupSettle, Safe, State
  <2> QED
    BY <1>2, <2>2 DEF Mover
<1>3. CASE Bind(p)
  <2>1. c \in Builds
    BY <1>3, AtWork DEF Bind, Busily
  <2>2. lease'[b].state = lease[b].state
    BY <1>3, <2>1, SetExt DEF Bind, Safe, TypeOK, LeaseRecord
  <2> QED
    BY <2>2
<1>4. ASSUME NEW s \in {"ready", "failed", "terminating"}, c \in Builds,
             lease' = transition(c, {"provisioning"}, s)
      PROVE  Mover(b)
  BY <1>4, MovedFrom DEF Mover, Safe, State
<1>5. CASE Create(p) \/ CreateRejected(p) \/ MarkReady(p) \/ Cleanup(p)
  <2>1. c \in Builds /\ (p \in Builds => c = p)
    BY <1>5, AtWork DEF Create, CreateRejected, MarkReady, Cleanup, Busily
  <2> QED
    BY <1>1, <1>4, <1>5, <2>1 DEF Create, CreateRejected, MarkReady, Cleanup
<1> QED
  BY <1>1, <1>2, <1>3, <1>5
     DEF Provisioning, Lookup, Resume, Connect, CleanupDestroy

LEMMA TerminatingMoves ==
  ASSUME Safe, NEW p \in Actors, Terminating(p), NEW b \in Builds,
         lease'[b].state # lease[b].state
  PROVE  Mover(b)
<1> DEFINE c == actor[p].build
<1>1. CASE Terminate(p)
  <2>1. c \in Builds /\ (p \in Builds => c = p) /\ ActorInv(p) /\ actor[p] \in SlotRecord
    BY <1>1, AtWork DEF Terminate, Busily, Safe, SafeInv, TypeOK
  <2>2. lease' = [lease EXCEPT ![c].state = "terminating"]
    BY <1>1 DEF Terminate
  <2>3. b = c /\ lease'[b].state = "terminating"
    BY <2>1, <2>2, Moved DEF Safe, State
  <2>4. CASE p \in Builds
    <3>1. \E l \in {"confirm", "destroy"} : GotoWith(p, l, lease[c].ext)
      BY <1>1, <2>3 DEF Terminate
    <3>2. actor'[b].pc \in {"confirm", "destroy"}
      BY <2>1, <2>3, <2>4, <3>1 DEF GotoWith, Become, Safe, TypeOK, SlotRecord
    <3> QED
      BY <1>1, <2>1, <2>3, <2>4, <3>2 DEF Mover, Terminate
  <2>5. CASE p \notin Builds
    <3>1. lease[b].expired \/ lease[b].state \in Ended
      BY <1>1, <2>1, <2>3, <2>5 DEF ActorInv, Terminate
    <3> QED
      BY <2>3, <3>1 DEF Mover, Ended
  <2> QED
    BY <2>4, <2>5
<1>2. CASE DestroyBound(p)
  BY <1>2 DEF DestroyBound
<1>3. CASE Confirm(p)
  <2>1. c \in Builds /\ lease[c].ext = actor[p].ref
    BY <1>3, AtWork DEF Confirm, Busily, Safe, SafeInv, ActorInv
  <2>2. ~Present(actor[p].ref)
    BY <1>3 DEF Confirm
  <2>3. b = c
    BY <1>3, <2>1, MovedFrom DEF Confirm, Safe, State
  <2> QED
    BY <2>1, <2>2, <2>3 DEF Mover
<1> QED
  BY <1>1, <1>2, <1>3 DEF Terminating

LEMMA ValidateMoves ==
  ASSUME Safe, NEW c \in Builds, Validate(c) \/ Heartbeat(c), NEW b \in Builds,
         lease'[b].state # lease[b].state
  PROVE  Mover(b)
<1>1. c \in Actors /\ actor[c] \in SlotRecord /\ lease[c] \in LeaseRecord
  BY BuildIsActor DEF Safe, TypeOK
<1>2. CASE Reserve(c)
  <2>1. lease' = [lease EXCEPT ![c].state = "reserved"] /\ lease[c].state = "none"
    BY <1>2 DEF Reserve
  <2> QED
    BY <2>1, Moved DEF Mover, Safe, State
<1>3. CASE Provision(c)
  BY <1>3, MovedFrom DEF Provision, Mover, Safe, State
<1>4. CASE RunCommand(c)
  <2>1. b = c
    BY <1>4, Moved, MovedFrom DEF RunCommand, Safe, TypeOK, LeaseRecord, State
  <2>2. lease'[b].state \in {"running", "lost"}
    BY <1>1, <1>4, <2>1 DEF RunCommand, transition, Safe, TypeOK, LeaseRecord
  <2>3. actor'[c].pc \in {"exec", "terminate"}
    <3>1. Goto(c, "terminate") \/ GotoWith(c, "exec", lease[c].ext)
      BY <1>4 DEF RunCommand
    <3>2. lease[c].ext \in Resources \cup {NoRef}
      BY <1>1, LeaseFields
    <3>3. /\ [actor[c] EXCEPT !.pc = "terminate"].pc = "terminate"
          /\ [actor[c] EXCEPT !.pc = "exec", !.ref = lease[c].ext].pc = "exec"
      BY <1>1 DEF SlotRecord
    <3>4. \A s : Become(c, s) => actor'[c] = s
      BY <1>1 DEF Become, Safe, TypeOK
    <3> QED
      BY <3>1, <3>3, <3>4 DEF Goto, GotoWith
  <2> QED
    BY <1>4, <2>1, <2>2, <2>3 DEF Mover, RunCommand
<1>5. CASE EndCommand(c)
  BY <1>5 DEF EndCommand
<1>6. CASE Heartbeat(c)
  BY <1>1, <1>6 DEF Heartbeat, Safe, TypeOK, LeaseRecord
<1> QED
  BY <1>2, <1>3, <1>4, <1>5, <1>6 DEF Validate

LEMMA ReconcileMoves ==
  ASSUME Safe, NEW p \in Actors, Reconcile(p), NEW b \in Builds,
         lease'[b].state # lease[b].state
  PROVE  Mover(b)
<1> DEFINE c == actor[p].build
<1>1. CASE FailReserved(p)
  <2>1. c \in Builds
    BY <1>1, AtWork DEF FailReserved, Busily
  <2> QED
    BY <1>1, <2>1, MovedFrom DEF FailReserved, Mover, Safe, State
<1>2. CASE ClaimStale(p)
  <2>1. c \in Builds
    BY <1>2, AtWork DEF ClaimStale, Busily
  <2>2. lease' = [lease EXCEPT ![c].state = "terminating"] /\ ~lease[c].fresh
    BY <1>2 DEF ClaimStale
  <2> QED
    BY <2>1, <2>2, Moved DEF Mover, Safe, State
<1>3. ASSUME NEW from \in {"ready", "running"}, CheckUsed(p, from)
      PROVE  Mover(b)
  <2>1. c \in Builds /\ lease[c].ext = actor[p].ref
    BY <1>3, AtWork DEF CheckUsed, Busily, Safe, SafeInv, ActorInv
  <2>2. ~Present(actor[p].ref)
    BY <1>3 DEF CheckUsed
  <2>3. b = c
    BY <1>3, <2>1, <2>2, MovedFrom DEF CheckUsed, Safe, State
  <2> QED
    BY <2>1, <2>2, <2>3 DEF Mover
<1>4. CASE CheckBound(p)
  <2>1. c \in Builds
    BY <1>4, AtWork DEF CheckBound, Busily
  <2>2. lease'[b].state = lease[b].state
    BY <1>4, <2>1 DEF CheckBound, Safe, TypeOK, LeaseRecord
  <2> QED
    BY <2>2
<1> QED
  BY <1>1, <1>2, <1>3, <1>4
     DEF Reconcile, List, DestroyDuplicates, Claim, DestroyOrphan

\* A lease changes its state only before its build, by its own validator, when
\* it is expired or stale, when its resource is missing, or in the clean-up.
LEMMA WhoMoves ==
  ASSUME Safe, [Next]_vars, NEW b \in Builds, lease'[b].state # lease[b].state
  PROVE  Mover(b)
<1>1. CASE \E p \in Actors : Work(p)
  BY <1>1, ProvisioningMoves, TerminatingMoves, ValidateMoves, ReconcileMoves DEF Work
<1>2. CASE \E c \in Builds : Heartbeat(c)
  BY <1>2, ValidateMoves
<1>3. CASE Environment
  <2>1. ASSUME NEW c \in Builds, LeaseExpires(c) \/ HeartbeatAges(c)
        PROVE  lease'[b].state = lease[b].state
    BY <2>1 DEF LeaseExpires, HeartbeatAges, Safe, TypeOK, LeaseRecord
  <2> QED
    BY <1>3, <2>1 DEF Environment, DestroyCompletes, ResourceDies
<1> QED
  BY <1>1, <1>2, <1>3 DEF Next, vars, Throw, Scan, OrphanFound

\* No reconciler takes a running lease whose heartbeat is fresh, although it
\* works on copies that may be older than the heartbeat.
THEOREM FreshSafe == Spec => NoPreemptFresh
<1> DEFINE Fresher ==
      \A b \in Builds :
        /\ lease[b].state = "running" /\ lease[b].fresh /\ ~lease[b].expired
        /\ lease'[b].state # "running" /\ Present(lease[b].ext)
        => actor'[b].pc # actor[b].pc
<1>1. Safe /\ [Next]_vars => Fresher
  BY WhoMoves DEF Mover
<1>2. Safe /\ [Next]_vars => [Fresher]_vars
  BY <1>1
<1> QED
  BY <1>2, AlwaysSafe, PTL DEF Spec, NoPreemptFresh

\* A lease is terminated only when its resource is missing, or by the clean-up
\* of failed provisioning, which does not look.
THEOREM ConfirmedTermination == Spec => TerminatedOnlyWhenGone
<1> DEFINE Confirmed ==
      \A b \in Builds :
        lease[b].state # "terminated" /\ lease'[b].state = "terminated" =>
          ~Present(lease[b].ext) \/ \E p \in Actors : CleanupSettle(p)
<1>1. Safe /\ [Next]_vars => Confirmed
  BY WhoMoves DEF Mover
<1>2. Safe /\ [Next]_vars => [Confirmed]_vars
  BY <1>1
<1> QED
  BY <1>2, AlwaysSafe, PTL DEF Spec, TerminatedOnlyWhenGone

-----------------------------------------------------------------------------
(* One build at a time *)

\* The partial unique index.
Unique ==
  \A b, c \in Builds : lease[b].state \in Occupying /\ lease[c].state \in Occupying => b = c

\* Whoever is at work for a build has found its lease.
Begun(p) ==
  actor[p].pc \notin {"idle", "start", "done", "destroyOrphan"}
    => lease[actor[p].build].state # "none"

\* A command runs in the resource of a lease that stays bound to it.
ExecInv(b) ==
  actor[b].pc = "exec" =>
    /\ lease[b].state \in Used /\ lease[b].ext = actor[b].ref
    /\ actor[b].ref # NoRef
    /\ lease[b].state = "terminated" => resource[actor[b].ref].state # "live"

\* A reconciler that resumes provisioning holds a resource, and has destroyed it
\* before it settles the lease.
Resuming == {"connect", "markReady", "cleanup", "cleanupDestroy", "cleanupSettle"}
ResumeInv(p) ==
  actor[p].pc \in Resuming =>
    /\ actor[p].ref # NoRef
    /\ actor[p].pc = "cleanupSettle" => resource[actor[p].ref].state # "live"

OneBuildInv == /\ Unique
               /\ \A p \in Actors : Begun(p)
               /\ \A b \in Builds : ExecInv(b)
               /\ \A p \in Reconcilers : ResumeInv(p)

Fine(p) == /\ Begun(p)
           /\ p \in Builds => ExecInv(p)
           /\ p \in Reconcilers => ResumeInv(p)

\* A step changes one lease at most, which begins to occupy the branch only when no
\* other does.
Delta(b) ==
  /\ \A c \in Builds \ {b} : lease'[c] = lease[c]
  /\ lease'[b].state \in Occupying => lease[b].state \in Occupying \/ ~Busy(b)
OneDelta == UNCHANGED lease \/ \E b \in Builds : Delta(b)

LEMMA RecordDelta ==
  ASSUME Safe, NEW b \in Builds, NEW m \in LeaseRecord, lease' = [lease EXCEPT ![b] = m],
         m.state \in Occupying => lease[b].state \in Occupying \/ ~Busy(b)
  PROVE  OneDelta
<1>1. lease'[b] = m /\ \A c \in Builds \ {b} : lease'[c] = lease[c]
  BY DEF Safe, TypeOK
<1> QED
  BY <1>1 DEF Delta, OneDelta

LEMMA StateDelta ==
  ASSUME Safe, NEW b \in Builds, NEW s \in State, lease' = [lease EXCEPT ![b].state = s],
         s \in Occupying => lease[b].state \in Occupying \/ ~Busy(b)
  PROVE  OneDelta
<1> DEFINE m == [lease[b] EXCEPT !.state = s]
<1>1. m \in LeaseRecord /\ m.state = s
  BY SetState DEF Safe, TypeOK
<1>2. lease' = [lease EXCEPT ![b] = m]
  OBVIOUS
<1> HIDE DEF m
<1> QED
  BY <1>1, <1>2, RecordDelta

LEMMA TransitionDelta ==
  ASSUME Safe, NEW b \in Builds, NEW from, NEW s \in State, lease' = transition(b, from, s),
         from \subseteq Occupying \/ s \notin Occupying
  PROVE  OneDelta
<1>1. CASE lease[b].state \in from
  BY <1>1, StateDelta DEF transition
<1>2. CASE lease[b].state \notin from
  BY <1>2 DEF transition, OneDelta
<1> QED
  BY <1>1, <1>2

\* Ageing, expiry and heartbeats leave the state of a lease alone.
LEMMA TimeDelta ==
  ASSUME Safe, NEW b \in Builds, LeaseExpires(b) \/ HeartbeatAges(b) \/ Heartbeat(b)
  PROVE  OneDelta
<1>1. lease[b] \in LeaseRecord
  BY DEF Safe, TypeOK
<1>2. CASE LeaseExpires(b)
  <2> DEFINE m == [lease[b] EXCEPT !.expired = TRUE]
  <2>1. m \in LeaseRecord /\ m.state = lease[b].state
    BY <1>1, SetExpired
  <2>2. lease' = [lease EXCEPT ![b] = m]
    BY <1>2 DEF LeaseExpires
  <2> HIDE DEF m
  <2> QED
    BY <2>1, <2>2, RecordDelta
<1>3. ASSUME NEW f \in BOOLEAN, lease' = [lease EXCEPT ![b].fresh = f]
      PROVE  OneDelta
  <2> DEFINE m == [lease[b] EXCEPT !.fresh = f]
  <2>1. m \in LeaseRecord /\ m.state = lease[b].state
    BY <1>1, SetFresh
  <2>2. lease' = [lease EXCEPT ![b] = m]
    BY <1>3
  <2> HIDE DEF m
  <2> QED
    BY <2>1, <2>2, RecordDelta
<1>4. lease' = lease => OneDelta
  BY DEF OneDelta
<1> QED
  BY <1>2, <1>3, <1>4 DEF HeartbeatAges, Heartbeat

LEMMA ProvisioningDelta ==
  ASSUME Safe, NEW p \in Actors, Provisioning(p)
  PROVE  OneDelta
<1> DEFINE b == actor[p].build
<1>1. CASE UNCHANGED lease
  BY <1>1 DEF OneDelta
<1>2. CASE lease' # lease
  <2>1. b \in Builds /\ lease[b] \in LeaseRecord /\ (p \in Builds => b = p)
        /\ actor[p].ref \in Resources \cup {NoRef}
    BY <1>2, AtWork DEF Provisioning, Lookup, Create, CreateRejected, Bind, Resume,
       Connect, MarkReady, Cleanup, CleanupDestroy, CleanupSettle, Busily
  <2>2. {"failed", "ready", "terminating", "terminated"} \subseteq State
        /\ {"failed", "terminated"} \cap Occupying = {}
        /\ "provisioning" \in Occupying
    BY DEF State, Occupying
  <2>3. CASE Create(p) \/ CreateRejected(p)
    <3>1. lease' = transition(b, {"provisioning"}, "failed")
      BY <1>2, <2>1, <2>3 DEF Create, CreateRejected
    <3> QED
      BY <2>1, <2>2, <3>1, TransitionDelta
  <2>4. CASE Bind(p)
    <3> DEFINE r == actor[p].ref
               m == [lease[b] EXCEPT !.ext = r]
    <3>1. lease' = [lease EXCEPT ![b] = m]
      BY <1>2, <2>4 DEF Bind
    <3>2. m \in LeaseRecord /\ m.state = lease[b].state
      BY <2>1, SetExt
    <3> HIDE DEF m
    <3> QED
      BY <2>1, <3>1, <3>2, RecordDelta
  <2>5. CASE MarkReady(p)
    BY <2>1, <2>2, <2>5, TransitionDelta DEF MarkReady
  <2>6. CASE Cleanup(p)
    BY <2>1, <2>2, <2>6, TransitionDelta DEF Cleanup
  <2>7. CASE CleanupSettle(p)
    BY <2>1, <2>2, <2>7, TransitionDelta DEF CleanupSettle
  <2> QED
    BY <1>2, <2>3, <2>4, <2>5, <2>6, <2>7
       DEF Provisioning, Lookup, Resume, Connect, CleanupDestroy
<1> QED
  BY <1>1, <1>2

LEMMA TerminatingDelta ==
  ASSUME Safe, NEW p \in Actors, Begun(p), Terminating(p)
  PROVE  OneDelta
<1> DEFINE b == actor[p].build
<1>1. b \in Builds /\ lease[b] \in LeaseRecord
  BY AtWork DEF Terminating, Terminate, DestroyBound, Confirm, Busily
<1>2. {"terminating", "terminated"} \subseteq State /\ "terminated" \notin Occupying
      /\ State \subseteq Occupying \cup {"terminated", "failed", "lost"}
  BY DEF State, Occupying
<1>3. UNCHANGED lease => OneDelta
  BY DEF OneDelta
<1>4. CASE Terminate(p)
  <2>1. CASE lease' = [lease EXCEPT ![b].state = "terminating"]
    <3>1. lease[b].state \in State
      BY <1>1, <1>4, LeaseFields DEF Terminate, Begun
    <3>2. \/ /\ lease[b].state # "terminated"
             /\ lease[b].state \in {"failed", "lost"} => ~Busy(b)
          \/ UNCHANGED lease
      BY <1>4 DEF Terminate
    <3> QED
      BY <1>1, <1>2, <1>3, <2>1, <3>1, <3>2, StateDelta
  <2> QED
    BY <1>3, <1>4, <2>1 DEF Terminate
<1>5. CASE Confirm(p)
  <2>1. UNCHANGED lease \/ lease' = transition(b, {"terminating"}, "terminated")
    BY <1>5 DEF Confirm
  <2> QED
    BY <1>1, <1>2, <1>3, <2>1, TransitionDelta
<1> QED
  BY <1>3, <1>4, <1>5 DEF Terminating, DestroyBound

LEMMA ValidateDelta ==
  ASSUME Safe, NEW b \in Builds, Validate(b)
  PROVE  OneDelta
<1>1. lease[b] \in LeaseRecord
  BY DEF Safe, TypeOK
<1>2. {"reserved", "provisioning", "running", "lost"} \subseteq State
      /\ "lost" \notin Occupying /\ {"reserved", "ready", "running"} \subseteq Occupying
  BY DEF State, Occupying
<1>3. UNCHANGED lease => OneDelta
  BY DEF OneDelta
<1>4. CASE Reserve(b)
  BY <1>2, <1>3, <1>4, StateDelta DEF Reserve
<1>5. CASE Provision(b)
  BY <1>2, <1>5, TransitionDelta DEF Provision
<1>6. CASE RunCommand(b)
  <2>1. CASE /\ lease[b].state \in {"ready", "running"}
             /\ lease' = [lease EXCEPT ![b].state = "running", ![b].fresh = TRUE]
    <3> DEFINE l == [lease[b] EXCEPT !.state = "running"]
               m == [l EXCEPT !.fresh = TRUE]
    <3>1. l \in LeaseRecord /\ l.state = "running"
      BY <1>1, <1>2, SetState
    <3>2. lease' = [lease EXCEPT ![b] = m]
      BY <2>1
    <3> HIDE DEF l
    <3>3. m \in LeaseRecord /\ m.state = "running"
      BY <3>1, SetFresh
    <3> HIDE DEF m
    <3> QED
      BY <1>2, <2>1, <3>2, <3>3, RecordDelta
  <2>2. \/ UNCHANGED lease
        \/ lease' = transition(b, {lease[b].state}, "lost")
        \/ /\ lease[b].state \in {"ready", "running"}
           /\ lease' = [lease EXCEPT ![b].state = "running", ![b].fresh = TRUE]
    BY <1>6 DEF RunCommand
  <2> QED
    BY <1>2, <1>3, <2>1, <2>2, TransitionDelta
<1> QED
  BY <1>3, <1>4, <1>5, <1>6 DEF Validate, EndCommand

LEMMA ReconcileDelta ==
  ASSUME Safe, NEW p \in Reconcilers, Reconcile(p)
  PROVE  OneDelta
<1> DEFINE b == actor[p].build
<1>1. p \in Actors
  BY DEF Actors
<1>2. {"failed", "terminating", "lost"} \subseteq State
      /\ {"failed", "lost"} \cap Occupying = {} /\ {"reserved", "running"} \subseteq Occupying
  BY DEF State, Occupying
<1>3. UNCHANGED lease => OneDelta
  BY DEF OneDelta
<1>4. CASE FailReserved(p)
  <2>1. b \in Builds
    BY <1>1, <1>4, AtWork DEF FailReserved, Busily
  <2> QED
    BY <1>2, <1>4, <2>1, TransitionDelta DEF FailReserved
<1>5. CASE ClaimStale(p)
  <2>1. b \in Builds
    BY <1>1, <1>5, AtWork DEF ClaimStale, Busily
  <2>2. CASE /\ lease[b].state = "running"
             /\ lease' = [lease EXCEPT ![b].state = "terminating"]
    BY <1>2, <2>1, <2>2, StateDelta
  <2> QED
    BY <1>3, <1>5, <2>2 DEF ClaimStale
<1>6. ASSUME NEW from \in {"ready", "running"}, CheckUsed(p, from)
      PROVE  OneDelta
  <2>1. b \in Builds
    BY <1>1, <1>6, AtWork DEF CheckUsed, Busily
  <2>2. UNCHANGED lease \/ lease' = transition(b, {from}, "lost")
    BY <1>6 DEF CheckUsed
  <2> QED
    BY <1>2, <1>3, <2>1, <2>2, TransitionDelta
<1>7. CASE CheckBound(p)
  <2>1. b \in Builds /\ lease[b] \in LeaseRecord
    BY <1>1, <1>7, AtWork DEF CheckBound, Busily
  <2> DEFINE m == [lease[b] EXCEPT !.ext = NoRef]
  <2>2. m \in LeaseRecord /\ m.state = lease[b].state
    BY <2>1, SetExt
  <2>3. UNCHANGED lease \/ lease' = [lease EXCEPT ![b] = m]
    BY <1>7 DEF CheckBound
  <2> HIDE DEF m
  <2> QED
    BY <1>3, <1>7, <2>1, <2>2, <2>3, RecordDelta
<1> QED
  BY <1>3, <1>4, <1>5, <1>6, <1>7
     DEF Reconcile, List, DestroyDuplicates, Claim, DestroyOrphan

LEMMA NextDelta ==
  ASSUME Safe, \A p \in Actors : Begun(p), [Next]_vars
  PROVE  OneDelta
<1>1. UNCHANGED lease => OneDelta
  BY DEF OneDelta
<1>2. ASSUME NEW p \in Actors, Work(p)
      PROVE  OneDelta
  BY <1>2, ProvisioningDelta, TerminatingDelta, ValidateDelta, ReconcileDelta DEF Work
<1>3. CASE Environment
  BY <1>1, <1>3, TimeDelta DEF Environment, DestroyCompletes, ResourceDies
<1> QED
  BY <1>1, <1>2, <1>3, TimeDelta DEF Next, vars, Throw, Scan, OrphanFound

LEMMA UniqueStep ==
  ASSUME Unique, OneDelta
  PROVE  Unique'
<1>1. CASE UNCHANGED lease
  BY <1>1 DEF Unique
<1>2. CASE \E b \in Builds : Delta(b)
  <2>1. PICK b \in Builds : Delta(b)
    BY <1>2
  <2>2. ASSUME NEW c \in Builds, NEW d \in Builds, c # d,
               lease'[c].state \in Occupying, lease'[d].state \in Occupying
        PROVE  FALSE
    BY <2>1, <2>2 DEF Delta, Unique, Busy
  <2> QED
    BY <2>2 DEF Unique
<1> QED
  BY <1>1, <1>2 DEF OneDelta

\* An actor that has left its job.
LEMMA LeaveFine ==
  ASSUME Safe, NEW p \in Actors, Leave(p)
  PROVE  Fine(p)'
<1>1. "done" \in Step
  BY DEF Step
<1>2. actor'[p].pc \in {"idle", "done"}
  <2>1. CASE p \in Builds
    BY <1>1, <2>1, ValidatorSlot, BecomeOthers DEF Leave, Safe
  <2>2. CASE p \notin Builds
    BY <2>2, IdleSlot, BecomeOthers DEF Leave, Safe
  <2> QED
    BY <2>1, <2>2
<1> QED
  BY <1>2 DEF Fine, Begun, ExecInv, ResumeInv, Resuming

\* The slot of an actor that goes on with its job.
LEMMA GoneTo ==
  ASSUME Safe, NEW p \in Actors, NEW l \in Step, NEW r \in Resources \cup {NoRef},
         \/ Goto(p, l) /\ r = actor[p].ref
         \/ GotoWith(p, l, r)
  PROVE  /\ actor'[p].pc = l /\ actor'[p].ref = r
         /\ actor'[p].build = actor[p].build
<1> DEFINE s == [actor[p] EXCEPT !.pc = l]
           t == [s EXCEPT !.ref = r]
<1>1. actor[p] \in SlotRecord
  BY DEF Safe, TypeOK
<1>2. s \in SlotRecord /\ s.pc = l /\ s.build = actor[p].build /\ s.ref = actor[p].ref
  BY <1>1, SlotGoto
<1>3. Goto(p, l) => Become(p, s)
  BY DEF Goto
<1>4. GotoWith(p, l, r) => Become(p, t)
  BY DEF GotoWith
<1> HIDE DEF s
<1>5. t \in SlotRecord /\ t.pc = l /\ t.build = actor[p].build /\ t.ref = r
  BY <1>2 DEF SlotRecord
<1> HIDE DEF t
<1> QED
  BY <1>2, <1>3, <1>4, <1>5, BecomeOthers DEF Safe

\* It goes on where nothing is asked of it but that its lease exists.
LEMMA GotoFine ==
  ASSUME Safe, LeasesOK, NEW p \in Actors, Busily(p), Begun(p),
         actor[p].pc \notin {"start", "done"},
         actor'[p].pc \notin Resuming \cup {"exec"},
         actor'[p].build = actor[p].build
  PROVE  Fine(p)'
<1>1. actor[p].build \in Builds
  BY AtWork
<1>2. lease[actor[p].build].state # "none"
  BY DEF Begun, Busily
<1>3. lease'[actor[p].build].state # "none"
  BY <1>1, <1>2 DEF LeasesOK, LeaseStep, Forward
<1> QED
  BY <1>3 DEF Fine, Begun, ExecInv, ResumeInv

\* It goes on with resumeProvisioning.
LEMMA ResumeFine ==
  ASSUME Safe, LeasesOK, NEW p \in Actors, Busily(p), Fine(p),
         actor[p].pc \in Resuming, actor'[p].pc \notin {"exec"},
         actor'[p].build = actor[p].build, actor'[p].ref = actor[p].ref,
         p \in Reconcilers /\ actor'[p].pc = "cleanupSettle"
           => resource'[actor[p].ref].state # "live"
  PROVE  Fine(p)'
<1>1. actor[p].build \in Builds
  BY AtWork
<1>2. lease[actor[p].build].state # "none"
  BY DEF Fine, Begun, Busily, Resuming
<1>3. lease'[actor[p].build].state # "none"
  BY <1>1, <1>2 DEF LeasesOK, LeaseStep, Forward
<1>4. Begun(p)'
  BY <1>3 DEF Begun
<1>5. p \in Builds => ExecInv(p)'
  BY DEF ExecInv
<1>6. p \in Reconcilers => ResumeInv(p)'
  BY DEF Fine, ResumeInv
<1> QED
  BY <1>4, <1>5, <1>6 DEF Fine

LEMMA ProvisioningFine ==
  ASSUME Safe, Onward, NEW p \in Actors, Fine(p), Provisioning(p)
  PROVE  Fine(p)'
<1> DEFINE b == actor[p].build
           r == actor[p].ref
<1>0. /\ Begun(p) /\ LeasesOK /\ ResourcesOK
      /\ actor[p].pc \notin {"start", "done"} /\ Busily(p)
  BY DEF Fine, Onward, Provisioning, Lookup, Create, CreateRejected, Bind, Resume,
     Connect, MarkReady, Cleanup, CleanupDestroy, CleanupSettle, Busily
<1>1. /\ b \in Builds /\ r \in Resources \cup {NoRef}
      /\ lease[b].ext \in Resources \cup {NoRef} /\ NoRef \in Resources \cup {NoRef}
  BY <1>0, AtWork
<1>2. ASSUME NEW l \in Step \ (Resuming \cup {"exec"}),
             Goto(p, l) \/ \E q \in Resources \cup {NoRef} : GotoWith(p, l, q)
      PROVE  Fine(p)'
  BY <1>0, <1>1, <1>2, GoneTo, GotoFine
<1>3. {"create", "bind", "resume", "claim", "run"} \subseteq Step \ (Resuming \cup {"exec"})
      /\ Resuming \subseteq Step
  BY DEF Step, Resuming
<1>4. CASE Leave(p)
  BY <1>4, LeaveFine
<1>5. CASE Lookup(p) \/ Create(p) \/ CreateRejected(p) \/ Bind(p)
  BY <1>2, <1>3, <1>4, <1>5 DEF Lookup, Create, CreateRejected, Bind
<1>6. CASE Resume(p)
  <2>1. CASE lease[b].ext # NoRef /\ GotoWith(p, "connect", lease[b].ext)
    <3>1. /\ actor'[p].pc = "connect" /\ actor'[p].build = b
          /\ actor'[p].ref = lease[b].ext
      BY <1>1, <1>3, <2>1, GoneTo DEF Resuming
    <3>2. lease' = lease
      BY <1>6 DEF Resume
    <3> QED
      BY <1>0, <2>1, <3>1, <3>2 DEF Fine, Begun, Busily, ExecInv, ResumeInv
  <2> QED
    BY <1>2, <1>3, <1>4, <1>6, <2>1 DEF Resume
<1>7. ASSUME actor[p].pc \in Resuming, NEW l \in Resuming, Goto(p, l),
             p \in Reconcilers /\ l = "cleanupSettle" => resource'[r].state # "live"
      PROVE  Fine(p)'
  <2>1. actor'[p].pc = l /\ actor'[p].ref = r /\ actor'[p].build = b
    BY <1>1, <1>3, <1>7, GoneTo
  <2>2. "exec" \notin Resuming
    BY DEF Resuming
  <2> QED
    BY <1>0, <1>7, <2>1, <2>2, ResumeFine
<1>8. CASE Connect(p)
  BY <1>7, <1>8 DEF Connect, Resuming
<1>9. CASE MarkReady(p)
  BY <1>2, <1>3, <1>4, <1>9 DEF MarkReady
<1>10. CASE Cleanup(p)
  BY <1>7, <1>10 DEF Cleanup, Resuming
<1>11. CASE CleanupDestroy(p)
  <2>1. PICK reply \in Reply :
          /\ Destroy(r, reply)
          /\ IF reply = "done" THEN Goto(p, "cleanupSettle") ELSE Leave(p)
    BY <1>11 DEF CleanupDestroy
  <2>2. CASE reply = "done"
    <3>1. PICK s \in {"destroying", "gone"} : resource' = [resource EXCEPT ![r].state = s]
      BY <2>1, <2>2 DEF Destroy
    <3>2. r \in Resources => resource'[r].state = s
      BY <3>1, SetResource DEF Safe, TypeOK
    <3>3. p \in Reconcilers => r \in Resources
      BY <1>1, <1>11 DEF CleanupDestroy, Fine, ResumeInv, Resuming
    <3>4. actor[p].pc \in Resuming /\ "cleanupSettle" \in Resuming
          /\ Goto(p, "cleanupSettle")
      BY <1>11, <2>1, <2>2 DEF CleanupDestroy, Resuming
    <3> QED
      BY <1>7, <3>2, <3>3, <3>4
  <2> QED
    BY <1>4, <2>1, <2>2
<1>12. CASE CleanupSettle(p)
  BY <1>4, <1>12 DEF CleanupSettle
<1> QED
  BY <1>5, <1>6, <1>8, <1>9, <1>10, <1>11, <1>12 DEF Provisioning

\* The steps of terminate, of a build and of a reconciler's pass begin no
\* provisioning; only a command that is started is executed.
LEMMA OtherFine ==
  ASSUME Safe, Onward, NEW p \in Actors, Fine(p),
         \/ Terminating(p)
         \/ p \in Builds /\ (Validate(p) \/ Heartbeat(p))
         \/ p \in Reconcilers /\ Reconcile(p),
         actor'[p] # actor[p]
  PROVE  Fine(p)'
<1> DEFINE b == actor[p].build
           r == actor[p].ref
<1>0. /\ Begun(p) /\ LeasesOK /\ ResourcesOK
      /\ Busily(p) \/ DestroyOrphan(p)
  BY DEF Fine, Onward, Terminating, Terminate, DestroyBound, Confirm, Validate, Reserve,
     Provision, RunCommand, EndCommand, Heartbeat, Reconcile, FailReserved, ClaimStale,
     CheckUsed, CheckBound, List, DestroyDuplicates, Claim, Busily
<1>1. CASE Leave(p)
  BY <1>1, LeaveFine
<1>2. CASE DestroyOrphan(p)
  BY <1>1, <1>2 DEF DestroyOrphan
<1> SUFFICES ASSUME ~Leave(p), ~DestroyOrphan(p)
             PROVE  Fine(p)'
  BY <1>1, <1>2
<1>3. /\ b \in Builds /\ r \in Resources \cup {NoRef}
      /\ lease[b].ext \in Resources \cup {NoRef} /\ NoRef \in Resources \cup {NoRef}
      /\ p \in Builds => b = p
      /\ Begun(p) /\ LeasesOK /\ ResourcesOK /\ Busily(p)
  BY <1>0, AtWork
<1>4. ASSUME NEW l \in Step \ (Resuming \cup {"exec"}), actor[p].pc \notin {"start", "done"},
             Goto(p, l) \/ \E q \in Resources \cup {NoRef} : GotoWith(p, l, q)
      PROVE  Fine(p)'
  BY <1>3, <1>4, GoneTo, GotoFine
<1>5. {"provision", "lookup", "run", "terminate", "confirm", "destroy", "claim", "list", "bind",
       "resume"} \subseteq Step \ (Resuming \cup {"exec"})
  BY DEF Step, Resuming
<1>6. CASE Terminating(p)
  <2>1. \/ \E l \in {"confirm", "destroy"} : GotoWith(p, l, lease[b].ext)
        \/ Goto(p, "confirm")
    BY <1>6 DEF Terminating, Terminate, DestroyBound, Confirm
  <2>2. actor[p].pc \in {"terminate", "destroy", "confirm"}
    BY <1>6 DEF Terminating, Terminate, DestroyBound, Confirm
  <2> QED
    BY <1>3, <1>4, <1>5, <2>1, <2>2
<1>7. CASE p \in Builds /\ Reserve(p)
  <2>1. Goto(p, "provision") /\ lease' = [lease EXCEPT ![p].state = "reserved"]
    BY <1>7 DEF Reserve
  <2>2. actor'[p].pc = "provision" /\ actor'[p].build = p
    BY <1>3, <1>5, <1>7, <2>1, GoneTo
  <2>3. lease'[p].state = "reserved"
    BY <1>7, <2>1, SetState DEF Safe, TypeOK, State
  <2> QED
    BY <1>7, <2>2, <2>3 DEF Fine, Begun, ExecInv, ResumeInv, Resuming
<1>8. CASE p \in Builds /\ (Provision(p) \/ EndCommand(p) \/ Heartbeat(p))
  <2>1. \E l \in {"lookup", "run", "terminate"} : Goto(p, l)
    BY <1>8 DEF Provision, EndCommand, Heartbeat
  <2>2. actor[p].pc \in {"provision", "exec"}
    BY <1>8 DEF Provision, EndCommand, Heartbeat
  <2> QED
    BY <1>4, <1>5, <2>1, <2>2
<1>9. CASE p \in Builds /\ RunCommand(p)
  <2>1. CASE Goto(p, "terminate")
    BY <1>4, <1>5, <1>9, <2>1 DEF RunCommand
  <2>2. CASE ~Goto(p, "terminate")
    <3>1. /\ lease[p].ext # NoRef
          /\ lease' = [lease EXCEPT ![p].state = "running", ![p].fresh = TRUE]
          /\ GotoWith(p, "exec", lease[p].ext)
      BY <1>9, <2>2 DEF RunCommand
    <3>2. lease'[p].state = "running" /\ lease'[p].ext = lease[p].ext
      <4> DEFINE l == [lease[p] EXCEPT !.state = "running"]
                 m == [l EXCEPT !.fresh = TRUE]
      <4>1. lease[p] \in LeaseRecord /\ "running" \in State
        BY <1>9 DEF Safe, TypeOK, State
      <4>2. l \in LeaseRecord /\ l.state = "running" /\ l.ext = lease[p].ext
        BY <4>1, SetState
      <4>3. lease' = [lease EXCEPT ![p] = m]
        BY <3>1
      <4> HIDE DEF l
      <4>4. m.state = "running" /\ m.ext = lease[p].ext
        BY <4>2, SetFresh
      <4> HIDE DEF m
      <4> QED
        BY <1>9, <4>3, <4>4 DEF Safe, TypeOK
    <3>3. /\ actor'[p].pc = "exec" /\ actor'[p].ref = lease[p].ext
          /\ actor'[p].build = p
      <4>1. "exec" \in Step
        BY DEF Step
      <4> QED
        BY <1>3, <1>9, <3>1, <4>1, GoneTo
    <3>4. p \notin Reconcilers
      BY <1>9, BuildIsActor
    <3> QED
      BY <3>1, <3>2, <3>3, <3>4 DEF Fine, Begun, ExecInv, Used
  <2> QED
    BY <2>1, <2>2
<1>10. CASE p \in Reconcilers /\ Reconcile(p)
  <2>0. actor[p].pc \in {"failReserved", "claimStale", "checkReady", "checkRunning", "checkBound",
                         "list", "destroyDuplicates", "claim"}
    BY <1>10 DEF Reconcile, FailReserved, ClaimStale, CheckUsed, CheckBound, List,
       DestroyDuplicates, Claim
  <2>1. CASE \E l \in {"terminate", "lookup", "bind", "resume"} : Goto(p, l)
    BY <1>4, <1>5, <2>0, <2>1
  <2>2. CASE \E l \in {"claim", "list"} : GotoWith(p, l, NoRef)
    BY <1>3, <1>4, <1>5, <2>0, <2>2
  <2>3. actor[p] \in SlotRecord
    BY DEF Safe, TypeOK
  <2>4. ASSUME NEW t \in SlotRecord, Become(p, t), t.build = b,
               t.pc = "destroyDuplicates"
        PROVE  Fine(p)'
    <3>1. actor'[p] = t
      BY <2>4, BecomeOthers DEF Safe
    <3>2. "destroyDuplicates" \notin Resuming \cup {"exec"}
      BY DEF Resuming
    <3> QED
      BY <1>3, <2>0, <2>4, <3>1, <3>2, GotoFine
  <2>5. CASE List(p)
    <3>1. CASE Goto(p, "lookup")
      BY <2>1, <3>1
    <3>2. CASE ~Goto(p, "lookup")
      <4>1. PICK q \in Resources :
              Become(p, [actor[p] EXCEPT !.pc = "destroyDuplicates", !.ref = q,
                                         !.dups = Found(b) \ {q}])
        BY <2>5, <3>2 DEF List
      <4> DEFINE u == [actor[p] EXCEPT !.pc = "destroyDuplicates"]
                 v == [u EXCEPT !.ref = q]
                 t == [v EXCEPT !.dups = Found(b) \ {q}]
      <4>2. u \in SlotRecord /\ u.pc = "destroyDuplicates" /\ u.build = b
        BY <2>3, SlotGoto DEF Step
      <4>3. Become(p, t)
        BY <4>1
      <4> HIDE DEF u
      <4>4. v \in SlotRecord /\ v.pc = "destroyDuplicates" /\ v.build = b
        BY <4>2 DEF SlotRecord
      <4> HIDE DEF v
      <4>5. Found(b) \ {q} \in SUBSET Resources
        BY DEF Found
      <4>6. t \in SlotRecord /\ t.pc = "destroyDuplicates" /\ t.build = b
        BY <4>4, <4>5, SlotDups
      <4> HIDE DEF t
      <4> QED
        BY <2>4, <4>3, <4>6
    <3> QED
      BY <3>1, <3>2
  <2>6. CASE DestroyDuplicates(p)
    <3>1. CASE Goto(p, "bind")
      BY <2>1, <3>1
    <3>2. CASE ~Goto(p, "bind")
      <4>1. PICK d \in Resources : Become(p, [actor[p] EXCEPT !.dups = @ \ {d}])
        BY <2>6, <3>2 DEF DestroyDuplicates
      <4> DEFINE t == [actor[p] EXCEPT !.dups = @ \ {d}]
      <4>2. actor[p].dups \ {d} \in SUBSET Resources
        BY <2>3, SlotFields
      <4>3. /\ t \in SlotRecord /\ t.build = b /\ t.pc = actor[p].pc
            /\ Become(p, t)
        BY <2>3, <4>1, <4>2 DEF SlotRecord
      <4>4. actor[p].pc = "destroyDuplicates"
        BY <2>6 DEF DestroyDuplicates
      <4> HIDE DEF t
      <4> QED
        BY <2>4, <4>3, <4>4
    <3> QED
      BY <3>1, <3>2
  <2> QED
    BY <1>10, <2>1, <2>2, <2>5, <2>6
       DEF Reconcile, FailReserved, ClaimStale, CheckUsed, CheckBound, Claim
<1> QED
  BY <1>6, <1>7, <1>8, <1>9, <1>10 DEF Validate

LEMMA ScanFine ==
  ASSUME Safe, NEW p \in Reconcilers, NEW b \in Builds, Scan(p, b)
  PROVE  Fine(p)'
<1> DEFINE l == lease[b]
           u == [Idle EXCEPT !.pc = Decision(l)]
           v == [u EXCEPT !.build = b]
           t == [v EXCEPT !.ref = l.ext]
<1>1. l \in LeaseRecord /\ l.state \notin {"none", "terminated"} /\ lease' = lease
  BY DEF Scan, Safe, TypeOK
<1>2. Decision(l) \in {"terminate", "failReserved", "list", "checkBound", "claimStale",
                       "checkRunning", "checkReady"}
  BY <1>1, LeaseFields DEF Decision, State
<1>3. u \in SlotRecord /\ u.pc = Decision(l)
  BY <1>2, IdleSlot DEF SlotRecord, Step
<1>4. Become(p, t)
  BY DEF Scan
<1> HIDE DEF u
<1>5. v \in SlotRecord /\ v.pc = Decision(l) /\ v.build = b
  BY <1>3 DEF SlotRecord
<1> HIDE DEF v
<1>6. t \in SlotRecord /\ t.pc = Decision(l) /\ t.build = b
  BY <1>1, <1>5, LeaseFields DEF SlotRecord
<1> HIDE DEF t
<1>7. actor'[p] = t /\ p \notin Builds
  BY <1>4, <1>6, BecomeOthers, BuildIsActor DEF Safe, Actors
<1> QED
  BY <1>1, <1>2, <1>6, <1>7 DEF Fine, Begun, ResumeInv, Resuming

LEMMA OrphanFoundFine ==
  ASSUME Safe, NEW p \in Reconcilers, NEW r \in Resources, OrphanFound(p, r)
  PROVE  Fine(p)'
<1>1. actor'[p].pc = "destroyOrphan"
  BY GoneTo DEF OrphanFound, Step, Actors
<1> QED
  BY <1>1 DEF Fine, Begun, ExecInv, ResumeInv, Resuming

LEMMA ThrowFine ==
  ASSUME Safe, Onward, NEW p \in Actors, Fine(p), Throw(p)
  PROVE  Fine(p)'
<1>1. CASE Leave(p)
  BY <1>1, LeaveFine
<1>2. CASE actor[p].pc = "markReady" /\ Goto(p, "cleanup")
  <2>1. Busily(p) /\ LeasesOK /\ lease' = lease
    BY <1>2 DEF Busily, Onward, Throw
  <2>2. actor[p].ref \in Resources \cup {NoRef}
    BY <2>1, AtWork
  <2>3. /\ actor'[p].pc = "cleanup" /\ actor'[p].ref = actor[p].ref
        /\ actor'[p].build = actor[p].build
    BY <1>2, <2>2, GoneTo DEF Step
  <2> QED
    BY <1>2, <2>1, <2>3, ResumeFine DEF Resuming
<1> QED
  BY <1>1, <1>2 DEF Throw

\* The clean-up of a reconciler settles only a lease that is still bound to the
\* resource it has destroyed: no other reconciler has unbound it meanwhile, and
\* bound a new one.
SettlesOwn ==
  \A p \in Reconcilers :
    CleanupSettle(p) /\ lease[actor[p].build].state = "terminating"
      => lease[actor[p].build].ext = actor[p].ref

\* An actor that does not move: what holds of it is not disturbed. A lease that
\* is terminated under a running command has lost its resource, since the
\* clean-up of a reconciler has destroyed the very resource of the lease.
LEMMA KeepFine ==
  ASSUME Safe, OneBuildInv, Onward, OneDelta, [Next]_vars,
         SettlesOwn,
         NEW p \in Actors, actor'[p] = actor[p]
  PROVE  Fine(p)'
<1> DEFINE a == actor[p]
           b == a.build
<1>0. LeasesOK /\ ResourcesOK /\ actor'[p] = a /\ ActorInv(p) /\ a \in SlotRecord
  BY DEF Onward, Safe, SafeInv, TypeOK
<1>1. Begun(p)'
  <2>1. CASE a.pc \in {"idle", "start", "done", "destroyOrphan"}
    BY <1>0, <2>1 DEF Begun
  <2>2. CASE a.pc \notin {"idle", "start", "done", "destroyOrphan"}
    <3>1. b \in Builds /\ lease[b].state # "none"
      BY <1>0, <2>2 DEF ActorInv, OneBuildInv, Begun
    <3>2. lease'[b].state # "none"
      BY <1>0, <3>1 DEF LeasesOK, LeaseStep, Forward
    <3> QED
      BY <1>0, <3>2 DEF Begun
  <2> QED
    BY <2>1, <2>2
\* A resource that is not live any more does not come to life.
<1>2. ASSUME a.ref # NoRef, resource[a.ref].state # "live"
      PROVE  resource'[a.ref].state # "live"
  <2>1. a.ref \in Resources /\ resource[a.ref].state # "none"
    BY <1>0, <1>2, SlotFields DEF ActorInv
  <2> QED
    BY <1>0, <1>2, <2>1 DEF ResourcesOK, ResourceStep
<1>3. ASSUME p \in Builds, a.pc = "exec"
      PROVE  ExecInv(p)'
  <2>1. /\ lease[p].state \in Used /\ lease[p].ext = a.ref /\ a.ref # NoRef
        /\ lease[p].state = "terminated" => resource[a.ref].state # "live"
    BY <1>3 DEF OneBuildInv, ExecInv
  <2>2. lease'[p].state \in Used /\ lease'[p].ext = a.ref
    BY <1>0, <1>3, <2>1 DEF LeasesOK, LeaseStep, Forward, Used
  <2>3. ASSUME lease'[p].state = "terminated", lease[p].state # "terminated"
        PROVE  resource'[a.ref].state # "live"
    <3>1. ~Present(a.ref) \/ \E q \in Actors : CleanupSettle(q)
      BY <1>3, <2>1, <2>3, WhoMoves DEF Mover
    <3>2. CASE ~Present(a.ref)
      BY <1>2, <2>1, <3>2 DEF Present
    <3>3. CASE \E q \in Actors : CleanupSettle(q)
      <4>1. PICK q \in Actors : CleanupSettle(q)
        BY <3>3
      <4>2. actor[q].build \in Builds /\ (q \in Builds => actor[q].build = q)
        BY <4>1, AtWork DEF CleanupSettle, Busily
      <4>3. actor[q].build = p
        BY <1>3, <2>3, <4>1, <4>2, MovedFrom DEF CleanupSettle, Safe, State
      <4>4. q \in Reconcilers /\ ResumeInv(q)
        BY <1>3, <4>1, <4>2, <4>3 DEF CleanupSettle, Actors, OneBuildInv
      <4>5. lease[p].state = "terminating"
        BY <1>3, <2>3, <4>1, <4>2, <4>3, MovedFrom DEF CleanupSettle, Safe, State
      <4>6. lease[p].ext = actor[q].ref
        BY <4>1, <4>3, <4>4, <4>5 DEF SettlesOwn
      <4>7. resource[a.ref].state # "live"
        BY <2>1, <4>1, <4>4, <4>6 DEF ResumeInv, CleanupSettle, Resuming
      <4> QED
        BY <1>2, <2>1, <4>7
    <3> QED
      BY <3>1, <3>2, <3>3
  <2>4. lease'[p].state = "terminated" => resource'[a.ref].state # "live"
    BY <1>2, <2>1, <2>3
  <2> QED
    BY <1>0, <2>1, <2>2, <2>4 DEF ExecInv
<1>4. ASSUME p \in Reconcilers, a.pc \in Resuming
      PROVE  ResumeInv(p)'
  BY <1>0, <1>2, <1>4 DEF OneBuildInv, ResumeInv
<1> QED
  BY <1>0, <1>1, <1>3, <1>4 DEF Fine, ExecInv, ResumeInv

\* Only one actor moves at a time.
LEMMA OnlyMover ==
  ASSUME Safe, NEW p \in Actors, NEW q \in Actors \ {p},
         Work(p) \/ Throw(p) \/ Heartbeat(p)
  PROVE  actor'[q] = actor[q]
<1>1. ASSUME NEW s, Become(p, s) PROVE actor'[q] = actor[q]
  BY <1>1 DEF Become, Safe, TypeOK
<1>2. ASSUME NEW l, Goto(p, l) PROVE actor'[q] = actor[q]
  BY <1>1, <1>2 DEF Goto
<1>3. ASSUME NEW l, NEW r, GotoWith(p, l, r) PROVE actor'[q] = actor[q]
  BY <1>1, <1>3 DEF GotoWith
<1>4. Leave(p) => actor'[q] = actor[q]
  BY <1>1 DEF Leave
<1>5. CASE Provisioning(p)
  BY <1>2, <1>3, <1>4, <1>5 DEF Provisioning, Lookup, Create, CreateRejected, Bind, Resume,
     Connect, MarkReady, Cleanup, CleanupDestroy, CleanupSettle
<1>6. CASE Terminating(p) \/ Throw(p) \/ Heartbeat(p)
  BY <1>2, <1>3, <1>4, <1>6
     DEF Terminating, Terminate, DestroyBound, Confirm, Throw, Heartbeat
<1>7. CASE Validate(p)
  BY <1>2, <1>3, <1>4, <1>7 DEF Validate, Reserve, Provision, RunCommand, EndCommand
<1>8. CASE Reconcile(p)
  BY <1>1, <1>2, <1>3, <1>4, <1>8 DEF Reconcile, FailReserved, ClaimStale, CheckUsed,
     CheckBound, List, DestroyDuplicates, Claim, DestroyOrphan
<1> QED
  BY <1>5, <1>6, <1>7, <1>8 DEF Work

LEMMA OneMover ==
  ASSUME Safe, OneBuildInv, Onward, [Next]_vars, actor' # actor
  PROVE  \E p \in Actors : /\ \A q \in Actors \ {p} : actor'[q] = actor[q]
                           /\ actor'[p] # actor[p] => Fine(p)'
<1>1. \A p \in Actors : Fine(p)
  BY BuildIsActor DEF OneBuildInv, Fine
<1>2. (\A b \in Builds : b \in Actors) /\ (\A p \in Reconcilers : p \in Actors)
  BY DEF Actors
<1>3. ASSUME NEW p \in Actors, Work(p) \/ Throw(p) \/ (p \in Builds /\ Heartbeat(p))
      PROVE  /\ \A q \in Actors \ {p} : actor'[q] = actor[q]
             /\ actor'[p] # actor[p] => Fine(p)'
  <2>1. \A q \in Actors \ {p} : actor'[q] = actor[q]
    BY <1>3, OnlyMover
  <2>2. actor'[p] # actor[p] => Fine(p)'
    BY <1>1, <1>3, ProvisioningFine, OtherFine, ThrowFine DEF Work
  <2> QED
    BY <2>1, <2>2
<1>4. ASSUME NEW p \in Reconcilers,
             (\E b \in Builds : Scan(p, b)) \/ (\E r \in Resources : OrphanFound(p, r))
      PROVE  /\ \A q \in Actors \ {p} : actor'[q] = actor[q]
             /\ Fine(p)'
  <2>1. Fine(p)'
    BY <1>4, ScanFine, OrphanFoundFine
  <2>2. \A q \in Actors \ {p} : actor'[q] = actor[q]
    BY <1>4 DEF Scan, OrphanFound, Become, GotoWith, Safe, TypeOK
  <2> QED
    BY <2>1, <2>2
<1>5. ~Environment /\ ~UNCHANGED vars
  BY DEF Environment, LeaseExpires, HeartbeatAges, DestroyCompletes, ResourceDies, vars
<1>6. \/ \E p \in Actors : Work(p) \/ Throw(p) \/ (p \in Builds /\ Heartbeat(p))
      \/ \E p \in Reconcilers :
           (\E b \in Builds : Scan(p, b)) \/ (\E r \in Resources : OrphanFound(p, r))
  BY <1>2, <1>5 DEF Next
<1> QED
  BY <1>2, <1>3, <1>4, <1>6

LEMMA InitOneBuild == Init => OneBuildInv
<1> SUFFICES ASSUME Init PROVE OneBuildInv
  OBVIOUS
<1>1. \A b \in Builds : lease[b].state = "none" /\ lease[b].state \notin Occupying
  BY DEF Init, NoLease, Occupying
<1>2. "start" \in Step
  BY DEF Step
<1>3. \A p \in Actors : actor[p].pc \in {"idle", "start"}
  <2>1. ASSUME NEW p \in Actors PROVE actor[p].pc \in {"idle", "start"}
    <3>1. p \in Builds => actor[p] = Validator(p, "start")
      BY DEF Init
    <3>2. p \notin Builds => actor[p] = Idle
      BY DEF Init
    <3> QED
      BY <1>2, <3>1, <3>2, IdleSlot, ValidatorSlot
  <2> QED
    BY <2>1
<1>4. (\A b \in Builds : b \in Actors) /\ (\A p \in Reconcilers : p \in Actors)
  BY DEF Actors
<1> QED
  BY <1>1, <1>3, <1>4 DEF OneBuildInv, Unique, Begun, ExecInv, ResumeInv, Resuming

LEMMA NextOneBuild ==
  Safe /\ OneBuildInv /\ [Next]_vars /\ [SettlesOwn]_vars => OneBuildInv'
<1> SUFFICES ASSUME Safe, OneBuildInv, [Next]_vars, [SettlesOwn]_vars PROVE OneBuildInv'
  OBVIOUS
<1>1. Onward
  BY NextSafe
<1>2. OneDelta
  BY NextDelta DEF OneBuildInv
<1>3. Unique'
  BY <1>2, UniqueStep DEF OneBuildInv
<1>4. SettlesOwn
  <2>1. CASE UNCHANGED vars
    <3>1. ASSUME NEW p \in Reconcilers, CleanupSettle(p),
                 lease[actor[p].build].state = "terminating"
          PROVE  FALSE
      <4>1. actor[p].pc = "cleanupSettle" /\ p \in Actors /\ p \notin Builds
        BY <3>1, BuildIsActor DEF CleanupSettle, Actors
      <4>2. actor'[p] = Idle
        BY <3>1, <4>1, IdleSlot, BecomeOthers DEF CleanupSettle, Leave, Safe
      <4> QED
        BY <2>1, <4>1, <4>2 DEF vars, Idle
    <3> QED
      BY <3>1 DEF SettlesOwn
  <2> QED
    BY <2>1
<1>5. ASSUME NEW p \in Actors PROVE Fine(p)'
  <2>1. actor'[p] = actor[p] => Fine(p)'
    BY <1>1, <1>2, <1>4, KeepFine
  <2> QED
    BY <1>1, <2>1, OneMover
<1>6. (\A b \in Builds : b \in Actors) /\ (\A p \in Reconcilers : p \in Actors)
  BY DEF Actors
<1> QED
  BY <1>3, <1>5, <1>6 DEF OneBuildInv, Fine

\* However many workers and reconcilers there are, two builds of the branch never run
\* commands in live sandboxes at once, unless a clean-up settles a lease that has
\* been bound anew under its hands (SandboxService.ts:632 compares the state alone).
\* Nothing else gives the branch away while the sandbox of its build lives: the
\* partial unique index admits one lease at a time, terminate confirms the
\* destruction, and a lease is called lost only when its resource is missing.
THEOREM OneBuildAtATime == Spec /\ [][SettlesOwn]_vars => []ExclusiveBuild
<1>1. Safe /\ OneBuildInv => ExclusiveBuild
  <2> SUFFICES ASSUME Safe, OneBuildInv, NEW b \in Builds, NEW c \in Builds,
                      Executing(b), Executing(c)
               PROVE  b = c
    BY DEF ExclusiveBuild
  <2>1. ASSUME NEW d \in Builds, Executing(d) PROVE lease[d].state \in Occupying
    <3>1. /\ lease[d].state \in Used /\ lease[d].ext = actor[d].ref /\ actor[d].ref # NoRef
          /\ lease[d].state # "terminated"
      BY <2>1 DEF Executing, OneBuildInv, ExecInv
    <3>2. lease[d].state # "lost"
      BY <2>1, <3>1 DEF Executing, Present, Safe, SafeInv, LeaseInv
    <3> QED
      BY <3>1, <3>2 DEF Used, Occupying
  <2> QED
    BY <2>1 DEF OneBuildInv, Unique
<1>2. Safe /\ OneBuildInv /\ [Next]_vars /\ [SettlesOwn]_vars => OneBuildInv'
  BY NextOneBuild
<1> QED
  BY <1>1, <1>2, InitOneBuild, AlwaysSafe, PTL DEF Spec
=============================================================================
