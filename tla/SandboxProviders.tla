--------------------------- MODULE SandboxProviders ---------------------------
(***************************************************************************)
(* The providers behind sandbox leases, one of which runtime.ts selects:   *)
(* processes in directories of this host (providers/LocalProcessProvider), *)
(* machines of a Daytona service (providers/DaytonaProvider) and the       *)
(* deterministic double of the tests (providers/FakeSandboxProvider).      *)
(* They share the interface of provider/SandboxProvider.ts: create by      *)
(* provisioning key, connect, run, inspect, destroy.                       *)
(*                                                                         *)
(* A caller is a SandboxService that wants a sandbox for a key and runs    *)
(* one command in it; a destroyer is a terminate or a reconciler. A local  *)
(* step ends where the code awaits, a Daytona step is one API request.     *)
(***************************************************************************)
EXTENDS Naturals, FiniteSets, FiniteSetsExt

CONSTANTS
  Kinds,        \* the values of SANDBOX_PROVIDER to look at
  Callers, Destroyers, Keys, KeyOf,
  Specs,        \* specifications as their fingerprint tells them apart
  MaxBoxes,     \* bound: sandboxes ever made
  None,
  MaxFaults     \* bound: failed requests, machines that break, restarts

ASSUME ProviderAssumption ==
  /\ Kinds \subseteq {"local", "daytona", "fake"} /\ Kinds # {}
  /\ KeyOf \in [Callers -> Keys]
  /\ MaxBoxes \in Nat /\ MaxFaults \in Nat /\ None \notin Nat

VARIABLES
  kind,      \* the provider
  box,       \* the sandboxes, numbered as they are made
  call,      \* what each caller is doing
  cmd,       \* its command
  late,      \* history: callers whose command began while its box was being destroyed
  kill,      \* what each destroyer is doing
  reported,  \* history: the boxes a caller was told are gone
  reused,    \* history: the box the last create that found one returned, by key
  faults     \* counter bounded by MaxFaults

vars == <<kind, box, call, cmd, late, kill, reported, reused, faults>>

-----------------------------------------------------------------------------

Boxes == 1 .. MaxBoxes

\* listed: does the provider know the box? Only a local map can forget one.
\* files: how much of the bundle has been uploaded.
States == {"none", "creating", "ready", "stopped", "error", "destroying", "gone"}
NoBox == [state |-> "none", key |-> None, spec |-> None, listed |-> FALSE,
          files |-> "none"]

Failures == {"mismatch", "not-created", "unknown", "refused", "error", "lost"}
\* made: the box this call of create made; from: the request that was refused.
NoCall == [at |-> "idle", spec |-> None, box |-> None, made |-> None, from |-> None]
NoKill == [at |-> "idle", box |-> None, of |-> {}]

TypeOK ==
  /\ kind \in Kinds
  /\ box \in [Boxes -> [state: States, key: Keys \cup {None}, spec: Specs \cup {None},
                        listed: BOOLEAN, files: {"none", "some", "all"}]]
  /\ call \in [Callers ->
       [at: {"idle", "create", "register", "workspace", "created", "ready",
             "uploaded", "run", "done"} \cup Failures,
        spec: Specs \cup {None}, box: Boxes \cup {None}, made: Boxes \cup {None},
        from: {"list", "create", "workspace", None}]]
  /\ cmd \in [Callers -> {"none", "running", "terminated", "over"}]
  /\ late \subseteq Callers
  /\ kill \in [Destroyers -> [at: {"idle", "stop", "remove", "delete"},
                              box: Boxes \cup {None}, of: SUBSET Callers]]
  /\ reported \subseteq Boxes
  /\ reused \in [Keys -> Boxes \cup {None}]
  /\ faults \in 0 .. MaxFaults

Init ==
  /\ kind \in Kinds
  /\ box = [b \in Boxes |-> NoBox]
  /\ call = [c \in Callers |-> NoCall]
  /\ cmd = [c \in Callers |-> "none"] /\ late = {}
  /\ kill = [d \in Destroyers |-> NoKill]
  /\ reported = {} /\ reused = [k \in Keys |-> None] /\ faults = 0

At(c, s) == call[c].at = s
Fault == faults < MaxFaults /\ faults' = faults + 1
\* Boxes a lookup by label or by map entry finds, the dying ones included.
Listed == {b \in Boxes : box[b].state \notin {"none", "gone"} /\ box[b].listed}
Unused == {b \in Boxes : box[b].state = "none"}
Alive(c) == cmd[c] \in {"running", "terminated"}
CommandsOf(b) == {c \in Callers : call[c].box = b /\ Alive(c)}
BeingDestroyed(b) == \E d \in Destroyers : kill[d].box = b

New(c, b, state) ==
  box' = [box EXCEPT ![b] = [state |-> state, key |-> KeyOf[c], spec |-> call[c].spec,
                             listed |-> TRUE, files |-> "none"]]
Goto(c, s) == call' = [call EXCEPT ![c].at = s]
Got(c, s, b) == call' = [call EXCEPT ![c].at = s, ![c].box = b, ![c].made = b]
Fails(c, s, from) == call' = [call EXCEPT ![c].at = s, ![c].from = from, ![c].box = None]

-----------------------------------------------------------------------------
(* create.                                                                 *)

\* A caller asks for a sandbox; a retry may ask with another specification.
Request(c) ==
  /\ call[c].at \in {"idle", "done"} \cup Failures
  /\ \E s \in Specs : call' = [call EXCEPT ![c] = [NoCall EXCEPT !.at = "create", !.spec = s]]
  /\ cmd' = [cmd EXCEPT ![c] = "none"] /\ late' = late \ {c}
  /\ UNCHANGED <<kind, box, kill, reported, reused, faults>>

\* Mutant: the newest box of the key is taken.
FoundNewest(k) == Max({b \in Listed : box[b].key = k})

\* The first sandbox of a key: in a map's insertion order, by createdAt at
\* Daytona.
Found(k) == Min({b \in Listed : box[b].key = k})
HasBox(k) == \E b \in Listed : box[b].key = k

Reuse(c) ==
  LET b == Found(KeyOf[c]) IN
  IF box[b].spec = call[c].spec
  THEN /\ call' = [call EXCEPT ![c].at = "created", ![c].box = b]
       /\ reused' = [reused EXCEPT ![KeyOf[c]] = b]
  ELSE Goto(c, "mismatch") /\ UNCHANGED reused

\* All providers look the key up first. Local and double do so on a map.
FindByProvisioningKey(c) ==
  /\ At(c, "create") /\ call[c].from = None /\ HasBox(KeyOf[c]) /\ Reuse(c)
  /\ UNCHANGED <<kind, box, cmd, late, kill, reported, faults>>

\* The double inserts in the same step, or fails as a test has told it to.
FakeCreate(c) ==
  /\ kind = "fake" /\ At(c, "create") /\ ~HasBox(KeyOf[c]) /\ Unused # {}
  /\ LET b == Min(Unused) IN
     \/ New(c, b, "ready") /\ Got(c, "created", b) /\ UNCHANGED faults
     \/ Fails(c, "not-created", "create") /\ Fault /\ UNCHANGED box
     \/ Fails(c, "unknown", "create") /\ Fault
        /\ (New(c, b, "ready") \/ UNCHANGED box)
  /\ UNCHANGED <<kind, cmd, late, kill, reported, reused>>

\* The lookup found nothing; mkdtemp makes a directory.
LocalMakeDirectory(c) ==
  /\ kind = "local" /\ At(c, "create") /\ ~HasBox(KeyOf[c]) /\ Goto(c, "register")
  /\ UNCHANGED <<kind, box, cmd, late, kill, reported, reused, faults>>

\* Metadata and subdirectories are written, then the map gets its entry. A
\* failure leaves a directory that no reference will ever name.
LocalRegister(c) ==
  /\ kind = "local" /\ At(c, "register")
  /\ \/ /\ Unused # {} /\ UNCHANGED faults
        /\ LET b == Min(Unused) IN New(c, b, "ready") /\ Got(c, "created", b)
     \/ Fault /\ Fails(c, "error", None) /\ UNCHANGED box
  /\ UNCHANGED <<kind, cmd, late, kill, reported, reused>>

\* Listing by label: nothing found, or an error, which proves nothing was made.
DaytonaList(c) ==
  /\ kind = "daytona" /\ At(c, "create") /\ call[c].from = None
  /\ \/ /\ ~HasBox(KeyOf[c]) /\ call' = [call EXCEPT ![c].from = "list"]
        /\ UNCHANGED faults
     \/ Fault /\ Fails(c, "not-created", "list")
  /\ UNCHANGED <<kind, box, cmd, late, kill, reported, reused>>

\* Mutant: any error of client.create is taken for a rejection.
AlwaysRejected(error) == "not-created"
\* isCreateRejected: only 4xx answers prove that nothing was made.
Outcome(error) == IF error = "4xx" THEN "not-created" ELSE "unknown"

\* client.create: made, rejected, or timed out with or without a machine.
DaytonaCreate(c) ==
  /\ kind = "daytona" /\ At(c, "create") /\ call[c].from = "list" /\ Unused # {}
  /\ LET b == Min(Unused) IN
     \/ New(c, b, "ready") /\ Got(c, "workspace", b) /\ UNCHANGED faults
     \/ /\ Fault /\ UNCHANGED box
        /\ \E error \in {"4xx", "timeout"} : Fails(c, Outcome(error), "create")
     \/ /\ Fault /\ New(c, b, "creating")
        /\ call' = [call EXCEPT ![c].at = Outcome("timeout"), ![c].from = "create",
                                ![c].made = b]
  /\ UNCHANGED <<kind, cmd, late, kill, reported, reused>>

\* ensureWorkspace looks for the directory and creates it. Its errors go
\* through the classification of client.create.
DaytonaEnsureWorkspace(c) ==
  /\ kind = "daytona" /\ At(c, "workspace")
  /\ \/ box[call[c].box].state = "ready" /\ Goto(c, "created") /\ UNCHANGED faults
     \/ box[call[c].box].state = "gone" /\ Fails(c, Outcome("4xx"), "workspace")
        /\ UNCHANGED faults
     \/ Fault /\ \E error \in {"4xx", "timeout"} : Fails(c, Outcome(error), "workspace")
  /\ UNCHANGED <<kind, box, cmd, late, kill, reported, reused>>

-----------------------------------------------------------------------------
(* connect, waitUntilReady and the upload.                                 *)

\* Local and double only look at their map; the double may time out.
ConnectMapped(c) ==
  /\ kind # "daytona" /\ At(c, "created")
  /\ \/ call[c].box \in Listed /\ Goto(c, "ready") /\ UNCHANGED faults
     \/ call[c].box \notin Listed /\ Goto(c, "lost") /\ UNCHANGED faults
     \/ kind = "fake" /\ Fault /\ Goto(c, "error")
  /\ UNCHANGED <<kind, box, cmd, late, kill, reported, reused>>

\* A stopped machine is started, another one waited for.
DaytonaConnect(c) ==
  /\ kind = "daytona" /\ At(c, "created")
  /\ LET b == call[c].box IN
     \/ /\ box[b].state \in {"ready", "stopped"} /\ Goto(c, "ready")
        /\ box' = [box EXCEPT ![b].state = "ready"] /\ UNCHANGED faults
     \/ /\ box[b].state \in {"error", "destroying", "gone"}
        /\ Goto(c, IF box[b].state = "gone" THEN "lost" ELSE "error")
        /\ UNCHANGED <<box, faults>>
     \/ Fault /\ Goto(c, "error") /\ UNCHANGED box
  /\ UNCHANGED <<kind, cmd, late, kill, reported, reused>>

\* Local files are written one by one through the handle's own reference, with
\* no look at the status: only a removed directory stops it.
LocalWriteFiles(c) ==
  /\ kind = "local" /\ At(c, "ready")
  /\ LET b == call[c].box IN
     IF box[b].state = "gone" THEN Goto(c, "error") /\ UNCHANGED box
     ELSE /\ box' = [box EXCEPT ![b].files = IF @ = "none" THEN "some" ELSE "all"]
          /\ IF box[b].files = "none" THEN UNCHANGED call ELSE Goto(c, "uploaded")
  /\ UNCHANGED <<kind, cmd, late, kill, reported, reused, faults>>

\* One request uploads all files after the directories have been ensured.
DaytonaWriteFiles(c) ==
  /\ kind # "local" /\ At(c, "ready")
  /\ LET b == call[c].box IN
     \/ /\ box[b].state = "ready" /\ box' = [box EXCEPT ![b].files = "all"]
        /\ Goto(c, "uploaded") /\ UNCHANGED faults
     \/ box[b].state # "ready" /\ Goto(c, "error") /\ UNCHANGED <<box, faults>>
     \/ kind = "daytona" /\ Fault /\ Goto(c, "error") /\ UNCHANGED box
  /\ UNCHANGED <<kind, cmd, late, kill, reported, reused>>

-----------------------------------------------------------------------------
(* processes.run.                                                          *)

\* spawn needs the directory; the status of the resource is not looked at.
LocalRun(c) ==
  /\ kind = "local" /\ At(c, "uploaded")
  /\ IF box[call[c].box].state = "gone" THEN Goto(c, "error") /\ UNCHANGED <<cmd, late>>
     ELSE /\ Goto(c, "run") /\ cmd' = [cmd EXCEPT ![c] = "running"]
          /\ late' = IF BeingDestroyed(call[c].box) THEN late \cup {c} ELSE late
  /\ UNCHANGED <<kind, box, kill, reported, reused, faults>>

\* executeCommand; the double answers at once.
RemoteRun(c) ==
  /\ kind # "local" /\ At(c, "uploaded")
  /\ IF box[call[c].box].state = "ready"
     THEN Goto(c, "run") /\ cmd' = [cmd EXCEPT ![c] = IF kind = "fake" THEN "over" ELSE "running"]
     ELSE Goto(c, "error") /\ UNCHANGED cmd
  /\ UNCHANGED <<kind, box, late, kill, reported, reused, faults>>

Settle(cs) == cmd' = [c \in Callers |-> IF c \in cs THEN "over" ELSE cmd[c]]

\* The command ends by itself.
Exit(c) ==
  /\ Alive(c) /\ Settle({c})
  /\ UNCHANGED <<kind, box, call, late, kill, reported, reused, faults>>

\* timeoutMs passes: a signal to the process group here, an answer of the
\* service there.
TimeOut(c) ==
  /\ cmd[c] = "running"
  /\ cmd' = [cmd EXCEPT ![c] = IF kind = "local" THEN "terminated" ELSE "over"]
  /\ UNCHANGED <<kind, box, call, late, kill, reported, reused, faults>>

\* The caller aborts: Daytona rejects at once and has the machine stopped by a
\* request nobody waits for.
Abort(c) ==
  /\ cmd[c] = "running"
  /\ IF kind = "local" THEN cmd' = [cmd EXCEPT ![c] = "terminated"] /\ UNCHANGED box
     ELSE /\ cmd' = [cmd EXCEPT ![c] = "over"]
          /\ \/ UNCHANGED box
             \/ /\ box[call[c].box].state = "ready"
                /\ box' = [box EXCEPT ![call[c].box].state = "stopped"]
  /\ UNCHANGED <<kind, call, late, kill, reported, reused, faults>>

\* SIGKILL a moment after SIGTERM, which the process may have ignored.
ForceKill(c) ==
  /\ cmd[c] = "terminated" /\ Settle({c})
  /\ UNCHANGED <<kind, box, call, late, kill, reported, reused, faults>>

\* run has returned; the output is listed and read, again through the handle:
\* a directory that is still there will do here.
LocalReadOutput(c) ==
  /\ kind = "local" /\ At(c, "run") /\ cmd[c] = "over"
  /\ Goto(c, IF box[call[c].box].state = "gone" THEN "error" ELSE "done")
  /\ UNCHANGED <<kind, box, cmd, late, kill, reported, reused, faults>>

\* A machine that was stopped by an abort has no file system to list.
RemoteReadOutput(c) ==
  /\ kind # "local" /\ At(c, "run") /\ cmd[c] = "over"
  /\ Goto(c, IF box[call[c].box].state = "ready" THEN "done" ELSE "error")
  /\ UNCHANGED <<kind, box, cmd, late, kill, reported, reused, faults>>

-----------------------------------------------------------------------------
(* inspect and destroy.                                                    *)

Tell(b) == reported' = reported \cup {b}

\* Mutant: an error of the service is an answer.
MissingOrError(b) == b \notin Listed \/ faults < MaxFaults
\* Only a 404 tells that a machine is missing; other errors are thrown.
Missing(b) == b \notin Listed

\* inspect, or the lookup destroy begins with, tells that the box is missing.
Inspect(b) ==
  /\ box[b].state # "none" /\ Missing(b) /\ Tell(b)
  /\ UNCHANGED <<kind, box, call, cmd, late, kill, reused, faults>>

\* The double, unless a test has told it to answer pending for a while.
FakeDestroy(b) ==
  /\ kind = "fake" /\ b \in Listed
  /\ box' = [box EXCEPT ![b].state = "gone"] /\ Tell(b)
  /\ UNCHANGED <<kind, call, cmd, late, kill, reused, faults>>

\* Mutant: nobody waits for the processes.
StopWithoutWaiting(d, b) ==
  /\ kind = "local" /\ kill[d].at = "idle" /\ b \in Listed
  /\ kill' = [kill EXCEPT ![d] = [at |-> "remove", box |-> b, of |-> CommandsOf(b)]]
  /\ cmd' = [c \in Callers |-> IF c \in CommandsOf(b) THEN "terminated" ELSE cmd[c]]
  /\ UNCHANGED <<kind, box, call, late, reported, reused, faults>>

\* stopAll signals the processes there are now.
LocalStopAll(d, b) ==
  /\ kind = "local" /\ kill[d].at = "idle" /\ b \in Listed
  /\ kill' = [kill EXCEPT ![d] = [at |-> "stop", box |-> b, of |-> CommandsOf(b)]]
  /\ cmd' = [c \in Callers |-> IF c \in CommandsOf(b) THEN "terminated" ELSE cmd[c]]
  /\ UNCHANGED <<kind, box, call, late, reported, reused, faults>>

\* It waits for them; the fallback timer is longer than the one of SIGKILL.
LocalStopped(d) ==
  /\ kill[d].at = "stop" /\ \A c \in kill[d].of : ~Alive(c)
  /\ kill' = [kill EXCEPT ![d].at = "remove"]
  /\ UNCHANGED <<kind, box, call, cmd, late, reported, reused, faults>>

\* rm -r, then the status.
LocalRemove(d) ==
  /\ kill[d].at = "remove"
  /\ \/ /\ box' = [box EXCEPT ![kill[d].box].state = "gone"] /\ Tell(kill[d].box)
        /\ UNCHANGED faults
     \/ Fault /\ UNCHANGED <<box, reported>>
  /\ kill' = [kill EXCEPT ![d] = NoKill]
  /\ UNCHANGED <<kind, call, cmd, late, reused>>

\* client.delete of a machine that client.get has found.
DaytonaDelete(d, b) ==
  /\ kind = "daytona" /\ kill[d].at = "idle" /\ b \in Listed
  /\ box' = [box EXCEPT ![b].state = "destroying"]
  /\ kill' = [kill EXCEPT ![d] = [at |-> "delete", box |-> b, of |-> {}]]
  /\ UNCHANGED <<kind, call, cmd, late, reported, reused, faults>>

\* The receipt: the deletion has been waited for, or the wait fails.
DaytonaDeleted(d) ==
  /\ kill[d].at = "delete"
  /\ \/ box[kill[d].box].state = "gone" /\ Tell(kill[d].box) /\ UNCHANGED faults
     \/ Fault /\ UNCHANGED reported
  /\ kill' = [kill EXCEPT ![d] = NoKill]
  /\ UNCHANGED <<kind, box, call, cmd, late, reused>>

-----------------------------------------------------------------------------
(* The service and the process.                                            *)

\* Daytona moves machines by itself: start, auto stop, failure, deletion,
\* auto delete and time to live. Commands die with their machine.
MachineMoves(b) ==
  /\ kind = "daytona"
  /\ \/ /\ box[b].state = "creating" /\ box' = [box EXCEPT ![b].state = "ready"]
        /\ UNCHANGED <<cmd, faults>>
     \/ /\ box[b].state = "ready" /\ CommandsOf(b) = {} /\ Fault
        /\ \E s \in {"stopped", "error"} : box' = [box EXCEPT ![b].state = s]
        /\ UNCHANGED cmd
     \/ /\ box[b].state = "destroying" /\ box' = [box EXCEPT ![b].state = "gone"]
        /\ Settle(CommandsOf(b)) /\ UNCHANGED faults
     \/ /\ b \in Listed /\ Fault /\ box' = [box EXCEPT ![b].state = "gone"]
        /\ Settle(CommandsOf(b))
  /\ UNCHANGED <<kind, call, late, kill, reported, reused>>

\* The worker starts again: calls are gone, and with them the map of the local
\* provider, though not its directories, and the memory of the double.
Restart ==
  /\ Fault
  /\ call' = [c \in Callers |-> NoCall] /\ kill' = [d \in Destroyers |-> NoKill]
  /\ cmd' = [c \in Callers |-> "none"] /\ late' = {}
  /\ box' = [b \in Boxes |->
       IF box[b].state = "none" \/ kind = "daytona" THEN box[b]
       ELSE IF kind = "local" THEN [box[b] EXCEPT !.listed = FALSE]
       ELSE [box[b] EXCEPT !.state = "gone"]]
  /\ UNCHANGED <<kind, reported, reused>>

-----------------------------------------------------------------------------

Create(c) ==
  \/ FindByProvisioningKey(c) \/ FakeCreate(c) \/ LocalMakeDirectory(c)
  \/ LocalRegister(c) \/ DaytonaList(c) \/ DaytonaCreate(c)
  \/ DaytonaEnsureWorkspace(c)

Use(c) ==
  \/ ConnectMapped(c) \/ DaytonaConnect(c) \/ LocalWriteFiles(c)
  \/ DaytonaWriteFiles(c) \/ LocalRun(c) \/ RemoteRun(c) \/ Exit(c)
  \/ TimeOut(c) \/ Abort(c) \/ ForceKill(c) \/ LocalReadOutput(c)
  \/ RemoteReadOutput(c)

Destroy(d) ==
  \/ LocalStopped(d) \/ LocalRemove(d) \/ DaytonaDeleted(d)
  \/ \E b \in Boxes : LocalStopAll(d, b) \/ DaytonaDelete(d, b)

Next ==
  \/ \E c \in Callers : Request(c) \/ Create(c) \/ Use(c)
  \/ \E d \in Destroyers : Destroy(d)
  \/ \E b \in Boxes : Inspect(b) \/ FakeDestroy(b) \/ MachineMoves(b)
  \/ Restart

Spec == Init /\ [][Next]_vars

-----------------------------------------------------------------------------
(* Properties.                                                             *)

\* Creates that find a sandbox agree on it, also when overlapping creates have
\* made two for one key: another one is returned only when the first is gone.
ReuseAgrees ==
  [][\A k \in Keys : reused[k] # None /\ reused'[k] # reused[k]
                     => reused[k] \notin Listed]_vars

\* A sandbox reported missing or destroyed is gone. The reconciler ends leases
\* on the strength of it. A restarted local provider reports a directory that
\* it has forgotten.
ReportedIsGone ==
  \A b \in reported :
    box[b].state = "gone" \/ (kind = "local" /\ ~box[b].listed)

\* The outcome not-created, on which SandboxService settles the lease without
\* cleaning up, is true, unless it was the set-up of /workspace that failed.
NotCreatedIsTrue ==
  \A c \in Callers : At(c, "not-created") /\ call[c].from # "workspace"
    => call[c].made = None

\* What docs/superpowers/plans/2026-07-26-sandbox-core.md:844 builds on.
NotCreatedAlwaysTrue ==
  \A c \in Callers : At(c, "not-created") /\ call[c].made # None
    => box[call[c].made].state = "gone"

\* A local command that ran when the destruction of its sandbox began is dead
\* when destroy returns, also if it ignores SIGTERM.
NoCommandOutlivesDestroy ==
  \A c \in Callers : kind = "local" /\ call[c].box \in reported /\ Alive(c)
    => c \in late

=============================================================================
