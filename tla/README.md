# Verification of the AI app builder

TLA+ models, model-checking configurations and machine-checked proofs for the
agent back end of this repository (`src/apps/server`) and of the page that uses
it (`src/apps/web`): a user asks for an app, a worker drives a language model
and a build, and the result becomes the head of a project branch. Paths below are relative to `src/apps/server/src` unless
they start with `docs` or `apps`.

| module | what it models | proofs |
|---|---|---|
| `RunExecution` | agent runs on one branch: API, queue, workers, execution lease, head | `RunExecutionProofs` |
| `Generation` | what a run does to a project: operations, dependencies, repairs, candidates | `GenerationProofs` |
| `SandboxLease` | build sandboxes of one branch: lease, service, reconciler, provider | `SandboxLeaseProofs` |
| `SandboxQuota` | reservation of leases under the workspace lock | `SandboxProvidersProofs` |
| `SandboxProviders` | the three providers behind the leases | `SandboxProvidersProofs` |
| `EventStream` | the events of a run, from their emitters to the page that watches | `EventStreamProofs` |
| `EventFeed` | what the event log and its stream promise that page (abstract) | `EventStreamProofs` |
| `ArtifactStore` | manifests and blobs, their writers and the reconciler | `ArtifactStoreProofs` |
| `ProjectValidation` | the local validator and the dependency cache validations share | `GenerationProofs` |
| `Projects` | users, projects, branches and chats of the API, and the migration | `ProjectsProofs` |
| `Workspace` | the builder page: panel, timeline, versions and unfinished calls | `WorkspaceProofs` |

Each module `M` has its small instance in `MCM.tla` and its configuration in
`M.cfg`; `RunLiveness.cfg` and `SandboxReclaim.cfg` are second configurations of
`MCRunExecution` and `MCSandboxLease`. `PROJECT.json` lists components, runs,
mutants, the map to the source, hazards and theorems.

To repeat a result: `tlc -workers 2 -config RunExecution.cfg MCRunExecution.tla`,
`tlapm RunExecutionProofs.tla`.

## 1. The system

### Components, their state and their operations

**Agent runs** (`models/AgentRun.ts`, `agent/stateMachine.ts`,
`routes/agent.ts`). A run is a document with a status, the head version of its
branch it was built on (`baseHeadVersion`), and, for the retry of a failed
validation, the run it retries. The API creates, cancels and retries runs; every
change of status is a compare-and-set checked against a table.

**Queue and workers** (`agent/queue.ts`, `agent/createWorker.ts`, `worker.ts`).
Each run has one BullMQ job. A slot takes a job, acquires the branch's lease or
delays the job, rebases a run that had to wait, and calls the orchestrator. A job
whose worker dies is redelivered once; a job that throws is repeated.

**Branch execution lease** (`branches/branchExecution.ts`,
`models/BranchExecutionLease.ts`). One document per branch, renewed by a
heartbeat, free for the taking when expired, re-entered by a redelivered job of
the same run, deleted by a TTL index.

**Orchestrator** (`agent/orchestrator.ts`). Generation, validation and repair;
then persisting, the snapshot, the compare-and-set of the branch head
(`branches/branchService.ts`), the final status, the project's mirror of the head
and the durable `run.completed`. The catch block fails the run, keeps a candidate
of a retryable failure and emits `run.failed`. A redelivered job resumes at the
point its run's status tells.

**Branch head and mirror** (`models/ProjectBranch.ts`, `routes/project.ts`). Head
snapshot and head version change together; `Project.activeSnapshotId` follows in a
second write. A rollback is the same two writes.

**Sandbox leases** (`sandbox/SandboxService.ts`, `SandboxRepository.ts`,
`models/SandboxLease.ts`). A validator reserves a lease (one build per branch by a
partial unique index), creates a resource at the provider, binds it, waits until it
is ready, runs commands under heartbeats and terminates.

**Sandbox reconciler** (`sandbox/SandboxReconciler.ts`). In every worker, beside
the jobs: fails abandoned reservations, resumes provisioning, preempts builds with
stale heartbeats, marks leases lost, terminates what has expired, destroys
duplicates and orphans at the provider.

**Quotas** (`sandbox/QuotaScheduler.ts`, `WorkspaceQuotaLock.ts`). Counts leases
against the limits of workspace and project under a Redis lock with a TTL that is
renewed, verified before the insertion and released by its token.

**Providers** (`sandbox/providers`). Daytona over HTTP, local processes in
directories for development, a deterministic double for tests: create by
provisioning key, connect, write, run, read, inspect, list, destroy.

**Event log and stream** (`agent/eventBus.ts`, `agent/sseStream.ts`,
`apps/web/src/services/agentEventStream.ts`, `agentRunMonitor.ts`). Numbered
durable events per run, published to Redis; a stream merges the backlog with live
messages; the browser reconnects with the last number it has seen, at most three
times, and then polls the run.

**Artifacts** (`artifacts/*`, `reconcileArtifacts.ts`). Content-addressed blobs on a
shared file system, a manifest with states in MongoDB, a one-shot reconciler that
promotes, marks corrupt and deletes what nobody refers to.

**Generation** (`agent/orchestrator.ts`, `fileOperations.ts`, `dependencies.ts`).
Plan, answer, operations on the base's files, the server's own `package.json`,
validation and repairs; the result is a snapshot or a candidate.

**Local validation** (`agent/validator.ts`, `agent/validation/*`,
`agent/workspace/*`). Structure, manifest, installation through a cache of
`node_modules` shared by all workers under lock files, concurrent checks, build,
CSS evidence, preview; a cleanup removes entries by age and size.

**Projects, branches, chats, users** (`routes/auth.ts`, `project.ts`, `chat.ts`,
`workspaces/*`, `branches/branchService.ts`). Documents that name one another
(`Project.chatIds` and `Chat.projectId`, head and mirror), written one by one.

**Migration** (`migrations/20260726WorkspaceBranches.ts`). Creates workspace,
members, owners, main branches and back-fills chats and runs, idempotently.

**Builder page** (`apps/web/src/pages/AppBuilderPage.tsx`,
`lib/appBuilderWorkspace.ts`, `lib/chatTimeline.ts`). One thread with many calls in
flight; request numbers and an abort controller decide which answers count.

**The rest**: model clients, prompts, artifact bundles, previews, rendering,
deployment. `PROJECT.json` lists each with its status and the reason.

### How they interact

API and workers share only MongoDB and the queue. Two workers on one branch meet
in the lease, two runs in the head's version, a worker and its reconciler in the
sandbox lease, and every worker meets its own past after a crash. There are no
transactions: whatever one step writes, another process may see before the next.

### What is hard

`PROJECT.json` has the list of hazards with the lines where they bite. In short:
cancellation racing persistence; redelivery of a job whose worker is alive;
recovery repeating half of a commit; a lease that expires between check and use;
a baseline that is stale when used; two writes that should be one (head and
mirror); a reconciler that acts on copies while the validator goes on; a clean-up
that goes on after losing its compare-and-set; a resource that exists although its
creation failed; a lease that re-enters a unique index when it is terminated; two
emitters that number and publish events of one run; an event published while a
stream reads its backlog; a blob deleted while an attempt is about to refer to it;
a link that is visible before it is durable; a cache entry others look at while it
is made; a lock whose holder died; a migration killed between two writes; an answer
that comes for a chat the user has left.

## 2. Plan

All modules of the table are written and checked; the order was that of the risk of
losing a user's work: run execution, sandboxes, events, artifacts, then what feeds
and surrounds them. The composition is by abstraction: `Generation` is what
`RunExecution` abstracts as `Work`; `SandboxQuota` and `SandboxProviders` are what
`SandboxLease` abstracts as `Reserve` and as the provider's outcomes, and their
properties are the assumptions it makes of them (`ReportedIsGone` behind
`LostMeansGone`, `NotCreatedIsTrue` behind `CreateRejected`); `EventStream` is
`RunExecution`'s `EmitCompleted` and `EmitFailed` in detail, and refines
`EventFeed`. Every safety property a run checks is proved. What is left to model:
snapshots and messages in `Projects`; branches created from a chosen snapshot.

## 3. RunExecution

### Correspondence

One branch, with the snapshot `Earlier` at its head before these runs (or none). A run, its snapshot and its candidate are one name, because the
database keys the latter two by the run. Every action is one round trip to MongoDB
or BullMQ; `worker[w].pc` is the place in the code between two round trips and
`worker[w]` holds its local variables, so an action never uses what the code would
have to read again. The names of the actions are those of the functions they
translate; the map in `PROJECT.json` has the lines.

- API: `CreateRun`, `RetryValidation`, `Enqueue` (a separate step: the process may
  die in between), `Cancel`, `RollbackHead`, `RollbackMirror`.
- Slot: `Deliver`, `LoadStatus`, `Acquire`, `MarkRunWaiting`, `RebaseRead`,
  `Rebase`, `Requeue`, `Release`.
- Orchestrator: `ReadRun` (the recovery switch on the status), `FindSnapshot`,
  `FailOrphan`, `Begin`, `Work` with `NextPhase`, `AssertHeld`, `Persist`,
  `CreateRunSnapshot`, `CommitBranchHead`, `CommitOutcome`, `CompleteRun`,
  `UpdateMirror`, `DropCandidate`, `EmitCompleted`, `StoreCandidate`,
  `FailAgentRun`, `FailValidationRetry`, `EmitFailed`, `Abort`.
- Time and failure: `Heartbeat`, `LeaseExpires`, `LeaseReaped`,
  `CandidateExpires`, `Crash`, `Stall`; a failing database call: `ProcessorThrows`
  in the steps of the processor outside its `try` (`agent/createWorker.ts:63-130` and
  the release), `StepThrows` in those of the orchestrator.

Abstracted: what the model writes, what the build says (each verdict is a
nondeterministic outcome of `Work`), file contents, event payloads other than
`run.completed` and `run.failed`. The TTL of a candidate may fire at any time.

Constants that bound: `MaxRepairs` (2 by default; one repair already
visits every phase twice), `MaxCrashes`, `MaxRollbacks` (one rollback in
progress at a time), `MaxStalls` and `MaxAttempts` (BullMQ's default
of 1 and the job option 2), `FaultyAt` (the steps whose database call may throw; a call that throws has
not taken effect). A database error is possible at every step of processor and
orchestrator, with one exception: `MarkRunWaiting` writes the run's status and moves
the job to the delayed ones in one action, so neither an error nor a crash comes
between the two. An error after `Acquire` and before the `try` leaves guard
and heartbeat running in the code; in the model the lease stays and may expire or not,
which allows more. `LiveStalls` lets
BullMQ redeliver a job whose worker is alive; `SlowHeartbeats` lets a lease expire
while its holder is alive. They are off where a property claims only what holds
without them; of the theorems `ExclusiveWhenTimely` assumes both off, and those on
events, baselines and the commits of retries the first.

### What the runs show

| run | instance | states | what |
|---|---|---|---|
| `run_execution` | 2 runs, 2 slots, crash, stall, rollback, repair, a database error at any step but `Release` | 4.9 M | cancelled runs leave no trace; a run moves the head at most once and on its own baseline, a retry on its source's; one executor per branch; events agree with the status |
| `run_liveness` | 2 runs, 2 slots, crash, stall, rollback, an error in `Release`, fairness | 0.4 M | every queued generation ends |

Two runs are the least that conflict on a branch, or make a run and its retry. Two
slots are the least that execute concurrently or redeliver. One stall is BullMQ's own
limit. A retry waits while its failed source, or what a crash left of it, still holds the
lease; a rollback to `Earlier` moves the head meanwhile, and `RetryCommitsOnSource` says
that the retry then conflicts instead of being rebased onto a head its candidate was
not built on.

Late heartbeats (hazard: the lease expires between check and use) and redelivery to a
second live slot are off in both runs, because other properties are false with them:
`AdvancesAtMostOnce` and `CancelledLeavesNoTrace` are proved with both, the properties of
baselines with the first. TLC agreed on instances of their own, three runs with late
heartbeats and two with live stalls.

Fairness of `run_liveness`: a slot's next step is weakly fair (a live Node process
goes on), as are the redelivery of a dead slot's job (BullMQ's stalled check) and
the expiry of an unrenewed lease (time passes). Delivery of each job is strongly
fair: it is not possible while the slots are busy, and the queue is first in, first
out. Nothing makes a user create or cancel, the API enqueue, a worker crash, or a
database call fail. That a model call or a build returns is an assumption: commands
have timeouts, model calls only those of their client library.

What the code does *not* guarantee, and no property claims: a failed run may have
moved the head (a database error after the commit lands in the catch block); the
retry's catch block emits `run.failed` whatever its update matched
(`agent/orchestrator.ts:1178`); two slots execute one run at once when BullMQ
redelivers the job of a live worker; a rollback interleaved with a commit leaves
the mirror behind the head; `run.completed` is lost when its insertion fails
(`CompletionReported`, section 12).

### What is proved

For any runs, workers and bounds (`RunExecutionProofs`, in four parts). The first
three theorems allow `LiveStalls`, `SlowHeartbeats` and every fault.

- `TypeCorrect`: `[]TypeOK`.
- `CommitInvCorrect`: `[]CommitInv`, the inductive invariant. `AdvancesAtMostOnce`
  alone is not inductive: one has to know that a run that has moved the head holds
  a stale baseline wherever it is kept - in the document, in a slot, in a
  redelivered slot - so that every further compare-and-set fails, and that a run
  whose snapshot exists was not cancelled and never will be.
- `CancelSafe` (`CancelledLeavesNoTrace`) and `AtMostOneAdvance` follow.
- `RetryKeepsBaseline` (`RetryInv`, inductive with the two above): a retry's source
  has settled and never changes its baseline again, a delayed retry is requeued and
  never rebased, and a slot on its way to the commit holds the retry's baseline.
- `RetriesCommitOnSource` (`RetryCommitsOnSource`), from that invariant and `~LiveStalls`:
  a retry moves the head only from the version its source was built on, whatever moved
  the head while it waited.
- `ExclusiveWhenTimely` (`ExclusiveExecution`), from the assumption `Timely`: BullMQ
  redelivers no job whose worker is alive and no lease expires while its holder is.
  The invariant `ExclusionInv`: a busy slot owns its job, so no two slots have one
  run, and a slot past `Acquire` has the live lease, so no two slots have two runs.
  Without `Timely` the property is false, with a run of its own at each slot or one
  run at both.

- `GenerationReportsAgree` (`GenerationEventsAgree`) and `CommitsBuildOnBaseline`
  (`CommitsOnBaseline`), from `~LiveStalls` alone, so with late heartbeats. One slot at
  a time owns a run's job; the invariants say which events, statuses and baselines it
  has already written at each place, and what the next owner finds after a crash.
  With a second live slot on a run both are false: the first may settle the run as
  `completed_with_conflict`, which the catch block of the second does not exclude from
  what it fails; and a redelivered run may be rebased under the slot about to commit it.

The proofs have one lemma or step per action; `Next` is split at the end. Only
model-checked: liveness.

## 4. SandboxLease

### Correspondence

All leases of one branch. A build is a provisioning key (run and attempt); it
names its lease and the validator that works for it. `actor[p]` is a validator or
a reconciler: its place in the code, the lease it works on, the resource reference
it holds and the duplicates it still has to destroy. A reconciler takes a copy
(`Scan`), decides on it (`Decision`, the branches of `reconcileLease`) and acts
when the lease may have changed. `resource` is the provider's side: live, being
destroyed, gone, in the order of creation. Times are two flags per lease,
`fresh` (heartbeat younger than the timeout) and `expired`.

- Validator: `Reserve`, `Provision`, `Lookup`, `Create`, `CreateRejected`, `Bind`,
  `Resume`, `Connect`, `MarkReady`, `Cleanup`, `CleanupDestroy`, `CleanupSettle`,
  `RunCommand`, `Heartbeat`, `EndCommand`, `Terminate`, `DestroyBound`, `Confirm`.
- Reconciler: `Scan`, `FailReserved`, `ClaimStale`, `CheckUsed`, `CheckBound`,
  `List`, `DestroyDuplicates`, `Claim`, the service's actions from `Resume` and
  `Terminate` on, `OrphanFound`, `DestroyOrphan`.
- Outside: `LeaseExpires`, `HeartbeatAges`, `DestroyCompletes`, `ResourceDies`,
  `Throw` (a crash, or an error nobody catches).

Provider calls follow `SandboxProvider.ts` and the Daytona adapter: creation may
succeed and answer with an error, destruction may be complete, pending, or fail
before or after taking effect, an inspection either tells the truth or throws.
Merged into one action: a step that inspects a resource and acts only if it is
missing (a missing resource never returns), and the reads and the compare-and-set
of `terminate` and `runBuildCommand`, whose lost compare-and-set is an outcome of
`Throw` or of the alternative that gives up. `claimProvisioning` compares
`updatedAt`; as losing only ends a pass it is a choice. Left out: quota counting,
export of the build output, the batch limit, previews (no code starts one).

Bounds: `MaxResources` (resources the provider ever creates; two is the least for
duplicates and rebinding), `MaxDeaths`, `MaxFaults`. `LongGrace` says that the
orphan grace period outlasts any provisioning; no run assumes it.

### What the runs show

| run | instance | states | what |
|---|---|---|---|
| `sandbox_lease` | 2 builds, 1 reconciler, 2 resources, a death, a fault | 3.1 M | two builds never execute at once; lost leases have lost their resource; no fresh build is preempted; leases are terminated only when the resource is missing, or by the clean-up |
| `sandbox_reclaim` | 2 builds, 1 resource, a fault, fairness | 0.2 M | every lease ends; every unreferenced resource is adopted or destroyed |

Two builds are the least that compete for the branch. `ExclusiveBuild` is a claim
about one worker process: with the reconcilers of two processes the leak of section
12 takes a build's lease from under it. With one reconciler that leak cannot happen:
the instance also satisfies `SettlesOwn`, from which the theorem below proves
`ExclusiveBuild` for any number of them. A reconciler of the model looks at one lease
at a time; the code reads up to a hundred at the start of a pass and acts on the later
ones with older copies, like several reconcilers of which one acts at a time.

Fairness of `sandbox_reclaim`: an actor that is not dead takes its next step; the
reconciler loop comes back to every lease and every resource (strong fairness: in
between it is busy with others); leases expire; a deletion the provider has
accepted completes; a provider that is asked again and again to destroy does so in
the end. Crashes and errors are bounded, not fair.

### What is proved

For any builds, reconcilers and bounds (`SandboxLeaseProofs`):

- `SandboxTypeCorrect`: `[]TypeOK`; `SafeInvCorrect`: `[]SafeInv`.
- `LostCorrect` (`LostMeansGone`), `FreshSafe` (`NoPreemptFresh`) and
  `ConfirmedTermination` (`TerminatedOnlyWhenGone`).

`SafeInv` says what a reference read earlier is still worth: in the states from
ready on an `externalId` is final, so a reconciler about to inspect and a
terminating actor hold the lease's own resource; an actor that is going to
terminate somebody else's lease has seen it expired or ended, which cannot be
undone. It is inductive because a step moves each lease and each resource only
forward (`LeaseStep`, `ResourceStep`), which carries the knowledge of every actor
that does not move (`OthersKeep`); what is left is one short lemma per action. The
action properties follow from `WhoMoves`, which enumerates why a lease changes its
state.

- `OneBuildAtATime` (`ExclusiveBuild`), for any number of reconcilers, of behaviours in
  which the clean-up of a reconciler settles a lease only while it is bound to the
  resource the clean-up has destroyed (`SettlesOwn`). This excludes one step of the
  code, the leak of section 12 (`sandbox/SandboxService.ts:631`), and no reconciler:
  that step is the only way two builds can come to execute at once. The invariant
  `OneBuildInv` says that the partial unique index admits one lease (`Unique`), that a
  running command's lease is among those that have been in use and stays bound to the
  command's resource, which is not live once the lease is terminated (`ExecInv`), and
  that a reconciler that resumes provisioning holds a resource, which it has destroyed
  before it settles the lease (`ResumeInv`).

Only model-checked: all liveness.

## 5. EventStream

### Correspondence

One run, one page. `producer[p]` is an emitter: an attempt of the job or the cancel
handler; `emitAgentEvent` is three steps of it, `getNextSequence`, `Create` and
`Publish`, between which others act. What the emitters do otherwise
(`Deliver`, `Stall`, `ReadRun`, `Begin`, `Step`, `Persist`, `Commit`, `FailOrphan`,
`Catch`, `Cancel`) is `RunExecution` without branch and lease, kept to what decides which
event is emitted, after which change of the status, and what a throwing emission
leads to. `agent.step` stands for all events between the first and the last.

- `conn` is `streamAgentRunEvents` for the open connection: `Subscribe`,
  `LoadEvents` (the query; its result is used in a later turn), `Merge`, `Message`;
  `inbox` is what Redis has sent and the handler has not seen. `StreamFails` is a
  subscription that times out or is refused and a query that fails: the response
  ends after the frames already written (`wire`).
- `client` is `streamAgentEvents` (`Connect`, `ReadFrame`, `EndOfStream`, `Break`,
  `BackoffEnds`, `ConnectFails`, `ConnectRefused`) inside `monitorAgentRun`
  (`FetchDetail`, `Poll`, `GetRunFails`, `Abort`).
- History: `published`, `late` (published after a later number), `lost`, `shown`.

Left out: heartbeats, the parsing of frames and the errors of malformed ones, which
the server does not send, errors thrown by the page's own callback, validation
retries as a source of events.

Bounds: `MaxEvents` (no progress event is begun once the log has that many),
`MaxFaults` (crashes, stalls, failing calls, broken connections), `MaxAttempts` (2 in
the code), `MaxReconnects` (3), `MaxPolls` (60). Two faults and one
reconnection are the least that reach the fallback; two attempts and the cancel
handler make up to three emitters of one number.

### What the runs show

| run | instance | states | what |
|---|---|---|---|
| `event_stream` | 2 attempts, cancel, 2 faults, 1 reconnection, fairness | 0.6 M | the stream implements `EventFeed` (dense numbers; shown in order, once, nothing after the end); an event the page passes over was unpublished, published late, or dropped by Redis, never lost between backlog and subscription; a terminal event published in order ends the monitor |

`EventFeed` does not promise that every event is shown, because the code does not:
insertion and publication are two steps, so with two emitters number n + 1 may be
published first; the stream then drops n, and reconnecting does not bring it back.
When n is `run.cancelled` and n + 1 a progress event of the worker that has not yet
noticed, the page waits on heartbeats, connection after connection, until its
reconnections are used up and it polls. The same happens when the
insertion of `run.cancelled` loses the race for its number (the handler fails and
nothing repeats the event), when the process dies between insertion and
publication, and when recovery fails a run without an event.

Fairness of `event_stream`: the promises of the stream and of the page are
resolved - MongoDB and Redis answer or the call fails (the subscription has a
timeout of its own), a fetch does not hang. Emitters, faults and the user are not
fair: the liveness property starts from a published terminal event.

The merge of backlog and buffer is not a fold in the model: `backlog` and `buffer` are
the sets of events the query and the subscription have brought, and `Merge` writes, in
the order of their numbers (`InOrder`), those above the page's last - what the code's
`sort` and its loop with `lastSequence` do. A set can be reasoned about without
induction over its elements.

### What is proved

For any emitters, numbers of events, failures and reconnections (`EventStreamProofs`):

- `Consistent`: the inductive invariant `Inv`. The log is numbered densely (`LogInv`),
  an emitter about to insert holds a number up to the next (`ProducerInv`), everything
  held by connection and page is of the log (`StreamTyped`), and a page that still
  reads has shown no terminal event (`ReadingInv`).
- `NothingFallsBetween` (`GapsComeFromPublishers`). `PageInv` says that a number the page
  is past was shown or is `Skippable` (published late, dropped by Redis, or not
  published when a later one was), and that the frames on the wire leave no other
  number behind; `ConnInv`, that from the query on every published event has been
  written, is held for the merge, waits in the subscriber's inbox or was dropped. The
  query comes after the subscription, so an event it does not find is published later.
- `KeepsTheFeed`: `Spec => FeedSpec`, the refinement of `EventFeed`: every step appends
  to the log or to what is shown as `EventFeed` allows, or stutters there. That
  `InOrder` lists a set in order is shown by the rank of each event, the number of those
  below it, which is a bijection (`RankIs`).

Only model-checked: that a terminal event published in order ends the monitor.

## 6. Generation

### Correspondence

What `RunExecution` takes as the steps of `Work` and `ValidationPassed`: the files of
a project through a run, one run after another on whatever the last one stored.
`Begin` loads the base; `GeneratePlan`, `GenerateFiles` are the two calls of the
model; `Write` and `Delete` are one operation of the answer each
(`applyFileOperations`, with the spelling the model chose); `Assemble` is
`hasEffectiveFileChanges`, the merge of dependencies and `writeServerPackageJson`;
`Validate` the verdicts and the loop on their fingerprints; `Repair`, `Throws`,
`CreateRunSnapshot` and `RetryCandidate` what comes of them.

A text is a member of `Texts`; the manifest the server writes is the table of
dependencies itself, so a manifest written by the model is told from it. Operations
are drawn one at a time, dependencies and devDependencies are one table. Left out:
the truncation of the prompt's context, and the wording of anything.

Bounds: two spellings of one required file, a file of the application, the manifest;
two texts, two names and two versions; two operations per answer, two repairs (the
code's limit), two runs. Two runs are the least where what one leaves in the project
is the base of another.

### What the run shows

`generation` (8.9 M states): what is built, stored or kept for a retry has the
template's required files, the server's own manifest and every required dependency
(`AlwaysBuildable`); a snapshot is stored only in exactly the form a real build
passed (`OnlyVerifiedIsStored`), through repairs, simulated validations and
candidates. Things the model shows on the way, none against a document: an answer
that only rewrites `package.json`, or writes a required file under another spelling
of its path, counts as an effective change; one that only adds dependencies does
not; nothing ever removes a dependency.

### What is proved

`GenerationProofs`, for any paths, contents, dependencies, template and numbers of
operations, repairs and runs: `GenerationTypeCorrect`; `GenerationInvariant`;
`EveryProjectBuildable` and `EverySnapshotVerified`, which follow. `AlwaysBuildable`
speaks of the projects that are finished; the invariant adds what holds of one
between two operations (`Keeps`) and that every base is itself a stored project.

## 7. ArtifactStore

### Correspondence

`writer[w]` is a job attempt in `writeEncoded`: `CreateOrLoadManifest`, `Link` (the
temporary file and the link to its final name), `SyncDirectory`, `Verify`,
`MarkCorrupt`, `Publish`, then `Refer` (a snapshot or candidate document) or
`CreateLease`, `Hydrate`, `Terminate` (a sandbox's source). `rec` is
`reconcileArtifacts` with its three scans; `Examine`, `Settle`, `Look` (the queries of
`hasReference`), `Claim` (the compare-and-set, in which references are not looked at),
`Recheck`, `Restore`, `Unlink`, `SyncDeletion`, `RemoveManifest` are its commands and
system calls. `file` is what processes see, `disk` what a power loss leaves: `Link` and
`Unlink` change the first, a directory sync copies it to the second. Ages are three
steps (`fresh`, `stale`, `old`: past the grace period, past the retention).

The environment: `Crash`, `StoreFails`, `StoreUnavailable`, `PassDies`, `PowerLoss`,
`Damage`, each counted by `MaxFaults`; `TerminateAbandoned` and `CandidateExpires`
end references.

Bounds: two writers, one key or two, two artifact ids (a deleted one frees its
key), one fault anywhere. `overran` records that an attempt met an artifact past the
retention (30 days): there the code protects nothing, see section 12.

### What the run shows

`artifact_store` (1.0 M states): what a document or a lease names can be read
(`ReferencedIsReadable`); a published artifact survives power loss
(`PublishedIsDurable`), though another writer of the key finds the link before it is
durable; a removed manifest has no blob, not even after a power loss
(`CollectedIsGone`); once the attempts are over every artifact is referenced, corrupt
or deleted (`ArtifactsSettle`).

Fairness: attempts run to their end, time passes, and maintenance is run again and
again. The last is an assumption about operation: the reconciler is a one-shot
command. Nothing ever collects a corrupt manifest, which is why `ArtifactsSettle` lets
it stay. A manifest the *reconciler* promotes is not covered by `PublishedIsDurable`:
promotion does not sync the directory.

### What is proved

`ArtifactStoreProofs`, for any writers, keys, ids and numbers of faults:
`TypeCorrect`, `StoreInvariant`, `ReferencesCanBeRead`, `PublishedSurvives`,
`DeletedForGood`. The invariant `StoreInv` holds as long as no attempt overran: what
an attempt works on is neither old nor being deleted (`Protected`), so `Claim`, which
wants an old artifact, never takes it, a reference appears only for a protected
artifact, and what the pass is about to delete has no reference (`CollectsUnneeded`);
a blob is linked before it is synced and synced before it is published (`Stored`),
and unlinked before synced before forgotten. Without `Protected` the step from
`Recheck` to `Unlink` breaks the first property: reference check and deletion are two
steps. Only model-checked: `ArtifactsSettle`.

## 8. SandboxQuota and SandboxProviders

`SandboxQuota` is `reserve` step by step: `Acquire` takes the lock, `CheckScope`,
`FindExisting`, `CheckBranch` and `Count` read under it, `AssertHeld` and
`CreateReserved` insert, `Release` ends the call (`Reserve` is their disjunction);
`Renew` and `Expire` are the lock's time to live, `RedisFails` and `Die` the faults.
`LeaseStep` changes leases beside the lock, as services and reconcilers do. Three
requests: two attempts at one lease and a rival for the project's last slot; two
faults. `sandbox_quota` (0.3 M states): no insertion exceeds a limit
(`CountedUnderLock`), except when the lock expires between `assertHeld` and the
insertion (section 12) or a failed lease starts to terminate, and counts again,
between a count and its insertion (`lapsed` records that either happened).

`InsertionsWithinLimits` (`CountedUnderLock`) is proved for any requests, finite set of
leases, profiles and limits, in the second part of `SandboxProvidersProofs`. The
invariant `QuotaInv` says, until `lapsed`, that a call about to insert has the lock, and
that for the call with the lock, from `assertHeld` on, what it counted still fits; only
the holder adds leases meanwhile, the others only take away. That fewer leases have no
more CPUs (`CpuMonotone`) is a lemma about a fold, which has no induction to cite: its
sum is constructed size by size and compared with the fold, each time at a
counterexample of least size (`LeastOf`).

`SandboxProviders` has the three providers in one module, because the lease service
relies on the same answers of all: `kind` is chosen at the start. A caller looks its
key up, creates, connects, writes, runs and reads; a destroyer destroys; the local
provider's steps end where the code awaits, Daytona's are requests. Faults: failed
requests before or after taking effect, machines that break, a restart that forgets
the local map. `sandbox_providers` (1.0 M states, two overlapping callers of one key,
two specifications, a destroyer, two boxes, two faults): what is reported missing or
destroyed is gone (`ReportedIsGone`); `not-created` is true (`NotCreatedIsTrue`); a
local command that ran when destruction began is dead when it ends, also if it
ignores SIGTERM (`NoCommandOutlivesDestroy`); overlapping creates may make two
sandboxes for a key, and every later lookup still agrees on one (`ReuseAgrees`).
Exceptions named in the properties: a restarted local provider has forgotten its
directories; errors of Daytona's `ensureWorkspace` (section 12).

Proved for any callers, destroyers, keys, specifications, boxes and faults (first part
of `SandboxProvidersProofs`): `Consistent`, `ReportsAreTrue` (`ReportedIsGone`),
`RejectionsAreTrue` (`NotCreatedIsTrue`), `CommandsAreStopped`
(`NoCommandOutlivesDestroy`) and the action property `CreatesAgree` (`ReuseAgrees`).
The invariant has a part per actor: boxes are numbered as they are made and only a
local one is forgotten (`BoxInv`); a call has made nothing before it creates (`MadeInv`);
a command runs in the box of its call, and whoever destroys that box knows it unless it
came late (`CommandInv`). For `ReuseAgrees` the least
numbered box of a key is taken by well-founded minimum, and shown to stay the least.

Path checks, size limits and the many Daytona states are
reduced to what callers tell apart.

## 9. ProjectValidation

`val[v]` is a call of `validate`: `Structure`, `CreateWorkspace`, the cache's
`prepare` (`Look`, `LookModules`, `Mark`, `Open` of the lock file, `PollHit`,
`LockTimeout`, `Install`, `InstallEnds`, `Publish`, `Rename`, `Link`, `Unlock`),
retries (`Failed`), the concurrent commands (`CheckEnds`, `ChecksThrow`), CSS
evidence, preview and `Cleanup`. `cleaner` is the cache cleanup: `Scan`, `Pick`,
`Reread`, `Relock`, `Remove`. `entry[f]` is what is on disk of a cache entry. `Abort`
is the signal, `Die` the death of a process with its lock left behind.

A project is known by its flaw, `Verdict` is what validation should find of it.
Bounds: two validations of one fingerprint - the least that share an entry - in three
pairs of flaws that cover every verdict; one retry, one cleanup, two faults.

`project_validation` (1.5 M states): a verdict other than INFRA_ERROR is what the
project deserves, whoever installed (`VerdictIsFair`; excepted are validations
`disturbed` by a cleanup in their entry or by a killed command, where the code does
give wrong verdicts); one installs at a time; a validation that is over leaves no
workspace, staging directory or lock behind (`NothingIsLeftBehind`; a report that
cannot be stored leaves the other command running); every validation ends, also
behind a stale lock (`ValidationsEnd`). Fairness: the steps of each validation, as
commands have timeouts; none for the cleanup, nor for beginning one.

### What is proved

For any validations, fingerprints, flaws, retries, cleanups and faults
(second part of `GenerationProofs`): `TypeCorrect`, `TidyAfterwards` (`NothingIsLeftBehind`),
`OneInstaller` (`OneInstallsAtATime`), `FairVerdicts` (`VerdictIsFair`). `Tidy` says at
which steps a validation has the lock file, a staging directory, a workspace and running
commands; the lock names its creator, so no two install. `OnEntry` says what a
validation may rely on - the entry it is to use is whole, the one it is to replace is
not there, unless a cleanup took it apart (`torn`) - and `OnProject` that each failure
found so far is the project's fault and each check that passed had nothing to find,
unless the validation was `disturbed`. The types need the cleanup's own (`CleanerOK`), as
it acts on the entry it has picked. Only
model-checked: `ValidationsEnd`.

What the code does and no property denies: after a crash every later validation of
the fingerprint waits `lockTimeoutMs` and ends in INFRA_ERROR unless the entry is
complete, for nothing removes the lock file and the cleanup leaves locked entries
alone; waiting ignores the abort signal; a cleanup that dies half way may leave an
entry that still looks complete.

## 10. Projects

The documents of users, workspaces, projects, branches and chats, and the handlers
that write them, one MongoDB command per action. A request (`request[x]`) carries the
copies it has read: `ArriveUser`, `ArriveProject`, `ArriveChat` begin one,
`ReadProject`, `ReadChat`, `UpsertMain`, `FindBranch`, `InsertBranch`, `InsertChat`,
`Push`, `Save`, `Filter`, `Unset`, `UnsetAll`, `DeleteProject`, `DeleteChat`,
`SetBranchHead`, `SetMirror` are its commands, with Mongoose's versioned saves. The
database starts in the layout before the migration; `Migrate...` are its commands,
killed anywhere by `MigrationDies` and repeated; `Verify` and `Serve` end it; `Stop`
returns to it later.

Bounds: two users, two projects, two chats, one legacy run, two requests at once and
four in all, two moves of a head, one fault. Two requests are the least that overlap.
`projects` (2.0 M states): a chat is on a branch of its own project
(`ChatsOnBranches`); a project's list and the chats' fields agree (`ListsAgree`), except
for the chats in `strayed`; a main branch made late
does not take the head back (`MirrorNeverAhead`); repeated runs of the migration end
and pass its verification (`MigrationCompletes`), with fairness of the migration only
- the operator repeats it.

`strayed` has the chats the code gives no protection to, and chats do stray. There are
three ways into it: two requests on one chat overlap, or the project of a request is
deleted meanwhile (`Clash`); a request is cut between its two writes (there is no
transaction); and `removeChat` is sent to a project the chat is not in (`Misdirected`).
The last needs no race: one undisturbed request is enough, because the second write
(`routes/project.ts:503`) finds the chat by its id alone, whoever owns it and wherever
it is, and takes its project away while that project's list keeps it. The model
sends such requests, for chats of any user. So `ListsAgree` says nothing of two requests
on one chat or of a misdirected one; it says that everything else - requests on other
chats of the same project, deletions of other projects, the migration -
leaves the two records of a chat in agreement. Ids of deleted chats are not sent.

### What is proved

For any users, projects, chats, finite number of request slots and bounds
(`ProjectsProofs`): `Consistent`, `ChatsStayOnBranches` (`ChatsOnBranches`),
`MirrorsNeverAhead` (`MirrorNeverAhead`), `RecordsAgree` (`ListsAgree`). None is
inductive alone; for the first two the invariant `Inv` adds

- what a request holds in hand: the branch it found or made exists and is of its
  project (`BranchInv`), and the copy of a project it read shows a revision not below
  the project's as long as there is no main branch (`DocInv`), so that the main branch
  it makes is not behind;
- that the head of a main branch is ahead by the number of rollbacks that have moved it
  and not yet copied it into the project (`HeadInv`, with `Cardinality`);
- that the project of `createProject` is inserted once (`FreshInv`);
- for the migration, that its loop is at a project that exists and, past the second
  command, has its main branch (`LoopInv`), and that a chat without branch is possible
  only before `Verify` has counted none (`ChatInv`).

A step of a request changes one request and few documents: `RequestStep` and
`QuietStep` say what is left to show of it, and each action has a lemma that shows that.

`RecordsAgree` says no more than `ListsAgree` does: it has the three exceptions above.
It needs a second invariant, `ListsInv`, which follows each chat that is not in
`strayed`:

- it has at most one request, and nobody deletes the project of that request
  meanwhile (`AloneOK`: what `Clash` strays is just what this excludes);
- its two records agree, project by project, unless the request is between its two
  writes (`AgreeOK`, `Torn`); a project that is gone and still in the chat is about to
  be unset by the request that deleted it;
- for each place the request can be at, what it has read or written still holds
  (`WorkOK`): a chat to be created is in no list, a chat to be added is in no project
  or already in this one, `saves` says which record has its new value, a chat to be
  removed was in the list that was read;
- a list read at the version the project still has is the project's list
  (`RequestKnows`): so the save of `removeChat`, which writes the whole list back,
  takes out one chat and loses none that others pushed; and a project to be made is
  known to no other request, so versions start over only where no list is remembered.

The frame lemmas `OneStep`, `ReadStep` and `ProjectStep` reduce each action to the chat
and the request it touches. The assumption used beside those of TLC's instance is that
`None` is no project, chat or branch. `MigrationCompletes` is only model-checked.

Left out: snapshots and their selection for a new branch (`branchService.ts:49-51` then
skips the main branch), messages, renaming, lists, passwords and tokens. Who may use
what is where the code has it: in the filters of the queries, which are the guards of
the actions that read a project or a chat. The second write of `removeChat` has no
such filter, and the model has none there.

## 11. Workspace

The builder page: `gen` (the panel), `turns` (the timeline), `history` (runs and
versions), `snapshot`, `project`, and `calls`, the continuations that still wait for
an answer. Each project has one chat, as every project this page makes. The API and
the design (`docs/superpowers/specs/2026-07-25-chat-routed-multiturn-workspace-design.md:37`)
allow several; then the active version may be that of another chat of the project, and
`ShownIsOfOpenChat` would be a property of projects. The user's actions are `Navigate`, `BackHome`, `Submit`, `Cancel`,
`SelectSnapshot`, `Retry`, `LoadOlder`; every other action is an answer, at any time
and in any order. A request number is modelled by what comparing it tells - whether
the call is still the latest of its kind - so the guards `Routed`, `RefreshIsLatest`
and `LoadIsLatest` are exactly the code's, and continuations without a guard have
none. A retry waits for two calls, and ends with both or with the failure of its
refresh, whichever comes first (`Retrying`, `LetGo`). The state functions of `lib/` are
operators of the same names.

Bounds: three chats (one is made by a prompt), three runs, pages of one turn, three
clicks, one failing call, four calls at once. Three clicks are the least that start
something, leave it, and start another.

`workspace` (0.8 M states): what is shown belongs to the open chat
(`ShownIsOfOpenChat`), unless the user left one of the continuations the code does not
guard (`crossed`: after `createRun`, the reply of a cancellation, the selection of a
version at `AppBuilderPage.tsx:575`, a retry at `:581`, the refresh after a run);
the list of versions settles on the open chat (`HistorySettles`); panel and timeline
agree on a run at rest (`PanelAgreesWithTimeline`, unless a call failed or loading
older turns superseded a load of the newest ones, `raced`); composer and retry button
come free (`ComesToRest`), except for a submission given up on the home page
(`GivenUpAtHome`), see below. Fairness: some unfinished call is answered or
fails, some run ends.

`NewChatFrees`, that a page that stays on the home page can submit in the end, is not a
run, because the code violates it (section 12). A submission is sent from the home page and New Chat is
clicked before the answer comes. `handleBackHome` gives the submission up, but
leaves `generation.status` at running; the effect that resets the panel runs when the
address changes, which it does not, and the answer of a submission given up is
dropped. `submitPromptToAgent` then returns at `AppBuilderPage.tsx:427` and the composer
is disabled (`:1207`) until a chat is opened or the page loaded again. Two clicks are
enough.

What the code does and no property denies: a run shown after a refused cancellation
or a failed refresh is shown as failed (the page makes up a `run.failed`); loading
older turns supersedes the load of the newest page.

### What is proved

`WorkspaceProofs`, for any chats, runs, page length and numbers of clicks, failures
and unfinished calls: `TypeCorrect`, `ShownOfOpenChat` (`ShownIsOfOpenChat`),
`HistorySettlesDown` (`HistorySettles`), `PanelAndTimelineAgree`
(`PanelAgreesWithTimeline`). The assumptions: `None` is neither a chat nor a state of
a run, and runs are numbered in the order they are made. Four invariants rest on one
another:

- `BaseInv`: which steps a call of each kind may be at, and that each request number
  has one holder: at most one live submission, one refresh and one load whose answer
  counts.
- `OpenInv`: what is shown is of the open chat, and so is whatever an unfinished call
  may still write; that is what a route guard, a request number or an abort ensures
  for each kind of call, and what `crossed` excepts. None of the three properties is
  inductive without it, because the answer is written long after the guard's state
  was set.
- `HistoryInv`: while the list of versions is of another chat, or a refresh for another
  chat is the latest, some call (`Refresher`) will refresh it for the open one and
  nothing will turn it away.
- `PanelInv`: a running panel has a call that will end it (`Watched`); one that has
  ended shows its run's end (`PanelTrue`); and while the timeline, or an answer about
  to be taken, still says active, some call loads the newest turns again
  (`Corrected`).

With no call unfinished the witnesses of the last two are gone, which is what the
properties say. A step touches one or two calls and at most takes a switch from the
others (their number is no longer the latest, they are aborted, the page was left);
`Rest` and `Faded` say so once, each action shows it once, and every invariant uses
it for the calls an action leaves alone. Only model-checked: `ComesToRest`.

## 12. Where code and documents disagree

Met while modelling; each is a definition of its module that TLC finds violated in a
small instance. They are kept as definitions, not as runs: the number of runs is kept
to one per question the models answer.

| definition | code | document |
|---|---|---|
| `RunExecution!NoAbandonedRun` | a redelivered validation retry past `queued` returns at once; its run stays unended and blocks its source (`agent/orchestrator.ts:1019`) | `docs/superpowers/specs/2026-07-19-typescript-agent-backend-design.md:534` |
| `RunExecution!SnapshotOnlyByHolder` | the lease is checked once, then come the writes (`agent/orchestrator.ts:883`) | `docs/superpowers/plans/2026-07-26-workspace-project-branch-versioning.md:1920` |
| `RunExecution!StatusTellsAdvance` | recovery reports a run that moved the head as a conflict when another moved it since (`branches/branchService.ts:120`) | same plan, `:2229` |
| `RunExecution!CompletionReported` | a failed insertion of `run.completed` is rethrown to BullMQ, but the next delivery returns on the terminal status (`agent/createWorker.ts:65`), so the orchestrator's code to repeat the event (`agent/orchestrator.ts:758-795`) is not reached; with an error at `EmitCompleted` | same plan, `:2222` ("Emit `run.completed` for both statuses") |
| `SandboxLease!NoFriendlyFire` | the clean-up of a reconciler's failed provisioning destroys the sandbox its validator uses (`sandbox/SandboxService.ts:625`) | `docs/architecture.md:134` |
| `SandboxLease!TerminatedIsDestroyed` | the clean-up terminates a lease that has been rebound; its resource leaks (`sandbox/SandboxService.ts:632`) | `docs/superpowers/specs/2026-07-26-sandbox-core-design.md:411` |
| `SandboxQuota!NoOversell` | the lock may expire between `assertHeld` and the insertion | same design, `:760` |
| `SandboxProviders!NotCreatedAlwaysTrue` | `ensureWorkspace` shares the error handler of creation (`sandbox/providers/DaytonaProvider.ts:314`) | `docs/superpowers/plans/2026-07-26-sandbox-core.md:844` |
| `EventStream!TimesOutOnlyOnUnendedRun` | the polling fallback does not know `completed_with_conflict` (`apps/web/src/services/agentRunMonitor.ts:10`) | `agent/types.ts:18` |
| `ArtifactStore!ReferencesSurvive` | an attempt may refer to an artifact past the retention that a pass has claimed (`artifacts/reconciler.ts:109`) | `docs/superpowers/specs/2026-07-26-sandbox-core-design.md:766` |
| `ProjectValidation!ActiveEntriesStay` | the cleanup's lock does not hold off a validation that hits (`agent/validation/cacheCleanup.ts:82`) | `docs/superpowers/specs/2026-07-26-validation-pipeline-optimization-design.md:196` |
| `Workspace!HistoryIsOfOpenChat` | opening a chat clears the list of versions, but a refresh for the chat left before, guarded by its number and not by the route, may still fill it (`AppBuilderPage.tsx:267`) | `docs/superpowers/specs/2026-07-25-chat-routed-multiturn-workspace-design.md:61` |
| `Workspace!NewChatFrees` | New Chat on the home page drops a submission and leaves the panel running (`AppBuilderPage.tsx:564`, section 11) | `docs/superpowers/plans/2026-07-25-chat-routed-multiturn-workspace.md:623` ("abort active work") |
| `Projects!MigrationCompletes` with `OrphanRuns` (`MCProjects`) | a run whose project was deleted before the migration is never back-filled, and verification fails for good | `docs/superpowers/plans/2026-07-26-workspace-project-branch-versioning.md:2646` |

## 13. What is not modelled, and why

- Artifact bundles and previews: encoding, checks and read-only access under a signed
  token, without state of their own.
- Prompts, model clients and provider choice: input and output; their answers are
  choices of `Generation`.
- Texts: file contents, CSS, diagnostics are reduced to what decides a verdict.
- Rendering and the other pages of the client, read endpoints, passwords and tokens.
- Start-up, shutdown, timers of the processes; Docker, smoke tests and integration
  tests.
- The batch limit of the sandbox reconciler (`sandbox/SandboxReconciler.ts:57`), a
  run without a job when the API dies before the enqueue, and a `run.cancelled` that
  cannot be stored: `PROJECT.json` says under each hazard why no property covers it.

### What is checked and not proved

- Liveness (all `~>` and `<>` properties) and `ENABLED`: out of the prover's reach.
- What a recursive function computes for every input.
