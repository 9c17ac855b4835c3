---------------------------- MODULE RunExecution ----------------------------
(***************************************************************************)
(* Execution of AgentRuns on one ProjectBranch: the API that creates,      *)
(* cancels, retries and rolls back (routes/agent.ts, routes/project.ts),   *)
(* the BullMQ jobs that carry a run to a worker (agent/queue.ts), the      *)
(* workers that execute it (agent/createWorker.ts, agent/orchestrator.ts), *)
(* the branch execution lease that serialises them                         *)
(* (branches/branchExecution.ts) and the compare-and-set on the branch     *)
(* head that decides which snapshot becomes active                         *)
(* (branches/branchService.ts).                                            *)
(*                                                                         *)
(* Every action is one round trip to MongoDB or BullMQ, so workers, API    *)
(* requests, lease expiry and crashes interleave as they do in production. *)
(* A run's snapshot and its validation candidate are keyed by the run in   *)
(* the database (unique sourceRunId), so both are named by the run here.   *)
(***************************************************************************)
EXTENDS Naturals, FiniteSets

CONSTANTS
  Runs,             \* AgentRun documents that may be created
  Workers,          \* concurrent job slots, over all worker processes
  None,             \* no run, no worker, no snapshot
  Earlier,          \* the snapshot at the head before these runs, or None
  MaxRepairs,       \* AgentRun.maxRepairAttempts
  MaxStalls,        \* BullMQ maxStalledCount: redeliveries of a stalled job
  MaxAttempts,      \* the jobs' attempts option
  MaxRollbacks,     \* bound: rollback requests
  MaxCrashes,       \* bound: worker crashes
  FaultyAt,         \* steps at which a database call may throw
  LiveStalls,       \* may a job stall while its worker is alive?
  SlowHeartbeats    \* may a lease expire while its holder is alive?

ASSUME RunExecutionAssumption ==
  /\ None \notin Runs \cup Workers /\ Earlier \notin Runs
  /\ MaxRepairs \in Nat /\ MaxStalls \in Nat /\ MaxAttempts \in Nat \ {0}
  /\ MaxRollbacks \in Nat /\ MaxCrashes \in Nat
  /\ LiveStalls \in BOOLEAN /\ SlowHeartbeats \in BOOLEAN
  /\ FaultyAt \subseteq {"load", "acquire", "rebaseRead", "rebase", "requeue",
        "read", "findSnapshot", "orphan", "begin", "assertHeld", "persist",
        "snapshot", "commit", "commitRead", "settle", "mirror",
        "dropCandidate", "emitCompleted", "storeCandidate", "fail",
        "emitFailed", "release"}

VARIABLES
  status,      \* AgentRun.status, "absent" before creation
  base,        \* AgentRun.baseHeadVersion
  retryOf,     \* AgentRun.retryOfRunId
  retryable,   \* AgentRun.retryable
  candidates,  \* runs with a ValidationCandidate document
  snapshots,   \* runs with a ProjectSnapshot document
  branch,      \* ProjectBranch: head snapshot and headVersion
  mirror,      \* Project.activeSnapshotId, the head as the snapshot UI sees it
  lease,       \* BranchExecutionLease: owner and whether it has not expired
  job,         \* BullMQ job of each run
  worker,      \* what each job slot is doing, with its local variables
  completedEvent, failedEvent,  \* durable run.completed / run.failed events
  rollback,    \* rollback request between its two writes, or None
  advances,    \* history: how often each run moved the branch head
  rollbacks, crashes            \* counters bounded by the constants

runVars   == <<status, base, retryOf, retryable>>
docVars   == <<candidates, snapshots>>
headVars  == <<branch, mirror, rollback, advances, rollbacks>>
eventVars == <<completedEvent, failedEvent>>
vars == <<runVars, docVars, headVars, eventVars, lease, job, worker, crashes>>

-----------------------------------------------------------------------------
(* Statuses and their transitions *)

Working  == {"running", "planning", "generating", "validating", "repairing"}
Terminal == {"completed", "completed_with_conflict", "failed", "cancelled"}
Status   == {"waiting_for_capacity", "queued", "persisting"} \cup Working
              \cup Terminal

allowedTransitions ==
  [s \in Status |->
    CASE s = "waiting_for_capacity" -> {"queued", "cancelled"}
      [] s = "queued" -> {"waiting_for_capacity", "running", "cancelled"}
      [] s = "running" -> {"planning", "validating", "failed", "cancelled"}
      [] s = "planning" -> {"generating", "failed", "cancelled"}
      [] s = "generating" -> {"validating", "failed", "cancelled"}
      [] s = "validating" ->
           {"repairing", "persisting", "failed", "cancelled"}
      [] s = "repairing" -> {"generating", "failed", "cancelled"}
      [] s = "persisting" ->
           {"completed", "completed_with_conflict", "failed"}
      [] OTHER -> {}]

\* Mutant: a run may be cancelled while it is persisting.
CancellablePersisting == {"waiting_for_capacity", "queued", "persisting"} \cup Working
Cancellable == {"waiting_for_capacity", "queued"} \cup Working

isRetry(r) == retryOf[r] # None

-----------------------------------------------------------------------------
(* Jobs and job slots *)

Label == {"idle", "load", "acquire", "rebaseRead", "rebase", "requeue",
          "read", "findSnapshot", "orphan", "begin", "work", "assertHeld",
          "persist", "snapshot", "commit", "commitRead", "settle", "mirror",
          "dropCandidate", "emitCompleted", "storeCandidate", "fail",
          "emitFailed", "release"}

Idle == [pc |-> "idle", run |-> None, at |-> "queued", path |-> "generate",
         base |-> 0, attempt |-> 0, doc |-> FALSE, lost |-> FALSE,
         infra |-> FALSE,
         outcome |-> "advanced", throws |-> FALSE]

NoJob == [state |-> "none", owner |-> None, stalls |-> 0, attempts |-> 0]

NoLease == [run |-> None, live |-> FALSE]

\* Slot w becomes s, or just continues at l.
Become(w, s) == worker' = [worker EXCEPT ![w] = s]
Goto(w, l) == Become(w, [worker[w] EXCEPT !.pc = l])

\* BullMQ moves a job only for the slot that still owns it.
JobAfter(w, r, newJob) ==
  job' = IF job[r].owner = w THEN [job EXCEPT ![r] = newJob] ELSE job

\* Mutant: the job of a run that has to wait is done.
DelayedAsDone(r) == [job[r] EXCEPT !.state = "done", !.owner = None]
Delayed(r)  == [job[r] EXCEPT !.state = "waiting", !.owner = None]
Finished(r) == [job[r] EXCEPT !.state = "done", !.owner = None]
Thrown(r) ==
  [job[r] EXCEPT !.state = IF job[r].attempts + 1 < MaxAttempts
                             THEN "waiting" ELSE "failed",
                 !.owner = None,
                 !.attempts = job[r].attempts + 1]

\* transitionRun: compare-and-set on status; a cancelled run ends the job
\* quietly, any other surprise goes where the surrounding code catches it.
transitionRun(w, from, to, next, caught) ==
  LET r == worker[w].run IN
  IF status[r] = from
    THEN /\ status' = [status EXCEPT ![r] = to]
         /\ Become(w, [worker[w] EXCEPT !.pc = next, !.at = to])
    ELSE /\ UNCHANGED status
         /\ Become(w, [worker[w] EXCEPT
              !.pc = IF status[r] = "cancelled" THEN "release" ELSE caught,
              !.throws = caught = "release"])

Init ==
  /\ status = [r \in Runs |-> "absent"]
  /\ base = [r \in Runs |-> 0]
  /\ retryOf = [r \in Runs |-> None]
  /\ retryable = [r \in Runs |-> FALSE]
  /\ candidates = {} /\ snapshots = {}
  /\ branch = [head |-> Earlier, version |-> 0]
  /\ mirror = Earlier /\ rollback = None
  /\ lease = NoLease
  /\ job = [r \in Runs |-> NoJob]
  /\ worker = [w \in Workers |-> Idle]
  /\ completedEvent = {} /\ failedEvent = {}
  /\ advances = [r \in Runs |-> 0]
  /\ rollbacks = 0 /\ crashes = 0

-----------------------------------------------------------------------------
(* The API *)

\* POST /runs: the baseline is the branch head at creation.
CreateRun(r) ==
  /\ status[r] = "absent"
  /\ status' = [status EXCEPT ![r] = "queued"]
  /\ base' = [base EXCEPT ![r] = branch.version]
  /\ UNCHANGED <<retryOf, retryable, docVars, headVars, eventVars, lease,
                 job, worker, crashes>>

\* POST /runs/:runId/retry-validation: a new run over the stored candidate,
\* one unfinished retry per source (partial unique index on retryOfRunId).
RetryValidation(s, r) ==
  /\ status[s] = "failed" /\ retryable[s] /\ s \in candidates
  /\ status[r] = "absent"
  /\ \A o \in Runs : retryOf[o] = s => status[o] \in Terminal
  /\ status' = [status EXCEPT ![r] = "queued"]
  /\ base' = [base EXCEPT ![r] = base[s]]
  /\ retryOf' = [retryOf EXCEPT ![r] = s]
  /\ UNCHANGED <<retryable, docVars, headVars, eventVars, lease, job, worker,
                 crashes>>

\* The last await of both handlers; it never happens if the API dies first.
Enqueue(r) ==
  /\ status[r] # "absent" /\ job[r].state = "none"
  /\ job' = [job EXCEPT ![r] = [@ EXCEPT !.state = "waiting"]]
  /\ UNCHANGED <<runVars, docVars, headVars, eventVars, lease, worker, crashes>>

\* POST /runs/:runId/cancel: one findOneAndUpdate filtered on the status.
Cancel(r) ==
  /\ status[r] \in Cancellable
  /\ status' = [status EXCEPT ![r] = "cancelled"]
  /\ UNCHANGED <<base, retryOf, retryable, docVars, headVars, eventVars, lease,
                 job, worker, crashes>>

\* POST /:id/snapshots/:snapshotId/rollback, first write: setBranchHead.
RollbackHead ==
  /\ rollback = None /\ rollbacks < MaxRollbacks
  /\ \E s \in (snapshots \cup {Earlier}) \ {None} :
       /\ branch' = [head |-> s, version |-> branch.version + 1]
       /\ rollback' = s
  /\ rollbacks' = rollbacks + 1
  /\ UNCHANGED <<runVars, docVars, mirror, advances, eventVars, lease, job,
                 worker, crashes>>

\* Second write: the Project document.
RollbackMirror ==
  /\ rollback # None
  /\ mirror' = rollback
  /\ rollback' = None
  /\ UNCHANGED <<runVars, docVars, branch, advances, rollbacks, eventVars,
                 lease, job, worker, crashes>>

\* TTL index on ValidationCandidate.expiresAt.
CandidateExpires(s) ==
  /\ s \in candidates
  /\ candidates' = candidates \ {s}
  /\ UNCHANGED <<runVars, snapshots, headVars, eventVars, lease, job, worker,
                 crashes>>

-----------------------------------------------------------------------------
(* The job processor *)

Deliver(w, r) ==
  /\ worker[w].pc = "idle" /\ job[r].state = "waiting"
  /\ job' = [job EXCEPT ![r] = [@ EXCEPT !.state = "active", !.owner = w]]
  /\ Become(w, [Idle EXCEPT !.pc = "load", !.run = r])
  /\ UNCHANGED <<runVars, docVars, headVars, eventVars, lease, crashes>>

\* loadRunStatus: a terminal run ends the job at once.
LoadStatus(w) ==
  LET r == worker[w].run IN
  /\ worker[w].pc = "load"
  /\ IF status[r] \in Terminal
       THEN Become(w, Idle) /\ JobAfter(w, r, Finished(r))
       ELSE /\ Become(w, [worker[w] EXCEPT !.pc = "acquire", !.at = status[r]])
            /\ UNCHANGED job
  /\ UNCHANGED <<runVars, docVars, headVars, eventVars, lease, crashes>>

\* acquireBranchExecution: upsert over a lease of the same run or an expired
\* one; the unique branchId makes any other upsert fail.
\* Mutant: a live lease of another run is taken over.
CanAcquireAlways(r) == TRUE
CanAcquire(r) == lease.run \in {None, r} \/ ~lease.live

\* Mutant: a delayed retry is rebased like a generation.
AcquireRebasingRetries(w) ==
  /\ worker[w].pc = "acquire" /\ CanAcquire(worker[w].run)
  /\ lease' = [run |-> worker[w].run, live |-> TRUE]
  /\ Become(w, [worker[w] EXCEPT
       !.doc = TRUE,
       !.pc = IF worker[w].at = "waiting_for_capacity" THEN "rebaseRead"
                                                       ELSE "read"])
  /\ UNCHANGED <<runVars, docVars, headVars, eventVars, job, crashes>>

Acquire(w) ==
  LET r == worker[w].run IN
  /\ worker[w].pc = "acquire" /\ CanAcquire(r)
  /\ lease' = [run |-> r, live |-> TRUE]
  /\ Become(w, [worker[w] EXCEPT
       !.doc = TRUE,
       !.pc = CASE worker[w].at # "waiting_for_capacity" -> "read"
                [] isRetry(r) -> "requeue"
                [] OTHER -> "rebaseRead"])
  /\ UNCHANGED <<runVars, docVars, headVars, eventVars, job, crashes>>

\* markRunWaiting, then moveToDelayed.
MarkRunWaiting(w) ==
  LET r == worker[w].run IN
  /\ worker[w].pc = "acquire" /\ ~CanAcquire(r)
  /\ status' = IF status[r] = "queued"
                 THEN [status EXCEPT ![r] = "waiting_for_capacity"] ELSE status
  /\ JobAfter(w, r, Delayed(r))
  /\ Become(w, Idle)
  /\ UNCHANGED <<base, retryOf, retryable, docVars, headVars, eventVars, lease,
                 crashes>>

\* A delayed generation adopts the head it finds once it holds the lease.
RebaseRead(w) ==
  /\ worker[w].pc = "rebaseRead"
  /\ Become(w, [worker[w] EXCEPT !.pc = "rebase", !.base = branch.version])
  /\ UNCHANGED <<runVars, docVars, headVars, eventVars, lease, job, crashes>>

Rebase(w) ==
  LET r == worker[w].run IN
  /\ worker[w].pc = "rebase"
  /\ IF status[r] = "waiting_for_capacity"
       THEN /\ status' = [status EXCEPT ![r] = "queued"]
            /\ base' = [base EXCEPT ![r] = worker[w].base]
            /\ Goto(w, "read")
       ELSE Goto(w, "release") /\ UNCHANGED <<status, base>>
  /\ UNCHANGED <<retryOf, retryable, docVars, headVars, eventVars, lease, job,
                 crashes>>

\* A delayed validation retry keeps its baseline.
Requeue(w) ==
  LET r == worker[w].run IN
  /\ worker[w].pc = "requeue"
  /\ status' = IF status[r] = "waiting_for_capacity"
                 THEN [status EXCEPT ![r] = "queued"] ELSE status
  /\ Goto(w, "read")
  /\ UNCHANGED <<base, retryOf, retryable, docVars, headVars, eventVars, lease,
                 job, crashes>>

\* The guard of slot w refers to the lease document and the run owns it. A
\* deleted document never comes back: a new lease has another _id.
Owns(w) == worker[w].doc /\ lease.run = worker[w].run
Orphaned == [v \in Workers |-> [worker[v] EXCEPT !.doc = FALSE]]

\* execution.release in the finally block, then the job ends or is retried.
Release(w) ==
  LET r == worker[w].run IN
  /\ worker[w].pc = "release"
  /\ lease' = IF Owns(w) THEN NoLease ELSE lease
  /\ JobAfter(w, r, IF worker[w].throws THEN Thrown(r) ELSE Finished(r))
  /\ worker' = [IF Owns(w) THEN Orphaned ELSE worker EXCEPT ![w] = Idle]
  /\ UNCHANGED <<runVars, docVars, headVars, eventVars, crashes>>

-----------------------------------------------------------------------------
(* processAgentRun and processValidationCandidate *)

\* The baseline a run commits under. Mutant: the head at processing time.
baselineHead(r) == branch.version
baseline(r) == base[r]

\* The document the processor works on; its status picks the path.
ReadRun(w) ==
  LET r == worker[w].run
      path == CASE isRetry(r) -> "retry"
                [] status[r] \in {"persisting", "completed",
                                  "completed_with_conflict"} -> "recover"
                [] OTHER -> "generate"
      next == CASE isRetry(r) /\ status[r] # "queued" -> "release"
                [] path # "recover" -> "begin"
                [] status[r] = "persisting" -> "findSnapshot"
                [] r \in completedEvent -> "release"
                [] OTHER -> "emitCompleted"
  IN /\ worker[w].pc = "read"
     /\ Become(w, [worker[w] EXCEPT !.pc = next, !.path = path,
                                    !.at = status[r], !.base = baseline(r)])
     /\ UNCHANGED <<runVars, docVars, headVars, eventVars, lease, job, crashes>>

\* Recovery of a run whose worker stopped while persisting.
FindSnapshot(w) ==
  /\ worker[w].pc = "findSnapshot"
  /\ Goto(w, IF worker[w].run \in snapshots THEN "commit" ELSE "orphan")
  /\ UNCHANGED <<runVars, docVars, headVars, eventVars, lease, job, crashes>>

\* No snapshot was stored: the run fails, without an event.
FailOrphan(w) ==
  LET r == worker[w].run IN
  /\ worker[w].pc = "orphan"
  /\ status' = IF status[r] = "persisting"
                 THEN [status EXCEPT ![r] = "failed"] ELSE status
  /\ Goto(w, "release")
  /\ UNCHANGED <<base, retryOf, retryable, docVars, headVars, eventVars, lease,
                 job, crashes>>

\* The candidate of a retry's source is still there.
CandidateFound(r) == retryOf[r] \in candidates

\* queued -> running; a retry first needs the candidate of its source.
Begin(w) ==
  LET r == worker[w].run IN
  /\ worker[w].pc = "begin"
  /\ IF isRetry(r) /\ ~CandidateFound(r)
       THEN Goto(w, "fail") /\ UNCHANGED status
       ELSE transitionRun(w, "queued", "running", "work", "fail")
  /\ UNCHANGED <<base, retryOf, retryable, docVars, headVars, eventVars, lease,
                 job, crashes>>

\* One phase of the generation, validation and repair loop.
NextPhase(w) ==
  LET at == worker[w].at IN
  CASE at = "running" ->
         IF isRetry(worker[w].run) THEN "validating" ELSE "planning"
    [] at \in {"planning", "repairing"} -> "generating"
    [] at = "generating" -> "validating"
    [] OTHER -> "repairing"

Work(w) ==
  LET to == NextPhase(w) IN
  /\ worker[w].pc = "work"
  /\ to = "repairing" => /\ ~isRetry(worker[w].run)
                         /\ worker[w].attempt < MaxRepairs
  /\ IF status[worker[w].run] = worker[w].at
       THEN /\ status' = [status EXCEPT ![worker[w].run] = to]
            /\ Become(w, [worker[w] EXCEPT
                 !.at = to,
                 !.attempt = IF to = "repairing" THEN worker[w].attempt + 1
                                                 ELSE worker[w].attempt])
       ELSE transitionRun(w, worker[w].at, to, "work", "fail")
  /\ UNCHANGED <<base, retryOf, retryable, docVars, headVars, eventVars, lease,
                 job, crashes>>

\* A verified build passed.
ValidationPassed(w) ==
  /\ worker[w].pc = "work" /\ worker[w].at = "validating"
  /\ Goto(w, "assertHeld")
  /\ UNCHANGED <<runVars, docVars, headVars, eventVars, lease, job, crashes>>

\* The model, the validator or the repair budget gives up; only an
\* infrastructure error leaves a candidate worth retrying.
WorkFails(w) ==
  /\ worker[w].pc = "work"
  /\ \E infra \in BOOLEAN :
       /\ infra => worker[w].at = "validating"
       /\ Become(w, [worker[w] EXCEPT
            !.infra = infra,
            !.pc = IF infra /\ worker[w].path = "generate"
                     THEN "storeCandidate" ELSE "fail"])
  /\ UNCHANGED <<runVars, docVars, headVars, eventVars, lease, job, crashes>>

\* The cancellation monitor aborts the work of a cancelled run.
Abort(w) ==
  /\ worker[w].pc \in {"work", "assertHeld"}
  /\ status[worker[w].run] = "cancelled"
  /\ Goto(w, "release")
  /\ UNCHANGED <<runVars, docVars, headVars, eventVars, lease, job, crashes>>

AssertHeld(w) ==
  LET held == ~worker[w].lost /\ lease.live /\ Owns(w) IN
  /\ worker[w].pc = "assertHeld"
  /\ Become(w, [worker[w] EXCEPT !.pc = IF held THEN "persist" ELSE "fail",
                                 !.lost = ~held])
  /\ UNCHANGED <<runVars, docVars, headVars, eventVars, lease, job, crashes>>

Persist(w) ==
  /\ worker[w].pc = "persist"
  /\ transitionRun(w, "validating", "persisting", "snapshot", "fail")
  /\ UNCHANGED <<base, retryOf, retryable, docVars, headVars, eventVars, lease,
                 job, crashes>>

\* createRunSnapshot: upsert keyed by sourceRunId.
CreateRunSnapshot(w) ==
  /\ worker[w].pc = "snapshot"
  /\ snapshots' = snapshots \cup {worker[w].run}
  /\ Goto(w, "commit")
  /\ UNCHANGED <<runVars, candidates, headVars, eventVars, lease, job, crashes>>

\* Mutant: the head is set whatever its version is.
CommitBranchHeadBlind(w) ==
  LET r == worker[w].run IN
  /\ worker[w].pc = "commit"
  /\ branch' = [head |-> r, version |-> branch.version + 1]
  /\ advances' = [advances EXCEPT ![r] = @ + 1]
  /\ Become(w, [worker[w] EXCEPT !.pc = "settle", !.outcome = "advanced"])
  /\ UNCHANGED <<runVars, docVars, mirror, rollback, rollbacks, eventVars,
                 lease, job, crashes>>

\* commitBranchHead: the compare-and-set on headVersion ...
CommitBranchHead(w) ==
  LET r == worker[w].run IN
  /\ worker[w].pc = "commit"
  /\ IF branch.version = worker[w].base
       THEN /\ branch' = [head |-> r, version |-> branch.version + 1]
            /\ advances' = [advances EXCEPT ![r] = @ + 1]
            /\ Become(w, [worker[w] EXCEPT !.pc = "settle",
                                           !.outcome = "advanced"])
       ELSE Goto(w, "commitRead") /\ UNCHANGED <<branch, advances>>
  /\ UNCHANGED <<runVars, docVars, mirror, rollback, rollbacks, eventVars,
                 lease, job, crashes>>

\* ... and, when it fails, the read that tells a repeated commit from a conflict.
CommitOutcome(w) ==
  /\ worker[w].pc = "commitRead"
  /\ Become(w, [worker[w] EXCEPT
       !.pc = "settle",
       !.outcome = IF branch.head = worker[w].run
                     THEN "already_advanced" ELSE "conflict"])
  /\ UNCHANGED <<runVars, docVars, headVars, eventVars, lease, job, crashes>>

\* completeRunWithSnapshot, after the commit: persisting -> the final status.
CompleteRun(w) ==
  LET r == worker[w].run
      final == IF worker[w].outcome = "conflict"
                 THEN "completed_with_conflict" ELSE "completed"
      next == CASE worker[w].outcome = "advanced" -> "mirror"
                [] worker[w].path = "retry" -> "dropCandidate"
                [] OTHER -> "emitCompleted"
      caught == IF worker[w].path = "recover" THEN "release" ELSE "fail"
  IN /\ worker[w].pc = "settle"
     /\ transitionRun(w, "persisting", final, next, caught)
     /\ UNCHANGED <<base, retryOf, retryable, docVars, headVars, eventVars,
                    lease, job, crashes>>

\* An advanced main branch is mirrored into the Project document.
UpdateMirror(w) ==
  /\ worker[w].pc = "mirror"
  /\ mirror' = worker[w].run
  /\ Goto(w, IF worker[w].path = "retry" THEN "dropCandidate"
                                         ELSE "emitCompleted")
  /\ UNCHANGED <<runVars, docVars, branch, rollback, advances, rollbacks,
                 eventVars, lease, job, crashes>>

DropCandidate(w) ==
  /\ worker[w].pc = "dropCandidate"
  /\ candidates' = candidates \ {retryOf[worker[w].run]}
  /\ Goto(w, "emitCompleted")
  /\ UNCHANGED <<runVars, snapshots, headVars, eventVars, lease, job, crashes>>

EmitCompleted(w) ==
  /\ worker[w].pc = "emitCompleted"
  /\ completedEvent' = completedEvent \cup {worker[w].run}
  /\ Goto(w, "release")
  /\ UNCHANGED <<runVars, docVars, headVars, failedEvent, lease, job, crashes>>

\* createRunCandidate: upsert keyed by sourceRunId.
StoreCandidate(w) ==
  /\ worker[w].pc = "storeCandidate"
  /\ candidates' = candidates \cup {worker[w].run}
  /\ Goto(w, "fail")
  /\ UNCHANGED <<runVars, snapshots, headVars, eventVars, lease, job, crashes>>

\* Statuses the catch block of processAgentRun leaves alone.
notFailable == {"completed", "failed", "cancelled"}

\* Mutant: run.failed is emitted even when the update matched nothing.
FailAgentRunAlwaysEmits(w) ==
  LET r == worker[w].run IN
  /\ worker[w].pc = "fail" /\ worker[w].path = "generate"
  /\ IF status[r] \notin notFailable
       THEN /\ status' = [status EXCEPT ![r] = "failed"]
            /\ retryable' = [retryable EXCEPT ![r] = worker[w].infra]
       ELSE UNCHANGED <<status, retryable>>
  /\ Goto(w, "emitFailed")
  /\ UNCHANGED <<base, retryOf, docVars, headVars, eventVars, lease, job,
                 crashes>>

\* The catch block of processAgentRun. Its filter does not list
\* completed_with_conflict; a run already settled loses its candidate.
FailAgentRun(w) ==
  LET r == worker[w].run IN
  /\ worker[w].pc = "fail" /\ worker[w].path = "generate"
  /\ IF status[r] \notin notFailable
       THEN /\ status' = [status EXCEPT ![r] = "failed"]
            /\ retryable' = [retryable EXCEPT ![r] = worker[w].infra]
            /\ Goto(w, "emitFailed")
            /\ UNCHANGED candidates
       ELSE /\ candidates' = IF worker[w].infra THEN candidates \ {r}
                                                ELSE candidates
            /\ Goto(w, "release")
            /\ UNCHANGED <<status, retryable>>
  /\ UNCHANGED <<base, retryOf, snapshots, headVars, eventVars, lease, job,
                 crashes>>

\* The catch block of processValidationCandidate emits run.failed whatever
\* the update found.
FailValidationRetry(w) ==
  LET r == worker[w].run IN
  /\ worker[w].pc = "fail" /\ worker[w].path = "retry"
  /\ IF status[r] \notin Terminal
       THEN /\ status' = [status EXCEPT ![r] = "failed"]
            /\ retryable' = [retryable EXCEPT ![r] = worker[w].infra]
       ELSE UNCHANGED <<status, retryable>>
  /\ Goto(w, "emitFailed")
  /\ UNCHANGED <<base, retryOf, docVars, headVars, eventVars, lease, job,
                 crashes>>

EmitFailed(w) ==
  /\ worker[w].pc = "emitFailed"
  /\ failedEvent' = failedEvent \cup {worker[w].run}
  /\ Goto(w, "release")
  /\ UNCHANGED <<runVars, docVars, headVars, completedEvent, lease, job,
                 crashes>>

\* Steps of the job processor outside its try block.
Unguarded == {"load", "acquire", "rebaseRead", "rebase", "requeue", "release"}

\* A database call of the job processor throws: the job is thrown back. A lease
\* acquired before stays, for its guard is not released and goes on beating
\* until its process ends; so does one whose deletion failed, until it expires.
ProcessorThrows(w) ==
  /\ worker[w].pc \in FaultyAt \cap Unguarded
  /\ JobAfter(w, worker[w].run, Thrown(worker[w].run))
  /\ Become(w, Idle)
  /\ UNCHANGED <<runVars, docVars, headVars, eventVars, lease, crashes>>

\* A database call of the orchestrator throws. A failed completion event of a
\* generation is rethrown to BullMQ, as is everything on the recovery path and
\* an error of the catch block.
StepThrows(w) ==
  LET pc == worker[w].pc
      rethrown == \/ worker[w].path = "recover"
                  \/ pc = "read"
                  \/ pc = "emitCompleted" /\ worker[w].path = "generate"
                  \/ pc \in {"fail", "emitFailed"}
  IN /\ pc \in FaultyAt \ Unguarded
     /\ Become(w, [worker[w] EXCEPT
          !.pc = IF rethrown THEN "release" ELSE "fail",
          !.infra = FALSE,
          !.throws = rethrown])
     /\ UNCHANGED <<runVars, docVars, headVars, eventVars, lease, job, crashes>>

-----------------------------------------------------------------------------
(* Leases, crashes and redelivery *)

HoldsGuard(w) == worker[w].pc \notin {"idle", "load", "acquire"}

\* The guard's heartbeat renews its own lease or finds out that it is gone.
Heartbeat(w) ==
  /\ HoldsGuard(w) /\ ~worker[w].lost
  /\ lease' = IF Owns(w) THEN [lease EXCEPT !.live = TRUE] ELSE lease
  /\ Become(w, [worker[w] EXCEPT !.lost = ~Owns(w)])
  /\ UNCHANGED <<runVars, docVars, headVars, eventVars, job, crashes>>

LeaseExpires ==
  /\ lease.live
  /\ SlowHeartbeats \/ ~\E w \in Workers :
                          HoldsGuard(w) /\ worker[w].run = lease.run
  /\ lease' = [lease EXCEPT !.live = FALSE]
  /\ UNCHANGED <<runVars, docVars, headVars, eventVars, job, worker, crashes>>

\* TTL index on BranchExecutionLease.expiresAt.
LeaseReaped ==
  /\ lease.run # None /\ ~lease.live
  /\ lease' = NoLease
  /\ worker' = Orphaned
  /\ UNCHANGED <<runVars, docVars, headVars, eventVars, job, crashes>>

Crash(w) ==
  LET r == worker[w].run IN
  /\ worker[w].pc # "idle" /\ crashes < MaxCrashes
  /\ Become(w, Idle)
  /\ JobAfter(w, r, [job[r] EXCEPT !.owner = None])
  /\ crashes' = crashes + 1
  /\ UNCHANGED <<runVars, docVars, headVars, eventVars, lease>>

\* BullMQ finds an active job whose lock has expired.
Stall(r) ==
  /\ job[r].state = "active"
  /\ LiveStalls \/ job[r].owner = None
  /\ job' = [job EXCEPT ![r] =
       IF @.stalls < MaxStalls
         THEN [@ EXCEPT !.state = "waiting", !.owner = None,
                        !.stalls = job[r].stalls + 1]
         ELSE [@ EXCEPT !.state = "failed", !.owner = None]]
  /\ UNCHANGED <<runVars, docVars, headVars, eventVars, lease, worker, crashes>>

-----------------------------------------------------------------------------

ApiNext ==
  \/ \E r \in Runs :
       CreateRun(r) \/ Enqueue(r) \/ Cancel(r) \/ CandidateExpires(r) \/ Stall(r)
  \/ \E s, r \in Runs : RetryValidation(s, r)
  \/ RollbackHead \/ RollbackMirror
  \/ LeaseExpires \/ LeaseReaped

\* Everything a delivered job does by itself.
Process(w) ==
  \/ LoadStatus(w) \/ Acquire(w) \/ MarkRunWaiting(w) \/ RebaseRead(w)
  \/ Rebase(w) \/ Requeue(w) \/ Release(w) \/ ReadRun(w) \/ FindSnapshot(w)
  \/ FailOrphan(w) \/ Begin(w) \/ Work(w) \/ ValidationPassed(w)
  \/ WorkFails(w) \/ Abort(w) \/ AssertHeld(w) \/ Persist(w)
  \/ CreateRunSnapshot(w) \/ CommitBranchHead(w) \/ CommitOutcome(w)
  \/ CompleteRun(w) \/ UpdateMirror(w) \/ DropCandidate(w) \/ EmitCompleted(w)
  \/ StoreCandidate(w) \/ FailAgentRun(w) \/ FailValidationRetry(w)
  \/ EmitFailed(w) \/ StepThrows(w) \/ ProcessorThrows(w)

WorkerNext(w) ==
  Process(w) \/ Heartbeat(w) \/ Crash(w) \/ \E r \in Runs : Deliver(w, r)

Next == ApiNext \/ \E w \in Workers : WorkerNext(w)

Spec == Init /\ [][Next]_vars

\* What the deployment keeps running: live workers process their job to the
\* end, BullMQ redelivers waiting and stalled jobs, dead leases expire. The
\* API, rollbacks, heartbeats and crashes are under no obligation.
FairSpec ==
  /\ Spec
  /\ \A w \in Workers : WF_vars(Process(w))
  /\ \A r \in Runs : /\ SF_vars(\E w \in Workers : Deliver(w, r))
                     /\ WF_vars(Stall(r))
  /\ WF_vars(LeaseExpires)

-----------------------------------------------------------------------------
(* Properties *)

Executing(w) == worker[w].pc \in {"work", "assertHeld", "persist"}

JobRecord == [state : {"none", "waiting", "active", "done", "failed"},
              owner : Workers \cup {None}, stalls : Nat, attempts : Nat]

SlotRecord ==
  [pc : Label, run : Runs \cup {None}, at : Status \cup {"absent"},
   path : {"generate", "recover", "retry"}, base : Nat, attempt : Nat,
   doc : BOOLEAN, lost : BOOLEAN, infra : BOOLEAN, throws : BOOLEAN,
   outcome : {"advanced", "already_advanced", "conflict"}]

\* A busy slot has a run.
SlotsOK ==
  /\ worker \in [Workers -> SlotRecord]
  /\ \A w \in Workers : worker[w].pc # "idle" => worker[w].run \in Runs

\* Shape of the state.
TypeOK ==
  /\ status \in [Runs -> Status \cup {"absent"}]
  /\ base \in [Runs -> Nat]
  /\ retryOf \in [Runs -> Runs \cup {None}]
  /\ retryable \in [Runs -> BOOLEAN]
  /\ candidates \subseteq Runs /\ snapshots \subseteq Runs
  /\ branch \in [head : Runs \cup {Earlier}, version : Nat]
  /\ mirror \in Runs \cup {Earlier} /\ rollback \in Runs \cup {Earlier, None}
  /\ lease \in [run : Runs \cup {None}, live : BOOLEAN]
  /\ job \in [Runs -> JobRecord] /\ SlotsOK
  /\ completedEvent \subseteq Runs /\ failedEvent \subseteq Runs
  /\ advances \in [Runs -> Nat]
  /\ rollbacks \in Nat /\ crashes \in Nat

\* A run the user managed to cancel never stores a snapshot and never moves
\* the branch head, whatever its workers were doing (cancel is refused from
\* persisting on, transitionRun re-checks the status at every phase).
CancelledLeavesNoTrace ==
  \A r \in Runs : status[r] = "cancelled" =>
    r \notin snapshots /\ advances[r] = 0 /\ branch.head # r

\* Redelivery, recovery and retries never commit the same run twice
\* (commitBranchHead under the baseline stored in the run).
AdvancesAtMostOnce == \A r \in Runs : advances[r] <= 1

\* A run moves the head only from exactly the baseline it was built on.
CommitsOnBaseline ==
  [][\A r \in Runs : advances'[r] > advances[r] => branch.version = base[r]]_vars

\* A validation retry moves the head only from the baseline its source was
\* built on, however long it has waited and whatever moved the head meanwhile.
RetryCommitsOnSource ==
  [][\A r \in Runs : isRetry(r) /\ advances'[r] > advances[r] =>
       branch.version = base[retryOf[r]]]_vars

\* A finished job leaves its run in a terminal status or in the hands of a
\* worker that is still executing it: nobody waits for a run without a job.
HandedOver(r) ==
  job[r].state = "done" =>
    status[r] \in Terminal \/ \E w \in Workers : worker[w].run = r
NoAbandonedRun == \A r \in Runs : HandedOver(r)

\* Two executions on one branch never run their models or builds at once.
ExclusiveExecution ==
  \A v, w \in Workers : Executing(v) /\ Executing(w) => v = w

\* The snapshot of a run is stored only while the run holds the branch lease.
SnapshotOnlyByHolder ==
  [][\A r \in snapshots' \ snapshots : lease.run = r]_vars

\* The durable event log agrees with the run it describes. Generations only: a
\* retry's catch block emits run.failed whatever its update has matched.
EventsAgree(r) ==
  /\ r \in failedEvent => status[r] = "failed"
  /\ r \in completedEvent =>
       status[r] \in {"completed", "completed_with_conflict"}
GenerationEventsAgree == \A r \in Runs : ~isRetry(r) => EventsAgree(r)

\* The final status, which is what run.completed carries as branchAdvanced,
\* says whether the run moved the head.
StatusTellsAdvance ==
  \A r \in Runs : /\ status[r] = "completed" => advances[r] = 1
                  /\ status[r] = "completed_with_conflict" => advances[r] = 0

\* A queued generation reaches a terminal status, through waiting for the
\* branch, stalls and a crash.
GenerationTerminates ==
  \A r \in Runs : (~isRetry(r) /\ job[r].state = "waiting")
                    ~> (status[r] \in Terminal)

\* Every completed run, with or without a conflict, eventually has its
\* run.completed event: what the plan for branches asks. The code does not keep
\* it: an event whose insertion failed is left to a redelivery of the job, which
\* ends at the status check of the job processor.
CompletionReported ==
  \A r \in Runs : (status[r] \in {"completed", "completed_with_conflict"})
                    ~> (r \in completedEvent)

-----------------------------------------------------------------------------
(* The inductive invariants behind CancelledLeavesNoTrace,                 *)
(* AdvancesAtMostOnce, and what a validation retry carries along.          *)

\* Statuses that cannot be cancelled any more; no step leaves this set.
Settled == {"persisting", "completed", "completed_with_conflict", "failed"}

\* Steps from which a slot may still reach the commit with the base it read.
Committing == {"findSnapshot", "begin", "work", "assertHeld", "persist",
               "snapshot", "commit"}

SlotInv(w) ==
  LET s == worker[w] IN
  /\ s.pc = "work" => s.at \in Working
  /\ s.pc = "snapshot" => status[s.run] \in Settled
  /\ s.pc = "commit" => s.run \in snapshots
  /\ s.base <= branch.version
  /\ s.pc \in Committing /\ advances[s.run] > 0 => s.base < branch.version

RunInv(r) ==
  /\ r \in snapshots => status[r] \in Settled
  /\ advances[r] > 0 => r \in snapshots /\ base[r] < branch.version
  /\ advances[r] <= 1 /\ base[r] <= branch.version

\* Only settled runs have snapshots, only runs with snapshots reach the head,
\* and a run that did reach it holds a stale baseline everywhere.
CommitInv ==
  /\ branch.head \in snapshots \cup {Earlier}
  /\ \A r \in Runs : RunInv(r)
  /\ \A w \in Workers : SlotInv(w)

\* A validation retry commits on the baseline of the run whose candidate it
\* validated, never on source code the candidate was not built for: every
\* delivered run exists, a retry has the baseline of its failed source and is
\* never rebased, and so do the slots that work on it.
RetryInv ==
  /\ \A r \in Runs :
       /\ job[r].state # "none" => status[r] # "absent"
       /\ status[r] = "absent" => retryOf[r] = None
       /\ isRetry(r) => /\ status[retryOf[r]] \in Settled
                        /\ base[r] = base[retryOf[r]]
  /\ \A w \in Workers :
       LET s == worker[w] IN
       /\ s.pc # "idle" => status[s.run] # "absent"
       /\ s.pc \in {"rebaseRead", "rebase"} => ~isRetry(s.run)
       /\ s.pc \in Committing /\ isRetry(s.run) => s.base = base[s.run]
=============================================================================
