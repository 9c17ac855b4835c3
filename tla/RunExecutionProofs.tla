------------------------ MODULE RunExecutionProofs ------------------------
(***************************************************************************)
(* What RunExecution keeps for any sets of runs and workers and any number *)
(* of crashes, stalls, rollbacks and faults: types and the path of a run   *)
(* to the head of its branch (part 1); the baseline of a validation retry  *)
(* (part 2); the exclusion of executions on a branch, while heartbeats are *)
(* in time (part 3); the agreement of the event log with the run, and of   *)
(* the commit with its baseline, while BullMQ redelivers no job whose      *)
(* worker is alive (part 4).                                               *)
(***************************************************************************)
EXTENDS RunExecution, TLAPS

-----------------------------------------------------------------------------
(* Part 1: types, and the path of a run to the head *)

\* The labels a job slot is sent to, one by one.
LEMMA Labels ==
  /\ "idle" \in Label /\ "load" \in Label /\ "acquire" \in Label
  /\ "rebaseRead" \in Label /\ "rebase" \in Label /\ "requeue" \in Label
  /\ "read" \in Label /\ "findSnapshot" \in Label /\ "orphan" \in Label
  /\ "begin" \in Label /\ "work" \in Label /\ "assertHeld" \in Label
  /\ "persist" \in Label /\ "snapshot" \in Label /\ "commit" \in Label
  /\ "commitRead" \in Label /\ "settle" \in Label /\ "mirror" \in Label
  /\ "dropCandidate" \in Label /\ "emitCompleted" \in Label
  /\ "storeCandidate" \in Label /\ "fail" \in Label
  /\ "emitFailed" \in Label /\ "release" \in Label
BY DEF Label

LEMMA Statuses ==
  /\ Working \subseteq Status /\ Terminal \subseteq Status
  /\ Cancellable \subseteq Status
  /\ "queued" \in Status /\ "waiting_for_capacity" \in Status
  /\ "persisting" \in Status /\ "running" \in Status
  /\ "cancelled" \in Status /\ "failed" \in Status
  /\ "completed" \in Status /\ "completed_with_conflict" \in Status
BY DEF Status, Working, Terminal, Cancellable

LEMMA IdleType == Idle \in SlotRecord
BY Labels, Statuses DEF Idle, SlotRecord

LEMMA JobAfterType ==
  ASSUME TypeOK, NEW w \in Workers, NEW r \in Runs, NEW j \in JobRecord,
         JobAfter(w, r, j)
  PROVE  job' \in [Runs -> JobRecord]
BY DEF TypeOK, JobAfter

LEMMA NewJobType ==
  ASSUME TypeOK, NEW r \in Runs
  PROVE  /\ Delayed(r) \in JobRecord /\ Finished(r) \in JobRecord
         /\ Thrown(r) \in JobRecord
<1>1. job[r] \in JobRecord
  BY DEF TypeOK
<1>2. Delayed(r) \in JobRecord /\ Finished(r) \in JobRecord
  BY <1>1 DEF Delayed, Finished, JobRecord
<1>3. ASSUME NEW j \in JobRecord, NEW q \in {"waiting", "failed"}, NEW n \in Nat
      PROVE  [j EXCEPT !.state = q, !.owner = None, !.attempts = n] \in JobRecord
  BY DEF JobRecord
<1>4. job[r].attempts + 1 \in Nat
  BY <1>1 DEF JobRecord
<1>5. Thrown(r) \in JobRecord
  BY <1>1, <1>3, <1>4 DEF Thrown
<1> QED BY <1>2, <1>5

\* What a step of a busy slot does to the slots: it leaves them as they are
\* or gives its own a record that still names a run.
LEMMA SlotStep ==
  ASSUME TypeOK, NEW w \in Workers, NEW s \in SlotRecord, Become(w, s),
         s.pc = "idle" \/ s.run \in Runs
  PROVE  SlotsOK'
BY DEF TypeOK, SlotsOK, Become

LEMMA GotoStep ==
  ASSUME TypeOK, NEW w \in Workers, worker[w].pc # "idle", NEW l \in Label,
         Goto(w, l)
  PROVE  SlotsOK'
<1>1. worker[w] \in SlotRecord /\ worker[w].run \in Runs
  BY DEF TypeOK, SlotsOK
<1>2. /\ [worker[w] EXCEPT !.pc = l] \in SlotRecord
      /\ [worker[w] EXCEPT !.pc = l].run \in Runs
  BY <1>1 DEF SlotRecord
<1> QED BY <1>2, SlotStep DEF Goto

LEMMA transitionRunStep ==
  ASSUME TypeOK, NEW w \in Workers, worker[w].run \in Runs, NEW from, 
         NEW to \in Status, NEW next \in Label, NEW caught \in Label,
         transitionRun(w, from, to, next, caught)
  PROVE  /\ status' \in [Runs -> Status \cup {"absent"}]
         /\ SlotsOK'
<1>1. status' \in [Runs -> Status \cup {"absent"}]
  BY DEF transitionRun, TypeOK
<1>2. worker[w] \in SlotRecord
  BY DEF TypeOK, SlotsOK
<1> DEFINE moved == [worker[w] EXCEPT !.pc = next, !.at = to]
           quiet == [worker[w] EXCEPT !.pc = "release",
                                      !.throws = caught = "release"]
           thrown == [worker[w] EXCEPT !.pc = caught,
                                       !.throws = caught = "release"]
<1>3. /\ moved \in SlotRecord /\ moved.run = worker[w].run
      /\ quiet \in SlotRecord /\ quiet.run = worker[w].run
      /\ thrown \in SlotRecord /\ thrown.run = worker[w].run
  BY <1>2, Labels DEF SlotRecord
<1>4. Become(w, moved) \/ Become(w, quiet) \/ Become(w, thrown)
  BY DEF transitionRun
<1> HIDE DEF moved, quiet, thrown
<1> QED BY <1>1, <1>3, <1>4, SlotStep

\* Records a slot may become, field by field.
LEMMA SlotAt ==
  ASSUME NEW s \in SlotRecord, NEW l \in Label, NEW a \in Status \cup {"absent"}
  PROVE  /\ [s EXCEPT !.pc = l, !.at = a] \in SlotRecord
         /\ [s EXCEPT !.pc = l, !.at = a].run = s.run
BY DEF SlotRecord

LEMMA SlotBase ==
  ASSUME NEW s \in SlotRecord, NEW l \in Label, NEW n \in Nat
  PROVE  /\ [s EXCEPT !.pc = l, !.base = n] \in SlotRecord
         /\ [s EXCEPT !.pc = l, !.base = n].run = s.run
BY DEF SlotRecord

LEMMA SlotDoc ==
  ASSUME NEW s \in SlotRecord, NEW l \in Label, NEW b \in BOOLEAN
  PROVE  /\ [s EXCEPT !.doc = b, !.pc = l] \in SlotRecord
         /\ [s EXCEPT !.doc = b, !.pc = l].run = s.run
BY DEF SlotRecord

LEMMA SlotInfra ==
  ASSUME NEW s \in SlotRecord, NEW l \in Label, NEW b \in BOOLEAN
  PROVE  /\ [s EXCEPT !.infra = b, !.pc = l] \in SlotRecord
         /\ [s EXCEPT !.infra = b, !.pc = l].run = s.run
BY DEF SlotRecord

LEMMA SlotLost ==
  ASSUME NEW s \in SlotRecord, NEW l \in Label, NEW b \in BOOLEAN
  PROVE  /\ [s EXCEPT !.pc = l, !.lost = b] \in SlotRecord
         /\ [s EXCEPT !.pc = l, !.lost = b].run = s.run
BY DEF SlotRecord

LEMMA SlotThrows ==
  ASSUME NEW s \in SlotRecord, NEW l \in Label, NEW b \in BOOLEAN, NEW c \in BOOLEAN
  PROVE  /\ [s EXCEPT !.pc = l, !.infra = b, !.throws = c] \in SlotRecord
         /\ [s EXCEPT !.pc = l, !.infra = b, !.throws = c].run = s.run
BY DEF SlotRecord

LEMMA SlotOutcome ==
  ASSUME NEW s \in SlotRecord, NEW l \in Label, 
         NEW o \in {"advanced", "already_advanced", "conflict"}
  PROVE  /\ [s EXCEPT !.pc = l, !.outcome = o] \in SlotRecord
         /\ [s EXCEPT !.pc = l, !.outcome = o].run = s.run
BY DEF SlotRecord

LEMMA SlotHeartbeat ==
  ASSUME NEW s \in SlotRecord, NEW b \in BOOLEAN
  PROVE  /\ [s EXCEPT !.lost = b] \in SlotRecord
         /\ [s EXCEPT !.lost = b].run = s.run
BY DEF SlotRecord

LEMMA SlotWork ==
  ASSUME NEW s \in SlotRecord, NEW a \in Status \cup {"absent"}, NEW n \in Nat
  PROVE  /\ [s EXCEPT !.at = a, !.attempt = n] \in SlotRecord
         /\ [s EXCEPT !.at = a, !.attempt = n].run = s.run
BY DEF SlotRecord

LEMMA InitTypeOK == Init => TypeOK
<1> SUFFICES ASSUME Init PROVE TypeOK
  OBVIOUS
<1>1. worker \in [Workers -> SlotRecord] /\ \A w \in Workers : worker[w].pc = "idle"
  BY IdleType DEF Init, Idle
<1>2. job \in [Runs -> JobRecord]
  BY DEF Init, NoJob, JobRecord
<1> QED BY <1>1, <1>2 DEF Init, TypeOK, SlotsOK, NoLease

LEMMA JobUpdates ==
  ASSUME NEW j \in JobRecord, NEW o \in Workers \cup {None},
         NEW q \in {"waiting", "active", "failed"}
  PROVE  /\ [j EXCEPT !.owner = o] \in JobRecord
         /\ [j EXCEPT !.state = q, !.owner = o] \in JobRecord
BY DEF JobRecord

LEMMA JobStalled ==
  ASSUME NEW j \in JobRecord, NEW n \in Nat
  PROVE  /\ j.stalls + 1 \in Nat
         /\ [j EXCEPT !.state = "waiting", !.owner = None, !.stalls = n]
              \in JobRecord
<1>1. j.stalls + 1 \in Nat
  BY DEF JobRecord
<1>2. [j EXCEPT !.state = "waiting", !.owner = None, !.stalls = n] \in JobRecord
  BY DEF JobRecord
<1> QED BY <1>1, <1>2

\* What a busy slot knows: its record, its run and the run's documents.
LEMMA Busy ==
  ASSUME TypeOK, NEW w \in Workers, worker[w].pc # "idle"
  PROVE  /\ worker[w] \in SlotRecord /\ worker[w].run \in Runs
         /\ worker[w].at \in Status \cup {"absent"} /\ worker[w].base \in Nat
         /\ worker[w].attempt \in Nat /\ worker[w].infra \in BOOLEAN
         /\ worker[w].lost \in BOOLEAN /\ worker[w].pc \in Label
         /\ base[worker[w].run] \in Nat
         /\ status[worker[w].run] \in Status \cup {"absent"}
         /\ job[worker[w].run] \in JobRecord
BY DEF TypeOK, SlotsOK, SlotRecord

LEMMA SlotsKept == SlotsOK /\ worker' = worker => SlotsOK'
BY DEF SlotsOK

LEMMA OrphanedOK ==
  ASSUME SlotsOK
  PROVE  /\ Orphaned \in [Workers -> SlotRecord]
         /\ \A w \in Workers : Orphaned[w].pc # "idle" => Orphaned[w].run \in Runs
<1>1. ASSUME NEW s \in SlotRecord
      PROVE  /\ [s EXCEPT !.doc = FALSE] \in SlotRecord
             /\ [s EXCEPT !.doc = FALSE].pc = s.pc
             /\ [s EXCEPT !.doc = FALSE].run = s.run
  BY DEF SlotRecord
<1> QED BY <1>1 DEF SlotsOK, Orphaned

LEMMA IdleDelivered ==
  ASSUME NEW r \in Runs
  PROVE  /\ [Idle EXCEPT !.pc = "load", !.run = r] \in SlotRecord
         /\ [Idle EXCEPT !.pc = "load", !.run = r].run = r
BY Labels, Statuses DEF Idle, SlotRecord

LEMMA ReleaseOK ==
  ASSUME TypeOK, NEW w \in Workers, NEW c \in BOOLEAN,
         worker' = [IF c THEN Orphaned ELSE worker EXCEPT ![w] = Idle]
  PROVE  SlotsOK'
<1>1. SlotsOK
  BY DEF TypeOK
<1>2. Idle \in SlotRecord /\ Idle.pc = "idle"
  BY IdleType DEF Idle
<1> QED BY <1>1, <1>2, OrphanedOK DEF SlotsOK

LEMMA NextPhaseType ==
  ASSUME NEW w \in Workers
  PROVE  NextPhase(w) \in Working
BY DEF NextPhase, Working

LEMMA NextTypeOK == TypeOK /\ [Next]_vars => TypeOK'
<1> SUFFICES ASSUME TypeOK, [Next]_vars PROVE TypeOK'
  OBVIOUS
<1>1. ASSUME NEW r \in Runs, CreateRun(r) PROVE TypeOK'
  BY <1>1, SlotsKept, Statuses DEF TypeOK, runVars, docVars, headVars, eventVars, CreateRun
<1>2. ASSUME NEW s \in Runs, NEW r \in Runs, RetryValidation(s, r) PROVE TypeOK'
  BY <1>2, SlotsKept, Statuses DEF TypeOK, runVars, docVars, headVars, eventVars, RetryValidation
<1>3. ASSUME NEW r \in Runs, Enqueue(r) PROVE TypeOK'
  <2>1. \A j \in JobRecord : [j EXCEPT !.state = "waiting"] \in JobRecord
    BY DEF JobRecord
  <2>2. job' \in [Runs -> JobRecord]
    BY <1>3, <2>1 DEF TypeOK, Enqueue
  <2> QED
    BY <1>3, <2>2, SlotsKept DEF TypeOK, runVars, docVars, headVars, eventVars, Enqueue
<1>4. ASSUME NEW r \in Runs, Cancel(r) PROVE TypeOK'
  BY <1>4, SlotsKept, Statuses DEF TypeOK, runVars, docVars, headVars, eventVars, Cancel
<1>5. ASSUME RollbackHead PROVE TypeOK'
  BY <1>5, SlotsKept DEF TypeOK, runVars, docVars, headVars, eventVars, RollbackHead
<1>6. ASSUME RollbackMirror PROVE TypeOK'
  BY <1>6, SlotsKept DEF TypeOK, runVars, docVars, headVars, eventVars, RollbackMirror
<1>7. ASSUME NEW r \in Runs, CandidateExpires(r) PROVE TypeOK'
  BY <1>7, SlotsKept DEF TypeOK, runVars, docVars, headVars, eventVars, CandidateExpires
<1>8. ASSUME NEW r \in Runs, Stall(r) PROVE TypeOK'
  <2>1. job[r] \in JobRecord
    BY DEF TypeOK
  <2>2. job' \in [Runs -> JobRecord]
    BY <1>8, <2>1, JobUpdates, JobStalled DEF TypeOK, Stall
  <2> QED BY <1>8, <2>2, SlotsKept DEF TypeOK, runVars, docVars, headVars, eventVars, Stall
<1>9. ASSUME LeaseExpires PROVE TypeOK'
  BY <1>9, SlotsKept DEF TypeOK, runVars, docVars, headVars, eventVars, LeaseExpires
<1>10. ASSUME LeaseReaped PROVE TypeOK'
  <2>1. SlotsOK'
    BY <1>10, OrphanedOK DEF LeaseReaped, SlotsOK, TypeOK
  <2> QED BY <1>10, <2>1 DEF TypeOK, runVars, docVars, headVars, eventVars, LeaseReaped, NoLease
<1>11. ASSUME NEW w \in Workers, NEW r \in Runs, Deliver(w, r) PROVE TypeOK'
  <2>1. SlotsOK'
    BY <1>11, SlotStep, IdleDelivered DEF Deliver
  <2>2. job[r] \in JobRecord
    BY DEF TypeOK
  <2>3. job' \in [Runs -> JobRecord]
    BY <1>11, <2>2, JobUpdates DEF TypeOK, Deliver
  <2> QED BY <1>11, <2>1, <2>3 DEF TypeOK, runVars, docVars, headVars, eventVars, Deliver
<1>12. ASSUME NEW w \in Workers, LoadStatus(w) PROVE TypeOK'
  <2>1. SlotsOK'
    <3>1. worker[w] \in SlotRecord /\ worker[w].run \in Runs
      BY <1>12, Busy DEF LoadStatus
    <3>2. Idle \in SlotRecord /\ Idle.pc = "idle"
      BY IdleType DEF Idle
    <3>3. status[worker[w].run] \in Status \cup {"absent"}
      BY <3>1 DEF TypeOK
    <3>4. /\ [worker[w] EXCEPT !.pc = "acquire", !.at = status[worker[w].run]]
               \in SlotRecord
          /\ [worker[w] EXCEPT !.pc = "acquire", !.at = status[worker[w].run]].run
               \in Runs
      BY <3>1, <3>3, Labels DEF SlotRecord
    <3>5. \/ Become(w, Idle)
          \/ Become(w, [worker[w] EXCEPT !.pc = "acquire",
                                         !.at = status[worker[w].run]])
      BY <1>12 DEF LoadStatus
    <3> QED
      BY <3>2, <3>4, <3>5, SlotStep
  <2>2. job' \in [Runs -> JobRecord]
    BY <1>12, Busy, JobAfterType, NewJobType DEF LoadStatus, TypeOK
  <2> QED BY <1>12, <2>1, <2>2 DEF TypeOK, runVars, docVars, headVars, eventVars, LoadStatus
<1>13. ASSUME NEW w \in Workers, Acquire(w) PROVE TypeOK'
  <2>1. SlotsOK'
    <3>1. worker[w] \in SlotRecord /\ worker[w].run \in Runs
      BY <1>13, Busy DEF Acquire
    <3> QED
      BY <1>13, <3>1, SlotDoc, SlotStep, Labels DEF Acquire
  <2> QED BY <1>13, <2>1, Busy DEF TypeOK, runVars, docVars, headVars, eventVars, Acquire
<1>14. ASSUME NEW w \in Workers, MarkRunWaiting(w) PROVE TypeOK'
  <2>1. SlotsOK'
    BY <1>14, SlotStep, IdleType DEF MarkRunWaiting, Idle
  <2>2. job' \in [Runs -> JobRecord]
    BY <1>14, Busy, JobAfterType, NewJobType DEF MarkRunWaiting
  <2> QED BY <1>14, <2>1, <2>2, Busy, Statuses DEF TypeOK, runVars, docVars, headVars, eventVars, MarkRunWaiting
<1>15. ASSUME NEW w \in Workers, RebaseRead(w) PROVE TypeOK'
  <2>1. SlotsOK'
    <3>1. worker[w] \in SlotRecord /\ worker[w].run \in Runs
      BY <1>15, Busy DEF RebaseRead
    <3>2. branch.version \in Nat
      BY DEF TypeOK
    <3>3. /\ [worker[w] EXCEPT !.pc = "rebase", !.base = branch.version] \in SlotRecord
          /\ [worker[w] EXCEPT !.pc = "rebase", !.base = branch.version].run \in Runs
      BY <3>1, <3>2, SlotBase, Labels
    <3> QED
      BY <1>15, <3>3, SlotStep DEF RebaseRead
  <2> QED BY <1>15, <2>1 DEF TypeOK, runVars, docVars, headVars, eventVars, RebaseRead
<1>16. ASSUME NEW w \in Workers, Rebase(w) PROVE TypeOK'
  <2>1. SlotsOK'
    BY <1>16, GotoStep, Labels DEF Rebase
  <2> QED BY <1>16, <2>1, Busy, Statuses DEF TypeOK, runVars, docVars, headVars, eventVars, Rebase
<1>17. ASSUME NEW w \in Workers, Requeue(w) PROVE TypeOK'
  <2>1. SlotsOK'
    BY <1>17, GotoStep, Labels DEF Requeue
  <2> QED BY <1>17, <2>1, Busy, Statuses DEF TypeOK, runVars, docVars, headVars, eventVars, Requeue
<1>18. ASSUME NEW w \in Workers, Release(w) PROVE TypeOK'
  <2>1. SlotsOK'
    BY <1>18, ReleaseOK DEF Release
  <2>2. job' \in [Runs -> JobRecord]
    BY <1>18, Busy, JobAfterType, NewJobType DEF Release
  <2> QED BY <1>18, <2>1, <2>2 DEF TypeOK, runVars, docVars, headVars, eventVars, Release, NoLease
<1>19. ASSUME NEW w \in Workers, ReadRun(w) PROVE TypeOK'
  <2>1. SlotsOK'
    <3>1. worker[w] \in SlotRecord /\ worker[w].run \in Runs
      BY <1>19, Busy DEF ReadRun, baseline
    <3>2. status[worker[w].run] \in Status \cup {"absent"} /\ base[worker[w].run] \in Nat
      BY <3>1 DEF TypeOK
    <3>3. PICK l \in Label, p \in {"generate", "recover", "retry"} :
            Become(w, [worker[w] EXCEPT !.pc = l, !.path = p,
              !.at = status[worker[w].run], !.base = base[worker[w].run]])
      BY <1>19, Labels DEF ReadRun, baseline
    <3> DEFINE t == [worker[w] EXCEPT !.pc = l, !.path = p,
              !.at = status[worker[w].run], !.base = base[worker[w].run]]
    <3>a. t \in SlotRecord /\ t.run = worker[w].run
      BY <3>1, <3>2 DEF SlotRecord
    <3>b. Become(w, t)
      BY <3>3
    <3>d. t \in SlotRecord /\ t.run = worker[w].run /\ Become(w, t)
      BY <3>a, <3>b
    <3> HIDE DEF t
    <3> QED
      BY <1>19, <3>1, SlotStep, <3>d, SlotStep, Labels DEF ReadRun, baseline
  <2> QED BY <1>19, <2>1 DEF TypeOK, runVars, docVars, headVars, eventVars, ReadRun
<1>20. ASSUME NEW w \in Workers, FindSnapshot(w) PROVE TypeOK'
  <2>1. SlotsOK'
    BY <1>20, GotoStep, Labels DEF FindSnapshot
  <2> QED BY <1>20, <2>1 DEF TypeOK, runVars, docVars, headVars, eventVars, FindSnapshot
<1>21. ASSUME NEW w \in Workers, FailOrphan(w) PROVE TypeOK'
  <2>1. SlotsOK'
    BY <1>21, GotoStep, Labels DEF FailOrphan
  <2> QED BY <1>21, <2>1, Statuses DEF TypeOK, runVars, docVars, headVars, eventVars, FailOrphan
<1>22. ASSUME NEW w \in Workers, Begin(w) PROVE TypeOK'
  <2>1. SlotsOK' /\ status' \in [Runs -> Status \cup {"absent"}]
    BY <1>22, Busy, GotoStep, transitionRunStep, Labels, Statuses DEF Begin, TypeOK
  <2> QED BY <1>22, <2>1 DEF TypeOK, runVars, docVars, headVars, eventVars, Begin
<1>23. ASSUME NEW w \in Workers, Work(w) PROVE TypeOK'
  <2>1. /\ worker[w] \in SlotRecord /\ worker[w].run \in Runs
        /\ worker[w].attempt \in Nat
    BY <1>23, Busy DEF Work
  <2>2. NextPhase(w) \in Status
    BY NextPhaseType, Statuses
  <2>3. CASE status[worker[w].run] = worker[w].at
    <3> DEFINE n == IF NextPhase(w) = "repairing" THEN worker[w].attempt + 1
                                                  ELSE worker[w].attempt
    <3>a. n \in Nat
      BY <2>1
    <3>1. Become(w, [worker[w] EXCEPT !.at = NextPhase(w), !.attempt = n])
      BY <1>23, <2>3 DEF Work
    <3> HIDE DEF n
    <3>2. SlotsOK'
      BY <2>1, <2>2, <3>a, <3>1, SlotWork, SlotStep
    <3> QED BY <1>23, <2>2, <2>3, <3>2 DEF TypeOK, runVars, docVars, headVars, eventVars, Work
  <2>4. CASE status[worker[w].run] # worker[w].at
    <3>1. SlotsOK' /\ status' \in [Runs -> Status \cup {"absent"}]
      BY <1>23, <2>1, <2>2, <2>4, transitionRunStep, Labels DEF Work
    <3> QED BY <1>23, <3>1 DEF TypeOK, runVars, docVars, headVars, eventVars, Work
  <2> QED BY <2>3, <2>4
<1>24. ASSUME NEW w \in Workers, ValidationPassed(w) PROVE TypeOK'
  <2>1. SlotsOK'
    BY <1>24, GotoStep, Labels DEF ValidationPassed
  <2> QED BY <1>24, <2>1 DEF TypeOK, runVars, docVars, headVars, eventVars, ValidationPassed
<1>25. ASSUME NEW w \in Workers, WorkFails(w) PROVE TypeOK'
  <2>1. SlotsOK'
    <3>1. worker[w] \in SlotRecord /\ worker[w].run \in Runs
      BY <1>25, Busy DEF WorkFails
    <3>2. \A b \in BOOLEAN, l \in Label :
            /\ [worker[w] EXCEPT !.infra = b, !.pc = l] \in SlotRecord
            /\ [worker[w] EXCEPT !.infra = b, !.pc = l].run \in Runs
      BY <3>1, SlotInfra
    <3>3. \E b \in BOOLEAN, l \in Label :
            Become(w, [worker[w] EXCEPT !.infra = b, !.pc = l])
      BY <1>25, Labels DEF WorkFails
    <3> QED
      BY <3>2, <3>3, SlotStep
  <2> QED BY <1>25, <2>1 DEF TypeOK, runVars, docVars, headVars, eventVars, WorkFails
<1>26. ASSUME NEW w \in Workers, Abort(w) PROVE TypeOK'
  <2>1. SlotsOK'
    BY <1>26, GotoStep, Labels DEF Abort
  <2> QED BY <1>26, <2>1 DEF TypeOK, runVars, docVars, headVars, eventVars, Abort
<1>27. ASSUME NEW w \in Workers, AssertHeld(w) PROVE TypeOK'
  <2>1. SlotsOK'
    <3>1. worker[w] \in SlotRecord /\ worker[w].run \in Runs
      BY <1>27, Busy DEF AssertHeld
    <3> QED
      BY <1>27, <3>1, SlotLost, SlotStep, Labels DEF AssertHeld, Owns
  <2> QED BY <1>27, <2>1 DEF TypeOK, runVars, docVars, headVars, eventVars, AssertHeld
<1>28. ASSUME NEW w \in Workers, Persist(w) PROVE TypeOK'
  <2>1. SlotsOK' /\ status' \in [Runs -> Status \cup {"absent"}]
    BY <1>28, Busy, transitionRunStep, Labels, Statuses DEF Persist, TypeOK
  <2> QED BY <1>28, <2>1 DEF TypeOK, runVars, docVars, headVars, eventVars, Persist
<1>29. ASSUME NEW w \in Workers, CompleteRun(w) PROVE TypeOK'
  <2>1. SlotsOK' /\ status' \in [Runs -> Status \cup {"absent"}]
    BY <1>29, Busy, transitionRunStep, Labels, Statuses DEF CompleteRun, TypeOK
  <2> QED BY <1>29, <2>1 DEF TypeOK, runVars, docVars, headVars, eventVars, CompleteRun
<1>30. ASSUME NEW w \in Workers, CreateRunSnapshot(w) PROVE TypeOK'
  <2>1. SlotsOK'
    BY <1>30, GotoStep, Labels DEF CreateRunSnapshot
  <2> QED BY <1>30, <2>1, Busy DEF TypeOK, runVars, docVars, headVars, eventVars, CreateRunSnapshot
<1>31. ASSUME NEW w \in Workers, CommitBranchHead(w) PROVE TypeOK'
  <2>1. SlotsOK'
    <3>1. worker[w] \in SlotRecord /\ worker[w].run \in Runs
      BY <1>31, Busy DEF CommitBranchHead
    <3> QED
      BY <1>31, <3>1, SlotOutcome, GotoStep, SlotStep, Labels DEF CommitBranchHead
  <2> QED BY <1>31, <2>1, Busy DEF TypeOK, runVars, docVars, headVars, eventVars, CommitBranchHead
<1>32. ASSUME NEW w \in Workers, CommitOutcome(w) PROVE TypeOK'
  <2>1. SlotsOK'
    <3>1. worker[w] \in SlotRecord /\ worker[w].run \in Runs
      BY <1>32, Busy DEF CommitOutcome
    <3> QED
      BY <1>32, <3>1, SlotOutcome, SlotStep, Labels DEF CommitOutcome
  <2> QED BY <1>32, <2>1 DEF TypeOK, runVars, docVars, headVars, eventVars, CommitOutcome
<1>33. ASSUME NEW w \in Workers, UpdateMirror(w) PROVE TypeOK'
  <2>1. SlotsOK'
    BY <1>33, GotoStep, Labels DEF UpdateMirror
  <2> QED BY <1>33, <2>1, Busy DEF TypeOK, runVars, docVars, headVars, eventVars, UpdateMirror
<1>34. ASSUME NEW w \in Workers, DropCandidate(w) PROVE TypeOK'
  <2>1. SlotsOK'
    BY <1>34, GotoStep, Labels DEF DropCandidate
  <2> QED BY <1>34, <2>1 DEF TypeOK, runVars, docVars, headVars, eventVars, DropCandidate
<1>35. ASSUME NEW w \in Workers, EmitCompleted(w) PROVE TypeOK'
  <2>1. SlotsOK'
    BY <1>35, GotoStep, Labels DEF EmitCompleted
  <2> QED BY <1>35, <2>1, Busy DEF TypeOK, runVars, docVars, headVars, eventVars, EmitCompleted
<1>36. ASSUME NEW w \in Workers, StoreCandidate(w) PROVE TypeOK'
  <2>1. SlotsOK'
    BY <1>36, GotoStep, Labels DEF StoreCandidate
  <2> QED BY <1>36, <2>1, Busy DEF TypeOK, runVars, docVars, headVars, eventVars, StoreCandidate
<1>37. ASSUME NEW w \in Workers, FailAgentRun(w) PROVE TypeOK'
  <2>1. SlotsOK'
    BY <1>37, GotoStep, Labels DEF FailAgentRun
  <2>2. retryable' \in [Runs -> BOOLEAN]
    BY <1>37, Busy DEF TypeOK, FailAgentRun
  <2>3. status' \in [Runs -> Status \cup {"absent"}]
    BY <1>37, Statuses DEF TypeOK, FailAgentRun
  <2> QED BY <1>37, <2>1, <2>2, <2>3, Busy DEF TypeOK, runVars, docVars, headVars, eventVars, FailAgentRun
<1>38. ASSUME NEW w \in Workers, FailValidationRetry(w) PROVE TypeOK'
  <2>1. SlotsOK'
    BY <1>38, GotoStep, Labels DEF FailValidationRetry
  <2>2. retryable' \in [Runs -> BOOLEAN]
    BY <1>38, Busy DEF TypeOK, FailValidationRetry
  <2>3. status' \in [Runs -> Status \cup {"absent"}]
    BY <1>38, Statuses DEF TypeOK, FailValidationRetry
  <2> QED BY <1>38, <2>1, <2>2, <2>3, Busy DEF TypeOK, runVars, docVars, headVars, eventVars, FailValidationRetry
<1>39. ASSUME NEW w \in Workers, EmitFailed(w) PROVE TypeOK'
  <2>1. SlotsOK'
    BY <1>39, GotoStep, Labels DEF EmitFailed
  <2> QED BY <1>39, <2>1, Busy DEF TypeOK, runVars, docVars, headVars, eventVars, EmitFailed
<1>40. ASSUME NEW w \in Workers, StepThrows(w) PROVE TypeOK'
  <2>1. SlotsOK'
    <3>1. worker[w] \in SlotRecord /\ worker[w].run \in Runs
      BY <1>40, Busy, RunExecutionAssumption DEF StepThrows
    <3> QED
      BY <1>40, <3>1, SlotThrows, SlotStep, Labels DEF StepThrows
  <2> QED BY <1>40, <2>1 DEF TypeOK, runVars, docVars, headVars, eventVars, StepThrows
<1>41. ASSUME NEW w \in Workers, Heartbeat(w) PROVE TypeOK'
  <2>1. SlotsOK'
    <3>1. worker[w] \in SlotRecord /\ worker[w].run \in Runs
      BY <1>41, Busy DEF Heartbeat, HoldsGuard
    <3> QED
      BY <1>41, <3>1, SlotHeartbeat, SlotStep, Labels DEF Heartbeat
  <2> QED BY <1>41, <2>1 DEF TypeOK, runVars, docVars, headVars, eventVars, Heartbeat
<1>42. ASSUME NEW w \in Workers, Crash(w) PROVE TypeOK'
  <2>1. SlotsOK'
    BY <1>42, SlotStep, IdleType DEF Crash, Idle
  <2>2. job' \in [Runs -> JobRecord]
    BY <1>42, Busy, JobAfterType, JobUpdates DEF Crash, TypeOK
  <2> QED BY <1>42, <2>1, <2>2 DEF TypeOK, runVars, docVars, headVars, eventVars, Crash
<1>44. ASSUME NEW w \in Workers, ProcessorThrows(w) PROVE TypeOK'
  <2>1. SlotsOK'
    BY <1>44, SlotStep, IdleType DEF ProcessorThrows, Idle
  <2>2. job' \in [Runs -> JobRecord]
    <3>1. worker[w].run \in Runs
      BY <1>44, Busy DEF ProcessorThrows, Unguarded
    <3> QED BY <1>44, <3>1, JobAfterType, NewJobType DEF ProcessorThrows, TypeOK
  <2> QED BY <1>44, <2>1, <2>2 DEF TypeOK, runVars, docVars, headVars, eventVars, ProcessorThrows
<1>43. CASE UNCHANGED vars
  BY <1>43, SlotsKept DEF TypeOK, runVars, docVars, headVars, eventVars, vars
<1> QED
  BY <1>1, <1>2, <1>3, <1>4, <1>5, <1>6, <1>7, <1>8, <1>9, <1>10, <1>11, <1>12, <1>13, <1>14, <1>15, <1>16, <1>17, <1>18, <1>19, <1>20, <1>21, <1>22, <1>23, <1>24, <1>25, <1>26, <1>27, <1>28, <1>29, <1>30, <1>31, <1>32, <1>33, <1>34, <1>35, <1>36, <1>37, <1>38, <1>39, <1>40, <1>41, <1>42, <1>43, <1>44 DEF Next, ApiNext, WorkerNext, Process

\* The state always has its shape.
THEOREM TypeCorrect == Spec => []TypeOK
BY InitTypeOK, NextTypeOK, PTL DEF Spec

-----------------------------------------------------------------------------
(* What every step does to the statuses *)

StatusKept ==
  \A r \in Runs : /\ status[r] \in Settled => status'[r] \in Settled
                  /\ status[r] # "absent" => status'[r] # "absent"

LEMMA transitionKeeps ==
  ASSUME TypeOK, NEW w \in Workers, NEW from, NEW to, NEW next, NEW caught,
         transitionRun(w, from, to, next, caught), to # "absent",
         from \notin Settled \/ to \in Settled
  PROVE  StatusKept
BY DEF transitionRun, StatusKept, TypeOK

\* A settled run stays settled and a run never disappears.
LEMMA StatusStep ==
  ASSUME TypeOK, CommitInv, [Next]_vars
  PROVE  StatusKept
<1> USE DEF runVars
<1>0. ASSUME UNCHANGED status PROVE StatusKept
  BY <1>0 DEF StatusKept
<1>1. ASSUME NEW r \in Runs, CreateRun(r) PROVE StatusKept
  BY <1>1 DEF CreateRun, StatusKept, Settled, TypeOK
<1>2. ASSUME NEW s \in Runs, NEW r \in Runs, RetryValidation(s, r) PROVE StatusKept
  BY <1>2 DEF RetryValidation, StatusKept, Settled, TypeOK
<1>3. ASSUME NEW r \in Runs, Cancel(r) PROVE StatusKept
  BY <1>3 DEF Cancel, StatusKept, Settled, Cancellable, Working, TypeOK
<1>4. ASSUME NEW w \in Workers, MarkRunWaiting(w) PROVE StatusKept
  BY <1>4 DEF MarkRunWaiting, StatusKept, Settled, TypeOK
<1>5. ASSUME NEW w \in Workers, Rebase(w) PROVE StatusKept
  BY <1>5 DEF Rebase, StatusKept, Settled, TypeOK
<1>6. ASSUME NEW w \in Workers, Requeue(w) PROVE StatusKept
  BY <1>6 DEF Requeue, StatusKept, Settled, TypeOK
<1>7. ASSUME NEW w \in Workers, FailOrphan(w) PROVE StatusKept
  BY <1>7 DEF FailOrphan, StatusKept, Settled, TypeOK
<1>8. ASSUME NEW w \in Workers, Begin(w) PROVE StatusKept
  BY <1>0, <1>8, transitionKeeps DEF Begin, Settled
<1>9. ASSUME NEW w \in Workers, Work(w) PROVE StatusKept
  <2>1. worker[w].at \in Working
    BY <1>9 DEF Work, CommitInv, SlotInv
  <2>2. worker[w].at \notin Settled
    BY <2>1 DEF Working, Settled
  <2>3. NextPhase(w) # "absent"
    BY DEF NextPhase
  <2>4. CASE status[worker[w].run] = worker[w].at
    BY <1>9, <2>2, <2>3, <2>4 DEF Work, StatusKept, TypeOK
  <2>5. CASE status[worker[w].run] # worker[w].at
    BY <1>9, <2>2, <2>3, <2>5, transitionKeeps DEF Work
  <2> QED BY <2>4, <2>5
<1>10. ASSUME NEW w \in Workers, Persist(w) PROVE StatusKept
  BY <1>10, transitionKeeps DEF Persist, Settled
<1>11. ASSUME NEW w \in Workers, CompleteRun(w) PROVE StatusKept
  BY <1>11, transitionKeeps DEF CompleteRun, Settled
<1>12. ASSUME NEW w \in Workers, FailAgentRun(w) PROVE StatusKept
  BY <1>12 DEF FailAgentRun, StatusKept, Settled, TypeOK
<1>13. ASSUME NEW w \in Workers, FailValidationRetry(w) PROVE StatusKept
  BY <1>13 DEF FailValidationRetry, StatusKept, Settled, TypeOK
<1>14. ASSUME NEW r \in Runs,
              \/ Enqueue(r) \/ CandidateExpires(r) \/ Stall(r)
              \/ \E w \in Workers : Deliver(w, r)
       PROVE  StatusKept
  BY <1>0, <1>14 DEF Enqueue, CandidateExpires, Stall, Deliver
<1>15. ASSUME NEW w \in Workers,
              \/ LoadStatus(w) \/ Acquire(w) \/ RebaseRead(w) \/ Release(w)
              \/ ReadRun(w) \/ FindSnapshot(w) \/ ValidationPassed(w)
              \/ WorkFails(w) \/ Abort(w) \/ AssertHeld(w)
              \/ CreateRunSnapshot(w) \/ CommitBranchHead(w)
              \/ CommitOutcome(w) \/ UpdateMirror(w) \/ DropCandidate(w)
              \/ EmitCompleted(w) \/ StoreCandidate(w) \/ EmitFailed(w)
              \/ StepThrows(w) \/ ProcessorThrows(w) \/ Heartbeat(w) \/ Crash(w)
       PROVE  StatusKept
  BY <1>0, <1>15 DEF LoadStatus, Acquire, RebaseRead, Release, ReadRun,
     FindSnapshot, ValidationPassed, WorkFails, Abort, AssertHeld,
     CreateRunSnapshot, CommitBranchHead, CommitOutcome, UpdateMirror,
     DropCandidate, EmitCompleted, StoreCandidate, EmitFailed, StepThrows,
     ProcessorThrows, Heartbeat, Crash
<1>16. CASE RollbackHead \/ RollbackMirror \/ LeaseExpires \/ LeaseReaped \/ UNCHANGED vars
  BY <1>0, <1>16 DEF RollbackHead, RollbackMirror, LeaseExpires, LeaseReaped, vars
<1> QED
  BY <1>1, <1>2, <1>3, <1>4, <1>5, <1>6, <1>7, <1>8, <1>9, <1>10, <1>11,
     <1>12, <1>13, <1>14, <1>15, <1>16 DEF Next, ApiNext, WorkerNext, Process

-----------------------------------------------------------------------------
(* CommitInv is inductive *)

\* Slot v is where it was, but for what its guard knows about the lease.
Same(v) == /\ worker'[v].pc = worker[v].pc /\ worker'[v].run = worker[v].run
           /\ worker'[v].at = worker[v].at /\ worker'[v].base = worker[v].base

HeadKept == UNCHANGED <<snapshots, branch, advances>>

\* A slot that stays keeps its part of the invariant.
LEMMA FrameSlots ==
  ASSUME TypeOK, CommitInv, StatusKept, HeadKept
  PROVE  \A v \in Workers : Same(v) => SlotInv(v)'
<1> SUFFICES ASSUME NEW v \in Workers, Same(v) PROVE SlotInv(v)'
  OBVIOUS
<1>1. SlotInv(v)
  BY DEF CommitInv
<1>2. worker[v].pc \in {"snapshot", "commit"} => worker[v].run \in Runs
  BY DEF TypeOK, SlotsOK
<1> QED BY <1>1, <1>2 DEF SlotInv, Same, HeadKept, StatusKept

\* A run that is not settled yet may take another baseline.
LEMMA FrameBase ==
  ASSUME TypeOK, CommitInv, StatusKept, HeadKept,
         NEW r \in Runs, status[r] \notin Settled,
         NEW n \in Nat, n <= branch.version, base' = [base EXCEPT ![r] = n],
         \A v \in Workers : SlotInv(v)'
  PROVE  CommitInv'
<1>1. r \notin snapshots /\ ~(advances[r] > 0)
  BY DEF CommitInv, RunInv
<1>2. base'[r] = n /\ \A q \in Runs \ {r} : base'[q] = base[q]
  BY DEF TypeOK
<1>3. ASSUME NEW q \in Runs PROVE RunInv(q)'
  BY <1>1, <1>2 DEF CommitInv, RunInv, StatusKept, HeadKept
<1> QED BY <1>3 DEF CommitInv, HeadKept

\* Steps away from the commit: only slot w and the statuses change.
LEMMA FrameStep ==
  ASSUME TypeOK, CommitInv, StatusKept, HeadKept, UNCHANGED base,
         NEW w \in Workers, \A v \in Workers \ {w} : Same(v), SlotInv(w)'
  PROVE  CommitInv'
<1>1. \A v \in Workers : SlotInv(v)'
  BY FrameSlots
<1>2. ASSUME NEW r \in Runs PROVE RunInv(r)'
  BY DEF CommitInv, RunInv, HeadKept, StatusKept
<1> QED BY <1>1, <1>2 DEF CommitInv, HeadKept

\* No slot is disturbed.
LEMMA FrameIdle ==
  ASSUME TypeOK, CommitInv, StatusKept, HeadKept, UNCHANGED base,
         \A v \in Workers : Same(v)
  PROVE  CommitInv'
<1>1. \A v \in Workers : SlotInv(v)'
  BY FrameSlots
<1>2. ASSUME NEW r \in Runs PROVE RunInv(r)'
  BY DEF CommitInv, RunInv, HeadKept, StatusKept
<1> QED BY <1>1, <1>2 DEF CommitInv, HeadKept

\* The slot turns its back on the commit, or comes no closer to it.
LEMMA SlotTurns ==
  ASSUME TypeOK, CommitInv, HeadKept, NEW w \in Workers,
         \/ /\ worker'[w].pc \notin Committing
            /\ worker'[w].base <= branch.version
         \/ /\ worker[w].pc \in Committing
            /\ worker'[w].pc \in Committing \ {"work", "snapshot", "commit"}
            /\ worker'[w].run = worker[w].run
            /\ worker'[w].base = worker[w].base
  PROVE  SlotInv(w)'
BY DEF CommitInv, SlotInv, HeadKept, Committing

LEMMA BecomeSame ==
  ASSUME TypeOK, NEW w \in Workers, NEW s, Become(w, s)
  PROVE  worker'[w] = s /\ \A v \in Workers \ {w} : Same(v)
BY DEF TypeOK, SlotsOK, Become, Same

LEMMA GotoSame ==
  ASSUME TypeOK, NEW w \in Workers, NEW l, Goto(w, l)
  PROVE  /\ worker'[w].pc = l /\ worker'[w].run = worker[w].run
         /\ worker'[w].at = worker[w].at /\ worker'[w].base = worker[w].base
         /\ \A v \in Workers \ {w} : Same(v)
<1>1. worker[w] \in SlotRecord
  BY DEF TypeOK, SlotsOK
<1>2. LET s == [worker[w] EXCEPT !.pc = l]
      IN  /\ s.pc = l /\ s.run = worker[w].run
          /\ s.at = worker[w].at /\ s.base = worker[w].base
  BY <1>1 DEF SlotRecord
<1> QED BY <1>2, BecomeSame DEF Goto

LEMMA OrphanedSame ==
  ASSUME TypeOK, NEW v \in Workers
  PROVE  /\ Orphaned[v].pc = worker[v].pc /\ Orphaned[v].run = worker[v].run
         /\ Orphaned[v].at = worker[v].at /\ Orphaned[v].base = worker[v].base
BY DEF TypeOK, SlotsOK, SlotRecord, Orphaned

\* transitionRun either moves on with the run in its new status or leaves.
LEMMA transitionSame ==
  ASSUME TypeOK, NEW w \in Workers, worker[w].pc # "idle", NEW from, NEW to,
         NEW next, NEW caught, transitionRun(w, from, to, next, caught)
  PROVE  /\ worker'[w].run = worker[w].run /\ worker'[w].base = worker[w].base
         /\ \/ /\ worker'[w].pc = next /\ worker'[w].at = to
               /\ status'[worker[w].run] = to
            \/ worker'[w].pc \in {"release", caught}
         /\ \A v \in Workers \ {w} : Same(v)
<1>1. worker[w] \in SlotRecord /\ worker[w].run \in Runs
  BY DEF TypeOK, SlotsOK
<1>2. CASE status[worker[w].run] = from
  <2> DEFINE t == [worker[w] EXCEPT !.pc = next, !.at = to]
  <2>1. t.run = worker[w].run /\ t.base = worker[w].base /\ t.pc = next /\ t.at = to
    BY <1>1 DEF SlotRecord
  <2>2. Become(w, t) /\ status'[worker[w].run] = to
    BY <1>1, <1>2 DEF transitionRun, TypeOK
  <2> QED BY <2>1, <2>2, BecomeSame
<1>3. CASE status[worker[w].run] # from
  <2> DEFINE l == IF status[worker[w].run] = "cancelled" THEN "release" ELSE caught
             t == [worker[w] EXCEPT !.pc = l, !.throws = caught = "release"]
  <2>1. t.run = worker[w].run /\ t.base = worker[w].base /\ t.pc = l
    BY <1>1 DEF SlotRecord
  <2>2. Become(w, t)
    BY <1>3 DEF transitionRun
  <2> QED BY <2>1, <2>2, BecomeSame
<1> QED BY <1>2, <1>3

LEMMA CommitInvInit == Init => CommitInv
BY RunExecutionAssumption
DEF Init, CommitInv, RunInv, SlotInv, Idle, Committing, Settled

LEMMA CommitInvNext == TypeOK /\ CommitInv /\ [Next]_vars => CommitInv'
<1> SUFFICES ASSUME TypeOK, CommitInv, [Next]_vars PROVE CommitInv'
  OBVIOUS
<1>0. StatusKept
  BY StatusStep
<1>1. ASSUME NEW r \in Runs,
             \/ Enqueue(r) \/ Cancel(r) \/ CandidateExpires(r) \/ Stall(r)
      PROVE  CommitInv'
  BY <1>0, <1>1, FrameIdle DEF Enqueue, Cancel, CandidateExpires, Stall, Same, runVars, docVars, headVars, HeadKept
<1>2. ASSUME RollbackMirror \/ LeaseExpires \/ UNCHANGED vars
      PROVE  CommitInv'
  BY <1>0, <1>2, FrameIdle DEF RollbackMirror, LeaseExpires, Same, vars, runVars, docVars, headVars, HeadKept
<1>3. ASSUME LeaseReaped
      PROVE  CommitInv'
  BY <1>0, <1>3, FrameIdle, OrphanedSame DEF LeaseReaped, Same, runVars, docVars, headVars, HeadKept
<1>4. ASSUME NEW r \in Runs, CreateRun(r)
      PROVE  CommitInv'
  <2>1. /\ status[r] \notin Settled /\ HeadKept /\ worker' = worker
        /\ branch.version \in Nat /\ branch.version <= branch.version
        /\ base' = [base EXCEPT ![r] = branch.version]
    BY <1>4 DEF CreateRun, Settled, TypeOK, runVars, docVars, headVars, HeadKept
  <2>2. \A v \in Workers : Same(v)
    BY <2>1 DEF Same
  <2> QED BY <1>0, <2>1, <2>2, FrameSlots, FrameBase
<1>5. ASSUME NEW s \in Runs, NEW r \in Runs, RetryValidation(s, r)
      PROVE  CommitInv'
  <2>1. /\ status[r] \notin Settled /\ HeadKept /\ worker' = worker
        /\ base[s] \in Nat /\ base[s] <= branch.version
        /\ base' = [base EXCEPT ![r] = base[s]]
    BY <1>5 DEF RetryValidation, CommitInv, RunInv, Settled, TypeOK, runVars, docVars, headVars, HeadKept
  <2>2. \A v \in Workers : Same(v)
    BY <2>1 DEF Same
  <2> QED BY <1>0, <2>1, <2>2, FrameSlots, FrameBase
<1>6. ASSUME RollbackHead
      PROVE  CommitInv'
  <2>1. /\ branch'.head \in snapshots \cup {Earlier}
        /\ branch'.version = branch.version + 1 /\ branch.version \in Nat
        /\ UNCHANGED <<status, base, snapshots, advances, worker>>
    BY <1>6 DEF RollbackHead, TypeOK, runVars, docVars, headVars, HeadKept
  <2>2. ASSUME NEW q \in Runs PROVE RunInv(q)'
    BY <2>1 DEF CommitInv, RunInv, TypeOK
  <2>3. ASSUME NEW v \in Workers PROVE SlotInv(v)'
    <3>1. SlotInv(v) /\ worker[v].base \in Nat
      BY DEF CommitInv, TypeOK, SlotsOK, SlotRecord
    <3> QED BY <2>1, <3>1 DEF SlotInv
  <2> QED BY <2>1, <2>2, <2>3 DEF CommitInv
<1>7. ASSUME NEW w \in Workers, NEW r \in Runs, Deliver(w, r)
      PROVE  CommitInv'
  <2>1. SlotInv(w)' /\ \A v \in Workers \ {w} : Same(v)
    <3>1. /\ [Idle EXCEPT !.pc = "load", !.run = r].pc = "load"
          /\ [Idle EXCEPT !.pc = "load", !.run = r].base = 0
          /\ branch.version \in Nat
      BY DEF Idle, TypeOK
    <3> DEFINE t == [Idle EXCEPT !.pc = "load", !.run = r]
    <3>2. Become(w, t) /\ HeadKept
      BY <1>7 DEF Deliver, runVars, docVars, headVars, HeadKept
    <3>3. t.pc = "load" /\ t.base = 0
      BY <3>1
    <3> HIDE DEF t
    <3>4. /\ \A v \in Workers \ {w} : Same(v)
          /\ worker'[w].pc = "load" /\ worker'[w].base = 0
      BY <3>2, <3>3, BecomeSame
    <3> QED BY <3>1, <3>2, <3>4, SlotTurns DEF Committing
  <2> QED BY <1>0, <1>7, <2>1, FrameStep DEF Deliver, runVars, docVars, headVars, HeadKept
<1>8. ASSUME NEW w \in Workers, LoadStatus(w)
      PROVE  CommitInv'
  <2>1. SlotInv(w)' /\ \A v \in Workers \ {w} : Same(v)
    <3>1. Idle.pc = "idle" /\ Idle.base = 0 /\ branch.version \in Nat
      BY DEF Idle, TypeOK
    <3>2. worker[w] \in SlotRecord /\ worker[w].base <= branch.version
      BY DEF CommitInv, SlotInv, TypeOK, SlotsOK
    <3> DEFINE t == [worker[w] EXCEPT !.pc = "acquire",
                                      !.at = status[worker[w].run]]
    <3>3. t.pc = "acquire" /\ t.base = worker[w].base
      BY <3>2 DEF SlotRecord
    <3>4. Become(w, Idle) \/ Become(w, t)
      BY <1>8 DEF LoadStatus
    <3> HIDE DEF t
    <3>5. /\ \A v \in Workers \ {w} : Same(v)
          /\ worker'[w].pc \notin Committing /\ worker'[w].base <= branch.version
      BY <3>1, <3>2, <3>3, <3>4, BecomeSame DEF Committing
    <3> QED BY <1>0, <1>8, <3>5, SlotTurns DEF LoadStatus, runVars, docVars, headVars, HeadKept
  <2> QED BY <1>0, <1>8, <2>1, FrameStep DEF LoadStatus, runVars, docVars, headVars, HeadKept
<1>9. ASSUME NEW w \in Workers, Acquire(w)
      PROVE  CommitInv'
  <2>1. SlotInv(w)' /\ \A v \in Workers \ {w} : Same(v)
    <3>1. worker[w] \in SlotRecord /\ branch.version \in Nat
      BY DEF TypeOK, SlotsOK
    <3>2. worker[w].base <= branch.version
      BY DEF CommitInv, SlotInv
    <3>a. PICK l : Become(w, [worker[w] EXCEPT !.doc = TRUE, !.pc = l]) /\ l \in {"read", "requeue", "rebaseRead"}
      BY <1>9 DEF Acquire
    <3> DEFINE t == [worker[w] EXCEPT !.doc = TRUE, !.pc = l]
    <3>3. t.pc = l /\ t.base = worker[w].base /\ t.run = worker[w].run
      BY <3>1 DEF SlotRecord
    <3>b. Become(w, t)
      BY <3>a
    <3> HIDE DEF t
    <3>4. /\ \A v \in Workers \ {w} : Same(v)
          /\ worker'[w].pc \notin Committing /\ worker'[w].base <= branch.version
      BY <3>2, <3>3, <3>a, <3>b, <3>1, BecomeSame DEF Committing
    <3> QED BY <1>0, <1>9, <3>4, SlotTurns DEF Acquire, runVars, docVars, headVars, HeadKept
  <2> QED BY <1>0, <1>9, <2>1, FrameStep DEF Acquire, runVars, docVars, headVars, HeadKept
<1>10. ASSUME NEW w \in Workers, MarkRunWaiting(w)
      PROVE  CommitInv'
  <2>1. SlotInv(w)' /\ \A v \in Workers \ {w} : Same(v)
    <3>1. Idle.pc = "idle" /\ Idle.base = 0 /\ branch.version \in Nat
      BY DEF Idle, TypeOK
    <3> QED BY <1>0, <1>10, <3>1, BecomeSame, SlotTurns DEF MarkRunWaiting, Committing, runVars, docVars, headVars, HeadKept
  <2> QED BY <1>0, <1>10, <2>1, FrameStep DEF MarkRunWaiting, runVars, docVars, headVars, HeadKept
<1>11. ASSUME NEW w \in Workers, RebaseRead(w)
      PROVE  CommitInv'
  <2>1. SlotInv(w)' /\ \A v \in Workers \ {w} : Same(v)
    <3>1. worker[w] \in SlotRecord /\ branch.version \in Nat
      BY DEF TypeOK, SlotsOK
    <3>2. worker[w].base <= branch.version
      BY DEF CommitInv, SlotInv
    <3>a. PICK l : Become(w, [worker[w] EXCEPT !.pc = l, !.base = branch.version]) /\ l = "rebase"
      BY <1>11 DEF RebaseRead
    <3> DEFINE t == [worker[w] EXCEPT !.pc = l, !.base = branch.version]
    <3>3. t.pc = l /\ t.base = branch.version /\ t.run = worker[w].run
      BY <3>1 DEF SlotRecord
    <3>b. Become(w, t)
      BY <3>a
    <3> HIDE DEF t
    <3>4. /\ \A v \in Workers \ {w} : Same(v)
          /\ worker'[w].pc \notin Committing /\ worker'[w].base <= branch.version
      BY <3>2, <3>3, <3>a, <3>b, <3>1, BecomeSame DEF Committing
    <3> QED BY <1>0, <1>11, <3>4, SlotTurns DEF RebaseRead, runVars, docVars, headVars, HeadKept
  <2> QED BY <1>0, <1>11, <2>1, FrameStep DEF RebaseRead, runVars, docVars, headVars, HeadKept
<1>12. ASSUME NEW w \in Workers, Rebase(w)
      PROVE  CommitInv'
  <2> DEFINE r == worker[w].run
  <2>1. /\ UNCHANGED <<snapshots, branch, advances>>
        /\ worker'[w].pc \in {"read", "release"} /\ worker'[w].base = worker[w].base
        /\ \A v \in Workers \ {w} : Same(v)
    BY <1>0, <1>12, GotoSame DEF Rebase, runVars, docVars, headVars, HeadKept
  <2>2. worker[w].base <= branch.version /\ worker[w].base \in Nat /\ r \in Runs
    BY <1>0, <1>12, Busy DEF Rebase, CommitInv, SlotInv
  <2>3. CASE UNCHANGED base
    <3>1. SlotInv(w)'
      BY <2>1, <2>2, SlotTurns DEF HeadKept, Committing
    <3> QED BY <1>0, <2>1, <2>3, <3>1, FrameStep DEF HeadKept
  <2>4. CASE /\ status[r] = "waiting_for_capacity"
             /\ base' = [base EXCEPT ![r] = worker[w].base]
    <3>1. SlotInv(w)'
      BY <2>1, <2>2, SlotTurns DEF HeadKept, Committing
    <3>2. \A v \in Workers : SlotInv(v)'
      BY <1>0, <2>1, <3>1, FrameSlots DEF HeadKept
    <3>3. status[r] \notin Settled
      BY <2>4 DEF Settled
    <3> QED BY <1>0, <2>1, <2>2, <2>4, <3>2, <3>3, FrameBase DEF HeadKept
  <2> QED BY <1>0, <1>12, <2>3, <2>4 DEF Rebase
<1>13. ASSUME NEW w \in Workers,
             \/ Requeue(w)
             \/ FailOrphan(w)
             \/ Abort(w)
             \/ UpdateMirror(w)
             \/ DropCandidate(w)
             \/ EmitCompleted(w)
             \/ StoreCandidate(w)
             \/ FailAgentRun(w)
             \/ FailValidationRetry(w)
             \/ EmitFailed(w)
      PROVE  CommitInv'
  <2>1. /\ \A v \in Workers \ {w} : Same(v)
        /\ worker'[w].pc \notin Committing /\ worker'[w].base = worker[w].base
    BY <1>0, <1>13, GotoSame DEF Requeue, FailOrphan, Abort, UpdateMirror, DropCandidate, EmitCompleted, StoreCandidate, FailAgentRun, FailValidationRetry, EmitFailed, Committing
  <2>2. HeadKept /\ UNCHANGED base
    BY <1>13 DEF Requeue, FailOrphan, Abort, UpdateMirror, DropCandidate, EmitCompleted, StoreCandidate, FailAgentRun, FailValidationRetry, EmitFailed, runVars, docVars, headVars, HeadKept
  <2>3. SlotInv(w)'
    BY <2>1, <2>2, SlotTurns DEF CommitInv, SlotInv
  <2> QED BY <2>1, <2>2, <2>3, <1>0, FrameStep
<1>14. ASSUME NEW w \in Workers, Release(w)
      PROVE  CommitInv'
  <2>1. SlotInv(w)' /\ \A v \in Workers \ {w} : Same(v)
    <3>1. Idle.pc = "idle" /\ Idle.base = 0 /\ branch.version \in Nat
      BY DEF Idle, TypeOK
    <3>2. worker'[w] = Idle
      BY <1>14 DEF Release, TypeOK, SlotsOK, Orphaned
    <3>3. ASSUME NEW v \in Workers \ {w} PROVE Same(v)
      BY <1>0, <1>14, OrphanedSame DEF Release, Same, TypeOK, SlotsOK
    <3> QED BY <1>0, <1>14, <3>1, <3>2, <3>3, SlotTurns DEF Release, Committing, runVars, docVars, headVars, HeadKept
  <2> QED BY <1>0, <1>14, <2>1, FrameStep DEF Release, runVars, docVars, headVars, HeadKept
<1>15. ASSUME NEW w \in Workers, ReadRun(w)
      PROVE  CommitInv'
  <2> DEFINE r == worker[w].run
  <2>1. worker[w] \in SlotRecord /\ r \in Runs
    BY <1>0, <1>15, Busy DEF ReadRun, baseline
  <2>2. PICK l \in {"begin", "findSnapshot", "release", "emitCompleted"},
             p \in {"generate", "recover", "retry"} :
               Become(w, [worker[w] EXCEPT !.pc = l, !.path = p,
                                           !.at = status[r], !.base = base[r]])
    BY <1>15 DEF ReadRun, baseline
  <2>3. /\ worker'[w].pc \notin {"work", "snapshot", "commit"}
        /\ worker'[w].run = r /\ worker'[w].base = base[r]
        /\ \A v \in Workers \ {w} : Same(v)
    <3> DEFINE t == [worker[w] EXCEPT !.pc = l, !.path = p,
                                      !.at = status[r], !.base = base[r]]
    <3>1. t.pc = l /\ t.run = r /\ t.base = base[r]
      BY <2>1 DEF SlotRecord
    <3>2. Become(w, t)
      BY <2>2
    <3> HIDE DEF t
    <3> QED BY <2>2, <3>1, <3>2, BecomeSame
  <2>4. HeadKept /\ UNCHANGED base
    BY <1>15 DEF ReadRun, baseline, runVars, docVars, headVars, HeadKept
  <2>5. SlotInv(w)'
    BY <2>1, <2>3, <2>4 DEF SlotInv, CommitInv, RunInv, HeadKept
  <2> QED BY <2>3, <2>4, <2>5, <1>0, FrameStep
<1>16. ASSUME NEW w \in Workers, FindSnapshot(w)
      PROVE  CommitInv'
  <2>1. /\ \/ worker'[w].pc = "commit" /\ worker[w].run \in snapshots
           \/ worker'[w].pc = "orphan"
        /\ worker[w].pc = "findSnapshot"
        /\ worker'[w].run = worker[w].run /\ worker'[w].base = worker[w].base
        /\ \A v \in Workers \ {w} : Same(v)
    BY <1>0, <1>16, GotoSame DEF FindSnapshot
  <2>2. HeadKept /\ UNCHANGED base
    BY <1>16 DEF FindSnapshot, runVars, docVars, headVars, HeadKept
  <2>3. SlotInv(w)'
    BY <2>1, <2>2 DEF SlotInv, CommitInv, HeadKept, Committing
  <2> QED BY <2>1, <2>2, <2>3, <1>0, FrameStep
<1>17. ASSUME NEW w \in Workers, Begin(w)
      PROVE  CommitInv'
  <2>1. /\ worker[w].pc = "begin" /\ worker[w].run \in Runs
        /\ HeadKept /\ UNCHANGED base
    BY <1>0, <1>17, Busy DEF Begin, runVars, docVars, headVars, HeadKept
  <2>2. /\ worker'[w].run = worker[w].run /\ worker'[w].base = worker[w].base
        /\ \/ worker'[w].pc = "work" /\ worker'[w].at = "running"
           \/ worker'[w].pc \in {"release", "fail"}
        /\ \A v \in Workers \ {w} : Same(v)
    BY <1>0, <1>17, <2>1, GotoSame, transitionSame DEF Begin
  <2>3. SlotInv(w)'
    BY <2>1, <2>2 DEF SlotInv, CommitInv, HeadKept, Committing, Working
  <2> QED BY <2>1, <2>2, <2>3, <1>0, FrameStep
<1>18. ASSUME NEW w \in Workers, Work(w)
      PROVE  CommitInv'
  <2>1. /\ worker[w].pc = "work" /\ worker[w] \in SlotRecord
        /\ HeadKept /\ UNCHANGED base
    BY <1>0, <1>18, Busy DEF Work, runVars, docVars, headVars, HeadKept
  <2>2. ASSUME NEW n
        PROVE  LET s == [worker[w] EXCEPT !.at = NextPhase(w), !.attempt = n]
               IN  /\ s.pc = worker[w].pc /\ s.at = NextPhase(w)
                   /\ s.run = worker[w].run /\ s.base = worker[w].base
    BY <2>1 DEF SlotRecord
  <2>3. /\ worker'[w].run = worker[w].run /\ worker'[w].base = worker[w].base
        /\ \/ worker'[w].pc = "work" /\ worker'[w].at = NextPhase(w)
           \/ worker'[w].pc \in {"release", "fail"}
        /\ \A v \in Workers \ {w} : Same(v)
    <3>1. CASE status[worker[w].run] = worker[w].at
      <4>1. PICK n : Become(w, [worker[w] EXCEPT !.at = NextPhase(w), !.attempt = n])
        BY <1>0, <1>18, <3>1 DEF Work
      <4> DEFINE t == [worker[w] EXCEPT !.at = NextPhase(w), !.attempt = n]
      <4>2. Become(w, t)
        BY <4>1
      <4>3. /\ t.pc = worker[w].pc /\ t.at = NextPhase(w)
            /\ t.run = worker[w].run /\ t.base = worker[w].base
        BY <2>2
      <4> HIDE DEF t
      <4> QED BY <2>1, <4>2, <4>3, BecomeSame
    <3>2. CASE status[worker[w].run] # worker[w].at
      BY <1>0, <1>18, <2>1, <3>2, transitionSame DEF Work
    <3> QED BY <3>1, <3>2
  <2>4. SlotInv(w)'
    BY <2>1, <2>3, NextPhaseType DEF SlotInv, CommitInv, HeadKept, Committing
  <2> QED BY <2>1, <2>3, <2>4, <1>0, FrameStep
<1>19. ASSUME NEW w \in Workers, ValidationPassed(w)
      PROVE  CommitInv'
  <2>1. /\ worker[w].pc = "work" /\ worker'[w].pc = "assertHeld"
        /\ worker'[w].run = worker[w].run /\ worker'[w].base = worker[w].base
        /\ \A v \in Workers \ {w} : Same(v)
    BY <1>0, <1>19, GotoSame DEF ValidationPassed
  <2>2. HeadKept /\ UNCHANGED base
    BY <1>19 DEF ValidationPassed, runVars, docVars, headVars, HeadKept
  <2>3. SlotInv(w)'
    BY <2>1, <2>2, SlotTurns DEF Committing
  <2> QED BY <2>1, <2>2, <2>3, <1>0, FrameStep
<1>20. ASSUME NEW w \in Workers, WorkFails(w)
      PROVE  CommitInv'
  <2>1. SlotInv(w)' /\ \A v \in Workers \ {w} : Same(v)
    <3>1. worker[w] \in SlotRecord /\ branch.version \in Nat
      BY DEF TypeOK, SlotsOK
    <3>2. worker[w].base <= branch.version
      BY DEF CommitInv, SlotInv
    <3>a. PICK l, b : Become(w, [worker[w] EXCEPT !.infra = b, !.pc = l]) /\ l \in {"storeCandidate", "fail"}
      BY <1>20 DEF WorkFails
    <3> DEFINE t == [worker[w] EXCEPT !.infra = b, !.pc = l]
    <3>3. t.pc = l /\ t.base = worker[w].base /\ t.run = worker[w].run
      BY <3>1 DEF SlotRecord
    <3>b. Become(w, t)
      BY <3>a
    <3> HIDE DEF t
    <3>4. /\ \A v \in Workers \ {w} : Same(v)
          /\ worker'[w].pc \notin Committing /\ worker'[w].base <= branch.version
      BY <3>2, <3>3, <3>a, <3>b, <3>1, BecomeSame DEF Committing
    <3> QED BY <1>0, <1>20, <3>4, SlotTurns DEF WorkFails, runVars, docVars, headVars, HeadKept
  <2> QED BY <1>0, <1>20, <2>1, FrameStep DEF WorkFails, runVars, docVars, headVars, HeadKept
<1>21. ASSUME NEW w \in Workers, AssertHeld(w)
      PROVE  CommitInv'
  <2>1. /\ worker[w].pc = "assertHeld" /\ worker[w] \in SlotRecord
        /\ HeadKept /\ UNCHANGED base
    BY <1>0, <1>21, Busy DEF AssertHeld, runVars, docVars, headVars, HeadKept
  <2>2. PICK l, b : /\ Become(w, [worker[w] EXCEPT !.pc = l, !.lost = b])
                    /\ l \in {"persist", "fail"}
    BY <1>21 DEF AssertHeld
  <2>3. /\ worker'[w].run = worker[w].run /\ worker'[w].base = worker[w].base
        /\ worker'[w].pc \in {"persist", "fail"}
        /\ \A v \in Workers \ {w} : Same(v)
    <3> DEFINE t == [worker[w] EXCEPT !.pc = l, !.lost = b]
    <3>1. t.pc = l /\ t.run = worker[w].run /\ t.base = worker[w].base
      BY <2>1 DEF SlotRecord
    <3>2. Become(w, t)
      BY <2>2
    <3> HIDE DEF t
    <3> QED BY <2>2, <3>1, <3>2, BecomeSame
  <2>4. SlotInv(w)'
    BY <2>1, <2>3 DEF SlotInv, CommitInv, HeadKept, Committing
  <2> QED BY <2>1, <2>3, <2>4, <1>0, FrameStep
<1>22. ASSUME NEW w \in Workers, Persist(w)
      PROVE  CommitInv'
  <2>1. /\ worker[w].pc = "persist" /\ HeadKept /\ UNCHANGED base
    BY <1>22 DEF Persist, runVars, docVars, headVars, HeadKept
  <2>2. /\ worker'[w].run = worker[w].run /\ worker'[w].base = worker[w].base
        /\ \/ worker'[w].pc = "snapshot" /\ status'[worker[w].run] = "persisting"
           \/ worker'[w].pc \in {"release", "fail"}
        /\ \A v \in Workers \ {w} : Same(v)
    BY <1>0, <1>22, <2>1, transitionSame DEF Persist
  <2>3. SlotInv(w)'
    BY <2>1, <2>2 DEF SlotInv, CommitInv, HeadKept, Committing, Settled
  <2> QED BY <2>1, <2>2, <2>3, <1>0, FrameStep
<1>23. ASSUME NEW w \in Workers, CreateRunSnapshot(w)
      PROVE  CommitInv'
  <2> DEFINE r == worker[w].run
  <2>1. /\ worker[w].pc = "snapshot" /\ r \in Runs /\ status[r] \in Settled
        /\ snapshots' = snapshots \cup {r} /\ UNCHANGED <<status, base, branch, advances>>
    BY <1>0, <1>23, Busy DEF CreateRunSnapshot, CommitInv, SlotInv, runVars, docVars, headVars, HeadKept
  <2>2. /\ worker'[w].pc = "commit" /\ worker'[w].run = r
        /\ worker'[w].base = worker[w].base
        /\ \A v \in Workers \ {w} : Same(v)
    BY <1>0, <1>23, GotoSame DEF CreateRunSnapshot
  <2>3. ASSUME NEW q \in Runs PROVE RunInv(q)'
    BY <2>1 DEF CommitInv, RunInv
  <2>4. SlotInv(w)'
    BY <2>1, <2>2 DEF SlotInv, CommitInv, Committing
  <2>5. ASSUME NEW v \in Workers \ {w} PROVE SlotInv(v)'
    BY <2>1, <2>2 DEF SlotInv, CommitInv, Same
  <2> QED BY <2>1, <2>3, <2>4, <2>5 DEF CommitInv
<1>24. ASSUME NEW w \in Workers, CommitBranchHead(w)
      PROVE  CommitInv'
  <2> DEFINE r == worker[w].run
  <2>1. /\ worker[w].pc = "commit" /\ r \in Runs /\ worker[w] \in SlotRecord
        /\ r \in snapshots /\ UNCHANGED <<status, base, snapshots>>
    BY <1>0, <1>24, Busy DEF CommitBranchHead, CommitInv, SlotInv, runVars, docVars, headVars, HeadKept
  <2>2. CASE branch.version # worker[w].base
    <3>1. /\ \A v \in Workers \ {w} : Same(v)
          /\ worker'[w].pc = "commitRead" /\ worker'[w].base = worker[w].base
      BY <1>0, <1>24, <2>2, GotoSame DEF CommitBranchHead
    <3>2. HeadKept
      BY <1>0, <1>24, <2>1, <2>2 DEF CommitBranchHead, runVars, docVars, headVars, HeadKept
    <3>3. SlotInv(w)'
      BY <3>1, <3>2, SlotTurns DEF CommitInv, SlotInv, Committing
    <3> QED BY <1>0, <2>1, <3>1, <3>2, <3>3, FrameStep
  <2>3. CASE branch.version = worker[w].base
    <3> DEFINE t == [worker[w] EXCEPT !.pc = "settle", !.outcome = "advanced"]
    <3>1. t.pc = "settle" /\ t.base = worker[w].base
      BY <2>1 DEF SlotRecord
    <3>2. /\ Become(w, t) /\ branch'.head = r
          /\ branch'.version = branch.version + 1 /\ branch.version \in Nat
          /\ advances' = [advances EXCEPT ![r] = advances[r] + 1]
      BY <1>0, <1>24, <2>3 DEF CommitBranchHead, TypeOK
    <3>3. /\ \A v \in Workers \ {w} : Same(v)
          /\ worker'[w].pc = "settle" /\ worker'[w].base = worker[w].base
      BY <3>1, <3>2, BecomeSame
    <3>4. ~(advances[r] > 0)
      BY <2>1, <2>3, <3>2 DEF CommitInv, SlotInv, Committing
    <3>5. ASSUME NEW q \in Runs PROVE RunInv(q)'
      <4>1. RunInv(q) /\ base[q] \in Nat /\ advances[q] \in Nat
        BY DEF CommitInv, TypeOK
      <4>2. /\ q # r => advances'[q] = advances[q]
            /\ q = r => advances'[q] = 1 /\ base[q] <= branch.version
        BY <2>1, <3>2, <3>4, <4>1 DEF RunInv, TypeOK
      <4> QED BY <2>1, <3>2, <4>1, <4>2 DEF RunInv
    <3>6. SlotInv(w)'
      BY <2>3, <3>2, <3>3 DEF SlotInv, Committing
    <3>7. ASSUME NEW v \in Workers \ {w} PROVE SlotInv(v)'
      <4>1. SlotInv(v) /\ Same(v) /\ worker[v].base \in Nat
        BY <3>3 DEF CommitInv, TypeOK, SlotsOK, SlotRecord
      <4> QED BY <2>1, <3>2, <4>1 DEF SlotInv, Same
    <3> QED BY <2>1, <3>2, <3>5, <3>6, <3>7 DEF CommitInv
  <2> QED BY <2>2, <2>3
<1>25. ASSUME NEW w \in Workers, CommitOutcome(w)
      PROVE  CommitInv'
  <2>1. SlotInv(w)' /\ \A v \in Workers \ {w} : Same(v)
    <3>1. worker[w] \in SlotRecord /\ branch.version \in Nat
      BY DEF TypeOK, SlotsOK
    <3>2. worker[w].base <= branch.version
      BY DEF CommitInv, SlotInv
    <3>a. PICK l, o : Become(w, [worker[w] EXCEPT !.pc = l, !.outcome = o]) /\ l = "settle"
      BY <1>25 DEF CommitOutcome
    <3> DEFINE t == [worker[w] EXCEPT !.pc = l, !.outcome = o]
    <3>3. t.pc = l /\ t.base = worker[w].base /\ t.run = worker[w].run
      BY <3>1 DEF SlotRecord
    <3>b. Become(w, t)
      BY <3>a
    <3> HIDE DEF t
    <3>4. /\ \A v \in Workers \ {w} : Same(v)
          /\ worker'[w].pc \notin Committing /\ worker'[w].base <= branch.version
      BY <3>2, <3>3, <3>a, <3>b, <3>1, BecomeSame DEF Committing
    <3> QED BY <1>0, <1>25, <3>4, SlotTurns DEF CommitOutcome, runVars, docVars, headVars, HeadKept
  <2> QED BY <1>0, <1>25, <2>1, FrameStep DEF CommitOutcome, runVars, docVars, headVars, HeadKept
<1>26. ASSUME NEW w \in Workers, CompleteRun(w)
      PROVE  CommitInv'
  <2>1. HeadKept /\ UNCHANGED base /\ worker[w].pc = "settle"
    BY <1>26 DEF CompleteRun, runVars, docVars, headVars, HeadKept
  <2>2. /\ worker'[w].pc \notin Committing /\ worker'[w].base = worker[w].base
        /\ \A v \in Workers \ {w} : Same(v)
    BY <1>0, <1>26, <2>1, transitionSame DEF CompleteRun, Committing
  <2>3. SlotInv(w)'
    BY <2>1, <2>2, SlotTurns DEF CommitInv, SlotInv
  <2> QED BY <2>1, <2>2, <2>3, <1>0, FrameStep
<1>27. ASSUME NEW w \in Workers, StepThrows(w)
      PROVE  CommitInv'
  <2>1. SlotInv(w)' /\ \A v \in Workers \ {w} : Same(v)
    <3>1. worker[w] \in SlotRecord /\ branch.version \in Nat
      BY DEF TypeOK, SlotsOK
    <3>2. worker[w].base <= branch.version
      BY DEF CommitInv, SlotInv
    <3>a. PICK l, b : Become(w, [worker[w] EXCEPT !.pc = l, !.infra = FALSE, !.throws = b]) /\ l \in {"release", "fail"}
      BY <1>27 DEF StepThrows
    <3> DEFINE t == [worker[w] EXCEPT !.pc = l, !.infra = FALSE, !.throws = b]
    <3>3. t.pc = l /\ t.base = worker[w].base /\ t.run = worker[w].run
      BY <3>1 DEF SlotRecord
    <3>b. Become(w, t)
      BY <3>a
    <3> HIDE DEF t
    <3>4. /\ \A v \in Workers \ {w} : Same(v)
          /\ worker'[w].pc \notin Committing /\ worker'[w].base <= branch.version
      BY <3>2, <3>3, <3>a, <3>b, <3>1, BecomeSame DEF Committing
    <3> QED BY <1>0, <1>27, <3>4, SlotTurns DEF StepThrows, runVars, docVars, headVars, HeadKept
  <2> QED BY <1>0, <1>27, <2>1, FrameStep DEF StepThrows, runVars, docVars, headVars, HeadKept
<1>28. ASSUME NEW w \in Workers, Heartbeat(w)
      PROVE  CommitInv'
  <2>1. worker[w] \in SlotRecord
    BY DEF TypeOK, SlotsOK
  <2> DEFINE t == [worker[w] EXCEPT !.lost = ~Owns(w)]
  <2>2. /\ t.pc = worker[w].pc /\ t.run = worker[w].run
        /\ t.at = worker[w].at /\ t.base = worker[w].base
    BY <2>1 DEF SlotRecord
  <2>a. Become(w, t)
    BY <1>28 DEF Heartbeat
  <2> HIDE DEF t
  <2>3. \A v \in Workers : Same(v)
    BY <2>2, <2>a, BecomeSame DEF Same
  <2> QED BY <1>0, <1>28, <2>3, FrameIdle DEF Heartbeat, runVars, docVars, headVars, HeadKept
<1>29. ASSUME NEW w \in Workers, Crash(w)
      PROVE  CommitInv'
  <2>1. SlotInv(w)' /\ \A v \in Workers \ {w} : Same(v)
    <3>1. Idle.pc = "idle" /\ Idle.base = 0 /\ branch.version \in Nat
      BY DEF Idle, TypeOK
    <3> QED BY <1>0, <1>29, <3>1, BecomeSame, SlotTurns DEF Crash, Committing, runVars, docVars, headVars, HeadKept
  <2> QED BY <1>0, <1>29, <2>1, FrameStep DEF Crash, runVars, docVars, headVars, HeadKept
<1>30. ASSUME NEW w \in Workers, ProcessorThrows(w)
      PROVE  CommitInv'
  <2>1. SlotInv(w)' /\ \A v \in Workers \ {w} : Same(v)
    <3>1. Idle.pc = "idle" /\ Idle.base = 0 /\ branch.version \in Nat
      BY DEF Idle, TypeOK
    <3> QED BY <1>0, <1>30, <3>1, BecomeSame, SlotTurns DEF ProcessorThrows, Committing, runVars, docVars, headVars, HeadKept
  <2> QED BY <1>0, <1>30, <2>1, FrameStep DEF ProcessorThrows, runVars, docVars, headVars, HeadKept
<1> QED
  BY <1>1, <1>2, <1>3, <1>4, <1>5, <1>6, <1>7, <1>8, <1>9,
     <1>10, <1>11, <1>12, <1>13, <1>14, <1>15, <1>16, <1>17, <1>18,
     <1>19, <1>20, <1>21, <1>22, <1>23, <1>24, <1>25, <1>26, <1>27,
     <1>28, <1>29, <1>30
  DEF Next, ApiNext, WorkerNext, Process

LEMMA CommitInvCorrect == Spec => []CommitInv
<1>1. Init => TypeOK /\ CommitInv
  BY InitTypeOK, CommitInvInit
<1>2. TypeOK /\ CommitInv /\ [Next]_vars => (TypeOK /\ CommitInv)'
  BY NextTypeOK, CommitInvNext
<1> QED BY <1>1, <1>2, PTL DEF Spec

\* Cancellation is final: a cancelled run has no snapshot and never moved the
\* branch head (createRunSnapshot and commitBranchHead come after the
\* compare-and-set to persisting, which excludes the cancel handler).
THEOREM CancelSafe == Spec => []CancelledLeavesNoTrace
<1>1. TypeOK /\ CommitInv => CancelledLeavesNoTrace
  <2> SUFFICES ASSUME TypeOK, CommitInv, NEW r \in Runs, status[r] = "cancelled"
               PROVE  r \notin snapshots /\ advances[r] = 0 /\ branch.head # r
    BY DEF CancelledLeavesNoTrace
  <2>1. r \notin snapshots
    BY DEF CommitInv, RunInv, Settled
  <2>2. advances[r] = 0
    BY <2>1 DEF CommitInv, RunInv, TypeOK
  <2>3. branch.head # r
    BY <2>1, RunExecutionAssumption DEF CommitInv
  <2> QED BY <2>1, <2>2, <2>3
<1> QED BY <1>1, TypeCorrect, CommitInvCorrect, PTL

\* No run moves the head twice, whoever redelivers, recovers or retries it.
THEOREM AtMostOneAdvance == Spec => []AdvancesAtMostOnce
<1>1. CommitInv => AdvancesAtMostOnce
  BY DEF CommitInv, RunInv, AdvancesAtMostOnce
<1> QED BY <1>1, CommitInvCorrect, PTL

-----------------------------------------------------------------------------
(* Part 2: validation retries *)

\* The parts of RetryInv: jobs, retries and slots.
JobKnown(r) == job[r].state # "none" => status[r] # "absent"

RetrySettled(r) ==
  /\ status[r] = "absent" => retryOf[r] = None
  /\ isRetry(r) => /\ status[retryOf[r]] \in Settled
                   /\ base[r] = base[retryOf[r]]

SlotKnown(w) ==
  LET s == worker[w] IN
  /\ s.pc # "idle" => status[s.run] # "absent"
  /\ s.pc \in {"rebaseRead", "rebase"} => ~isRetry(s.run)
  /\ s.pc \in Committing /\ isRetry(s.run) => s.base = base[s.run]

Rebasing == {"rebaseRead", "rebase"}

LEMMA RetryParts ==
  RetryInv <=> /\ \A r \in Runs : JobKnown(r) /\ RetrySettled(r)
               /\ \A w \in Workers : SlotKnown(w)
BY DEF RetryInv, JobKnown, RetrySettled, SlotKnown

LEMMA RetryPartsNext ==
  RetryInv' <=> /\ \A r \in Runs : JobKnown(r)' /\ RetrySettled(r)'
                /\ \A w \in Workers : SlotKnown(w)'
BY DEF RetryInv, JobKnown, RetrySettled, SlotKnown

-----------------------------------------------------------------------------
(* Frames *)

\* A job that appears belongs to a run that exists.
LEMMA JobFrame ==
  ASSUME TypeOK, RetryInv, StatusKept, NEW r \in Runs, status[r] # "absent",
         \A q \in Runs \ {r} : job'[q] = job[q]
  PROVE  \A q \in Runs : JobKnown(q)'
BY RetryParts DEF JobKnown, StatusKept

LEMMA JobAfterFrame ==
  ASSUME TypeOK, NEW w \in Workers, NEW r \in Runs, NEW j, JobAfter(w, r, j)
  PROVE  \A q \in Runs \ {r} : job'[q] = job[q]
BY DEF TypeOK, JobAfter

\* No step takes the source of a retry back.
LEMMA SourceFrame ==
  ASSUME TypeOK, RetryInv, StatusKept, UNCHANGED <<base, retryOf>>
  PROVE  \A r \in Runs : RetrySettled(r)'
<1> SUFFICES ASSUME NEW r \in Runs PROVE RetrySettled(r)'
  OBVIOUS
<1>1. RetrySettled(r) /\ (isRetry(r) => retryOf[r] \in Runs)
  BY RetryParts DEF TypeOK, isRetry
<1> QED BY <1>1 DEF RetrySettled, StatusKept, isRetry

LEMMA SlotFrame ==
  ASSUME TypeOK, RetryInv, StatusKept, UNCHANGED <<base, retryOf>>
  PROVE  \A v \in Workers : Same(v) => SlotKnown(v)'
<1> SUFFICES ASSUME NEW v \in Workers, Same(v) PROVE SlotKnown(v)'
  OBVIOUS
<1>1. SlotKnown(v) /\ (worker[v].pc # "idle" => worker[v].run \in Runs)
  BY RetryParts DEF TypeOK, SlotsOK
<1> QED BY <1>1 DEF SlotKnown, Same, StatusKept, isRetry, Committing

\* Steps of the API and of the clock: no slot moves.
LEMMA RetryIdle ==
  ASSUME TypeOK, RetryInv, StatusKept, UNCHANGED <<base, retryOf>>,
         \A q \in Runs : JobKnown(q)', \A v \in Workers : Same(v)
  PROVE  RetryInv'
BY SourceFrame, SlotFrame, RetryPartsNext

\* Steps of slot w, which leave the baselines alone and touch one job.
LEMMA RetryStep ==
  ASSUME TypeOK, RetryInv, StatusKept, UNCHANGED <<base, retryOf>>,
         NEW w \in Workers, worker[w].pc # "idle",
         \A q \in Runs \ {worker[w].run} : job'[q] = job[q],
         \A v \in Workers \ {w} : Same(v), SlotKnown(w)'
  PROVE  RetryInv'
<1>1. worker[w].run \in Runs /\ status[worker[w].run] # "absent"
  BY RetryParts DEF SlotKnown, TypeOK, SlotsOK
<1> QED BY <1>1, JobFrame, SourceFrame, SlotFrame, RetryPartsNext

\* A slot that goes idle, ends, or keeps its base on the way to the commit.
LEMMA RetryTurns ==
  ASSUME TypeOK, RetryInv, StatusKept, UNCHANGED <<base, retryOf>>,
         NEW w \in Workers, worker[w].pc # "idle",
         \/ worker'[w].pc = "idle"
         \/ /\ worker'[w].run = worker[w].run
            /\ worker'[w].pc \notin Committing \cup Rebasing
         \/ /\ worker'[w].run = worker[w].run /\ worker'[w].base = worker[w].base
            /\ worker[w].pc \in Committing /\ worker'[w].pc \in Committing
  PROVE  SlotKnown(w)'
<1>1. SlotKnown(w) /\ worker[w].run \in Runs
  BY RetryParts DEF TypeOK, SlotsOK
<1> QED BY <1>1 DEF SlotKnown, StatusKept, isRetry, Committing, Rebasing

\* A run without retries takes a baseline: nobody else's changes with it.
LEMMA RetryBase ==
  ASSUME TypeOK, RetryInv, StatusKept, UNCHANGED retryOf,
         NEW r \in Runs, ~isRetry(r), status[r] \notin Settled,
         NEW n, base' = [base EXCEPT ![r] = n],
         \A q \in Runs : JobKnown(q)',
         NEW w \in Workers, \A v \in Workers \ {w} : Same(v),
         Same(w) \/ SlotKnown(w)'
  PROVE  RetryInv'
<1>1. \A q \in Runs \ {r} : base'[q] = base[q]
  BY DEF TypeOK
<1>2. ASSUME NEW q \in Runs PROVE RetrySettled(q)'
  <2>1. RetrySettled(q) /\ (isRetry(q) => retryOf[q] \in Runs)
    BY RetryParts DEF TypeOK, isRetry
  <2> QED BY <1>1, <2>1 DEF RetrySettled, StatusKept, isRetry
<1>3. ASSUME NEW v \in Workers, Same(v) PROVE SlotKnown(v)'
  <2>1. SlotKnown(v) /\ (worker[v].pc # "idle" => worker[v].run \in Runs)
    BY RetryParts DEF TypeOK, SlotsOK
  <2> QED BY <1>1, <1>3, <2>1 DEF SlotKnown, Same, StatusKept, isRetry, Committing
<1> QED BY <1>2, <1>3, RetryPartsNext

-----------------------------------------------------------------------------
(* RetryInv is inductive *)

LEMMA RetryInit == Init => RetryInv
BY DEF Init, RetryInv, NoJob, Idle, isRetry, Committing

\* The steps that only move slot w, and not towards the commit.
Quiet(w) ==
  \/ Requeue(w) \/ FailOrphan(w) \/ Abort(w) \/ UpdateMirror(w)
  \/ DropCandidate(w) \/ EmitCompleted(w) \/ StoreCandidate(w)
  \/ FailAgentRun(w) \/ FailValidationRetry(w) \/ EmitFailed(w)

LEMMA RetryInvNext == TypeOK /\ CommitInv /\ RetryInv /\ [Next]_vars => RetryInv'
<1> SUFFICES ASSUME TypeOK, CommitInv, RetryInv, [Next]_vars PROVE RetryInv'
  OBVIOUS
<1>0. StatusKept
  BY StatusStep
<1>a. ASSUME UNCHANGED job PROVE \A q \in Runs : JobKnown(q)'
  BY <1>0, <1>a, RetryParts DEF JobKnown, StatusKept
<1>1. ASSUME NEW r \in Runs, Cancel(r) \/ CandidateExpires(r)
      PROVE  RetryInv'
  BY <1>0, <1>a, <1>1, RetryIdle DEF Cancel, CandidateExpires, Same, runVars
<1>2. ASSUME RollbackHead \/ RollbackMirror \/ LeaseExpires \/ UNCHANGED vars
      PROVE  RetryInv'
  BY <1>0, <1>a, <1>2, RetryIdle DEF RollbackHead, RollbackMirror, LeaseExpires, Same, vars, runVars
<1>3. ASSUME LeaseReaped PROVE RetryInv'
  BY <1>0, <1>a, <1>3, RetryIdle, OrphanedSame DEF LeaseReaped, Same, runVars
<1>4. ASSUME NEW r \in Runs, Enqueue(r) \/ Stall(r) PROVE RetryInv'
  <2>1. /\ status[r] # "absent" /\ \A q \in Runs \ {r} : job'[q] = job[q]
    BY <1>4, RetryParts DEF Enqueue, Stall, JobKnown, TypeOK
  <2> QED BY <1>0, <1>4, <2>1, JobFrame, RetryIdle DEF Enqueue, Stall, Same, runVars
<1>5. ASSUME NEW w \in Workers, NEW r \in Runs, Deliver(w, r) PROVE RetryInv'
  <2>1. /\ status[r] # "absent" /\ \A q \in Runs \ {r} : job'[q] = job[q]
    BY <1>5, RetryParts DEF Deliver, JobKnown, TypeOK
  <2> DEFINE t == [Idle EXCEPT !.pc = "load", !.run = r]
  <2>2. Become(w, t) /\ t.pc = "load" /\ t.run = r
    BY <1>5 DEF Deliver, Idle
  <2> HIDE DEF t
  <2>3. \A v \in Workers \ {w} : Same(v)
    BY <2>2, BecomeSame
  <2>4. UNCHANGED <<status, base, retryOf>>
    BY <1>5 DEF Deliver, runVars
  <2>5. SlotKnown(w)'
    BY <2>1, <2>2, <2>4, BecomeSame DEF SlotKnown, Committing
  <2> QED BY <1>0, <2>1, <2>3, <2>4, <2>5, JobFrame, SourceFrame, SlotFrame, RetryPartsNext
<1>6. ASSUME NEW r \in Runs, CreateRun(r) PROVE RetryInv'
  <2>1. /\ ~isRetry(r) /\ status[r] \notin Settled /\ UNCHANGED <<retryOf, job, worker>>
        /\ base' = [base EXCEPT ![r] = branch.version]
    BY <1>6, RetryParts DEF CreateRun, RetrySettled, isRetry, Settled
  <2>2. \A v \in Workers : Same(v)
    BY <2>1 DEF Same
  <2>3. CASE Workers = {}
    <3>1. ASSUME NEW q \in Runs PROVE RetrySettled(q)'
      <4>1. RetrySettled(q) /\ (isRetry(q) => retryOf[q] \in Runs)
        BY RetryParts DEF TypeOK, isRetry
      <4>2. \A p \in Runs \ {r} : base'[p] = base[p]
        BY <2>1 DEF TypeOK
      <4> QED BY <1>0, <2>1, <4>1, <4>2 DEF RetrySettled, StatusKept, isRetry
    <3> QED BY <1>a, <2>1, <2>3, <3>1, RetryPartsNext
  <2>4. CASE \E w \in Workers : TRUE
    BY <1>0, <1>a, <2>1, <2>2, <2>4, RetryBase
  <2> QED BY <2>3, <2>4
<1>7. ASSUME NEW s \in Runs, NEW r \in Runs, RetryValidation(s, r) PROVE RetryInv'
  <2>1. /\ status[s] = "failed" /\ status[r] = "absent" /\ s # r
        /\ UNCHANGED <<job, worker>> /\ s # None
        /\ status'[r] = "queued" /\ retryOf'[r] = s /\ base'[r] = base[s]
        /\ \A q \in Runs \ {r} : retryOf'[q] = retryOf[q] /\ base'[q] = base[q]
    BY <1>7, RunExecutionAssumption DEF RetryValidation, TypeOK
  <2>2. ASSUME NEW q \in Runs PROVE RetrySettled(q)'
    <3>1. CASE q = r
      BY <1>0, <2>1, <3>1 DEF RetrySettled, StatusKept, isRetry, Settled
    <3>2. CASE q # r
      <4>1. RetrySettled(q) /\ (isRetry(q) => retryOf[q] \in Runs)
        BY RetryParts DEF TypeOK, isRetry
      <4>2. isRetry(q) => retryOf[q] # r
        BY <2>1, <4>1 DEF RetrySettled, Settled
      <4> QED BY <1>0, <2>1, <3>2, <4>1, <4>2 DEF RetrySettled, StatusKept, isRetry
    <3> QED BY <3>1, <3>2
  <2>3. ASSUME NEW v \in Workers PROVE SlotKnown(v)'
    <3>1. SlotKnown(v) /\ (worker[v].pc # "idle" => worker[v].run \in Runs \ {r})
      BY <2>1, RetryParts DEF TypeOK, SlotsOK, SlotKnown
    <3> QED BY <1>0, <2>1, <3>1 DEF SlotKnown, StatusKept, isRetry, Committing
  <2> QED BY <1>a, <2>1, <2>2, <2>3, RetryPartsNext
<1>8. ASSUME NEW w \in Workers, Quiet(w) PROVE RetryInv'
  <2>1. worker[w].pc # "idle" /\ UNCHANGED <<base, retryOf, job>>
    BY <1>8 DEF Quiet, Requeue, FailOrphan, Abort, UpdateMirror, DropCandidate,
       EmitCompleted, StoreCandidate, FailAgentRun, FailValidationRetry,
       EmitFailed, runVars
  <2>2. /\ \A v \in Workers \ {w} : Same(v)
        /\ worker'[w].run = worker[w].run
        /\ worker'[w].pc \notin Committing \cup Rebasing
    BY <1>8, GotoSame DEF Quiet, Requeue, FailOrphan, Abort, UpdateMirror,
       DropCandidate, EmitCompleted, StoreCandidate, FailAgentRun,
       FailValidationRetry, EmitFailed, Committing, Rebasing
  <2>3. SlotKnown(w)'
    BY <1>0, <2>1, <2>2, RetryTurns
  <2> QED BY <1>0, <2>1, <2>2, <2>3, RetryStep
<1>9. ASSUME NEW w \in Workers, LoadStatus(w) PROVE RetryInv'
  <2>1. /\ worker[w] \in SlotRecord /\ worker[w].run \in Runs
        /\ worker[w].pc # "idle" /\ UNCHANGED <<base, retryOf>>
    BY <1>9 DEF LoadStatus, TypeOK, SlotsOK, runVars
  <2>2. \A q \in Runs \ {worker[w].run} : job'[q] = job[q]
    BY <1>9, <2>1, JobAfterFrame DEF LoadStatus
  <2> DEFINE t == [worker[w] EXCEPT !.pc = "acquire", !.at = status[worker[w].run]]
  <2>3. t.pc = "acquire" /\ t.run = worker[w].run
    BY <2>1 DEF SlotRecord
  <2>4. Become(w, Idle) \/ Become(w, t)
    BY <1>9 DEF LoadStatus
  <2> HIDE DEF t
  <2>5. /\ \A v \in Workers \ {w} : Same(v)
        /\ \/ worker'[w].pc = "idle"
           \/ worker'[w].run = worker[w].run /\ worker'[w].pc = "acquire"
    BY <2>3, <2>4, BecomeSame DEF Idle
  <2>6. SlotKnown(w)'
    BY <1>0, <2>1, <2>2, <2>5, RetryTurns DEF Committing, Rebasing
  <2> QED BY <1>0, <2>1, <2>2, <2>5, <2>6, RetryStep
<1>10. ASSUME NEW w \in Workers, MarkRunWaiting(w) \/ Crash(w) \/ ProcessorThrows(w) PROVE RetryInv'
  <2>1. /\ worker[w].run \in Runs
        /\ worker[w].pc # "idle" /\ UNCHANGED <<base, retryOf>>
    BY <1>10 DEF MarkRunWaiting, Crash, ProcessorThrows, Unguarded, TypeOK, SlotsOK, runVars
  <2>2. \A q \in Runs \ {worker[w].run} : job'[q] = job[q]
    BY <1>10, <2>1, JobAfterFrame DEF MarkRunWaiting, Crash, ProcessorThrows
  <2>3. worker'[w].pc = "idle" /\ \A v \in Workers \ {w} : Same(v)
    BY <1>10, BecomeSame DEF MarkRunWaiting, Crash, ProcessorThrows, Idle
  <2>4. SlotKnown(w)'
    BY <1>0, <2>1, <2>2, <2>3, RetryTurns
  <2> QED BY <1>0, <2>1, <2>2, <2>3, <2>4, RetryStep
<1>11. ASSUME NEW w \in Workers, Release(w) PROVE RetryInv'
  <2>1. /\ worker[w].run \in Runs
        /\ worker[w].pc # "idle" /\ UNCHANGED <<base, retryOf>>
    BY <1>11 DEF Release, TypeOK, SlotsOK, runVars
  <2>2. \A q \in Runs \ {worker[w].run} : job'[q] = job[q]
    BY <1>11, <2>1, JobAfterFrame DEF Release
  <2>3. worker'[w] = Idle
    BY <1>11 DEF Release, TypeOK, SlotsOK, Orphaned
  <2>4. ASSUME NEW v \in Workers \ {w} PROVE Same(v)
    BY <1>11, OrphanedSame DEF Release, Same, TypeOK, SlotsOK
  <2>5. worker'[w].pc = "idle"
    BY <2>3 DEF Idle
  <2>6. SlotKnown(w)'
    BY <1>0, <2>1, <2>2, <2>4, <2>5, RetryTurns
  <2> QED BY <1>0, <2>1, <2>2, <2>4, <2>5, <2>6, RetryStep
<1>12. ASSUME NEW w \in Workers, Acquire(w) PROVE RetryInv'
  <2>1. /\ worker[w] \in SlotRecord /\ worker[w].pc # "idle"
        /\ UNCHANGED <<status, base, retryOf, job>>
    BY <1>12 DEF Acquire, TypeOK, SlotsOK, runVars
  <2>2. PICK l \in {"read", "requeue", "rebaseRead"} :
          /\ Become(w, [worker[w] EXCEPT !.doc = TRUE, !.pc = l])
          /\ l = "rebaseRead" => ~isRetry(worker[w].run)
    BY <1>12 DEF Acquire
  <2> DEFINE t == [worker[w] EXCEPT !.doc = TRUE, !.pc = l]
  <2>3. t.pc = l /\ t.run = worker[w].run
    BY <2>1 DEF SlotRecord
  <2>4. Become(w, t)
    BY <2>2
  <2> HIDE DEF t
  <2>5. /\ \A v \in Workers \ {w} : Same(v)
        /\ worker'[w].run = worker[w].run /\ worker'[w].pc = l
    BY <2>3, <2>4, BecomeSame
  <2>6. SlotKnown(w)'
    BY <2>1, <2>2, <2>5, RetryParts DEF SlotKnown, isRetry, Committing
  <2> QED BY <1>0, <2>1, <2>5, <2>6, RetryStep
<1>13. ASSUME NEW w \in Workers, RebaseRead(w) PROVE RetryInv'
  <2>1. /\ worker[w] \in SlotRecord /\ worker[w].pc = "rebaseRead"
        /\ UNCHANGED <<status, base, retryOf, job>>
    BY <1>13 DEF RebaseRead, TypeOK, SlotsOK, runVars
  <2> DEFINE t == [worker[w] EXCEPT !.pc = "rebase", !.base = branch.version]
  <2>2. t.pc = "rebase" /\ t.run = worker[w].run
    BY <2>1 DEF SlotRecord
  <2>3. Become(w, t)
    BY <1>13 DEF RebaseRead
  <2> HIDE DEF t
  <2>4. /\ \A v \in Workers \ {w} : Same(v)
        /\ worker'[w].run = worker[w].run /\ worker'[w].pc = "rebase"
    BY <2>2, <2>3, BecomeSame
  <2>5. SlotKnown(w)'
    BY <2>1, <2>4, RetryParts DEF SlotKnown, isRetry, Committing
  <2> QED BY <1>0, <2>1, <2>4, <2>5, RetryStep
<1>14. ASSUME NEW w \in Workers, Rebase(w) PROVE RetryInv'
  <2> DEFINE r == worker[w].run
  <2>1. /\ worker[w] \in SlotRecord /\ worker[w].pc = "rebase" /\ r \in Runs
        /\ UNCHANGED <<retryOf, job>>
    BY <1>14 DEF Rebase, TypeOK, SlotsOK
  <2>2. /\ \A v \in Workers \ {w} : Same(v)
        /\ worker'[w].run = r
        /\ worker'[w].pc \in {"read", "release"}
    BY <1>14, <2>1, GotoSame DEF Rebase
  <2>3. SlotKnown(w) /\ ~isRetry(r) /\ status[r] # "absent"
    BY <2>1, RetryParts DEF SlotKnown
  <2>4. SlotKnown(w)'
    BY <1>0, <2>1, <2>2, <2>3 DEF SlotKnown, isRetry, Committing, StatusKept
  <2>5. CASE UNCHANGED base
    BY <1>0, <2>1, <2>2, <2>4, <2>5, RetryStep
  <2>6. CASE /\ status[r] = "waiting_for_capacity"
             /\ base' = [base EXCEPT ![r] = worker[w].base]
    <3>1. status[r] \notin Settled
      BY <2>6 DEF Settled
    <3> QED BY <1>0, <1>a, <2>1, <2>2, <2>3, <2>4, <2>6, <3>1, RetryBase
  <2> QED BY <1>14, <2>5, <2>6 DEF Rebase
<1>15. ASSUME NEW w \in Workers, ReadRun(w) PROVE RetryInv'
  <2> DEFINE r == worker[w].run
  <2>1. /\ worker[w] \in SlotRecord /\ worker[w].pc # "idle"
        /\ UNCHANGED <<status, base, retryOf, job>>
    BY <1>15 DEF ReadRun, baseline, TypeOK, SlotsOK, runVars
  <2>2. PICK l \in {"begin", "findSnapshot", "release", "emitCompleted"},
             p \in {"generate", "recover", "retry"} :
               Become(w, [worker[w] EXCEPT !.pc = l, !.path = p,
                                           !.at = status[r], !.base = base[r]])
    BY <1>15 DEF ReadRun, baseline
  <2> DEFINE t == [worker[w] EXCEPT !.pc = l, !.path = p,
                                    !.at = status[r], !.base = base[r]]
  <2>3. t.pc = l /\ t.run = r /\ t.base = base[r]
    BY <2>1 DEF SlotRecord
  <2>4. Become(w, t)
    BY <2>2
  <2> HIDE DEF t
  <2>5. /\ worker'[w].pc = l /\ worker'[w].run = r /\ worker'[w].base = base[r]
        /\ \A v \in Workers \ {w} : Same(v)
    BY <2>3, <2>4, BecomeSame
  <2>6. SlotKnown(w)'
    BY <2>1, <2>2, <2>5, RetryParts DEF SlotKnown, isRetry
  <2> QED BY <1>0, <2>1, <2>5, <2>6, RetryStep
<1>16. ASSUME NEW w \in Workers,
              FindSnapshot(w) \/ CreateRunSnapshot(w) \/ ValidationPassed(w)
       PROVE  RetryInv'
  <2>1. worker[w].pc \in Committing /\ UNCHANGED <<base, retryOf, job>>
    BY <1>16 DEF FindSnapshot, CreateRunSnapshot, ValidationPassed, Committing, runVars
  <2>2. worker[w].pc # "idle"
    BY <2>1 DEF Committing
  <2>3. /\ \A v \in Workers \ {w} : Same(v)
        /\ worker'[w].run = worker[w].run
        /\ worker'[w].base = worker[w].base
        /\ worker'[w].pc \in {"commit", "orphan", "assertHeld"}
    BY <1>16, <2>2, GotoSame DEF FindSnapshot, CreateRunSnapshot, ValidationPassed
  <2>4. SlotKnown(w)'
    BY <1>0, <2>1, <2>2, <2>3, RetryTurns DEF Committing, Rebasing
  <2> QED BY <1>0, <2>1, <2>2, <2>3, <2>4, RetryStep
<1>17. ASSUME NEW w \in Workers, Begin(w) \/ Persist(w) \/ CompleteRun(w)
       PROVE  RetryInv'
  <2>1. worker[w].pc \in {"begin", "persist", "settle"} /\ UNCHANGED <<base, retryOf, job>>
    BY <1>17 DEF Begin, Persist, CompleteRun, runVars
  <2>2. /\ \A v \in Workers \ {w} : Same(v)
        /\ worker'[w].run = worker[w].run
        /\ worker'[w].base = worker[w].base
        /\ \/ worker'[w].pc \in {"release", "fail"}
           \/ worker[w].pc = "begin" /\ worker'[w].pc = "work"
           \/ worker[w].pc = "persist" /\ worker'[w].pc = "snapshot"
           \/ /\ worker[w].pc = "settle"
              /\ worker'[w].pc \in {"mirror", "dropCandidate", "emitCompleted"}
    BY <1>17, <2>1, GotoSame, transitionSame DEF Begin, Persist, CompleteRun
  <2>3. SlotKnown(w)'
    BY <1>0, <2>1, <2>2, RetryTurns DEF Committing, Rebasing
  <2> QED BY <1>0, <2>1, <2>2, <2>3, RetryStep
<1>18. ASSUME NEW w \in Workers, Work(w) PROVE RetryInv'
  <2>1. /\ worker[w].pc = "work" /\ worker[w] \in SlotRecord
        /\ UNCHANGED <<base, retryOf, job>>
    BY <1>18 DEF Work, TypeOK, SlotsOK, runVars
  <2>2. /\ worker'[w].run = worker[w].run /\ worker'[w].base = worker[w].base
        /\ worker'[w].pc \in {"work", "release", "fail"}
        /\ \A v \in Workers \ {w} : Same(v)
    <3>1. CASE status[worker[w].run] = worker[w].at
      <4>1. PICK n : Become(w, [worker[w] EXCEPT !.at = NextPhase(w), !.attempt = n])
        BY <1>18, <3>1 DEF Work
      <4> DEFINE t == [worker[w] EXCEPT !.at = NextPhase(w), !.attempt = n]
      <4>2. Become(w, t) /\ t.pc = "work" /\ t.run = worker[w].run /\ t.base = worker[w].base
        BY <2>1, <4>1 DEF SlotRecord
      <4> HIDE DEF t
      <4> QED BY <4>2, BecomeSame
    <3>2. CASE status[worker[w].run] # worker[w].at
      BY <1>18, <2>1, <3>2, transitionSame DEF Work
    <3> QED BY <3>1, <3>2
  <2>3. SlotKnown(w)'
    BY <1>0, <2>1, <2>2, RetryTurns DEF Committing, Rebasing
  <2> QED BY <1>0, <2>1, <2>2, <2>3, RetryStep
<1>19. ASSUME NEW w \in Workers, WorkFails(w) \/ StepThrows(w) PROVE RetryInv'
  <2>0. "idle" \notin FaultyAt
    BY RunExecutionAssumption
  <2>1. /\ worker[w].pc # "idle" /\ worker[w] \in SlotRecord
        /\ UNCHANGED <<base, retryOf, job>>
    BY <1>19, <2>0 DEF WorkFails, StepThrows, TypeOK, SlotsOK, runVars
  <2>2. PICK l, b, c :
          /\ Become(w, [worker[w] EXCEPT !.pc = l, !.infra = b, !.throws = c])
          /\ l \in {"storeCandidate", "fail", "release"}
    <3>1. CASE StepThrows(w)
      BY <3>1 DEF StepThrows
    <3>2. CASE WorkFails(w)
      <4>1. PICK l, b : /\ Become(w, [worker[w] EXCEPT !.infra = b, !.pc = l])
                        /\ l \in {"storeCandidate", "fail"}
        BY <3>2 DEF WorkFails
      <4>2. [worker[w] EXCEPT !.infra = b, !.pc = l] =
              [worker[w] EXCEPT !.pc = l, !.infra = b, !.throws = worker[w].throws]
        BY <2>1 DEF SlotRecord
      <4> QED BY <4>1, <4>2
    <3> QED BY <1>19, <3>1, <3>2
  <2> DEFINE t == [worker[w] EXCEPT !.pc = l, !.infra = b, !.throws = c]
  <2>3. Become(w, t) /\ t.pc = l /\ t.run = worker[w].run
    BY <2>1, <2>2 DEF SlotRecord
  <2> HIDE DEF t
  <2>4. /\ worker'[w].run = worker[w].run /\ worker'[w].pc = l
        /\ \A v \in Workers \ {w} : Same(v)
    BY <2>3, BecomeSame
  <2>5. SlotKnown(w)'
    BY <1>0, <2>1, <2>2, <2>4, RetryTurns DEF Committing, Rebasing
  <2> QED BY <1>0, <2>1, <2>2, <2>4, <2>5, RetryStep
<1>20. ASSUME NEW w \in Workers, AssertHeld(w) PROVE RetryInv'
  <2>1. /\ worker[w].pc = "assertHeld" /\ worker[w] \in SlotRecord
        /\ UNCHANGED <<base, retryOf, job>>
    BY <1>20 DEF AssertHeld, TypeOK, SlotsOK, runVars
  <2>2. PICK l, b : /\ Become(w, [worker[w] EXCEPT !.pc = l, !.lost = b])
                    /\ l \in {"persist", "fail"}
    BY <1>20 DEF AssertHeld
  <2> DEFINE t == [worker[w] EXCEPT !.pc = l, !.lost = b]
  <2>3. Become(w, t) /\ t.pc = l /\ t.run = worker[w].run /\ t.base = worker[w].base
    BY <2>1, <2>2 DEF SlotRecord
  <2> HIDE DEF t
  <2>4. /\ worker'[w].run = worker[w].run /\ worker'[w].base = worker[w].base
        /\ worker'[w].pc = l /\ \A v \in Workers \ {w} : Same(v)
    BY <2>3, BecomeSame
  <2>5. SlotKnown(w)'
    BY <1>0, <2>1, <2>2, <2>4, RetryTurns DEF Committing, Rebasing
  <2> QED BY <1>0, <2>1, <2>2, <2>4, <2>5, RetryStep
<1>21. ASSUME NEW w \in Workers, CommitBranchHead(w) PROVE RetryInv'
  <2>1. /\ worker[w].pc = "commit" /\ worker[w] \in SlotRecord
        /\ UNCHANGED <<base, retryOf, job>>
    BY <1>21 DEF CommitBranchHead, TypeOK, SlotsOK, runVars
  <2> DEFINE t == [worker[w] EXCEPT !.pc = "settle", !.outcome = "advanced"]
  <2>2. t.pc = "settle" /\ t.run = worker[w].run
    BY <2>1 DEF SlotRecord
  <2>3. Become(w, t) \/ Goto(w, "commitRead")
    BY <1>21 DEF CommitBranchHead
  <2> HIDE DEF t
  <2>4. /\ worker'[w].run = worker[w].run /\ worker'[w].pc \in {"settle", "commitRead"}
        /\ \A v \in Workers \ {w} : Same(v)
    BY <2>1, <2>2, <2>3, BecomeSame, GotoSame
  <2>5. SlotKnown(w)'
    BY <1>0, <2>1, <2>4, RetryTurns DEF Committing, Rebasing
  <2> QED BY <1>0, <2>1, <2>4, <2>5, RetryStep
<1>22. ASSUME NEW w \in Workers, CommitOutcome(w) PROVE RetryInv'
  <2>1. /\ worker[w].pc = "commitRead" /\ worker[w] \in SlotRecord
        /\ UNCHANGED <<base, retryOf, job>>
    BY <1>22 DEF CommitOutcome, TypeOK, SlotsOK, runVars
  <2>2. PICK o : Become(w, [worker[w] EXCEPT !.pc = "settle", !.outcome = o])
    BY <1>22 DEF CommitOutcome
  <2> DEFINE t == [worker[w] EXCEPT !.pc = "settle", !.outcome = o]
  <2>3. Become(w, t) /\ t.pc = "settle" /\ t.run = worker[w].run
    BY <2>1, <2>2 DEF SlotRecord
  <2> HIDE DEF t
  <2>4. /\ worker'[w].run = worker[w].run /\ worker'[w].pc = "settle"
        /\ \A v \in Workers \ {w} : Same(v)
    BY <2>3, BecomeSame
  <2>5. SlotKnown(w)'
    BY <1>0, <2>1, <2>4, RetryTurns DEF Committing, Rebasing
  <2> QED BY <1>0, <2>1, <2>4, <2>5, RetryStep
<1>23. ASSUME NEW w \in Workers, Heartbeat(w) PROVE RetryInv'
  <2>1. worker[w] \in SlotRecord /\ UNCHANGED <<base, retryOf, job>>
    BY <1>23 DEF Heartbeat, TypeOK, SlotsOK, runVars
  <2> DEFINE t == [worker[w] EXCEPT !.lost = ~Owns(w)]
  <2>2. /\ Become(w, t) /\ t.pc = worker[w].pc /\ t.run = worker[w].run
        /\ t.at = worker[w].at /\ t.base = worker[w].base
    BY <1>23, <2>1 DEF Heartbeat, SlotRecord
  <2> HIDE DEF t
  <2>3. \A v \in Workers : Same(v)
    BY <2>2, BecomeSame DEF Same
  <2> QED BY <1>0, <1>a, <2>1, <2>3, RetryIdle
<1> QED
  BY <1>1, <1>2, <1>3, <1>4, <1>5, <1>6, <1>7, <1>8, <1>9, <1>10, <1>11, <1>12,
     <1>13, <1>14, <1>15, <1>16, <1>17, <1>18, <1>19, <1>20, <1>21, <1>22, <1>23
  DEF Next, ApiNext, WorkerNext, Process, Quiet

\* A retry always carries the baseline of its failed source and is never
\* rebased (RetryValidation, Acquire and ReadRun: retry-validation copies
\* baseHeadVersion, a delayed retry is requeued instead of rebased).
THEOREM RetryKeepsBaseline == Spec => []RetryInv
<1>1. Init => TypeOK /\ CommitInv /\ RetryInv
  BY InitTypeOK, CommitInvInit, RetryInit
<1>2. TypeOK /\ CommitInv /\ RetryInv /\ [Next]_vars => (TypeOK /\ CommitInv /\ RetryInv)'
  BY NextTypeOK, CommitInvNext, RetryInvNext
<1> QED BY <1>1, <1>2, PTL DEF Spec

-----------------------------------------------------------------------------
(* Part 3: executions exclude each other *)

Timely == ~LiveStalls /\ ~SlowHeartbeats

\* A busy slot has its job to itself, and past Acquire the branch's lease.
Alone(w) ==
  LET s == worker[w] IN
  /\ s.pc # "idle" => job[s.run].owner = w /\ job[s.run].state = "active"
  /\ HoldsGuard(w) => lease.run = s.run /\ lease.live

ExclusionInv == \A w \in Workers : Alone(w)

-----------------------------------------------------------------------------
(* Frames *)

LEMMA OneSlotPerRun ==
  ASSUME TypeOK, ExclusionInv, NEW v \in Workers, NEW w \in Workers, v # w,
         worker[v].pc # "idle", worker[w].pc # "idle"
  PROVE  worker[v].run # worker[w].run
BY DEF ExclusionInv, Alone

LEMMA OneHolder ==
  ASSUME TypeOK, ExclusionInv, NEW v \in Workers, NEW w \in Workers,
         HoldsGuard(v), HoldsGuard(w)
  PROVE  v = w
BY OneSlotPerRun DEF ExclusionInv, Alone, HoldsGuard

LEMMA AloneFrame ==
  ASSUME TypeOK, ExclusionInv, NEW v \in Workers, Same(v),
         worker[v].pc # "idle" => job'[worker[v].run] = job[worker[v].run],
         HoldsGuard(v) => lease' = lease
  PROVE  Alone(v)'
BY DEF ExclusionInv, Alone, Same, HoldsGuard

\* Slot w goes on with its run: neither job nor lease changes.
LEMMA ExclusionStep ==
  ASSUME TypeOK, ExclusionInv, UNCHANGED <<job, lease>>,
         NEW w \in Workers, worker[w].pc # "idle",
         worker'[w].run = worker[w].run,
         HoldsGuard(w) \/ worker'[w].pc \in {"idle", "load", "acquire"},
         \A v \in Workers \ {w} : Same(v)
  PROVE  ExclusionInv'
<1>1. ASSUME NEW v \in Workers \ {w} PROVE Alone(v)'
  BY <1>1, AloneFrame
<1>2. Alone(w)'
  BY DEF ExclusionInv, Alone, HoldsGuard
<1> QED BY <1>1, <1>2 DEF ExclusionInv

\* Slot w gives its run up.
LEMMA ExclusionEnds ==
  ASSUME TypeOK, ExclusionInv, NEW w \in Workers, worker[w].pc # "idle",
         worker'[w].pc = "idle",
         \A q \in Runs \ {worker[w].run} : job'[q] = job[q],
         \/ UNCHANGED lease
         \/ HoldsGuard(w),
         \A v \in Workers \ {w} : Same(v)
  PROVE  ExclusionInv'
<1>1. ASSUME NEW v \in Workers \ {w} PROVE Alone(v)'
  <2>1. worker[v].pc # "idle" => worker[v].run \in Runs \ {worker[w].run}
    BY OneSlotPerRun DEF TypeOK, SlotsOK
  <2>2. HoldsGuard(v) => lease' = lease
    BY OneHolder
  <2> QED BY <2>1, <2>2, AloneFrame
<1>2. Alone(w)'
  BY DEF Alone, HoldsGuard
<1> QED BY <1>1, <1>2 DEF ExclusionInv

-----------------------------------------------------------------------------
(* ExclusionInv is inductive *)

LEMMA ExclusionInit == Init => ExclusionInv
BY DEF Init, ExclusionInv, Alone, HoldsGuard, Idle

\* The steps that move slot w from place to place in the code.
Moves(w) ==
  \/ Requeue(w) \/ FailOrphan(w) \/ Abort(w) \/ UpdateMirror(w)
  \/ DropCandidate(w) \/ EmitCompleted(w) \/ StoreCandidate(w)
  \/ FailAgentRun(w) \/ FailValidationRetry(w) \/ EmitFailed(w) \/ Rebase(w)
  \/ FindSnapshot(w) \/ CreateRunSnapshot(w) \/ ValidationPassed(w)

\* The steps that also take something along in its local variables.
Learns(w) ==
  \/ RebaseRead(w) \/ ReadRun(w) \/ WorkFails(w) \/ AssertHeld(w)
  \/ CommitOutcome(w) \/ StepThrows(w)

LEMMA MovesGoto ==
  ASSUME NEW w \in Workers, Moves(w)
  PROVE  /\ HoldsGuard(w) /\ UNCHANGED <<job, lease>>
         /\ \E l : l # "idle" /\ Goto(w, l)
<1>1. HoldsGuard(w) /\ UNCHANGED <<job, lease>>
  BY DEF Moves, Requeue, FailOrphan, Abort, UpdateMirror, DropCandidate,
     EmitCompleted, StoreCandidate, FailAgentRun, FailValidationRetry,
     EmitFailed, Rebase, FindSnapshot, CreateRunSnapshot, ValidationPassed,
     HoldsGuard
<1>2. \E l \in Label \ {"idle"} : Goto(w, l)
  BY Labels DEF Moves, Requeue, FailOrphan, Abort, UpdateMirror, DropCandidate,
     EmitCompleted, StoreCandidate, FailAgentRun, FailValidationRetry,
     EmitFailed, Rebase, FindSnapshot, CreateRunSnapshot, ValidationPassed
<1> QED BY <1>1, <1>2

LEMMA LearnsBecome ==
  ASSUME TypeOK, NEW w \in Workers, Learns(w)
  PROVE  /\ HoldsGuard(w) /\ UNCHANGED <<job, lease>>
         /\ \E s : s.run = worker[w].run /\ Become(w, s)
<1>1. "idle" \notin FaultyAt
  BY RunExecutionAssumption
<1>2. HoldsGuard(w) /\ UNCHANGED <<job, lease>>
  BY <1>1 DEF Learns, RebaseRead, ReadRun, WorkFails, AssertHeld, CommitOutcome,
     StepThrows, Unguarded, HoldsGuard
<1>3. worker[w] \in SlotRecord
  BY DEF TypeOK, SlotsOK
<1>4. CASE RebaseRead(w)
  <2>1. Become(w, [worker[w] EXCEPT !.pc = "rebase", !.base = branch.version])
    BY <1>4 DEF RebaseRead
  <2>2. [worker[w] EXCEPT !.pc = "rebase", !.base = branch.version].run = worker[w].run
    BY <1>3 DEF SlotRecord
  <2> QED BY <1>2, <2>1, <2>2
<1>5. CASE ReadRun(w)
  <2>1. PICK l, p, a, n :
          Become(w, [worker[w] EXCEPT !.pc = l, !.path = p, !.at = a, !.base = n])
    BY <1>5 DEF ReadRun
  <2>2. [worker[w] EXCEPT !.pc = l, !.path = p, !.at = a, !.base = n].run = worker[w].run
    BY <1>3 DEF SlotRecord
  <2> QED BY <1>2, <2>1, <2>2
<1>6. CASE WorkFails(w)
  <2>1. PICK l, b : Become(w, [worker[w] EXCEPT !.infra = b, !.pc = l])
    BY <1>6 DEF WorkFails
  <2>2. [worker[w] EXCEPT !.infra = b, !.pc = l].run = worker[w].run
    BY <1>3 DEF SlotRecord
  <2> QED BY <1>2, <2>1, <2>2
<1>7. CASE StepThrows(w)
  <2>1. PICK l, c :
          Become(w, [worker[w] EXCEPT !.pc = l, !.infra = FALSE, !.throws = c])
    BY <1>7 DEF StepThrows
  <2>2. [worker[w] EXCEPT !.pc = l, !.infra = FALSE, !.throws = c].run = worker[w].run
    BY <1>3 DEF SlotRecord
  <2> QED BY <1>2, <2>1, <2>2
<1>8. CASE AssertHeld(w)
  <2>1. PICK l, b : Become(w, [worker[w] EXCEPT !.pc = l, !.lost = b])
    BY <1>8 DEF AssertHeld
  <2>2. [worker[w] EXCEPT !.pc = l, !.lost = b].run = worker[w].run
    BY <1>3 DEF SlotRecord
  <2> QED BY <1>2, <2>1, <2>2
<1>9. CASE CommitOutcome(w)
  <2>1. PICK o : Become(w, [worker[w] EXCEPT !.pc = "settle", !.outcome = o])
    BY <1>9 DEF CommitOutcome
  <2>2. [worker[w] EXCEPT !.pc = "settle", !.outcome = o].run = worker[w].run
    BY <1>3 DEF SlotRecord
  <2> QED BY <1>2, <2>1, <2>2
<1> QED BY <1>2, <1>4, <1>5, <1>6, <1>7, <1>8, <1>9 DEF Learns

LEMMA ExclusionNext ==
  ASSUME Timely, TypeOK, ExclusionInv, [Next]_vars PROVE ExclusionInv'
<1>1. ASSUME NEW r \in Runs,
             \/ CreateRun(r) \/ Cancel(r) \/ CandidateExpires(r)
             \/ \E s \in Runs : RetryValidation(s, r)
      PROVE  ExclusionInv'
  <2>1. UNCHANGED <<job, lease, worker>>
    BY <1>1 DEF CreateRun, Cancel, CandidateExpires, RetryValidation
  <2> QED BY <2>1, AloneFrame DEF Same, ExclusionInv
<1>2. ASSUME RollbackHead \/ RollbackMirror \/ UNCHANGED vars PROVE ExclusionInv'
  <2>1. UNCHANGED <<job, lease, worker>>
    BY <1>2 DEF RollbackHead, RollbackMirror, vars
  <2> QED BY <2>1, AloneFrame DEF Same, ExclusionInv
<1>3. ASSUME NEW r \in Runs, Enqueue(r) \/ Stall(r) PROVE ExclusionInv'
  <2>1. /\ job[r].state = "none" \/ job[r].owner = None
        /\ \A q \in Runs \ {r} : job'[q] = job[q]
        /\ UNCHANGED <<lease, worker>>
    BY <1>3 DEF Enqueue, Stall, Timely, TypeOK
  <2>2. ASSUME NEW v \in Workers, worker[v].pc # "idle" PROVE worker[v].run \in Runs \ {r}
    BY <2>1, <2>2, RunExecutionAssumption DEF ExclusionInv, Alone, TypeOK, SlotsOK
  <2> QED BY <2>1, <2>2, AloneFrame DEF Same, ExclusionInv
<1>4. ASSUME LeaseExpires \/ LeaseReaped PROVE ExclusionInv'
  <2>1. ASSUME NEW v \in Workers PROVE ~HoldsGuard(v)
    BY <1>4 DEF LeaseExpires, LeaseReaped, Timely, ExclusionInv, Alone
  <2>2. UNCHANGED job /\ \A v \in Workers : Same(v)
    BY <1>4, OrphanedSame DEF LeaseExpires, LeaseReaped, Same
  <2> QED BY <2>1, <2>2, AloneFrame DEF ExclusionInv
<1>5. ASSUME NEW w \in Workers, NEW r \in Runs, Deliver(w, r) PROVE ExclusionInv'
  <2>1. /\ job[r].state = "waiting" /\ worker[w].pc = "idle" /\ UNCHANGED lease
        /\ \A q \in Runs \ {r} : job'[q] = job[q]
    BY <1>5 DEF Deliver, TypeOK
  <2>2. job'[r].owner = w /\ job'[r].state = "active"
    BY <1>5 DEF Deliver, TypeOK, JobRecord
  <2> DEFINE t == [Idle EXCEPT !.pc = "load", !.run = r]
  <2>3. Become(w, t) /\ t.pc = "load" /\ t.run = r
    BY <1>5 DEF Deliver, Idle
  <2> HIDE DEF t
  <2>4. worker'[w].pc = "load" /\ worker'[w].run = r /\ \A v \in Workers \ {w} : Same(v)
    BY <2>3, BecomeSame
  <2>5. ASSUME NEW v \in Workers, worker[v].pc # "idle" PROVE worker[v].run \in Runs \ {r}
    BY <2>1, <2>5 DEF ExclusionInv, Alone, TypeOK, SlotsOK
  <2>6. \A v \in Workers \ {w} : Alone(v)'
    BY <2>1, <2>4, <2>5, AloneFrame
  <2>7. Alone(w)'
    BY <2>2, <2>4 DEF Alone, HoldsGuard
  <2> QED BY <2>6, <2>7 DEF ExclusionInv
<1>6. ASSUME NEW w \in Workers, LoadStatus(w) PROVE ExclusionInv'
  <2>1. /\ worker[w] \in SlotRecord /\ worker[w].run \in Runs
        /\ worker[w].pc # "idle" /\ UNCHANGED lease
    BY <1>6 DEF LoadStatus, TypeOK, SlotsOK
  <2>2. CASE status[worker[w].run] \in Terminal
    <3>1. \A q \in Runs \ {worker[w].run} : job'[q] = job[q]
      BY <1>6, <2>1, <2>2, JobAfterFrame DEF LoadStatus
    <3>2. worker'[w].pc = "idle" /\ \A v \in Workers \ {w} : Same(v)
      BY <1>6, <2>2, BecomeSame DEF LoadStatus, Idle
    <3> QED BY <2>1, <3>1, <3>2, ExclusionEnds
  <2>3. CASE status[worker[w].run] \notin Terminal
    <3> DEFINE t == [worker[w] EXCEPT !.pc = "acquire", !.at = status[worker[w].run]]
    <3>1. t.pc = "acquire" /\ t.run = worker[w].run
      BY <2>1 DEF SlotRecord
    <3>2. Become(w, t) /\ UNCHANGED job
      BY <1>6, <2>3 DEF LoadStatus
    <3> HIDE DEF t
    <3> QED BY <2>1, <3>1, <3>2, BecomeSame, ExclusionStep
  <2> QED BY <2>2, <2>3
<1>7. ASSUME NEW w \in Workers, MarkRunWaiting(w) \/ Crash(w) \/ ProcessorThrows(w) PROVE ExclusionInv'
  <2>1. worker[w].run \in Runs /\ worker[w].pc # "idle" /\ UNCHANGED lease
    BY <1>7 DEF MarkRunWaiting, Crash, ProcessorThrows, Unguarded, TypeOK, SlotsOK
  <2>2. \A q \in Runs \ {worker[w].run} : job'[q] = job[q]
    BY <1>7, <2>1, JobAfterFrame DEF MarkRunWaiting, Crash, ProcessorThrows
  <2>3. worker'[w].pc = "idle" /\ \A v \in Workers \ {w} : Same(v)
    BY <1>7, BecomeSame DEF MarkRunWaiting, Crash, ProcessorThrows, Idle
  <2> QED BY <2>1, <2>2, <2>3, ExclusionEnds
<1>8. ASSUME NEW w \in Workers, Release(w) PROVE ExclusionInv'
  <2>1. worker[w].run \in Runs /\ worker[w].pc # "idle" /\ HoldsGuard(w)
    BY <1>8 DEF Release, TypeOK, SlotsOK, HoldsGuard
  <2>2. \A q \in Runs \ {worker[w].run} : job'[q] = job[q]
    BY <1>8, <2>1, JobAfterFrame DEF Release
  <2>3. worker'[w] = Idle
    BY <1>8 DEF Release, TypeOK, SlotsOK, Orphaned
  <2>4. ASSUME NEW v \in Workers \ {w} PROVE Same(v)
    BY <1>8, OrphanedSame DEF Release, Same, TypeOK, SlotsOK
  <2>5. worker'[w].pc = "idle"
    BY <2>3 DEF Idle
  <2> QED BY <2>1, <2>2, <2>4, <2>5, ExclusionEnds
<1>9. ASSUME NEW w \in Workers, Acquire(w) PROVE ExclusionInv'
  <2>1. /\ worker[w] \in SlotRecord /\ worker[w].pc = "acquire" /\ UNCHANGED job
        /\ lease' = [run |-> worker[w].run, live |-> TRUE]
    BY <1>9 DEF Acquire, TypeOK, SlotsOK
  <2>2. PICK l \in {"read", "requeue", "rebaseRead"} :
          Become(w, [worker[w] EXCEPT !.doc = TRUE, !.pc = l])
    BY <1>9 DEF Acquire
  <2> DEFINE t == [worker[w] EXCEPT !.doc = TRUE, !.pc = l]
  <2>3. Become(w, t) /\ t.run = worker[w].run /\ t.pc = l
    BY <2>1, <2>2 DEF SlotRecord
  <2> HIDE DEF t
  <2>4. /\ \A v \in Workers \ {w} : Same(v)
        /\ worker'[w].run = worker[w].run /\ worker'[w].pc = l
    BY <2>3, BecomeSame
  <2>5. ASSUME NEW v \in Workers \ {w} PROVE ~HoldsGuard(v)
    <3>1. SUFFICES ASSUME HoldsGuard(v) PROVE FALSE
      OBVIOUS
    <3>2. lease.run = worker[v].run /\ lease.live /\ worker[v].run \in Runs
      BY <3>1 DEF ExclusionInv, Alone, HoldsGuard, TypeOK, SlotsOK
    <3>3. worker[v].run = worker[w].run
      BY <1>9, <3>2, RunExecutionAssumption DEF Acquire, CanAcquire
    <3> QED BY <2>1, <3>1, <3>3, OneSlotPerRun DEF HoldsGuard
  <2>6. \A v \in Workers \ {w} : Alone(v)'
    BY <2>1, <2>4, <2>5, AloneFrame
  <2>7. Alone(w)'
    BY <2>1, <2>4 DEF Alone, ExclusionInv
  <2> QED BY <2>6, <2>7 DEF ExclusionInv
<1>10. ASSUME NEW w \in Workers, Moves(w) PROVE ExclusionInv'
  <2>1. HoldsGuard(w) /\ UNCHANGED <<job, lease>>
    BY <1>10, MovesGoto
  <2>2. worker'[w].run = worker[w].run /\ \A v \in Workers \ {w} : Same(v)
    BY <1>10, MovesGoto, GotoSame
  <2> QED BY <2>1, <2>2, ExclusionStep DEF HoldsGuard
<1>11. ASSUME NEW w \in Workers, Learns(w) PROVE ExclusionInv'
  <2>1. HoldsGuard(w) /\ UNCHANGED <<job, lease>>
    BY <1>11, LearnsBecome
  <2>2. worker'[w].run = worker[w].run /\ \A v \in Workers \ {w} : Same(v)
    BY <1>11, LearnsBecome, BecomeSame
  <2> QED BY <2>1, <2>2, ExclusionStep DEF HoldsGuard
<1>12. ASSUME NEW w \in Workers, Begin(w) \/ Persist(w) \/ CompleteRun(w)
       PROVE  ExclusionInv'
  <2>1. worker[w].pc \in {"begin", "persist", "settle"} /\ UNCHANGED <<job, lease>>
    BY <1>12 DEF Begin, Persist, CompleteRun
  <2>2. worker'[w].run = worker[w].run /\ \A v \in Workers \ {w} : Same(v)
    BY <1>12, <2>1, GotoSame, transitionSame DEF Begin, Persist, CompleteRun
  <2> QED BY <2>1, <2>2, ExclusionStep DEF HoldsGuard
<1>13. ASSUME NEW w \in Workers, Work(w) PROVE ExclusionInv'
  <2>1. /\ worker[w].pc = "work" /\ worker[w] \in SlotRecord
        /\ UNCHANGED <<job, lease>>
    BY <1>13 DEF Work, TypeOK, SlotsOK
  <2>2. worker'[w].run = worker[w].run /\ \A v \in Workers \ {w} : Same(v)
    <3>1. CASE status[worker[w].run] = worker[w].at
      <4>1. PICK n : Become(w, [worker[w] EXCEPT !.at = NextPhase(w), !.attempt = n])
        BY <1>13, <3>1 DEF Work
      <4> DEFINE t == [worker[w] EXCEPT !.at = NextPhase(w), !.attempt = n]
      <4>2. Become(w, t) /\ t.run = worker[w].run
        BY <2>1, <4>1 DEF SlotRecord
      <4> HIDE DEF t
      <4> QED BY <4>2, BecomeSame
    <3>2. CASE status[worker[w].run] # worker[w].at
      BY <1>13, <2>1, <3>2, transitionSame DEF Work
    <3> QED BY <3>1, <3>2
  <2> QED BY <2>1, <2>2, ExclusionStep DEF HoldsGuard
<1>14. ASSUME NEW w \in Workers, CommitBranchHead(w) PROVE ExclusionInv'
  <2>1. /\ worker[w].pc = "commit" /\ worker[w] \in SlotRecord
        /\ UNCHANGED <<job, lease>>
    BY <1>14 DEF CommitBranchHead, TypeOK, SlotsOK
  <2> DEFINE t == [worker[w] EXCEPT !.pc = "settle", !.outcome = "advanced"]
  <2>2. t.run = worker[w].run
    BY <2>1 DEF SlotRecord
  <2>3. Become(w, t) \/ Goto(w, "commitRead")
    BY <1>14 DEF CommitBranchHead
  <2> HIDE DEF t
  <2>4. worker'[w].run = worker[w].run /\ \A v \in Workers \ {w} : Same(v)
    BY <2>2, <2>3, BecomeSame, GotoSame
  <2> QED BY <2>1, <2>4, ExclusionStep DEF HoldsGuard
<1>15. ASSUME NEW w \in Workers, Heartbeat(w) PROVE ExclusionInv'
  <2>1. /\ worker[w] \in SlotRecord /\ HoldsGuard(w) /\ UNCHANGED job
        /\ lease'.run = lease.run /\ (lease.live => lease'.live)
    BY <1>15 DEF Heartbeat, TypeOK, SlotsOK
  <2> DEFINE t == [worker[w] EXCEPT !.lost = ~Owns(w)]
  <2>2. /\ Become(w, t) /\ t.pc = worker[w].pc /\ t.run = worker[w].run
        /\ t.at = worker[w].at /\ t.base = worker[w].base
    BY <1>15, <2>1 DEF Heartbeat, SlotRecord
  <2> HIDE DEF t
  <2>3. \A v \in Workers : Same(v)
    BY <2>2, BecomeSame DEF Same
  <2> QED BY <2>1, <2>3 DEF ExclusionInv, Alone, Same, HoldsGuard
<1> QED
  BY <1>1, <1>2, <1>3, <1>4, <1>5, <1>6, <1>7, <1>8, <1>9, <1>10, <1>11, <1>12,
     <1>13, <1>14, <1>15
  DEF Next, ApiNext, WorkerNext, Process, Moves, Learns

\* While heartbeats are in time, no two slots run their model or their build
\* on the branch at once (acquireBranchExecution: the unique branchId lets one
\* run in, and BullMQ's lock on the job lets one slot work on that run).
THEOREM ExclusiveWhenTimely ==
  ASSUME Timely PROVE Spec => []ExclusiveExecution
<1>1. Init => TypeOK /\ ExclusionInv
  BY InitTypeOK, ExclusionInit
<1>2. TypeOK /\ ExclusionInv /\ [Next]_vars => (TypeOK /\ ExclusionInv)'
  BY NextTypeOK, ExclusionNext
<1>3. TypeOK /\ ExclusionInv => ExclusiveExecution
  <2> SUFFICES ASSUME TypeOK, ExclusionInv PROVE ExclusiveExecution
    OBVIOUS
  <2>1. ASSUME NEW w \in Workers, Executing(w) PROVE HoldsGuard(w)
    BY <2>1 DEF Executing, HoldsGuard
  <2> QED BY <2>1, OneHolder DEF ExclusiveExecution
<1> QED BY <1>1, <1>2, <1>3, PTL DEF Spec

-----------------------------------------------------------------------------
(* Part 4: events and baselines *)

\* A job is worked on by one slot at a time.
OwnsJob(w) ==
  LET s == worker[w] IN
  s.pc # "idle" => job[s.run].owner = w /\ job[s.run].state = "active"

JobInv == \A w \in Workers : OwnsJob(w)

Done == {"completed", "completed_with_conflict"}

\* Steps from which the catch block of processAgentRun may be reached.
Generating == {"begin", "work", "assertHeld", "persist", "snapshot", "commit",
               "commitRead", "settle", "storeCandidate", "fail"}

\* What a slot that executes a generation knows of its status and its path.
Reports(w) ==
  LET s == worker[w] IN
  s.pc # "idle" /\ ~isRetry(s.run) =>
    /\ s.pc = "emitCompleted" => status[s.run] \in Done
    /\ s.pc = "mirror" => status[s.run] = "completed"
    /\ s.pc = "emitFailed" => status[s.run] = "failed"
    /\ s.pc \in Generating /\ s.path = "generate" =>
         status[s.run] # "completed_with_conflict"
    /\ s.pc \in {"findSnapshot", "orphan"} => s.path = "recover"
    /\ s.pc \in Generating \cup {"mirror", "emitCompleted"} => s.path # "retry"
    /\ s.pc # "dropCandidate"

EventInv == GenerationEventsAgree /\ \A w \in Workers : Reports(w)

-----------------------------------------------------------------------------
(* Frames *)

\* Slot v goes on with the same run on the same path from the same baseline.
Like(s, t) == s.run = t.run /\ s.path = t.path /\ s.base = t.base
Goes(v) == Like(worker'[v], worker[v])
Stays(v) == Goes(v) /\ worker'[v].pc = worker[v].pc

LEMMA BecomeStays ==
  ASSUME TypeOK, NEW w \in Workers, NEW s, Become(w, s)
  PROVE  worker'[w] = s /\ \A v \in Workers \ {w} : Stays(v)
BY DEF TypeOK, SlotsOK, Become, Stays, Goes, Like

LEMMA GotoStays ==
  ASSUME TypeOK, NEW w \in Workers, NEW l, Goto(w, l)
  PROVE  /\ worker'[w].pc = l /\ Goes(w)
         /\ \A v \in Workers \ {w} : Stays(v)
<1>1. worker[w] \in SlotRecord
  BY DEF TypeOK, SlotsOK
<1>2. LET s == [worker[w] EXCEPT !.pc = l]
      IN  s.pc = l /\ Like(s, worker[w])
  BY <1>1 DEF SlotRecord, Like
<1> QED BY <1>2, BecomeStays DEF Goto, Goes

LEMMA OrphanedStays ==
  ASSUME TypeOK, NEW v \in Workers
  PROVE  Orphaned[v].pc = worker[v].pc /\ Like(Orphaned[v], worker[v])
BY DEF TypeOK, SlotsOK, SlotRecord, Orphaned, Like

\* transitionRun moves on with the run in its new status, or it leaves the
\* status as it is and goes where the caller catches its error.
LEMMA transitionStays ==
  ASSUME TypeOK, NEW w \in Workers, worker[w].pc # "idle", NEW from, NEW to,
         NEW next, NEW caught, transitionRun(w, from, to, next, caught)
  PROVE  /\ Goes(w)
         /\ \/ /\ worker'[w].pc = next /\ status[worker[w].run] = from
               /\ status'[worker[w].run] = to
            \/ worker'[w].pc \in {"release", caught} /\ UNCHANGED status
         /\ \A q \in Runs \ {worker[w].run} : status'[q] = status[q]
         /\ \A v \in Workers \ {w} : Stays(v)
<1>1. worker[w] \in SlotRecord /\ worker[w].run \in Runs
  BY DEF TypeOK, SlotsOK
<1>2. CASE status[worker[w].run] = from
  <2> DEFINE t == [worker[w] EXCEPT !.pc = next, !.at = to]
  <2>1. Like(t, worker[w]) /\ t.pc = next
    BY <1>1 DEF SlotRecord, Like
  <2>2. Become(w, t) /\ status' = [status EXCEPT ![worker[w].run] = to]
    BY <1>2 DEF transitionRun
  <2>3. /\ status'[worker[w].run] = to
        /\ \A q \in Runs \ {worker[w].run} : status'[q] = status[q]
    BY <1>1, <2>2 DEF TypeOK
  <2> HIDE DEF t
  <2> QED BY <1>2, <2>1, <2>2, <2>3, BecomeStays DEF Goes
<1>3. CASE status[worker[w].run] # from
  <2> DEFINE l == IF status[worker[w].run] = "cancelled" THEN "release" ELSE caught
             t == [worker[w] EXCEPT !.pc = l, !.throws = caught = "release"]
  <2>1. Like(t, worker[w]) /\ t.pc = l
    BY <1>1 DEF SlotRecord, Like
  <2>2. Become(w, t) /\ UNCHANGED status
    BY <1>3 DEF transitionRun
  <2>3. l \in {"release", caught}
    OBVIOUS
  <2> HIDE DEF t, l
  <2> QED BY <2>1, <2>2, <2>3, BecomeStays DEF Goes
<1> QED BY <1>2, <1>3

-----------------------------------------------------------------------------
(* JobInv is inductive *)

LEMMA JobInvInit == Init => JobInv
BY DEF Init, JobInv, OwnsJob, Idle

LEMMA OneSlotPerJob ==
  ASSUME JobInv, NEW v \in Workers, NEW w \in Workers, v # w,
         worker[v].pc # "idle", worker[w].pc # "idle"
  PROVE  worker[v].run # worker[w].run
BY DEF JobInv, OwnsJob

\* Slot w ends its job, and the others are not concerned.
LEMMA JobEnds ==
  ASSUME TypeOK, JobInv, NEW w \in Workers, worker[w].pc # "idle",
         worker'[w].pc = "idle", NEW j, JobAfter(w, worker[w].run, j),
         \A v \in Workers \ {w} : Stays(v)
  PROVE  JobInv'
<1>1. worker[w].run \in Runs
  BY DEF TypeOK, SlotsOK
<1>2. \A q \in Runs \ {worker[w].run} : job'[q] = job[q]
  BY <1>1, JobAfterFrame
<1>3. ASSUME NEW v \in Workers \ {w} PROVE OwnsJob(v)'
  <2>1. worker[v].pc # "idle" => worker[v].run \in Runs \ {worker[w].run}
    BY OneSlotPerJob DEF TypeOK, SlotsOK
  <2> QED BY <1>2, <2>1 DEF JobInv, OwnsJob, Stays, Goes, Like
<1>4. OwnsJob(w)'
  BY DEF OwnsJob
<1> QED BY <1>3, <1>4 DEF JobInv

\* The steps of a slot that move on with its run and its path.
Steps(w) ==
  \/ Requeue(w) \/ FailOrphan(w) \/ Abort(w) \/ UpdateMirror(w)
  \/ DropCandidate(w) \/ EmitCompleted(w) \/ StoreCandidate(w)
  \/ FailAgentRun(w) \/ FailValidationRetry(w) \/ EmitFailed(w) \/ Rebase(w)
  \/ FindSnapshot(w) \/ CreateRunSnapshot(w) \/ ValidationPassed(w)

LEMMA StepsStays ==
  ASSUME TypeOK, NEW w \in Workers, Steps(w)
  PROVE  /\ worker[w].pc # "idle" /\ UNCHANGED <<job, retryOf>>
         /\ Goes(w)
         /\ \A v \in Workers \ {w} : Stays(v)
<1>1. worker[w].pc # "idle" /\ UNCHANGED <<job, retryOf>>
  BY DEF Steps, Requeue, FailOrphan, Abort, UpdateMirror, DropCandidate,
     EmitCompleted, StoreCandidate, FailAgentRun, FailValidationRetry,
     EmitFailed, Rebase, FindSnapshot, CreateRunSnapshot, ValidationPassed, runVars
<1>2. \E l : Goto(w, l)
  BY DEF Steps, Requeue, FailOrphan, Abort, UpdateMirror, DropCandidate,
     EmitCompleted, StoreCandidate, FailAgentRun, FailValidationRetry,
     EmitFailed, Rebase, FindSnapshot, CreateRunSnapshot, ValidationPassed
<1> QED BY <1>1, <1>2, GotoStays

\* The steps that also keep what they read or found.
Keeps(w) ==
  \/ WorkFails(w) \/ AssertHeld(w) \/ CommitOutcome(w)
  \/ CommitBranchHead(w) \/ StepThrows(w) \/ Heartbeat(w) \/ Acquire(w)

\* What was not on the way to the commit does not get there.
Retreats(s, t) == s.pc \in Committing => t.pc \in Committing

LEMMA KeepsStays ==
  ASSUME TypeOK, NEW w \in Workers, Keeps(w)
  PROVE  /\ worker[w].pc # "idle"
         /\ UNCHANGED <<job, base, retryOf, status, completedEvent, failedEvent>>
         /\ Goes(w) /\ Retreats(worker'[w], worker[w])
         /\ \A v \in Workers \ {w} : Stays(v)
<1>1. worker[w] \in SlotRecord /\ "idle" \notin FaultyAt
  BY RunExecutionAssumption DEF TypeOK, SlotsOK
<1>2. /\ worker[w].pc # "idle"
      /\ UNCHANGED <<job, base, retryOf, status, completedEvent, failedEvent>>
  BY <1>1 DEF Keeps, WorkFails, AssertHeld, CommitOutcome, HoldsGuard,
     CommitBranchHead, StepThrows, Heartbeat, Acquire, runVars, eventVars
<1>3. SUFFICES \E t : Become(w, t) /\ Like(t, worker[w]) /\ Retreats(t, worker[w])
  BY <1>2, BecomeStays DEF Goes
<1> USE DEF Like, Retreats, Committing
<1>4. CASE WorkFails(w)
  <2>1. PICK l \in {"storeCandidate", "fail"} : \E i : Become(w, [worker[w] EXCEPT !.infra = i, !.pc = l])
    BY <1>4 DEF WorkFails
  <2>2. PICK i : Become(w, [worker[w] EXCEPT !.infra = i, !.pc = l])
    BY <2>1
  <2>3. LET u == [worker[w] EXCEPT !.infra = i, !.pc = l]
        IN  Like(u, worker[w]) /\ Retreats(u, worker[w])
    BY <1>1 DEF SlotRecord
  <2> QED BY <2>2, <2>3
<1>5. CASE AssertHeld(w)
  <2>1. PICK l \in {"persist", "fail"} : \E i : Become(w, [worker[w] EXCEPT !.pc = l, !.lost = i])
    BY <1>5 DEF AssertHeld
  <2>2. PICK i : Become(w, [worker[w] EXCEPT !.pc = l, !.lost = i])
    BY <2>1
  <2>3. LET u == [worker[w] EXCEPT !.pc = l, !.lost = i]
        IN  Like(u, worker[w]) /\ Retreats(u, worker[w])
    BY <1>1, <1>5 DEF SlotRecord, AssertHeld
  <2> QED BY <2>2, <2>3
<1>6. CASE CommitOutcome(w)
  <2>1. PICK o : Become(w, [worker[w] EXCEPT !.pc = "settle", !.outcome = o])
    BY <1>6 DEF CommitOutcome
  <2>2. LET u == [worker[w] EXCEPT !.pc = "settle", !.outcome = o]
        IN  Like(u, worker[w]) /\ Retreats(u, worker[w])
    BY <1>1 DEF SlotRecord
  <2> QED BY <2>1, <2>2
<1>7. CASE CommitBranchHead(w)
  <2> DEFINE u == [worker[w] EXCEPT !.pc = "settle", !.outcome = "advanced"]
             v == [worker[w] EXCEPT !.pc = "commitRead"]
  <2>1. Become(w, u) \/ Become(w, v)
    BY <1>7 DEF CommitBranchHead, Goto
  <2>2. /\ Like(u, worker[w]) /\ Retreats(u, worker[w])
        /\ Like(v, worker[w]) /\ Retreats(v, worker[w])
    BY <1>1 DEF SlotRecord
  <2> QED BY <2>1, <2>2
<1>8. CASE StepThrows(w)
  <2>1. PICK l \in {"release", "fail"} : \E t : Become(w, [worker[w] EXCEPT !.pc = l, !.infra = FALSE, !.throws = t])
    BY <1>8 DEF StepThrows
  <2>2. PICK t : Become(w, [worker[w] EXCEPT !.pc = l, !.infra = FALSE, !.throws = t])
    BY <2>1
  <2>3. LET u == [worker[w] EXCEPT !.pc = l, !.infra = FALSE, !.throws = t]
        IN  Like(u, worker[w]) /\ Retreats(u, worker[w])
    BY <1>1 DEF SlotRecord
  <2> QED BY <2>2, <2>3
<1>9. CASE Heartbeat(w)
  <2>1. PICK i : Become(w, [worker[w] EXCEPT !.lost = i])
    BY <1>9 DEF Heartbeat
  <2>2. LET u == [worker[w] EXCEPT !.lost = i]
        IN  Like(u, worker[w]) /\ Retreats(u, worker[w])
    BY <1>1 DEF SlotRecord
  <2> QED BY <2>1, <2>2
<1>10. CASE Acquire(w)
  <2>1. PICK l \in {"read", "requeue", "rebaseRead"} :
          Become(w, [worker[w] EXCEPT !.doc = TRUE, !.pc = l])
    BY <1>10 DEF Acquire
  <2>2. LET u == [worker[w] EXCEPT !.doc = TRUE, !.pc = l]
        IN  Like(u, worker[w]) /\ Retreats(u, worker[w])
    BY <1>1 DEF SlotRecord
  <2> QED BY <2>1, <2>2
<1> QED
  BY <1>4, <1>5, <1>6, <1>7, <1>8, <1>9, <1>10 DEF Keeps

LEMMA RebaseReadStays ==
  ASSUME TypeOK, NEW w \in Workers, RebaseRead(w)
  PROVE  /\ worker[w].pc # "idle" /\ worker'[w].pc = "rebase"
         /\ UNCHANGED <<job, base, retryOf, status, completedEvent, failedEvent>>
         /\ worker'[w].run = worker[w].run
         /\ \A v \in Workers \ {w} : Stays(v)
<1> DEFINE t == [worker[w] EXCEPT !.pc = "rebase", !.base = branch.version]
<1>1. /\ worker[w] \in SlotRecord /\ worker[w].pc # "idle" /\ Become(w, t)
      /\ UNCHANGED <<job, base, retryOf, status, completedEvent, failedEvent>>
  BY DEF RebaseRead, TypeOK, SlotsOK, runVars, eventVars
<1>2. t.pc = "rebase" /\ t.run = worker[w].run
  BY <1>1 DEF SlotRecord
<1> HIDE DEF t
<1> QED BY <1>1, <1>2, BecomeStays

\* Work is a transition to the next phase.
LEMMA WorkStays ==
  ASSUME TypeOK, NEW w \in Workers, Work(w)
  PROVE  LET r == worker[w].run IN
         /\ worker[w].pc = "work" /\ r \in Runs
         /\ UNCHANGED <<job, base, retryOf, completedEvent, failedEvent>>
         /\ Goes(w)
         /\ \/ /\ worker'[w].pc = "work" /\ status'[r] = NextPhase(w)
               /\ status[r] = worker[w].at
            \/ worker'[w].pc \in {"release", "fail"} /\ UNCHANGED status
         /\ \A q \in Runs \ {r} : status'[q] = status[q]
         /\ \A v \in Workers \ {w} : Stays(v)
<1> DEFINE r == worker[w].run
<1>1. /\ worker[w] \in SlotRecord /\ worker[w].pc = "work" /\ r \in Runs
      /\ UNCHANGED <<job, base, retryOf, completedEvent, failedEvent>>
  BY DEF Work, TypeOK, SlotsOK, eventVars
<1>2. CASE status[r] = worker[w].at
  <2>1. PICK n : /\ Become(w, [worker[w] EXCEPT !.at = NextPhase(w), !.attempt = n])
                 /\ status' = [status EXCEPT ![r] = NextPhase(w)]
    BY <1>2 DEF Work
  <2> DEFINE t == [worker[w] EXCEPT !.at = NextPhase(w), !.attempt = n]
  <2>2. Like(t, worker[w]) /\ t.pc = "work"
    BY <1>1 DEF SlotRecord, Like
  <2>3. Become(w, t)
    BY <2>1
  <2>4. /\ status'[r] = NextPhase(w)
        /\ \A q \in Runs \ {r} : status'[q] = status[q]
    BY <1>1, <2>1 DEF TypeOK
  <2> HIDE DEF t
  <2> QED BY <1>1, <1>2, <2>2, <2>3, <2>4, BecomeStays DEF Goes
<1>3. CASE status[r] # worker[w].at
  <2>1. transitionRun(w, worker[w].at, NextPhase(w), "work", "fail")
    BY <1>3 DEF Work
  <2> QED BY <1>1, <1>3, <2>1, transitionStays
<1> QED BY <1>2, <1>3

\* A generation is either executed or recovered, by its status.
LEMMA ReadRunStays ==
  ASSUME TypeOK, NEW w \in Workers, ReadRun(w)
  PROVE  LET r == worker[w].run IN
         /\ worker[w].pc # "idle"
         /\ UNCHANGED <<job, base, retryOf, status, completedEvent, failedEvent>>
         /\ worker'[w].run = r /\ worker'[w].base = base[r]
         /\ \A v \in Workers \ {w} : Stays(v)
         /\ ~isRetry(r) =>
              \/ worker'[w].pc = "release"
              \/ /\ worker'[w].pc = "begin" /\ worker'[w].path = "generate"
                 /\ status[r] # "completed_with_conflict"
              \/ worker'[w].pc = "findSnapshot" /\ worker'[w].path = "recover"
              \/ /\ worker'[w].pc = "emitCompleted" /\ worker'[w].path = "recover"
                 /\ status[r] \in Done
<1> DEFINE r == worker[w].run
<1>1. /\ worker[w] \in SlotRecord /\ worker[w].pc # "idle"
      /\ UNCHANGED <<job, base, retryOf, status, completedEvent, failedEvent>>
  BY DEF ReadRun, TypeOK, SlotsOK, runVars, eventVars
<1>2. PICK l, p :
        /\ Become(w, [worker[w] EXCEPT !.pc = l, !.path = p, !.at = status[r],
                                       !.base = baseline(r)])
        /\ ~isRetry(r) =>
             \/ l = "release"
             \/ l = "begin" /\ p = "generate" /\ status[r] # "completed_with_conflict"
             \/ l = "findSnapshot" /\ p = "recover"
             \/ l = "emitCompleted" /\ p = "recover" /\ status[r] \in Done
  BY DEF ReadRun, Done
<1> DEFINE t == [worker[w] EXCEPT !.pc = l, !.path = p, !.at = status[r],
                                  !.base = baseline(r)]
<1>3. t.run = r /\ t.pc = l /\ t.path = p /\ t.base = base[r]
  BY <1>1 DEF SlotRecord, baseline
<1>4. Become(w, t)
  BY <1>2
<1> HIDE DEF t
<1> QED BY <1>1, <1>2, <1>3, <1>4, BecomeStays

\* The steps that try a transition.
Transits(w) == Begin(w) \/ Persist(w) \/ CompleteRun(w)

LEMMA TransitsStays ==
  ASSUME TypeOK, NEW w \in Workers, Transits(w)
  PROVE  /\ worker[w].pc # "idle"
         /\ UNCHANGED <<job, retryOf, completedEvent, failedEvent>>
         /\ Goes(w)
         /\ \A q \in Runs \ {worker[w].run} : status'[q] = status[q]
         /\ \A v \in Workers \ {w} : Stays(v)
<1>1. /\ worker[w].pc # "idle"
      /\ UNCHANGED <<job, retryOf, completedEvent, failedEvent>>
  BY DEF Transits, Begin, Persist, CompleteRun, eventVars
<1>2. CASE Goto(w, "fail") /\ UNCHANGED status
  BY <1>1, <1>2, GotoStays
<1>3. CASE \E from, to, next, caught : transitionRun(w, from, to, next, caught)
  BY <1>1, <1>3, transitionStays
<1> QED BY <1>2, <1>3 DEF Transits, Begin, Persist, CompleteRun

\* The steps that take or give up a run.
LEMMA EndsStays ==
  ASSUME TypeOK, NEW w \in Workers,
         LoadStatus(w) \/ Crash(w) \/ ProcessorThrows(w) \/ Release(w)
  PROVE  /\ UNCHANGED <<status, base, retryOf, completedEvent, failedEvent>>
         /\ worker'[w].pc \in {"idle", "acquire"}
         /\ \A v \in Workers \ {w} : Stays(v)
<1>1. UNCHANGED <<status, base, retryOf, completedEvent, failedEvent>>
  BY DEF LoadStatus, Crash, ProcessorThrows, Release, runVars, eventVars
<1>2. worker[w] \in SlotRecord
  BY DEF TypeOK, SlotsOK
<1>3. Idle.pc = "idle"
  BY DEF Idle
<1>4. CASE Crash(w) \/ ProcessorThrows(w)
  BY <1>1, <1>3, <1>4, BecomeStays DEF Crash, ProcessorThrows
<1>5. CASE LoadStatus(w)
  <2>1. [worker[w] EXCEPT !.pc = "acquire", !.at = status[worker[w].run]].pc = "acquire"
    BY <1>2 DEF SlotRecord
  <2> QED BY <1>1, <1>3, <1>5, <2>1, BecomeStays DEF LoadStatus
<1>6. CASE Release(w)
  <2>1. worker'[w] = Idle
    BY <1>6 DEF Release, TypeOK, SlotsOK, Orphaned
  <2>2. ASSUME NEW v \in Workers \ {w} PROVE Stays(v)
    BY <1>6, OrphanedStays DEF Release, Stays, Goes, Like, TypeOK, SlotsOK
  <2> QED BY <1>1, <1>3, <2>1, <2>2
<1> QED BY <1>4, <1>5, <1>6

LEMMA DeliverStays ==
  ASSUME TypeOK, NEW w \in Workers, NEW r \in Runs, Deliver(w, r)
  PROVE  /\ UNCHANGED <<status, base, retryOf, completedEvent, failedEvent>>
         /\ worker'[w].pc = "load" /\ worker'[w].run = r
         /\ \A v \in Workers \ {w} : Stays(v)
<1> DEFINE t == [Idle EXCEPT !.pc = "load", !.run = r]
<1>1. /\ UNCHANGED <<status, base, retryOf, completedEvent, failedEvent>>
      /\ Become(w, t) /\ t.pc = "load" /\ t.run = r
  BY DEF Deliver, runVars, eventVars, Idle
<1> HIDE DEF t
<1> QED BY <1>1, BecomeStays

\* Slots that go on with their run keep their jobs.
LEMMA JobInvKept ==
  ASSUME JobInv, UNCHANGED job,
         \A v \in Workers : /\ worker'[v].run = worker[v].run
                            /\ worker'[v].pc # "idle" => worker[v].pc # "idle"
  PROVE  JobInv'
BY DEF JobInv, OwnsJob

\* BullMQ lets no slot have a job that another one is alive with.
LEMMA JobInvNext == TypeOK /\ JobInv /\ ~LiveStalls /\ [Next]_vars => JobInv'
<1> SUFFICES ASSUME TypeOK, JobInv, ~LiveStalls, [Next]_vars PROVE JobInv'
  OBVIOUS
<1>0. \A w \in Workers : worker[w].pc # "idle" => worker[w].run \in Runs
  BY DEF TypeOK, SlotsOK
<1>1. ASSUME NEW r \in Runs,
             CreateRun(r) \/ Cancel(r) \/ CandidateExpires(r)
      PROVE  JobInv'
  BY <1>1, JobInvKept DEF CreateRun, Cancel, CandidateExpires
<1>2. ASSUME NEW s \in Runs, NEW r \in Runs, RetryValidation(s, r) PROVE JobInv'
  BY <1>2, JobInvKept DEF RetryValidation
<1>3. ASSUME RollbackHead \/ RollbackMirror \/ LeaseExpires \/ UNCHANGED vars PROVE JobInv'
  BY <1>3, JobInvKept DEF RollbackHead, RollbackMirror, LeaseExpires, vars
<1>4. ASSUME LeaseReaped PROVE JobInv'
  BY <1>4, JobInvKept, OrphanedStays DEF LeaseReaped, Goes, Like
<1>5. ASSUME NEW r \in Runs, Enqueue(r) \/ Stall(r) PROVE JobInv'
  <2>1. /\ UNCHANGED worker /\ \A q \in Runs \ {r} : job'[q] = job[q]
        /\ job[r].state # "active" \/ job[r].owner = None
    BY <1>5 DEF Enqueue, Stall, TypeOK
  <2>2. None \notin Workers
    BY RunExecutionAssumption
  <2> QED BY <1>0, <2>1, <2>2 DEF JobInv, OwnsJob
<1>6. ASSUME NEW w \in Workers, NEW r \in Runs, Deliver(w, r) PROVE JobInv'
  <2>1. /\ job[r].state = "waiting" /\ job[r] \in JobRecord
        /\ job' = [job EXCEPT ![r] = [job[r] EXCEPT !.state = "active", !.owner = w]]
    BY <1>6 DEF Deliver, TypeOK
  <2>2. /\ job'[r].owner = w /\ job'[r].state = "active"
        /\ \A q \in Runs \ {r} : job'[q] = job[q]
    BY <2>1 DEF TypeOK, JobRecord
  <2>3. worker'[w].run = r /\ \A v \in Workers \ {w} : Stays(v)
    BY <1>6, DeliverStays
  <2>4. ASSUME NEW v \in Workers \ {w} PROVE OwnsJob(v)'
    BY <1>0, <2>1, <2>2, <2>3 DEF JobInv, OwnsJob, Stays, Goes, Like
  <2> QED BY <2>2, <2>3, <2>4 DEF JobInv, OwnsJob
<1>7. ASSUME NEW w \in Workers, MarkRunWaiting(w) \/ Crash(w) \/ ProcessorThrows(w) PROVE JobInv'
  <2>1. PICK j : JobAfter(w, worker[w].run, j)
    BY <1>7 DEF MarkRunWaiting, Crash, ProcessorThrows
  <2>2. worker[w].pc # "idle" /\ worker'[w].pc = "idle" /\ \A v \in Workers \ {w} : Stays(v)
    BY <1>7, BecomeStays DEF MarkRunWaiting, Crash, ProcessorThrows, Unguarded, Idle
  <2> QED BY <2>1, <2>2, JobEnds
<1>8. ASSUME NEW w \in Workers, Release(w) PROVE JobInv'
  <2>1. worker[w].pc # "idle" /\ \E j : JobAfter(w, worker[w].run, j)
    BY <1>8 DEF Release
  <2>2. worker'[w].pc = "idle"
    BY <1>8 DEF Release, TypeOK, SlotsOK, Orphaned, Idle
  <2> QED BY <1>8, <2>1, <2>2, EndsStays, JobEnds
<1>9. ASSUME NEW w \in Workers, LoadStatus(w) PROVE JobInv'
  <2> DEFINE t == [worker[w] EXCEPT !.pc = "acquire", !.at = status[worker[w].run]]
  <2>1. /\ worker[w].pc # "idle" /\ worker[w] \in SlotRecord
        /\ \/ Become(w, Idle) /\ \E j : JobAfter(w, worker[w].run, j)
           \/ Become(w, t) /\ UNCHANGED job
    BY <1>9 DEF LoadStatus, TypeOK, SlotsOK
  <2>2. t.run = worker[w].run
    BY <2>1 DEF SlotRecord
  <2> HIDE DEF t
  <2>3. CASE Become(w, Idle) /\ \E j : JobAfter(w, worker[w].run, j)
    BY <2>1, <2>3, BecomeStays, JobEnds DEF Idle
  <2>4. CASE Become(w, t) /\ UNCHANGED job
    BY <2>1, <2>2, <2>4, BecomeStays, JobInvKept DEF Stays, Goes, Like
  <2> QED BY <2>1, <2>3, <2>4
<1>10. ASSUME NEW w \in Workers, Steps(w) PROVE JobInv'
  BY <1>10, StepsStays, JobInvKept DEF Stays, Goes, Like
<1>11. ASSUME NEW w \in Workers, Keeps(w) PROVE JobInv'
  BY <1>11, KeepsStays, JobInvKept DEF Stays, Goes, Like
<1>12. ASSUME NEW w \in Workers, Transits(w) PROVE JobInv'
  BY <1>12, TransitsStays, JobInvKept DEF Stays, Goes, Like
<1>13. ASSUME NEW w \in Workers, Work(w) PROVE JobInv'
  BY <1>13, WorkStays, JobInvKept DEF Stays, Goes, Like
<1>14. ASSUME NEW w \in Workers, ReadRun(w) \/ RebaseRead(w) PROVE JobInv'
  BY <1>14, ReadRunStays, RebaseReadStays, JobInvKept DEF Stays, Goes, Like
<1> QED
  BY <1>1, <1>2, <1>3, <1>4, <1>5, <1>6, <1>7, <1>8, <1>9, <1>10, <1>11, <1>12,
     <1>13, <1>14
  DEF Next, ApiNext, WorkerNext, Process, Steps, Keeps, Transits

-----------------------------------------------------------------------------
(* EventInv is inductive *)

Final == Done \cup {"failed"}

LEMMA EventInvInit == Init => EventInv
BY DEF Init, EventInv, GenerationEventsAgree, EventsAgree, Reports, Idle

\* No status, no event, no kinship changes.
LEMMA EventStill ==
  ASSUME EventInv, UNCHANGED <<status, retryOf, completedEvent, failedEvent>>,
         \A v \in Workers : Stays(v) \/ Reports(v)'
  PROVE  EventInv'
<1>1. GenerationEventsAgree'
  BY DEF EventInv, GenerationEventsAgree, EventsAgree, isRetry
<1>2. ASSUME NEW v \in Workers, Stays(v) PROVE Reports(v)'
  BY <1>2 DEF EventInv, Reports, Stays, Goes, Like, isRetry
<1> QED BY <1>1, <1>2 DEF EventInv

\* A run is created, cancelled, or becomes a retry: no slot moves.
LEMMA EventApi ==
  ASSUME TypeOK, EventInv, UNCHANGED <<worker, completedEvent, failedEvent>>,
         NEW r \in Runs, status[r] \notin Final,
         status'[r] # "completed_with_conflict",
         UNCHANGED retryOf \/ isRetry(r)',
         \A q \in Runs \ {r} : status'[q] = status[q] /\ retryOf'[q] = retryOf[q]
  PROVE  EventInv'
<1>1. ASSUME NEW q \in Runs, ~isRetry(q)' PROVE EventsAgree(q)'
  <2>1. ~isRetry(q) /\ EventsAgree(q)
    BY <1>1 DEF EventInv, GenerationEventsAgree, isRetry
  <2> QED BY <2>1 DEF EventsAgree, Final, Done
<1>2. ASSUME NEW v \in Workers PROVE Reports(v)'
  <2>1. Reports(v) /\ (worker[v].pc # "idle" => worker[v].run \in Runs)
    BY DEF EventInv, TypeOK, SlotsOK
  <2>2. CASE worker[v].run = r
    BY <2>1, <2>2 DEF Reports, isRetry, Final, Done, Generating
  <2>3. CASE worker[v].run # r
    BY <2>1, <2>3 DEF Reports, isRetry
  <2> QED BY <2>2, <2>3
<1> QED BY <1>1, <1>2 DEF EventInv, GenerationEventsAgree

\* Slot w changes the status of its run, or its events.
LEMMA EventStep ==
  ASSUME TypeOK, JobInv, EventInv, UNCHANGED retryOf,
         NEW w \in Workers, worker[w].pc # "idle",
         NEW r \in Runs, r = worker[w].run,
         \A v \in Workers \ {w} : Stays(v), Reports(w)',
         \A q \in Runs \ {r} : status'[q] = status[q],
         \A q \in Runs \ {r} : q \in completedEvent' => q \in completedEvent,
         \A q \in Runs \ {r} : q \in failedEvent' => q \in failedEvent,
         ~isRetry(r) => EventsAgree(r)'
  PROVE  EventInv'
<1>1. ASSUME NEW q \in Runs, ~isRetry(q)' PROVE EventsAgree(q)'
  <2>1. ~isRetry(q) /\ EventsAgree(q)
    BY <1>1 DEF EventInv, GenerationEventsAgree, isRetry
  <2>2. CASE q # r
    BY <2>1, <2>2 DEF EventsAgree
  <2> QED BY <2>1, <2>2
<1>2. ASSUME NEW v \in Workers \ {w} PROVE Reports(v)'
  <2>1. Reports(v) /\ (worker[v].pc # "idle" => worker[v].run \in Runs \ {r})
    BY OneSlotPerJob DEF EventInv, TypeOK, SlotsOK
  <2> QED BY <2>1 DEF Reports, Stays, Goes, Like, isRetry
<1> QED BY <1>1, <1>2 DEF EventInv, GenerationEventsAgree

\* A run that is not final yet may take any status: it has no events.
LEMMA StatusAgrees ==
  ASSUME EventInv, UNCHANGED <<completedEvent, failedEvent>>,
         NEW r \in Runs, ~isRetry(r),
         status'[r] = status[r] \/ status[r] \notin Final
  PROVE  EventsAgree(r)'
BY DEF EventInv, GenerationEventsAgree, EventsAgree, Final, Done

\* Steps that lead nowhere near an event.
Apart == Label \ (Generating \cup {"findSnapshot", "orphan", "mirror",
                                   "dropCandidate", "emitCompleted", "emitFailed"})

LEMMA EventApart ==
  ASSUME TypeOK, JobInv, EventInv,
         UNCHANGED <<retryOf, completedEvent, failedEvent>>,
         NEW w \in Workers, worker[w].pc # "idle",
         \A v \in Workers \ {w} : Stays(v), worker'[w].pc \in Apart,
         NEW s, s # status[worker[w].run] => status[worker[w].run] \notin Final,
         status' = [status EXCEPT ![worker[w].run] = s]
  PROVE  EventInv'
<1>1. PICK r \in Runs : r = worker[w].run
  BY DEF TypeOK, SlotsOK
<1>2. status'[r] = s /\ \A q \in Runs \ {r} : status'[q] = status[q]
  BY <1>1 DEF TypeOK
<1>3. Reports(w)'
  BY DEF Reports, Apart, Generating
<1>4. ~isRetry(r) => EventsAgree(r)'
  BY <1>1, <1>2, StatusAgrees
<1> QED BY <1>1, <1>2, <1>3, <1>4, EventStep

LEMMA FinalSets ==
  /\ Apart = {"idle", "load", "acquire", "rebaseRead", "rebase", "requeue",
              "read", "release"}
  /\ Cancellable \cap Final = {}
  /\ Final = {"completed", "completed_with_conflict", "failed"}
BY DEF Apart, Label, Generating, Cancellable, Working, Final, Done

\* A slot that only moves, within the generation or out of it.
LEMMA EventMoves ==
  ASSUME EventInv, UNCHANGED <<status, retryOf, completedEvent, failedEvent>>,
         NEW w \in Workers, \A v \in Workers \ {w} : Stays(v),
         Goes(w),
         \/ worker'[w].pc \in Apart
         \/ worker[w].pc \in Generating /\ worker'[w].pc \in Generating
         \/ worker[w].pc = "findSnapshot" /\ worker'[w].pc \in {"commit", "orphan"}
  PROVE  EventInv'
<1>1. Reports(w)'
  BY FinalSets DEF EventInv, Reports, isRetry, Generating, Goes, Like
<1> QED BY <1>1, EventStill

LEMMA EventInvNext ==
  TypeOK /\ CommitInv /\ JobInv /\ EventInv /\ [Next]_vars => EventInv'
<1> SUFFICES ASSUME TypeOK, CommitInv, JobInv, EventInv, [Next]_vars PROVE EventInv'
  OBVIOUS
<1>1. ASSUME NEW r \in Runs, CreateRun(r) \/ Cancel(r) PROVE EventInv'
  <2>1. /\ UNCHANGED <<worker, retryOf, completedEvent, failedEvent>>
        /\ status[r] \notin Final /\ status'[r] \in {"queued", "cancelled"}
        /\ \A q \in Runs \ {r} : status'[q] = status[q]
    BY <1>1, FinalSets DEF CreateRun, Cancel, TypeOK, eventVars
  <2> QED BY <2>1, EventApi
<1>2. ASSUME NEW s \in Runs, NEW r \in Runs, RetryValidation(s, r) PROVE EventInv'
  <2>1. /\ UNCHANGED <<worker, completedEvent, failedEvent>>
        /\ status[r] \notin Final /\ status'[r] = "queued" /\ isRetry(r)'
        /\ \A q \in Runs \ {r} : status'[q] = status[q] /\ retryOf'[q] = retryOf[q]
    BY <1>2, FinalSets, RunExecutionAssumption DEF RetryValidation, TypeOK, eventVars, isRetry
  <2> QED BY <2>1, EventApi
<1>3. ASSUME \/ RollbackHead \/ RollbackMirror \/ LeaseExpires \/ UNCHANGED vars
             \/ \E r \in Runs : CandidateExpires(r) \/ Enqueue(r) \/ Stall(r)
      PROVE  EventInv'
  BY <1>3, EventStill DEF RollbackMirror, LeaseExpires, vars, RollbackHead,
     CandidateExpires, Enqueue, Stall, runVars, eventVars, Stays, Goes, Like
<1>4. ASSUME LeaseReaped PROVE EventInv'
  BY <1>4, EventStill, OrphanedStays DEF LeaseReaped, runVars, eventVars, Stays, Goes, Like
<1>5. ASSUME NEW w \in Workers, NEW r \in Runs, Deliver(w, r) PROVE EventInv'
  <2>1. Reports(w)'
    BY <1>5, DeliverStays DEF Reports, Generating
  <2> QED BY <1>5, <2>1, DeliverStays, EventStill
<1>6. ASSUME NEW w \in Workers,
             LoadStatus(w) \/ Crash(w) \/ ProcessorThrows(w) \/ Release(w)
      PROVE  EventInv'
  <2>1. Reports(w)'
    BY <1>6, EndsStays DEF Reports, Generating
  <2> QED BY <1>6, <2>1, EndsStays, EventStill
<1>7. ASSUME NEW w \in Workers, MarkRunWaiting(w) PROVE EventInv'
  <2>1. /\ worker[w].pc # "idle"
        /\ UNCHANGED <<retryOf, completedEvent, failedEvent>>
        /\ Become(w, Idle) /\ Idle.pc \in Apart
    BY <1>7, FinalSets DEF MarkRunWaiting, eventVars, Idle
  <2>2. PICK s : /\ s # status[worker[w].run] => status[worker[w].run] \notin Final
                 /\ status' = [status EXCEPT ![worker[w].run] = s]
    <3>1. status = [status EXCEPT ![worker[w].run] = status[worker[w].run]]
      BY DEF TypeOK
    <3>2. "queued" \notin Final
      BY FinalSets
    <3> QED BY <1>7, <3>1, <3>2 DEF MarkRunWaiting
  <2> QED BY <2>1, <2>2, BecomeStays, EventApart
<1>8. ASSUME NEW w \in Workers, Requeue(w) \/ Rebase(w) \/ FailOrphan(w) PROVE EventInv'
  <2>1. /\ UNCHANGED <<retryOf, completedEvent, failedEvent>>
        /\ Goto(w, "read") \/ Goto(w, "release")
    BY <1>8 DEF Requeue, Rebase, FailOrphan, runVars, eventVars
  <2>2. PICK s : /\ s # status[worker[w].run] => status[worker[w].run] \notin Final
                 /\ status' = [status EXCEPT ![worker[w].run] = s]
    <3>1. status = [status EXCEPT ![worker[w].run] = status[worker[w].run]]
      BY DEF TypeOK
    <3>2. "waiting_for_capacity" \notin Final /\ "persisting" \notin Final
      BY FinalSets
    <3> QED BY <1>8, <3>1, <3>2 DEF Requeue, Rebase, FailOrphan
  <2>3. /\ worker[w].pc # "idle" /\ worker'[w].pc \in Apart
        /\ \A v \in Workers \ {w} : Stays(v)
    BY <1>8, <2>1, StepsStays, GotoStays, FinalSets DEF Steps
  <2> QED BY <2>1, <2>2, <2>3, EventApart
<1>9. ASSUME NEW w \in Workers, ReadRun(w) \/ RebaseRead(w) PROVE EventInv'
  <2>1. Reports(w)'
    BY <1>9, ReadRunStays, RebaseReadStays DEF Reports, isRetry, Generating
  <2> QED BY <1>9, <2>1, ReadRunStays, RebaseReadStays, EventStill
<1>10. ASSUME NEW w \in Workers,
              Abort(w) \/ ValidationPassed(w) \/ CreateRunSnapshot(w)
                \/ StoreCandidate(w) \/ FindSnapshot(w)
       PROVE  EventInv'
  <2>1. UNCHANGED <<status, retryOf, completedEvent, failedEvent>>
    BY <1>10 DEF Abort, ValidationPassed, CreateRunSnapshot, StoreCandidate,
       FindSnapshot, runVars, eventVars
  <2>2. \/ worker[w].pc \in Generating
           /\ \E l \in {"release", "assertHeld", "commit", "fail"} : Goto(w, l)
        \/ worker[w].pc = "findSnapshot" /\ \E l \in {"commit", "orphan"} : Goto(w, l)
    BY <1>10 DEF Abort, ValidationPassed, CreateRunSnapshot, StoreCandidate,
       FindSnapshot, Generating
  <2> QED BY <2>1, <2>2, GotoStays, EventMoves, FinalSets DEF Generating
<1>11. ASSUME NEW w \in Workers, Keeps(w) PROVE EventInv'
  <2>1. /\ worker[w].pc # "idle" /\ worker[w] \in SlotRecord
        /\ UNCHANGED <<status, retryOf, completedEvent, failedEvent>>
        /\ Goes(w)
        /\ \A v \in Workers \ {w} : Stays(v)
    BY <1>11, KeepsStays DEF TypeOK, SlotsOK
  <2>2. CASE Acquire(w)
    <3>1. PICK l \in {"read", "requeue", "rebaseRead"} :
            Become(w, [worker[w] EXCEPT !.doc = TRUE, !.pc = l])
      BY <2>2 DEF Acquire
    <3>2. [worker[w] EXCEPT !.doc = TRUE, !.pc = l].pc = l
      BY <2>1 DEF SlotRecord
    <3>3. worker'[w].pc \in Apart
      BY <3>1, <3>2, BecomeStays, FinalSets
    <3> QED BY <2>1, <3>3, EventMoves
  <2>3. CASE Heartbeat(w)
    <3>1. PICK i : Become(w, [worker[w] EXCEPT !.lost = i])
      BY <2>3 DEF Heartbeat
    <3>2. [worker[w] EXCEPT !.lost = i].pc = worker[w].pc
      BY <2>1 DEF SlotRecord
    <3>3. Stays(w)
      BY <2>1, <3>1, <3>2, BecomeStays DEF Stays, Goes, Like
    <3> QED BY <2>1, <3>3, EventStill
  <2>4. CASE WorkFails(w) \/ AssertHeld(w) \/ CommitOutcome(w) \/ CommitBranchHead(w)
    <3>1. worker[w].pc \in Generating
      BY <2>4 DEF WorkFails, AssertHeld, CommitOutcome, CommitBranchHead, Generating
    <3>4. worker'[w].pc \in Generating
      <4>1. ASSUME WorkFails(w) PROVE worker'[w].pc \in {"storeCandidate", "fail"}
        <5>1. PICK l \in {"storeCandidate", "fail"}, x \in BOOLEAN :
                Become(w, [worker[w] EXCEPT !.infra = x, !.pc = l])
          BY <4>1 DEF WorkFails
        <5>2. [worker[w] EXCEPT !.infra = x, !.pc = l].pc = l
          BY <2>1 DEF SlotRecord
        <5> QED BY <5>1, <5>2, BecomeStays
      <4>2. ASSUME AssertHeld(w) PROVE worker'[w].pc \in {"persist", "fail"}
        <5>1. PICK l \in {"persist", "fail"}, x \in BOOLEAN :
                Become(w, [worker[w] EXCEPT !.pc = l, !.lost = x])
          BY <4>2 DEF AssertHeld
        <5>2. [worker[w] EXCEPT !.pc = l, !.lost = x].pc = l
          BY <2>1 DEF SlotRecord
        <5> QED BY <5>1, <5>2, BecomeStays
      <4>3. ASSUME CommitOutcome(w) PROVE worker'[w].pc = "settle"
        <5>1. PICK x \in {"already_advanced", "conflict"} :
                Become(w, [worker[w] EXCEPT !.pc = "settle", !.outcome = x])
          BY <4>3 DEF CommitOutcome
        <5>2. [worker[w] EXCEPT !.pc = "settle", !.outcome = x].pc = "settle"
          BY <2>1 DEF SlotRecord
        <5> QED BY <5>1, <5>2, BecomeStays
      <4>4. ASSUME CommitBranchHead(w) PROVE worker'[w].pc \in {"settle", "commitRead"}
        <5>1. CASE Become(w, [worker[w] EXCEPT !.pc = "settle", !.outcome = "advanced"])
          <6>1. [worker[w] EXCEPT !.pc = "settle", !.outcome = "advanced"].pc = "settle"
            BY <2>1 DEF SlotRecord
          <6> QED BY <5>1, <6>1, BecomeStays
        <5>2. CASE Become(w, [worker[w] EXCEPT !.pc = "commitRead"])
          <6>1. [worker[w] EXCEPT !.pc = "commitRead"].pc = "commitRead"
            BY <2>1 DEF SlotRecord
          <6> QED BY <5>2, <6>1, BecomeStays
        <5> QED BY <4>4, <5>1, <5>2 DEF CommitBranchHead, Goto
      <4> QED BY <2>4, <4>1, <4>2, <4>3, <4>4 DEF Generating
    <3> QED BY <2>1, <3>1, <3>4, EventMoves
  <2>5. CASE StepThrows(w)
    <3> DEFINE rethrown == \/ worker[w].path = "recover"
                           \/ worker[w].pc = "read"
                           \/ worker[w].pc = "emitCompleted" /\ worker[w].path = "generate"
                           \/ worker[w].pc \in {"fail", "emitFailed"}
               l == IF rethrown THEN "release" ELSE "fail"
               t == [worker[w] EXCEPT !.pc = l, !.infra = FALSE, !.throws = rethrown]
    <3>1. Become(w, t)
      BY <2>5 DEF StepThrows
    <3>2. t.pc = l
      BY <2>1 DEF SlotRecord
    <3> HIDE DEF t
    <3>3. worker'[w].pc = l
      BY <3>1, <3>2, BecomeStays
    <3>4. worker[w].pc \in Generating \cup {"read", "findSnapshot", "orphan", "mirror",
                               "dropCandidate", "emitCompleted", "emitFailed"}
      BY <2>5, RunExecutionAssumption DEF StepThrows, Unguarded, Generating
    <3>5. worker[w].path \in {"generate", "recover", "retry"} /\ Reports(w)
      BY <2>1 DEF SlotRecord, EventInv
    <3>6. Reports(w)'
      BY <2>1, <3>3, <3>4, <3>5 DEF Reports, isRetry, Generating, Goes, Like
    <3> QED BY <2>1, <3>6, EventStill
  <2> QED BY <1>11, <2>2, <2>3, <2>4, <2>5 DEF Keeps
<1>12. ASSUME NEW w \in Workers, Begin(w) \/ Work(w) \/ Persist(w) PROVE EventInv'
  <2>1. /\ worker[w].pc \in {"begin", "work", "persist"}
        /\ UNCHANGED <<retryOf, completedEvent, failedEvent>>
        /\ Goes(w)
        /\ \A q \in Runs \ {worker[w].run} : status'[q] = status[q]
        /\ \A v \in Workers \ {w} : Stays(v)
    BY <1>12, WorkStays, TransitsStays DEF Transits, Begin, Persist
  <2>2. PICK r \in Runs : r = worker[w].run
    BY <2>1 DEF TypeOK, SlotsOK
  <2>3. \/ UNCHANGED status /\ worker'[w].pc \in {"release", "fail"}
        \/ /\ worker'[w].pc \in {"work", "snapshot"} /\ status[r] \notin Final
           /\ status'[r] \notin Done
    <3>1. CASE Begin(w)
      BY <2>2, <3>1, GotoStays, transitionStays, FinalSets DEF Begin, Done
    <3>2. CASE Persist(w)
      BY <2>2, <3>2, transitionStays, FinalSets DEF Persist, Done
    <3>3. CASE Work(w)
      <4>1. worker[w].at \in Working
        BY <3>3, WorkStays DEF CommitInv, SlotInv
      <4>2. NextPhase(w) \notin Done /\ Working \cap Final = {}
        BY FinalSets DEF NextPhase, Done, Working
      <4> QED BY <2>2, <3>3, <4>1, <4>2, WorkStays
    <3> QED BY <1>12, <3>1, <3>2, <3>3
  <2>4. Reports(w)'
    BY <2>1, <2>2, <2>3 DEF EventInv, Reports, isRetry, Generating, Goes, Like, Done
  <2>5. ~isRetry(r) => EventsAgree(r)'
    BY <2>1, <2>3, StatusAgrees
  <2> QED BY <2>1, <2>2, <2>4, <2>5, EventStep
<1>13. ASSUME NEW w \in Workers, CompleteRun(w) PROVE EventInv'
  <2> DEFINE caught == IF worker[w].path = "recover" THEN "release" ELSE "fail"
  <2>1. /\ worker[w].pc = "settle"
        /\ UNCHANGED <<retryOf, completedEvent, failedEvent>>
        /\ Goes(w)
        /\ \A q \in Runs \ {worker[w].run} : status'[q] = status[q]
        /\ \A v \in Workers \ {w} : Stays(v)
    BY <1>13, TransitsStays DEF Transits, CompleteRun
  <2>2. PICK r \in Runs : r = worker[w].run
    BY <2>1 DEF TypeOK, SlotsOK
  <2>3. PICK final, next :
          /\ transitionRun(w, "persisting", final, next, caught)
          /\ final \in Done
          /\ \/ next = "mirror" /\ final = "completed"
             \/ next = "dropCandidate" /\ worker[w].path = "retry"
             \/ next = "emitCompleted"
    BY <1>13 DEF CompleteRun, Done
  <2>4. \/ /\ worker'[w].pc = next /\ status[r] = "persisting" /\ status'[r] = final
        \/ worker'[w].pc \in {"release", "fail"} /\ UNCHANGED status
    BY <2>1, <2>2, <2>3, transitionStays
  <2>5. Reports(w)'
    BY <2>1, <2>2, <2>3, <2>4 DEF EventInv, Reports, isRetry, Generating, Goes, Like
  <2>6. ~isRetry(r) => EventsAgree(r)'
    BY <2>1, <2>4, StatusAgrees, FinalSets
  <2> QED BY <2>1, <2>2, <2>5, <2>6, EventStep
<1>14. ASSUME NEW w \in Workers, UpdateMirror(w) \/ DropCandidate(w) PROVE EventInv'
  <2>1. /\ worker[w].pc \in {"mirror", "dropCandidate"}
        /\ UNCHANGED <<status, retryOf, completedEvent, failedEvent>>
        /\ worker[w].path = "retry" \/ worker[w].pc = "dropCandidate"
             \/ Goto(w, "emitCompleted")
        /\ \E l \in {"dropCandidate", "emitCompleted"} : Goto(w, l)
    BY <1>14 DEF UpdateMirror, DropCandidate, runVars, eventVars
  <2>2. /\ Goes(w)
        /\ \A v \in Workers \ {w} : Stays(v)
    BY <1>14, StepsStays DEF Steps
  <2>3. \/ worker[w].path = "retry" \/ worker[w].pc = "dropCandidate"
        \/ worker'[w].pc = "emitCompleted"
    BY <2>1, GotoStays
  <2>4. worker'[w].pc \in {"dropCandidate", "emitCompleted"}
    BY <2>1, GotoStays
  <2>5. Reports(w)'
    BY <2>1, <2>2, <2>3, <2>4 DEF EventInv, Reports, isRetry, Generating, Goes, Like, Done
  <2> QED BY <2>1, <2>2, <2>5, EventStill
<1>15. ASSUME NEW w \in Workers, EmitCompleted(w) \/ EmitFailed(w) PROVE EventInv'
  <2>1. /\ worker[w].pc \in {"emitCompleted", "emitFailed"}
        /\ UNCHANGED <<status, retryOf>> /\ Goto(w, "release")
        /\ \A v \in Workers \ {w} : Stays(v)
    BY <1>15, StepsStays DEF Steps, EmitCompleted, EmitFailed, runVars
  <2>2. PICK r \in Runs : r = worker[w].run
    BY <2>1 DEF TypeOK, SlotsOK
  <2>3. \/ /\ worker[w].pc = "emitCompleted" /\ UNCHANGED failedEvent
           /\ completedEvent' = completedEvent \cup {r}
        \/ /\ worker[w].pc = "emitFailed" /\ UNCHANGED completedEvent
           /\ failedEvent' = failedEvent \cup {r}
    BY <1>15, <2>2 DEF EmitCompleted, EmitFailed
  <2>4. ~isRetry(r) => EventsAgree(r)'
    BY <2>1, <2>2, <2>3 DEF EventInv, GenerationEventsAgree, EventsAgree, Reports, Done
  <2>5. worker'[w].pc = "release"
    BY <2>1, GotoStays
  <2>6. Reports(w)'
    BY <2>5 DEF Reports, Generating
  <2> QED BY <2>1, <2>2, <2>3, <2>4, <2>6, EventStep
<1>16. ASSUME NEW w \in Workers, FailAgentRun(w) \/ FailValidationRetry(w) PROVE EventInv'
  <2>1. /\ worker[w].pc = "fail" /\ worker[w].path \in {"generate", "retry"}
        /\ UNCHANGED <<retryOf, completedEvent, failedEvent>>
        /\ Goes(w)
        /\ \A v \in Workers \ {w} : Stays(v)
    BY <1>16, StepsStays DEF Steps, FailAgentRun, FailValidationRetry, runVars, eventVars
  <2>2. PICK r \in Runs : r = worker[w].run
    BY <2>1 DEF TypeOK, SlotsOK
  <2>3. /\ \A q \in Runs \ {r} : status'[q] = status[q]
        /\ \/ Goto(w, "emitFailed") /\ status'[r] = "failed" /\ status[r] \notin notFailable
           \/ Goto(w, "release") /\ UNCHANGED status
           \/ worker[w].path = "retry" /\ \E l : Goto(w, l)
    BY <1>16, <2>2 DEF FailAgentRun, FailValidationRetry, TypeOK
  <2>4. \/ /\ worker'[w].pc = "emitFailed" /\ status'[r] = "failed"
           /\ status[r] \notin notFailable
        \/ worker'[w].pc = "release" /\ UNCHANGED status
        \/ worker[w].path = "retry"
    BY <2>3, GotoStays
  <2>5. /\ ~isRetry(r) => worker[w].path # "retry"
        /\ ~isRetry(r) => status[r] # "completed_with_conflict" \/ worker[w].path = "retry"
    BY <2>1, <2>2 DEF EventInv, Reports, Generating
  <2>6. ~isRetry(r) => EventsAgree(r)'
    BY <2>1, <2>4, <2>5, StatusAgrees, FinalSets DEF notFailable
  <2>7. Reports(w)'
    BY <2>1, <2>2, <2>4, <2>5 DEF Reports, isRetry, Generating, Goes, Like
  <2> QED BY <2>1, <2>2, <2>3, <2>6, <2>7, EventStep
<1> QED
  BY <1>1, <1>2, <1>3, <1>4, <1>5, <1>6, <1>7, <1>8, <1>9, <1>10, <1>11, <1>12,
     <1>13, <1>14, <1>15, <1>16
  DEF Next, ApiNext, WorkerNext, Process, Keeps

-----------------------------------------------------------------------------
(* Slots commit on the baseline of their run *)

OnBaseline(w) ==
  worker[w].pc \in Committing => worker[w].base = base[worker[w].run]

BaseInv == \A w \in Workers : OnBaseline(w)

LEMMA BaseInvInit == Init => BaseInv
BY DEF Init, BaseInv, OnBaseline, Idle, Committing

LEMMA BaseKept ==
  ASSUME BaseInv, UNCHANGED base,
         \A v \in Workers : \/ Goes(v) /\ Retreats(worker'[v], worker[v])
                           \/ worker'[v].pc \notin Committing
  PROVE  BaseInv'
BY DEF BaseInv, OnBaseline, Goes, Like, Retreats

LEMMA StaysRetreats == \A v : Stays(v) => Goes(v) /\ Retreats(worker'[v], worker[v])
BY DEF Stays, Retreats

\* One run takes another baseline, and no slot is committing it.
LEMMA BaseMoves ==
  ASSUME TypeOK, BaseInv, NEW r \in Runs,
         \A q \in Runs \ {r} : base'[q] = base[q],
         \A v \in Workers : \/ Stays(v) /\ (worker[v].pc # "idle" => worker[v].run # r)
                           \/ worker'[v].pc \notin Committing
  PROVE  BaseInv'
<1> SUFFICES ASSUME NEW v \in Workers, worker'[v].pc \in Committing
             PROVE  worker'[v].base = base'[worker'[v].run]
  BY DEF BaseInv, OnBaseline
<1>1. worker[v].pc # "idle" /\ Stays(v)
  BY DEF Stays, Committing
<1>2. worker[v].run \in Runs \ {r}
  BY <1>1 DEF TypeOK, SlotsOK
<1> QED BY <1>1, <1>2 DEF BaseInv, OnBaseline, Stays, Goes, Like

LEMMA AdvancesOnlyByCommit ==
  ASSUME [Next]_vars
  PROVE  UNCHANGED advances \/ \E w \in Workers : CommitBranchHead(w)
<1>1. ASSUME ApiNext \/ UNCHANGED vars PROVE UNCHANGED advances
  BY <1>1 DEF ApiNext, vars, headVars, CreateRun, Enqueue, Cancel, RollbackHead,
     CandidateExpires, Stall, RetryValidation, RollbackMirror, LeaseExpires, LeaseReaped
<1>2. ASSUME NEW w \in Workers, \/ Steps(w) \/ Transits(w) \/ Work(w) \/ ReadRun(w)
                              \/ RebaseRead(w)
      PROVE  UNCHANGED advances
  BY <1>2 DEF headVars, Steps, Requeue, FailOrphan, Abort, UpdateMirror,
     DropCandidate, EmitCompleted, StoreCandidate, FailAgentRun,
     FailValidationRetry, EmitFailed, Rebase, FindSnapshot, CreateRunSnapshot,
     ValidationPassed, Transits, Begin, Persist, CompleteRun, Work, ReadRun, RebaseRead
<1>3. ASSUME NEW w \in Workers, Keeps(w), ~CommitBranchHead(w) PROVE UNCHANGED advances
  BY <1>3 DEF headVars, Keeps, WorkFails, AssertHeld, CommitOutcome, StepThrows,
     Heartbeat, Acquire
<1>4. ASSUME NEW w \in Workers, \/ LoadStatus(w) \/ Crash(w) \/ Release(w)
                              \/ ProcessorThrows(w) \/ MarkRunWaiting(w) \/ \E r \in Runs : Deliver(w, r)
      PROVE  UNCHANGED advances
  BY <1>4 DEF headVars, LoadStatus, Crash, Release, ProcessorThrows, MarkRunWaiting,
     Deliver
<1> QED
  BY <1>1, <1>2, <1>3, <1>4 DEF Next, WorkerNext, Process, Steps, Transits, Keeps

LEMMA BaseInvNext ==
  TypeOK /\ RetryInv /\ JobInv /\ BaseInv /\ [Next]_vars => BaseInv'
<1> SUFFICES ASSUME TypeOK, RetryInv, JobInv, BaseInv, [Next]_vars PROVE BaseInv'
  OBVIOUS
<1>1. ASSUME \/ RollbackHead \/ RollbackMirror \/ LeaseExpires \/ LeaseReaped
             \/ UNCHANGED vars
             \/ \E r \in Runs : CandidateExpires(r) \/ Enqueue(r) \/ Stall(r) \/ Cancel(r)
      PROVE  BaseInv'
  <2>1. UNCHANGED base
    BY <1>1 DEF RollbackMirror, LeaseExpires, LeaseReaped, vars, RollbackHead,
       CandidateExpires, Enqueue, Stall, Cancel, runVars
  <2>2. UNCHANGED worker \/ worker' = Orphaned
    BY <1>1 DEF RollbackMirror, LeaseExpires, LeaseReaped, vars, RollbackHead,
       CandidateExpires, Enqueue, Stall, Cancel
  <2>3. \A v \in Workers : Stays(v)
    BY <2>2, OrphanedStays DEF Stays, Goes, Like
  <2> QED BY <2>1, <2>3, StaysRetreats, BaseKept
<1>2. ASSUME NEW r \in Runs, CreateRun(r) \/ \E s \in Runs : RetryValidation(s, r)
      PROVE  BaseInv'
  <2>1. /\ status[r] = "absent" /\ UNCHANGED worker
        /\ \A q \in Runs \ {r} : base'[q] = base[q]
    BY <1>2 DEF CreateRun, RetryValidation, TypeOK
  <2>2. \A v \in Workers : worker[v].pc # "idle" => worker[v].run # r
    BY <2>1 DEF RetryInv
  <2> QED BY <2>1, <2>2, BaseMoves DEF Stays, Goes, Like
<1>3. ASSUME NEW w \in Workers, NEW r \in Runs, Deliver(w, r) PROVE BaseInv'
  BY <1>3, DeliverStays, StaysRetreats, BaseKept DEF Committing
<1>4. ASSUME NEW w \in Workers,
             LoadStatus(w) \/ Crash(w) \/ ProcessorThrows(w) \/ Release(w)
      PROVE  BaseInv'
  BY <1>4, EndsStays, StaysRetreats, BaseKept DEF Committing
<1>5. ASSUME NEW w \in Workers, MarkRunWaiting(w) PROVE BaseInv'
  <2>1. UNCHANGED base /\ Become(w, Idle) /\ Idle.pc \notin Committing
    BY <1>5 DEF MarkRunWaiting, Idle, Committing
  <2> QED BY <2>1, BecomeStays, StaysRetreats, BaseKept
<1>6. ASSUME NEW w \in Workers, Rebase(w) PROVE BaseInv'
  <2>1. worker[w].pc # "idle" /\ (Goto(w, "read") \/ Goto(w, "release"))
    BY <1>6 DEF Rebase
  <2>2. worker'[w].pc \notin Committing /\ \A v \in Workers \ {w} : Stays(v)
    BY <2>1, GotoStays DEF Committing
  <2>3. PICK r \in Runs : r = worker[w].run
    BY <2>1 DEF TypeOK, SlotsOK
  <2>4. \A q \in Runs \ {r} : base'[q] = base[q]
    BY <1>6, <2>3 DEF Rebase, TypeOK
  <2>5. \A v \in Workers \ {w} : worker[v].pc # "idle" => worker[v].run # r
    BY <2>1, <2>3, OneSlotPerJob
  <2> QED BY <2>2, <2>4, <2>5, BaseMoves
<1>7. ASSUME NEW w \in Workers, Steps(w), ~Rebase(w) PROVE BaseInv'
  <2>1. UNCHANGED base
    BY <1>7 DEF Steps, Requeue, FailOrphan, Abort, UpdateMirror, DropCandidate,
       EmitCompleted, StoreCandidate, FailAgentRun, FailValidationRetry,
       EmitFailed, FindSnapshot, CreateRunSnapshot, ValidationPassed, runVars
  <2>2. PICK l : Goto(w, l) /\ (l \in Committing => worker[w].pc \in Committing)
    BY <1>7 DEF Steps, Requeue, FailOrphan, Abort, UpdateMirror, DropCandidate,
       EmitCompleted, StoreCandidate, FailAgentRun, FailValidationRetry,
       EmitFailed, FindSnapshot, CreateRunSnapshot, ValidationPassed, Committing
  <2>3. Goes(w) /\ Retreats(worker'[w], worker[w]) /\ \A v \in Workers \ {w} : Stays(v)
    BY <2>2, GotoStays DEF Retreats
  <2> QED BY <2>1, <2>3, StaysRetreats, BaseKept
<1>8. ASSUME NEW w \in Workers, Keeps(w) PROVE BaseInv'
  BY <1>8, KeepsStays, StaysRetreats, BaseKept
<1>9. ASSUME NEW w \in Workers, Transits(w) PROVE BaseInv'
  <2>1. worker[w].pc \in {"begin", "persist", "settle"} /\ UNCHANGED base
    BY <1>9 DEF Transits, Begin, Persist, CompleteRun
  <2>2. \/ worker'[w].pc \in {"release", "fail", "mirror", "dropCandidate", "emitCompleted"}
        \/ worker[w].pc \in {"begin", "persist"}
    <3>1. CASE CompleteRun(w)
      <4>1. PICK final, next, caught :
              /\ transitionRun(w, "persisting", final, next, caught)
              /\ next \in {"mirror", "dropCandidate", "emitCompleted"}
              /\ caught \in {"release", "fail"}
        BY <3>1 DEF CompleteRun
      <4> QED BY <2>1, <4>1, transitionStays
    <3> QED BY <1>9, <3>1 DEF Transits, Begin, Persist
  <2>3. Retreats(worker'[w], worker[w])
    BY <2>2 DEF Retreats, Committing
  <2> QED BY <1>9, <2>1, <2>3, TransitsStays, StaysRetreats, BaseKept
<1>10. ASSUME NEW w \in Workers, Work(w) PROVE BaseInv'
  <2>1. Retreats(worker'[w], worker[w])
    BY <1>10, WorkStays DEF Retreats, Committing
  <2> QED BY <1>10, <2>1, WorkStays, StaysRetreats, BaseKept
<1>11. ASSUME NEW w \in Workers, RebaseRead(w) PROVE BaseInv'
  BY <1>11, RebaseReadStays, StaysRetreats, BaseKept DEF Committing
<1>12. ASSUME NEW w \in Workers, ReadRun(w) PROVE BaseInv'
  <2>1. OnBaseline(w)'
    BY <1>12, ReadRunStays DEF OnBaseline
  <2> QED BY <1>12, <2>1, ReadRunStays DEF BaseInv, OnBaseline, Stays, Goes, Like
<1> QED
  BY <1>1, <1>2, <1>3, <1>4, <1>5, <1>6, <1>7, <1>8, <1>9, <1>10, <1>11, <1>12
  DEF Next, ApiNext, WorkerNext, Process, Steps, Keeps, Transits

-----------------------------------------------------------------------------

\* The durable log of a generation never says run.failed of a run that has not
\* failed, nor run.completed of one that has not completed (the catch block of
\* processAgentRun emits only what its update has matched), for any sets of
\* runs and workers and however late heartbeats are, as long as BullMQ
\* redelivers no job whose worker is alive: two live executions of one run
\* could settle it and fail it, since the catch block's filter does not list
\* completed_with_conflict.
THEOREM GenerationReportsAgree ==
  ASSUME ~LiveStalls PROVE Spec => []GenerationEventsAgree
<1> DEFINE IInv == TypeOK /\ CommitInv /\ JobInv /\ EventInv
<1>1. Init => IInv
  BY InitTypeOK, CommitInvInit, JobInvInit, EventInvInit
<1>2. IInv /\ [Next]_vars => IInv'
  BY NextTypeOK, CommitInvNext, JobInvNext, EventInvNext
<1>3. IInv => GenerationEventsAgree
  BY DEF EventInv
<1> QED BY <1>1, <1>2, <1>3, PTL DEF Spec

\* A run moves the branch head only while the head is exactly the baseline it
\* was built on (commitBranchHead compares with the version the processor has
\* read from the run, and no delivery rebases a run that another slot is
\* executing), under the same assumption on BullMQ.
THEOREM CommitsBuildOnBaseline ==
  ASSUME ~LiveStalls PROVE Spec => CommitsOnBaseline
<1> DEFINE IInv == TypeOK /\ CommitInv /\ RetryInv /\ JobInv /\ BaseInv
           Advance == \A r \in Runs : advances'[r] > advances[r] => branch.version = base[r]
<1>1. Init => IInv
  BY InitTypeOK, CommitInvInit, RetryInit, JobInvInit, BaseInvInit
<1>2. IInv /\ [Next]_vars => IInv'
  BY NextTypeOK, CommitInvNext, RetryInvNext, JobInvNext, BaseInvNext
<1>3. IInv /\ [Next]_vars => [Advance]_vars
  <2> SUFFICES ASSUME IInv, [Next]_vars, NEW r \in Runs, advances'[r] > advances[r]
               PROVE  branch.version = base[r]
    OBVIOUS
  <2>1. CASE \E w \in Workers : CommitBranchHead(w)
    <3>1. PICK w \in Workers : CommitBranchHead(w)
      BY <2>1
    <3>2. worker[w].pc = "commit" /\ branch.version = worker[w].base /\ worker[w].run = r
      BY <3>1 DEF CommitBranchHead, TypeOK
    <3> QED BY <3>2 DEF BaseInv, OnBaseline, Committing
  <2>2. CASE UNCHANGED advances
    BY <2>2 DEF TypeOK
  <2> QED BY <2>1, <2>2, AdvancesOnlyByCommit
<1> QED BY <1>1, <1>2, <1>3, PTL DEF Spec, CommitsOnBaseline

\* A validation retry moves the branch head only while the head is where it was
\* when its source run, whose snapshot it repairs, was created: what was
\* committed meanwhile makes it a conflict (the retry route copies the source's
\* base, and acquire does not rebase a retry), under the same assumption.
THEOREM RetriesCommitOnSource ==
  ASSUME ~LiveStalls PROVE Spec => RetryCommitsOnSource
<1> DEFINE IInv == TypeOK /\ CommitInv /\ RetryInv /\ JobInv /\ BaseInv
           Advance == \A r \in Runs : isRetry(r) /\ advances'[r] > advances[r]
                                      => branch.version = base[retryOf[r]]
<1>1. Init => IInv
  BY InitTypeOK, CommitInvInit, RetryInit, JobInvInit, BaseInvInit
<1>2. IInv /\ [Next]_vars => IInv'
  BY NextTypeOK, CommitInvNext, RetryInvNext, JobInvNext, BaseInvNext
<1>3. IInv /\ [Next]_vars => [Advance]_vars
  <2> SUFFICES ASSUME IInv, [Next]_vars, NEW r \in Runs,
                      isRetry(r), advances'[r] > advances[r]
               PROVE  branch.version = base[retryOf[r]]
    OBVIOUS
  <2>1. CASE \E w \in Workers : CommitBranchHead(w)
    <3>1. PICK w \in Workers : CommitBranchHead(w)
      BY <2>1
    <3>2. worker[w].pc = "commit" /\ branch.version = worker[w].base /\ worker[w].run = r
      BY <3>1 DEF CommitBranchHead, TypeOK
    <3>3. branch.version = base[r]
      BY <3>2 DEF BaseInv, OnBaseline, Committing
    <3>4. base[r] = base[retryOf[r]]
      BY DEF RetryInv, isRetry
    <3> QED BY <3>3, <3>4
  <2>2. CASE UNCHANGED advances
    BY <2>2 DEF TypeOK
  <2> QED BY <2>1, <2>2, AdvancesOnlyByCommit
<1> QED BY <1>1, <1>2, <1>3, PTL DEF Spec, RetryCommitsOnSource
=============================================================================
