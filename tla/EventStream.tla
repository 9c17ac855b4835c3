---------------------------- MODULE EventStream ----------------------------
(***************************************************************************)
(* The events of one generation run, from the code that emits them to the  *)
(* page that watches the run: emitAgentEvent (numbering, durable insert,   *)
(* Redis publication), streamAgentRunEvents (subscription, backlog, live   *)
(* messages), the reconnecting client streamAgentEvents and its caller     *)
(* monitorAgentRun, which falls back to polling.  The run itself is kept   *)
(* to what decides which events are emitted and when; its life is the      *)
(* subject of RunExecution.                                                *)
(***************************************************************************)
EXTENDS Integers, Sequences, FiniteSets, FiniteSetsExt

CONSTANTS
  MaxAttempts,    \* bound: attempts of the run's job
  Route,          \* the handler of POST /runs/:runId/cancel
  MaxEvents,      \* bound: no progress event is begun once the log has these
  MaxFaults,      \* bound: crashes, stalls, failed calls, broken connections
  MaxReconnects,  \* maxReconnectAttempts (3)
  MaxPolls        \* MAX_FALLBACK_ATTEMPTS (60)

ASSUME RouteAssumption == Route \notin Nat
ASSUME BoundsAssumption ==
  /\ MaxAttempts \in Nat \ {0}
  /\ MaxEvents \in Nat \ {0} /\ MaxFaults \in Nat
  /\ MaxReconnects \in Nat /\ MaxPolls \in Nat \ {0}

VARIABLES
  status,    \* AgentRun.status; "active" stands for running .. repairing
  log,       \* the AgentEvent collection
  producer,  \* emitters of events: the job's attempts and the cancel handler
  published, \* numbers published on the run's channel
  late,      \* those published after a later number
  conn,      \* streamAgentRunEvents for the open connection
  wire,      \* frames on their way to the page
  client,    \* streamAgentEvents and monitorAgentRun
  shown,     \* numbers handed to onEvent
  lost,      \* messages Redis never handed to the subscriber
  faults

emitVars   == <<status, log, producer, published, late>>
streamVars == <<conn, wire, lost>>
clientVars == <<client, shown>>
vars == <<status, log, producer, published, late, conn, wire, client, shown,
          lost, faults>>

Workers == 1..MaxAttempts  \* the attempts, in the order of their delivery
Producers == Workers \cup {Route}

Statuses == {"queued", "active", "persisting", "completed",
             "completed_with_conflict", "failed", "cancelled"}
terminalAgentRunStatuses ==
  {"completed", "completed_with_conflict", "failed", "cancelled"}

\* "agent.step" stands for every event that neither starts nor ends a run.
EventTypes == {"run.created", "agent.step", "run.completed", "run.failed",
               "run.cancelled"}
TERMINAL_EVENT_TYPES == {"run.completed", "run.failed", "run.cancelled"}
TERMINAL_RUN_STATUSES == {"completed", "failed", "cancelled"}

MaxSeq == MaxEvents + 2 * Cardinality(Producers)
Events == [seq : 1..MaxSeq, type : EventTypes, by : Producers]
Created == [seq |-> 1, type |-> "run.created", by |-> Route]

Fault == faults < MaxFaults /\ faults' = faults + 1

-----------------------------------------------------------------------------
(* emitAgentEvent *)

Idle == [pc |-> "idle", type |-> "agent.step", seq |-> 0]
Emitting(type) == [pc |-> "latest", type |-> type, seq |-> 0]
At(p, pc) == producer' = [producer EXCEPT ![p] = [Idle EXCEPT !.pc = pc]]

\* What the emitter does next, and what it does when the emission throws: a
\* worker's progress event leads to the catch block; run.completed, run.failed
\* and the recovery path throw out of the job.
AfterEmit(type) == IF type = "agent.step" THEN "work" ELSE "done"
AfterThrow(p) == CASE p = Route -> "done"
                   [] producer[p].type = "agent.step" -> "catch"
                   [] OTHER -> "thrown"

getNextSequence(p) ==
  /\ producer[p].pc = "latest"
  /\ producer' = [producer EXCEPT
       ![p].pc = "create",
       ![p].seq = Max({e.seq : e \in log}) + 1]
  /\ UNCHANGED <<status, log, published, late, streamVars, clientVars, faults>>

\* Mutant: without the unique index on {runId, sequence}.
CreateAnyway(p) ==
  /\ producer[p].pc = "create"
  /\ log' = log \cup {[seq |-> producer[p].seq, type |-> producer[p].type,
                       by |-> p]}
  /\ producer' = [producer EXCEPT ![p].pc = "publish"]
  /\ UNCHANGED <<status, published, late, streamVars, clientVars, faults>>

\* AgentEvent.create: the unique index lets one event have a number.
Create(p) ==
  LET seq == producer[p].seq IN
  /\ producer[p].pc = "create"
  /\ IF \E e \in log : e.seq = seq
       THEN At(p, AfterThrow(p)) /\ UNCHANGED log
       ELSE /\ log' = log \cup {[seq |-> seq, type |-> producer[p].type,
                                 by |-> p]}
            /\ producer' = [producer EXCEPT ![p].pc = "publish"]
  /\ UNCHANGED <<status, published, late, streamVars, clientVars, faults>>

Subscribed == conn.pc \in {"loading", "merging", "live"}

Publish(p) ==
  LET seq == producer[p].seq
      e == [seq |-> seq, type |-> producer[p].type, by |-> p]
  IN /\ producer[p].pc = "publish"
     /\ published' = published \cup {seq}
     /\ late' = IF \E n \in published : n > seq THEN late \cup {seq} ELSE late
     /\ conn' = IF Subscribed THEN [conn EXCEPT !.inbox = Append(@, e)] ELSE conn
     /\ At(p, AfterEmit(producer[p].type))
     /\ UNCHANGED <<status, log, wire, lost, clientVars, faults>>

\* Redis refuses the publication of an event that is already durable.
PublishFails(p) ==
  /\ producer[p].pc = "publish" /\ Fault
  /\ At(p, AfterThrow(p))
  /\ UNCHANGED <<status, log, published, late, streamVars, clientVars>>

-----------------------------------------------------------------------------
(* The emitters *)

\* loadRunStatus: a terminal run ends the job at once.
Start(w) == At(w, IF status \in terminalAgentRunStatuses THEN "done" ELSE "read")

\* The job is delivered, again if the attempt before threw or died.
Deliver(w) ==
  /\ producer[w].pc = "idle"
  /\ w > 1 => producer[w - 1].pc = "thrown"
  /\ Start(w)
  /\ UNCHANGED <<status, log, published, late, streamVars, clientVars, faults>>

\* The attempt before is alive and has stalled: BullMQ delivers the job again.
Stall(w) ==
  /\ producer[w].pc = "idle"
  /\ w > 1 /\ producer[w - 1].pc \notin {"idle", "done", "thrown"} /\ Fault
  /\ Start(w)
  /\ UNCHANGED <<status, log, published, late, streamVars, clientVars>>

\* processAgentRun reads the run once more; a completed run whose
\* run.completed event is missing gets it here.
ReadRun(w) ==
  LET reported == \E e \in log : e.type = "run.completed" IN
  /\ producer[w].pc = "read"
  /\ CASE status = "persisting" -> At(w, "recover")
       [] status \in {"completed", "completed_with_conflict"} ->
            IF reported THEN At(w, "done")
              ELSE producer' = [producer EXCEPT ![w] = Emitting("run.completed")]
       [] OTHER -> At(w, "begin")
  /\ UNCHANGED <<status, log, published, late, streamVars, clientVars, faults>>

\* queued -> running, then run.started.
Begin(w) ==
  /\ producer[w].pc = "begin"
  /\ IF status = "queued"
       THEN /\ status' = "active"
            /\ producer' = [producer EXCEPT ![w] = Emitting("agent.step")]
       ELSE At(w, "catch") /\ UNCHANGED status
  /\ UNCHANGED <<log, published, late, streamVars, clientVars, faults>>

\* A progress event, emitted whatever has become of the run meanwhile.
Step(w) ==
  /\ producer[w].pc = "work" /\ Cardinality(log) < MaxEvents
  /\ producer' = [producer EXCEPT ![w] = Emitting("agent.step")]
  /\ UNCHANGED <<status, log, published, late, streamVars, clientVars, faults>>

WorkFails(w) ==
  /\ producer[w].pc \in {"work", "commit"}
  /\ At(w, "catch")
  /\ UNCHANGED <<status, log, published, late, streamVars, clientVars, faults>>

Persist(w) ==
  /\ producer[w].pc = "work"
  /\ IF status = "active"
       THEN status' = "persisting" /\ At(w, "commit")
       ELSE At(w, "catch") /\ UNCHANGED status
  /\ UNCHANGED <<log, published, late, streamVars, clientVars, faults>>

\* completeRunWithSnapshot settles the run; then run.completed is emitted.
Commit(w) ==
  /\ producer[w].pc \in {"commit", "recover"}
  /\ IF status = "persisting"
       THEN /\ status' \in {"completed", "completed_with_conflict"}
            /\ producer' = [producer EXCEPT ![w] = Emitting("run.completed")]
       ELSE /\ At(w, IF producer[w].pc = "commit" THEN "catch" ELSE "thrown")
            /\ UNCHANGED status
  /\ UNCHANGED <<log, published, late, streamVars, clientVars, faults>>

\* Recovery finds no snapshot: the run fails and no event says so.
FailOrphan(w) ==
  /\ producer[w].pc = "recover"
  /\ status' = IF status = "persisting" THEN "failed" ELSE status
  /\ At(w, "done")
  /\ UNCHANGED <<log, published, late, streamVars, clientVars, faults>>

\* The catch block: run.failed only if its update matched.
Catch(w) ==
  /\ producer[w].pc = "catch"
  /\ IF status \notin {"completed", "failed", "cancelled"}
       THEN /\ status' = "failed"
            /\ producer' = [producer EXCEPT ![w] = Emitting("run.failed")]
       ELSE At(w, "done") /\ UNCHANGED status
  /\ UNCHANGED <<log, published, late, streamVars, clientVars, faults>>

\* The worker process dies.
Crash(w) ==
  /\ producer[w].pc \notin {"idle", "done", "thrown"} /\ Fault
  /\ At(w, "thrown")
  /\ UNCHANGED <<status, log, published, late, streamVars, clientVars>>

\* POST /runs/:runId/cancel.
Cancel ==
  /\ producer[Route].pc = "idle"
  /\ status \in {"queued", "active"}
  /\ status' = "cancelled"
  /\ producer' = [producer EXCEPT ![Route] = Emitting("run.cancelled")]
  /\ UNCHANGED <<log, published, late, streamVars, clientVars, faults>>

-----------------------------------------------------------------------------
(* streamAgentRunEvents *)

\* backlog and buffer are merged in the order of their numbers, whatever order
\* they came in, so that they are sets here.
Closed == [pc |-> "closed", last |-> 0, backlog |-> {}, buffer |-> {},
           inbox |-> <<>>]

Subscribe ==
  /\ conn.pc = "subscribing"
  /\ conn' = [conn EXCEPT !.pc = "loading"]
  /\ UNCHANGED <<wire, lost, emitVars, clientVars, faults>>

\* loadDurableEvents: the query; its result is handled in a later turn.
LoadEvents ==
  /\ conn.pc = "loading"
  /\ conn' = [conn EXCEPT !.pc = "merging",
                          !.backlog = {e \in log : e.seq > conn.last}]
  /\ UNCHANGED <<wire, lost, emitVars, clientVars, faults>>

\* sort((a, b) => a.sequence - b.sequence): the i-th event has i - 1 before it.
InOrder(events) ==
  [i \in 1..Cardinality(events) |->
     CHOOSE e \in events : Cardinality({d \in events : d.seq < e.seq}) = i - 1]

\* writeEvent for each event of a turn: one written already is skipped.
Write(events) ==
  LET due == InOrder({e \in events : e.seq > conn.last})
  IN /\ wire' = wire \o due
     /\ conn' = [conn EXCEPT !.pc = "live", !.backlog = {}, !.buffer = {},
                  !.last = IF due = <<>> THEN conn.last ELSE due[Len(due)].seq]

\* Mutant: what arrived while the backlog was loading is forgotten.
MergeBacklogOnly ==
  /\ conn.pc = "merging" /\ Write(conn.backlog)
  /\ UNCHANGED <<lost, emitVars, clientVars, faults>>

\* Backlog and buffered messages are written in one turn, in order.
Merge ==
  /\ conn.pc = "merging" /\ Write(conn.backlog \cup conn.buffer)
  /\ UNCHANGED <<lost, emitVars, clientVars, faults>>

\* messageHandler
Message ==
  LET e == Head(conn.inbox)
      written == conn.pc = "live" /\ e.seq > conn.last
  IN /\ conn.inbox # <<>>
     /\ wire' = IF written THEN Append(wire, e) ELSE wire
     /\ conn' = [conn EXCEPT !.inbox = Tail(@),
                   !.last = IF written THEN e.seq ELSE @,
                   !.buffer = IF conn.pc = "live" THEN @ ELSE @ \cup {e}]
     /\ UNCHANGED <<lost, emitVars, clientVars, faults>>

\* The subscriber's link drops a message: Redis does not send it again.
MessageLost ==
  /\ conn.inbox # <<>> /\ Fault
  /\ conn' = [conn EXCEPT !.inbox = Tail(@)]
  /\ lost' = lost \cup {Head(conn.inbox).seq}
  /\ UNCHANGED <<wire, emitVars, clientVars>>

\* The subscription times out or is refused, or the query fails: cleanup ends
\* the response, after the frames already written.
StreamFails ==
  /\ conn.pc \in {"subscribing", "loading", "merging"} /\ Fault
  /\ conn' = Closed
  /\ UNCHANGED <<wire, lost, emitVars, clientVars>>

-----------------------------------------------------------------------------
(* streamAgentEvents *)

Finished == {"returned", "timedOut", "rejected", "aborted"}

Retry == IF client.reconnects >= MaxReconnects
           THEN [client EXCEPT !.pc = "poll"]
           ELSE [client EXCEPT !.pc = "backoff", !.reconnects = @ + 1]

\* GET /runs/:runId/events with the Last-Event-ID header.
Connect ==
  /\ client.pc = "connect"
  /\ client' = [client EXCEPT !.pc = "reading"]
  /\ conn' = [Closed EXCEPT !.pc = "subscribing", !.last = client.last]
  /\ UNCHANGED <<shown, wire, lost, emitVars, faults>>

\* A network error or a status of 500 and above.
ConnectFails ==
  /\ client.pc = "connect" /\ Fault
  /\ client' = Retry
  /\ UNCHANGED <<shown, streamVars, emitVars>>

\* Any other status that is not ok ends the monitor.
ConnectRefused ==
  /\ client.pc = "connect" /\ Fault
  /\ client' = [client EXCEPT !.pc = "rejected"]
  /\ UNCHANGED <<shown, streamVars, emitVars>>

\* Mutant: a terminal event does not end the reading.
ReadOn ==
  LET e == Head(wire) IN
  /\ client.pc = "reading" /\ wire # <<>>
  /\ wire' = Tail(wire)
  /\ IF e.seq <= client.last
       THEN UNCHANGED clientVars
       ELSE /\ shown' = shown \cup {e.seq}
            /\ client' = [client EXCEPT !.last = e.seq]
  /\ UNCHANGED <<conn, lost, emitVars, faults>>

\* dispatchFrame: a terminal event ends the stream and closes the connection.
ReadFrame ==
  LET e == Head(wire)
      ends == e.type \in TERMINAL_EVENT_TYPES
  IN /\ client.pc = "reading" /\ wire # <<>>
     /\ IF e.seq <= client.last
          THEN wire' = Tail(wire) /\ UNCHANGED <<conn, clientVars>>
          ELSE /\ shown' = shown \cup {e.seq}
               /\ client' = [client EXCEPT !.last = e.seq,
                               !.pc = IF ends THEN "detail" ELSE "reading"]
               /\ wire' = IF ends THEN <<>> ELSE Tail(wire)
               /\ conn' = IF ends THEN Closed ELSE conn
     /\ UNCHANGED <<lost, emitVars, faults>>

\* The response ended before a terminal event.
EndOfStream ==
  /\ client.pc = "reading" /\ wire = <<>> /\ conn.pc = "closed"
  /\ client' = Retry
  /\ UNCHANGED <<shown, streamVars, emitVars, faults>>

\* The connection breaks, or the API process behind it dies.
Break ==
  /\ client.pc = "reading" /\ Fault
  /\ client' = Retry
  /\ conn' = Closed /\ wire' = <<>>
  /\ UNCHANGED <<shown, lost, emitVars>>

BackoffEnds ==
  /\ client.pc = "backoff"
  /\ client' = [client EXCEPT !.pc = "connect"]
  /\ UNCHANGED <<shown, streamVars, emitVars, faults>>

-----------------------------------------------------------------------------
(* monitorAgentRun *)

\* What GET /runs/:runId answers.
getRun == status

\* getRun after a terminal event.
FetchDetail ==
  /\ client.pc = "detail"
  /\ client' = [client EXCEPT !.pc = "returned", !.detail = getRun]
  /\ UNCHANGED <<shown, streamVars, emitVars, faults>>

\* One attempt of the fallback once the reconnections are exhausted.
Poll ==
  /\ client.pc = "poll"
  /\ client' = [client EXCEPT
       !.detail = getRun,
       !.polls = @ + 1,
       !.pc = CASE getRun \in TERMINAL_RUN_STATUSES -> "returned"
                [] client.polls + 1 >= MaxPolls -> "timedOut"
                [] OTHER -> "poll"]
  /\ UNCHANGED <<shown, streamVars, emitVars, faults>>

GetRunFails ==
  /\ client.pc \in {"detail", "poll"} /\ Fault
  /\ client' = [client EXCEPT !.pc = "rejected"]
  /\ UNCHANGED <<shown, streamVars, emitVars>>

\* The page leaves: signal.abort().
Abort ==
  /\ client.pc \notin Finished
  /\ client' = [client EXCEPT !.pc = "aborted"]
  /\ conn' = Closed /\ wire' = <<>>
  /\ UNCHANGED <<shown, lost, emitVars, faults>>

-----------------------------------------------------------------------------
Init ==
  /\ status = "queued"
  /\ log = {Created} /\ published = {1} /\ late = {}
  /\ producer = [p \in Producers |-> Idle]
  /\ conn = Closed /\ wire = <<>> /\ lost = {}
  /\ client = [pc |-> "connect", last |-> 0, reconnects |-> 0, polls |-> 0,
               detail |-> "queued"]
  /\ shown = {} /\ faults = 0

Emission == \E p \in Producers :
  getNextSequence(p) \/ Create(p) \/ Publish(p) \/ PublishFails(p)

Run ==
  \/ Cancel
  \/ \E w \in Workers :
       \/ Deliver(w) \/ Stall(w) \/ Crash(w)
       \/ ReadRun(w) \/ Begin(w) \/ Step(w) \/ WorkFails(w) \/ Persist(w)
       \/ Commit(w) \/ FailOrphan(w) \/ Catch(w)

Serve == Subscribe \/ LoadEvents \/ Merge \/ Message

Watch == Connect \/ ReadFrame \/ EndOfStream \/ BackoffEnds \/ FetchDetail
         \/ Poll

Trouble == MessageLost \/ StreamFails \/ ConnectFails \/ ConnectRefused
           \/ Break \/ GetRunFails \/ Abort

Next == Emission \/ Run \/ Serve \/ Watch \/ Trouble

Spec == Init /\ [][Next]_vars

\* The promises of the API process and of the page are resolved: Redis and
\* MongoDB answer or the call fails, and a fetch does not hang.
FairSpec == Spec /\ WF_vars(Serve) /\ WF_vars(Watch)

-----------------------------------------------------------------------------
(* Properties *)

\* The variables stay in their types; no emitter holds a number beyond the log.
TypeOK ==
  /\ status \in Statuses
  /\ log \subseteq Events /\ Created \in log
  /\ \A p \in Producers :
       /\ producer[p].pc \in {"idle", "read", "begin", "recover", "work",
                              "commit", "catch", "latest", "create", "publish",
                              "done", "thrown"}
       /\ producer[p].type \in EventTypes
       /\ producer[p].seq \in 0..Max({e.seq : e \in log}) + 1
  /\ published \subseteq {e.seq : e \in log} /\ late \subseteq published
  /\ conn.pc \in {"closed", "subscribing", "loading", "merging", "live"}
  /\ conn.last \in 0..MaxSeq
  /\ conn.backlog \subseteq log /\ conn.buffer \subseteq log
  /\ conn.inbox \in Seq(log) /\ wire \in Seq(log)
  /\ client.pc \in Finished \cup {"connect", "reading", "backoff", "detail",
                                  "poll"}
  /\ client.last \in 0..MaxSeq /\ client.reconnects \in 0..MaxReconnects
  /\ client.polls \in 0..MaxPolls /\ client.detail \in Statuses
  /\ shown \subseteq 1..client.last /\ lost \subseteq published
  /\ faults \in 0..MaxFaults

\* streamAgentRunEvents subscribes before it reads the backlog so that no
\* event falls between the two: an event the page has passed over was either
\* not published, or published after a later one, or dropped by Redis.
GapsComeFromPublishers ==
  \A n \in 1..client.last :
    n \in shown \/ n \notin published \/ n \in late \/ n \in lost

\* A terminal event that was published before any later event ends the
\* monitor, over broken connections, reconnections and polling, unless Redis
\* dropped a message.
TerminalEventEndsMonitor ==
  (\E e \in log : e.type \in TERMINAL_EVENT_TYPES /\ e.seq \in published \ late)
    ~> (client.pc \in Finished \/ lost # {})

\* The run has ended, and the fallback says it timed out waiting for it.
TimesOutOnlyOnUnendedRun ==
  client.pc = "timedOut" => client.detail \notin terminalAgentRunStatuses

\* EventFeed, with the log read in the order of its numbers; a number that no
\* event has is no event of the feed.
TypeAt(n) == LET types == {e.type : e \in {d \in log : d.seq = n}} IN
             IF types = {} THEN "missing" ELSE CHOOSE t \in types : TRUE
Feed == INSTANCE EventFeed WITH
  log <- [n \in 1..Cardinality(log) |-> TypeAt(n)],
  seen <- client.last,
  TerminalTypes <- TERMINAL_EVENT_TYPES

\* The log and the page keep the promises of EventFeed: dense numbers, shown
\* in order and once, nothing after a terminal event.
FeedSpec == Feed!Spec
=============================================================================
