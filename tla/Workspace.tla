----------------------------- MODULE Workspace -----------------------------
(***************************************************************************)
(* The builder page of the web client (AppBuilderPage.tsx with             *)
(* lib/appBuilderWorkspace.ts, lib/chatTimeline.ts, lib/chatWorkspace.ts). *)
(*                                                                         *)
(* The page is one thread with many unfinished calls.  Between two answers *)
(* the user may open another chat, so every continuation runs on a page    *)
(* that may no longer be the one it was started from.  The code protects   *)
(* some continuations with request numbers (routeRequestRef,               *)
(* refreshRequestRef, timelineRequestRef, submissionIdRef) or an           *)
(* AbortController and leaves others alone; the model keeps exactly those  *)
(* protections.  A request number is modelled by what comparing it tells:  *)
(* whether the call is still the latest of its kind.                       *)
(*                                                                         *)
(* A project is named by its chat, a snapshot by the run that made it:     *)
(* each project has one chat, as all that this page makes.  The API allows *)
(* several; the version shown may then be that of another chat.            *)
(***************************************************************************)
EXTENDS Naturals, FiniteSets, FiniteSetsExt

CONSTANTS Chats,       \* the chats of the account, those yet to be made included
          None,        \* no chat, no project, no such run
          FirstChats,  \* the chats there are when the page loads
          FirstRuns,   \* a function: the ended runs there are, as [chat, status]
          MaxRuns,     \* bound: runs ever made
          PageSize,    \* turns in one page of the timeline (20 in the code)
          MaxClicks,   \* bound: clicks of the user
          MaxFaults,   \* bound: calls that fail
          MaxCalls     \* bound: calls unfinished at one time

Ended == {"completed", "failed", "cancelled"}
Runs == 1 .. MaxRuns
NoRun == 0
PendingRun == MaxRuns + 1   \* `pending:<uuid>', before the run is known
Kinds == {"route", "timeline", "submit", "cancel", "select", "retry"}

ASSUME WorkspaceAssumption ==
    /\ FirstChats \subseteq Chats
    /\ None \notin Chats \cup Ended \cup {"active"}
    /\ \E n \in 0 .. MaxRuns : DOMAIN FirstRuns = 1 .. n
    /\ \A r \in DOMAIN FirstRuns :
          FirstRuns[r] \in [chat : FirstChats, status : Ended]
    /\ {MaxRuns, PageSize, MaxClicks, MaxFaults, MaxCalls} \subseteq Nat

VARIABLES
    chats,       \* the server: chats that exist
    home,        \* the server: the chat of a run
    status,      \* the server: the state of a run
    route,       \* chatId of the address bar; None is the home page
    project,     \* projectId
    gen,         \* workspace.generation: [status, run]
    snapshot,    \* workspace.snapshot
    history,     \* the project whose runs and snapshots are listed
    turns,       \* timeline.turns: the status shown for each run
    inFlight,    \* submissionInFlightRef
    pending,     \* pendingNavigationChatRef
    retrying,    \* retryingValidationRunId
    calls,       \* the unfinished calls, by number
    clicks, faults,
    crossed,     \* ghost: an unprotected continuation has been left behind
    raced        \* ghost: a load of the newest turns has been superseded

server == <<chats, home, status>>
shown == <<project, gen, snapshot, history, turns>>
refs == <<inFlight, pending, retrying>>
ghosts == <<crossed, raced>>
vars == <<server, route, shown, refs, calls, clicks, faults, ghosts>>

Blank == [r \in Runs |-> None]
Idle == [status |-> "idle", run |-> NoRun]

Call == [kind : Kinds,
         step : {"chat", "create", "monitor", "detail", "aborted", "refresh",
                 "project", "snapshot", "reply", "page", "loaded"},
         chat : Chats \cup {None},      \* chatId where the call was started
         project : Chats \cup {None},   \* projectId there, or the one made since
         run : Runs \cup {NoRun},
         live : BOOLEAN,                \* its number is the latest of its kind; of a
                                       \* retry: its end ends the retry
         fresh : BOOLEAN,               \* so is the refresh or load it awaits
         older : BOOLEAN,               \* it loads the turns before run
         atHome : BOOLEAN,              \* it was submitted on the home page
         page : [Runs -> Ended \cup {"active", None}]]

TypeOK ==
    /\ chats \subseteq Chats
    /\ home \in [Runs -> Chats \cup {None}]
    /\ status \in [Runs -> Ended \cup {"active", None}]
    /\ route \in Chats \cup {None}
    /\ project \in Chats \cup {None}
    /\ gen \in [status : {"idle", "running", "ready", "failed", "cancelled"},
                run : 0 .. PendingRun]
    /\ snapshot \in Runs \cup {NoRun}
    /\ history \in Chats \cup {None}
    /\ turns \in [Runs -> Ended \cup {"active", None}]
    /\ inFlight \in BOOLEAN
    /\ pending \in Chats \cup {None}
    /\ retrying \in BOOLEAN
    /\ DOMAIN calls \subseteq 1 .. MaxCalls
    /\ \A i \in DOMAIN calls : calls[i] \in Call
    /\ clicks \in 0 .. MaxClicks
    /\ faults \in 0 .. MaxFaults
    /\ crossed \in BOOLEAN
    /\ raced \in BOOLEAN

(***************************************************************************)
(* What the server answers.                                                *)
(***************************************************************************)

RunsOf(c) == {r \in Runs : home[r] = c /\ c # None}

\* The PageSize newest of the runs R as turns.
PageOf(R) ==
    [r \in Runs |-> IF r \in R /\ Cardinality({s \in R : s > r}) < PageSize
                      THEN status[r] ELSE None]

ActiveSnapshot(c) ==
    LET done == {r \in RunsOf(c) : status[r] = "completed"}
    IN  IF done = {} THEN NoRun ELSE Max(done)

NewRun(c, r) ==
    /\ r = Cardinality({s \in Runs : home[s] # None}) + 1
    /\ home' = [home EXCEPT ![r] = c]
    /\ status' = [status EXCEPT ![r] = "active"]

RunEnds(r, s) ==
    /\ status[r] = "active"
    /\ status' = [status EXCEPT ![r] = s]
    /\ UNCHANGED <<chats, home, route, shown, refs, calls, clicks, faults,
                   ghosts>>

(***************************************************************************)
(* The pure state functions of lib/.                                       *)
(***************************************************************************)

Panel(s) == CASE s = "completed" -> "ready" [] s = "active" -> "running" [] OTHER -> s

startApiGeneration(r) == [status |-> "running", run |-> r]

failApiGeneration == [gen EXCEPT !.status = "failed"]

\* The terminal event of run r with state s, in the generation panel.
applyAgentEvent(r, s) ==
    IF gen.run # r THEN gen ELSE [gen EXCEPT !.status = Panel(s)]

\* The detail of run r; a panel that shows no run takes any.
DetailAccepted(r) == gen.run \in {NoRun, r}

applyAgentRunDetail(r, s) ==
    IF DetailAccepted(r) THEN [status |-> Panel(s), run |-> r] ELSE gen

insertTimelineRun(r) ==
    IF turns[r] # None THEN turns ELSE [turns EXCEPT ![r] = "active"]

applyTimelineEvent(r, s) ==
    IF turns[r] = None THEN turns ELSE [turns EXCEPT ![r] = s]

\* A page of older turns: turns that are shown already keep their state.
mergeOlderTimelinePage(page) ==
    [r \in Runs |-> IF turns[r] # None THEN turns[r] ELSE page[r]]

(***************************************************************************)
(* Calls.                                                                  *)
(***************************************************************************)

New(kind, step, c, p, r) ==
    [kind |-> kind, step |-> step, chat |-> c, project |-> p, run |-> r,
     live |-> TRUE, fresh |-> TRUE, older |-> FALSE, atHome |-> FALSE,
     page |-> Blank]

Free == Min((1 .. MaxCalls + 1) \ DOMAIN calls)

Put(f, i, call) == [j \in DOMAIN f \cup {i} |-> IF j = i THEN call ELSE f[j]]

Drop(f, i) == [j \in DOMAIN f \ {i} |-> f[j]]

At(i, kind, step) == i \in DOMAIN calls /\ calls[i].kind = kind /\ calls[i].step = step

Loads == {"page", "loaded"}
Refreshes == {"refresh"}
Loading(k) == k.step \in Loads
Refreshing(k) == k.step \in Refreshes

\* The calls of f at these steps are superseded: their answers will be ignored.
Supersede(f, steps) ==
    [j \in DOMAIN f |-> IF f[j].step \in steps THEN [f[j] EXCEPT !.fresh = FALSE] ELSE f[j]]

\* monitorControllerRef.current?.abort(): retries have a controller of their own.
Monitored(k) == k.kind = "submit" /\ k.step \in {"monitor", "detail"}

AbortMonitor(f) ==
    [j \in DOMAIN f |->
        IF Monitored(f[j]) THEN [f[j] EXCEPT !.step = "aborted"] ELSE f[j]]

\* Call i goes on to await refreshProjectData, or loadTimeline.
StartRefresh(f, i, call) ==
    Put(Supersede(f, Refreshes), i, [call EXCEPT !.step = "refresh", !.fresh = TRUE])

\* Mutant: loadTimeline does not count its requests.
StartLoadUncounted(f, i, call) ==
    Put(f, i, [call EXCEPT !.step = "page", !.fresh = TRUE, !.page = Blank])

StartLoad(f, i, call) ==
    Put(Supersede(f, Loads), i,
        [call EXCEPT !.step = "page", !.fresh = TRUE, !.page = Blank])

\* One place stays free for the load that a call may start beside itself.
Click ==
    /\ Cardinality(DOMAIN calls) + 1 < MaxCalls
    /\ clicks < MaxClicks /\ clicks' = clicks + 1

\* A run is asked for only while one more can be made.
Asking(steps) == {i \in DOMAIN calls : calls[i].step \in steps /\ calls[i].kind # "route"}

RoomForRun ==
    Cardinality(Asking({"chat", "create"})) < Cardinality({r \in Runs : home[r] = None})

Fault == faults < MaxFaults /\ faults' = faults + 1

(***************************************************************************)
(* Navigation.                                                             *)
(***************************************************************************)

\* A continuation of k would write to whatever chat is open by then.
Unprotected(k) ==
    \/ k.kind \in {"cancel", "select", "retry"}
    \/ k.kind = "submit" /\ k.step \in {"chat", "create"} /\ k.live
    \/ k.kind = "submit" /\ k.step \in {"refresh", "page", "loaded"}

\* Route loads older than this one lose their number.
LeaveRoute(f) ==
    [j \in DOMAIN f |-> IF f[j].kind = "route" THEN [f[j] EXCEPT !.live = FALSE]
                                               ELSE f[j]]

\* The effect of chatId becoming c, on the calls f.
RouteEffect(c, f) ==
    LET left == LeaveRoute(f)
        cleared == AbortMonitor(Supersede(left, Loads))
    IN  /\ route' = c
        /\ crossed' = (crossed \/ \E j \in DOMAIN f : Unprotected(f[j]))
        /\ IF c # None /\ pending = c
             THEN /\ pending' = None
                  /\ calls' = left
                  /\ UNCHANGED shown
             ELSE /\ UNCHANGED pending
                  /\ project' = None
                  /\ gen' = Idle
                  /\ snapshot' = NoRun
                  /\ history' = None
                  /\ turns' = Blank
                  /\ IF c = None THEN calls' = cleared
                     ELSE calls' = Put(cleared, Free, New("route", "chat", c, None, NoRun))

\* A link of the history, or the back button of the browser.
Navigate(c) ==
    /\ c \in chats \cup {None} /\ c # route
    /\ Click
    /\ RouteEffect(c, calls)
    /\ UNCHANGED <<server, inFlight, retrying, faults, raced>>

\* The page forgets its submission: number and flag.
Forget(f) ==
    [j \in DOMAIN f |-> IF f[j].kind = "submit" THEN [f[j] EXCEPT !.live = FALSE]
                                                ELSE f[j]]

\* handleBackHome: on the home page the address does not change, and no effect runs.
BackHome ==
    /\ Click
    /\ inFlight' = FALSE
    /\ IF route # None
         THEN RouteEffect(None, AbortMonitor(Forget(calls)))
         ELSE /\ calls' = AbortMonitor(Forget(calls))
              /\ UNCHANGED <<route, shown, pending, crossed>>
    /\ UNCHANGED <<server, retrying, faults, raced>>

(***************************************************************************)
(* Opening a chat: chat, then timeline beside refresh and project, then    *)
(* the active snapshot.                                                    *)
(***************************************************************************)

\* Mutant: the loader does not ask whether its route is still open.
RoutedAlways(i) == i \in DOMAIN calls

\* The guard `requestId !== routeRequestRef.current' after each await.
Routed(i) == calls[i].live

RouteChat(i) ==
    /\ At(i, "route", "chat")
    /\ LET k == [calls[i] EXCEPT !.project = calls[i].chat]
           load == StartLoad(calls, Free, New("timeline", "page", k.chat, None, NoRun))
       IN IF ~Routed(i) THEN calls' = Drop(calls, i) /\ UNCHANGED project
          ELSE /\ Free <= MaxCalls
               /\ project' = k.project
               /\ calls' = StartRefresh(load, i, k)
    /\ UNCHANGED <<server, route, gen, snapshot, history, turns, refs, clicks,
                   faults, ghosts>>

RouteProject(i) ==
    /\ At(i, "route", "project")
    /\ calls' = IF Routed(i) /\ calls[i].run # NoRun
                  THEN [calls EXCEPT ![i].step = "snapshot"] ELSE Drop(calls, i)
    /\ UNCHANGED <<server, route, shown, refs, clicks, faults, ghosts>>

RouteSnapshot(i) ==
    /\ At(i, "route", "snapshot")
    /\ snapshot' = IF Routed(i) THEN calls[i].run ELSE snapshot
    /\ calls' = Drop(calls, i)
    /\ UNCHANGED <<server, route, project, gen, history, turns, refs, clicks,
                   faults, ghosts>>

\* The error page (routeError) is left out: the page keeps what it shows.
RouteFails(i) ==
    /\ i \in DOMAIN calls /\ calls[i].kind = "route"
    /\ Fault
    /\ calls' = Drop(calls, i)
    /\ UNCHANGED <<server, route, shown, refs, clicks, ghosts>>

(***************************************************************************)
(* A prompt.                                                               *)
(***************************************************************************)

\* The guards of submitPromptToAgent.
MaySubmit == gen.status # "running" /\ ~inFlight

Submit ==
    LET home1 == route = None
        k == [New("submit", IF home1 THEN "chat" ELSE "create", route, project, NoRun)
                EXCEPT !.atHome = home1]
    IN  /\ MaySubmit
        /\ home1 => Cardinality(Asking({"chat"})) < Cardinality(Chats \ chats)
        /\ RoomForRun
        /\ Click
        /\ inFlight' = TRUE
        /\ gen' = startApiGeneration(PendingRun)
        /\ calls' = Put(Forget(calls), Free, k)
        /\ UNCHANGED <<server, route, project, snapshot, history, turns, pending,
                       retrying, faults, ghosts>>

\* createDemoProject and chatApi.create.
MakeChat(i, c) ==
    /\ At(i, "submit", "chat")
    /\ c \in Chats \ chats
    /\ chats' = chats \cup {c}
    /\ calls' = [calls EXCEPT ![i].step = "create", ![i].chat = c, ![i].project = c]
    /\ UNCHANGED <<home, status, route, shown, refs, clicks, faults, ghosts>>

\* createRun answers.  A submission made on the home page opens its chat, and
\* the effect of that navigation finds pendingNavigationChatRef and loads
\* nothing; when the chat is open already there is no effect.
CreateRun(i, r) ==
    LET k == calls[i]
        monitored == Put(AbortMonitor(calls), i, [k EXCEPT !.step = "monitor", !.run = r])
        opens == k.atHome /\ route # k.chat
    IN  /\ At(i, "submit", "create")
        /\ k.project # None
        /\ NewRun(k.chat, r)
        /\ IF ~k.live
             THEN calls' = Drop(calls, i) /\ UNCHANGED <<route, shown, pending, crossed>>
             ELSE /\ gen' = startApiGeneration(r)
                  /\ turns' = insertTimelineRun(r)
                  /\ project' = IF k.atHome THEN k.project ELSE project
                  /\ route' = IF k.atHome THEN k.chat ELSE route
                  /\ pending' = IF ~k.atHome THEN pending
                                ELSE IF opens THEN None ELSE k.chat
                  /\ calls' = IF opens THEN LeaveRoute(monitored) ELSE monitored
                  /\ crossed' = \/ crossed
                                \/ opens /\ \E j \in DOMAIN calls \ {i} : Unprotected(calls[j])
                  /\ UNCHANGED <<snapshot, history>>
        /\ UNCHANGED <<chats, inFlight, retrying, clicks, faults, raced>>

\* Mutant: the flag is given back by the paths that succeed or fail alone.
FinallyUnlessAborted(i) ==
    inFlight' = (inFlight /\ (calls[i].step = "aborted" \/ ~calls[i].live))

\* The finally block: the flag belongs to the latest submission.
Finally(i) == inFlight' = (inFlight /\ ~calls[i].live)

\* The catch block for an error that is no abort: the panel fails, and the turn
\* of the run, when it is shown, gets a run.failed made up by the page.
Catch(i) ==
    LET r == calls[i].run IN
    /\ IF ~calls[i].live THEN UNCHANGED <<gen, turns>>
       ELSE /\ gen' = failApiGeneration
            /\ turns' = IF r = NoRun THEN turns ELSE applyTimelineEvent(r, "failed")
    /\ Finally(i)
    /\ calls' = Drop(calls, i)

\* An error before the run is known: the project is not loaded yet, or the
\* call fails, before or after the server made the run.
CreateFails(i) ==
    /\ At(i, "submit", "chat") \/ At(i, "submit", "create")
    /\ IF calls[i].step = "create" /\ calls[i].project = None
         THEN UNCHANGED <<home, status, faults>>
         ELSE /\ Fault
              /\ \/ UNCHANGED <<home, status>>
                 \/ /\ calls[i].step = "create"
                    /\ \E r \in Runs : NewRun(calls[i].chat, r)
    /\ Catch(i)
    /\ UNCHANGED <<chats, route, project, snapshot, history, pending, retrying,
                   clicks, ghosts>>

(***************************************************************************)
(* Following a run to its end.                                             *)
(***************************************************************************)

\* The stream hands over the event that ends the run.
MonitorEvent(i) ==
    LET r == calls[i].run IN
    /\ At(i, "submit", "monitor") /\ status[r] \in Ended
    /\ gen' = applyAgentEvent(r, status[r])
    /\ turns' = applyTimelineEvent(r, status[r])
    /\ calls' = [calls EXCEPT ![i].step = "detail"]
    /\ UNCHANGED <<server, route, project, snapshot, history, refs, clicks,
                   faults, ghosts>>

\* monitorAgentRun returns the run with its snapshot.
MonitorReturns(i) ==
    LET r == calls[i].run IN
    /\ At(i, "submit", "detail")
    /\ gen' = applyAgentRunDetail(r, status[r])
    /\ snapshot' = IF DetailAccepted(r) /\ status[r] = "completed" THEN r ELSE snapshot
    /\ calls' = StartRefresh(calls, i, calls[i])
    /\ UNCHANGED <<server, route, project, history, turns, refs, clicks, faults,
                   ghosts>>

MonitorFails(i) ==
    /\ i \in DOMAIN calls /\ Monitored(calls[i])
    /\ Fault
    /\ Catch(i)
    /\ UNCHANGED <<server, route, project, snapshot, history, pending, retrying,
                   clicks, ghosts>>

\* An AbortError only runs the finally block.
Aborted(i) ==
    /\ At(i, "submit", "aborted")
    /\ Finally(i)
    /\ calls' = Drop(calls, i)
    /\ UNCHANGED <<server, route, shown, pending, retrying, clicks, faults, ghosts>>

(***************************************************************************)
(* refreshProjectData and loadTimeline, with what their callers do next.   *)
(***************************************************************************)

\* Mutant: an answer is taken whatever has been asked for since.
RefreshIsAlwaysLatest(i) == i \in DOMAIN calls

\* `requestId !== refreshRequestRef.current'.
RefreshIsLatest(i) == calls[i].fresh

\* `requestId !== timelineRequestRef.current'.
LoadIsLatest(i) == calls[i].fresh

Retrying(k) == k.kind = "retry" /\ k.live

\* The rejected Promise.all of a retry lets go of its other half, a load that goes
\* on by itself.
LetGo(f) ==
    [j \in DOMAIN f |-> IF f[j].kind = "retry" THEN [f[j] EXCEPT !.live = FALSE]
                                               ELSE f[j]]

\* The finally block of a retry runs when both halves of its Promise.all are over,
\* or the load of its catch block is.
RetryOver(i) ==
    retrying' = (retrying /\ \/ ~Retrying(calls[i])
                             \/ \E j \in DOMAIN calls \ {i} : Retrying(calls[j]))

RefreshArrives(i) ==
    LET k == calls[i] IN
    /\ i \in DOMAIN calls /\ Refreshing(k)
    /\ history' = IF RefreshIsLatest(i) THEN k.project ELSE history
    /\ calls' = CASE k.kind = "route" ->
                       [calls EXCEPT
                          ![i].step = "project",
                          ![i].run = IF RefreshIsLatest(i) THEN ActiveSnapshot(k.chat) ELSE NoRun]
                  [] k.kind = "retry" -> Drop(calls, i)
                  [] OTHER -> StartLoad(calls, i, k)
    /\ RetryOver(i)
    /\ UNCHANGED <<server, route, project, gen, snapshot, turns, inFlight, pending,
                   clicks, faults, ghosts>>

\* The catch block of a retry loads the timeline once more.
RefreshFails(i) ==
    LET k == calls[i] IN
    /\ i \in DOMAIN calls /\ Refreshing(k) /\ k.kind # "route"
    /\ Fault
    /\ \/ k.kind = "submit" /\ Catch(i)
       \/ /\ k.kind = "cancel"
          /\ gen' = failApiGeneration
          /\ calls' = Drop(calls, i)
          /\ UNCHANGED <<turns, inFlight>>
       \/ /\ k.kind = "retry"
          /\ calls' = StartLoad(LetGo(calls), i, k)
          /\ UNCHANGED <<gen, turns, inFlight>>
    /\ UNCHANGED <<server, route, project, snapshot, history, pending, retrying,
                   clicks, ghosts>>

\* The server reads the page; the answer may wait.
LoadAnswered(i) ==
    LET k == calls[i] IN
    /\ i \in DOMAIN calls /\ k.step = "page"
    /\ calls' = [calls EXCEPT
                   ![i].step = "loaded",
                   ![i].page = PageOf({r \in RunsOf(k.chat) : k.older => r < k.run})]
    /\ UNCHANGED <<server, route, shown, refs, clicks, faults, ghosts>>

LoadOver(i) ==
    /\ IF calls[i].kind = "submit" THEN Finally(i) ELSE UNCHANGED inFlight
    /\ RetryOver(i)
    /\ calls' = Drop(calls, i)

LoadArrives(i) ==
    LET k == calls[i] IN
    /\ i \in DOMAIN calls /\ k.step = "loaded"
    /\ turns' = IF ~LoadIsLatest(i) THEN turns
                ELSE IF k.older THEN mergeOlderTimelinePage(k.page) ELSE k.page
    /\ LoadOver(i)
    /\ UNCHANGED <<server, route, project, gen, snapshot, history, pending, clicks,
                   faults, ghosts>>

LoadFails(i) ==
    /\ i \in DOMAIN calls /\ Loading(calls[i])
    /\ Fault
    /\ LoadOver(i)
    /\ UNCHANGED <<server, route, shown, pending, clicks, ghosts>>

\* Load the turns before the oldest one shown.
LoadOlder ==
    LET oldest == Min({r \in Runs : turns[r] # None})
        k == [New("timeline", "page", route, None, oldest) EXCEPT !.older = TRUE]
    IN  /\ route # None
        /\ \E r \in Runs : turns[r] # None
        /\ \E r \in RunsOf(route) : r < oldest
        /\ Click
        /\ calls' = StartLoad(calls, Free, k)
        /\ raced' = (raced \/ \E j \in DOMAIN calls :
                                Loading(calls[j]) /\ calls[j].fresh /\ ~calls[j].older)
        /\ UNCHANGED <<server, route, shown, refs, faults, crossed>>

(***************************************************************************)
(* Cancelling, looking at an earlier version, retrying a validation.       *)
(***************************************************************************)

\* isCancellableRunId: a submission whose run is not known cannot be cancelled.
Cancel ==
    /\ gen.status = "running" /\ gen.run \in Runs
    /\ Click
    /\ calls' = Put(AbortMonitor(calls), Free, New("cancel", "reply", route, project, gen.run))
    /\ UNCHANGED <<server, route, shown, refs, faults, ghosts>>

CancelAnswered(i) ==
    LET k == calls[i]
        s == IF status[k.run] = "active" THEN "cancelled" ELSE status[k.run]
    IN  /\ At(i, "cancel", "reply")
        /\ status' = [status EXCEPT ![k.run] = s]
        /\ gen' = applyAgentRunDetail(k.run, s)
        /\ calls' = CASE k.project # None -> StartRefresh(calls, i, k)
                      [] k.project = None /\ k.chat # None -> StartLoad(calls, i, k)
                      [] OTHER -> Drop(calls, i)
        /\ UNCHANGED <<chats, home, route, project, snapshot, history, turns, refs,
                       clicks, faults, ghosts>>

\* The call fails, or is refused as the run is persisting by now: the panel says
\* the run failed.
CancelFails(i) ==
    /\ At(i, "cancel", "reply")
    /\ Fault
    /\ gen' = failApiGeneration
    /\ calls' = Drop(calls, i)
    /\ UNCHANGED <<server, route, project, snapshot, history, turns, refs, clicks,
                   ghosts>>

SelectSnapshot(r) ==
    /\ turns[r] = "completed" /\ project # None
    /\ Click
    /\ calls' = Put(calls, Free, New("select", "snapshot", route, project, r))
    /\ UNCHANGED <<server, route, shown, refs, faults, ghosts>>

SelectArrives(i) ==
    /\ At(i, "select", "snapshot")
    /\ snapshot' = calls[i].run
    /\ calls' = Drop(calls, i)
    /\ UNCHANGED <<server, route, project, gen, history, turns, refs, clicks,
                   faults, ghosts>>

RetryValidation(r) ==
    /\ turns[r] = "failed" /\ ~retrying /\ project # None /\ route # None
    /\ RoomForRun
    /\ Click
    /\ retrying' = TRUE
    /\ calls' = Put(calls, Free, New("retry", "create", route, project, r))
    /\ UNCHANGED <<server, route, shown, inFlight, pending, faults, ghosts>>

\* A retry is a run of its own in the chat of the run it repeats.
RetryMade(i, r) ==
    /\ At(i, "retry", "create")
    /\ NewRun(calls[i].chat, r)
    /\ turns' = insertTimelineRun(r)
    /\ calls' = [calls EXCEPT ![i].step = "monitor", ![i].run = r]
    /\ UNCHANGED <<chats, route, project, gen, snapshot, history, refs, clicks,
                   faults, ghosts>>

RetryEvent(i) ==
    LET r == calls[i].run IN
    /\ At(i, "retry", "monitor") /\ status[r] \in Ended
    /\ turns' = applyTimelineEvent(r, status[r])
    /\ calls' = [calls EXCEPT ![i].step = "detail"]
    /\ UNCHANGED <<server, route, project, gen, snapshot, history, refs, clicks,
                   faults, ghosts>>

RetryReturns(i) ==
    LET k == calls[i] IN
    /\ At(i, "retry", "detail") /\ Free <= MaxCalls
    /\ calls' = StartLoad(StartRefresh(calls, i, k), Free, k)
    /\ UNCHANGED <<server, route, shown, refs, clicks, faults, ghosts>>

RetryFails(i) ==
    /\ i \in DOMAIN calls /\ calls[i].kind = "retry"
    /\ calls[i].step \in {"create", "monitor", "detail"}
    /\ Fault
    /\ calls' = StartLoad(calls, i, calls[i])
    /\ UNCHANGED <<server, route, shown, refs, clicks, ghosts>>

----------------------------------------------------------------------------

Init ==
    /\ chats = FirstChats
    /\ home = [r \in Runs |-> IF r \in DOMAIN FirstRuns THEN FirstRuns[r].chat ELSE None]
    /\ status = [r \in Runs |-> IF r \in DOMAIN FirstRuns THEN FirstRuns[r].status ELSE None]
    /\ route = None /\ project = None /\ gen = Idle /\ snapshot = NoRun
    /\ history = None /\ turns = Blank
    /\ inFlight = FALSE /\ pending = None /\ retrying = FALSE
    /\ calls = <<>>
    /\ clicks = 0 /\ faults = 0 /\ crossed = FALSE /\ raced = FALSE

User ==
    \/ \E c \in Chats \cup {None} : Navigate(c)
    \/ BackHome \/ Submit \/ LoadOlder \/ Cancel
    \/ \E r \in Runs : SelectSnapshot(r) \/ RetryValidation(r)

\* Call i is answered.
Answered(i) ==
    \/ RouteChat(i) \/ RouteProject(i) \/ RouteSnapshot(i)
    \/ \E c \in Chats : MakeChat(i, c)
    \/ \E r \in Runs : CreateRun(i, r) \/ RetryMade(i, r)
    \/ MonitorEvent(i) \/ MonitorReturns(i) \/ Aborted(i)
    \/ RefreshArrives(i) \/ LoadAnswered(i) \/ LoadArrives(i)
    \/ CancelAnswered(i) \/ SelectArrives(i) \/ RetryEvent(i) \/ RetryReturns(i)

Failed(i) ==
    \/ RouteFails(i) \/ CreateFails(i) \/ MonitorFails(i) \/ RefreshFails(i)
    \/ LoadFails(i) \/ CancelFails(i) \/ RetryFails(i)

Next ==
    \/ User
    \/ \E i \in 1 .. MaxCalls : Answered(i) \/ Failed(i)
    \/ \E r \in Runs, s \in {"completed", "failed"} : RunEnds(r, s)

\* Calls do not all wait for ever: some call is answered or fails, and some
\* run ends.  Fairness of each one would be justified, and is not needed.
Fairness ==
    /\ WF_vars(\E i \in 1 .. MaxCalls : Answered(i) \/ Failed(i))
    /\ WF_vars(\E r \in Runs, s \in {"completed", "failed"} : RunEnds(r, s))

Spec == Init /\ [][Next]_vars

FairSpec == Spec /\ Fairness

(***************************************************************************)
(* Properties.                                                             *)
(***************************************************************************)

InChat(r) == r \in Runs => home[r] = route

\* Unless a continuation the code does not protect was left behind, everything
\* but the list of versions belongs to the open chat, however late the answers
\* of the chats opened before come in.
ShownIsOfOpenChat ==
    ~crossed => /\ project \in {None, route}
                /\ InChat(gen.run) /\ InChat(snapshot)
                /\ \A r \in Runs : turns[r] # None => home[r] = route

\* The list of runs and versions settles on the open chat: once nothing is
\* under way, no late answer of another project is left in it.
HistorySettles ==
    (~crossed /\ faults = 0 /\ DOMAIN calls = {} /\ route # None)
      => history \in {None, route}

\* The list of versions never shows another project.
HistoryIsOfOpenChat == history \in {None, route}

\* When nothing is under way and no call failed, the panel and the timeline agree
\* on the run the panel shows: an old answer does not bring its end back to life.
PanelAgreesWithTimeline ==
    (~crossed /\ ~raced /\ faults = 0 /\ DOMAIN calls = {} /\ gen.run \in Runs)
      => turns[gen.run] = None \/ Panel(turns[gen.run]) = gen.status

\* New Chat clicked on the home page before the run of a submission is known:
\* the address stays, so no effect clears the panel, and the answer that would
\* end it is dropped.
GivenUpAtHome ==
    route = None /\ gen = startApiGeneration(PendingRun)
    /\ \A i \in DOMAIN calls : ~(calls[i].kind = "submit" /\ calls[i].live)

AtRest == ~retrying /\ (MaySubmit \/ (GivenUpAtHome /\ ~inFlight))

\* Once the user leaves the page alone the composer and the retry button become free,
\* whatever was aborted, superseded or failed before, with one exception: after
\* New Chat on the home page in the middle of a submission the panel shows that
\* submission as running and the composer stays disabled for good
\* (NewChatFrees).  (The bound on clicks makes the user stop.)
ComesToRest == <>[]AtRest

\* New Chat ends the work under way: once the user leaves the home page alone its
\* composer is free.  It need not be: see GivenUpAtHome.
NewChatFrees == <>[](route = None => MaySubmit)
=============================================================================
