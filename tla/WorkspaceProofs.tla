--------------------------- MODULE WorkspaceProofs ---------------------------
(***************************************************************************)
(* Theorems about the builder page of the web client, for any chats, runs, *)
(* numbers of clicks, failures and unfinished calls, and for any length of *)
(* a page of the timeline: what the page shows belongs to the open chat,   *)
(* the list of versions settles on it, and the panel and the timeline come *)
(* to agree on the run they show.                                          *)
(*                                                                         *)
(* Four invariants, each resting on those before it:                       *)
(*   BaseInv     what an unfinished call may be, and that of each kind of  *)
(*               request number at most one call holds the latest;         *)
(*   OpenInv     what is shown, and what a call may still write, belongs   *)
(*               to the open chat;                                         *)
(*   HistoryInv  while the list of versions is of another chat, some call  *)
(*               will still load it again;                                 *)
(*   PanelInv    a panel that runs is watched, one that has ended shows    *)
(*               how, and while the timeline may say otherwise some call   *)
(*               will still load it again.                                 *)
(***************************************************************************)
EXTENDS Workspace, FiniteSetTheorems, WellFoundedInduction, TLAPS

-----------------------------------------------------------------------------
(***************************************************************************)
(* What a step does to the calls: it adds, drops or changes a few, X, and  *)
(* the others only lose what W names.                                      *)
(***************************************************************************)

\* The load whose answer will be taken: its number is timelineRequestRef.current.
FreshLoad(k) == k.step \in Loads /\ k.fresh
\* Runs are numbered in the order they are made.
Numbered == \E n \in 0 .. MaxRuns : \A r \in Runs : home[r] # None <=> r <= n

\* Min and Max of the community modules, on the sets they are used on.
LEMMA Least ==
  ASSUME NEW S \in SUBSET Nat, S # {}
  PROVE  Min(S) \in S /\ \A n \in S : Min(S) <= n
<1> DEFINE R == OpToRel(<, Nat)
<1>1. IsWellFoundedOn(R, Nat)
  BY NatLessThanWellFounded, Zenon
<1>2. \A x, y \in Nat : <<y, x>> \in R <=> y < x
  BY DEF OpToRel
<1> HIDE DEF R
<1>3. PICK x \in S : \A y \in S : ~ (<<y, x>> \in R)
  BY <1>1, WFMin
<1>4. ASSUME NEW y \in S PROVE x =< y
  <2>1. x \in Nat /\ y \in Nat /\ ~ (y < x)
    BY <1>2, <1>3
  <2> QED BY <2>1
<1> QED BY <1>4 DEF Min

LEMMA Greatest ==
  ASSUME NEW n \in Nat, NEW S \in SUBSET (0 .. n), S # {}
  PROVE  Max(S) \in S /\ \A m \in S : Max(S) >= m
<1> DEFINE T == {n - m : m \in S}
<1>1. T \in SUBSET Nat /\ T # {}
  <2>1. \A m \in S : n - m \in Nat
    OBVIOUS
  <2>2. PICK s \in S : TRUE
    OBVIOUS
  <2>3. n - s \in T
    BY <2>2
  <2> QED BY <2>1, <2>3
<1>2. Min(T) \in T /\ \A m \in T : Min(T) <= m
  BY <1>1, Least
<1>3. PICK x \in S : Min(T) = n - x
  BY <1>2
<1>4. \A m \in S : x >= m
  <2>1. \A m \in S : n - x <= n - m
    BY <1>2, <1>3
  <2> QED BY <2>1
<1> QED BY <1>4 DEF Max

\* The number of a new call is not that of an unfinished one.
LEMMA FreeIs ==
  ASSUME TypeOK
  PROVE  Free \in 1 .. MaxCalls + 1 /\ Free \notin DOMAIN calls
<1> DEFINE S == (1 .. MaxCalls + 1) \ DOMAIN calls
<1>1. MaxCalls \in Nat /\ DOMAIN calls \subseteq 1 .. MaxCalls
  BY WorkspaceAssumption DEF WorkspaceAssumption, TypeOK
<1>2. S \in SUBSET Nat /\ MaxCalls + 1 \in S
  BY <1>1
<1>3. Min(S) \in S
  BY <1>2, Least
<1> QED BY <1>3 DEF Free

LEMMA ClickFree ==
  ASSUME TypeOK, Click
  PROVE  Free \in 1 .. MaxCalls /\ Free \notin DOMAIN calls
<1> DEFINE S == (1 .. MaxCalls + 1) \ DOMAIN calls
<1>1. MaxCalls \in Nat /\ DOMAIN calls \subseteq 1 .. MaxCalls
  BY WorkspaceAssumption DEF WorkspaceAssumption, TypeOK
<1>2. IsFiniteSet(1 .. MaxCalls) /\ Cardinality(1 .. MaxCalls) = MaxCalls
  BY <1>1, FS_Interval
<1>3. Cardinality(DOMAIN calls) < MaxCalls
  <2>1. IsFiniteSet(DOMAIN calls)
    BY <1>1, <1>2, FS_Subset
  <2>2. Cardinality(DOMAIN calls) \in Nat
    BY <2>1, FS_CardinalityType
  <2> QED BY <1>1, <2>2 DEF Click
<1>4. DOMAIN calls # 1 .. MaxCalls
  BY <1>1, <1>2, <1>3
<1>5. PICK n \in 1 .. MaxCalls : n \notin DOMAIN calls
  BY <1>1, <1>4
<1>6. S \in SUBSET Nat /\ n \in S
  BY <1>1, <1>5
<1>7. Min(S) \in S /\ Min(S) <= n
  BY <1>6, Least
<1> QED BY <1>1, <1>5, <1>7 DEF Free

\* What other calls can take from a call: its controller is aborted ("abort"),
\* its route or submission is left ("leave", "forget"), the retry it is a half of
\* lets go of it, a newer request of its kind supersedes it (the steps at which it
\* waits).
Switches == {"abort", "leave", "forget", "let go"} \cup Loads \cup Refreshes

SameCall(k, c) ==
  /\ c.kind = k.kind /\ c.chat = k.chat /\ c.project = k.project
  /\ c.run = k.run /\ c.older = k.older /\ c.atHome = k.atHome

\* Call k after a step that took W from it, if it had it.
Faded(k, c, W) ==
  /\ c \in Call
  /\ SameCall(k, c) /\ c.page = k.page
  /\ c.live <=> /\ k.live
                /\ ~ ("leave" \in W /\ k.kind = "route")
                /\ ~ ("forget" \in W /\ k.kind = "submit")
                /\ ~ ("let go" \in W /\ k.kind = "retry")
  /\ c.fresh <=> k.fresh /\ k.step \notin W
  /\ c.step = IF "abort" \in W /\ Monitored(k) THEN "aborted" ELSE k.step

Typed(f) == \A j \in DOMAIN f : f[j] \in Call

Fades(f, g, W) ==
  DOMAIN g = DOMAIN f /\ \A j \in DOMAIN f : Faded(f[j], g[j], W)

LEMMA FadedNot ==
  ASSUME NEW k \in Call
  PROVE  Faded(k, k, {})
BY DEF Faded, SameCall

LEMMA NotFades ==
  ASSUME NEW f, Typed(f)
  PROVE  Fades(f, f, {})
BY FadedNot DEF Fades, Typed

LEMMA FadesTyped ==
  ASSUME NEW f, NEW g, NEW W, Fades(f, g, W)
  PROVE  Typed(g) /\ DOMAIN g = DOMAIN f
BY DEF Fades, Typed, Faded

\* One field of a call changes.
LEMMA NotLatest ==
  ASSUME NEW k \in Call, NEW c, c = [k EXCEPT !.live = FALSE]
  PROVE  /\ c \in Call /\ SameCall(k, c) /\ c.page = k.page
         /\ c.live = FALSE /\ c.fresh = k.fresh /\ c.step = k.step
<1>1. c \in Call
  BY DEF Call
<1>2. SameCall(k, c)
  BY DEF SameCall, Call
<1> QED BY <1>1, <1>2 DEF Call

LEMMA NotFresh ==
  ASSUME NEW k \in Call, NEW c, c = [k EXCEPT !.fresh = FALSE]
  PROVE  /\ c \in Call /\ SameCall(k, c) /\ c.page = k.page
         /\ c.live = k.live /\ c.fresh = FALSE /\ c.step = k.step
<1>1. c \in Call
  BY DEF Call
<1>2. SameCall(k, c)
  BY DEF SameCall, Call
<1> QED BY <1>1, <1>2 DEF Call

LEMMA IsAborted ==
  ASSUME NEW k \in Call, NEW c, c = [k EXCEPT !.step = "aborted"]
  PROVE  /\ c \in Call /\ SameCall(k, c) /\ c.page = k.page
         /\ c.live = k.live /\ c.fresh = k.fresh /\ c.step = "aborted"
<1>1. c \in Call
  BY DEF Call
<1>2. SameCall(k, c)
  BY DEF SameCall, Call
<1> QED BY <1>1, <1>2 DEF Call

LEMMA SupersedeFades ==
  ASSUME NEW f, Typed(f), NEW S \in {Loads, Refreshes}
  PROVE  Fades(f, Supersede(f, S), S)
<1> DEFINE g == Supersede(f, S)
<1>1. DOMAIN g = DOMAIN f
  BY DEF Supersede
<1>2. ASSUME NEW j \in DOMAIN f PROVE Faded(f[j], g[j], S)
  <2>1. f[j] \in Call
    BY DEF Typed
  <2>2. g[j] = IF f[j].step \in S THEN [f[j] EXCEPT !.fresh = FALSE] ELSE f[j]
    BY DEF Supersede
  <2>3. "abort" \notin S /\ "leave" \notin S /\ "forget" \notin S /\ "let go" \notin S
    BY DEF Loads, Refreshes
  <2>4. CASE f[j].step \in S
    <3>1. /\ g[j] \in Call /\ g[j].fresh = FALSE /\ g[j].live = f[j].live
          /\ g[j].step = f[j].step /\ g[j].page = f[j].page /\ SameCall(f[j], g[j])
      BY <2>1, <2>2, <2>4, NotFresh
    <3> QED BY <2>3, <2>4, <3>1 DEF Faded
  <2>5. CASE f[j].step \notin S
    <3>1. g[j] = f[j]
      BY <2>2, <2>5
    <3> QED BY <2>1, <2>3, <2>5, <3>1 DEF Faded, SameCall
  <2> QED BY <2>4, <2>5
<1> QED BY <1>1, <1>2 DEF Fades

LEMMA AbortFades ==
  ASSUME NEW f, Typed(f)
  PROVE  Fades(f, AbortMonitor(f), {"abort"})
<1> DEFINE g == AbortMonitor(f)
<1>1. DOMAIN g = DOMAIN f
  BY DEF AbortMonitor
<1>2. ASSUME NEW j \in DOMAIN f PROVE Faded(f[j], g[j], {"abort"})
  <2>1. f[j] \in Call
    BY DEF Typed
  <2>2. g[j] = IF Monitored(f[j]) THEN [f[j] EXCEPT !.step = "aborted"] ELSE f[j]
    BY DEF AbortMonitor
  <2>3. f[j].step # "abort"
    BY <2>1 DEF Call
  <2>4. CASE Monitored(f[j])
    <3>1. /\ g[j] \in Call /\ SameCall(f[j], g[j]) /\ g[j].page = f[j].page
          /\ g[j].fresh = f[j].fresh
          /\ g[j].step = "aborted" /\ g[j].live = f[j].live
      BY <2>1, <2>2, <2>4, IsAborted
    <3> QED BY <2>3, <2>4, <3>1 DEF Faded
  <2>5. CASE ~ (Monitored(f[j]))
    <3>1. g[j] = f[j]
      BY <2>2, <2>5
    <3> QED BY <2>1, <2>3, <2>5, <3>1 DEF Faded, SameCall
  <2> QED BY <2>4, <2>5
<1> QED BY <1>1, <1>2 DEF Fades

LEMMA LeaveFades ==
  ASSUME NEW f, Typed(f)
  PROVE  Fades(f, LeaveRoute(f), {"leave"})
<1> DEFINE g == LeaveRoute(f)
<1>1. DOMAIN g = DOMAIN f
  BY DEF LeaveRoute
<1>2. ASSUME NEW j \in DOMAIN f PROVE Faded(f[j], g[j], {"leave"})
  <2>1. f[j] \in Call
    BY DEF Typed
  <2>2. g[j] = IF f[j].kind = "route" THEN [f[j] EXCEPT !.live = FALSE] ELSE f[j]
    BY DEF LeaveRoute
  <2>3. f[j].step # "leave"
    BY <2>1 DEF Call
  <2>4. CASE f[j].kind = "route"
    <3>1. /\ g[j] \in Call /\ SameCall(f[j], g[j]) /\ g[j].page = f[j].page
          /\ g[j].fresh = f[j].fresh
          /\ g[j].step = f[j].step /\ g[j].live = FALSE
      BY <2>1, <2>2, <2>4, NotLatest
    <3> QED BY <2>3, <2>4, <3>1 DEF Faded
  <2>5. CASE ~ (f[j].kind = "route")
    <3>1. g[j] = f[j]
      BY <2>2, <2>5
    <3> QED BY <2>1, <2>3, <2>5, <3>1 DEF Faded, SameCall
  <2> QED BY <2>4, <2>5
<1> QED BY <1>1, <1>2 DEF Fades

LEMMA ForgetFades ==
  ASSUME NEW f, Typed(f)
  PROVE  Fades(f, Forget(f), {"forget"})
<1> DEFINE g == Forget(f)
<1>1. DOMAIN g = DOMAIN f
  BY DEF Forget
<1>2. ASSUME NEW j \in DOMAIN f PROVE Faded(f[j], g[j], {"forget"})
  <2>1. f[j] \in Call
    BY DEF Typed
  <2>2. g[j] = IF f[j].kind = "submit" THEN [f[j] EXCEPT !.live = FALSE] ELSE f[j]
    BY DEF Forget
  <2>3. f[j].step # "forget"
    BY <2>1 DEF Call
  <2>4. CASE f[j].kind = "submit"
    <3>1. /\ g[j] \in Call /\ SameCall(f[j], g[j]) /\ g[j].page = f[j].page
          /\ g[j].fresh = f[j].fresh
          /\ g[j].step = f[j].step /\ g[j].live = FALSE
      BY <2>1, <2>2, <2>4, NotLatest
    <3> QED BY <2>3, <2>4, <3>1 DEF Faded
  <2>5. CASE ~ (f[j].kind = "submit")
    <3>1. g[j] = f[j]
      BY <2>2, <2>5
    <3> QED BY <2>1, <2>3, <2>5, <3>1 DEF Faded, SameCall
  <2> QED BY <2>4, <2>5
<1> QED BY <1>1, <1>2 DEF Fades

LEMMA LetGoFades ==
  ASSUME NEW f, Typed(f)
  PROVE  Fades(f, LetGo(f), {"let go"})
<1> DEFINE g == LetGo(f)
<1>1. DOMAIN g = DOMAIN f
  BY DEF LetGo
<1>2. ASSUME NEW j \in DOMAIN f PROVE Faded(f[j], g[j], {"let go"})
  <2>1. f[j] \in Call
    BY DEF Typed
  <2>2. g[j] = IF f[j].kind = "retry" THEN [f[j] EXCEPT !.live = FALSE] ELSE f[j]
    BY DEF LetGo
  <2>3. f[j].step # "let go"
    BY <2>1 DEF Call
  <2>4. CASE f[j].kind = "retry"
    <3>1. /\ g[j] \in Call /\ SameCall(f[j], g[j]) /\ g[j].page = f[j].page
          /\ g[j].fresh = f[j].fresh
          /\ g[j].step = f[j].step /\ g[j].live = FALSE
      BY <2>1, <2>2, <2>4, NotLatest
    <3> QED BY <2>3, <2>4, <3>1 DEF Faded
  <2>5. CASE ~ (f[j].kind = "retry")
    <3>1. g[j] = f[j]
      BY <2>2, <2>5
    <3> QED BY <2>1, <2>3, <2>5, <3>1 DEF Faded, SameCall
  <2> QED BY <2>4, <2>5
<1> QED BY <1>1, <1>2 DEF Fades

\* Two such steps, one after the other.
LEMMA FadedTwice ==
  ASSUME NEW k \in Call, NEW c, NEW d, NEW V \in SUBSET Switches, NEW W \in SUBSET Switches,
         Faded(k, c, V), Faded(c, d, W)
  PROVE  Faded(k, d, V \cup W)
<1>1. d \in Call /\ SameCall(k, d) /\ d.page = k.page
  BY DEF Faded, SameCall
<1>2. c.kind = k.kind
  BY DEF Faded, SameCall
<1>3. Monitored(k) => k.step \notin V \cup W
  BY DEF Switches, Monitored, Loads, Refreshes
<1>4. "aborted" \notin W
  BY DEF Switches, Monitored, Loads, Refreshes
<1>5. d.live <=> /\ k.live
                 /\ ~ ("leave" \in V \cup W /\ k.kind = "route")
                 /\ ~ ("forget" \in V \cup W /\ k.kind = "submit")
                 /\ ~ ("let go" \in V \cup W /\ k.kind = "retry")
  BY <1>2 DEF Faded
<1>6. d.fresh <=> k.fresh /\ k.step \notin V \cup W
  BY <1>3, <1>4 DEF Faded
<1>7. d.step = IF "abort" \in V \cup W /\ Monitored(k) THEN "aborted" ELSE k.step
  BY <1>2 DEF Faded, Monitored
<1> QED BY <1>1, <1>5, <1>6, <1>7 DEF Faded

LEMMA FadesTwice ==
  ASSUME NEW f, Typed(f), NEW g, NEW h, NEW V \in SUBSET Switches, NEW W \in SUBSET Switches,
         Fades(f, g, V), Fades(g, h, W)
  PROVE  Fades(f, h, V \cup W)
BY FadedTwice DEF Fades, Typed

\* The calls outside X are those there were, with W taken from them.
Rest(X, W) ==
  /\ DOMAIN calls' \subseteq 1 .. MaxCalls
  /\ DOMAIN calls \ X \subseteq DOMAIN calls'
  /\ \A j \in DOMAIN calls' \ X : j \in DOMAIN calls /\ Faded(calls[j], calls'[j], W)
  /\ \A j \in DOMAIN calls' \cap X : calls'[j] \in Call

LEMMA CallsTyped == TypeOK => Typed(calls) /\ DOMAIN calls \subseteq 1 .. MaxCalls
BY DEF TypeOK, Typed

LEMMA FadeRest ==
  ASSUME TypeOK, NEW W, Fades(calls, calls', W)
  PROVE  Rest({}, W)
BY CallsTyped DEF Fades, Rest

LEMMA QuietRest ==
  ASSUME TypeOK, UNCHANGED calls
  PROVE  Rest({}, {})
BY CallsTyped, NotFades DEF Fades, Rest

LEMMA PutRest ==
  ASSUME TypeOK, NEW g, NEW W, Fades(calls, g, W), NEW i \in 1 .. MaxCalls, NEW k \in Call,
         calls' = Put(g, i, k)
  PROVE  Rest({i}, W) /\ i \in DOMAIN calls' /\ calls'[i] = k
<1>1. /\ DOMAIN calls' = DOMAIN g \cup {i}
      /\ \A j \in DOMAIN calls' : calls'[j] = IF j = i THEN k ELSE g[j]
  BY DEF Put
<1> QED BY <1>1, CallsTyped DEF Rest, Fades

LEMMA DropRest ==
  ASSUME TypeOK, NEW i \in DOMAIN calls, calls' = Drop(calls, i)
  PROVE  /\ Rest({i}, {}) /\ i \notin DOMAIN calls'
         /\ DOMAIN calls' = DOMAIN calls \ {i}
         /\ \A j \in DOMAIN calls' : calls'[j] = calls[j]
<1>1. /\ DOMAIN calls' = DOMAIN calls \ {i}
      /\ \A j \in DOMAIN calls' : calls'[j] = calls[j]
  BY DEF Drop
<1> QED BY <1>1, CallsTyped, NotFades DEF Rest, Fades

\* Call i changes its fields.
LEMMA MoveRest ==
  ASSUME TypeOK, NEW i \in DOMAIN calls, NEW k \in Call, calls' = [calls EXCEPT ![i] = k]
  PROVE  /\ Rest({i}, {}) /\ DOMAIN calls' = DOMAIN calls /\ calls'[i] = k
         /\ \A j \in DOMAIN calls \ {i} : calls'[j] = calls[j]
<1>1. /\ DOMAIN calls' = DOMAIN calls /\ calls'[i] = k
      /\ \A j \in DOMAIN calls' \ {i} : calls'[j] = calls[j]
  OBVIOUS
<1> QED BY <1>1, CallsTyped, NotFades DEF Rest, Fades

LEMMA StartRefreshRest ==
  ASSUME TypeOK, NEW i \in 1 .. MaxCalls, NEW k \in Call, calls' = StartRefresh(calls, i, k)
  PROVE  /\ Rest({i}, Refreshes) /\ i \in DOMAIN calls'
         /\ SameCall(k, calls'[i]) /\ calls'[i].live = k.live /\ calls'[i].page = k.page
         /\ calls'[i].step = "refresh" /\ calls'[i].fresh = TRUE
<1> DEFINE c == [k EXCEPT !.step = "refresh", !.fresh = TRUE]
<1>1. c \in Call
  BY DEF Call
<1>2. calls' = Put(Supersede(calls, Refreshes), i, c)
  BY DEF StartRefresh
<1>3. Fades(calls, Supersede(calls, Refreshes), Refreshes)
  BY CallsTyped, SupersedeFades
<1>4. SameCall(k, c) /\ c.live = k.live /\ c.page = k.page /\ c.step = "refresh" /\ c.fresh = TRUE
  BY DEF SameCall, Call
<1> HIDE DEF c
<1>5. Rest({i}, Refreshes) /\ i \in DOMAIN calls' /\ calls'[i] = c
  BY <1>1, <1>2, <1>3, PutRest
<1> QED BY <1>4, <1>5

LEMMA BlankType == Blank \in [Runs -> Ended \cup {"active", None}]
BY DEF Blank

LEMMA StartLoadRest ==
  ASSUME TypeOK, NEW i \in 1 .. MaxCalls, NEW k \in Call, calls' = StartLoad(calls, i, k)
  PROVE  /\ Rest({i}, Loads) /\ i \in DOMAIN calls'
         /\ SameCall(k, calls'[i]) /\ calls'[i].live = k.live
         /\ calls'[i].step = "page" /\ calls'[i].fresh = TRUE
<1> DEFINE c == [k EXCEPT !.step = "page", !.fresh = TRUE, !.page = Blank]
<1>1. c \in Call
  BY BlankType DEF Call
<1>2. calls' = Put(Supersede(calls, Loads), i, c)
  BY DEF StartLoad
<1>3. Fades(calls, Supersede(calls, Loads), Loads)
  BY CallsTyped, SupersedeFades
<1>4. SameCall(k, c) /\ c.live = k.live /\ c.step = "page" /\ c.fresh = TRUE
  BY DEF SameCall, Call
<1> HIDE DEF c
<1>5. Rest({i}, Loads) /\ i \in DOMAIN calls' /\ calls'[i] = c
  BY <1>1, <1>2, <1>3, PutRest
<1> QED BY <1>4, <1>5

CallSteps == {"chat", "create", "monitor", "detail", "aborted", "refresh",
              "project", "snapshot", "reply", "page", "loaded"}

\* A call that has just been started.
IsNew(k, kind, step, c, p, r) ==
  /\ k \in Call
  /\ k.kind = kind /\ k.step = step /\ k.chat = c /\ k.project = p /\ k.run = r
  /\ k.live = TRUE /\ k.fresh = TRUE /\ k.older = FALSE /\ k.atHome = FALSE
  /\ k.page = Blank

LEMMA NewIs ==
  ASSUME NEW kind \in Kinds, NEW step \in CallSteps, NEW c \in Chats \cup {None},
         NEW p \in Chats \cup {None}, NEW r \in Runs \cup {NoRun}
  PROVE  IsNew(New(kind, step, c, p, r), kind, step, c, p, r)
<1>1. Blank \in [Runs -> Ended \cup {"active", None}]
  BY BlankType
<1> HIDE DEF Blank
<1> QED BY <1>1 DEF New, IsNew, Call, CallSteps

\* Only call i is changed.
Moved(i) ==
  /\ DOMAIN calls' = DOMAIN calls /\ calls'[i] \in Call
  /\ \A j \in DOMAIN calls \ {i} : calls'[j] = calls[j]

LEMMA MovedRest ==
  ASSUME TypeOK, NEW i \in DOMAIN calls, Moved(i)
  PROVE  Rest({i}, {})
BY CallsTyped, NotFades DEF Rest, Fades, Moved

\* Fields of call i.
LEMMA CallTyped ==
  ASSUME TypeOK, NEW i \in DOMAIN calls
  PROVE  /\ calls[i] \in Call /\ i \in 1 .. MaxCalls
         /\ calls[i].kind \in Kinds /\ calls[i].step \in CallSteps
         /\ calls[i].chat \in Chats \cup {None} /\ calls[i].project \in Chats \cup {None}
         /\ calls[i].run \in Runs \cup {NoRun} /\ calls[i].live \in BOOLEAN
         /\ calls[i].fresh \in BOOLEAN /\ calls[i].older \in BOOLEAN /\ calls[i].atHome \in BOOLEAN
         /\ calls[i].page \in [Runs -> Ended \cup {"active", None}]
<1>1. calls[i] \in Call /\ i \in 1 .. MaxCalls
  BY DEF TypeOK
<1> QED BY <1>1 DEF Call, CallSteps

\* Each action in these terms, whatever the order of its calls in the code.
LEMMA RouteChatStep ==
  ASSUME TypeOK, NEW i, RouteChat(i)
  PROVE  /\ i \in DOMAIN calls /\ calls[i].kind = "route" /\ calls[i].step = "chat"
         /\ UNCHANGED <<server, route, gen, snapshot, history, turns, refs, clicks,
                        faults, ghosts>>
         /\ ~ calls[i].live => calls' = Drop(calls, i) /\ project' = project
         /\ calls[i].live =>
              /\ project' = calls[i].chat
              /\ Rest({i, Free}, Loads \cup Refreshes)
              /\ i \in DOMAIN calls' /\ Free \in DOMAIN calls' /\ i # Free /\ Free \notin DOMAIN calls
              /\ calls'[i].kind = "route" /\ calls'[i].chat = calls[i].chat
              /\ calls'[i].project = calls[i].chat /\ calls'[i].live
              /\ calls'[i].step = "refresh" /\ calls'[i].fresh /\ calls'[i].older = calls[i].older
              /\ calls'[Free].kind = "timeline" /\ calls'[Free].chat = calls[i].chat
              /\ calls'[Free].step = "page" /\ calls'[Free].fresh /\ ~calls'[Free].older
<1>1. i \in DOMAIN calls /\ calls[i].kind = "route" /\ calls[i].step = "chat"
  BY DEF RouteChat, At
<1>2. CASE ~ calls[i].live
  BY <1>1, <1>2 DEF RouteChat, Routed
<1>3. CASE calls[i].live
  <2> DEFINE k == [calls[i] EXCEPT !.project = calls[i].chat]
             n == New("timeline", "page", k.chat, None, NoRun)
             m == [n EXCEPT !.step = "page", !.fresh = TRUE, !.page = Blank]
             c == [k EXCEPT !.step = "refresh", !.fresh = TRUE]
             f == Put(Supersede(calls, Loads), Free, m)
             g == Supersede(f, Refreshes)
  <2>1. calls[i] \in Call /\ i \in 1 .. MaxCalls /\ Typed(calls)
    BY <1>1, CallTyped, CallsTyped
  <2>2. /\ k \in Call /\ k.kind = "route" /\ k.chat = calls[i].chat /\ k.project = calls[i].chat
        /\ k.live = calls[i].live /\ k.older = calls[i].older
    BY <1>1, <2>1 DEF Call
  <2>3. /\ c \in Call /\ c.kind = "route" /\ c.chat = calls[i].chat /\ c.project = calls[i].chat
        /\ c.live = calls[i].live /\ c.older = calls[i].older /\ c.step = "refresh" /\ c.fresh = TRUE
    BY <2>2 DEF Call
  <2>4. /\ n \in Call /\ n.kind = "timeline" /\ n.chat = calls[i].chat /\ n.older = FALSE
    <3>1. k.chat \in Chats \cup {None} /\ "timeline" \in Kinds /\ "page" \in CallSteps
      BY <2>2 DEF Call, Kinds, CallSteps
    <3>2. IsNew(n, "timeline", "page", k.chat, None, NoRun)
      BY <3>1, NewIs
    <3> HIDE DEF k, n
    <3> QED BY <3>2, <2>2 DEF IsNew
  <2>5. /\ m \in Call /\ m.kind = "timeline" /\ m.chat = calls[i].chat /\ m.older = FALSE
        /\ m.step = "page" /\ m.fresh = TRUE
    <3> HIDE DEF n
    <3> QED BY <2>4, BlankType DEF Call
  <2>6. project' = k.project /\ Free <= MaxCalls /\ calls' = Put(g, i, c)
    BY <1>3 DEF RouteChat, Routed, StartRefresh, StartLoad
  <2>7. Free \in 1 .. MaxCalls /\ Free \notin DOMAIN calls
    <3>1. MaxCalls \in Nat
      BY WorkspaceAssumption DEF WorkspaceAssumption
    <3> QED BY <2>6, <3>1, FreeIs
  <2> HIDE DEF m, c, n, k
  <2>8. Fades(calls, Supersede(calls, Loads), Loads)
    BY <2>1, SupersedeFades
  <2>9. Typed(Supersede(calls, Loads)) /\ DOMAIN Supersede(calls, Loads) = DOMAIN calls
    BY <2>8, FadesTyped
  <2>10. /\ DOMAIN f = DOMAIN calls \cup {Free} /\ f[Free] = m
         /\ \A j \in DOMAIN calls : f[j] = Supersede(calls, Loads)[j]
         /\ Typed(f)
    BY <2>5, <2>7, <2>9 DEF Put, Typed
  <2>11. Fades(f, g, Refreshes)
    BY <2>10, SupersedeFades
  <2> HIDE DEF f
  <2>12. DOMAIN g = DOMAIN calls \cup {Free} /\ Faded(m, g[Free], Refreshes)
    BY <2>10, <2>11 DEF Fades
  <2>13. ASSUME NEW j \in DOMAIN calls PROVE Faded(calls[j], g[j], Loads \cup Refreshes)
    <3>1. Faded(calls[j], f[j], Loads) /\ Faded(f[j], g[j], Refreshes)
      BY <2>8, <2>10, <2>11 DEF Fades
    <3>2. Loads \in SUBSET Switches /\ Refreshes \in SUBSET Switches /\ calls[j] \in Call
      BY <2>1 DEF Switches, Typed
    <3> QED BY <3>1, <3>2, FadedTwice
  <2> HIDE DEF g
  <2>14. /\ DOMAIN calls' = DOMAIN calls \cup {Free} /\ calls'[i] = c
         /\ \A j \in DOMAIN calls' \ {i} : calls'[j] = g[j]
    BY <1>1, <2>6, <2>12 DEF Put
  <2>15. i # Free
    BY <1>1, <2>7
  <2>16. /\ calls'[Free] \in Call /\ calls'[Free].kind = "timeline" /\ calls'[Free].chat = calls[i].chat
         /\ calls'[Free].step = "page" /\ calls'[Free].fresh /\ ~calls'[Free].older
    BY <2>5, <2>12, <2>14, <2>15 DEF Faded, SameCall, Refreshes, Monitored
  <2>17. Rest({i, Free}, Loads \cup Refreshes)
    BY <2>3, <2>7, <2>13, <2>14, <2>16, CallsTyped DEF Rest
  <2> QED BY <1>1, <1>3, <2>2, <2>3, <2>6, <2>7, <2>14, <2>15, <2>16, <2>17 DEF RouteChat
<1> QED BY <1>1, <1>2, <1>3 DEF RouteChat

\* Only call i is over.
Dropped(i) ==
  /\ DOMAIN calls' = DOMAIN calls \ {i}
  /\ \A j \in DOMAIN calls' : calls'[j] = calls[j]

LEMMA DropIs ==
  ASSUME NEW i, calls' = Drop(calls, i)
  PROVE  Dropped(i)
BY DEF Drop, Dropped

LEMMA DroppedRest ==
  ASSUME TypeOK, NEW i, Dropped(i)
  PROVE  Rest({i}, {})
BY CallsTyped, NotFades DEF Rest, Fades, Dropped

\* Call i goes on to await refreshProjectData, or loadTimeline.
Refreshed(i) ==
  /\ Rest({i}, Refreshes) /\ i \in DOMAIN calls'
  /\ SameCall(calls[i], calls'[i]) /\ calls'[i].live = calls[i].live
  /\ calls'[i].step = "refresh" /\ calls'[i].fresh = TRUE

Reloaded(i) ==
  /\ Rest({i}, Loads) /\ i \in DOMAIN calls'
  /\ SameCall(calls[i], calls'[i]) /\ calls'[i].live = calls[i].live
  /\ calls'[i].step = "page" /\ calls'[i].fresh = TRUE

\* The retry call i loads again, having let go of its other half.
Retried(i) ==
  /\ Rest({i}, {"let go"} \cup Loads) /\ i \in DOMAIN calls'
  /\ SameCall(calls[i], calls'[i]) /\ calls'[i].live = calls[i].live
  /\ calls'[i].step = "page" /\ calls'[i].fresh = TRUE

LEMMA RetriedIs ==
  ASSUME TypeOK, NEW i \in DOMAIN calls, calls' = StartLoad(LetGo(calls), i, calls[i])
  PROVE  Retried(i)
<1> DEFINE k == calls[i]
           g == LetGo(calls)
           c == [k EXCEPT !.step = "page", !.fresh = TRUE, !.page = Blank]
<1>1. k \in Call /\ i \in 1 .. MaxCalls
  BY CallTyped, CallsTyped
<1>2. c \in Call
  BY <1>1, BlankType DEF Call
<1>3. calls' = Put(Supersede(g, Loads), i, c)
  BY DEF StartLoad
<1>4. Fades(calls, Supersede(g, Loads), {"let go"} \cup Loads)
  <2>1. Fades(calls, g, {"let go"}) /\ Typed(calls)
    BY CallsTyped, LetGoFades
  <2>2. Typed(g)
    BY <2>1, FadesTyped
  <2>3. Fades(g, Supersede(g, Loads), Loads)
    BY <2>2, SupersedeFades
  <2>4. {"let go"} \in SUBSET Switches /\ Loads \in SUBSET Switches
    BY DEF Switches
  <2> HIDE DEF g
  <2> QED BY <2>1, <2>3, <2>4, FadesTwice
<1>5. SameCall(k, c) /\ c.live = k.live /\ c.step = "page" /\ c.fresh = TRUE
  BY <1>1 DEF SameCall, Call
<1> HIDE DEF c, g
<1>6. Rest({i}, {"let go"} \cup Loads) /\ i \in DOMAIN calls' /\ calls'[i] = c
  BY <1>1, <1>2, <1>3, <1>4, PutRest
<1> QED BY <1>5, <1>6 DEF Retried

LEMMA RefreshedIs ==
  ASSUME TypeOK, NEW i \in DOMAIN calls, calls' = StartRefresh(calls, i, calls[i])
  PROVE  Refreshed(i)
BY CallTyped, StartRefreshRest DEF Refreshed

LEMMA ReloadedIs ==
  ASSUME TypeOK, NEW i \in DOMAIN calls, calls' = StartLoad(calls, i, calls[i])
  PROVE  Reloaded(i)
BY CallTyped, StartLoadRest DEF Reloaded

Added(W, k) ==
  /\ Rest({Free}, W) /\ Free \in DOMAIN calls' /\ Free \notin DOMAIN calls
  /\ calls'[Free] = k /\ k \in Call

LEMMA AddedIs ==
  ASSUME TypeOK, Click, NEW g, NEW W, Fades(calls, g, W), NEW k \in Call,
         calls' = Put(g, Free, k)
  PROVE  Added(W, k)
BY ClickFree, PutRest DEF Added

LEMMA RouteProjectStep ==
  ASSUME TypeOK, NEW i, RouteProject(i)
  PROVE  /\ i \in DOMAIN calls /\ calls[i].kind = "route" /\ calls[i].step = "project"
         /\ UNCHANGED <<server, route, shown, refs, clicks, faults, ghosts>>
         /\ \/ Dropped(i)
            \/ /\ calls[i].live /\ calls[i].run # NoRun
               /\ Moved(i) /\ SameCall(calls[i], calls'[i]) /\ calls'[i].step = "snapshot"
               /\ calls'[i].live = calls[i].live
<1>1. i \in DOMAIN calls /\ calls[i].kind = "route" /\ calls[i].step = "project"
  BY DEF RouteProject, At
<1>2. CASE calls' = Drop(calls, i)
  BY <1>1, <1>2, DropIs DEF RouteProject
<1>3. CASE calls[i].live /\ calls[i].run # NoRun /\ calls' = [calls EXCEPT ![i].step = "snapshot"]
  <2>1. /\ DOMAIN calls' = DOMAIN calls /\ calls'[i] = [calls[i] EXCEPT !.step = "snapshot"]
        /\ \A j \in DOMAIN calls \ {i} : calls'[j] = calls[j]
    BY <1>1, <1>3
  <2>2. /\ calls'[i] \in Call /\ SameCall(calls[i], calls'[i]) /\ calls'[i].step = "snapshot"
        /\ calls'[i].live = calls[i].live
    BY <1>1, <2>1, CallTyped DEF Call, SameCall
  <2> QED BY <1>1, <1>3, <2>1, <2>2 DEF RouteProject, Moved
<1> QED BY <1>1, <1>2, <1>3 DEF RouteProject, Routed

LEMMA MakeChatStep ==
  ASSUME TypeOK, NEW i, NEW c \in Chats, MakeChat(i, c)
  PROVE  /\ i \in DOMAIN calls /\ calls[i].kind = "submit" /\ calls[i].step = "chat"
         /\ chats' = chats \cup {c}
         /\ UNCHANGED <<home, status, route, shown, refs, clicks, faults, ghosts>>
         /\ Moved(i)
         /\ calls'[i].kind = "submit" /\ calls'[i].step = "create" /\ calls'[i].chat = c
         /\ calls'[i].project = c /\ calls'[i].run = calls[i].run
         /\ calls'[i].live = calls[i].live /\ calls'[i].older = calls[i].older
         /\ calls'[i].atHome = calls[i].atHome
<1>1. i \in DOMAIN calls /\ calls[i].kind = "submit" /\ calls[i].step = "chat"
  BY DEF MakeChat, At
<1> DEFINE k == [[[calls[i] EXCEPT !.step = "create"] EXCEPT !.chat = c] EXCEPT !.project = c]
<1>2. /\ DOMAIN calls' = DOMAIN calls /\ calls'[i] = k
      /\ \A j \in DOMAIN calls \ {i} : calls'[j] = calls[j]
  BY <1>1 DEF MakeChat
<1>3. /\ k \in Call /\ k.kind = "submit" /\ k.step = "create" /\ k.chat = c
      /\ k.project = c /\ k.run = calls[i].run /\ k.live = calls[i].live
      /\ k.older = calls[i].older /\ k.atHome = calls[i].atHome
  BY <1>1, CallTyped DEF Call
<1> QED BY <1>1, <1>2, <1>3 DEF MakeChat, Moved

LEMMA NewRunIs ==
  ASSUME TypeOK, Numbered, NEW c, NEW r \in Runs, NewRun(c, r)
  PROVE  /\ home[r] = None /\ home' = [home EXCEPT ![r] = c]
         /\ status' = [status EXCEPT ![r] = "active"]
         /\ c # None => Numbered'
<1>1. PICK n \in 0 .. MaxRuns : \A s \in Runs : home[s] # None <=> s <= n
  BY DEF Numbered
<1>2. {s \in Runs : home[s] # None} = 1 .. n /\ n \in Nat /\ MaxRuns \in Nat
  BY <1>1, WorkspaceAssumption DEF WorkspaceAssumption, Runs
<1>3. r = n + 1
  <2>1. Cardinality(1 .. n) = n
    BY <1>2, FS_Interval
  <2> QED BY <1>2, <2>1 DEF NewRun
<1>4. home[r] = None
  BY <1>1, <1>2, <1>3
<1>5. ASSUME c # None PROVE Numbered'
  <2>1. r \in 0 .. MaxRuns
    BY <1>2 DEF Runs
  <2>2. \A s \in Runs : home'[s] # None <=> s <= r
    BY <1>1, <1>2, <1>3, <1>5 DEF NewRun, Runs, TypeOK
  <2> QED BY <2>1, <2>2 DEF Numbered, Runs
<1> QED BY <1>4, <1>5 DEF NewRun

LEMMA MonitorEventStep ==
  ASSUME TypeOK, NEW i, MonitorEvent(i)
  PROVE  /\ i \in DOMAIN calls /\ calls[i].kind = "submit" /\ calls[i].step = "monitor"
         /\ status[calls[i].run] \in Ended
         /\ gen' = applyAgentEvent(calls[i].run, status[calls[i].run])
         /\ turns' = applyTimelineEvent(calls[i].run, status[calls[i].run])
         /\ UNCHANGED <<server, route, project, snapshot, history, refs, clicks, faults, ghosts>>
         /\ Moved(i) /\ SameCall(calls[i], calls'[i]) /\ calls'[i].step = "detail"
         /\ calls'[i].live = calls[i].live
<1>1. i \in DOMAIN calls /\ calls[i].kind = "submit" /\ calls[i].step = "monitor"
  BY DEF MonitorEvent, At
<1>2. /\ DOMAIN calls' = DOMAIN calls /\ calls'[i] = [calls[i] EXCEPT !.step = "detail"]
      /\ \A j \in DOMAIN calls \ {i} : calls'[j] = calls[j]
  BY <1>1 DEF MonitorEvent
<1>3. /\ calls'[i] \in Call /\ SameCall(calls[i], calls'[i]) /\ calls'[i].step = "detail"
      /\ calls'[i].live = calls[i].live
  BY <1>1, <1>2, CallTyped DEF Call, SameCall
<1> QED BY <1>1, <1>2, <1>3 DEF MonitorEvent, Moved

LEMMA RetryEventStep ==
  ASSUME TypeOK, NEW i, RetryEvent(i)
  PROVE  /\ i \in DOMAIN calls /\ calls[i].kind = "retry" /\ calls[i].step = "monitor"
         /\ status[calls[i].run] \in Ended
         /\ turns' = applyTimelineEvent(calls[i].run, status[calls[i].run])
         /\ UNCHANGED <<server, route, project, gen, snapshot, history, refs, clicks, faults, ghosts>>
         /\ Moved(i) /\ SameCall(calls[i], calls'[i]) /\ calls'[i].step = "detail"
         /\ calls'[i].live = calls[i].live
<1>1. i \in DOMAIN calls /\ calls[i].kind = "retry" /\ calls[i].step = "monitor"
  BY DEF RetryEvent, At
<1>2. /\ DOMAIN calls' = DOMAIN calls /\ calls'[i] = [calls[i] EXCEPT !.step = "detail"]
      /\ \A j \in DOMAIN calls \ {i} : calls'[j] = calls[j]
  BY <1>1 DEF RetryEvent
<1>3. /\ calls'[i] \in Call /\ SameCall(calls[i], calls'[i]) /\ calls'[i].step = "detail"
      /\ calls'[i].live = calls[i].live
  BY <1>1, <1>2, CallTyped DEF Call, SameCall
<1> QED BY <1>1, <1>2, <1>3 DEF RetryEvent, Moved

LEMMA RetryMadeStep ==
  ASSUME TypeOK, NEW i, NEW r \in Runs, RetryMade(i, r)
  PROVE  /\ i \in DOMAIN calls /\ calls[i].kind = "retry" /\ calls[i].step = "create"
         /\ NewRun(calls[i].chat, r) /\ turns' = insertTimelineRun(r)
         /\ UNCHANGED <<chats, route, project, gen, snapshot, history, refs, clicks, faults, ghosts>>
         /\ Moved(i) /\ calls'[i].kind = "retry" /\ calls'[i].step = "monitor"
         /\ calls'[i].chat = calls[i].chat /\ calls'[i].project = calls[i].project
         /\ calls'[i].run = r /\ calls'[i].older = calls[i].older
<1>1. i \in DOMAIN calls /\ calls[i].kind = "retry" /\ calls[i].step = "create"
  BY DEF RetryMade, At
<1> DEFINE k == [[calls[i] EXCEPT !.step = "monitor"] EXCEPT !.run = r]
<1>2. /\ DOMAIN calls' = DOMAIN calls /\ calls'[i] = k
      /\ \A j \in DOMAIN calls \ {i} : calls'[j] = calls[j]
  BY <1>1 DEF RetryMade
<1>3. /\ k \in Call /\ k.kind = "retry" /\ k.step = "monitor" /\ k.chat = calls[i].chat
      /\ k.project = calls[i].project /\ k.run = r /\ k.older = calls[i].older
  BY <1>1, CallTyped DEF Call
<1> QED BY <1>1, <1>2, <1>3 DEF RetryMade, Moved

LEMMA MonitorReturnsStep ==
  ASSUME TypeOK, NEW i, MonitorReturns(i)
  PROVE  /\ i \in DOMAIN calls /\ calls[i].kind = "submit" /\ calls[i].step = "detail"
         /\ gen' = applyAgentRunDetail(calls[i].run, status[calls[i].run])
         /\ snapshot' = IF DetailAccepted(calls[i].run) /\ status[calls[i].run] = "completed"
                          THEN calls[i].run ELSE snapshot
         /\ UNCHANGED <<server, route, project, history, turns, refs, clicks, faults, ghosts>>
         /\ Refreshed(i)
<1>1. i \in DOMAIN calls /\ calls[i].kind = "submit" /\ calls[i].step = "detail"
  BY DEF MonitorReturns, At
<1> QED BY <1>1, RefreshedIs DEF MonitorReturns

LEMMA ActiveSnapshotIs ==
  ASSUME TypeOK, NEW c
  PROVE  \/ ActiveSnapshot(c) = NoRun
         \/ ActiveSnapshot(c) \in RunsOf(c) /\ status[ActiveSnapshot(c)] = "completed"
<1> DEFINE done == {r \in RunsOf(c) : status[r] = "completed"}
<1>1. ActiveSnapshot(c) = IF done = {} THEN NoRun ELSE Max(done)
  BY DEF ActiveSnapshot
<1>2. MaxRuns \in Nat /\ done \in SUBSET (0 .. MaxRuns)
  BY WorkspaceAssumption DEF WorkspaceAssumption, RunsOf, Runs
<1>3. done # {} => Max(done) \in done
  BY <1>2, Greatest
<1> QED BY <1>1, <1>3

LEMMA RefreshArrivesStep ==
  ASSUME TypeOK, NEW i, RefreshArrives(i)
  PROVE  /\ i \in DOMAIN calls /\ calls[i].step = "refresh"
         /\ history' = IF calls[i].fresh THEN calls[i].project ELSE history
         /\ RetryOver(i)
         /\ UNCHANGED <<server, route, project, gen, snapshot, turns, inFlight, pending,
                        clicks, faults, ghosts>>
         /\ \/ /\ calls[i].kind = "route"
               /\ Moved(i) /\ calls'[i].kind = "route" /\ calls'[i].step = "project"
               /\ calls'[i].chat = calls[i].chat /\ calls'[i].project = calls[i].project
               /\ calls'[i].live = calls[i].live /\ calls'[i].older = calls[i].older
               /\ calls'[i].run # NoRun => /\ calls'[i].run \in RunsOf(calls[i].chat)
                                           /\ status[calls'[i].run] = "completed"
            \/ calls[i].kind = "retry" /\ Dropped(i)
            \/ calls[i].kind \notin {"route", "retry"} /\ Reloaded(i)
<1>1. i \in DOMAIN calls /\ calls[i].step = "refresh"
  BY DEF RefreshArrives, Refreshing, Refreshes
<1>2. CASE calls[i].kind = "route"
  <2> DEFINE r == IF calls[i].fresh THEN ActiveSnapshot(calls[i].chat) ELSE NoRun
             k == [[calls[i] EXCEPT !.step = "project"] EXCEPT !.run = r]
  <2>1. calls' = [calls EXCEPT ![i].step = "project", ![i].run = r]
    BY <1>1, <1>2 DEF RefreshArrives, RefreshIsLatest
  <2>2. r \in Runs \cup {NoRun} /\ (r # NoRun => r \in RunsOf(calls[i].chat) /\ status[r] = "completed")
    BY ActiveSnapshotIs DEF RunsOf
  <2> HIDE DEF r
  <2>3. /\ DOMAIN calls' = DOMAIN calls /\ calls'[i] = k
        /\ \A j \in DOMAIN calls \ {i} : calls'[j] = calls[j]
    BY <1>1, <2>1
  <2>4. /\ k \in Call /\ k.kind = "route" /\ k.step = "project" /\ k.chat = calls[i].chat
        /\ k.project = calls[i].project /\ k.run = r /\ k.older = calls[i].older
        /\ k.live = calls[i].live
    BY <1>1, <1>2, <2>2, CallTyped DEF Call
  <2>5. /\ history' = IF calls[i].fresh THEN calls[i].project ELSE history
        /\ RetryOver(i)
        /\ UNCHANGED <<server, route, project, gen, snapshot, turns, inFlight, pending,
                       clicks, faults, ghosts>>
    BY DEF RefreshArrives, RefreshIsLatest
  <2> HIDE DEF k
  <2> QED BY <1>1, <1>2, <2>2, <2>3, <2>4, <2>5 DEF Moved
<1>3. CASE calls[i].kind = "retry"
  <2>1. calls' = Drop(calls, i)
    BY <1>3 DEF RefreshArrives
  <2> QED BY <1>1, <1>3, <2>1, DropIs DEF RefreshArrives, RefreshIsLatest
<1>4. CASE calls[i].kind \notin {"route", "retry"}
  <2>1. calls' = StartLoad(calls, i, calls[i])
    BY <1>4 DEF RefreshArrives
  <2> QED BY <1>1, <1>4, <2>1, ReloadedIs DEF RefreshArrives, RefreshIsLatest
<1> QED BY <1>2, <1>3, <1>4

LEMMA PageOfType ==
  ASSUME TypeOK, NEW R \in SUBSET Runs
  PROVE  /\ PageOf(R) \in [Runs -> Ended \cup {"active", None}]
         /\ \A r \in Runs : PageOf(R)[r] # None => r \in R /\ PageOf(R)[r] = status[r]
<1> DEFINE P(r) == r \in R /\ Cardinality({s \in R : s > r}) < PageSize
<1>1. PageOf(R) = [r \in Runs |-> IF P(r) THEN status[r] ELSE None]
  BY DEF PageOf
<1>2. \A r \in Runs : P(r) => r \in R
  OBVIOUS
<1>3. status \in [Runs -> Ended \cup {"active", None}]
  BY DEF TypeOK
<1> HIDE DEF P
<1> QED BY <1>1, <1>2, <1>3

LEMMA LoadAnsweredStep ==
  ASSUME TypeOK, NEW i, LoadAnswered(i)
  PROVE  /\ i \in DOMAIN calls /\ calls[i].step = "page"
         /\ UNCHANGED <<server, route, shown, refs, clicks, faults, ghosts>>
         /\ Moved(i) /\ SameCall(calls[i], calls'[i]) /\ calls'[i].step = "loaded"
         /\ calls'[i].live = calls[i].live /\ calls'[i].fresh = calls[i].fresh
         /\ \A r \in Runs : calls'[i].page[r] # None =>
              /\ calls[i].chat # None /\ home[r] = calls[i].chat
              /\ calls'[i].page[r] = status[r]
<1>1. i \in DOMAIN calls /\ calls[i].step = "page"
  BY DEF LoadAnswered
<1> DEFINE R == {r \in RunsOf(calls[i].chat) : calls[i].older => r < calls[i].run}
           k == [[calls[i] EXCEPT !.step = "loaded"] EXCEPT !.page = PageOf(R)]
<1>2. R \in SUBSET Runs /\ \A r \in R : home[r] = calls[i].chat /\ calls[i].chat # None
  BY DEF RunsOf
<1>3. /\ PageOf(R) \in [Runs -> Ended \cup {"active", None}]
      /\ \A r \in Runs : PageOf(R)[r] # None => r \in R /\ PageOf(R)[r] = status[r]
  BY <1>2, PageOfType
<1>4. /\ DOMAIN calls' = DOMAIN calls /\ calls'[i] = k
      /\ \A j \in DOMAIN calls \ {i} : calls'[j] = calls[j]
  BY <1>1 DEF LoadAnswered
<1> HIDE DEF R
<1>5. /\ k \in Call /\ SameCall(calls[i], k) /\ k.step = "loaded"
      /\ k.live = calls[i].live /\ k.fresh = calls[i].fresh /\ k.page = PageOf(R)
  BY <1>1, <1>3, CallTyped DEF Call, SameCall
<1>6. UNCHANGED <<server, route, shown, refs, clicks, faults, ghosts>>
  BY DEF LoadAnswered
<1> HIDE DEF k
<1> QED BY <1>1, <1>2, <1>3, <1>4, <1>5, <1>6 DEF Moved

LEMMA CancelAnsweredStep ==
  ASSUME TypeOK, NEW i, CancelAnswered(i)
  PROVE  /\ i \in DOMAIN calls /\ calls[i].kind = "cancel" /\ calls[i].step = "reply"
         /\ LET s == IF status[calls[i].run] = "active" THEN "cancelled" ELSE status[calls[i].run]
            IN  /\ status' = [status EXCEPT ![calls[i].run] = s]
                /\ gen' = applyAgentRunDetail(calls[i].run, s)
         /\ UNCHANGED <<chats, home, route, project, snapshot, history, turns, refs, clicks, faults, ghosts>>
         /\ \/ calls[i].project # None /\ Refreshed(i)
            \/ calls[i].project = None /\ calls[i].chat # None /\ Reloaded(i)
            \/ calls[i].project = None /\ calls[i].chat = None /\ Dropped(i)
<1>1. i \in DOMAIN calls /\ calls[i].kind = "cancel" /\ calls[i].step = "reply"
  BY DEF CancelAnswered, At
<1>2. CASE calls[i].project # None
  <2>1. calls' = StartRefresh(calls, i, calls[i])
    BY <1>2 DEF CancelAnswered
  <2> QED BY <1>1, <1>2, <2>1, RefreshedIs DEF CancelAnswered
<1>3. CASE calls[i].project = None /\ calls[i].chat # None
  <2>1. calls' = StartLoad(calls, i, calls[i])
    BY <1>3 DEF CancelAnswered
  <2> QED BY <1>1, <1>3, <2>1, ReloadedIs DEF CancelAnswered
<1>4. CASE calls[i].project = None /\ calls[i].chat = None
  <2>1. calls' = Drop(calls, i)
    BY <1>4 DEF CancelAnswered
  <2> QED BY <1>1, <1>4, <2>1, DropIs DEF CancelAnswered
<1> QED BY <1>2, <1>3, <1>4

LEMMA CancelStep ==
  ASSUME TypeOK, Cancel
  PROVE  /\ gen.status = "running" /\ gen.run \in Runs
         /\ Click
         /\ UNCHANGED <<server, route, shown, refs, faults, ghosts>>
         /\ Rest({Free}, {"abort"}) /\ Free \in DOMAIN calls' /\ Free \notin DOMAIN calls
         /\ IsNew(calls'[Free], "cancel", "reply", route, project, gen.run)
<1> DEFINE k == New("cancel", "reply", route, project, gen.run)
<1>1. IsNew(k, "cancel", "reply", route, project, gen.run)
  <2>1. route \in Chats \cup {None} /\ project \in Chats \cup {None} /\ gen.run \in Runs \cup {NoRun}
    BY DEF TypeOK, Cancel
  <2>2. "cancel" \in Kinds /\ "reply" \in CallSteps
    BY DEF Kinds, CallSteps
  <2> QED BY <2>1, <2>2, NewIs
<1>2. k \in Call
  BY <1>1 DEF IsNew
<1>3. calls' = Put(AbortMonitor(calls), Free, k) /\ Click
  BY DEF Cancel
<1>4. Fades(calls, AbortMonitor(calls), {"abort"})
  BY CallsTyped, AbortFades
<1> HIDE DEF k
<1>5. Added({"abort"}, k)
  BY <1>2, <1>3, <1>4, AddedIs
<1> QED BY <1>1, <1>5 DEF Cancel, Added

LEMMA SelectSnapshotStep ==
  ASSUME TypeOK, NEW r \in Runs, SelectSnapshot(r)
  PROVE  /\ turns[r] = "completed" /\ project # None
         /\ Click
         /\ UNCHANGED <<server, route, shown, refs, faults, ghosts>>
         /\ Rest({Free}, {}) /\ Free \in DOMAIN calls' /\ Free \notin DOMAIN calls
         /\ IsNew(calls'[Free], "select", "snapshot", route, project, r)
<1> DEFINE k == New("select", "snapshot", route, project, r)
<1>1. IsNew(k, "select", "snapshot", route, project, r)
  <2>1. route \in Chats \cup {None} /\ project \in Chats \cup {None} /\ r \in Runs \cup {NoRun}
    BY DEF TypeOK
  <2>2. "select" \in Kinds /\ "snapshot" \in CallSteps
    BY DEF Kinds, CallSteps
  <2> QED BY <2>1, <2>2, NewIs
<1>2. k \in Call
  BY <1>1 DEF IsNew
<1>3. calls' = Put(calls, Free, k) /\ Click
  BY DEF SelectSnapshot
<1>4. Fades(calls, calls, {})
  BY CallsTyped, NotFades
<1> HIDE DEF k
<1>5. Added({}, k)
  BY <1>2, <1>3, <1>4, AddedIs
<1> QED BY <1>1, <1>5 DEF SelectSnapshot, Added

LEMMA RetryValidationStep ==
  ASSUME TypeOK, NEW r \in Runs, RetryValidation(r)
  PROVE  /\ turns[r] = "failed" /\ project # None /\ route # None
         /\ Click /\ retrying' = TRUE
         /\ UNCHANGED <<server, route, shown, inFlight, pending, faults, ghosts>>
         /\ Rest({Free}, {}) /\ Free \in DOMAIN calls' /\ Free \notin DOMAIN calls
         /\ IsNew(calls'[Free], "retry", "create", route, project, r)
<1> DEFINE k == New("retry", "create", route, project, r)
<1>1. IsNew(k, "retry", "create", route, project, r)
  <2>1. route \in Chats \cup {None} /\ project \in Chats \cup {None} /\ r \in Runs \cup {NoRun}
    BY DEF TypeOK
  <2>2. "retry" \in Kinds /\ "create" \in CallSteps
    BY DEF Kinds, CallSteps
  <2> QED BY <2>1, <2>2, NewIs
<1>2. k \in Call
  BY <1>1 DEF IsNew
<1>3. calls' = Put(calls, Free, k) /\ Click
  BY DEF RetryValidation
<1>4. Fades(calls, calls, {})
  BY CallsTyped, NotFades
<1> HIDE DEF k
<1>5. Added({}, k)
  BY <1>2, <1>3, <1>4, AddedIs
<1> QED BY <1>1, <1>5 DEF RetryValidation, Added

LEMMA LoadOlderStep ==
  ASSUME TypeOK, LoadOlder
  PROVE  /\ route # None
         /\ Click
         /\ raced' = (raced \/ \E j \in DOMAIN calls : FreshLoad(calls[j]) /\ ~calls[j].older)
         /\ UNCHANGED <<server, route, shown, refs, faults, crossed>>
         /\ Rest({Free}, Loads) /\ Free \in DOMAIN calls' /\ Free \notin DOMAIN calls
         /\ calls'[Free].kind = "timeline" /\ calls'[Free].step = "page" /\ calls'[Free].chat = route
         /\ calls'[Free].older /\ calls'[Free].fresh
<1> DEFINE S == {r \in Runs : turns[r] # None}
           n == New("timeline", "page", route, None, Min(S))
           m == [n EXCEPT !.older = TRUE]
           c == [m EXCEPT !.step = "page", !.fresh = TRUE, !.page = Blank]
<1>1. IsNew(n, "timeline", "page", route, None, Min(S))
  <2>1. S \in SUBSET Nat /\ S # {}
    BY DEF LoadOlder, Runs
  <2>2. Min(S) \in S
    BY <2>1, Least
  <2>3. route \in Chats \cup {None} /\ None \in Chats \cup {None} /\ Min(S) \in Runs \cup {NoRun}
    BY <2>2 DEF TypeOK
  <2>4. "timeline" \in Kinds /\ "page" \in CallSteps
    BY DEF Kinds, CallSteps
  <2> HIDE DEF S
  <2> QED BY <2>3, <2>4, NewIs
<1>2. calls' = StartLoad(calls, Free, m) /\ Click
  BY DEF LoadOlder
<1>3. calls' = Put(Supersede(calls, Loads), Free, c)
  BY <1>2 DEF StartLoad
<1> HIDE DEF n
<1>4. /\ c \in Call /\ c.kind = "timeline" /\ c.step = "page" /\ c.chat = route
      /\ c.older = TRUE /\ c.fresh = TRUE
  <2>1. /\ m \in Call /\ m.kind = "timeline" /\ m.chat = route /\ m.older = TRUE
    BY <1>1 DEF IsNew, Call
  <2> HIDE DEF m
  <2> QED BY <2>1, BlankType DEF Call
<1> HIDE DEF c
<1>5. Fades(calls, Supersede(calls, Loads), Loads)
  BY CallsTyped, SupersedeFades
<1>6. Added(Loads, c)
  BY <1>2, <1>3, <1>4, <1>5, AddedIs
<1>7. /\ raced' = (raced \/ \E j \in DOMAIN calls : FreshLoad(calls[j]) /\ ~calls[j].older)
      /\ UNCHANGED <<server, route, shown, refs, faults, crossed>> /\ route # None
  BY DEF LoadOlder, FreshLoad, Loading
<1> QED BY <1>2, <1>4, <1>6, <1>7 DEF Added

LEMMA SubmitStep ==
  ASSUME TypeOK, Submit
  PROVE  /\ gen.status # "running" /\ ~inFlight
         /\ Click /\ inFlight' = TRUE /\ gen' = startApiGeneration(PendingRun)
         /\ UNCHANGED <<server, route, project, snapshot, history, turns, pending,
                        retrying, faults, ghosts>>
         /\ Rest({Free}, {"forget"}) /\ Free \in DOMAIN calls' /\ Free \notin DOMAIN calls
         /\ calls'[Free].kind = "submit" /\ calls'[Free].live /\ ~calls'[Free].older
         /\ calls'[Free].chat = route /\ calls'[Free].project = project /\ calls'[Free].run = NoRun
         /\ calls'[Free].step = (IF route = None THEN "chat" ELSE "create")
         /\ calls'[Free].atHome <=> route = None
<1> DEFINE s == IF route = None THEN "chat" ELSE "create"
           h == (route = None)
           n == New("submit", s, route, project, NoRun)
           k == [n EXCEPT !.atHome = h]
<1>1. IsNew(n, "submit", s, route, project, NoRun)
  <2>1. route \in Chats \cup {None} /\ project \in Chats \cup {None} /\ NoRun \in Runs \cup {NoRun}
    BY DEF TypeOK
  <2>2. "submit" \in Kinds /\ s \in CallSteps
    BY DEF Kinds, CallSteps
  <2> HIDE DEF s
  <2> QED BY <2>1, <2>2, NewIs
<1>2. calls' = Put(Forget(calls), Free, k) /\ Click
  BY DEF Submit
<1> HIDE DEF n
<1>3. /\ k \in Call /\ k.kind = "submit" /\ k.live = TRUE /\ k.older = FALSE /\ k.chat = route
      /\ k.project = project /\ k.run = NoRun /\ k.step = s /\ (k.atHome <=> h)
  <2>1. h \in BOOLEAN
    OBVIOUS
  <2> HIDE DEF s, h
  <2> QED BY <1>1, <2>1 DEF IsNew, Call
<1> HIDE DEF k
<1>4. Fades(calls, Forget(calls), {"forget"})
  BY CallsTyped, ForgetFades
<1>5. Added({"forget"}, k)
  BY <1>2, <1>3, <1>4, AddedIs
<1>6. /\ gen.status # "running" /\ ~inFlight
      /\ inFlight' = TRUE /\ gen' = startApiGeneration(PendingRun)
      /\ UNCHANGED <<server, route, project, snapshot, history, turns, pending,
                     retrying, faults, ghosts>>
  BY DEF Submit, MaySubmit
<1> QED BY <1>2, <1>3, <1>5, <1>6 DEF Added

\* The effect of a navigation to chat c, or home, that clears the page.
Opened(c, V) ==
  /\ project' = None /\ gen' = Idle /\ snapshot' = NoRun /\ history' = None /\ turns' = Blank
  /\ Rest({Free}, V \cup {"leave", "abort"} \cup Loads)
  /\ c = None => Free \notin DOMAIN calls'
  /\ c # None => Free \in DOMAIN calls' /\ IsNew(calls'[Free], "route", "chat", c, None, NoRun)

LEMMA RestMore ==
  ASSUME NEW W, NEW i, Rest({}, W)
  PROVE  Rest({i}, W)
BY DEF Rest, Faded

LEMMA RouteEffectStep ==
  ASSUME TypeOK, NEW c \in Chats \cup {None}, NEW f, NEW V \in SUBSET {"abort", "forget"},
         Fades(calls, f, V), Free \in 1 .. MaxCalls, Free \notin DOMAIN calls, RouteEffect(c, f)
  PROVE  /\ route' = c
         /\ crossed' = (crossed \/ \E j \in DOMAIN calls : Unprotected(f[j]))
         /\ \/ /\ c # None /\ pending = c /\ pending' = None
               /\ UNCHANGED shown
               /\ Rest({Free}, V \cup {"leave"}) /\ Free \notin DOMAIN calls'
            \/ pending' = pending /\ Opened(c, V)
<1> DEFINE left == LeaveRoute(f)
           late == Supersede(left, Loads)
           cleared == AbortMonitor(late)
           k == New("route", "chat", c, None, NoRun)
<1>1. Typed(calls) /\ Typed(f) /\ DOMAIN f = DOMAIN calls
  BY CallsTyped, FadesTyped
<1>2. V \in SUBSET Switches /\ {"leave"} \in SUBSET Switches /\ Loads \in SUBSET Switches
      /\ {"abort"} \in SUBSET Switches
  BY DEF Switches
<1>3. Fades(f, left, {"leave"})
  BY <1>1, LeaveFades
<1>4. Fades(calls, left, V \cup {"leave"}) /\ Typed(left)
  BY <1>1, <1>2, <1>3, FadesTwice, FadesTyped
<1>5. Fades(left, late, Loads)
  BY <1>4, SupersedeFades
<1>6. Fades(calls, late, (V \cup {"leave"}) \cup Loads) /\ Typed(late)
  <2>1. V \cup {"leave"} \in SUBSET Switches
    BY <1>2
  <2> QED BY <1>1, <1>2, <1>4, <1>5, <2>1, FadesTwice, FadesTyped
<1>7. Fades(late, cleared, {"abort"})
  BY <1>6, AbortFades
<1>8. Fades(calls, cleared, ((V \cup {"leave"}) \cup Loads) \cup {"abort"})
  <2>1. (V \cup {"leave"}) \cup Loads \in SUBSET Switches
    BY <1>2
  <2> QED BY <1>1, <1>2, <1>6, <1>7, <2>1, FadesTwice
<1>9. ((V \cup {"leave"}) \cup Loads) \cup {"abort"} = V \cup {"leave", "abort"} \cup Loads
  OBVIOUS
<1>10. route' = c /\ crossed' = (crossed \/ \E j \in DOMAIN calls : Unprotected(f[j]))
  BY <1>1 DEF RouteEffect
<1>11. CASE c # None /\ pending = c
  <2>1. pending' = None /\ calls' = left /\ UNCHANGED shown
    BY <1>11 DEF RouteEffect
  <2> HIDE DEF left
  <2>2. Rest({}, V \cup {"leave"}) /\ Free \notin DOMAIN calls'
    BY <1>4, <2>1, FadeRest DEF Fades
  <2> QED BY <1>10, <1>11, <2>1, <2>2, RestMore
<1>12. CASE ~ (c # None /\ pending = c)
  <2>1. /\ pending' = pending /\ project' = None /\ gen' = Idle /\ snapshot' = NoRun
        /\ history' = None /\ turns' = Blank
        /\ c = None => calls' = cleared
        /\ c # None => calls' = Put(cleared, Free, k)
    BY <1>12 DEF RouteEffect
  <2>2. IsNew(k, "route", "chat", c, None, NoRun)
    <3>1. "route" \in Kinds /\ "chat" \in CallSteps
      BY DEF Kinds, CallSteps
    <3> QED BY <3>1, NewIs
  <2>3. k \in Call
    BY <2>2 DEF IsNew
  <2> HIDE DEF cleared, k
  <2>4. CASE c = None
    <3>1. Rest({}, V \cup {"leave", "abort"} \cup Loads) /\ Free \notin DOMAIN calls'
      BY <1>8, <1>9, <2>1, <2>4, FadeRest DEF Fades
    <3> QED BY <1>10, <2>1, <2>4, <3>1, RestMore DEF Opened
  <2>5. CASE c # None
    <3>1. /\ Rest({Free}, V \cup {"leave", "abort"} \cup Loads)
          /\ Free \in DOMAIN calls' /\ calls'[Free] = k
      BY <1>8, <1>9, <2>1, <2>3, <2>5, PutRest
    <3> QED BY <1>10, <2>1, <2>2, <2>5, <3>1 DEF Opened
  <2> QED BY <2>4, <2>5
<1> QED BY <1>11, <1>12

LEMMA NavigateStep ==
  ASSUME TypeOK, NEW c \in Chats \cup {None}, Navigate(c)
  PROVE  /\ route' = c
         /\ crossed' = (crossed \/ \E j \in DOMAIN calls : Unprotected(calls[j]))
         /\ Click /\ Free \notin DOMAIN calls
         /\ UNCHANGED <<server, inFlight, retrying, faults, raced>>
         /\ \/ /\ c # None /\ pending = c /\ pending' = None
               /\ UNCHANGED shown
               /\ Rest({Free}, {"leave"}) /\ Free \notin DOMAIN calls'
            \/ pending' = pending /\ Opened(c, {})
<1>1. Click /\ RouteEffect(c, calls) /\ UNCHANGED <<server, inFlight, retrying, faults, raced>>
  BY DEF Navigate
<1>2. Free \in 1 .. MaxCalls /\ Free \notin DOMAIN calls
  BY <1>1, ClickFree
<1>3. Fades(calls, calls, {})
  BY CallsTyped, NotFades
<1>4. /\ route' = c
      /\ crossed' = (crossed \/ \E j \in DOMAIN calls : Unprotected(calls[j]))
      /\ \/ /\ c # None /\ pending = c /\ pending' = None
            /\ UNCHANGED shown
            /\ Rest({Free}, {} \cup {"leave"}) /\ Free \notin DOMAIN calls'
         \/ pending' = pending /\ Opened(c, {})
  BY <1>1, <1>2, <1>3, RouteEffectStep
<1>5. {} \cup {"leave"} = {"leave"}
  OBVIOUS
<1> QED BY <1>1, <1>2, <1>4, <1>5

LEMMA BackHomeStep ==
  ASSUME TypeOK, BackHome
  PROVE  /\ Click /\ inFlight' = FALSE /\ Free \notin DOMAIN calls
         /\ UNCHANGED <<server, retrying, faults, raced>>
         /\ \/ /\ route = None
               /\ UNCHANGED <<route, shown, pending, crossed>>
               /\ Rest({}, {"abort", "forget"})
            \/ /\ route # None /\ route' = None /\ pending' = pending
               /\ crossed' = (crossed \/ \E j \in DOMAIN calls : Unprotected(AbortMonitor(Forget(calls))[j]))
               /\ Fades(calls, AbortMonitor(Forget(calls)), {"abort", "forget"})
               /\ Opened(None, {"abort", "forget"})
<1> DEFINE f == AbortMonitor(Forget(calls))
<1>1. Fades(calls, f, {"abort", "forget"})
  <2>1. Fades(calls, Forget(calls), {"forget"}) /\ Typed(Forget(calls))
    BY CallsTyped, ForgetFades, FadesTyped
  <2>2. Fades(Forget(calls), f, {"abort"})
    BY <2>1, AbortFades
  <2>3. {"forget"} \in SUBSET Switches /\ {"abort"} \in SUBSET Switches
    BY DEF Switches
  <2>4. Fades(calls, f, {"forget"} \cup {"abort"})
    BY <2>1, <2>2, <2>3, CallsTyped, FadesTwice
  <2>5. {"forget"} \cup {"abort"} = {"abort", "forget"}
    OBVIOUS
  <2> QED BY <2>4, <2>5
<1>2. Click /\ inFlight' = FALSE /\ UNCHANGED <<server, retrying, faults, raced>>
  BY DEF BackHome
<1>3. Free \in 1 .. MaxCalls /\ Free \notin DOMAIN calls
  BY <1>2, ClickFree
<1>4. CASE route = None
  <2>1. calls' = f /\ UNCHANGED <<route, shown, pending, crossed>>
    BY <1>4 DEF BackHome
  <2> HIDE DEF f
  <2>2. Rest({}, {"abort", "forget"})
    BY <1>1, <2>1, FadeRest
  <2> QED BY <1>2, <1>3, <1>4, <2>1, <2>2
<1>5. CASE route # None
  <2>1. RouteEffect(None, f)
    BY <1>5 DEF BackHome
  <2> HIDE DEF f
  <2>2. /\ route' = None /\ pending' = pending /\ Opened(None, {"abort", "forget"})
        /\ crossed' = (crossed \/ \E j \in DOMAIN calls : Unprotected(f[j]))
    BY <1>1, <1>3, <2>1, RouteEffectStep
  <2> QED BY <1>1, <1>2, <1>3, <1>5, <2>2 DEF f
<1> QED BY <1>4, <1>5

LEMMA CreateRunStep ==
  ASSUME TypeOK, NEW i, NEW r \in Runs, CreateRun(i, r)
  PROVE  /\ i \in DOMAIN calls /\ calls[i].kind = "submit" /\ calls[i].step = "create"
         /\ calls[i].project # None
         /\ NewRun(calls[i].chat, r)
         /\ UNCHANGED <<chats, inFlight, retrying, clicks, faults, raced>>
         /\ \/ ~calls[i].live /\ Dropped(i) /\ UNCHANGED <<route, shown, pending, crossed>>
            \/ /\ calls[i].live
               /\ gen' = startApiGeneration(r) /\ turns' = insertTimelineRun(r)
               /\ UNCHANGED <<snapshot, history>>
               /\ project' = (IF calls[i].atHome THEN calls[i].project ELSE project)
               /\ route' = (IF calls[i].atHome THEN calls[i].chat ELSE route)
               /\ pending' = (IF ~calls[i].atHome THEN pending
                              ELSE IF route # calls[i].chat THEN None ELSE calls[i].chat)
               /\ i \in DOMAIN calls'
               /\ SameCall([calls[i] EXCEPT !.run = r], calls'[i])
               /\ calls'[i].step = "monitor" /\ calls'[i].live = TRUE
               /\ \/ /\ calls[i].atHome /\ route # calls[i].chat
                     /\ Rest({i}, {"abort", "leave"})
                     /\ crossed' = (crossed \/ \E j \in DOMAIN calls \ {i} : Unprotected(calls[j]))
                  \/ /\ ~ (calls[i].atHome /\ route # calls[i].chat)
                     /\ Rest({i}, {"abort"}) /\ crossed' = crossed
<1>1. /\ i \in DOMAIN calls /\ calls[i].kind = "submit" /\ calls[i].step = "create"
      /\ calls[i].project # None /\ NewRun(calls[i].chat, r)
      /\ UNCHANGED <<chats, inFlight, retrying, clicks, faults, raced>>
  BY DEF CreateRun, At
<1>2. CASE ~calls[i].live
  <2>1. calls' = Drop(calls, i) /\ UNCHANGED <<route, shown, pending, crossed>>
    BY <1>2 DEF CreateRun
  <2> QED BY <1>1, <1>2, <2>1, DropIs
<1>3. CASE calls[i].live
  <2> DEFINE k == [calls[i] EXCEPT !.step = "monitor", !.run = r]
             monitored == Put(AbortMonitor(calls), i, k)
             opens == calls[i].atHome /\ route # calls[i].chat
  <2>1. /\ gen' = startApiGeneration(r) /\ turns' = insertTimelineRun(r)
        /\ project' = (IF calls[i].atHome THEN calls[i].project ELSE project)
        /\ route' = (IF calls[i].atHome THEN calls[i].chat ELSE route)
        /\ pending' = (IF ~calls[i].atHome THEN pending ELSE IF opens THEN None ELSE calls[i].chat)
        /\ calls' = (IF opens THEN LeaveRoute(monitored) ELSE monitored)
        /\ crossed' = (crossed \/ (opens /\ \E j \in DOMAIN calls \ {i} : Unprotected(calls[j])))
        /\ UNCHANGED <<snapshot, history>>
    BY <1>3 DEF CreateRun
  <2>2. /\ k \in Call /\ SameCall([calls[i] EXCEPT !.run = r], k) /\ k.step = "monitor"
        /\ k.live = TRUE /\ k.kind = "submit" /\ calls[i] \in Call /\ i \in 1 .. MaxCalls
    BY <1>1, <1>3, CallTyped DEF Call, SameCall
  <2>3. Fades(calls, AbortMonitor(calls), {"abort"})
    BY CallsTyped, AbortFades
  <2> HIDE DEF k
  <2>4. /\ DOMAIN monitored = DOMAIN calls /\ monitored[i] = k
        /\ \A j \in DOMAIN calls \ {i} : Faded(calls[j], monitored[j], {"abort"})
    BY <1>1, <2>3 DEF Put, Fades
  <2> HIDE DEF monitored
  <2>5. CASE ~opens
    <3>1. calls' = monitored /\ crossed' = crossed
      BY <2>1, <2>5 DEF TypeOK
    <3>2. Rest({i}, {"abort"}) /\ i \in DOMAIN calls' /\ calls'[i] = k
      BY <1>1, <2>2, <2>4, <3>1, CallsTyped DEF Rest
    <3> QED BY <1>1, <1>3, <2>1, <2>2, <2>5, <3>1, <3>2
  <2>6. CASE opens
    <3>1. /\ calls' = LeaveRoute(monitored)
          /\ crossed' = (crossed \/ \E j \in DOMAIN calls \ {i} : Unprotected(calls[j]))
      BY <2>1, <2>6
    <3>2. Typed(monitored)
      BY <2>2, <2>4 DEF Typed, Faded
    <3>3. Fades(monitored, calls', {"leave"})
      BY <3>1, <3>2, LeaveFades
    <3>4. DOMAIN calls' = DOMAIN calls /\ Faded(k, calls'[i], {"leave"})
      BY <1>1, <2>4, <3>3 DEF Fades
    <3>5. /\ calls'[i] \in Call /\ SameCall([calls[i] EXCEPT !.run = r], calls'[i])
          /\ calls'[i].step = "monitor" /\ calls'[i].live
      BY <2>2, <3>4 DEF Faded, SameCall
    <3>6. calls'[i].live = TRUE
      BY <3>5 DEF Call
    <3>7. ASSUME NEW j \in DOMAIN calls \ {i} PROVE Faded(calls[j], calls'[j], {"abort", "leave"})
      <4>1. Faded(calls[j], monitored[j], {"abort"}) /\ Faded(monitored[j], calls'[j], {"leave"})
        BY <2>4, <3>3 DEF Fades
      <4>2. {"abort"} \in SUBSET Switches /\ {"leave"} \in SUBSET Switches /\ calls[j] \in Call
        BY CallsTyped DEF Switches, Typed
      <4>3. Faded(calls[j], calls'[j], {"abort"} \cup {"leave"})
        BY <4>1, <4>2, FadedTwice
      <4>4. {"abort"} \cup {"leave"} = {"abort", "leave"}
        OBVIOUS
      <4> QED BY <4>3, <4>4
    <3>8. Rest({i}, {"abort", "leave"})
      BY <3>4, <3>5, <3>7, CallsTyped DEF Rest
    <3> QED BY <1>1, <1>3, <2>1, <2>6, <3>1, <3>4, <3>5, <3>6, <3>8
  <2> QED BY <2>5, <2>6
<1> QED BY <1>2, <1>3

LEMMA RetryReturnsStep ==
  ASSUME TypeOK, NEW i, RetryReturns(i)
  PROVE  /\ i \in DOMAIN calls /\ calls[i].kind = "retry" /\ calls[i].step = "detail"
         /\ UNCHANGED <<server, route, shown, refs, clicks, faults, ghosts>>
         /\ Rest({i, Free}, Refreshes \cup Loads)
         /\ i \in DOMAIN calls' /\ Free \in DOMAIN calls' /\ i # Free /\ Free \notin DOMAIN calls
         /\ SameCall(calls[i], calls'[i]) /\ calls'[i].step = "refresh" /\ calls'[i].fresh
         /\ SameCall(calls[i], calls'[Free]) /\ calls'[Free].step = "page" /\ calls'[Free].fresh
<1> DEFINE k == calls[i]
           c == [k EXCEPT !.step = "refresh", !.fresh = TRUE]
           d == [k EXCEPT !.step = "page", !.fresh = TRUE, !.page = Blank]
           f == Put(Supersede(calls, Refreshes), i, c)
           g == Supersede(f, Loads)
<1>1. i \in DOMAIN calls /\ k.kind = "retry" /\ k.step = "detail" /\ k \in Call
  BY CallTyped DEF RetryReturns, At
<1>2. Free \in 1 .. MaxCalls /\ Free \notin DOMAIN calls /\ i # Free
  <2>1. MaxCalls \in Nat /\ Free <= MaxCalls
    BY WorkspaceAssumption DEF WorkspaceAssumption, RetryReturns
  <2> QED BY <1>1, <2>1, FreeIs
<1>3. calls' = Put(g, Free, d) /\ UNCHANGED <<server, route, shown, refs, clicks, faults, ghosts>>
  BY DEF RetryReturns, StartLoad, StartRefresh
<1>4. c \in Call /\ SameCall(k, c) /\ c.step = "refresh" /\ c.fresh = TRUE
  BY <1>1 DEF Call, SameCall
<1>5. d \in Call /\ SameCall(k, d) /\ d.step = "page" /\ d.fresh = TRUE
  BY <1>1, BlankType DEF Call, SameCall
<1> HIDE DEF c, d
<1>6. Fades(calls, Supersede(calls, Refreshes), Refreshes) /\ Typed(Supersede(calls, Refreshes))
  BY CallsTyped, SupersedeFades, FadesTyped
<1>7. /\ DOMAIN f = DOMAIN calls /\ f[i] = c
      /\ \A j \in DOMAIN calls \ {i} : Faded(calls[j], f[j], Refreshes)
      /\ Typed(f)
  BY <1>1, <1>4, <1>6 DEF Put, Fades, Typed
<1>8. Fades(f, g, Loads)
  BY <1>7, SupersedeFades
<1> HIDE DEF f
<1>9. DOMAIN g = DOMAIN calls /\ Faded(c, g[i], Loads)
  BY <1>1, <1>7, <1>8 DEF Fades
<1>10. ASSUME NEW j \in DOMAIN calls \ {i} PROVE Faded(calls[j], g[j], Refreshes \cup Loads)
  <2>1. Faded(calls[j], f[j], Refreshes) /\ Faded(f[j], g[j], Loads)
    BY <1>7, <1>8 DEF Fades
  <2>2. Loads \in SUBSET Switches /\ Refreshes \in SUBSET Switches /\ calls[j] \in Call
    BY CallsTyped DEF Switches, Typed
  <2> QED BY <2>1, <2>2, FadedTwice
<1> HIDE DEF g
<1>11. /\ DOMAIN calls' = DOMAIN calls \cup {Free} /\ calls'[Free] = d
       /\ \A j \in DOMAIN calls : calls'[j] = g[j]
  BY <1>2, <1>3, <1>9 DEF Put
<1>12. /\ calls'[i] \in Call /\ SameCall(k, calls'[i]) /\ calls'[i].step = "refresh" /\ calls'[i].fresh
  BY <1>1, <1>4, <1>9, <1>11 DEF Faded, SameCall, Loads, Monitored
<1>13. Rest({i, Free}, Refreshes \cup Loads)
  BY <1>2, <1>5, <1>10, <1>11, <1>12, CallsTyped DEF Rest
<1> QED BY <1>1, <1>2, <1>3, <1>5, <1>11, <1>12, <1>13

LEMMA RouteSnapshotStep ==
  ASSUME TypeOK, NEW i, RouteSnapshot(i)
  PROVE  /\ i \in DOMAIN calls /\ calls[i].kind = "route" /\ calls[i].step = "snapshot"
         /\ snapshot' = (IF calls[i].live THEN calls[i].run ELSE snapshot)
         /\ UNCHANGED <<server, route, project, gen, history, turns, refs, clicks, faults, ghosts>>
         /\ Dropped(i)
BY DropIs DEF RouteSnapshot, Routed, At

LEMMA RouteFailsStep ==
  ASSUME TypeOK, NEW i, RouteFails(i)
  PROVE  /\ i \in DOMAIN calls /\ calls[i].kind = "route" /\ Fault
         /\ UNCHANGED <<server, route, shown, refs, clicks, ghosts>>
         /\ Dropped(i)
BY DropIs DEF RouteFails

\* The state shown for a turn may change, the turns that are shown do not.
SameTurns == turns' \in [Runs -> Ended \cup {"active", None}]
             /\ \A r \in Runs : turns'[r] = None <=> turns[r] = None

LEMMA EventTurns ==
  ASSUME TypeOK, NEW r, NEW s \in Ended
  PROVE  /\ applyTimelineEvent(r, s) \in [Runs -> Ended \cup {"active", None}]
         /\ \A q \in Runs : applyTimelineEvent(r, s)[q] = None <=> turns[q] = None
         /\ \A q \in Runs \ {r} : applyTimelineEvent(r, s)[q] = turns[q]
         /\ r \in Runs => applyTimelineEvent(r, s)[r] \in {None, s}
<1>1. turns \in [Runs -> Ended \cup {"active", None}] /\ None \notin Ended
  BY WorkspaceAssumption DEF WorkspaceAssumption, TypeOK
<1> QED BY <1>1 DEF applyTimelineEvent

LEMMA CatchStep ==
  ASSUME TypeOK, NEW i \in DOMAIN calls, Catch(i)
  PROVE  /\ gen'.run = gen.run
         /\ gen' \in {gen, failApiGeneration}
         /\ SameTurns
         /\ calls[i].run = NoRun => turns' = turns
         /\ ~calls[i].live => gen' = gen /\ turns' = turns
         /\ inFlight' = (inFlight /\ ~calls[i].live)
         /\ Dropped(i)
<1> DEFINE r == calls[i].run
<1>1. gen.run = gen.run /\ failApiGeneration.run = gen.run
  BY DEF failApiGeneration, TypeOK
<1>2. Dropped(i) /\ inFlight' = (inFlight /\ ~calls[i].live)
  BY DropIs DEF Catch, Finally
<1>3. turns \in [Runs -> Ended \cup {"active", None}]
  BY DEF TypeOK
<1>4. CASE ~calls[i].live
  <2>1. gen' = gen /\ turns' = turns
    BY <1>4 DEF Catch
  <2> QED BY <1>1, <1>2, <1>3, <2>1 DEF SameTurns
<1>5. CASE calls[i].live
  <2>1. gen' = failApiGeneration /\ turns' = IF r = NoRun THEN turns ELSE applyTimelineEvent(r, "failed")
    BY <1>5 DEF Catch
  <2>2. "failed" \in Ended
    BY DEF Ended
  <2>3. SameTurns
    BY <1>3, <2>1, <2>2, EventTurns DEF SameTurns
  <2> QED BY <1>1, <1>2, <1>5, <2>1, <2>3
<1> QED BY <1>4, <1>5

LEMMA CreateFailsStep ==
  ASSUME TypeOK, NEW i, CreateFails(i)
  PROVE  /\ i \in DOMAIN calls /\ calls[i].kind = "submit" /\ calls[i].step \in {"chat", "create"}
         /\ Catch(i)
         /\ UNCHANGED <<chats, route, project, snapshot, history, pending, retrying, clicks, ghosts>>
         /\ \/ UNCHANGED <<home, status>>
            \/ calls[i].step = "create" /\ \E r \in Runs : NewRun(calls[i].chat, r)
         /\ \/ calls[i].project = None /\ UNCHANGED <<home, status, faults>>
            \/ Fault
BY DEF CreateFails, At

LEMMA MonitorFailsStep ==
  ASSUME TypeOK, NEW i, MonitorFails(i)
  PROVE  /\ i \in DOMAIN calls /\ Monitored(calls[i]) /\ Fault /\ Catch(i)
         /\ UNCHANGED <<server, route, project, snapshot, history, pending, retrying, clicks, ghosts>>
BY DEF MonitorFails

LEMMA AbortedStep ==
  ASSUME TypeOK, NEW i, Aborted(i)
  PROVE  /\ i \in DOMAIN calls /\ calls[i].kind = "submit" /\ calls[i].step = "aborted"
         /\ inFlight' = (inFlight /\ ~calls[i].live)
         /\ Dropped(i)
         /\ UNCHANGED <<server, route, shown, pending, retrying, clicks, faults, ghosts>>
BY DropIs DEF Aborted, At, Finally

LEMMA RefreshFailsStep ==
  ASSUME TypeOK, NEW i, RefreshFails(i)
  PROVE  /\ i \in DOMAIN calls /\ calls[i].step = "refresh" /\ calls[i].kind # "route" /\ Fault
         /\ UNCHANGED <<server, route, project, snapshot, history, pending, retrying, clicks, ghosts>>
         /\ \/ calls[i].kind = "submit" /\ Catch(i)
            \/ /\ calls[i].kind = "cancel" /\ gen' = failApiGeneration /\ Dropped(i)
               /\ UNCHANGED <<turns, inFlight>>
            \/ /\ calls[i].kind = "retry" /\ Retried(i)
               /\ UNCHANGED <<gen, turns, inFlight>>
<1>1. /\ i \in DOMAIN calls /\ calls[i].step = "refresh" /\ calls[i].kind # "route" /\ Fault
      /\ UNCHANGED <<server, route, project, snapshot, history, pending, retrying, clicks, ghosts>>
  BY DEF RefreshFails, Refreshing, Refreshes
<1>2. \/ calls[i].kind = "submit" /\ Catch(i)
      \/ /\ calls[i].kind = "cancel" /\ gen' = failApiGeneration /\ calls' = Drop(calls, i)
         /\ UNCHANGED <<turns, inFlight>>
      \/ /\ calls[i].kind = "retry" /\ calls' = StartLoad(LetGo(calls), i, calls[i])
         /\ UNCHANGED <<gen, turns, inFlight>>
  BY DEF RefreshFails
<1> QED BY <1>1, <1>2, DropIs, RetriedIs

LEMMA LoadOverStep ==
  ASSUME TypeOK, NEW i \in DOMAIN calls, LoadOver(i)
  PROVE  /\ inFlight' \in BOOLEAN
         /\ inFlight' <=> (inFlight /\ (calls[i].kind = "submit" => ~calls[i].live))
         /\ RetryOver(i) /\ Dropped(i)
BY DropIs DEF LoadOver, Finally, TypeOK

LEMMA LoadArrivesStep ==
  ASSUME TypeOK, NEW i, LoadArrives(i)
  PROVE  /\ i \in DOMAIN calls /\ calls[i].step = "loaded"
         /\ turns' = (IF ~calls[i].fresh THEN turns
                      ELSE IF calls[i].older THEN mergeOlderTimelinePage(calls[i].page)
                      ELSE calls[i].page)
         /\ LoadOver(i)
         /\ UNCHANGED <<server, route, project, gen, snapshot, history, pending, clicks, faults, ghosts>>
BY DEF LoadArrives, LoadIsLatest

LEMMA LoadFailsStep ==
  ASSUME TypeOK, NEW i, LoadFails(i)
  PROVE  /\ i \in DOMAIN calls /\ calls[i].step \in Loads /\ Fault /\ LoadOver(i)
         /\ UNCHANGED <<server, route, shown, pending, clicks, ghosts>>
BY DEF LoadFails, Loading

LEMMA CancelFailsStep ==
  ASSUME TypeOK, NEW i, CancelFails(i)
  PROVE  /\ i \in DOMAIN calls /\ calls[i].kind = "cancel" /\ calls[i].step = "reply" /\ Fault
         /\ gen' = failApiGeneration /\ Dropped(i)
         /\ UNCHANGED <<server, route, project, snapshot, history, turns, refs, clicks, ghosts>>
BY DropIs DEF CancelFails, At

LEMMA SelectArrivesStep ==
  ASSUME TypeOK, NEW i, SelectArrives(i)
  PROVE  /\ i \in DOMAIN calls /\ calls[i].kind = "select" /\ calls[i].step = "snapshot"
         /\ snapshot' = calls[i].run /\ Dropped(i)
         /\ UNCHANGED <<server, route, project, gen, history, turns, refs, clicks, faults, ghosts>>
BY DropIs DEF SelectArrives, At

LEMMA RetryFailsStep ==
  ASSUME TypeOK, NEW i, RetryFails(i)
  PROVE  /\ i \in DOMAIN calls /\ calls[i].kind = "retry"
         /\ calls[i].step \in {"create", "monitor", "detail"} /\ Fault
         /\ UNCHANGED <<server, route, shown, refs, clicks, ghosts>>
         /\ Reloaded(i)
BY ReloadedIs DEF RetryFails

\* After a step that failed no call the bound of faults is as it was.
LEMMA FaultIs ==
  ASSUME TypeOK, Fault
  PROVE  faults' # 0 /\ faults' \in 0 .. MaxFaults
BY WorkspaceAssumption DEF WorkspaceAssumption, TypeOK, Fault

-----------------------------------------------------------------------------
(***************************************************************************)
(* BaseInv: the unfinished calls are of a known shape, and at most one of  *)
(* them is the live submission, the latest refresh and the latest load.    *)
(***************************************************************************)

\* Every run that was made has a state.
StatusOfMade == \A r \in Runs : home[r] # None => status[r] # None

\* The refresh whose answer will be taken.
FreshRefresh(k) == k.step = "refresh" /\ k.fresh
\* The submission the flag inFlight belongs to.
LiveSubmit(k) == k.kind = "submit" /\ k.live
\* A submission that follows its run.
Follows(k) == k.kind = "submit" /\ k.step \in {"monitor", "detail"}

\* What call i may be: the steps of its kind, the run and chat it knows by then,
\* and that an aborted submission is no longer followed.
Shaped(i) ==
  /\ calls[i].kind = "route" => calls[i].step \in {"chat", "refresh", "project", "snapshot"}
  /\ calls[i].kind = "timeline" => calls[i].step \in Loads
  /\ calls[i].kind = "submit" =>
       calls[i].step \in {"chat", "create", "monitor", "detail", "aborted"} \cup Refreshes \cup Loads
  /\ calls[i].kind = "cancel" => calls[i].step \in {"reply"} \cup Refreshes \cup Loads
  /\ calls[i].kind = "select" => calls[i].step = "snapshot"
  /\ calls[i].kind = "retry" =>
       calls[i].step \in {"create", "monitor", "detail"} \cup Refreshes \cup Loads
  /\ calls[i].older => calls[i].kind = "timeline"
  /\ Follows(calls[i]) => calls[i].live
  /\ Follows(calls[i]) \/ calls[i].kind \in {"cancel", "retry"} =>
       calls[i].run \in Runs /\ home[calls[i].run] # None
  /\ calls[i].step = "create" => calls[i].chat # None
  /\ calls[i].step = "loaded" =>
       \A r \in Runs : calls[i].page[r] # None => calls[i].chat # None /\ home[r] = calls[i].chat
  /\ LiveSubmit(calls[i]) => inFlight

\* A request number has one holder.
OneOfEach ==
  \A i, j \in DOMAIN calls :
    /\ LiveSubmit(calls[i]) /\ LiveSubmit(calls[j]) => i = j
    /\ FreshRefresh(calls[i]) /\ FreshRefresh(calls[j]) => i = j
    /\ FreshLoad(calls[i]) /\ FreshLoad(calls[j]) => i = j

CallInv == (\A i \in DOMAIN calls : Shaped(i)) /\ OneOfEach

\* What is shown was made.
ShownMade ==
  /\ gen.run \in Runs => home[gen.run] # None
  /\ \A r \in Runs : turns[r] # None => home[r] # None

BaseInv == TypeOK /\ Numbered /\ StatusOfMade /\ CallInv /\ ShownMade

\* TypeOK without the calls.
PlainType ==
    /\ chats \subseteq Chats
    /\ home \in [Runs -> Chats \cup {None}]
    /\ status \in [Runs -> Ended \cup {"active", None}]
    /\ route \in Chats \cup {None}
    /\ project \in Chats \cup {None}
    /\ gen \in [status : {"idle", "running", "ready", "failed", "cancelled"},
                run : 0 .. PendingRun]
    /\ snapshot \in Runs \cup {NoRun}
    /\ history \in Chats \cup {None}
    /\ turns \in [Runs -> Ended \cup {"active", None}]
    /\ inFlight \in BOOLEAN
    /\ pending \in Chats \cup {None}
    /\ retrying \in BOOLEAN
    /\ clicks \in 0 .. MaxClicks
    /\ faults \in 0 .. MaxFaults
    /\ crossed \in BOOLEAN
    /\ raced \in BOOLEAN

LEMMA RestType ==
  ASSUME PlainType', NEW X, NEW W, Rest(X, W)
  PROVE  TypeOK'
<1>1. /\ DOMAIN calls' \subseteq 1 .. MaxCalls
      /\ \A j \in DOMAIN calls' : calls'[j] \in Call
  BY DEF Rest, Faded
<1> QED BY <1>1 DEF PlainType, TypeOK

\* A run stays in the chat it was made in.
Grows == \A r \in Runs : home[r] # None => home'[r] = home[r]

LEMMA RestShaped ==
  ASSUME TypeOK, \A i \in DOMAIN calls : Shaped(i), NEW X, NEW W, Rest(X, W), Grows,
         \/ "forget" \notin W \/ "abort" \in W
         \/ \A i \in DOMAIN calls \ X : ~ Follows(calls[i]),
         \A i \in DOMAIN calls \ X : LiveSubmit(calls[i]) /\ "forget" \notin W => inFlight'
  PROVE  \A j \in DOMAIN calls' \ X : Shaped(j)'
<1> SUFFICES ASSUME NEW j \in DOMAIN calls' \ X PROVE Shaped(j)'
  OBVIOUS
<1>1. j \in DOMAIN calls \ X /\ Faded(calls[j], calls'[j], W)
  BY DEF Rest
<1> DEFINE k == calls[j]
           c == calls'[j]
<1>2. /\ c.kind = k.kind /\ c.run = k.run /\ (c.older <=> k.older)
      /\ c.step = (IF "abort" \in W /\ Monitored(k) THEN "aborted" ELSE k.step)
      /\ c.live <=> k.live /\ ~ ("leave" \in W /\ k.kind = "route")
                           /\ ~ ("forget" \in W /\ k.kind = "submit")
                           /\ ~ ("let go" \in W /\ k.kind = "retry")
  BY <1>1 DEF Faded, SameCall
<1>3. Shaped(j)
  BY <1>1
<1>4. Follows(c) => Follows(k) /\ "abort" \notin W
  BY <1>2 DEF Follows, Monitored
<1>5. Follows(c) => c.live
  BY <1>1, <1>2, <1>3, <1>4 DEF Shaped, Follows
<1>6. LiveSubmit(c) => inFlight'
  BY <1>1, <1>2 DEF LiveSubmit
<1>7. Follows(c) \/ c.kind \in {"cancel", "retry"} => c.run \in Runs /\ home'[c.run] # None
  <2>1. ASSUME Follows(k) \/ k.kind \in {"cancel", "retry"}
        PROVE  k.run \in Runs /\ home[k.run] # None
    BY <1>3, <2>1 DEF Shaped
  <2>2. ASSUME k.run \in Runs, home[k.run] # None PROVE home'[k.run] # None
    BY <2>2 DEF Grows
  <2> QED BY <1>2, <1>4, <2>1, <2>2
<1>8. c.older => c.kind = "timeline"
  BY <1>2, <1>3 DEF Shaped
<1>11. c.step = "create" => c.chat # None
  BY <1>1, <1>2, <1>3 DEF Shaped, Faded, SameCall
<1>12. c.step = "loaded" => \A r \in Runs : c.page[r] # None => c.chat # None /\ home'[r] = c.chat
  <2>1. c.step = "loaded" => k.step = "loaded" /\ c.page = k.page /\ c.chat = k.chat
    BY <1>1, <1>2 DEF Faded, SameCall
  <2> QED BY <1>3, <2>1 DEF Shaped, Grows
<1>9. c.step = k.step \/ (c.kind = "submit" /\ c.step = "aborted")
  BY <1>2 DEF Monitored
<1>10. /\ c.kind = "route" => c.step \in {"chat", "refresh", "project", "snapshot"}
       /\ c.kind = "timeline" => c.step \in Loads
       /\ c.kind = "submit" =>
            c.step \in {"chat", "create", "monitor", "detail", "aborted"} \cup Refreshes \cup Loads
       /\ c.kind = "cancel" => c.step \in {"reply"} \cup Refreshes \cup Loads
       /\ c.kind = "select" => c.step = "snapshot"
       /\ c.kind = "retry" => c.step \in {"create", "monitor", "detail"} \cup Refreshes \cup Loads
  BY <1>2, <1>3, <1>9 DEF Shaped
<1> QED BY <1>5, <1>6, <1>7, <1>8, <1>10, <1>11, <1>12 DEF Shaped

\* A call that step W fades is as fresh and as live as it was, or less.
LEMMA FadedLess ==
  ASSUME NEW k, NEW c, NEW W, Faded(k, c, W)
  PROVE  /\ LiveSubmit(c) => LiveSubmit(k) /\ "forget" \notin W
         /\ FreshRefresh(c) => FreshRefresh(k) /\ "refresh" \notin W
         /\ FreshLoad(c) => FreshLoad(k) /\ ~ (Loads \subseteq W)
<1>1. c.step = "refresh" \/ c.step \in Loads => c.step = k.step
  BY DEF Faded, Loads
<1> QED BY <1>1 DEF Faded, SameCall, LiveSubmit, FreshRefresh, FreshLoad

LEMMA RestOneOfEach ==
  ASSUME TypeOK, OneOfEach, NEW X, NEW W, Rest(X, W),
         \A x \in X \cap DOMAIN calls' :
           /\ LiveSubmit(calls'[x]) =>
                /\ \A y \in X \cap DOMAIN calls' : LiveSubmit(calls'[y]) => y = x
                /\ "forget" \in W \/ (x \in DOMAIN calls /\ LiveSubmit(calls[x]))
           /\ FreshRefresh(calls'[x]) =>
                /\ \A y \in X \cap DOMAIN calls' : FreshRefresh(calls'[y]) => y = x
                /\ "refresh" \in W
           /\ FreshLoad(calls'[x]) =>
                /\ \A y \in X \cap DOMAIN calls' : FreshLoad(calls'[y]) => y = x
                /\ Loads \subseteq W \/ (x \in DOMAIN calls /\ FreshLoad(calls[x]))
  PROVE  OneOfEach'
<1>1. ASSUME NEW j \in DOMAIN calls' \ X
      PROVE  /\ j \in DOMAIN calls
             /\ LiveSubmit(calls'[j]) => LiveSubmit(calls[j]) /\ "forget" \notin W
             /\ FreshRefresh(calls'[j]) => FreshRefresh(calls[j]) /\ "refresh" \notin W
             /\ FreshLoad(calls'[j]) => FreshLoad(calls[j]) /\ ~ (Loads \subseteq W)
  BY FadedLess DEF Rest
<1>2. ASSUME NEW i \in DOMAIN calls', NEW j \in DOMAIN calls',
             LiveSubmit(calls'[i]), LiveSubmit(calls'[j])
      PROVE  i = j
  BY <1>1, <1>2 DEF OneOfEach
<1>3. ASSUME NEW i \in DOMAIN calls', NEW j \in DOMAIN calls',
             FreshRefresh(calls'[i]), FreshRefresh(calls'[j])
      PROVE  i = j
  BY <1>1, <1>3 DEF OneOfEach
<1>4. ASSUME NEW i \in DOMAIN calls', NEW j \in DOMAIN calls',
             FreshLoad(calls'[i]), FreshLoad(calls'[j])
      PROVE  i = j
  BY <1>1, <1>4 DEF OneOfEach
<1> QED BY <1>2, <1>3, <1>4 DEF OneOfEach, LiveSubmit, FreshRefresh, FreshLoad

LEMMA MadeIs ==
  ASSUME BaseInv, Grows,
         gen'.run \in Runs => gen'.run = gen.run \/ home'[gen'.run] # None,
         \A r \in Runs : turns'[r] # None => turns[r] # None \/ home'[r] # None
  PROVE  ShownMade'
<1>1. /\ gen.run \in Runs => home'[gen.run] # None
      /\ \A r \in Runs : turns[r] # None => home'[r] # None
  BY DEF BaseInv, ShownMade, Grows
<1> QED BY <1>1 DEF ShownMade

ServerKept == Grows /\ Numbered' /\ StatusOfMade'

LEMMA ServerIs ==
  ASSUME BaseInv
  PROVE  /\ UNCHANGED server => ServerKept
         /\ \A c \in Chats, r \in Runs : NewRun(c, r) => ServerKept
<1>1. ASSUME UNCHANGED server PROVE ServerKept
  BY <1>1 DEF server, ServerKept, Grows, BaseInv, Numbered, StatusOfMade
<1>2. ASSUME NEW c \in Chats, NEW r \in Runs, NewRun(c, r) PROVE ServerKept
  <2>1. /\ home[r] = None /\ home' = [home EXCEPT ![r] = c]
        /\ status' = [status EXCEPT ![r] = "active"] /\ Numbered'
    <3>1. c # None
      BY WorkspaceAssumption DEF WorkspaceAssumption
    <3> QED BY <1>2, <3>1, NewRunIs DEF BaseInv
  <2>2. "active" # None
    BY WorkspaceAssumption DEF WorkspaceAssumption
  <2>3. Grows /\ StatusOfMade'
    BY <2>1, <2>2 DEF Grows, StatusOfMade, BaseInv, TypeOK
  <2> QED BY <2>1, <2>3 DEF ServerKept
<1> QED BY <1>1, <1>2

\* The invariant after a step that drops call i.
LEMMA DropBase ==
  ASSUME BaseInv, NEW i \in DOMAIN calls, Dropped(i), ServerKept, PlainType', ShownMade',
         \/ inFlight' <=> inFlight
         \/ calls[i].kind = "submit" /\ (inFlight' <=> inFlight /\ ~calls[i].live)
  PROVE  BaseInv'
<1>1. Rest({i}, {}) /\ i \notin DOMAIN calls'
  BY DroppedRest DEF BaseInv, Dropped
<1>2. TypeOK'
  BY <1>1, RestType
<1>3. ASSUME NEW j \in DOMAIN calls \ {i}, LiveSubmit(calls[j]) PROVE inFlight'
  <2>1. inFlight /\ ~LiveSubmit(calls[i])
    BY <1>3 DEF BaseInv, CallInv, OneOfEach, Shaped
  <2> QED BY <2>1 DEF LiveSubmit
<1>4. \A j \in DOMAIN calls' \ {i} : Shaped(j)'
  BY <1>1, <1>3, RestShaped DEF BaseInv, CallInv, ServerKept
<1>5. OneOfEach'
  BY <1>1, RestOneOfEach DEF BaseInv, CallInv
<1> QED BY <1>1, <1>2, <1>4, <1>5 DEF BaseInv, CallInv, ServerKept

\* The invariant after a step that changes call i.
LEMMA ChangeBase ==
  ASSUME BaseInv, NEW i, NEW W, Rest({i}, W), ServerKept, PlainType', ShownMade',
         i \in DOMAIN calls' => Shaped(i)',
         \/ "forget" \notin W /\ (inFlight => inFlight')
         \/ "forget" \in W /\ ("abort" \in W \/ ~inFlight),
         i \in DOMAIN calls' =>
           /\ LiveSubmit(calls'[i]) => "forget" \in W \/ (i \in DOMAIN calls /\ LiveSubmit(calls[i]))
           /\ FreshRefresh(calls'[i]) => "refresh" \in W
           /\ FreshLoad(calls'[i]) => Loads \subseteq W \/ (i \in DOMAIN calls /\ FreshLoad(calls[i]))
  PROVE  BaseInv'
<1>1. TypeOK'
  BY RestType
<1>2. ~inFlight => \A j \in DOMAIN calls : ~Follows(calls[j])
  BY DEF BaseInv, CallInv, Shaped, Follows, LiveSubmit
<1>3. \A j \in DOMAIN calls : LiveSubmit(calls[j]) => inFlight
  BY DEF BaseInv, CallInv, Shaped
<1>4. \A j \in DOMAIN calls' \ {i} : Shaped(j)'
  BY <1>2, <1>3, RestShaped DEF BaseInv, CallInv, ServerKept
<1>5. OneOfEach'
  BY RestOneOfEach DEF BaseInv, CallInv
<1> QED BY <1>1, <1>4, <1>5 DEF BaseInv, CallInv, ServerKept

Panels == [status : {"idle", "running", "ready", "failed", "cancelled"}, run : 0 .. PendingRun]

LEMMA PanelIs ==
  ASSUME NEW s \in Ended \cup {"active"}
  PROVE  /\ Panel(s) \in {"running", "ready", "failed", "cancelled"}
         /\ Panel(s) = "running" <=> s = "active"
BY DEF Panel, Ended

LEMMA PanelsAre ==
  ASSUME TypeOK
  PROVE  /\ failApiGeneration \in Panels /\ Idle \in Panels /\ gen \in Panels
         /\ \A r \in Runs \cup {PendingRun} : startApiGeneration(r) \in Panels
         /\ \A r \in Runs, s \in Ended \cup {"active"} :
              applyAgentEvent(r, s) \in Panels /\ applyAgentRunDetail(r, s) \in Panels
         /\ failApiGeneration.run = gen.run /\ Idle.run = NoRun
         /\ \A r \in Runs \cup {PendingRun} : startApiGeneration(r).run = r
         /\ \A r, s : /\ applyAgentEvent(r, s).run = gen.run
                      /\ applyAgentRunDetail(r, s).run = IF DetailAccepted(r) THEN r ELSE gen.run
<1>1. MaxRuns \in Nat /\ Runs \cup {PendingRun} \subseteq 0 .. PendingRun /\ 0 \in 0 .. PendingRun
  BY WorkspaceAssumption DEF WorkspaceAssumption, Runs, PendingRun
<1>2. gen \in Panels
  BY DEF TypeOK, Panels
<1>3. failApiGeneration \in Panels /\ Idle \in Panels
  BY <1>1, <1>2 DEF failApiGeneration, Idle, Panels, NoRun
<1>4. \A r \in Runs \cup {PendingRun} : startApiGeneration(r) \in Panels
  BY <1>1 DEF startApiGeneration, Panels
<1>5. ASSUME NEW r \in Runs, NEW s \in Ended \cup {"active"}
      PROVE  applyAgentEvent(r, s) \in Panels /\ applyAgentRunDetail(r, s) \in Panels
  <2>1. Panel(s) \in {"running", "ready", "failed", "cancelled"} /\ r \in 0 .. PendingRun
    BY <1>1, PanelIs
  <2> HIDE DEF Panel
  <2> QED BY <1>2, <2>1 DEF applyAgentEvent, applyAgentRunDetail, Panels
<1>6. failApiGeneration.run = gen.run /\ Idle.run = NoRun
  BY <1>2 DEF failApiGeneration, Idle, Panels
<1>7. \A r \in Runs \cup {PendingRun} : startApiGeneration(r).run = r
  BY DEF startApiGeneration
<1>8. ASSUME NEW r, NEW s
      PROVE  /\ applyAgentEvent(r, s).run = gen.run
             /\ applyAgentRunDetail(r, s).run = IF DetailAccepted(r) THEN r ELSE gen.run
  <2> HIDE DEF Panel
  <2>1. [gen EXCEPT !.status = Panel(s)].run = gen.run
    BY <1>2 DEF Panels
  <2> QED BY <2>1 DEF applyAgentEvent, applyAgentRunDetail
<1> QED BY <1>2, <1>3, <1>4, <1>5, <1>6, <1>7, <1>8

LEMMA PlainIs == TypeOK => PlainType
BY DEF TypeOK, PlainType

LEMMA RouteSnapshotBase ==
  ASSUME BaseInv, NEW i, RouteSnapshot(i)
  PROVE  BaseInv'
<1>1. ServerKept
  BY ServerIs, RouteSnapshotStep DEF BaseInv
<1>2. i \in DOMAIN calls /\ Dropped(i) /\ inFlight' = inFlight
  BY RouteSnapshotStep DEF BaseInv, refs
<1>3. PlainType'
  BY RouteSnapshotStep, PlainIs, CallTyped DEF BaseInv, PlainType, server, refs, ghosts
<1>9. ShownMade'
  BY <1>1, RouteSnapshotStep, MadeIs DEF BaseInv, ServerKept, shown
<1> QED BY <1>1, <1>2, <1>3, <1>9, DropBase

LEMMA RouteFailsBase ==
  ASSUME BaseInv, NEW i, RouteFails(i)
  PROVE  BaseInv'
<1>1. ServerKept
  BY ServerIs, RouteFailsStep DEF BaseInv
<1>2. i \in DOMAIN calls /\ Dropped(i) /\ inFlight' = inFlight
  BY RouteFailsStep DEF BaseInv, refs
<1>3. PlainType'
  BY RouteFailsStep, PlainIs, FaultIs DEF BaseInv, PlainType, server, shown, refs, ghosts
<1>9. ShownMade'
  BY <1>1, RouteFailsStep, MadeIs DEF BaseInv, ServerKept, shown
<1> QED BY <1>1, <1>2, <1>3, <1>9, DropBase

\* The types of what Catch writes.
LEMMA CatchBase ==
  ASSUME BaseInv, NEW i \in DOMAIN calls, calls[i].kind = "submit", Catch(i), ServerKept,
         home' \in [Runs -> Chats \cup {None}], status' \in [Runs -> Ended \cup {"active", None}],
         faults' \in 0 .. MaxFaults,
         UNCHANGED <<chats, route, project, snapshot, history, pending, retrying, clicks, ghosts>>
  PROVE  BaseInv'
<1>1. PlainType
  BY PlainIs DEF BaseInv
<1>2. /\ gen' \in Panels /\ turns' \in [Runs -> Ended \cup {"active", None}]
      /\ inFlight' = (inFlight /\ ~calls[i].live) /\ Dropped(i)
  BY CatchStep, PanelsAre DEF BaseInv, SameTurns
<1>3. inFlight' \in BOOLEAN
  BY <1>2
<1>4. PlainType'
  BY <1>1, <1>2, <1>3 DEF PlainType, Panels, ghosts
<1>5. inFlight' <=> inFlight /\ ~calls[i].live
  BY <1>2
<1>9. ShownMade'
  BY <1>2, CatchStep, MadeIs DEF BaseInv, ServerKept, SameTurns
<1> QED BY <1>2, <1>4, <1>5, <1>9, DropBase

LEMMA CreateFailsBase ==
  ASSUME BaseInv, NEW i, CreateFails(i)
  PROVE  BaseInv'
<1>1. /\ i \in DOMAIN calls /\ calls[i].kind = "submit" /\ calls[i].step \in {"chat", "create"}
      /\ Catch(i)
      /\ UNCHANGED <<chats, route, project, snapshot, history, pending, retrying, clicks, ghosts>>
      /\ \/ UNCHANGED <<home, status>>
         \/ calls[i].step = "create" /\ \E r \in Runs : NewRun(calls[i].chat, r)
      /\ \/ calls[i].project = None /\ UNCHANGED <<home, status, faults>>
         \/ Fault
  BY CreateFailsStep DEF BaseInv
<1>2. faults' \in 0 .. MaxFaults
  BY <1>1, FaultIs DEF BaseInv, TypeOK
<1>3. CASE UNCHANGED <<home, status>>
  <2>1. ServerKept
    BY <1>1, <1>3, ServerIs DEF server
  <2> QED BY <1>1, <1>2, <1>3, <2>1, CatchBase DEF BaseInv, TypeOK
<1>4. CASE calls[i].step = "create" /\ \E r \in Runs : NewRun(calls[i].chat, r)
  <2>1. PICK r \in Runs : NewRun(calls[i].chat, r)
    BY <1>4
  <2>2. home' \in [Runs -> Chats \cup {None}] /\ status' \in [Runs -> Ended \cup {"active", None}]
    BY <1>1, <2>1, CallTyped DEF NewRun, BaseInv, TypeOK
  <2>3. ServerKept
    <3>1. calls[i].chat # None /\ calls[i].chat \in Chats \cup {None}
      BY <1>1, <1>4, CallTyped DEF BaseInv, CallInv, Shaped
    <3> QED BY <2>1, <3>1, ServerIs
  <2> QED BY <1>1, <1>2, <2>2, <2>3, CatchBase
<1> QED BY <1>1, <1>3, <1>4

LEMMA MonitorFailsBase ==
  ASSUME BaseInv, NEW i, MonitorFails(i)
  PROVE  BaseInv'
<1>1. ServerKept
  BY ServerIs, MonitorFailsStep DEF BaseInv
<1>2. /\ i \in DOMAIN calls /\ calls[i].kind = "submit" /\ Catch(i) /\ faults' \in 0 .. MaxFaults
      /\ UNCHANGED <<chats, route, project, snapshot, history, pending, retrying, clicks, ghosts>>
      /\ UNCHANGED <<home, status>>
  BY MonitorFailsStep, FaultIs DEF BaseInv, server, Monitored
<1> QED BY <1>1, <1>2, CatchBase DEF BaseInv, TypeOK

LEMMA AbortedBase ==
  ASSUME BaseInv, NEW i, Aborted(i)
  PROVE  BaseInv'
<1>1. ServerKept
  BY ServerIs, AbortedStep DEF BaseInv
<1>2. /\ i \in DOMAIN calls /\ Dropped(i) /\ calls[i].kind = "submit"
      /\ inFlight' = (inFlight /\ ~calls[i].live)
      /\ UNCHANGED <<server, route, shown, pending, retrying, clicks, faults, ghosts>>
  BY AbortedStep DEF BaseInv
<1>3. inFlight' \in BOOLEAN /\ (inFlight' <=> inFlight /\ ~calls[i].live)
  BY <1>2
<1>4. PlainType'
  BY <1>2, <1>3, PlainIs DEF BaseInv, PlainType, server, shown, ghosts
<1>9. ShownMade'
  BY <1>1, <1>2, MadeIs DEF ServerKept, shown
<1> QED BY <1>1, <1>2, <1>3, <1>4, <1>9, DropBase

LEMMA RetryOverType ==
  ASSUME TypeOK, NEW i, RetryOver(i)
  PROVE  retrying' \in BOOLEAN
BY DEF TypeOK, RetryOver

LEMMA LoadOverBase ==
  ASSUME BaseInv, NEW i \in DOMAIN calls, LoadOver(i),
         turns' \in [Runs -> Ended \cup {"active", None}], faults' \in 0 .. MaxFaults,
         \A r \in Runs : turns'[r] # None => turns[r] # None \/ home[r] # None,
         UNCHANGED <<server, route, project, gen, snapshot, history, pending, clicks, ghosts>>
  PROVE  BaseInv'
<1>1. ServerKept
  BY ServerIs
<1>2. /\ inFlight' \in BOOLEAN /\ Dropped(i) /\ RetryOver(i)
      /\ inFlight' <=> (inFlight /\ (calls[i].kind = "submit" => ~calls[i].live))
  BY LoadOverStep DEF BaseInv
<1>3. retrying' \in BOOLEAN
  BY <1>2, RetryOverType DEF BaseInv
<1>4. PlainType'
  BY <1>2, <1>3, PlainIs DEF BaseInv, PlainType, server, ghosts
<1>9. ShownMade'
  BY <1>1, MadeIs DEF ServerKept, Grows
<1> QED BY <1>1, <1>2, <1>4, <1>9, DropBase

LEMMA LoadArrivesBase ==
  ASSUME BaseInv, NEW i, LoadArrives(i)
  PROVE  BaseInv'
<1>1. /\ i \in DOMAIN calls /\ calls[i].step = "loaded"
      /\ turns' = (IF ~calls[i].fresh THEN turns
                   ELSE IF calls[i].older THEN mergeOlderTimelinePage(calls[i].page)
                   ELSE calls[i].page)
      /\ LoadOver(i)
      /\ UNCHANGED <<server, route, project, gen, snapshot, history, pending, clicks, faults, ghosts>>
  BY LoadArrivesStep DEF BaseInv
<1>2. turns' \in [Runs -> Ended \cup {"active", None}]
  <2>1. /\ turns \in [Runs -> Ended \cup {"active", None}]
        /\ calls[i].page \in [Runs -> Ended \cup {"active", None}]
    BY <1>1, CallTyped DEF BaseInv, TypeOK
  <2> QED BY <1>1, <2>1 DEF mergeOlderTimelinePage
<1>3. \A r \in Runs : turns'[r] # None => turns[r] # None \/ home[r] # None
  <2>1. \A r \in Runs : calls[i].page[r] # None => home[r] # None
    BY <1>1 DEF BaseInv, CallInv, Shaped
  <2> QED BY <1>1, <2>1 DEF mergeOlderTimelinePage
<1> QED BY <1>1, <1>2, <1>3, LoadOverBase DEF BaseInv, TypeOK

LEMMA LoadFailsBase ==
  ASSUME BaseInv, NEW i, LoadFails(i)
  PROVE  BaseInv'
<1>1. /\ i \in DOMAIN calls /\ LoadOver(i) /\ faults' \in 0 .. MaxFaults
      /\ UNCHANGED <<server, route, shown, pending, clicks, ghosts>>
  BY LoadFailsStep, FaultIs DEF BaseInv
<1> QED BY <1>1, LoadOverBase DEF BaseInv, TypeOK, shown

LEMMA CancelFailsBase ==
  ASSUME BaseInv, NEW i, CancelFails(i)
  PROVE  BaseInv'
<1>1. ServerKept
  BY ServerIs, CancelFailsStep DEF BaseInv
<1>2. /\ i \in DOMAIN calls /\ Dropped(i) /\ gen' \in Panels /\ faults' \in 0 .. MaxFaults
      /\ UNCHANGED <<server, route, project, snapshot, history, turns, refs, clicks, ghosts>>
  BY CancelFailsStep, PanelsAre, FaultIs DEF BaseInv
<1>3. PlainType' /\ inFlight' = inFlight
  BY <1>2, PlainIs DEF BaseInv, PlainType, server, refs, ghosts, Panels
<1>9. ShownMade'
  BY <1>1, <1>2, CancelFailsStep, PanelsAre, MadeIs DEF BaseInv, ServerKept
<1> QED BY <1>1, <1>2, <1>3, <1>9, DropBase

LEMMA SelectArrivesBase ==
  ASSUME BaseInv, NEW i, SelectArrives(i)
  PROVE  BaseInv'
<1>1. ServerKept
  BY ServerIs, SelectArrivesStep DEF BaseInv
<1>2. /\ i \in DOMAIN calls /\ Dropped(i) /\ snapshot' = calls[i].run
      /\ UNCHANGED <<server, route, project, gen, history, turns, refs, clicks, faults, ghosts>>
  BY SelectArrivesStep DEF BaseInv
<1>3. PlainType' /\ inFlight' = inFlight
  BY <1>2, PlainIs, CallTyped DEF BaseInv, PlainType, server, refs, ghosts
<1>9. ShownMade'
  BY <1>1, <1>2, MadeIs DEF ServerKept, shown
<1> QED BY <1>1, <1>2, <1>3, <1>9, DropBase

\* The invariant after a step that moves call i on and leaves the flag alone.
LEMMA MoveBase ==
  ASSUME BaseInv, NEW i \in DOMAIN calls, Moved(i), ServerKept, PlainType', ShownMade', Shaped(i)',
         inFlight' = inFlight,
         calls'[i].kind = calls[i].kind, calls'[i].live <=> calls[i].live,
         calls'[i].step # "refresh", FreshLoad(calls'[i]) => FreshLoad(calls[i])
  PROVE  BaseInv'
<1>1. Rest({i}, {})
  BY MovedRest DEF BaseInv
<1>2. LiveSubmit(calls'[i]) => LiveSubmit(calls[i])
  BY DEF LiveSubmit
<1>3. ~ FreshRefresh(calls'[i])
  BY DEF FreshRefresh
<1>4. "forget" \notin {} /\ (inFlight => inFlight')
  OBVIOUS
<1> QED BY <1>1, <1>2, <1>3, <1>4, ChangeBase

\* A call that keeps what it was made with, at a step of its kind.
LEMMA SameShaped ==
  ASSUME BaseInv, NEW i \in DOMAIN calls, SameCall(calls[i], calls'[i]),
         calls'[i].live <=> calls[i].live, inFlight' = inFlight, Grows,
         calls'[i].step = "snapshot" => calls[i].kind \in {"route", "select"},
         calls'[i].step = "loaded" => calls[i].step = "page",
         calls'[i].step = "refresh" => calls[i].kind \in {"submit", "cancel", "retry"},
         calls'[i].step = "page" => calls[i].kind \in {"timeline", "submit", "cancel", "retry"},
         calls'[i].step = "detail" => calls[i].step = "monitor",
         calls'[i].step = "loaded" =>
           \A r \in Runs : calls'[i].page[r] # None => calls[i].chat # None /\ home[r] = calls[i].chat,
         calls'[i].step \in {"snapshot", "loaded", "refresh", "page", "detail"}
  PROVE  Shaped(i)'
<1> DEFINE k == calls[i]
           c == calls'[i]
<1>1. /\ c.kind = k.kind /\ c.run = k.run /\ c.chat = k.chat /\ (c.older <=> k.older)
  BY DEF SameCall
<1>2. Shaped(i) /\ k.kind \in Kinds
  BY CallTyped DEF BaseInv, CallInv
<1>3. Follows(c) => Follows(k)
  BY <1>1 DEF Follows
<1>4. Follows(c) => c.live
  BY <1>2, <1>3 DEF Shaped
<1>5. Follows(c) \/ c.kind \in {"cancel", "retry"} => c.run \in Runs /\ home'[c.run] # None
  BY <1>1, <1>2, <1>3 DEF Shaped, Grows
<1>6. LiveSubmit(c) => inFlight'
  BY <1>1, <1>2 DEF Shaped, LiveSubmit
<1>7. c.older => c.kind = "timeline"
  BY <1>1, <1>2 DEF Shaped
<1>8. /\ c.kind = "route" => c.step \in {"chat", "refresh", "project", "snapshot"}
      /\ c.kind = "timeline" => c.step \in Loads
      /\ c.kind = "submit" =>
            c.step \in {"chat", "create", "monitor", "detail", "aborted"} \cup Refreshes \cup Loads
      /\ c.kind = "cancel" => c.step \in {"reply"} \cup Refreshes \cup Loads
      /\ c.kind = "select" => c.step = "snapshot"
      /\ c.kind = "retry" => c.step \in {"create", "monitor", "detail"} \cup Refreshes \cup Loads
  BY <1>1, <1>2 DEF Shaped, Loads, Refreshes
<1>9. c.step # "create"
  OBVIOUS
<1>10. c.step = "loaded" => \A r \in Runs : c.page[r] # None => c.chat # None /\ home'[r] = c.chat
  <2>1. ASSUME c.step = "loaded", NEW r \in Runs, c.page[r] # None
        PROVE  c.chat # None /\ home'[r] = c.chat
    <3>1. k.chat # None /\ home[r] = k.chat
      BY <2>1
    <3> QED BY <1>1, <3>1 DEF Grows
  <2> QED BY <2>1
<1> QED BY <1>4, <1>5, <1>6, <1>7, <1>8, <1>9, <1>10 DEF Shaped

\* The invariant after a step that makes call i await a refresh or a load.
LEMMA AwaitBase ==
  ASSUME BaseInv, NEW i \in DOMAIN calls, ServerKept, PlainType', ShownMade', inFlight' = inFlight,
         \/ Refreshed(i) /\ calls[i].kind \in {"submit", "cancel", "retry"}
         \/ (Reloaded(i) \/ Retried(i)) /\ calls[i].kind \in {"submit", "cancel", "retry"}
  PROVE  BaseInv'
<1>1. Shaped(i)'
  BY SameShaped DEF Refreshed, Reloaded, Retried, ServerKept
<1>2. LiveSubmit(calls'[i]) => LiveSubmit(calls[i])
  BY DEF Refreshed, Reloaded, Retried, LiveSubmit, SameCall
<1>3. CASE Refreshed(i)
  <2>1. Rest({i}, Refreshes) /\ ~ FreshLoad(calls'[i])
    BY <1>3 DEF Refreshed, FreshLoad, Loads
  <2>2. "refresh" \in Refreshes /\ "forget" \notin Refreshes
    BY DEF Refreshes
  <2> QED BY <1>1, <1>2, <2>1, <2>2, ChangeBase
<1>4. CASE Reloaded(i)
  <2>1. Rest({i}, Loads) /\ ~ FreshRefresh(calls'[i])
    BY <1>4 DEF Reloaded, FreshRefresh
  <2>2. Loads \subseteq Loads /\ "forget" \notin Loads
    BY DEF Loads
  <2> QED BY <1>1, <1>2, <2>1, <2>2, ChangeBase
<1>5. CASE Retried(i)
  <2>1. Rest({i}, {"let go"} \cup Loads) /\ ~ FreshRefresh(calls'[i])
    BY <1>5 DEF Retried, FreshRefresh
  <2>2. Loads \subseteq {"let go"} \cup Loads /\ "forget" \notin {"let go"} \cup Loads
    BY DEF Loads
  <2> QED BY <1>1, <1>2, <2>1, <2>2, ChangeBase
<1> QED BY <1>3, <1>4, <1>5

LEMMA RouteProjectBase ==
  ASSUME BaseInv, NEW i, RouteProject(i)
  PROVE  BaseInv'
<1>1. ServerKept
  BY ServerIs, RouteProjectStep DEF BaseInv
<1>2. /\ i \in DOMAIN calls /\ calls[i].kind = "route"
      /\ UNCHANGED <<server, route, shown, refs, clicks, faults, ghosts>>
      /\ \/ Dropped(i)
         \/ /\ Moved(i) /\ SameCall(calls[i], calls'[i]) /\ calls'[i].step = "snapshot"
            /\ calls'[i].live = calls[i].live
  BY RouteProjectStep DEF BaseInv
<1>3. PlainType' /\ inFlight' = inFlight
  BY <1>2, PlainIs DEF BaseInv, PlainType, server, shown, refs, ghosts
<1>9. ShownMade'
  BY <1>1, <1>2, MadeIs DEF ServerKept, shown
<1>4. CASE Dropped(i)
  BY <1>1, <1>2, <1>3, <1>4, <1>9, DropBase
<1>5. CASE /\ Moved(i) /\ SameCall(calls[i], calls'[i]) /\ calls'[i].step = "snapshot"
           /\ calls'[i].live = calls[i].live
  <2>1. Shaped(i)'
    BY <1>1, <1>2, <1>3, <1>5, SameShaped DEF ServerKept
  <2>2. ~ FreshLoad(calls'[i]) /\ calls'[i].kind = calls[i].kind
    BY <1>5 DEF FreshLoad, Loads, SameCall
  <2> QED BY <1>1, <1>2, <1>3, <1>5, <1>9, <2>1, <2>2, MoveBase
<1> QED BY <1>2, <1>4, <1>5

LEMMA MonitorEventBase ==
  ASSUME BaseInv, NEW i, MonitorEvent(i)
  PROVE  BaseInv'
<1>1. ServerKept
  BY ServerIs, MonitorEventStep DEF BaseInv
<1> DEFINE r == calls[i].run
<1>2. /\ i \in DOMAIN calls /\ calls[i].kind = "submit" /\ calls[i].step = "monitor"
      /\ status[r] \in Ended
      /\ gen' = applyAgentEvent(r, status[r]) /\ turns' = applyTimelineEvent(r, status[r])
      /\ UNCHANGED <<server, route, project, snapshot, history, refs, clicks, faults, ghosts>>
      /\ Moved(i) /\ SameCall(calls[i], calls'[i]) /\ calls'[i].step = "detail"
      /\ calls'[i].live = calls[i].live
  BY MonitorEventStep DEF BaseInv
<1>3. r \in Runs
  BY <1>2 DEF BaseInv, CallInv, Shaped, Follows
<1>4. gen' \in Panels /\ turns' \in [Runs -> Ended \cup {"active", None}]
  BY <1>2, <1>3, PanelsAre, EventTurns DEF BaseInv
<1>5. PlainType' /\ inFlight' = inFlight
  BY <1>2, <1>4, PlainIs DEF BaseInv, PlainType, Panels, server, refs, ghosts
<1>6. Shaped(i)'
  BY <1>1, <1>2, <1>5, SameShaped DEF ServerKept
<1>7. ~ FreshLoad(calls'[i]) /\ calls'[i].kind = calls[i].kind
  BY <1>2 DEF FreshLoad, Loads, SameCall
<1>9. ShownMade'
  BY <1>1, <1>2, <1>3, PanelsAre, EventTurns, MadeIs DEF BaseInv, ServerKept
<1> QED BY <1>1, <1>2, <1>5, <1>6, <1>7, <1>9, MoveBase

LEMMA RetryEventBase ==
  ASSUME BaseInv, NEW i, RetryEvent(i)
  PROVE  BaseInv'
<1>1. ServerKept
  BY ServerIs, RetryEventStep DEF BaseInv
<1> DEFINE r == calls[i].run
<1>2. /\ i \in DOMAIN calls /\ calls[i].kind = "retry" /\ calls[i].step = "monitor"
      /\ status[r] \in Ended /\ turns' = applyTimelineEvent(r, status[r])
      /\ UNCHANGED <<server, route, project, gen, snapshot, history, refs, clicks, faults, ghosts>>
      /\ Moved(i) /\ SameCall(calls[i], calls'[i]) /\ calls'[i].step = "detail"
      /\ calls'[i].live = calls[i].live
  BY RetryEventStep DEF BaseInv
<1>3. r \in Runs
  BY <1>2 DEF BaseInv, CallInv, Shaped
<1>4. turns' \in [Runs -> Ended \cup {"active", None}]
  BY <1>2, EventTurns DEF BaseInv
<1>5. PlainType' /\ inFlight' = inFlight
  BY <1>2, <1>4, PlainIs DEF BaseInv, PlainType, server, refs, ghosts
<1>6. Shaped(i)'
  BY <1>1, <1>2, <1>5, SameShaped DEF ServerKept
<1>7. ~ FreshLoad(calls'[i]) /\ calls'[i].kind = calls[i].kind
  BY <1>2 DEF FreshLoad, Loads, SameCall
<1>8. ShownMade'
  BY <1>1, <1>2, EventTurns, MadeIs DEF BaseInv, ServerKept
<1> QED BY <1>1, <1>2, <1>5, <1>6, <1>7, <1>8, MoveBase

LEMMA MonitorReturnsBase ==
  ASSUME BaseInv, NEW i, MonitorReturns(i)
  PROVE  BaseInv'
<1> DEFINE r == calls[i].run
<1>1. ServerKept
  BY ServerIs, MonitorReturnsStep DEF BaseInv
<1>2. /\ i \in DOMAIN calls /\ calls[i].kind = "submit" /\ calls[i].step = "detail"
      /\ gen' = applyAgentRunDetail(r, status[r])
      /\ snapshot' = IF DetailAccepted(r) /\ status[r] = "completed" THEN r ELSE snapshot
      /\ UNCHANGED <<server, route, project, history, turns, refs, clicks, faults, ghosts>>
      /\ Refreshed(i)
  BY MonitorReturnsStep DEF BaseInv
<1>3. r \in Runs /\ home[r] # None
  BY <1>2 DEF BaseInv, CallInv, Shaped, Follows
<1>4. status[r] \in Ended \cup {"active"}
  BY <1>3 DEF BaseInv, StatusOfMade, TypeOK
<1>5. gen' \in Panels /\ gen'.run \in {r, gen.run}
  BY <1>2, <1>3, <1>4, PanelsAre DEF BaseInv
<1>6. PlainType' /\ inFlight' = inFlight
  BY <1>2, <1>3, <1>5, PlainIs DEF BaseInv, PlainType, Panels, server, refs, ghosts
<1>7. ShownMade'
  BY <1>1, <1>2, <1>3, <1>5, MadeIs DEF ServerKept, Grows
<1> QED BY <1>1, <1>2, <1>6, <1>7, AwaitBase

LEMMA RefreshArrivesBase ==
  ASSUME BaseInv, NEW i, RefreshArrives(i)
  PROVE  BaseInv'
<1>1. ServerKept
  BY ServerIs, RefreshArrivesStep DEF BaseInv
<1>2. /\ i \in DOMAIN calls /\ calls[i].step = "refresh"
      /\ history' = IF calls[i].fresh THEN calls[i].project ELSE history
      /\ RetryOver(i)
      /\ UNCHANGED <<server, route, project, gen, snapshot, turns, inFlight, pending,
                     clicks, faults, ghosts>>
      /\ \/ /\ calls[i].kind = "route"
            /\ Moved(i) /\ calls'[i].kind = "route" /\ calls'[i].step = "project"
            /\ calls'[i].live = calls[i].live /\ calls'[i].older = calls[i].older
         \/ calls[i].kind = "retry" /\ Dropped(i)
         \/ calls[i].kind \notin {"route", "retry"} /\ Reloaded(i)
  BY RefreshArrivesStep DEF BaseInv
<1>3. retrying' \in BOOLEAN
  BY <1>2, RetryOverType DEF BaseInv
<1>4. history' \in Chats \cup {None}
  BY <1>2, CallTyped DEF BaseInv, TypeOK
<1>5. PlainType'
  BY <1>2, <1>3, <1>4, PlainIs DEF BaseInv, PlainType, server, ghosts
<1>6. ShownMade' /\ inFlight' = inFlight
  BY <1>1, <1>2, MadeIs DEF ServerKept
<1>7. Shaped(i)
  BY <1>2 DEF BaseInv, CallInv
<1>8. CASE calls[i].kind = "route" /\ Moved(i)
  <2>1. calls'[i].kind = "route" /\ calls'[i].step = "project" /\ calls'[i].live = calls[i].live
        /\ calls'[i].older = calls[i].older
    BY <1>2, <1>8
  <2>2. Shaped(i)'
    BY <1>7, <1>8, <2>1 DEF Shaped, Follows, LiveSubmit
  <2>3. ~ FreshLoad(calls'[i])
    BY <2>1 DEF FreshLoad, Loads
  <2> QED BY <1>1, <1>2, <1>5, <1>6, <1>8, <2>1, <2>2, <2>3, MoveBase
<1>9. CASE calls[i].kind = "retry" /\ Dropped(i)
  BY <1>1, <1>2, <1>5, <1>6, <1>9, DropBase
<1>10. CASE calls[i].kind \notin {"route", "retry"} /\ Reloaded(i)
  <2>1. calls[i].kind \in {"submit", "cancel"}
    BY <1>2, <1>7, <1>10, CallTyped DEF BaseInv, Shaped, Kinds, Loads
  <2> QED BY <1>1, <1>2, <1>5, <1>6, <1>10, <2>1, AwaitBase
<1> QED BY <1>2, <1>8, <1>9, <1>10

LEMMA RefreshFailsBase ==
  ASSUME BaseInv, NEW i, RefreshFails(i)
  PROVE  BaseInv'
<1>1. ServerKept
  BY ServerIs, RefreshFailsStep DEF BaseInv
<1>2. /\ i \in DOMAIN calls /\ calls[i].step = "refresh" /\ calls[i].kind # "route"
      /\ faults' \in 0 .. MaxFaults
      /\ UNCHANGED <<server, route, project, snapshot, history, pending, retrying, clicks, ghosts>>
      /\ \/ calls[i].kind = "submit" /\ Catch(i)
         \/ /\ calls[i].kind = "cancel" /\ gen' = failApiGeneration /\ Dropped(i)
            /\ UNCHANGED <<turns, inFlight>>
         \/ /\ calls[i].kind = "retry" /\ Retried(i)
            /\ UNCHANGED <<gen, turns, inFlight>>
  BY RefreshFailsStep, FaultIs DEF BaseInv
<1>3. CASE calls[i].kind = "submit" /\ Catch(i)
  <2>1. UNCHANGED <<home, status>>
    BY <1>2 DEF server
  <2>2. UNCHANGED chats
    BY <1>2 DEF server
  <2> QED BY <1>1, <1>2, <1>3, <2>1, <2>2, CatchBase DEF BaseInv, TypeOK
<1>4. CASE /\ calls[i].kind = "cancel" /\ gen' = failApiGeneration /\ Dropped(i)
           /\ UNCHANGED <<turns, inFlight>>
  <2>1. gen' \in Panels /\ gen'.run = gen.run
    BY <1>4, PanelsAre DEF BaseInv
  <2>2. PlainType'
    BY <1>2, <1>4, <2>1, PlainIs DEF BaseInv, PlainType, Panels, server, ghosts
  <2>3. ShownMade'
    BY <1>1, <1>4, <2>1, MadeIs DEF ServerKept
  <2> QED BY <1>1, <1>2, <1>4, <2>2, <2>3, DropBase
<1>5. CASE /\ calls[i].kind = "retry" /\ Retried(i) /\ UNCHANGED <<gen, turns, inFlight>>
  <2>1. PlainType'
    BY <1>2, <1>5, PlainIs DEF BaseInv, PlainType, server, ghosts
  <2>2. ShownMade'
    BY <1>1, <1>5, MadeIs DEF ServerKept
  <2> QED BY <1>1, <1>2, <1>5, <2>1, <2>2, AwaitBase
<1> QED BY <1>2, <1>3, <1>4, <1>5

LEMMA RetryFailsBase ==
  ASSUME BaseInv, NEW i, RetryFails(i)
  PROVE  BaseInv'
<1>1. ServerKept
  BY ServerIs, RetryFailsStep DEF BaseInv
<1>2. /\ i \in DOMAIN calls /\ calls[i].kind = "retry" /\ Reloaded(i) /\ faults' \in 0 .. MaxFaults
      /\ UNCHANGED <<server, route, shown, refs, clicks, ghosts>>
  BY RetryFailsStep, FaultIs DEF BaseInv
<1>3. PlainType' /\ inFlight' = inFlight
  BY <1>2, PlainIs DEF BaseInv, PlainType, server, shown, refs, ghosts
<1>4. ShownMade'
  BY <1>1, <1>2, MadeIs DEF ServerKept, shown
<1> QED BY <1>1, <1>2, <1>3, <1>4, AwaitBase

LEMMA LoadAnsweredBase ==
  ASSUME BaseInv, NEW i, LoadAnswered(i)
  PROVE  BaseInv'
<1>1. ServerKept
  BY ServerIs, LoadAnsweredStep DEF BaseInv
<1>2. /\ i \in DOMAIN calls /\ calls[i].step = "page"
      /\ UNCHANGED <<server, route, shown, refs, clicks, faults, ghosts>>
      /\ Moved(i) /\ SameCall(calls[i], calls'[i]) /\ calls'[i].step = "loaded"
      /\ calls'[i].live = calls[i].live /\ calls'[i].fresh = calls[i].fresh
      /\ \A r \in Runs : calls'[i].page[r] # None => calls[i].chat # None /\ home[r] = calls[i].chat
  BY LoadAnsweredStep DEF BaseInv
<1>3. PlainType' /\ inFlight' = inFlight
  BY <1>2, PlainIs DEF BaseInv, PlainType, server, shown, refs, ghosts
<1>4. ShownMade'
  BY <1>1, <1>2, MadeIs DEF ServerKept, shown
<1>5. Shaped(i)'
  BY <1>1, <1>2, <1>3, SameShaped DEF ServerKept
<1>6. calls'[i].kind = calls[i].kind /\ (FreshLoad(calls'[i]) => FreshLoad(calls[i]))
  BY <1>2 DEF FreshLoad, Loads, SameCall
<1> QED BY <1>1, <1>2, <1>3, <1>4, <1>5, <1>6, MoveBase

LEMMA CancelAnsweredBase ==
  ASSUME BaseInv, NEW i, CancelAnswered(i)
  PROVE  BaseInv'
<1> DEFINE r == calls[i].run
           s == IF status[r] = "active" THEN "cancelled" ELSE status[r]
<1>1. /\ i \in DOMAIN calls /\ calls[i].kind = "cancel" /\ calls[i].step = "reply"
      /\ status' = [status EXCEPT ![r] = s] /\ gen' = applyAgentRunDetail(r, s)
      /\ UNCHANGED <<chats, home, route, project, snapshot, history, turns, refs, clicks, faults, ghosts>>
      /\ \/ Refreshed(i)
         \/ Reloaded(i)
         \/ Dropped(i)
  BY CancelAnsweredStep DEF BaseInv
<1>2. r \in Runs /\ home[r] # None
  BY <1>1 DEF BaseInv, CallInv, Shaped
<1>3. s \in Ended /\ status \in [Runs -> Ended \cup {"active", None}]
  <2>1. status[r] # None /\ status \in [Runs -> Ended \cup {"active", None}]
    BY <1>2 DEF BaseInv, StatusOfMade, TypeOK
  <2>2. "cancelled" \in Ended
    BY DEF Ended
  <2> QED BY <1>2, <2>1, <2>2
<1>4. gen' \in Panels /\ gen'.run \in {r, gen.run}
  BY <1>1, <1>2, <1>3, PanelsAre DEF BaseInv
<1>5. None \notin Ended
  BY WorkspaceAssumption DEF WorkspaceAssumption
<1> HIDE DEF s
<1>6. status' \in [Runs -> Ended \cup {"active", None}] /\ \A q \in Runs : status[q] # None => status'[q] # None
  BY <1>1, <1>2, <1>3, <1>5
<1>7. ServerKept
  BY <1>1, <1>6 DEF ServerKept, Grows, BaseInv, Numbered, StatusOfMade
<1>8. PlainType' /\ inFlight' = inFlight
  BY <1>1, <1>4, <1>6, PlainIs DEF BaseInv, PlainType, Panels, refs, ghosts
<1>9. ShownMade'
  BY <1>1, <1>2, <1>4, <1>7, MadeIs DEF ServerKept, Grows
<1>10. CASE Refreshed(i) \/ Reloaded(i)
  BY <1>1, <1>7, <1>8, <1>9, <1>10, AwaitBase
<1>11. CASE Dropped(i)
  BY <1>1, <1>7, <1>8, <1>9, <1>11, DropBase
<1> QED BY <1>1, <1>10, <1>11

LEMMA RunEndsBase ==
  ASSUME BaseInv, NEW r \in Runs, NEW s \in {"completed", "failed"}, RunEnds(r, s)
  PROVE  BaseInv'
<1>1. /\ status[r] = "active" /\ status' = [status EXCEPT ![r] = s]
      /\ UNCHANGED <<chats, home, route, shown, refs, calls, clicks, faults, ghosts>>
  BY DEF RunEnds
<1>2. s \in Ended /\ s # None /\ status \in [Runs -> Ended \cup {"active", None}]
  BY WorkspaceAssumption DEF WorkspaceAssumption, Ended, BaseInv, TypeOK
<1>3. status' \in [Runs -> Ended \cup {"active", None}] /\ \A q \in Runs : status[q] # None => status'[q] # None
  BY <1>1, <1>2
<1>4. ServerKept
  BY <1>1, <1>3 DEF ServerKept, Grows, BaseInv, Numbered, StatusOfMade
<1>5. TypeOK'
  BY <1>1, <1>3 DEF BaseInv, TypeOK, shown, refs, ghosts
<1>6. CallInv'
  BY <1>1 DEF BaseInv, CallInv, Shaped, OneOfEach, refs, Follows, LiveSubmit, FreshRefresh, FreshLoad
<1>7. ShownMade'
  BY <1>1, <1>4, MadeIs DEF ServerKept, shown
<1> QED BY <1>4, <1>5, <1>6, <1>7 DEF BaseInv, ServerKept

LEMMA StutterBase ==
  ASSUME BaseInv, UNCHANGED vars
  PROVE  BaseInv'
BY DEF BaseInv, TypeOK, Numbered, StatusOfMade, CallInv, Shaped, OneOfEach, ShownMade, vars, server,
       shown, refs, ghosts, Follows, LiveSubmit, FreshRefresh, FreshLoad

LEMMA ClickIs ==
  ASSUME TypeOK, Click
  PROVE  clicks' \in 0 .. MaxClicks
BY WorkspaceAssumption DEF WorkspaceAssumption, TypeOK, Click

LEMMA InsertIs ==
  ASSUME TypeOK, NEW r \in Runs
  PROVE  /\ insertTimelineRun(r) \in [Runs -> Ended \cup {"active", None}]
         /\ \A q \in Runs \ {r} : insertTimelineRun(r)[q] = turns[q]
         /\ insertTimelineRun(r)[r] = IF turns[r] = None THEN "active" ELSE turns[r]
BY DEF insertTimelineRun, TypeOK

LEMMA MadeRun ==
  ASSUME BaseInv, NEW c \in Chats, NEW r \in Runs, NewRun(c, r)
  PROVE  /\ ServerKept
         /\ home' \in [Runs -> Chats \cup {None}] /\ status' \in [Runs -> Ended \cup {"active", None}]
         /\ home[r] = None /\ home'[r] = c /\ status'[r] = "active" /\ c # None
         /\ \A q \in Runs \ {r} : home'[q] = home[q] /\ status'[q] = status[q]
<1>1. home' = [home EXCEPT ![r] = c] /\ status' = [status EXCEPT ![r] = "active"] /\ home[r] = None
  BY NewRunIs DEF BaseInv
<1>2. c # None
  BY WorkspaceAssumption DEF WorkspaceAssumption
<1> QED BY <1>1, <1>2, ServerIs DEF BaseInv, TypeOK

LEMMA RetryMadeBase ==
  ASSUME BaseInv, NEW i, NEW r \in Runs, RetryMade(i, r)
  PROVE  BaseInv'
<1>1. /\ i \in DOMAIN calls /\ calls[i].kind = "retry" /\ calls[i].step = "create"
      /\ NewRun(calls[i].chat, r) /\ turns' = insertTimelineRun(r)
      /\ UNCHANGED <<chats, route, project, gen, snapshot, history, refs, clicks, faults, ghosts>>
      /\ Moved(i) /\ calls'[i].kind = "retry" /\ calls'[i].step = "monitor"
      /\ calls'[i].run = r /\ calls'[i].older = calls[i].older
  BY RetryMadeStep DEF BaseInv
<1>2. calls[i].chat \in Chats
  BY <1>1, CallTyped DEF BaseInv, CallInv, Shaped
<1>3. /\ ServerKept
      /\ home' \in [Runs -> Chats \cup {None}] /\ status' \in [Runs -> Ended \cup {"active", None}]
      /\ home'[r] # None
  BY <1>1, <1>2, MadeRun
<1>4. /\ turns' \in [Runs -> Ended \cup {"active", None}]
      /\ \A q \in Runs \ {r} : turns'[q] = turns[q]
  BY <1>1, InsertIs DEF BaseInv
<1>5. PlainType' /\ inFlight' = inFlight
  BY <1>1, <1>3, <1>4, PlainIs DEF BaseInv, PlainType, refs, ghosts
<1>6. ShownMade'
  BY <1>1, <1>3, <1>4, MadeIs DEF ServerKept
<1>7. Shaped(i)
  BY <1>1 DEF BaseInv, CallInv
<1>8. Shaped(i)'
  BY <1>1, <1>3, <1>7 DEF Shaped, Follows, LiveSubmit
<1>9. Rest({i}, {})
  BY <1>1, MovedRest DEF BaseInv
<1>10. ~ FreshLoad(calls'[i]) /\ ~ LiveSubmit(calls'[i]) /\ ~ FreshRefresh(calls'[i])
  BY <1>1 DEF FreshLoad, Loads, LiveSubmit, FreshRefresh
<1> QED BY <1>3, <1>5, <1>6, <1>8, <1>9, <1>10, ChangeBase

LEMMA MakeChatBase ==
  ASSUME BaseInv, NEW i, NEW c \in Chats, MakeChat(i, c)
  PROVE  BaseInv'
<1>1. /\ i \in DOMAIN calls /\ calls[i].kind = "submit" /\ calls[i].step = "chat"
      /\ chats' = chats \cup {c}
      /\ UNCHANGED <<home, status, route, shown, refs, clicks, faults, ghosts>>
      /\ Moved(i)
      /\ calls'[i].kind = "submit" /\ calls'[i].step = "create" /\ calls'[i].chat = c
      /\ calls'[i].live = calls[i].live /\ calls'[i].older = calls[i].older
  BY MakeChatStep DEF BaseInv
<1>2. ServerKept
  BY <1>1 DEF ServerKept, Grows, BaseInv, Numbered, StatusOfMade
<1>3. PlainType' /\ inFlight' = inFlight
  BY <1>1, PlainIs DEF BaseInv, PlainType, shown, refs, ghosts
<1>4. ShownMade'
  BY <1>1, <1>2, MadeIs DEF ServerKept, shown
<1>5. Shaped(i) /\ c # None
  BY <1>1, WorkspaceAssumption DEF BaseInv, CallInv, WorkspaceAssumption
<1>6. Shaped(i)'
  BY <1>1, <1>3, <1>5 DEF Shaped, Follows, LiveSubmit
<1>7. ~ FreshLoad(calls'[i])
  BY <1>1 DEF FreshLoad, Loads
<1> QED BY <1>1, <1>2, <1>3, <1>4, <1>6, <1>7, MoveBase

LEMMA PairBase ==
  ASSUME BaseInv, NEW i \in DOMAIN calls, NEW n, i # n, NEW W, Rest({i, n}, W),
         Loads \subseteq W, "refresh" \in W, "forget" \notin W,
         ServerKept, PlainType', ShownMade', inFlight' = inFlight,
         calls'[i].step = "refresh", calls'[n].step = "page",
         calls'[i].kind # "submit", calls'[n].kind # "submit", Shaped(i)', Shaped(n)'
  PROVE  BaseInv'
<1>1. TypeOK'
  BY RestType
<1>2. \A j \in DOMAIN calls : LiveSubmit(calls[j]) => inFlight
  BY DEF BaseInv, CallInv, Shaped
<1>3. \A j \in DOMAIN calls' \ {i, n} : Shaped(j)'
  BY <1>2, RestShaped DEF BaseInv, CallInv, ServerKept
<1>4. /\ ~ FreshLoad(calls'[i]) /\ ~ LiveSubmit(calls'[i])
      /\ ~ FreshRefresh(calls'[n]) /\ ~ LiveSubmit(calls'[n])
  BY DEF FreshLoad, Loads, LiveSubmit, FreshRefresh
<1>5. OneOfEach'
  BY <1>4, RestOneOfEach DEF BaseInv, CallInv
<1> QED BY <1>1, <1>3, <1>5 DEF BaseInv, CallInv, ServerKept

LEMMA RetryReturnsBase ==
  ASSUME BaseInv, NEW i, RetryReturns(i)
  PROVE  BaseInv'
<1>0. PICK n : n = Free
  OBVIOUS
<1>1. /\ i \in DOMAIN calls /\ calls[i].kind = "retry" /\ calls[i].step = "detail"
      /\ UNCHANGED <<server, route, shown, refs, clicks, faults, ghosts>>
      /\ Rest({i, n}, Refreshes \cup Loads) /\ i # n
      /\ SameCall(calls[i], calls'[i]) /\ calls'[i].step = "refresh"
      /\ SameCall(calls[i], calls'[n]) /\ calls'[n].step = "page"
  BY <1>0, RetryReturnsStep DEF BaseInv
<1>2. ServerKept
  BY <1>1, ServerIs
<1>3. PlainType' /\ inFlight' = inFlight
  BY <1>1, PlainIs DEF BaseInv, PlainType, server, shown, refs, ghosts
<1>4. ShownMade'
  BY <1>1, <1>2, MadeIs DEF ServerKept, shown
<1>5. Shaped(i)
  BY <1>1 DEF BaseInv, CallInv
<1>6. Shaped(i)'
  BY <1>1, <1>2, <1>5 DEF Shaped, SameCall, Follows, LiveSubmit, ServerKept, Grows, Refreshes
<1>7. Shaped(n)'
  BY <1>1, <1>2, <1>5 DEF Shaped, SameCall, Follows, LiveSubmit, ServerKept, Grows, Loads
<1>8. Loads \subseteq Refreshes \cup Loads /\ "refresh" \in Refreshes \cup Loads /\ "forget" \notin Refreshes \cup Loads
  BY DEF Loads, Refreshes
<1>9. calls'[i].kind # "submit" /\ calls'[n].kind # "submit"
  BY <1>1 DEF SameCall
<1> QED BY <1>1, <1>2, <1>3, <1>4, <1>6, <1>7, <1>8, <1>9, PairBase

LEMMA RouteChatBase ==
  ASSUME BaseInv, NEW i, RouteChat(i)
  PROVE  BaseInv'
<1>0. PICK n : n = Free
  OBVIOUS
<1>1. /\ i \in DOMAIN calls /\ calls[i].kind = "route" /\ calls[i].step = "chat"
      /\ UNCHANGED <<server, route, gen, snapshot, history, turns, refs, clicks, faults, ghosts>>
      /\ ~ calls[i].live => calls' = Drop(calls, i) /\ project' = project
      /\ calls[i].live =>
              /\ project' = calls[i].chat
              /\ Rest({i, n}, Loads \cup Refreshes)
              /\ i # n
              /\ calls'[i].kind = "route"
              /\ calls'[i].step = "refresh" /\ calls'[i].older = calls[i].older
              /\ calls'[n].kind = "timeline"
              /\ calls'[n].step = "page" /\ ~calls'[n].older
  BY <1>0, RouteChatStep DEF BaseInv
<1>2. ServerKept
  BY <1>1, ServerIs
<1>3. PlainType' /\ inFlight' = inFlight
  BY <1>1, PlainIs, CallTyped DEF BaseInv, PlainType, server, refs, ghosts
<1>4. ShownMade'
  BY <1>1, <1>2, MadeIs DEF ServerKept
<1>5. CASE ~ calls[i].live
  <2>1. Dropped(i)
    BY <1>1, <1>5, DropIs
  <2> QED BY <1>1, <1>2, <1>3, <1>4, <2>1, DropBase
<1>6. CASE calls[i].live
  <2>1. Shaped(i)
    BY <1>1 DEF BaseInv, CallInv
  <2>2. Shaped(i)'
    BY <1>1, <1>6, <2>1 DEF Shaped, Follows, LiveSubmit
  <2>3. Shaped(n)'
    BY <1>1, <1>6 DEF Shaped, Follows, LiveSubmit, Loads
  <2>4. Loads \subseteq Loads \cup Refreshes /\ "refresh" \in Loads \cup Refreshes /\ "forget" \notin Loads \cup Refreshes
    BY DEF Loads, Refreshes
  <2>5. calls'[i].kind # "submit" /\ calls'[n].kind # "submit"
    BY <1>1, <1>6
  <2> QED BY <1>1, <1>2, <1>3, <1>4, <1>6, <2>2, <2>3, <2>4, <2>5, PairBase
<1> QED BY <1>5, <1>6

\* What the start of a run makes of a live submission.
LEMMA CreateRunLive ==
  ASSUME TypeOK, NEW i, NEW r \in Runs, CreateRun(i, r), calls[i].live
  PROVE  /\ calls'[i].kind = "submit" /\ calls'[i].chat = calls[i].chat
         /\ calls'[i].project = calls[i].project /\ calls'[i].run = r
         /\ calls'[i].older = calls[i].older /\ calls'[i].atHome = calls[i].atHome
<1>1. /\ i \in DOMAIN calls /\ calls[i].kind = "submit"
      /\ SameCall([calls[i] EXCEPT !.run = r], calls'[i])
  BY CreateRunStep
<1>2. /\ [calls[i] EXCEPT !.run = r].kind = calls[i].kind
      /\ [calls[i] EXCEPT !.run = r].chat = calls[i].chat
      /\ [calls[i] EXCEPT !.run = r].project = calls[i].project
      /\ [calls[i] EXCEPT !.run = r].run = r
      /\ [calls[i] EXCEPT !.run = r].older = calls[i].older
      /\ [calls[i] EXCEPT !.run = r].atHome = calls[i].atHome
  BY <1>1, CallTyped DEF Call
<1> QED BY <1>1, <1>2 DEF SameCall

LEMMA CreateRunBase ==
  ASSUME BaseInv, NEW i, NEW r \in Runs, CreateRun(i, r)
  PROVE  BaseInv'
<1>1. /\ i \in DOMAIN calls /\ calls[i].kind = "submit" /\ calls[i].step = "create"
      /\ NewRun(calls[i].chat, r)
      /\ UNCHANGED <<chats, inFlight, retrying, clicks, faults, raced>>
  BY CreateRunStep DEF BaseInv
<1>2. calls[i].chat \in Chats /\ calls[i].project \in Chats \cup {None}
  BY <1>1, CallTyped DEF BaseInv, CallInv, Shaped
<1>3. /\ ServerKept
      /\ home' \in [Runs -> Chats \cup {None}] /\ status' \in [Runs -> Ended \cup {"active", None}]
      /\ home'[r] # None
  BY <1>1, <1>2, MadeRun
<1>4. CASE ~calls[i].live
  <2>1. Dropped(i) /\ UNCHANGED <<route, shown, pending, crossed>>
    BY <1>4, CreateRunStep DEF BaseInv
  <2>2. PlainType' /\ inFlight' = inFlight
    BY <1>1, <1>3, <2>1, PlainIs DEF BaseInv, PlainType, shown
  <2>3. ShownMade'
    BY <1>3, <2>1, MadeIs DEF ServerKept, shown
  <2> QED BY <1>1, <1>3, <2>1, <2>2, <2>3, DropBase
<1>5. CASE calls[i].live
  <2>1. /\ gen' = startApiGeneration(r) /\ turns' = insertTimelineRun(r)
        /\ UNCHANGED <<snapshot, history>>
        /\ project' = (IF calls[i].atHome THEN calls[i].project ELSE project)
        /\ route' = (IF calls[i].atHome THEN calls[i].chat ELSE route)
        /\ pending' = (IF ~calls[i].atHome THEN pending
                       ELSE IF route # calls[i].chat THEN None ELSE calls[i].chat)
    BY <1>5, CreateRunStep DEF BaseInv
  <2>2. /\ i \in DOMAIN calls' /\ calls'[i].step = "monitor" /\ calls'[i].live = TRUE
        /\ \/ Rest({i}, {"abort", "leave"})
           \/ Rest({i}, {"abort"})
    BY <1>5, CreateRunStep DEF BaseInv
  <2>3. calls'[i].kind = "submit" /\ calls'[i].run = r /\ calls'[i].older = calls[i].older
    BY <1>1, <1>5, CreateRunLive DEF BaseInv
  <2>4. crossed' \in BOOLEAN
    <3>1. \/ crossed' = (crossed \/ \E j \in DOMAIN calls \ {i} : Unprotected(calls[j]))
          \/ crossed' = crossed
      BY <1>5, CreateRunStep DEF BaseInv
    <3>2. crossed \in BOOLEAN
      BY DEF BaseInv, TypeOK
    <3> QED BY <3>1, <3>2
  <2>5. /\ gen' \in Panels /\ gen'.run = r /\ turns' \in [Runs -> Ended \cup {"active", None}]
        /\ \A q \in Runs \ {r} : turns'[q] = turns[q]
    BY <2>1, PanelsAre, InsertIs DEF BaseInv
  <2>6. PlainType' /\ inFlight' = inFlight
    BY <1>1, <1>2, <1>3, <2>1, <2>4, <2>5, PlainIs DEF BaseInv, PlainType, Panels
  <2>7. ShownMade'
    BY <1>3, <2>5, MadeIs DEF ServerKept
  <2>8. Shaped(i) /\ inFlight
    BY <1>1, <1>5 DEF BaseInv, CallInv, Shaped, LiveSubmit
  <2>9. Shaped(i)'
    BY <1>1, <1>3, <2>2, <2>3, <2>8 DEF Shaped, Follows, LiveSubmit
  <2>10. ~ FreshLoad(calls'[i]) /\ ~ FreshRefresh(calls'[i]) /\ LiveSubmit(calls[i])
    BY <1>1, <1>5, <2>2 DEF FreshLoad, Loads, FreshRefresh, LiveSubmit
  <2> QED BY <1>1, <1>3, <2>2, <2>6, <2>7, <2>9, <2>10, ChangeBase
<1> QED BY <1>4, <1>5

\* A call that is new changes nothing but the calls.
LEMMA AddBase ==
  ASSUME BaseInv, Click, NEW n, NEW W, Rest({n}, W), n \in DOMAIN calls', n \notin DOMAIN calls,
         "forget" \notin W, UNCHANGED <<server, route, shown, faults>>,
         inFlight' = inFlight, pending' = pending, retrying' \in BOOLEAN,
         crossed' \in BOOLEAN, raced' \in BOOLEAN, calls'[n].kind # "submit",
         calls'[n].step # "refresh", FreshLoad(calls'[n]) => Loads \subseteq W, Shaped(n)'
  PROVE  BaseInv'
<1>1. ServerKept
  BY ServerIs
<1>2. clicks' \in 0 .. MaxClicks
  BY ClickIs DEF BaseInv
<1>3. PlainType'
  BY <1>2, PlainIs DEF BaseInv, PlainType, server, shown
<1>4. ShownMade'
  BY <1>1, MadeIs DEF ServerKept, shown
<1>5. ~ LiveSubmit(calls'[n]) /\ ~ FreshRefresh(calls'[n])
  BY DEF LiveSubmit, FreshRefresh
<1> QED BY <1>1, <1>3, <1>4, <1>5, ChangeBase

LEMMA CancelBase ==
  ASSUME BaseInv, Cancel
  PROVE  BaseInv'
<1>0. PICK n : n = Free
  OBVIOUS
<1>1. /\ gen.run \in Runs /\ Click
      /\ UNCHANGED <<server, route, shown, refs, faults, ghosts>>
      /\ Rest({n}, {"abort"}) /\ n \in DOMAIN calls' /\ n \notin DOMAIN calls
      /\ IsNew(calls'[n], "cancel", "reply", route, project, gen.run)
  BY <1>0, CancelStep DEF BaseInv
<1>2. home'[gen.run] # None
  BY <1>1 DEF BaseInv, ShownMade, server
<1>3. Shaped(n)'
  BY <1>1, <1>2 DEF IsNew, Shaped, Follows, LiveSubmit
<1>4. ~ FreshLoad(calls'[n]) /\ calls'[n].kind = "cancel" /\ calls'[n].step = "reply"
  BY <1>1 DEF IsNew, FreshLoad, Loads
<1>5. /\ inFlight' = inFlight /\ pending' = pending /\ retrying' \in BOOLEAN
      /\ crossed' \in BOOLEAN /\ raced' \in BOOLEAN
  BY <1>1 DEF BaseInv, TypeOK, refs, ghosts
<1> QED BY <1>1, <1>3, <1>4, <1>5, AddBase

LEMMA SelectSnapshotBase ==
  ASSUME BaseInv, NEW r \in Runs, SelectSnapshot(r)
  PROVE  BaseInv'
<1>0. PICK n : n = Free
  OBVIOUS
<1>1. /\ Click
      /\ UNCHANGED <<server, route, shown, refs, faults, ghosts>>
      /\ Rest({n}, {}) /\ n \in DOMAIN calls' /\ n \notin DOMAIN calls
      /\ IsNew(calls'[n], "select", "snapshot", route, project, r)
  BY <1>0, SelectSnapshotStep DEF BaseInv
<1>3. Shaped(n)'
  BY <1>1 DEF IsNew, Shaped, Follows, LiveSubmit
<1>4. ~ FreshLoad(calls'[n]) /\ calls'[n].kind = "select" /\ calls'[n].step = "snapshot"
  BY <1>1 DEF IsNew, FreshLoad, Loads
<1>5. /\ inFlight' = inFlight /\ pending' = pending /\ retrying' \in BOOLEAN
      /\ crossed' \in BOOLEAN /\ raced' \in BOOLEAN
  BY <1>1 DEF BaseInv, TypeOK, refs, ghosts
<1> QED BY <1>1, <1>3, <1>4, <1>5, AddBase

LEMMA RetryValidationBase ==
  ASSUME BaseInv, NEW r \in Runs, RetryValidation(r)
  PROVE  BaseInv'
<1>0. PICK n : n = Free
  OBVIOUS
<1>1. /\ turns[r] = "failed" /\ route # None /\ Click /\ retrying' = TRUE
      /\ UNCHANGED <<server, route, shown, inFlight, pending, faults, ghosts>>
      /\ Rest({n}, {}) /\ n \in DOMAIN calls' /\ n \notin DOMAIN calls
      /\ IsNew(calls'[n], "retry", "create", route, project, r)
  BY <1>0, RetryValidationStep DEF BaseInv
<1>2. home'[r] # None
  <2>1. "failed" # None
    BY WorkspaceAssumption DEF WorkspaceAssumption, Ended
  <2> QED BY <1>1, <2>1 DEF BaseInv, ShownMade, server
<1>3. Shaped(n)'
  BY <1>1, <1>2 DEF IsNew, Shaped, Follows, LiveSubmit
<1>4. ~ FreshLoad(calls'[n]) /\ calls'[n].kind = "retry" /\ calls'[n].step = "create"
  BY <1>1 DEF IsNew, FreshLoad, Loads
<1>5. /\ inFlight' = inFlight /\ pending' = pending /\ retrying' \in BOOLEAN
      /\ crossed' \in BOOLEAN /\ raced' \in BOOLEAN
  BY <1>1 DEF BaseInv, TypeOK, ghosts
<1> QED BY <1>1, <1>3, <1>4, <1>5, AddBase

LEMMA LoadOlderBase ==
  ASSUME BaseInv, LoadOlder
  PROVE  BaseInv'
<1>0. PICK n : n = Free
  OBVIOUS
<1>1. /\ Click
      /\ UNCHANGED <<server, route, shown, refs, faults, crossed>>
      /\ Rest({n}, Loads) /\ n \in DOMAIN calls' /\ n \notin DOMAIN calls
      /\ calls'[n].kind = "timeline" /\ calls'[n].step = "page"
  BY <1>0, LoadOlderStep DEF BaseInv
<1>2. Shaped(n)'
  BY <1>1 DEF Shaped, Follows, LiveSubmit, Loads
<1>3. Loads \subseteq Loads /\ "forget" \notin Loads
  BY DEF Loads
<1>4. raced' \in BOOLEAN
  <2>1. raced' = (raced \/ \E j \in DOMAIN calls : FreshLoad(calls[j]) /\ ~calls[j].older) /\ raced \in BOOLEAN
    BY LoadOlderStep DEF BaseInv, TypeOK
  <2> QED BY <2>1
<1>5. /\ inFlight' = inFlight /\ pending' = pending /\ retrying' \in BOOLEAN /\ crossed' \in BOOLEAN
  BY <1>1 DEF BaseInv, TypeOK, refs
<1> QED BY <1>1, <1>2, <1>3, <1>4, <1>5, AddBase

LEMMA SubmitBase ==
  ASSUME BaseInv, Submit
  PROVE  BaseInv'
<1>0. PICK n : n = Free
  OBVIOUS
<1>1. /\ ~inFlight
      /\ Click /\ inFlight' = TRUE /\ gen' = startApiGeneration(PendingRun)
      /\ UNCHANGED <<server, route, project, snapshot, history, turns, pending,
                     retrying, faults, ghosts>>
      /\ Rest({n}, {"forget"}) /\ n \in DOMAIN calls' /\ n \notin DOMAIN calls
      /\ calls'[n].kind = "submit" /\ ~calls'[n].older
      /\ calls'[n].chat = route
      /\ calls'[n].step = (IF route = None THEN "chat" ELSE "create")
  BY <1>0, SubmitStep DEF BaseInv
<1>2. ServerKept
  BY <1>1, ServerIs
<1>3. gen' \in Panels /\ gen'.run \notin Runs /\ clicks' \in 0 .. MaxClicks
  <2>1. PendingRun \notin Runs
    BY WorkspaceAssumption DEF WorkspaceAssumption, PendingRun, Runs
  <2> QED BY <1>1, <2>1, PanelsAre, ClickIs DEF BaseInv
<1>4. PlainType'
  BY <1>1, <1>3, PlainIs DEF BaseInv, PlainType, Panels, server, ghosts
<1>5. ShownMade'
  BY <1>1, <1>2, <1>3, MadeIs DEF ServerKept
<1>6. Shaped(n)'
  BY <1>1 DEF Shaped, Follows, LiveSubmit
<1>7. ~ FreshLoad(calls'[n]) /\ ~ FreshRefresh(calls'[n])
  BY <1>1 DEF FreshLoad, Loads, FreshRefresh
<1> QED BY <1>1, <1>2, <1>4, <1>5, <1>6, <1>7, ChangeBase

LEMMA OpenedBase ==
  ASSUME BaseInv, Click, NEW c \in Chats \cup {None}, NEW n, n = Free, n \notin DOMAIN calls,
         NEW V, V = {} \/ V = {"abort", "forget"}, Opened(c, V),
         "forget" \in V \/ inFlight' = inFlight, inFlight' \in BOOLEAN, route' = c,
         pending' = pending, crossed' \in BOOLEAN,
         UNCHANGED <<server, retrying, faults, raced>>
  PROVE  BaseInv'
<1> DEFINE W == V \cup {"leave", "abort"} \cup Loads
<1>1. ServerKept
  BY ServerIs
<1>2. /\ project' = None /\ gen' = Idle /\ snapshot' = NoRun /\ history' = None /\ turns' = Blank
      /\ Rest({n}, W)
      /\ n \in DOMAIN calls' => IsNew(calls'[n], "route", "chat", c, None, NoRun)
  BY DEF Opened
<1>3. /\ gen' \in Panels /\ gen'.run = NoRun /\ clicks' \in 0 .. MaxClicks
      /\ turns' \in [Runs -> Ended \cup {"active", None}]
  BY <1>2, PanelsAre, ClickIs, BlankType DEF BaseInv
<1>4. PlainType'
  BY <1>2, <1>3, PlainIs DEF BaseInv, PlainType, Panels, server
<1>5. ShownMade'
  <2>1. NoRun \notin Runs
    BY WorkspaceAssumption DEF WorkspaceAssumption, NoRun, Runs
  <2> QED BY <1>1, <1>2, <1>3, <2>1, MadeIs DEF ServerKept, Blank
<1>6. n \in DOMAIN calls' => Shaped(n)'
  BY <1>2 DEF IsNew, Shaped, Follows, LiveSubmit
<1>7. n \in DOMAIN calls' => ~ FreshLoad(calls'[n]) /\ ~ FreshRefresh(calls'[n]) /\ ~LiveSubmit(calls'[n])
  BY <1>2 DEF IsNew, FreshLoad, Loads, FreshRefresh, LiveSubmit
<1>8. \/ "forget" \notin W /\ (inFlight => inFlight')
      \/ "forget" \in W /\ "abort" \in W
  BY DEF Loads
<1> HIDE DEF W
<1> QED BY <1>1, <1>2, <1>4, <1>5, <1>6, <1>7, <1>8, ChangeBase

LEMMA NavigateBase ==
  ASSUME BaseInv, NEW c \in Chats \cup {None}, Navigate(c)
  PROVE  BaseInv'
<1>0. PICK n : n = Free
  OBVIOUS
<1>1. /\ route' = c
      /\ crossed' = (crossed \/ \E j \in DOMAIN calls : Unprotected(calls[j]))
      /\ Click /\ n \notin DOMAIN calls
      /\ UNCHANGED <<server, inFlight, retrying, faults, raced>>
      /\ \/ /\ pending' = None /\ UNCHANGED shown
            /\ Rest({n}, {"leave"}) /\ n \notin DOMAIN calls'
         \/ pending' = pending /\ Opened(c, {})
  BY <1>0, NavigateStep DEF BaseInv
<1>2. crossed' \in BOOLEAN /\ inFlight' \in BOOLEAN
  <2>1. crossed \in BOOLEAN /\ inFlight \in BOOLEAN
    BY DEF BaseInv, TypeOK
  <2> QED BY <1>1, <2>1
<1>3. CASE /\ pending' = None /\ UNCHANGED shown
           /\ Rest({n}, {"leave"}) /\ n \notin DOMAIN calls'
  <2>1. ServerKept
    BY <1>1, ServerIs
  <2>2. clicks' \in 0 .. MaxClicks
    BY <1>1, ClickIs DEF BaseInv
  <2>3. PlainType'
    BY <1>1, <1>2, <1>3, <2>2, PlainIs DEF BaseInv, PlainType, server, shown
  <2>4. ShownMade'
    BY <1>3, <2>1, MadeIs DEF ServerKept, shown
  <2> QED BY <1>1, <1>3, <2>1, <2>3, <2>4, ChangeBase
<1>4. CASE pending' = pending /\ Opened(c, {})
  BY <1>0, <1>1, <1>2, <1>4, OpenedBase
<1> QED BY <1>1, <1>3, <1>4

LEMMA BackHomeBase ==
  ASSUME BaseInv, BackHome
  PROVE  BaseInv'
<1>0. PICK n : n = Free
  OBVIOUS
<1>1. /\ Click /\ inFlight' = FALSE /\ n \notin DOMAIN calls
      /\ UNCHANGED <<server, retrying, faults, raced>>
      /\ \/ /\ route = None
            /\ UNCHANGED <<route, shown, pending, crossed>>
            /\ Rest({}, {"abort", "forget"})
         \/ /\ route # None /\ route' = None /\ pending' = pending
            /\ crossed' = (crossed \/ \E j \in DOMAIN calls : Unprotected(AbortMonitor(Forget(calls))[j]))
            /\ Opened(None, {"abort", "forget"})
  BY <1>0, BackHomeStep DEF BaseInv
<1>2. CASE /\ UNCHANGED <<route, shown, pending, crossed>>
           /\ Rest({}, {"abort", "forget"})
  <2>1. ServerKept
    BY <1>1, ServerIs
  <2>2. clicks' \in 0 .. MaxClicks
    BY <1>1, ClickIs DEF BaseInv
  <2>3. PlainType'
    BY <1>1, <1>2, <2>2, PlainIs DEF BaseInv, PlainType, server, shown
  <2>4. ShownMade'
    BY <1>2, <2>1, MadeIs DEF ServerKept, shown
  <2>5. Rest({0}, {"abort", "forget"})
    BY <1>2, RestMore
  <2>6. 0 \notin DOMAIN calls'
    BY <1>2, WorkspaceAssumption DEF Rest, WorkspaceAssumption
  <2> QED BY <1>1, <2>1, <2>3, <2>4, <2>5, <2>6, ChangeBase
<1>3. CASE /\ route' = None /\ pending' = pending
           /\ crossed' = (crossed \/ \E j \in DOMAIN calls : Unprotected(AbortMonitor(Forget(calls))[j]))
           /\ Opened(None, {"abort", "forget"})
  <2>1. crossed' \in BOOLEAN
    <3>1. crossed \in BOOLEAN
      BY DEF BaseInv, TypeOK
    <3> QED BY <1>3, <3>1
  <2> QED BY <1>0, <1>1, <1>3, <2>1, OpenedBase
<1> QED BY <1>1, <1>2, <1>3

\* The page that has just been loaded.
LEMMA BaseInit == Init => BaseInv
<1> SUFFICES ASSUME Init PROVE BaseInv
  OBVIOUS
<1>1. PICK n \in 0 .. MaxRuns : DOMAIN FirstRuns = 1 .. n
  BY WorkspaceAssumption DEF WorkspaceAssumption, Runs
<1>2. \A r \in Runs : r \in DOMAIN FirstRuns <=> r <= n
  BY <1>1, WorkspaceAssumption DEF WorkspaceAssumption, Runs
<1>3. \A r \in DOMAIN FirstRuns :
        /\ FirstRuns[r].chat \in Chats /\ FirstRuns[r].chat # None
        /\ FirstRuns[r].status \in Ended /\ FirstRuns[r].status # None
  BY WorkspaceAssumption DEF WorkspaceAssumption
<1>4. /\ home \in [Runs -> Chats \cup {None}] /\ status \in [Runs -> Ended \cup {"active", None}]
      /\ \A r \in Runs : home[r] # None <=> r <= n
      /\ \A r \in Runs : home[r] # None => status[r] # None
  BY <1>2, <1>3 DEF Init
<1>5. DOMAIN calls = {}
  BY DEF Init
<1>6. /\ MaxRuns \in Nat /\ MaxClicks \in Nat /\ MaxFaults \in Nat /\ FirstChats \subseteq Chats
      /\ Idle.run = 0 /\ Idle \in Panels /\ 0 \notin Runs
  BY WorkspaceAssumption DEF WorkspaceAssumption, Idle, Panels, PendingRun, NoRun, Runs
<1>7. TypeOK
  <2>1. /\ gen \in Panels /\ turns \in [Runs -> Ended \cup {"active", None}]
        /\ chats \subseteq Chats /\ clicks \in 0 .. MaxClicks /\ faults \in 0 .. MaxFaults
    BY <1>6, BlankType DEF Init
  <2>2. /\ route = None /\ project = None /\ snapshot = NoRun /\ history = None
        /\ inFlight = FALSE /\ pending = None /\ retrying = FALSE /\ crossed = FALSE /\ raced = FALSE
    BY DEF Init
  <2> QED BY <1>4, <1>5, <2>1, <2>2 DEF TypeOK, Panels
<1>8. Numbered /\ StatusOfMade
  BY <1>4 DEF Numbered, StatusOfMade
<1>9. CallInv
  BY <1>5 DEF CallInv, OneOfEach
<1>10. ShownMade
  BY <1>6 DEF Init, ShownMade, Blank
<1> QED BY <1>7, <1>8, <1>9, <1>10 DEF BaseInv

\* BaseInv is inductive.
LEMMA BaseNext == BaseInv /\ [Next]_vars => BaseInv'
<1> SUFFICES ASSUME BaseInv, [Next]_vars PROVE BaseInv'
  OBVIOUS
<1>1. ASSUME UNCHANGED vars PROVE BaseInv'
  BY <1>1, StutterBase
<1>2. ASSUME User PROVE BaseInv'
  BY <1>2, NavigateBase, BackHomeBase, SubmitBase, LoadOlderBase, CancelBase, SelectSnapshotBase,
     RetryValidationBase DEF User
<1>3. ASSUME NEW i \in 1 .. MaxCalls, Answered(i) PROVE BaseInv'
  BY <1>3, RouteChatBase, RouteProjectBase, RouteSnapshotBase, MakeChatBase, CreateRunBase,
     RetryMadeBase, MonitorEventBase, MonitorReturnsBase, AbortedBase, RefreshArrivesBase,
     LoadAnsweredBase, LoadArrivesBase, CancelAnsweredBase, SelectArrivesBase, RetryEventBase,
     RetryReturnsBase DEF Answered
<1>4. ASSUME NEW i \in 1 .. MaxCalls, Failed(i) PROVE BaseInv'
  BY <1>4, RouteFailsBase, CreateFailsBase, MonitorFailsBase, RefreshFailsBase, LoadFailsBase,
     CancelFailsBase, RetryFailsBase DEF Failed
<1>5. ASSUME NEW r \in Runs, NEW s \in {"completed", "failed"}, RunEnds(r, s) PROVE BaseInv'
  BY <1>5, RunEndsBase
<1> QED BY <1>1, <1>2, <1>3, <1>4, <1>5 DEF Next

-----------------------------------------------------------------------------
(***************************************************************************)
(* OpenInv: as long as no unprotected continuation is left behind, what is *)
(* shown and what a call may still write belongs to the open chat.         *)
(***************************************************************************)

\* Run r is of the open chat.
OfOpenChat(r) == r \in Runs /\ route # None /\ home[r] = route

Here(k) == route # None /\ k.chat = route

\* A submission that has not made its run yet.
LiveAsked(k) == k.kind = "submit" /\ k.step \in {"chat", "create"} /\ k.live

\* What is shown is of the open chat.
ShownOpen ==
  /\ project \in {None, route} /\ pending = None
  /\ gen.run \in Runs => OfOpenChat(gen.run)
  /\ snapshot # NoRun => OfOpenChat(snapshot)
  /\ \A r \in Runs : turns[r] # None => OfOpenChat(r)

\* So is what call i may still write. A submission made on the home page has no
\* chat yet: the panel shows its pending run, and the page stays home until the
\* run is made.
OpenCall(i) ==
  /\ calls[i].kind = "route" /\ calls[i].live =>
       /\ route # None /\ calls[i].chat = route
       /\ calls[i].step # "chat" => calls[i].project = route
       /\ calls[i].step \in {"project", "snapshot"} /\ calls[i].run # NoRun => OfOpenChat(calls[i].run)
  /\ calls[i].kind = "timeline" /\ FreshLoad(calls[i]) => route # None /\ calls[i].chat = route
  /\ LiveAsked(calls[i]) /\ calls[i].atHome =>
       /\ gen.run = PendingRun /\ calls[i].run = NoRun /\ route = None
       /\ calls[i].step = "create" => calls[i].project = calls[i].chat
  /\ LiveAsked(calls[i]) /\ ~calls[i].atHome =>
       /\ gen.run = PendingRun /\ calls[i].run = NoRun
       /\ route # None /\ calls[i].chat = route /\ calls[i].step = "create"
       /\ calls[i].project \in {None, route}
       /\ calls[i].project # None => project = route
  /\ Follows(calls[i]) => project = route
  /\ Follows(calls[i]) \/ calls[i].kind = "retry" =>
       /\ route # None /\ calls[i].chat = route /\ calls[i].project = route
       /\ OfOpenChat(calls[i].run)
  /\ calls[i].kind = "submit" /\ calls[i].step \in Refreshes \cup Loads =>
       route # None /\ calls[i].chat = route /\ calls[i].project = route
  /\ calls[i].kind = "cancel" =>
       /\ route # None /\ calls[i].chat = route /\ calls[i].project \in {None, route}
       /\ OfOpenChat(calls[i].run)
       /\ calls[i].step = "refresh" => calls[i].project = route
  /\ calls[i].kind = "select" =>
       route # None /\ calls[i].chat = route /\ OfOpenChat(calls[i].run)

OpenInv == ~crossed => ShownOpen /\ \A i \in DOMAIN calls : OpenCall(i)

LEMMA RestOpen ==
  ASSUME TypeOK, \A i \in DOMAIN calls : OpenCall(i), NEW X, NEW W, Rest(X, W), Grows,
         route' = route, project' \in {project, route},
         \/ gen.run = PendingRun => gen'.run = PendingRun
         \/ "forget" \in W
         \/ \A j \in DOMAIN calls \ X : ~ LiveSubmit(calls[j])
  PROVE  \A j \in DOMAIN calls' \ X : OpenCall(j)'
<1> SUFFICES ASSUME NEW j \in DOMAIN calls' \ X PROVE OpenCall(j)'
  OBVIOUS
<1>1. j \in DOMAIN calls \ X /\ Faded(calls[j], calls'[j], W)
  BY DEF Rest
<1> DEFINE k == calls[j]
           c == calls'[j]
<1>2. /\ c.kind = k.kind /\ c.run = k.run /\ c.chat = k.chat /\ c.project = k.project
      /\ (c.atHome <=> k.atHome)
      /\ c.step = k.step \/ (c.kind = "submit" /\ c.step = "aborted")
      /\ c.live => k.live
      /\ c.live /\ c.kind = "submit" => "forget" \notin W
      /\ c.fresh => k.fresh
  BY <1>1 DEF Faded, SameCall, Monitored
<1>3. OpenCall(j)
  BY <1>1
<1>4. \A r : OfOpenChat(r) => r \in Runs /\ route' # None /\ home'[r] = route'
  BY WorkspaceAssumption DEF OfOpenChat, Grows
<1>5. c.kind = "route" /\ c.live =>
       /\ route' # None /\ c.chat = route'
       /\ c.step # "chat" => c.project = route'
       /\ c.step \in {"project", "snapshot"} /\ c.run # NoRun => OfOpenChat(c.run)
  BY <1>2, <1>3 DEF OpenCall
<1>6. c.kind = "timeline" /\ FreshLoad(c) => route' # None /\ c.chat = route'
  BY <1>2, <1>3 DEF OpenCall, FreshLoad
<1>7. LiveAsked(c) => LiveAsked(k) /\ (gen.run = PendingRun => gen'.run = PendingRun)
  BY <1>1, <1>2 DEF LiveAsked, LiveSubmit
<1>8. LiveAsked(c) /\ c.atHome =>
       /\ gen'.run = PendingRun /\ c.run = NoRun /\ route' = None
       /\ c.step = "create" => c.project = c.chat
  BY <1>2, <1>3, <1>7 DEF OpenCall
<1>9. LiveAsked(c) /\ ~c.atHome =>
       /\ gen'.run = PendingRun /\ c.run = NoRun
       /\ route' # None /\ c.chat = route' /\ c.step = "create"
       /\ c.project \in {None, route'}
       /\ c.project # None => project' = route'
  BY <1>2, <1>3, <1>7 DEF OpenCall, LiveAsked
<1>10. Follows(c) => Follows(k)
  BY <1>2 DEF Follows
<1>11. Follows(c) => project' = route'
  BY <1>3, <1>10 DEF OpenCall
<1>12. Follows(c) \/ c.kind = "retry" =>
       /\ route' # None /\ c.chat = route' /\ c.project = route' /\ OfOpenChat(c.run)
  BY <1>2, <1>3, <1>10 DEF OpenCall
<1>13. c.kind = "submit" /\ c.step \in Refreshes \cup Loads =>
       route' # None /\ c.chat = route' /\ c.project = route'
  <2>1. "aborted" \notin Refreshes \cup Loads
    BY DEF Refreshes, Loads
  <2> QED BY <1>2, <1>3, <2>1 DEF OpenCall
<1>14. c.kind = "cancel" =>
       /\ route' # None /\ c.chat = route' /\ c.project \in {None, route'} /\ OfOpenChat(c.run)
       /\ c.step = "refresh" => c.project = route'
  BY <1>2, <1>3 DEF OpenCall
<1>15. c.kind = "select" => route' # None /\ c.chat = route' /\ OfOpenChat(c.run)
  BY <1>2, <1>3 DEF OpenCall
<1>16. \A r : OfOpenChat(r) => OfOpenChat(r)'
  BY <1>4 DEF OfOpenChat
<1> HIDE DEF k, c
<1> QED
  BY <1>5, <1>6, <1>8, <1>9, <1>11, <1>12, <1>13, <1>14, <1>15, <1>4
  DEF OpenCall, OfOpenChat, LiveAsked, Follows, FreshLoad, k, c

LEMMA OpenKept ==
  ASSUME BaseInv, OpenInv, ~crossed, NEW X, NEW W, Rest(X, W), Grows,
         route' = route, pending' = pending, project' \in {project, route},
         \/ gen.run = PendingRun => gen'.run = PendingRun
         \/ "forget" \in W
         \/ \A j \in DOMAIN calls \ X : ~ LiveSubmit(calls[j]),
         gen'.run \in Runs => gen'.run = gen.run \/ (route # None /\ home'[gen'.run] = route),
         snapshot' # NoRun =>
           snapshot' = snapshot \/ (snapshot' \in Runs /\ route # None /\ home'[snapshot'] = route),
         \A r \in Runs : turns'[r] # None =>
           turns[r] # None \/ (route # None /\ home'[r] = route),
         \A x \in X \cap DOMAIN calls' : OpenCall(x)'
  PROVE  OpenInv'
<1>1. ShownOpen /\ \A i \in DOMAIN calls : OpenCall(i)
  BY DEF OpenInv
<1>2. \A j \in DOMAIN calls' \ X : OpenCall(j)'
  BY <1>1, RestOpen DEF BaseInv
<1>3. \A r : OfOpenChat(r) => r \in Runs /\ route' # None /\ home'[r] = route'
  BY WorkspaceAssumption DEF OfOpenChat, Grows
<1>4. /\ project' \in {None, route'} /\ pending' = None
      /\ gen'.run \in Runs => route' # None /\ home'[gen'.run] = route'
      /\ snapshot' # NoRun => snapshot' \in Runs /\ route' # None /\ home'[snapshot'] = route'
      /\ \A r \in Runs : turns'[r] # None => route' # None /\ home'[r] = route'
  BY <1>1, <1>3 DEF ShownOpen
<1>5. ShownOpen'
  BY <1>4 DEF ShownOpen, OfOpenChat
<1> QED BY <1>2, <1>5 DEF OpenInv

\* A step that drops call i.
LEMMA OpenDrop ==
  ASSUME BaseInv, OpenInv, NEW i \in DOMAIN calls, Dropped(i), Grows, crossed' = crossed,
         route' = route, pending' = pending, project' = project, gen'.run = gen.run,
         ~crossed /\ snapshot' # NoRun =>
           snapshot' = snapshot \/ (snapshot' \in Runs /\ route # None /\ home'[snapshot'] = route),
         ~crossed => \A r \in Runs : turns'[r] # None =>
                       turns[r] # None \/ (route # None /\ home'[r] = route)
  PROVE  OpenInv'
<1> SUFFICES ASSUME ~crossed PROVE OpenInv'
  BY DEF OpenInv
<1>1. Rest({i}, {}) /\ i \notin DOMAIN calls'
  BY DroppedRest DEF BaseInv, Dropped
<1> QED BY <1>1, OpenKept

\* A call that moves on with what it was made with.
LEMMA SameOpen ==
  ASSUME TypeOK, NEW i, OpenCall(i), SameCall(calls[i], calls'[i]),
         calls'[i].live => calls[i].live, Grows, route' = route, project' \in {project, route},
         calls'[i].step \notin {"chat", "create"},
         Follows(calls'[i]) => Follows(calls[i]),
         calls[i].kind = "submit" /\ calls'[i].step \in Refreshes \cup Loads =>
           Follows(calls[i]) \/ calls[i].step \in Refreshes \cup Loads,
         calls[i].kind = "cancel" /\ calls'[i].step = "refresh" => calls[i].project # None,
         calls[i].kind = "timeline" => (FreshLoad(calls'[i]) => FreshLoad(calls[i])),
         calls[i].kind = "route" =>
           calls[i].step \in {"project", "snapshot"} /\ calls'[i].step \in {"project", "snapshot"}
  PROVE  OpenCall(i)'
<1> DEFINE k == calls[i]
           c == calls'[i]
<1>1. /\ c.kind = k.kind /\ c.run = k.run /\ c.chat = k.chat /\ c.project = k.project
  BY DEF SameCall
<1>2. \A r : OfOpenChat(r) => r \in Runs /\ route' # None /\ home'[r] = route'
  BY WorkspaceAssumption DEF OfOpenChat, Grows
<1>3. c.kind = "route" /\ c.live =>
       /\ route' # None /\ c.chat = route' /\ c.project = route'
       /\ c.run # NoRun => OfOpenChat(c.run)
  BY <1>1 DEF OpenCall
<1>4. c.kind = "timeline" /\ FreshLoad(c) => route' # None /\ c.chat = route'
  BY <1>1 DEF OpenCall
<1>5. ~ LiveAsked(c)
  BY DEF LiveAsked
<1>6. Follows(c) => project' = route'
  BY DEF OpenCall
<1>7. Follows(c) \/ c.kind = "retry" =>
       /\ route' # None /\ c.chat = route' /\ c.project = route' /\ OfOpenChat(c.run)
  BY <1>1 DEF OpenCall
<1>8. c.kind = "submit" /\ c.step \in Refreshes \cup Loads =>
       route' # None /\ c.chat = route' /\ c.project = route'
  BY <1>1 DEF OpenCall
<1>9. c.kind = "cancel" =>
       /\ route' # None /\ c.chat = route' /\ c.project \in {None, route'} /\ OfOpenChat(c.run)
       /\ c.step = "refresh" => c.project = route'
  BY <1>1 DEF OpenCall
<1>10. c.kind = "select" => route' # None /\ c.chat = route' /\ OfOpenChat(c.run)
  BY <1>1 DEF OpenCall
<1> HIDE DEF k, c
<1> QED
  BY <1>2, <1>3, <1>4, <1>5, <1>6, <1>7, <1>8, <1>9, <1>10
  DEF OpenCall, OfOpenChat, LiveAsked, Follows, FreshLoad, k, c

LEMMA RouteSnapshotOpen ==
  ASSUME BaseInv, OpenInv, NEW i, RouteSnapshot(i)
  PROVE  OpenInv'
<1>1. /\ i \in DOMAIN calls /\ calls[i].kind = "route" /\ calls[i].step = "snapshot"
      /\ snapshot' = (IF calls[i].live THEN calls[i].run ELSE snapshot)
      /\ UNCHANGED <<server, route, project, gen, history, turns, refs, clicks, faults, ghosts>>
      /\ Dropped(i)
  BY RouteSnapshotStep DEF BaseInv
<1>2. Grows
  BY <1>1, ServerIs DEF ServerKept
<1>3. ~crossed /\ snapshot' # NoRun =>
        snapshot' = snapshot \/ (snapshot' \in Runs /\ route # None /\ home'[snapshot'] = route)
  BY <1>1 DEF OpenInv, OpenCall, OfOpenChat, server
<1>4. pending' = pending /\ crossed' = crossed
  BY <1>1 DEF refs, ghosts
<1> QED BY <1>1, <1>2, <1>3, <1>4, OpenDrop

LEMMA RouteFailsOpen ==
  ASSUME BaseInv, OpenInv, NEW i, RouteFails(i)
  PROVE  OpenInv'
<1>1. /\ i \in DOMAIN calls /\ Dropped(i)
      /\ UNCHANGED <<server, route, shown, refs, clicks, ghosts>>
  BY RouteFailsStep DEF BaseInv
<1>2. Grows
  BY <1>1, ServerIs DEF ServerKept
<1>3. pending' = pending /\ crossed' = crossed
  BY <1>1 DEF refs, ghosts
<1> QED BY <1>1, <1>2, <1>3, OpenDrop DEF shown

LEMMA CatchOpen ==
  ASSUME BaseInv, OpenInv, NEW i \in DOMAIN calls, Catch(i), Grows,
         UNCHANGED <<route, project, snapshot, pending, ghosts>>
  PROVE  OpenInv'
<1>1. gen'.run = gen.run /\ SameTurns /\ Dropped(i)
  BY CatchStep DEF BaseInv
<1>2. crossed' = crossed
  BY DEF ghosts
<1> QED BY <1>1, <1>2, OpenDrop DEF SameTurns

LEMMA CreateFailsOpen ==
  ASSUME BaseInv, OpenInv, NEW i, CreateFails(i)
  PROVE  OpenInv'
<1>1. /\ i \in DOMAIN calls /\ Catch(i)
      /\ UNCHANGED <<chats, route, project, snapshot, history, pending, retrying, clicks, ghosts>>
      /\ \/ UNCHANGED <<home, status>>
         \/ calls[i].step = "create" /\ \E r \in Runs : NewRun(calls[i].chat, r)
  BY CreateFailsStep DEF BaseInv
<1>2. CASE UNCHANGED <<home, status>>
  <2>1. Grows
    BY <1>2 DEF Grows
  <2> QED BY <1>1, <2>1, CatchOpen
<1>3. CASE calls[i].step = "create" /\ \E r \in Runs : NewRun(calls[i].chat, r)
  <2>1. PICK r \in Runs : NewRun(calls[i].chat, r)
    BY <1>3
  <2>2. calls[i].chat \in Chats
    BY <1>1, <1>3, CallTyped DEF BaseInv, CallInv, Shaped
  <2>3. Grows
    BY <2>1, <2>2, MadeRun DEF ServerKept
  <2> QED BY <1>1, <2>3, CatchOpen
<1> QED BY <1>1, <1>2, <1>3

LEMMA MonitorFailsOpen ==
  ASSUME BaseInv, OpenInv, NEW i, MonitorFails(i)
  PROVE  OpenInv'
<1>1. /\ i \in DOMAIN calls /\ Catch(i)
      /\ UNCHANGED <<server, route, project, snapshot, history, pending, retrying, clicks, ghosts>>
  BY MonitorFailsStep DEF BaseInv
<1>2. Grows
  BY <1>1, ServerIs DEF ServerKept
<1> QED BY <1>1, <1>2, CatchOpen

LEMMA AbortedOpen ==
  ASSUME BaseInv, OpenInv, NEW i, Aborted(i)
  PROVE  OpenInv'
<1>1. /\ i \in DOMAIN calls /\ Dropped(i)
      /\ UNCHANGED <<server, route, shown, pending, retrying, clicks, faults, ghosts>>
  BY AbortedStep DEF BaseInv
<1>2. Grows /\ crossed' = crossed
  BY <1>1, ServerIs DEF ServerKept, ghosts
<1> QED BY <1>1, <1>2, OpenDrop DEF shown

LEMMA LoadArrivesOpen ==
  ASSUME BaseInv, OpenInv, NEW i, LoadArrives(i)
  PROVE  OpenInv'
<1>1. /\ i \in DOMAIN calls /\ calls[i].step = "loaded"
      /\ turns' = (IF ~calls[i].fresh THEN turns
                   ELSE IF calls[i].older THEN mergeOlderTimelinePage(calls[i].page)
                   ELSE calls[i].page)
      /\ LoadOver(i)
      /\ UNCHANGED <<server, route, project, gen, snapshot, history, pending, clicks, faults, ghosts>>
  BY LoadArrivesStep DEF BaseInv
<1>2. Dropped(i) /\ Grows /\ crossed' = crossed
  BY <1>1, LoadOverStep, ServerIs DEF BaseInv, ServerKept, ghosts
<1>3. ASSUME ~crossed, calls[i].fresh
      PROVE  \A r \in Runs : calls[i].page[r] # None => route # None /\ home'[r] = route
  <2>1. /\ Shaped(i) /\ OpenCall(i) /\ calls[i].kind \in Kinds
    BY <1>1, <1>3, CallTyped DEF BaseInv, CallInv, OpenInv
  <2>2. calls[i].kind \in {"timeline", "submit", "cancel", "retry"} /\ FreshLoad(calls[i])
    BY <1>1, <1>3, <2>1 DEF Shaped, Kinds, FreshLoad, Loads
  <2>3. route # None /\ calls[i].chat = route
    BY <1>1, <2>1, <2>2 DEF OpenCall, Loads
  <2> QED BY <1>1, <2>1, <2>3 DEF Shaped, server
<1>4. ~crossed => \A r \in Runs : turns'[r] # None => turns[r] # None \/ (route # None /\ home'[r] = route)
  BY <1>1, <1>3 DEF mergeOlderTimelinePage
<1> QED BY <1>1, <1>2, <1>4, OpenDrop

LEMMA LoadFailsOpen ==
  ASSUME BaseInv, OpenInv, NEW i, LoadFails(i)
  PROVE  OpenInv'
<1>1. /\ i \in DOMAIN calls /\ LoadOver(i)
      /\ UNCHANGED <<server, route, shown, pending, clicks, ghosts>>
  BY LoadFailsStep DEF BaseInv
<1>2. Dropped(i) /\ Grows /\ crossed' = crossed
  BY <1>1, LoadOverStep, ServerIs DEF BaseInv, ServerKept, ghosts
<1> QED BY <1>1, <1>2, OpenDrop DEF shown

LEMMA CancelFailsOpen ==
  ASSUME BaseInv, OpenInv, NEW i, CancelFails(i)
  PROVE  OpenInv'
<1>1. /\ i \in DOMAIN calls /\ Dropped(i) /\ gen' = failApiGeneration
      /\ UNCHANGED <<server, route, project, snapshot, history, turns, refs, clicks, ghosts>>
  BY CancelFailsStep DEF BaseInv
<1>2. Grows /\ crossed' = crossed /\ pending' = pending /\ gen'.run = gen.run
  BY <1>1, ServerIs, PanelsAre DEF BaseInv, ServerKept, ghosts, refs
<1> QED BY <1>1, <1>2, OpenDrop

LEMMA SelectArrivesOpen ==
  ASSUME BaseInv, OpenInv, NEW i, SelectArrives(i)
  PROVE  OpenInv'
<1>1. /\ i \in DOMAIN calls /\ calls[i].kind = "select" /\ snapshot' = calls[i].run /\ Dropped(i)
      /\ UNCHANGED <<server, route, project, gen, history, turns, refs, clicks, faults, ghosts>>
  BY SelectArrivesStep DEF BaseInv
<1>2. Grows /\ crossed' = crossed /\ pending' = pending
  BY <1>1, ServerIs DEF ServerKept, ghosts, refs
<1>3. ~crossed => snapshot' \in Runs /\ route # None /\ home'[snapshot'] = route
  BY <1>1 DEF OpenInv, OpenCall, OfOpenChat, server
<1> QED BY <1>1, <1>2, <1>3, OpenDrop

LEMMA RunEndsOpen ==
  ASSUME BaseInv, OpenInv, NEW r \in Runs, NEW s \in {"completed", "failed"}, RunEnds(r, s)
  PROVE  OpenInv'
<1>1. UNCHANGED <<chats, home, route, shown, refs, calls, clicks, faults, ghosts>>
  BY DEF RunEnds
<1> QED BY <1>1 DEF OpenInv, OpenCall, ShownOpen, OfOpenChat, LiveAsked, Follows, FreshLoad, shown, refs, ghosts

LEMMA StutterOpen ==
  ASSUME OpenInv, UNCHANGED vars
  PROVE  OpenInv'
BY DEF OpenInv, OpenCall, ShownOpen, OfOpenChat, LiveAsked, Follows, FreshLoad, shown, refs, ghosts, server, vars

\* A step that changes call i, and nothing of what is shown but states.
LEMMA OpenMove ==
  ASSUME BaseInv, OpenInv, NEW i, NEW W, Rest({i}, W), Grows, crossed' = crossed,
         route' = route, pending' = pending, project' = project, snapshot' = snapshot,
         gen'.run = gen.run,
         \A r \in Runs : turns'[r] # None => turns[r] # None,
         ~crossed /\ i \in DOMAIN calls' => OpenCall(i)'
  PROVE  OpenInv'
<1> SUFFICES ASSUME ~crossed PROVE OpenInv'
  BY DEF OpenInv
<1> QED BY OpenKept

LEMMA RouteProjectOpen ==
  ASSUME BaseInv, OpenInv, NEW i, RouteProject(i)
  PROVE  OpenInv'
<1>1. /\ i \in DOMAIN calls /\ calls[i].kind = "route" /\ calls[i].step = "project"
      /\ UNCHANGED <<server, route, shown, refs, clicks, faults, ghosts>>
      /\ \/ Dropped(i)
         \/ /\ Moved(i) /\ SameCall(calls[i], calls'[i]) /\ calls'[i].step = "snapshot"
            /\ calls'[i].live = calls[i].live
  BY RouteProjectStep DEF BaseInv
<1>2. Grows /\ crossed' = crossed /\ pending' = pending
  BY <1>1, ServerIs DEF ServerKept, ghosts, refs
<1>3. CASE Dropped(i)
  BY <1>1, <1>2, <1>3, OpenDrop DEF shown
<1>4. CASE /\ Moved(i) /\ SameCall(calls[i], calls'[i]) /\ calls'[i].step = "snapshot"
           /\ calls'[i].live = calls[i].live
  <2>1. Rest({i}, {})
    BY <1>1, <1>4, MovedRest DEF BaseInv
  <2>2. ~crossed => OpenCall(i)
    BY <1>1 DEF OpenInv
  <2>3. ~crossed => OpenCall(i)'
    BY <1>1, <1>2, <1>4, <2>2, SameOpen DEF BaseInv, shown, Follows
  <2> QED BY <1>1, <1>2, <2>1, <2>3, OpenMove DEF shown
<1> QED BY <1>1, <1>3, <1>4

LEMMA MonitorEventOpen ==
  ASSUME BaseInv, OpenInv, NEW i, MonitorEvent(i)
  PROVE  OpenInv'
<1> DEFINE r == calls[i].run
<1>1. /\ i \in DOMAIN calls /\ calls[i].kind = "submit" /\ calls[i].step = "monitor"
      /\ status[r] \in Ended
      /\ gen' = applyAgentEvent(r, status[r]) /\ turns' = applyTimelineEvent(r, status[r])
      /\ UNCHANGED <<server, route, project, snapshot, history, refs, clicks, faults, ghosts>>
      /\ Moved(i) /\ SameCall(calls[i], calls'[i]) /\ calls'[i].step = "detail"
      /\ calls'[i].live = calls[i].live
  BY MonitorEventStep DEF BaseInv
<1>2. Grows /\ crossed' = crossed /\ pending' = pending /\ gen'.run = gen.run
  BY <1>1, ServerIs, PanelsAre DEF BaseInv, ServerKept, ghosts, refs
<1>3. \A q \in Runs : turns'[q] # None => turns[q] # None
  BY <1>1, EventTurns DEF BaseInv
<1>4. Rest({i}, {})
  BY <1>1, MovedRest DEF BaseInv
<1>5. ~crossed => OpenCall(i)
  BY <1>1 DEF OpenInv
<1>6. Follows(calls[i]) /\ calls'[i].step \notin Refreshes \cup Loads
  BY <1>1 DEF Follows, Refreshes, Loads
<1>7. ~crossed => OpenCall(i)'
  BY <1>1, <1>2, <1>5, <1>6, SameOpen DEF BaseInv
<1> QED BY <1>1, <1>2, <1>3, <1>4, <1>7, OpenMove

LEMMA RetryEventOpen ==
  ASSUME BaseInv, OpenInv, NEW i, RetryEvent(i)
  PROVE  OpenInv'
<1> DEFINE r == calls[i].run
<1>1. /\ i \in DOMAIN calls /\ calls[i].kind = "retry"
      /\ status[r] \in Ended /\ turns' = applyTimelineEvent(r, status[r])
      /\ UNCHANGED <<server, route, project, gen, snapshot, history, refs, clicks, faults, ghosts>>
      /\ Moved(i) /\ SameCall(calls[i], calls'[i]) /\ calls'[i].step = "detail"
      /\ calls'[i].live = calls[i].live
  BY RetryEventStep DEF BaseInv
<1>2. Grows /\ crossed' = crossed /\ pending' = pending
  BY <1>1, ServerIs DEF ServerKept, ghosts, refs
<1>3. \A q \in Runs : turns'[q] # None => turns[q] # None
  BY <1>1, EventTurns DEF BaseInv
<1>4. Rest({i}, {})
  BY <1>1, MovedRest DEF BaseInv
<1>5. ~crossed => OpenCall(i)
  BY <1>1 DEF OpenInv
<1>6. ~ Follows(calls'[i])
  BY <1>1 DEF Follows, SameCall
<1>7. ~crossed => OpenCall(i)'
  BY <1>1, <1>2, <1>5, <1>6, SameOpen DEF BaseInv
<1> QED BY <1>1, <1>2, <1>3, <1>4, <1>7, OpenMove

LEMMA LoadAnsweredOpen ==
  ASSUME BaseInv, OpenInv, NEW i, LoadAnswered(i)
  PROVE  OpenInv'
<1>1. /\ i \in DOMAIN calls /\ calls[i].step = "page"
      /\ UNCHANGED <<server, route, shown, refs, clicks, faults, ghosts>>
      /\ Moved(i) /\ SameCall(calls[i], calls'[i]) /\ calls'[i].step = "loaded"
      /\ calls'[i].live = calls[i].live /\ calls'[i].fresh = calls[i].fresh
  BY LoadAnsweredStep DEF BaseInv
<1>2. Grows /\ crossed' = crossed /\ pending' = pending
  BY <1>1, ServerIs DEF ServerKept, ghosts, refs
<1>3. Rest({i}, {})
  BY <1>1, MovedRest DEF BaseInv
<1>4. ~crossed => OpenCall(i)
  BY <1>1 DEF OpenInv
<1>5. ~ Follows(calls'[i]) /\ calls[i].step \in Loads /\ calls[i].kind # "route"
      /\ (FreshLoad(calls'[i]) => FreshLoad(calls[i]))
  BY <1>1 DEF Follows, FreshLoad, Loads, BaseInv, CallInv, Shaped
<1>6. ~crossed => OpenCall(i)'
  BY <1>1, <1>2, <1>4, <1>5, SameOpen DEF BaseInv, shown
<1> QED BY <1>1, <1>2, <1>3, <1>6, OpenMove DEF shown

\* A call that goes on to await a refresh or a load.
LEMMA AwaitOpen ==
  ASSUME BaseInv, OpenInv, NEW i \in DOMAIN calls, Grows, ~crossed,
         route' = route, project' = project,
         Refreshed(i) \/ Reloaded(i) \/ Retried(i),
         calls[i].kind \in {"submit", "cancel", "retry"},
         calls[i].kind = "submit" => Follows(calls[i]) \/ calls[i].step \in Refreshes \cup Loads,
         calls[i].kind = "cancel" => Reloaded(i) \/ calls[i].project # None
  PROVE  OpenCall(i)'
<1>1. OpenCall(i)
  BY DEF OpenInv
<1>2. /\ SameCall(calls[i], calls'[i]) /\ calls'[i].live = calls[i].live
      /\ calls'[i].step \in {"refresh", "page"} /\ (Reloaded(i) => calls'[i].step = "page")
  BY DEF Refreshed, Reloaded, Retried
<1>3. ~ Follows(calls'[i])
  BY <1>2 DEF Follows
<1> QED BY <1>1, <1>2, <1>3, SameOpen DEF BaseInv

LEMMA AwaitRest ==
  ASSUME NEW i, Refreshed(i) \/ Reloaded(i)
  PROVE  \E W : Rest({i}, W)
BY DEF Refreshed, Reloaded

LEMMA RefreshArrivesOpen ==
  ASSUME BaseInv, OpenInv, NEW i, RefreshArrives(i)
  PROVE  OpenInv'
<1>1. /\ i \in DOMAIN calls /\ calls[i].step = "refresh"
      /\ UNCHANGED <<server, route, project, gen, snapshot, turns, inFlight, pending,
                     clicks, faults, ghosts>>
      /\ \/ /\ calls[i].kind = "route"
            /\ Moved(i) /\ calls'[i].kind = "route" /\ calls'[i].step = "project"
            /\ calls'[i].chat = calls[i].chat /\ calls'[i].project = calls[i].project
            /\ calls'[i].live = calls[i].live
            /\ calls'[i].run # NoRun => calls'[i].run \in RunsOf(calls[i].chat)
         \/ calls[i].kind = "retry" /\ Dropped(i)
         \/ calls[i].kind \notin {"route", "retry"} /\ Reloaded(i)
  BY RefreshArrivesStep DEF BaseInv
<1>2. Grows /\ crossed' = crossed
  BY <1>1, ServerIs DEF ServerKept, ghosts
<1>3. ~crossed => OpenCall(i)
  BY <1>1 DEF OpenInv
<1>4. CASE calls[i].kind = "route" /\ Moved(i)
  <2>1. Rest({i}, {})
    BY <1>1, <1>4, MovedRest DEF BaseInv
  <2>2. calls'[i].kind = "route" /\ calls'[i].step = "project"
        /\ calls'[i].chat = calls[i].chat /\ calls'[i].project = calls[i].project
        /\ calls'[i].live = calls[i].live
        /\ (calls'[i].run # NoRun => calls'[i].run \in RunsOf(calls[i].chat))
    BY <1>1, <1>4
  <2>3. ASSUME ~crossed PROVE OpenCall(i)'
    <3>1. calls[i].live =>
            route # None /\ calls[i].chat = route /\ calls[i].project = route
      BY <1>1, <1>3, <1>4, <2>3 DEF OpenCall
    <3>2. calls'[i].live /\ calls'[i].run # NoRun =>
            calls'[i].run \in Runs /\ route' # None /\ home'[calls'[i].run] = route'
      BY <1>1, <2>2, <3>1 DEF RunsOf, server
    <3> QED BY <1>1, <2>2, <3>1, <3>2 DEF OpenCall, LiveAsked, Follows, OfOpenChat
  <2> QED BY <1>1, <1>2, <2>1, <2>3, OpenMove
<1>5. CASE calls[i].kind = "retry" /\ Dropped(i)
  BY <1>1, <1>2, <1>5, OpenDrop
<1>6. CASE calls[i].kind \notin {"route", "retry"} /\ Reloaded(i)
  <2>1. calls[i].kind \in {"submit", "cancel"}
    <3>1. Shaped(i) /\ calls[i].kind \in Kinds
      BY <1>1, CallTyped DEF BaseInv, CallInv
    <3> QED BY <1>1, <1>6, <3>1 DEF Shaped, Kinds, Loads
  <2>2. ~crossed => OpenCall(i)'
    BY <1>1, <1>2, <1>6, <2>1, AwaitOpen DEF Refreshes
  <2>3. Rest({i}, Loads)
    BY <1>6 DEF Reloaded
  <2> QED BY <1>1, <1>2, <2>2, <2>3, OpenMove
<1> QED BY <1>1, <1>4, <1>5, <1>6

LEMMA RefreshFailsOpen ==
  ASSUME BaseInv, OpenInv, NEW i, RefreshFails(i)
  PROVE  OpenInv'
<1>1. /\ i \in DOMAIN calls /\ calls[i].step = "refresh"
      /\ UNCHANGED <<server, route, project, snapshot, history, pending, retrying, clicks, ghosts>>
      /\ \/ calls[i].kind = "submit" /\ Catch(i)
         \/ /\ calls[i].kind = "cancel" /\ gen' = failApiGeneration /\ Dropped(i)
            /\ UNCHANGED <<turns, inFlight>>
         \/ /\ calls[i].kind = "retry" /\ Retried(i)
            /\ UNCHANGED <<gen, turns, inFlight>>
  BY RefreshFailsStep DEF BaseInv
<1>2. Grows /\ crossed' = crossed
  BY <1>1, ServerIs DEF ServerKept, ghosts
<1>3. CASE Catch(i)
  BY <1>1, <1>2, <1>3, CatchOpen
<1>4. CASE gen' = failApiGeneration /\ Dropped(i) /\ UNCHANGED <<turns, inFlight>>
  BY <1>1, <1>2, <1>4, OpenDrop, PanelsAre DEF BaseInv
<1>5. CASE calls[i].kind = "retry" /\ Retried(i) /\ UNCHANGED <<gen, turns, inFlight>>
  <2>1. ~crossed => OpenCall(i)'
    BY <1>1, <1>2, <1>5, AwaitOpen
  <2>2. Rest({i}, {"let go"} \cup Loads)
    BY <1>5 DEF Retried
  <2> QED BY <1>1, <1>2, <1>5, <2>1, <2>2, OpenMove
<1> QED BY <1>1, <1>3, <1>4, <1>5

LEMMA RetryFailsOpen ==
  ASSUME BaseInv, OpenInv, NEW i, RetryFails(i)
  PROVE  OpenInv'
<1>1. /\ i \in DOMAIN calls /\ calls[i].kind = "retry" /\ Reloaded(i)
      /\ UNCHANGED <<server, route, shown, refs, clicks, ghosts>>
  BY RetryFailsStep DEF BaseInv
<1>2. Grows /\ crossed' = crossed /\ pending' = pending
  BY <1>1, ServerIs DEF ServerKept, ghosts, refs
<1>3. ~crossed => OpenCall(i)'
  BY <1>1, <1>2, AwaitOpen DEF shown
<1>4. Rest({i}, Loads)
  BY <1>1 DEF Reloaded
<1> QED BY <1>1, <1>2, <1>3, <1>4, OpenMove DEF shown

LEMMA MonitorReturnsOpen ==
  ASSUME BaseInv, OpenInv, NEW i, MonitorReturns(i)
  PROVE  OpenInv'
<1> DEFINE r == calls[i].run
<1> SUFFICES ASSUME ~crossed PROVE OpenInv'
  BY MonitorReturnsStep DEF BaseInv, OpenInv, ghosts
<1>1. /\ i \in DOMAIN calls /\ calls[i].kind = "submit" /\ calls[i].step = "detail"
      /\ gen' = applyAgentRunDetail(r, status[r])
      /\ snapshot' = IF DetailAccepted(r) /\ status[r] = "completed" THEN r ELSE snapshot
      /\ UNCHANGED <<server, route, project, history, turns, refs, clicks, faults, ghosts>>
      /\ Refreshed(i)
  BY MonitorReturnsStep DEF BaseInv
<1>2. Grows /\ pending' = pending
  BY <1>1, ServerIs DEF ServerKept, refs
<1>3. OpenCall(i) /\ Follows(calls[i])
  BY <1>1 DEF OpenInv, Follows
<1>4. r \in Runs /\ route # None /\ home'[r] = route
  BY <1>1, <1>3 DEF OpenCall, OfOpenChat, server
<1>5. gen'.run = (IF DetailAccepted(r) THEN r ELSE gen.run)
  BY <1>1, PanelsAre DEF BaseInv
<1>6. gen.run = PendingRun => gen'.run = PendingRun
  <2>1. PendingRun \notin Runs \cup {NoRun}
    BY WorkspaceAssumption DEF WorkspaceAssumption, PendingRun, Runs, NoRun
  <2> QED BY <1>4, <1>5, <2>1 DEF DetailAccepted
<1>7. OpenCall(i)'
  BY <1>1, <1>2, <1>3, AwaitOpen
<1>8. Rest({i}, Refreshes)
  BY <1>1 DEF Refreshed
<1> QED BY <1>1, <1>2, <1>4, <1>5, <1>6, <1>7, <1>8, OpenKept

LEMMA CancelAnsweredOpen ==
  ASSUME BaseInv, OpenInv, NEW i, CancelAnswered(i)
  PROVE  OpenInv'
<1> DEFINE r == calls[i].run
           s == IF status[r] = "active" THEN "cancelled" ELSE status[r]
<1>1. /\ i \in DOMAIN calls /\ calls[i].kind = "cancel"
      /\ gen' = applyAgentRunDetail(r, s)
      /\ UNCHANGED <<chats, home, route, project, snapshot, history, turns, refs, clicks, faults, ghosts>>
      /\ \/ calls[i].project # None /\ Refreshed(i)
         \/ calls[i].project = None /\ calls[i].chat # None /\ Reloaded(i)
         \/ calls[i].project = None /\ calls[i].chat = None /\ Dropped(i)
  BY CancelAnsweredStep DEF BaseInv
<1> SUFFICES ASSUME ~crossed PROVE OpenInv'
  BY <1>1 DEF OpenInv, ghosts
<1> HIDE DEF s
<1>2. Grows /\ pending' = pending
  BY <1>1 DEF Grows, refs
<1>3. OpenCall(i)
  BY <1>1 DEF OpenInv
<1>4. r \in Runs /\ route # None /\ home'[r] = route
  BY <1>1, <1>3 DEF OpenCall, OfOpenChat
<1>5. gen'.run = (IF DetailAccepted(r) THEN r ELSE gen.run)
  BY <1>1, PanelsAre DEF BaseInv
<1>6. gen.run = PendingRun => gen'.run = PendingRun
  <2>1. PendingRun \notin Runs \cup {NoRun}
    BY WorkspaceAssumption DEF WorkspaceAssumption, PendingRun, Runs, NoRun
  <2> QED BY <1>4, <1>5, <2>1 DEF DetailAccepted
<1>7. CASE (calls[i].project # None /\ Refreshed(i)) \/ Reloaded(i)
  <2>1. OpenCall(i)'
    BY <1>1, <1>2, <1>7, AwaitOpen
  <2>2. PICK W : Rest({i}, W)
    BY <1>7, AwaitRest
  <2> QED BY <1>1, <1>2, <1>4, <1>5, <1>6, <2>1, <2>2, OpenKept
<1>8. CASE Dropped(i)
  <2>1. Rest({i}, {}) /\ i \notin DOMAIN calls'
    BY <1>8, DroppedRest DEF BaseInv, Dropped
  <2> QED BY <1>1, <1>2, <1>4, <1>5, <1>6, <2>1, OpenKept
<1> QED BY <1>1, <1>7, <1>8

LEMMA MakeChatOpen ==
  ASSUME BaseInv, OpenInv, NEW i, NEW c \in Chats, MakeChat(i, c)
  PROVE  OpenInv'
<1>1. /\ i \in DOMAIN calls /\ calls[i].kind = "submit" /\ calls[i].step = "chat"
      /\ UNCHANGED <<home, status, route, shown, refs, clicks, faults, ghosts>>
      /\ Moved(i)
      /\ calls'[i].kind = "submit" /\ calls'[i].step = "create" /\ calls'[i].chat = c
      /\ calls'[i].project = c /\ calls'[i].run = calls[i].run
      /\ calls'[i].live = calls[i].live /\ calls'[i].atHome = calls[i].atHome
  BY MakeChatStep DEF BaseInv
<1>2. Grows /\ crossed' = crossed /\ pending' = pending /\ Rest({i}, {})
  BY <1>1, MovedRest DEF Grows, ghosts, refs, BaseInv
<1>3. ~crossed => OpenCall(i)
  BY <1>1 DEF OpenInv
<1>4. ~crossed => OpenCall(i)'
  BY <1>1, <1>3 DEF OpenCall, LiveAsked, Follows, shown, Refreshes, Loads
<1> QED BY <1>1, <1>2, <1>4, OpenMove DEF shown

LEMMA RetryMadeOpen ==
  ASSUME BaseInv, OpenInv, NEW i, NEW r \in Runs, RetryMade(i, r)
  PROVE  OpenInv'
<1>1. /\ i \in DOMAIN calls /\ calls[i].kind = "retry" /\ calls[i].step = "create"
      /\ NewRun(calls[i].chat, r) /\ turns' = insertTimelineRun(r)
      /\ UNCHANGED <<chats, route, project, gen, snapshot, history, refs, clicks, faults, ghosts>>
      /\ Moved(i) /\ calls'[i].kind = "retry" /\ calls'[i].step = "monitor"
      /\ calls'[i].chat = calls[i].chat /\ calls'[i].project = calls[i].project
      /\ calls'[i].run = r
  BY RetryMadeStep DEF BaseInv
<1> SUFFICES ASSUME ~crossed PROVE OpenInv'
  BY <1>1 DEF OpenInv, ghosts
<1>2. calls[i].chat \in Chats
  BY <1>1, CallTyped DEF BaseInv, CallInv, Shaped
<1>3. Grows /\ home'[r] = calls[i].chat /\ pending' = pending
  BY <1>1, <1>2, MadeRun DEF ServerKept, refs
<1>4. route # None /\ calls[i].chat = route /\ calls[i].project = route
  BY <1>1 DEF OpenInv, OpenCall
<1>5. OpenCall(i)'
  BY <1>1, <1>3, <1>4 DEF OpenCall, OfOpenChat, LiveAsked, Follows
<1>6. \A q \in Runs : turns'[q] # None => turns[q] # None \/ (route # None /\ home'[q] = route)
  BY <1>1, <1>3, <1>4, InsertIs DEF BaseInv
<1>7. Rest({i}, {})
  BY <1>1, MovedRest DEF BaseInv
<1> QED BY <1>1, <1>3, <1>5, <1>6, <1>7, OpenKept

LEMMA RetryReturnsOpen ==
  ASSUME BaseInv, OpenInv, NEW i, RetryReturns(i)
  PROVE  OpenInv'
<1>0. PICK n : n = Free
  OBVIOUS
<1>1. /\ i \in DOMAIN calls /\ calls[i].kind = "retry" /\ calls[i].step = "detail"
      /\ UNCHANGED <<server, route, shown, refs, clicks, faults, ghosts>>
      /\ Rest({i, n}, Refreshes \cup Loads)
      /\ SameCall(calls[i], calls'[i]) /\ SameCall(calls[i], calls'[n])
  BY <1>0, RetryReturnsStep DEF BaseInv
<1> SUFFICES ASSUME ~crossed PROVE OpenInv'
  BY <1>1 DEF OpenInv, ghosts
<1>2. Grows /\ pending' = pending
  BY <1>1, ServerIs DEF ServerKept, refs
<1>3. OpenCall(i)
  BY <1>1 DEF OpenInv
<1>4. OpenCall(i)'
  BY <1>1, <1>3 DEF OpenCall, OfOpenChat, LiveAsked, Follows, SameCall, server
<1>5. OpenCall(n)'
  BY <1>1, <1>3 DEF OpenCall, OfOpenChat, LiveAsked, Follows, SameCall, server
<1> QED BY <1>1, <1>2, <1>4, <1>5, OpenKept DEF shown

LEMMA RouteChatOpen ==
  ASSUME BaseInv, OpenInv, NEW i, RouteChat(i)
  PROVE  OpenInv'
<1>0. PICK n : n = Free
  OBVIOUS
<1>1. /\ i \in DOMAIN calls /\ calls[i].kind = "route" /\ calls[i].step = "chat"
      /\ UNCHANGED <<server, route, gen, snapshot, history, turns, refs, clicks, faults, ghosts>>
      /\ ~ calls[i].live => calls' = Drop(calls, i) /\ project' = project
      /\ calls[i].live =>
              /\ project' = calls[i].chat
              /\ Rest({i, n}, Loads \cup Refreshes)
              /\ calls'[i].kind = "route" /\ calls'[i].chat = calls[i].chat
              /\ calls'[i].project = calls[i].chat /\ calls'[i].step = "refresh"
              /\ calls'[n].kind = "timeline" /\ calls'[n].chat = calls[i].chat
  BY <1>0, RouteChatStep DEF BaseInv
<1>2. Grows /\ pending' = pending /\ crossed' = crossed
  BY <1>1, ServerIs DEF ServerKept, refs, ghosts
<1>3. CASE ~ calls[i].live
  <2>1. Dropped(i)
    BY <1>1, <1>3, DropIs
  <2> QED BY <1>1, <1>2, <1>3, <2>1, OpenDrop
<1>4. CASE calls[i].live
  <2> SUFFICES ASSUME ~crossed PROVE OpenInv'
    BY <1>2 DEF OpenInv
  <2>1. route # None /\ calls[i].chat = route
    BY <1>1, <1>4 DEF OpenInv, OpenCall
  <2>2. OpenCall(i)'
    BY <1>1, <1>4, <2>1 DEF OpenCall, LiveAsked, Follows
  <2>3. OpenCall(n)'
    BY <1>1, <1>4, <2>1 DEF OpenCall, LiveAsked, Follows
  <2> QED BY <1>1, <1>2, <1>4, <2>1, <2>2, <2>3, OpenKept
<1> QED BY <1>3, <1>4

LEMMA CancelOpen ==
  ASSUME BaseInv, OpenInv, Cancel
  PROVE  OpenInv'
<1>0. PICK n : n = Free
  OBVIOUS
<1>1. /\ gen.run \in Runs
      /\ UNCHANGED <<server, route, shown, refs, faults, ghosts>>
      /\ Rest({n}, {"abort"})
      /\ IsNew(calls'[n], "cancel", "reply", route, project, gen.run)
  BY <1>0, CancelStep DEF BaseInv
<1>2. Grows /\ crossed' = crossed /\ pending' = pending
  BY <1>1, ServerIs DEF ServerKept, ghosts, refs
<1>3. ASSUME ~crossed PROVE OpenCall(n)'
  <2>1. OfOpenChat(gen.run) /\ project \in {None, route}
    BY <1>1, <1>3 DEF OpenInv, ShownOpen
  <2> QED BY <1>1, <2>1 DEF IsNew, OpenCall, OfOpenChat, LiveAsked, Follows, server
<1> QED BY <1>1, <1>2, <1>3, OpenMove DEF shown

LEMMA SelectSnapshotOpen ==
  ASSUME BaseInv, OpenInv, NEW r \in Runs, SelectSnapshot(r)
  PROVE  OpenInv'
<1>0. PICK n : n = Free
  OBVIOUS
<1>1. /\ turns[r] = "completed"
      /\ UNCHANGED <<server, route, shown, refs, faults, ghosts>>
      /\ Rest({n}, {})
      /\ IsNew(calls'[n], "select", "snapshot", route, project, r)
  BY <1>0, SelectSnapshotStep DEF BaseInv
<1>2. Grows /\ crossed' = crossed /\ pending' = pending
  BY <1>1, ServerIs DEF ServerKept, ghosts, refs
<1>3. ASSUME ~crossed PROVE OpenCall(n)'
  <2>1. OfOpenChat(r)
    <3>1. "completed" # None
      BY WorkspaceAssumption DEF WorkspaceAssumption, Ended
    <3> QED BY <1>1, <1>3, <3>1 DEF OpenInv, ShownOpen
  <2> QED BY <1>1, <2>1 DEF IsNew, OpenCall, OfOpenChat, LiveAsked, Follows, server
<1> QED BY <1>1, <1>2, <1>3, OpenMove DEF shown

LEMMA RetryValidationOpen ==
  ASSUME BaseInv, OpenInv, NEW r \in Runs, RetryValidation(r)
  PROVE  OpenInv'
<1>0. PICK n : n = Free
  OBVIOUS
<1>1. /\ turns[r] = "failed" /\ project # None
      /\ UNCHANGED <<server, route, shown, inFlight, pending, faults, ghosts>>
      /\ Rest({n}, {})
      /\ IsNew(calls'[n], "retry", "create", route, project, r)
  BY <1>0, RetryValidationStep DEF BaseInv
<1>2. Grows /\ crossed' = crossed
  BY <1>1, ServerIs DEF ServerKept, ghosts
<1>3. ASSUME ~crossed PROVE OpenCall(n)'
  <2>1. OfOpenChat(r) /\ project = route
    <3>1. "failed" # None
      BY WorkspaceAssumption DEF WorkspaceAssumption, Ended
    <3> QED BY <1>1, <1>3, <3>1 DEF OpenInv, ShownOpen
  <2> QED BY <1>1, <2>1 DEF IsNew, OpenCall, OfOpenChat, LiveAsked, Follows, server
<1> QED BY <1>1, <1>2, <1>3, OpenMove DEF shown

LEMMA LoadOlderOpen ==
  ASSUME BaseInv, OpenInv, LoadOlder
  PROVE  OpenInv'
<1>0. PICK n : n = Free
  OBVIOUS
<1>1. /\ route # None
      /\ UNCHANGED <<server, route, shown, refs, faults, crossed>>
      /\ Rest({n}, Loads)
      /\ calls'[n].kind = "timeline" /\ calls'[n].chat = route
  BY <1>0, LoadOlderStep DEF BaseInv
<1>2. Grows /\ pending' = pending
  BY <1>1, ServerIs DEF ServerKept, refs
<1>3. OpenCall(n)'
  BY <1>1 DEF OpenCall, LiveAsked, Follows
<1> QED BY <1>1, <1>2, <1>3, OpenMove DEF shown

LEMMA SubmitOpen ==
  ASSUME BaseInv, OpenInv, Submit
  PROVE  OpenInv'
<1>0. PICK n : n = Free
  OBVIOUS
<1>1. /\ gen' = startApiGeneration(PendingRun)
      /\ UNCHANGED <<server, route, project, snapshot, history, turns, pending,
                     retrying, faults, ghosts>>
      /\ Rest({n}, {"forget"})
      /\ calls'[n].kind = "submit"
      /\ calls'[n].chat = route /\ calls'[n].project = project /\ calls'[n].run = NoRun
      /\ calls'[n].step = (IF route = None THEN "chat" ELSE "create")
      /\ calls'[n].atHome <=> route = None
  BY <1>0, SubmitStep DEF BaseInv
<1>2. Grows /\ crossed' = crossed
  BY <1>1, ServerIs DEF ServerKept, ghosts
<1> SUFFICES ASSUME ~crossed PROVE OpenInv'
  BY <1>2 DEF OpenInv
<1>3. gen'.run = PendingRun /\ PendingRun \notin Runs
  BY <1>1, PanelsAre, WorkspaceAssumption DEF BaseInv, WorkspaceAssumption, PendingRun, Runs
<1>4. project \in {None, route}
  BY DEF OpenInv, ShownOpen
<1>5. OpenCall(n)'
  BY <1>1, <1>3, <1>4 DEF OpenCall, LiveAsked, Follows, Refreshes, Loads
<1> QED BY <1>1, <1>2, <1>3, <1>5, OpenKept

\* A call that can no longer write to the page.
Bygone(k) ==
  /\ k.kind = "route" => ~k.live
  /\ ~ (k.kind = "timeline" /\ FreshLoad(k))
  /\ ~ LiveAsked(k) /\ ~ Follows(k)
  /\ k.kind = "submit" => k.step \notin Refreshes \cup Loads
  /\ k.kind \notin {"cancel", "select", "retry"}

LEMMA BygoneOpen ==
  ASSUME NEW i, Bygone(calls'[i])
  PROVE  OpenCall(i)'
BY DEF Bygone, OpenCall, LiveAsked, Follows, FreshLoad

LEMMA BygoneFaded ==
  ASSUME NEW k, NEW c, NEW W, Bygone(k), Faded(k, c, W)
  PROVE  Bygone(c)
<1>1. c.kind = k.kind /\ (c.live => k.live) /\ (c.fresh => k.fresh)
      /\ (c.step = k.step \/ (c.kind = "submit" /\ c.step = "aborted"))
  BY DEF Faded, SameCall, Monitored
<1> QED BY <1>1 DEF Bygone, LiveAsked, Follows, FreshLoad, Refreshes, Loads

LEMMA BygoneLeft ==
  ASSUME NEW k, NEW c, NEW W, {"leave", "abort"} \cup Loads \subseteq W, Faded(k, c, W),
         NEW d, NEW V \in SUBSET {"abort", "forget"}, V \subseteq W, Faded(k, d, V), ~ Unprotected(d)
  PROVE  Bygone(c)
<1>1. c.kind = k.kind /\ d.kind = k.kind
  BY DEF Faded, SameCall
<1>2. c.kind = "route" => ~c.live
  BY <1>1 DEF Faded
<1>3. ~ (c.kind = "timeline" /\ FreshLoad(c))
  BY <1>1 DEF Faded, FreshLoad, Monitored
<1>4. ~ Follows(c)
  BY <1>1 DEF Faded, Follows, Monitored
<1>5. c.kind = "submit" => c.step \notin Refreshes \cup Loads
  BY <1>1 DEF Faded, Unprotected, Refreshes, Loads, Monitored
<1>6. c.kind \notin {"cancel", "select", "retry"}
  BY <1>1 DEF Unprotected
<1>7. ~ LiveAsked(c)
  BY <1>1 DEF Faded, LiveAsked, Unprotected, Monitored
<1> QED BY <1>2, <1>3, <1>4, <1>5, <1>6, <1>7 DEF Bygone

\* A chat or the home page is opened, and no unprotected continuation is left behind.
LEMMA OpenedOpen ==
  ASSUME BaseInv, ~crossed', NEW c \in Chats \cup {None}, NEW n, n = Free,
         NEW V \in SUBSET {"abort", "forget"}, Opened(c, V), route' = c, pending' = None,
         NEW f, Fades(calls, f, V), \A j \in DOMAIN calls : ~ Unprotected(f[j])
  PROVE  OpenInv'
<1> DEFINE W == V \cup {"leave", "abort"} \cup Loads
<1>1. /\ project' = None /\ gen' = Idle /\ snapshot' = NoRun /\ turns' = Blank
      /\ Rest({n}, W)
      /\ n \in DOMAIN calls' => c # None /\ IsNew(calls'[n], "route", "chat", c, None, NoRun)
  BY DEF Opened
<1>2. {"leave", "abort"} \cup Loads \subseteq W /\ V \subseteq W
  OBVIOUS
<1> HIDE DEF W
<1>3. ASSUME NEW j \in DOMAIN calls' \ {n} PROVE OpenCall(j)'
  <2>1. j \in DOMAIN calls /\ Faded(calls[j], calls'[j], W)
    BY <1>1 DEF Rest
  <2>2. Faded(calls[j], f[j], V) /\ ~ Unprotected(f[j])
    BY <2>1 DEF Fades
  <2>3. Bygone(calls'[j])
    BY <1>2, <2>1, <2>2, BygoneLeft
  <2> QED BY <2>3, BygoneOpen
<1>4. ASSUME n \in DOMAIN calls' PROVE OpenCall(n)'
  BY <1>1, <1>4 DEF IsNew, OpenCall, LiveAsked, Follows
<1>5. ShownOpen'
  <2>1. gen'.run \notin Runs
    BY <1>1, PanelsAre DEF BaseInv, Runs, NoRun
  <2> QED BY <1>1, <2>1 DEF ShownOpen, Blank
<1> QED BY <1>3, <1>4, <1>5 DEF OpenInv

LEMMA NavigateOpen ==
  ASSUME BaseInv, OpenInv, NEW c \in Chats \cup {None}, Navigate(c)
  PROVE  OpenInv'
<1>0. PICK n : n = Free
  OBVIOUS
<1> SUFFICES ASSUME ~crossed' PROVE OpenInv'
  BY DEF OpenInv
<1>1. /\ route' = c
      /\ crossed' = (crossed \/ \E j \in DOMAIN calls : Unprotected(calls[j]))
      /\ \/ c # None /\ pending = c
         \/ pending' = pending /\ Opened(c, {})
  BY NavigateStep DEF BaseInv
<1>2. ~crossed /\ \A j \in DOMAIN calls : ~ Unprotected(calls[j])
  BY <1>1
<1>3. pending = None
  BY <1>2 DEF OpenInv, ShownOpen
<1>4. Fades(calls, calls, {})
  BY CallsTyped, NotFades DEF BaseInv
<1>5. pending' = None /\ Opened(c, {})
  BY <1>1, <1>3
<1> QED BY <1>0, <1>1, <1>2, <1>4, <1>5, OpenedOpen

LEMMA BackHomeOpen ==
  ASSUME BaseInv, OpenInv, BackHome
  PROVE  OpenInv'
<1>0. PICK n : n = Free
  OBVIOUS
<1> DEFINE f == AbortMonitor(Forget(calls))
<1>1. \/ /\ UNCHANGED <<server, route, shown, pending, crossed>>
         /\ Rest({}, {"abort", "forget"})
      \/ /\ route' = None /\ pending' = pending
         /\ crossed' = (crossed \/ \E j \in DOMAIN calls : Unprotected(f[j]))
         /\ Fades(calls, f, {"abort", "forget"})
         /\ Opened(None, {"abort", "forget"})
  BY BackHomeStep DEF BaseInv
<1> HIDE DEF f
<1> SUFFICES ASSUME ~crossed' PROVE OpenInv'
  BY DEF OpenInv
<1>2. CASE /\ UNCHANGED <<server, route, shown, pending, crossed>>
           /\ Rest({}, {"abort", "forget"})
  <2>1. Grows
    BY <1>2, ServerIs DEF ServerKept
  <2> QED BY <1>2, <2>1, OpenKept DEF shown
<1>3. CASE /\ route' = None /\ pending' = pending
           /\ crossed' = (crossed \/ \E j \in DOMAIN calls : Unprotected(f[j]))
           /\ Fades(calls, f, {"abort", "forget"})
           /\ Opened(None, {"abort", "forget"})
  <2>1. ~crossed /\ \A j \in DOMAIN calls : ~ Unprotected(f[j])
    BY <1>3
  <2>2. pending' = None
    BY <1>3, <2>1 DEF OpenInv, ShownOpen
  <2> QED BY <1>0, <1>3, <2>1, <2>2, OpenedOpen
<1> QED BY <1>1, <1>2, <1>3

LEMMA CreateRunOpen ==
  ASSUME BaseInv, OpenInv, NEW i, NEW r \in Runs, CreateRun(i, r)
  PROVE  OpenInv'
<1>1. /\ i \in DOMAIN calls /\ calls[i].kind = "submit" /\ calls[i].step = "create"
      /\ calls[i].project # None
      /\ NewRun(calls[i].chat, r)
  BY CreateRunStep DEF BaseInv
<1>2. calls[i].chat \in Chats
  BY <1>1, CallTyped DEF BaseInv, CallInv, Shaped
<1>3. Grows /\ home'[r] = calls[i].chat /\ calls[i].chat # None
  BY <1>1, <1>2, MadeRun DEF ServerKept
<1>4. CASE ~calls[i].live
  <2>1. Dropped(i) /\ UNCHANGED <<route, shown, pending, crossed>>
    BY <1>4, CreateRunStep DEF BaseInv
  <2> QED BY <1>1, <1>3, <2>1, OpenDrop DEF shown
<1>5. CASE calls[i].live
  <2> SUFFICES ASSUME ~crossed' PROVE OpenInv'
    BY DEF OpenInv
  <2>1. /\ gen' = startApiGeneration(r) /\ turns' = insertTimelineRun(r)
        /\ UNCHANGED <<snapshot, history>>
        /\ project' = (IF calls[i].atHome THEN calls[i].project ELSE project)
        /\ route' = (IF calls[i].atHome THEN calls[i].chat ELSE route)
        /\ pending' = (IF ~calls[i].atHome THEN pending
                       ELSE IF route # calls[i].chat THEN None ELSE calls[i].chat)
        /\ calls'[i].step = "monitor"
    BY <1>5, CreateRunStep DEF BaseInv
  <2>2. calls'[i].kind = "submit" /\ calls'[i].run = r /\ calls'[i].chat = calls[i].chat
        /\ calls'[i].project = calls[i].project
    BY <1>5, CreateRunLive DEF BaseInv
  <2>3. /\ gen'.run = r
        /\ \A q \in Runs \ {r} : turns'[q] = turns[q]
    BY <2>1, PanelsAre, InsertIs DEF BaseInv
  <2>4. \/ /\ calls[i].atHome /\ route # calls[i].chat
           /\ Rest({i}, {"abort", "leave"})
           /\ crossed' = (crossed \/ \E j \in DOMAIN calls \ {i} : Unprotected(calls[j]))
        \/ /\ ~ (calls[i].atHome /\ route # calls[i].chat)
           /\ Rest({i}, {"abort"}) /\ crossed' = crossed
    BY <1>5, CreateRunStep DEF BaseInv
  <2>5. ~crossed
    BY <2>4
  <2>6. ShownOpen /\ OpenCall(i) /\ LiveAsked(calls[i])
    BY <1>1, <1>5, <2>5 DEF OpenInv, LiveAsked
  <2>7. CASE calls[i].atHome
    <3>1. route = None /\ calls[i].project = calls[i].chat
      BY <1>1, <2>6, <2>7 DEF OpenCall
    <3>2. /\ route' = calls[i].chat /\ project' = calls[i].chat /\ pending' = None
          /\ Rest({i}, {"abort", "leave"})
      BY <1>3, <2>1, <2>4, <2>7, <3>1
    <3>3. snapshot' = NoRun /\ \A q \in Runs : turns'[q] # None => q = r
      BY <2>1, <2>3, <2>6, <3>1 DEF ShownOpen, OfOpenChat
    <3>4. ShownOpen'
      BY <1>3, <2>3, <3>2, <3>3 DEF ShownOpen, OfOpenChat
    <3>5. OpenCall(i)'
      BY <1>3, <2>1, <2>2, <3>1, <3>2 DEF OpenCall, LiveAsked, OfOpenChat, Refreshes, Loads, Follows
    <3>6. ASSUME NEW j \in DOMAIN calls' \ {i} PROVE OpenCall(j)'
      <4>1. j \in DOMAIN calls /\ Faded(calls[j], calls'[j], {"abort", "leave"})
        BY <3>2 DEF Rest
      <4>2. OpenCall(j) /\ Shaped(j)
        BY <2>5, <4>1 DEF OpenInv, BaseInv, CallInv
      <4>3. ~ LiveAsked(calls[j])
        BY <1>1, <2>6, <4>1 DEF BaseInv, CallInv, OneOfEach, LiveAsked, LiveSubmit
      <4>4. Bygone(calls[j])
        BY <3>1, <4>2, <4>3 DEF OpenCall, Bygone
      <4>5. Bygone(calls'[j])
        BY <4>1, <4>4, BygoneFaded
      <4> QED BY <4>5, BygoneOpen
    <3> QED BY <3>4, <3>5, <3>6 DEF OpenInv
  <2>8. CASE ~calls[i].atHome
    <3>1. route # None /\ calls[i].chat = route /\ calls[i].project = route /\ project = route
      BY <1>1, <2>6, <2>8 DEF OpenCall
    <3>2. route' = route /\ project' = project /\ pending' = pending /\ Rest({i}, {"abort"})
      BY <2>1, <2>4, <2>8
    <3>3. OpenCall(i)'
      BY <1>3, <2>1, <2>2, <3>1, <3>2 DEF OpenCall, LiveAsked, OfOpenChat, Refreshes, Loads, Follows
    <3>4. \A j \in DOMAIN calls \ {i} : ~ LiveSubmit(calls[j])
      BY <1>1, <2>6 DEF BaseInv, CallInv, OneOfEach, LiveAsked, LiveSubmit
    <3> QED BY <1>3, <2>1, <2>3, <2>5, <3>1, <3>2, <3>3, <3>4, OpenKept
  <2> QED BY <2>7, <2>8
<1> QED BY <1>4, <1>5

LEMMA OpenInit == Init => OpenInv
<1> SUFFICES ASSUME Init PROVE OpenInv
  OBVIOUS
<1>1. DOMAIN calls = {} /\ gen.run = NoRun
  BY DEF Init, Idle
<1> QED BY <1>1 DEF Init, OpenInv, ShownOpen, Blank, Runs, NoRun

\* OpenInv is inductive, relative to BaseInv.
LEMMA OpenNext == BaseInv /\ OpenInv /\ [Next]_vars => OpenInv'
<1> SUFFICES ASSUME BaseInv, OpenInv, [Next]_vars PROVE OpenInv'
  OBVIOUS
<1>1. ASSUME UNCHANGED vars PROVE OpenInv'
  BY <1>1, StutterOpen
<1>2. ASSUME User PROVE OpenInv'
  BY <1>2, NavigateOpen, BackHomeOpen, SubmitOpen, LoadOlderOpen, CancelOpen, SelectSnapshotOpen,
     RetryValidationOpen DEF User
<1>3. ASSUME NEW i \in 1 .. MaxCalls, Answered(i) PROVE OpenInv'
  BY <1>3, RouteChatOpen, RouteProjectOpen, RouteSnapshotOpen, MakeChatOpen, CreateRunOpen,
     RetryMadeOpen, MonitorEventOpen, MonitorReturnsOpen, AbortedOpen, RefreshArrivesOpen,
     LoadAnsweredOpen, LoadArrivesOpen, CancelAnsweredOpen, SelectArrivesOpen, RetryEventOpen,
     RetryReturnsOpen DEF Answered
<1>4. ASSUME NEW i \in 1 .. MaxCalls, Failed(i) PROVE OpenInv'
  BY <1>4, RouteFailsOpen, CreateFailsOpen, MonitorFailsOpen, RefreshFailsOpen, LoadFailsOpen,
     CancelFailsOpen, RetryFailsOpen DEF Failed
<1>5. ASSUME NEW r \in Runs, NEW s \in {"completed", "failed"}, RunEnds(r, s) PROVE OpenInv'
  BY <1>5, RunEndsOpen
<1> QED BY <1>1, <1>2, <1>3, <1>4, <1>5 DEF Next

\* Whatever chats the user opens and in whatever order the answers come: while no
\* continuation without a guard was left behind, project, panel, version and
\* turns are of the open chat (routeRequestRef, timelineRequestRef,
\* submissionIdRef and the abort of the monitor are enough for the rest).
THEOREM ShownOfOpenChat == Spec => []ShownIsOfOpenChat
<1>1. BaseInv /\ OpenInv => ShownIsOfOpenChat
  BY DEF BaseInv, TypeOK, OpenInv, ShownOpen, OfOpenChat, ShownIsOfOpenChat, InChat, Runs, NoRun
<1> QED BY <1>1, BaseInit, BaseNext, OpenInit, OpenNext, PTL DEF Spec

-----------------------------------------------------------------------------
(***************************************************************************)
(* HistoryInv: as long as the list of versions is of another chat, or a    *)
(* refresh of another chat is under way, some call will load it again.     *)
(***************************************************************************)

\* A call that will refresh the list for chat c.
Refresher(k, c) ==
  \/ k.kind = "route" /\ k.live /\ k.step = "chat"
  \/ Follows(k)
  \/ k.kind = "cancel" /\ k.step = "reply" /\ k.project # None
  \/ FreshRefresh(k) /\ k.project = c

\* A refresh of another chat.
Astray(k, c) == FreshRefresh(k) /\ k.project # c

HistoryInv ==
  /\ ~crossed /\ faults = 0 /\ route # None
  /\ history \notin {None, route} \/ \E i \in DOMAIN calls : Astray(calls[i], route)
  => \E i \in DOMAIN calls : Refresher(calls[i], route)

LEMMA RefresherKept ==
  ASSUME NEW k, NEW d, NEW c, NEW W, Faded(k, d, W), Refresher(k, c),
         "leave" \notin W, "refresh" \notin W, Follows(k) => "abort" \notin W
  PROVE  Refresher(d, c)
<1>1. d.kind = k.kind /\ d.project = k.project /\ (d.fresh <=> k.fresh /\ k.step \notin W)
      /\ d.step = IF "abort" \in W /\ Monitored(k) THEN "aborted" ELSE k.step
  BY DEF Faded, SameCall
<1>2. d.kind = "route" /\ k.live => d.live
  BY <1>1 DEF Faded
<1>3. d.step = k.step
  BY <1>1 DEF Follows, Monitored
<1> QED BY <1>1, <1>2, <1>3 DEF Refresher, Follows, FreshRefresh

LEMMA HistoryBy ==
  ASSUME NEW j, j \in DOMAIN calls', Refresher(calls'[j], route')
  PROVE  HistoryInv'
BY DEF HistoryInv

\* A step that ends no call that refreshes the list, and starts no refresh.
LEMMA HistoryKept ==
  ASSUME HistoryInv, NEW X, NEW W, Rest(X, W),
         route' = route, history' = history, crossed' = crossed, faults' = faults,
         "leave" \notin W, "refresh" \notin W,
         "abort" \in W => \A j \in DOMAIN calls : ~ Follows(calls[j]),
         \A x \in X \cap DOMAIN calls' : ~ FreshRefresh(calls'[x]),
         \A x \in X \cap DOMAIN calls : ~ Refresher(calls[x], route)
  PROVE  HistoryInv'
<1> SUFFICES ASSUME ~crossed, faults = 0, route # None,
                    history \notin {None, route} \/ \E i \in DOMAIN calls' : Astray(calls'[i], route)
             PROVE  \E i \in DOMAIN calls' : Refresher(calls'[i], route)
  BY DEF HistoryInv
<1>1. ASSUME NEW i \in DOMAIN calls', Astray(calls'[i], route)
      PROVE  i \in DOMAIN calls /\ Astray(calls[i], route)
  <2>1. i \in DOMAIN calls /\ Faded(calls[i], calls'[i], W)
    BY <1>1 DEF Astray, Rest
  <2> QED BY <1>1, <2>1, FadedLess DEF Astray, Faded, SameCall
<1>2. PICK j \in DOMAIN calls : Refresher(calls[j], route)
  BY <1>1 DEF HistoryInv
<1>3. j \in DOMAIN calls' /\ Faded(calls[j], calls'[j], W)
  BY <1>2 DEF Rest
<1> QED BY <1>2, <1>3, RefresherKept

LEMMA HistoryFault ==
  ASSUME TypeOK, Fault
  PROVE  HistoryInv'
BY FaultIs DEF HistoryInv

LEMMA RouteProjectHistory ==
  ASSUME BaseInv, HistoryInv, NEW i, RouteProject(i)
  PROVE  HistoryInv'
<1>1. /\ i \in DOMAIN calls /\ calls[i].kind = "route" /\ calls[i].step = "project"
      /\ UNCHANGED <<server, route, shown, refs, clicks, faults, ghosts>>
      /\ \/ Dropped(i)
         \/ Moved(i) /\ calls'[i].step = "snapshot"
  BY RouteProjectStep DEF BaseInv
<1>2. Rest({i}, {})
  BY <1>1, DroppedRest, MovedRest DEF BaseInv
<1>3. i \in DOMAIN calls' => ~ FreshRefresh(calls'[i])
  BY <1>1 DEF Dropped, FreshRefresh
<1>4. ~ Refresher(calls[i], route)
  BY <1>1 DEF Refresher, Follows, FreshRefresh
<1> QED BY <1>1, <1>2, <1>3, <1>4, HistoryKept DEF shown, ghosts

LEMMA DropHistory ==
  ASSUME BaseInv, HistoryInv, NEW i \in DOMAIN calls, Dropped(i), ~ Refresher(calls[i], route),
         route' = route, history' = history, crossed' = crossed, faults' = faults
  PROVE  HistoryInv'
<1>1. Rest({i}, {}) /\ i \notin DOMAIN calls'
  BY DroppedRest DEF BaseInv, Dropped
<1> QED BY <1>1, HistoryKept

LEMMA MoveHistory ==
  ASSUME BaseInv, HistoryInv, NEW i \in DOMAIN calls, Moved(i), ~ Refresher(calls[i], route),
         calls'[i].step # "refresh",
         route' = route, history' = history, crossed' = crossed, faults' = faults
  PROVE  HistoryInv'
<1>1. Rest({i}, {}) /\ ~ FreshRefresh(calls'[i])
  BY MovedRest DEF BaseInv, FreshRefresh
<1> QED BY <1>1, HistoryKept

LEMMA RouteSnapshotHistory ==
  ASSUME BaseInv, HistoryInv, NEW i, RouteSnapshot(i)
  PROVE  HistoryInv'
<1>1. /\ i \in DOMAIN calls /\ calls[i].kind = "route" /\ calls[i].step = "snapshot" /\ Dropped(i)
      /\ UNCHANGED <<server, route, project, gen, history, turns, refs, clicks, faults, ghosts>>
  BY RouteSnapshotStep DEF BaseInv
<1>2. ~ Refresher(calls[i], route)
  BY <1>1 DEF Refresher, Follows, FreshRefresh
<1> QED BY <1>1, <1>2, DropHistory DEF ghosts

LEMMA CreateFailsHistory ==
  ASSUME BaseInv, HistoryInv, NEW i, CreateFails(i)
  PROVE  HistoryInv'
<1>1. /\ i \in DOMAIN calls /\ calls[i].kind = "submit" /\ calls[i].step \in {"chat", "create"}
      /\ Catch(i)
      /\ UNCHANGED <<chats, route, project, snapshot, history, pending, retrying, clicks, ghosts>>
      /\ faults' = faults \/ Fault
  BY CreateFailsStep DEF BaseInv
<1>2. ~ Refresher(calls[i], route)
  BY <1>1 DEF Refresher, Follows, FreshRefresh
<1>3. Dropped(i)
  BY <1>1, CatchStep DEF BaseInv
<1>4. CASE Fault
  BY <1>4, HistoryFault DEF BaseInv
<1>5. CASE faults' = faults
  BY <1>1, <1>2, <1>3, <1>5, DropHistory DEF ghosts
<1> QED BY <1>1, <1>4, <1>5

LEMMA AbortedHistory ==
  ASSUME BaseInv, HistoryInv, NEW i, Aborted(i)
  PROVE  HistoryInv'
<1>1. /\ i \in DOMAIN calls /\ calls[i].kind = "submit" /\ calls[i].step = "aborted" /\ Dropped(i)
      /\ UNCHANGED <<server, route, shown, pending, retrying, clicks, faults, ghosts>>
  BY AbortedStep DEF BaseInv
<1>2. ~ Refresher(calls[i], route)
  BY <1>1 DEF Refresher, Follows, FreshRefresh
<1> QED BY <1>1, <1>2, DropHistory DEF shown, ghosts

LEMMA LoadArrivesHistory ==
  ASSUME BaseInv, HistoryInv, NEW i, LoadArrives(i)
  PROVE  HistoryInv'
<1>1. /\ i \in DOMAIN calls /\ calls[i].step = "loaded" /\ LoadOver(i)
      /\ UNCHANGED <<server, route, project, gen, snapshot, history, pending, clicks, faults, ghosts>>
  BY LoadArrivesStep DEF BaseInv
<1>2. Dropped(i)
  BY <1>1, LoadOverStep DEF BaseInv
<1>3. ~ Refresher(calls[i], route)
  BY <1>1 DEF Refresher, Follows, FreshRefresh
<1> QED BY <1>1, <1>2, <1>3, DropHistory DEF ghosts

LEMMA SelectArrivesHistory ==
  ASSUME BaseInv, HistoryInv, NEW i, SelectArrives(i)
  PROVE  HistoryInv'
<1>1. /\ i \in DOMAIN calls /\ calls[i].kind = "select" /\ calls[i].step = "snapshot" /\ Dropped(i)
      /\ UNCHANGED <<server, route, project, gen, history, turns, refs, clicks, faults, ghosts>>
  BY SelectArrivesStep DEF BaseInv
<1>2. ~ Refresher(calls[i], route)
  BY <1>1 DEF Refresher, Follows, FreshRefresh
<1> QED BY <1>1, <1>2, DropHistory DEF ghosts

LEMMA MakeChatHistory ==
  ASSUME BaseInv, HistoryInv, NEW i, NEW c \in Chats, MakeChat(i, c)
  PROVE  HistoryInv'
<1>1. /\ i \in DOMAIN calls /\ calls[i].kind = "submit" /\ calls[i].step = "chat"
      /\ UNCHANGED <<home, status, route, shown, refs, clicks, faults, ghosts>>
      /\ Moved(i) /\ calls'[i].step = "create"
  BY MakeChatStep DEF BaseInv
<1>2. ~ Refresher(calls[i], route)
  BY <1>1 DEF Refresher, Follows, FreshRefresh
<1> QED BY <1>1, <1>2, MoveHistory DEF shown, ghosts

LEMMA RetryMadeHistory ==
  ASSUME BaseInv, HistoryInv, NEW i, NEW r \in Runs, RetryMade(i, r)
  PROVE  HistoryInv'
<1>1. /\ i \in DOMAIN calls /\ calls[i].kind = "retry" /\ calls[i].step = "create"
      /\ UNCHANGED <<chats, route, project, gen, snapshot, history, refs, clicks, faults, ghosts>>
      /\ Moved(i) /\ calls'[i].step = "monitor"
  BY RetryMadeStep DEF BaseInv
<1>2. ~ Refresher(calls[i], route)
  BY <1>1 DEF Refresher, Follows, FreshRefresh
<1> QED BY <1>1, <1>2, MoveHistory DEF ghosts

LEMMA RetryEventHistory ==
  ASSUME BaseInv, HistoryInv, NEW i, RetryEvent(i)
  PROVE  HistoryInv'
<1>1. /\ i \in DOMAIN calls /\ calls[i].kind = "retry" /\ calls[i].step = "monitor"
      /\ UNCHANGED <<server, route, project, gen, snapshot, history, refs, clicks, faults, ghosts>>
      /\ Moved(i) /\ calls'[i].step = "detail"
  BY RetryEventStep DEF BaseInv
<1>2. ~ Refresher(calls[i], route)
  BY <1>1 DEF Refresher, Follows, FreshRefresh
<1> QED BY <1>1, <1>2, MoveHistory DEF ghosts

LEMMA LoadAnsweredHistory ==
  ASSUME BaseInv, HistoryInv, NEW i, LoadAnswered(i)
  PROVE  HistoryInv'
<1>1. /\ i \in DOMAIN calls /\ calls[i].step = "page"
      /\ UNCHANGED <<server, route, shown, refs, clicks, faults, ghosts>>
      /\ Moved(i) /\ calls'[i].step = "loaded"
  BY LoadAnsweredStep DEF BaseInv
<1>2. ~ Refresher(calls[i], route)
  BY <1>1 DEF Refresher, Follows, FreshRefresh
<1> QED BY <1>1, <1>2, MoveHistory DEF shown, ghosts

LEMMA MonitorEventHistory ==
  ASSUME BaseInv, HistoryInv, NEW i, MonitorEvent(i)
  PROVE  HistoryInv'
<1>1. /\ i \in DOMAIN calls /\ calls[i].kind = "submit"
      /\ Moved(i) /\ SameCall(calls[i], calls'[i]) /\ calls'[i].step = "detail"
  BY MonitorEventStep DEF BaseInv
<1>2. i \in DOMAIN calls' /\ Refresher(calls'[i], route')
  BY <1>1 DEF Moved, SameCall, Refresher, Follows
<1> QED BY <1>2, HistoryBy

LEMMA MonitorReturnsHistory ==
  ASSUME BaseInv, OpenInv, HistoryInv, NEW i, MonitorReturns(i)
  PROVE  HistoryInv'
<1>1. /\ i \in DOMAIN calls /\ calls[i].kind = "submit" /\ calls[i].step = "detail"
      /\ UNCHANGED <<server, route, project, history, turns, refs, clicks, faults, ghosts>>
      /\ Refreshed(i)
  BY MonitorReturnsStep DEF BaseInv
<1> SUFFICES ASSUME ~crossed PROVE HistoryInv'
  BY <1>1 DEF HistoryInv, ghosts
<1>2. calls[i].project = route
  BY <1>1 DEF OpenInv, OpenCall, Follows
<1>3. i \in DOMAIN calls' /\ Refresher(calls'[i], route')
  BY <1>1, <1>2 DEF Refreshed, SameCall, Refresher, FreshRefresh
<1> QED BY <1>3, HistoryBy

LEMMA RouteChatHistory ==
  ASSUME BaseInv, OpenInv, HistoryInv, NEW i, RouteChat(i)
  PROVE  HistoryInv'
<1>1. /\ i \in DOMAIN calls /\ calls[i].kind = "route" /\ calls[i].step = "chat"
      /\ UNCHANGED <<server, route, gen, snapshot, history, turns, refs, clicks, faults, ghosts>>
      /\ ~ calls[i].live => calls' = Drop(calls, i)
      /\ calls[i].live =>
           /\ i \in DOMAIN calls' /\ calls'[i].project = calls[i].chat
           /\ calls'[i].step = "refresh" /\ calls'[i].fresh
  BY RouteChatStep DEF BaseInv
<1>2. CASE ~ calls[i].live
  <2>1. Dropped(i) /\ ~ Refresher(calls[i], route)
    BY <1>1, <1>2, DropIs DEF Refresher, Follows, FreshRefresh
  <2> QED BY <1>1, <2>1, DropHistory DEF ghosts
<1>3. CASE calls[i].live
  <2> SUFFICES ASSUME ~crossed PROVE HistoryInv'
    BY <1>1 DEF HistoryInv, ghosts
  <2>1. calls[i].chat = route
    BY <1>1, <1>3 DEF OpenInv, OpenCall
  <2>2. i \in DOMAIN calls' /\ Refresher(calls'[i], route')
    BY <1>1, <1>3, <2>1 DEF Refresher, FreshRefresh
  <2> QED BY <2>2, HistoryBy
<1> QED BY <1>2, <1>3

LEMMA RefreshArrivesHistory ==
  ASSUME BaseInv, HistoryInv, NEW i, RefreshArrives(i)
  PROVE  HistoryInv'
<1>1. /\ i \in DOMAIN calls /\ calls[i].step = "refresh"
      /\ history' = IF calls[i].fresh THEN calls[i].project ELSE history
      /\ UNCHANGED <<server, route, project, gen, snapshot, turns, inFlight, pending,
                     clicks, faults, ghosts>>
      /\ \/ Moved(i) /\ calls'[i].step = "project"
         \/ Dropped(i)
         \/ Reloaded(i)
  BY RefreshArrivesStep DEF BaseInv
<1>2. i \in DOMAIN calls' => ~ FreshRefresh(calls'[i])
  BY <1>1 DEF Dropped, Reloaded, FreshRefresh
<1>3. PICK W \in {{}, Loads} : Rest({i}, W)
  BY <1>1, DroppedRest, MovedRest DEF BaseInv, Reloaded
<1>4. "leave" \notin W /\ "refresh" \notin W /\ "abort" \notin W
  BY DEF Loads
<1>5. crossed' = crossed
  BY <1>1 DEF ghosts
<1>6. CASE ~ calls[i].fresh
  <2>1. ~ Refresher(calls[i], route)
    BY <1>1, <1>6 DEF Refresher, Follows, FreshRefresh
  <2> QED BY <1>1, <1>2, <1>3, <1>4, <1>5, <1>6, <2>1, HistoryKept
<1>7. CASE calls[i].fresh
  <2>1. FreshRefresh(calls[i]) /\ history' = calls[i].project
    BY <1>1, <1>7 DEF FreshRefresh
  <2>2. ASSUME NEW j \in DOMAIN calls' PROVE ~ FreshRefresh(calls'[j])
    <3>1. ASSUME j # i, FreshRefresh(calls'[j]) PROVE FALSE
      <4>1. j \in DOMAIN calls /\ Faded(calls[j], calls'[j], W)
        BY <1>3, <3>1 DEF Rest
      <4>2. FreshRefresh(calls[j])
        BY <3>1, <4>1, FadedLess
      <4> QED BY <1>1, <2>1, <3>1, <4>1, <4>2 DEF BaseInv, CallInv, OneOfEach
    <3> QED BY <1>2, <3>1
  <2> SUFFICES ASSUME ~crossed, faults = 0, route # None, calls[i].project # route
               PROVE  \E j \in DOMAIN calls' : Refresher(calls'[j], route')
    BY <1>1, <1>5, <2>1, <2>2 DEF HistoryInv, Astray
  <2>3. PICK j \in DOMAIN calls : Refresher(calls[j], route)
    BY <1>1, <2>1 DEF HistoryInv, Astray
  <2>4. ~ Refresher(calls[i], route)
    BY <1>1 DEF Refresher, Follows
  <2>5. j \in DOMAIN calls' /\ Faded(calls[j], calls'[j], W)
    BY <1>3, <2>3, <2>4 DEF Rest
  <2> QED BY <1>1, <1>4, <2>3, <2>5, RefresherKept
<1> QED BY <1>6, <1>7

LEMMA CancelAnsweredHistory ==
  ASSUME BaseInv, OpenInv, HistoryInv, NEW i, CancelAnswered(i)
  PROVE  HistoryInv'
<1>1. /\ i \in DOMAIN calls /\ calls[i].kind = "cancel" /\ calls[i].step = "reply"
      /\ UNCHANGED <<chats, home, route, project, snapshot, history, turns, refs, clicks, faults, ghosts>>
      /\ \/ calls[i].project # None /\ Refreshed(i)
         \/ calls[i].project = None /\ Reloaded(i)
         \/ calls[i].project = None /\ Dropped(i)
  BY CancelAnsweredStep DEF BaseInv
<1>2. crossed' = crossed
  BY <1>1 DEF ghosts
<1> SUFFICES ASSUME ~crossed PROVE HistoryInv'
  BY <1>2 DEF HistoryInv
<1>3. calls[i].project = None => ~ Refresher(calls[i], route)
  BY <1>1 DEF Refresher, Follows, FreshRefresh
<1>4. CASE calls[i].project # None /\ Refreshed(i)
  <2>1. calls[i].project = route
    BY <1>1, <1>4 DEF OpenInv, OpenCall
  <2>2. i \in DOMAIN calls' /\ Refresher(calls'[i], route')
    BY <1>1, <1>4, <2>1 DEF Refreshed, SameCall, Refresher, FreshRefresh
  <2> QED BY <2>2, HistoryBy
<1>5. CASE calls[i].project = None /\ Reloaded(i)
  <2>1. Rest({i}, Loads) /\ ~ FreshRefresh(calls'[i])
    BY <1>5 DEF Reloaded, FreshRefresh
  <2>2. "leave" \notin Loads /\ "refresh" \notin Loads /\ "abort" \notin Loads
    BY DEF Loads
  <2> QED BY <1>1, <1>2, <1>3, <1>5, <2>1, <2>2, HistoryKept
<1>6. CASE calls[i].project = None /\ Dropped(i)
  BY <1>1, <1>2, <1>3, <1>6, DropHistory
<1> QED BY <1>1, <1>4, <1>5, <1>6

LEMMA RetryReturnsHistory ==
  ASSUME BaseInv, OpenInv, HistoryInv, NEW i, RetryReturns(i)
  PROVE  HistoryInv'
<1>1. /\ i \in DOMAIN calls /\ calls[i].kind = "retry"
      /\ UNCHANGED <<server, route, shown, refs, clicks, faults, ghosts>>
      /\ i \in DOMAIN calls'
      /\ SameCall(calls[i], calls'[i]) /\ calls'[i].step = "refresh" /\ calls'[i].fresh
  BY RetryReturnsStep DEF BaseInv
<1> SUFFICES ASSUME ~crossed PROVE HistoryInv'
  BY <1>1 DEF HistoryInv, ghosts
<1>2. calls[i].project = route
  BY <1>1 DEF OpenInv, OpenCall
<1>3. Refresher(calls'[i], route')
  BY <1>1, <1>2 DEF SameCall, Refresher, FreshRefresh
<1> QED BY <1>1, <1>3, HistoryBy

LEMMA CreateRunHistory ==
  ASSUME BaseInv, HistoryInv, NEW i, NEW r \in Runs, CreateRun(i, r)
  PROVE  HistoryInv'
<1>1. /\ i \in DOMAIN calls /\ calls[i].kind = "submit" /\ calls[i].step = "create"
      /\ UNCHANGED <<chats, inFlight, retrying, clicks, faults, raced>>
      /\ \/ ~calls[i].live /\ Dropped(i) /\ UNCHANGED <<route, shown, pending, crossed>>
         \/ calls[i].live /\ i \in DOMAIN calls' /\ calls'[i].step = "monitor"
  BY CreateRunStep DEF BaseInv
<1>2. CASE ~calls[i].live
  <2>1. ~ Refresher(calls[i], route)
    BY <1>1 DEF Refresher, Follows, FreshRefresh
  <2> QED BY <1>1, <1>2, <2>1, DropHistory DEF shown
<1>3. CASE calls[i].live
  <2>1. calls'[i].kind = "submit"
    BY <1>3, CreateRunLive DEF BaseInv
  <2>2. i \in DOMAIN calls' /\ Refresher(calls'[i], route')
    BY <1>1, <1>3, <2>1 DEF Refresher, Follows
  <2> QED BY <2>2, HistoryBy
<1> QED BY <1>2, <1>3

LEMMA CancelHistory ==
  ASSUME BaseInv, OpenInv, HistoryInv, Cancel
  PROVE  HistoryInv'
<1>0. PICK n : n = Free
  OBVIOUS
<1>1. /\ UNCHANGED <<server, route, shown, refs, faults, ghosts>>
      /\ Rest({n}, {"abort"}) /\ n \in DOMAIN calls' /\ n \notin DOMAIN calls
      /\ IsNew(calls'[n], "cancel", "reply", route, project, gen.run)
  BY <1>0, CancelStep DEF BaseInv
<1>2. CASE project # None
  <2>1. Refresher(calls'[n], route')
    BY <1>1, <1>2 DEF Refresher, IsNew
  <2> QED BY <1>1, <2>1, HistoryBy
<1>3. CASE project = None
  <2>1. crossed' = crossed /\ route' = route /\ history' = history
    BY <1>1 DEF ghosts, shown
  <2> SUFFICES ASSUME ~crossed, route # None PROVE HistoryInv'
    BY <2>1 DEF HistoryInv
  <2>2. \A j \in DOMAIN calls : ~ Follows(calls[j])
    BY <1>3 DEF OpenInv, OpenCall
  <2>3. ~ FreshRefresh(calls'[n])
    BY <1>1 DEF IsNew, FreshRefresh
  <2> QED BY <1>1, <2>1, <2>2, <2>3, HistoryKept
<1> QED BY <1>2, <1>3

\* A call is added that is no refresh.
LEMMA AddHistory ==
  ASSUME HistoryInv, NEW n, NEW W \in {{}, Loads, {"forget"}}, Rest({n}, W),
         n \notin DOMAIN calls, calls'[n].step # "refresh",
         route' = route, history' = history, crossed' = crossed, faults' = faults
  PROVE  HistoryInv'
<1>1. "leave" \notin W /\ "refresh" \notin W /\ "abort" \notin W
  BY DEF Loads
<1>2. ~ FreshRefresh(calls'[n])
  BY DEF FreshRefresh
<1> QED BY <1>1, <1>2, HistoryKept

LEMMA SelectSnapshotHistory ==
  ASSUME BaseInv, HistoryInv, NEW r \in Runs, SelectSnapshot(r)
  PROVE  HistoryInv'
<1>0. PICK n : n = Free
  OBVIOUS
<1>1. /\ UNCHANGED <<server, route, shown, refs, faults, ghosts>>
      /\ Rest({n}, {}) /\ n \notin DOMAIN calls /\ calls'[n].step = "snapshot"
  BY <1>0, SelectSnapshotStep DEF BaseInv, IsNew
<1> QED BY <1>1, AddHistory DEF shown, ghosts

LEMMA RetryValidationHistory ==
  ASSUME BaseInv, HistoryInv, NEW r \in Runs, RetryValidation(r)
  PROVE  HistoryInv'
<1>0. PICK n : n = Free
  OBVIOUS
<1>1. /\ UNCHANGED <<server, route, shown, inFlight, pending, faults, ghosts>>
      /\ Rest({n}, {}) /\ n \notin DOMAIN calls /\ calls'[n].step = "create"
  BY <1>0, RetryValidationStep DEF BaseInv, IsNew
<1> QED BY <1>1, AddHistory DEF shown, ghosts

LEMMA LoadOlderHistory ==
  ASSUME BaseInv, HistoryInv, LoadOlder
  PROVE  HistoryInv'
<1>0. PICK n : n = Free
  OBVIOUS
<1>1. /\ UNCHANGED <<server, route, shown, refs, faults, crossed>>
      /\ Rest({n}, Loads) /\ n \notin DOMAIN calls /\ calls'[n].step = "page"
  BY <1>0, LoadOlderStep DEF BaseInv
<1> QED BY <1>1, AddHistory DEF shown

LEMMA SubmitHistory ==
  ASSUME BaseInv, HistoryInv, Submit
  PROVE  HistoryInv'
<1>0. PICK n : n = Free
  OBVIOUS
<1>1. /\ UNCHANGED <<server, route, project, snapshot, history, turns, pending,
                     retrying, faults, ghosts>>
      /\ Rest({n}, {"forget"}) /\ n \notin DOMAIN calls /\ calls'[n].step \in {"chat", "create"}
  BY <1>0, SubmitStep DEF BaseInv
<1> QED BY <1>1, AddHistory DEF ghosts

LEMMA NavigateHistory ==
  ASSUME BaseInv, OpenInv, HistoryInv, NEW c \in Chats \cup {None}, Navigate(c)
  PROVE  HistoryInv'
<1>0. PICK n : n = Free
  OBVIOUS
<1>1. /\ route' = c /\ (crossed => crossed')
      /\ \/ c # None /\ pending = c
         \/ Opened(c, {})
  BY NavigateStep DEF BaseInv
<1> SUFFICES ASSUME ~crossed, c # None PROVE HistoryInv'
  BY <1>1 DEF HistoryInv
<1>2. Opened(c, {})
  BY <1>1 DEF OpenInv, ShownOpen
<1>3. n \in DOMAIN calls' /\ IsNew(calls'[n], "route", "chat", c, None, NoRun)
  BY <1>0, <1>2 DEF Opened
<1>4. Refresher(calls'[n], route')
  BY <1>3 DEF IsNew, Refresher
<1> QED BY <1>3, <1>4, HistoryBy

LEMMA BackHomeHistory ==
  ASSUME BaseInv, HistoryInv, BackHome
  PROVE  HistoryInv'
<1>1. route' = None
  BY BackHomeStep DEF BaseInv
<1> QED BY <1>1 DEF HistoryInv

LEMMA RunEndsHistory ==
  ASSUME HistoryInv, NEW r, NEW s, RunEnds(r, s)
  PROVE  HistoryInv'
BY DEF HistoryInv, Astray, Refresher, Follows, FreshRefresh, RunEnds, shown, ghosts

LEMMA StutterHistory ==
  ASSUME HistoryInv, UNCHANGED vars
  PROVE  HistoryInv'
BY DEF HistoryInv, Astray, Refresher, Follows, FreshRefresh, vars, server, shown, refs, ghosts

LEMMA FailedHistory ==
  ASSUME BaseInv, HistoryInv, NEW i, Failed(i)
  PROVE  HistoryInv'
<1>1. CreateFails(i) \/ Fault
  BY DEF Failed, RouteFails, MonitorFails, RefreshFails, LoadFails, CancelFails, RetryFails
<1> QED BY <1>1, CreateFailsHistory, HistoryFault DEF BaseInv

LEMMA HistoryInit == Init => HistoryInv
BY DEF Init, HistoryInv

\* HistoryInv is inductive, relative to the two before.
LEMMA HistoryNext == BaseInv /\ OpenInv /\ HistoryInv /\ [Next]_vars => HistoryInv'
<1> SUFFICES ASSUME BaseInv, OpenInv, HistoryInv, [Next]_vars PROVE HistoryInv'
  OBVIOUS
<1>1. ASSUME UNCHANGED vars PROVE HistoryInv'
  BY <1>1, StutterHistory
<1>2. ASSUME User PROVE HistoryInv'
  BY <1>2, NavigateHistory, BackHomeHistory, SubmitHistory, LoadOlderHistory, CancelHistory,
     SelectSnapshotHistory, RetryValidationHistory DEF User
<1>3. ASSUME NEW i \in 1 .. MaxCalls, Answered(i) PROVE HistoryInv'
  BY <1>3, RouteChatHistory, RouteProjectHistory, RouteSnapshotHistory, MakeChatHistory,
     CreateRunHistory, RetryMadeHistory, MonitorEventHistory, MonitorReturnsHistory,
     AbortedHistory, RefreshArrivesHistory, LoadAnsweredHistory, LoadArrivesHistory,
     CancelAnsweredHistory, SelectArrivesHistory, RetryEventHistory, RetryReturnsHistory
  DEF Answered
<1>4. ASSUME NEW i \in 1 .. MaxCalls, Failed(i) PROVE HistoryInv'
  BY <1>4, FailedHistory
<1>5. ASSUME NEW r \in Runs, NEW s \in {"completed", "failed"}, RunEnds(r, s) PROVE HistoryInv'
  BY <1>5, RunEndsHistory
<1> QED BY <1>1, <1>2, <1>3, <1>4, <1>5 DEF Next

\* Once no call is under way and none failed, the list of runs and versions is
\* of the open chat: refreshRequestRef lets a late refresh of another one in
\* only while a refresh of this one is still to come.
THEOREM HistorySettlesDown == Spec => []HistorySettles
<1>1. HistoryInv => HistorySettles
  BY DEF HistoryInv, HistorySettles
<1> QED BY <1>1, BaseInit, BaseNext, OpenInit, OpenNext, HistoryInit, HistoryNext, PTL DEF Spec

-----------------------------------------------------------------------------
(***************************************************************************)
(* PanelInv: the panel ends as its run did, and an old page of the timeline *)
(* that says otherwise is replaced by a newer one.                         *)
(***************************************************************************)

\* A call that will end the running panel of run r.
Watches(k, r) ==
  /\ k.run = r
  /\ \/ k.kind = "submit" /\ k.step = "monitor"
     \/ k.kind = "cancel" /\ k.step = "reply"

\* An answer that shows run r active is about to be taken.
OldPage(k, r) == k.step = "loaded" /\ k.fresh /\ k.page[r] = "active"

\* A call that will load the newest turns again, or has read them after run r ended.
Reloader(k, r) ==
  \/ k.kind = "submit" /\ k.step = "detail"
  \/ k.kind \in {"submit", "cancel"} /\ k.step = "refresh"
  \/ FreshLoad(k) /\ ~k.older /\ ~OldPage(k, r)

\* The timeline says, or is about to say, that the run of the panel is active.
Stale == turns[gen.run] = "active" \/ \E i \in DOMAIN calls : OldPage(calls[i], gen.run)

\* A turn that shows an end shows the end its run had.
TurnsTrue == \A r \in Runs : turns[r] \in Ended => turns[r] = status[r]

\* So does a page under way; a run whose detail is awaited has ended.
Told(i) ==
  /\ calls[i].step = "loaded" =>
       \A r \in Runs : calls[i].page[r] \in Ended => calls[i].page[r] = status[r]
  /\ calls[i].kind = "submit" /\ calls[i].step = "detail" => status[calls[i].run] \in Ended

\* A panel that shows an end shows the end of its run.
PanelTrue ==
  gen.run \in Runs /\ gen.status # "running" =>
    status[gen.run] \in Ended /\ gen.status = Panel(status[gen.run])

\* A panel that runs is watched.
Watched ==
  gen.run \in Runs /\ gen.status = "running" =>
    \E i \in DOMAIN calls : Watches(calls[i], gen.run)

\* A timeline that contradicts the panel is going to be loaded again.
Corrected ==
  gen.run \in Runs /\ gen.status # "running" /\ Stale =>
    \E i \in DOMAIN calls : Reloader(calls[i], gen.run)

PanelInv ==
  ~crossed /\ faults = 0 =>
    /\ TurnsTrue /\ \A i \in DOMAIN calls : Told(i)
    /\ PanelTrue /\ Watched /\ (~raced => Corrected)

\* A run that was made and ended stays as it is.
EndsKept == \A r \in Runs : home[r] # None /\ status[r] \in Ended => status'[r] = status[r]

LEMMA EndsKeptIs ==
  ASSUME BaseInv
  PROVE  /\ UNCHANGED server => EndsKept
         /\ \A c \in Chats, r \in Runs : NewRun(c, r) => EndsKept
<1>1. UNCHANGED server => EndsKept
  BY DEF server, EndsKept
<1>2. ASSUME NEW c \in Chats, NEW r \in Runs, NewRun(c, r) PROVE EndsKept
  BY <1>2, MadeRun DEF EndsKept
<1> QED BY <1>1, <1>2

LEMMA ToldKept ==
  ASSUME BaseInv, \A i \in DOMAIN calls : Told(i), NEW X, NEW W, Rest(X, W), EndsKept
  PROVE  \A j \in DOMAIN calls' \ X : Told(j)'
<1> SUFFICES ASSUME NEW j \in DOMAIN calls' \ X PROVE Told(j)'
  OBVIOUS
<1>1. j \in DOMAIN calls /\ Faded(calls[j], calls'[j], W)
  BY DEF Rest
<1> DEFINE k == calls[j]
           d == calls'[j]
<1>2. d.kind = k.kind /\ d.run = k.run /\ d.page = k.page
      /\ (d.step = k.step \/ d.step = "aborted")
  BY <1>1 DEF Faded, SameCall
<1>3. Told(j) /\ Shaped(j)
  BY <1>1 DEF BaseInv, CallInv
<1>4. None \notin Ended
  BY WorkspaceAssumption DEF WorkspaceAssumption
<1>5. d.step = "loaded" => \A r \in Runs : d.page[r] \in Ended => d.page[r] = status'[r]
  <2>1. ASSUME d.step = "loaded", NEW r \in Runs, d.page[r] \in Ended PROVE d.page[r] = status'[r]
    <3>1. k.step = "loaded" /\ k.page[r] \in Ended
      BY <1>2, <2>1
    <3>2. k.page[r] = status[r] /\ home[r] # None
      BY <1>3, <1>4, <3>1 DEF Told, Shaped
    <3> QED BY <1>2, <3>1, <3>2 DEF EndsKept
  <2> QED BY <2>1
<1>6. d.kind = "submit" /\ d.step = "detail" => status'[d.run] \in Ended
  <2>1. ASSUME d.kind = "submit", d.step = "detail" PROVE status'[d.run] \in Ended
    <3>1. k.kind = "submit" /\ k.step = "detail"
      BY <1>2, <2>1
    <3>2. status[k.run] \in Ended /\ k.run \in Runs /\ home[k.run] # None
      BY <1>3, <3>1 DEF Told, Shaped, Follows
    <3> QED BY <1>2, <3>2 DEF EndsKept
  <2> QED BY <2>1
<1> QED BY <1>5, <1>6 DEF Told

LEMMA TurnsKept ==
  ASSUME BaseInv, TurnsTrue, EndsKept,
         \A r \in Runs : turns'[r] \in Ended => turns'[r] = turns[r] \/ turns'[r] = status'[r]
  PROVE  TurnsTrue'
<1>1. None \notin Ended
  BY WorkspaceAssumption DEF WorkspaceAssumption
<1>2. \A r \in Runs : turns[r] \in Ended => turns[r] = status[r] /\ home[r] # None
  BY <1>1 DEF TurnsTrue, BaseInv, ShownMade
<1> QED BY <1>2 DEF TurnsTrue, EndsKept

LEMMA PanelStays ==
  ASSUME BaseInv, PanelTrue, EndsKept, gen' = gen
  PROVE  PanelTrue'
<1>1. gen.run \in Runs => home[gen.run] # None
  BY DEF BaseInv, ShownMade
<1> QED BY <1>1 DEF PanelTrue, EndsKept

LEMMA WatchesFaded ==
  ASSUME NEW k, NEW d, NEW W, NEW r, Faded(k, d, W), "abort" \notin W
  PROVE  Watches(k, r) => Watches(d, r)
BY DEF Faded, SameCall, Watches

LEMMA WatchedKept ==
  ASSUME Watched, gen' = gen, NEW X, NEW W, Rest(X, W), "abort" \notin W,
         gen.run \in Runs => \A x \in X \cap DOMAIN calls : ~ Watches(calls[x], gen.run)
  PROVE  Watched'
<1> SUFFICES ASSUME gen.run \in Runs, gen.status = "running"
             PROVE  \E i \in DOMAIN calls' : Watches(calls'[i], gen.run)
  BY DEF Watched
<1>1. PICK i \in DOMAIN calls : Watches(calls[i], gen.run)
  BY DEF Watched
<1>2. i \in DOMAIN calls' /\ Faded(calls[i], calls'[i], W)
  BY <1>1 DEF Rest
<1> QED BY <1>1, <1>2, WatchesFaded

Newest(k) == FreshLoad(k) /\ ~k.older

LEMMA ReloaderFaded ==
  ASSUME NEW k, NEW d, NEW W, NEW r, Faded(k, d, W), "abort" \notin W,
         (Loads \cap W = {}) \/ ~ Newest(k)
  PROVE  Reloader(k, r) => Reloader(d, r)
<1>1. d.kind = k.kind /\ d.step = k.step /\ d.page = k.page /\ (d.older <=> k.older)
      /\ (d.fresh <=> k.fresh /\ k.step \notin W)
  BY DEF Faded, SameCall
<1>2. Newest(k) => Newest(d)
  BY <1>1 DEF Newest, FreshLoad
<1>3. OldPage(d, r) => OldPage(k, r)
  BY <1>1 DEF OldPage
<1> QED BY <1>1, <1>2, <1>3 DEF Reloader, Newest

LEMMA OldPageFaded ==
  ASSUME NEW k, NEW d, NEW W, NEW r, Faded(k, d, W)
  PROVE  OldPage(d, r) => OldPage(k, r)
<1>1. d.page = k.page /\ (d.fresh => k.fresh) /\ (d.step = "loaded" => k.step = "loaded")
  BY DEF Faded
<1> QED BY <1>1 DEF OldPage

LEMMA CorrectedKept ==
  ASSUME Corrected, gen' = gen, NEW X, NEW W, Rest(X, W), "abort" \notin W,
         Loads \cap W = {} \/ \A j \in DOMAIN calls : ~ Newest(calls[j]),
         gen.run \in Runs /\ gen.status # "running" /\ turns'[gen.run] = "active" => Stale,
         gen.run \in Runs /\ gen.status # "running" =>
           /\ \A x \in X \cap DOMAIN calls' : ~ OldPage(calls'[x], gen.run)
           /\ \A x \in X \cap DOMAIN calls : ~ Reloader(calls[x], gen.run)
  PROVE  Corrected'
<1> SUFFICES ASSUME gen.run \in Runs, gen.status # "running", Stale'
             PROVE  \E i \in DOMAIN calls' : Reloader(calls'[i], gen.run)
  BY DEF Corrected
<1>1. ASSUME NEW i \in DOMAIN calls', OldPage(calls'[i], gen.run) PROVE Stale
  <2>1. i \in DOMAIN calls /\ Faded(calls[i], calls'[i], W)
    BY <1>1 DEF Rest
  <2> QED BY <1>1, <2>1, OldPageFaded DEF Stale
<1>2. Stale
  BY <1>1 DEF Stale
<1>3. PICK i \in DOMAIN calls : Reloader(calls[i], gen.run)
  BY <1>2 DEF Corrected
<1>4. i \in DOMAIN calls' /\ Faded(calls[i], calls'[i], W)
  BY <1>3 DEF Rest
<1> QED BY <1>3, <1>4, ReloaderFaded

LEMMA CorrectedBy ==
  ASSUME gen'.run \in Runs => \E j \in DOMAIN calls' : Reloader(calls'[j], gen'.run)
  PROVE  Corrected'
BY DEF Corrected

\* A step of calls X that shows nothing new, ends no call that watches a run or
\* loads its end, and supersedes no load of the newest turns.
LEMMA PanelQuiet ==
  ASSUME BaseInv, PanelInv, NEW X, NEW W, Rest(X, W), EndsKept,
         gen' = gen, turns' = turns, faults' = faults, crossed' = crossed, raced' = raced,
         "abort" \notin W, Loads \cap W = {},
         \A x \in X \cap DOMAIN calls' :
           calls'[x].step # "loaded" /\ (calls'[x].kind = "submit" => calls'[x].step # "detail"),
         ~crossed => \A x \in X \cap DOMAIN calls :
           gen.run \in Runs => ~ Watches(calls[x], gen.run) /\ ~ Reloader(calls[x], gen.run)
  PROVE  PanelInv'
<1> SUFFICES ASSUME ~crossed, faults = 0 PROVE PanelInv'
  BY DEF PanelInv
<1>1. /\ TurnsTrue /\ \A i \in DOMAIN calls : Told(i)
      /\ PanelTrue /\ Watched /\ (~raced => Corrected)
  BY DEF PanelInv
<1>2. \A x \in X \cap DOMAIN calls' : Told(x)' /\ ~ OldPage(calls'[x], gen.run)
  BY DEF Told, OldPage
<1>3. \A i \in DOMAIN calls' : Told(i)'
  BY <1>1, <1>2, ToldKept
<1>4. TurnsTrue'
  BY <1>1, TurnsKept
<1>5. PanelTrue' /\ Watched'
  BY <1>1, PanelStays, WatchedKept
<1>6. Corrected => Corrected'
  BY <1>2, CorrectedKept DEF Stale
<1> QED BY <1>1, <1>3, <1>4, <1>5, <1>6 DEF PanelInv

\* Nothing is claimed once a call has failed.
LEMMA PanelFault ==
  ASSUME TypeOK, Fault
  PROVE  PanelInv'
BY FaultIs DEF PanelInv

LEMMA PanelDrop ==
  ASSUME BaseInv, PanelInv, NEW i \in DOMAIN calls, Dropped(i), EndsKept,
         gen' = gen, turns' = turns, faults' = faults, crossed' = crossed, raced' = raced,
         ~crossed /\ gen.run \in Runs => ~ Watches(calls[i], gen.run) /\ ~ Reloader(calls[i], gen.run)
  PROVE  PanelInv'
<1>1. Rest({i}, {}) /\ i \notin DOMAIN calls'
  BY DroppedRest DEF BaseInv, Dropped
<1> QED BY <1>1, PanelQuiet

LEMMA PanelMove ==
  ASSUME BaseInv, PanelInv, NEW i \in DOMAIN calls, Moved(i), EndsKept,
         gen' = gen, turns' = turns, faults' = faults, crossed' = crossed, raced' = raced,
         calls'[i].step \notin {"loaded", "detail"},
         gen.run \in Runs => ~ Watches(calls[i], gen.run) /\ ~ Reloader(calls[i], gen.run)
  PROVE  PanelInv'
<1>1. Rest({i}, {})
  BY MovedRest DEF BaseInv
<1> QED BY <1>1, PanelQuiet

LEMMA RouteProjectPanel ==
  ASSUME BaseInv, PanelInv, NEW i, RouteProject(i)
  PROVE  PanelInv'
<1>1. /\ i \in DOMAIN calls /\ calls[i].kind = "route" /\ calls[i].step = "project"
      /\ UNCHANGED <<server, route, shown, refs, clicks, faults, ghosts>>
      /\ \/ Dropped(i)
         \/ Moved(i) /\ calls'[i].step = "snapshot"
  BY RouteProjectStep DEF BaseInv
<1>2. ~ Watches(calls[i], gen.run) /\ ~ Reloader(calls[i], gen.run)
  BY <1>1 DEF Watches, Reloader, FreshLoad, Loads
<1>3. EndsKept
  BY <1>1, EndsKeptIs
<1> QED BY <1>1, <1>2, <1>3, PanelDrop, PanelMove DEF shown, ghosts

LEMMA RouteSnapshotPanel ==
  ASSUME BaseInv, PanelInv, NEW i, RouteSnapshot(i)
  PROVE  PanelInv'
<1>1. /\ i \in DOMAIN calls /\ calls[i].kind = "route" /\ calls[i].step = "snapshot" /\ Dropped(i)
      /\ UNCHANGED <<server, route, project, gen, history, turns, refs, clicks, faults, ghosts>>
  BY RouteSnapshotStep DEF BaseInv
<1>2. ~ Watches(calls[i], gen.run) /\ ~ Reloader(calls[i], gen.run)
  BY <1>1 DEF Watches, Reloader, FreshLoad, Loads
<1>3. EndsKept
  BY <1>1, EndsKeptIs
<1> QED BY <1>1, <1>2, <1>3, PanelDrop DEF ghosts

LEMMA AbortedPanel ==
  ASSUME BaseInv, PanelInv, NEW i, Aborted(i)
  PROVE  PanelInv'
<1>1. /\ i \in DOMAIN calls /\ calls[i].kind = "submit" /\ calls[i].step = "aborted" /\ Dropped(i)
      /\ UNCHANGED <<server, route, shown, pending, retrying, clicks, faults, ghosts>>
  BY AbortedStep DEF BaseInv
<1>2. ~ Watches(calls[i], gen.run) /\ ~ Reloader(calls[i], gen.run)
  BY <1>1 DEF Watches, Reloader, FreshLoad, Loads
<1>3. EndsKept
  BY <1>1, EndsKeptIs
<1> QED BY <1>1, <1>2, <1>3, PanelDrop DEF shown, ghosts

LEMMA SelectArrivesPanel ==
  ASSUME BaseInv, PanelInv, NEW i, SelectArrives(i)
  PROVE  PanelInv'
<1>1. /\ i \in DOMAIN calls /\ calls[i].kind = "select" /\ calls[i].step = "snapshot" /\ Dropped(i)
      /\ UNCHANGED <<server, route, project, gen, history, turns, refs, clicks, faults, ghosts>>
  BY SelectArrivesStep DEF BaseInv
<1>2. ~ Watches(calls[i], gen.run) /\ ~ Reloader(calls[i], gen.run)
  BY <1>1 DEF Watches, Reloader, FreshLoad, Loads
<1>3. EndsKept
  BY <1>1, EndsKeptIs
<1> QED BY <1>1, <1>2, <1>3, PanelDrop DEF ghosts

LEMMA MakeChatPanel ==
  ASSUME BaseInv, PanelInv, NEW i, NEW c \in Chats, MakeChat(i, c)
  PROVE  PanelInv'
<1>1. /\ i \in DOMAIN calls /\ calls[i].kind = "submit" /\ calls[i].step = "chat"
      /\ UNCHANGED <<home, status, route, shown, refs, clicks, faults, ghosts>>
      /\ Moved(i) /\ calls'[i].step = "create"
  BY MakeChatStep DEF BaseInv
<1>2. ~ Watches(calls[i], gen.run) /\ ~ Reloader(calls[i], gen.run)
  BY <1>1 DEF Watches, Reloader, FreshLoad, Loads
<1>3. EndsKept
  BY <1>1 DEF EndsKept
<1> QED BY <1>1, <1>2, <1>3, PanelMove DEF shown, ghosts

LEMMA CreateFailsPanel ==
  ASSUME BaseInv, OpenInv, PanelInv, NEW i, CreateFails(i)
  PROVE  PanelInv'
<1>1. /\ i \in DOMAIN calls /\ calls[i].kind = "submit" /\ calls[i].step \in {"chat", "create"}
      /\ Catch(i)
      /\ UNCHANGED <<chats, route, project, snapshot, history, pending, retrying, clicks, ghosts>>
      /\ UNCHANGED <<home, status, faults>> \/ Fault
  BY CreateFailsStep DEF BaseInv
<1>2. CASE Fault
  BY <1>2, PanelFault DEF BaseInv
<1>3. CASE UNCHANGED <<home, status, faults>>
  <2>1. crossed' = crossed /\ raced' = raced /\ EndsKept
    BY <1>1, <1>3 DEF ghosts, EndsKept
  <2> SUFFICES ASSUME ~crossed, faults = 0 PROVE PanelInv'
    BY <1>3, <2>1 DEF PanelInv
  <2>2. ~ Watches(calls[i], gen.run) /\ ~ Reloader(calls[i], gen.run)
    BY <1>1 DEF Watches, Reloader, FreshLoad, Loads
  <2>3. /\ gen'.run = gen.run /\ Dropped(i)
        /\ calls[i].run = NoRun => turns' = turns
        /\ ~calls[i].live => gen' = gen /\ turns' = turns
    BY <1>1, CatchStep DEF BaseInv
  <2>4. CASE ~calls[i].live
    BY <1>1, <1>3, <2>1, <2>2, <2>3, <2>4, PanelDrop
  <2>5. CASE calls[i].live
    <3>1. gen.run = PendingRun /\ calls[i].run = NoRun
      BY <1>1, <2>5 DEF OpenInv, OpenCall, LiveAsked
    <3>2. gen'.run \notin Runs /\ turns' = turns
      BY <2>3, <3>1, WorkspaceAssumption DEF WorkspaceAssumption, Runs, PendingRun
    <3>3. TurnsTrue /\ \A j \in DOMAIN calls : Told(j)
      BY DEF PanelInv
    <3>4. Rest({i}, {}) /\ i \notin DOMAIN calls'
      BY <2>3, DroppedRest DEF BaseInv, Dropped
    <3>5. TurnsTrue' /\ \A j \in DOMAIN calls' : Told(j)'
      BY <2>1, <3>2, <3>3, <3>4, ToldKept, TurnsKept
    <3> QED BY <3>2, <3>5 DEF PanelInv, PanelTrue, Watched, Corrected
  <2> QED BY <2>4, <2>5
<1> QED BY <1>1, <1>2, <1>3

LEMMA FailedPanel ==
  ASSUME BaseInv, OpenInv, PanelInv, NEW i, Failed(i)
  PROVE  PanelInv'
<1>1. CreateFails(i) \/ Fault
  BY DEF Failed, RouteFails, MonitorFails, RefreshFails, LoadFails, CancelFails, RetryFails
<1> QED BY <1>1, CreateFailsPanel, PanelFault DEF BaseInv

\* A step after which the newest turns are loaded again, or their load was superseded.
LEMMA PanelReloads ==
  ASSUME BaseInv, PanelInv, ~crossed, faults = 0, NEW X, NEW W, Rest(X, W), EndsKept,
         gen' = gen, \A r \in Runs : turns'[r] \in Ended => turns'[r] = turns[r] \/ turns'[r] = status'[r],
         "abort" \notin W,
         \A x \in X \cap DOMAIN calls' : Told(x)',
         gen.run \in Runs => \A x \in X \cap DOMAIN calls : ~ Watches(calls[x], gen.run),
         ~raced' => Corrected'
  PROVE  PanelInv'
<1>1. /\ TurnsTrue /\ \A i \in DOMAIN calls : Told(i)
      /\ PanelTrue /\ Watched
  BY DEF PanelInv
<1>2. \A i \in DOMAIN calls' : Told(i)'
  BY <1>1, ToldKept
<1>3. TurnsTrue'
  BY <1>1, TurnsKept
<1>4. PanelTrue' /\ Watched'
  BY <1>1, PanelStays, WatchedKept
<1> QED BY <1>2, <1>3, <1>4 DEF PanelInv

LEMMA RouteChatPanel ==
  ASSUME BaseInv, PanelInv, NEW i, RouteChat(i)
  PROVE  PanelInv'
<1>0. PICK n : n = Free
  OBVIOUS
<1>1. /\ i \in DOMAIN calls /\ calls[i].kind = "route" /\ calls[i].step = "chat"
      /\ UNCHANGED <<server, route, gen, snapshot, history, turns, refs, clicks, faults, ghosts>>
      /\ ~ calls[i].live => calls' = Drop(calls, i)
      /\ calls[i].live =>
           /\ Rest({i, n}, Loads \cup Refreshes)
           /\ n \in DOMAIN calls' /\ n \notin DOMAIN calls
           /\ calls'[i].step = "refresh"
           /\ calls'[n].step = "page" /\ calls'[n].fresh /\ ~calls'[n].older
  BY <1>0, RouteChatStep DEF BaseInv
<1>2. ~ Watches(calls[i], gen.run) /\ ~ Reloader(calls[i], gen.run)
  BY <1>1 DEF Watches, Reloader, FreshLoad, Loads
<1>3. EndsKept /\ crossed' = crossed /\ raced' = raced
  BY <1>1, EndsKeptIs DEF ghosts
<1>4. CASE ~ calls[i].live
  <2>1. Dropped(i)
    BY <1>1, <1>4, DropIs
  <2> QED BY <1>1, <1>2, <1>3, <2>1, PanelDrop
<1>5. CASE calls[i].live
  <2> SUFFICES ASSUME ~crossed, faults = 0 PROVE PanelInv'
    BY <1>1, <1>3 DEF PanelInv
  <2>1. n \in DOMAIN calls' /\ Reloader(calls'[n], gen'.run)
    BY <1>1, <1>5 DEF Reloader, FreshLoad, Loads, OldPage
  <2>2. Corrected'
    BY <2>1, CorrectedBy
  <2>3. Told(i)' /\ Told(n)'
    BY <1>1, <1>5 DEF Told
  <2>4. "abort" \notin Loads \cup Refreshes
    BY DEF Loads, Refreshes
  <2> QED BY <1>1, <1>2, <1>3, <1>5, <2>2, <2>3, <2>4, PanelReloads
<1> QED BY <1>4, <1>5

LEMMA RefreshArrivesPanel ==
  ASSUME BaseInv, PanelInv, NEW i, RefreshArrives(i)
  PROVE  PanelInv'
<1>1. /\ i \in DOMAIN calls /\ calls[i].step = "refresh"
      /\ UNCHANGED <<server, route, project, gen, snapshot, turns, inFlight, pending,
                     clicks, faults, ghosts>>
      /\ \/ calls[i].kind = "route" /\ Moved(i) /\ calls'[i].step = "project"
         \/ calls[i].kind = "retry" /\ Dropped(i)
         \/ calls[i].kind \notin {"route", "retry"} /\ Reloaded(i)
  BY RefreshArrivesStep DEF BaseInv
<1>2. EndsKept /\ crossed' = crossed /\ raced' = raced
  BY <1>1, EndsKeptIs DEF ghosts
<1>3. ~ Watches(calls[i], gen.run)
  BY <1>1 DEF Watches
<1>4. CASE calls[i].kind \in {"route", "retry"}
  <2>1. ~ Reloader(calls[i], gen.run)
    BY <1>1, <1>4 DEF Reloader, FreshLoad, Loads
  <2> QED BY <1>1, <1>2, <1>3, <1>4, <2>1, PanelDrop, PanelMove
<1>5. CASE calls[i].kind \notin {"route", "retry"}
  <2> SUFFICES ASSUME ~crossed, faults = 0 PROVE PanelInv'
    BY <1>1, <1>2 DEF PanelInv
  <2>1. Reloaded(i) /\ Shaped(i)
    BY <1>1, <1>5 DEF BaseInv, CallInv
  <2>2. i \in DOMAIN calls' /\ Reloader(calls'[i], gen'.run)
    BY <1>1, <2>1 DEF Reloaded, SameCall, Shaped, Reloader, FreshLoad, Loads, OldPage
  <2>3. Corrected'
    BY <2>2, CorrectedBy
  <2>4. Told(i)' /\ Rest({i}, Loads) /\ "abort" \notin Loads
    BY <2>1 DEF Told, Reloaded, Loads
  <2> QED BY <1>1, <1>2, <1>3, <2>3, <2>4, PanelReloads
<1> QED BY <1>4, <1>5

LEMMA RetryReturnsPanel ==
  ASSUME BaseInv, PanelInv, NEW i, RetryReturns(i)
  PROVE  PanelInv'
<1>0. PICK n : n = Free
  OBVIOUS
<1>1. /\ i \in DOMAIN calls /\ calls[i].kind = "retry" /\ calls[i].step = "detail"
      /\ UNCHANGED <<server, route, shown, refs, clicks, faults, ghosts>>
      /\ Rest({i, n}, Refreshes \cup Loads)
      /\ n \in DOMAIN calls' /\ n \notin DOMAIN calls
      /\ calls'[i].step = "refresh"
      /\ SameCall(calls[i], calls'[n]) /\ calls'[n].step = "page" /\ calls'[n].fresh
  BY <1>0, RetryReturnsStep DEF BaseInv
<1>2. EndsKept /\ crossed' = crossed /\ raced' = raced /\ Shaped(i)
  BY <1>1, EndsKeptIs DEF ghosts, BaseInv, CallInv
<1> SUFFICES ASSUME ~crossed, faults = 0 PROVE PanelInv'
  BY <1>1, <1>2 DEF PanelInv
<1>3. Reloader(calls'[n], gen'.run)
  BY <1>1, <1>2 DEF SameCall, Shaped, Reloader, FreshLoad, Loads, OldPage
<1>4. Corrected'
  BY <1>1, <1>3, CorrectedBy
<1>5. Told(i)' /\ Told(n)'
  BY <1>1 DEF Told
<1>6. "abort" \notin Refreshes \cup Loads /\ ~ Watches(calls[i], gen.run)
  BY <1>1 DEF Loads, Refreshes, Watches
<1> QED BY <1>1, <1>2, <1>4, <1>5, <1>6, PanelReloads DEF shown

LEMMA LoadOlderPanel ==
  ASSUME BaseInv, PanelInv, LoadOlder
  PROVE  PanelInv'
<1>0. PICK n : n = Free
  OBVIOUS
<1>1. /\ raced' = (raced \/ \E j \in DOMAIN calls : FreshLoad(calls[j]) /\ ~calls[j].older)
      /\ UNCHANGED <<server, route, shown, refs, faults, crossed>>
      /\ Rest({n}, Loads) /\ n \in DOMAIN calls' /\ n \notin DOMAIN calls
      /\ calls'[n].step = "page"
  BY <1>0, LoadOlderStep DEF BaseInv
<1>2. EndsKept
  BY <1>1, EndsKeptIs
<1> SUFFICES ASSUME ~crossed, faults = 0 PROVE PanelInv'
  BY <1>1 DEF PanelInv
<1>3. "abort" \notin Loads
  BY DEF Loads
<1>4. gen' = gen /\ turns' = turns
  BY <1>1 DEF shown
<1>5. Told(n)' /\ ~ OldPage(calls'[n], gen.run)
  BY <1>1 DEF Told, OldPage
<1>6. ASSUME ~raced' PROVE Corrected'
  <2>1. ~raced /\ \A j \in DOMAIN calls : ~ Newest(calls[j])
    BY <1>1, <1>6 DEF Newest
  <2>2. Corrected
    BY <2>1 DEF PanelInv
  <2> QED BY <1>1, <1>3, <1>4, <1>5, <2>1, <2>2, CorrectedKept DEF Stale
<1> QED BY <1>1, <1>2, <1>3, <1>4, <1>5, <1>6, PanelReloads

LEMMA SelectSnapshotPanel ==
  ASSUME BaseInv, PanelInv, NEW r \in Runs, SelectSnapshot(r)
  PROVE  PanelInv'
<1>0. PICK n : n = Free
  OBVIOUS
<1>1. /\ UNCHANGED <<server, route, shown, refs, faults, ghosts>>
      /\ Rest({n}, {}) /\ n \notin DOMAIN calls /\ calls'[n].step = "snapshot"
  BY <1>0, SelectSnapshotStep DEF BaseInv, IsNew
<1>2. EndsKept
  BY <1>1, EndsKeptIs
<1> QED BY <1>1, <1>2, PanelQuiet DEF shown, ghosts

LEMMA RetryValidationPanel ==
  ASSUME BaseInv, PanelInv, NEW r \in Runs, RetryValidation(r)
  PROVE  PanelInv'
<1>0. PICK n : n = Free
  OBVIOUS
<1>1. /\ UNCHANGED <<server, route, shown, inFlight, pending, faults, ghosts>>
      /\ Rest({n}, {}) /\ n \notin DOMAIN calls /\ calls'[n].step = "create"
  BY <1>0, RetryValidationStep DEF BaseInv, IsNew
<1>2. EndsKept
  BY <1>1, EndsKeptIs
<1> QED BY <1>1, <1>2, PanelQuiet DEF shown, ghosts

\* The parts of the invariant that speak of the panel are given.
LEMMA PanelSets ==
  ASSUME BaseInv, PanelInv, ~crossed, faults = 0, NEW X, NEW W, Rest(X, W), EndsKept,
         \A r \in Runs : turns'[r] \in Ended => turns'[r] = turns[r] \/ turns'[r] = status'[r],
         \A x \in X \cap DOMAIN calls' : Told(x)',
         PanelTrue', Watched', ~raced' => Corrected'
  PROVE  PanelInv'
<1>1. TurnsTrue /\ \A i \in DOMAIN calls : Told(i)
  BY DEF PanelInv
<1>2. \A i \in DOMAIN calls' : Told(i)'
  BY <1>1, ToldKept
<1>3. TurnsTrue'
  BY <1>1, TurnsKept
<1> QED BY <1>2, <1>3 DEF PanelInv

LEMMA RetryEventPanel ==
  ASSUME BaseInv, PanelInv, NEW i, RetryEvent(i)
  PROVE  PanelInv'
<1> DEFINE r == calls[i].run
<1>1. /\ i \in DOMAIN calls /\ calls[i].kind = "retry" /\ calls[i].step = "monitor"
      /\ status[r] \in Ended
      /\ turns' = applyTimelineEvent(r, status[r])
      /\ UNCHANGED <<server, route, project, gen, snapshot, history, refs, clicks, faults, ghosts>>
      /\ Moved(i) /\ SameCall(calls[i], calls'[i]) /\ calls'[i].step = "detail"
  BY RetryEventStep DEF BaseInv
<1>2. EndsKept /\ crossed' = crossed /\ raced' = raced /\ status' = status
  BY <1>1, EndsKeptIs DEF ghosts, server
<1>3. Rest({i}, {}) /\ r \in Runs
  BY <1>1, MovedRest DEF BaseInv, CallInv, Shaped
<1>4. /\ \A q \in Runs \ {r} : turns'[q] = turns[q]
      /\ turns'[r] \in {None, status[r]}
  BY <1>1, <1>3, EventTurns DEF BaseInv
<1>5. "active" \notin Ended /\ "active" # None
  BY WorkspaceAssumption DEF WorkspaceAssumption, Ended
<1> HIDE DEF r
<1> SUFFICES ASSUME ~crossed, faults = 0 PROVE PanelInv'
  BY <1>1, <1>2 DEF PanelInv
<1>6. calls'[i].kind = "retry"
  BY <1>1 DEF SameCall
<1>7. Told(i)' /\ ~ OldPage(calls'[i], gen.run)
  BY <1>1, <1>6 DEF Told, OldPage
<1>8. ~ Watches(calls[i], gen.run) /\ ~ Reloader(calls[i], gen.run)
  BY <1>1 DEF Watches, Reloader, FreshLoad, Loads
<1>9. \A q \in Runs : turns'[q] \in Ended => turns'[q] = turns[q] \/ turns'[q] = status'[q]
  BY <1>1, <1>2, <1>4, WorkspaceAssumption DEF WorkspaceAssumption
<1>10. gen.run \in Runs /\ turns'[gen.run] = "active" => turns[gen.run] = "active"
  BY <1>1, <1>4, <1>5
<1>11. ASSUME ~raced' PROVE Corrected'
  <2>1. Corrected
    BY <1>2, <1>11 DEF PanelInv
  <2> QED BY <1>1, <1>3, <1>7, <1>8, <1>10, <2>1, CorrectedKept DEF Stale
<1> QED BY <1>1, <1>2, <1>3, <1>7, <1>8, <1>9, <1>11, PanelReloads

LEMMA RetryMadePanel ==
  ASSUME BaseInv, PanelInv, NEW i, NEW r \in Runs, RetryMade(i, r)
  PROVE  PanelInv'
<1>1. /\ i \in DOMAIN calls /\ calls[i].kind = "retry" /\ calls[i].step = "create"
      /\ NewRun(calls[i].chat, r) /\ turns' = insertTimelineRun(r)
      /\ UNCHANGED <<chats, route, project, gen, snapshot, history, refs, clicks, faults, ghosts>>
      /\ Moved(i) /\ calls'[i].kind = "retry" /\ calls'[i].step = "monitor"
  BY RetryMadeStep DEF BaseInv
<1>2. calls[i].chat \in Chats
  BY <1>1, CallTyped DEF BaseInv, CallInv, Shaped
<1>3. home[r] = None /\ EndsKept
  BY <1>1, <1>2, MadeRun, EndsKeptIs
<1>4. Rest({i}, {}) /\ crossed' = crossed /\ raced' = raced
  BY <1>1, MovedRest DEF BaseInv, ghosts
<1>5. /\ \A q \in Runs \ {r} : turns'[q] = turns[q]
      /\ turns'[r] = IF turns[r] = None THEN "active" ELSE turns[r]
  BY <1>1, InsertIs DEF BaseInv
<1>6. "active" \notin Ended /\ (gen.run \in Runs => gen.run # r)
  BY <1>3 DEF Ended, BaseInv, ShownMade
<1> SUFFICES ASSUME ~crossed, faults = 0 PROVE PanelInv'
  BY <1>1, <1>4 DEF PanelInv
<1>7. Told(i)' /\ ~ OldPage(calls'[i], gen.run)
  BY <1>1 DEF Told, OldPage
<1>8. ~ Watches(calls[i], gen.run) /\ ~ Reloader(calls[i], gen.run)
  BY <1>1 DEF Watches, Reloader, FreshLoad, Loads
<1>9. \A q \in Runs : turns'[q] \in Ended => turns'[q] = turns[q]
  BY <1>5, <1>6
<1>10. gen.run \in Runs => turns'[gen.run] = turns[gen.run]
  BY <1>5, <1>6
<1>11. ASSUME ~raced' PROVE Corrected'
  <2>1. Corrected
    BY <1>4, <1>11 DEF PanelInv
  <2> QED BY <1>1, <1>4, <1>7, <1>8, <1>10, <2>1, CorrectedKept DEF Stale
<1> QED BY <1>1, <1>3, <1>4, <1>7, <1>8, <1>9, <1>11, PanelReloads

LEMMA LoadAnsweredPanel ==
  ASSUME BaseInv, PanelInv, NEW i, LoadAnswered(i)
  PROVE  PanelInv'
<1>1. /\ i \in DOMAIN calls /\ calls[i].step = "page"
      /\ UNCHANGED <<server, route, shown, refs, clicks, faults, ghosts>>
      /\ Moved(i) /\ SameCall(calls[i], calls'[i]) /\ calls'[i].step = "loaded"
      /\ calls'[i].fresh = calls[i].fresh
      /\ \A r \in Runs : calls'[i].page[r] # None => calls'[i].page[r] = status[r]
  BY LoadAnsweredStep DEF BaseInv
<1>2. EndsKept /\ crossed' = crossed /\ raced' = raced /\ status' = status
      /\ gen' = gen /\ turns' = turns
  BY <1>1, EndsKeptIs DEF ghosts, server, shown
<1>3. Rest({i}, {})
  BY <1>1, MovedRest DEF BaseInv
<1> SUFFICES ASSUME ~crossed, faults = 0 PROVE PanelInv'
  BY <1>1, <1>2 DEF PanelInv
<1>4. None \notin Ended /\ "active" \notin Ended /\ "active" # None
  BY WorkspaceAssumption DEF WorkspaceAssumption, Ended
<1>5. Told(i)'
  BY <1>1, <1>2, <1>4 DEF Told
<1>6. ~ Watches(calls[i], gen.run)
  BY <1>1 DEF Watches
<1>7. ASSUME ~raced' PROVE Corrected'
  <2> SUFFICES ASSUME gen.run \in Runs, gen.status # "running", Stale'
               PROVE  \E j \in DOMAIN calls' : Reloader(calls'[j], gen.run)
    BY <1>2 DEF Corrected
  <2>1. status[gen.run] \in Ended
    BY DEF PanelInv, PanelTrue
  <2>2. ~ OldPage(calls'[i], gen.run)
    BY <1>1, <1>4, <2>1 DEF OldPage
  <2>3. \A j \in DOMAIN calls \ {i} : calls'[j] = calls[j]
    BY <1>1 DEF Moved
  <2>4. DOMAIN calls' = DOMAIN calls
    BY <1>1 DEF Moved
  <2>5. Stale
    BY <1>2, <2>2, <2>3, <2>4 DEF Stale
  <2>6. PICK j \in DOMAIN calls : Reloader(calls[j], gen.run)
    BY <1>2, <1>7, <2>5 DEF PanelInv, Corrected
  <2>7. CASE j # i
    BY <2>3, <2>4, <2>6, <2>7
  <2>8. CASE j = i
    <3>1. FreshLoad(calls[i]) /\ ~calls[i].older
      BY <1>1, <2>6, <2>8 DEF Reloader
    <3>2. FreshLoad(calls'[i]) /\ ~calls'[i].older
      BY <1>1, <3>1 DEF FreshLoad, Loads, SameCall
    <3>3. Reloader(calls'[i], gen.run)
      BY <2>2, <3>2 DEF Reloader
    <3> QED BY <1>1, <2>4, <3>3
  <2> QED BY <2>7, <2>8
<1> QED BY <1>1, <1>2, <1>3, <1>5, <1>6, <1>7, PanelReloads

LEMMA LoadArrivesPanel ==
  ASSUME BaseInv, PanelInv, NEW i, LoadArrives(i)
  PROVE  PanelInv'
<1> DEFINE k == calls[i]
<1>1. /\ i \in DOMAIN calls /\ k.step = "loaded"
      /\ turns' = (IF ~k.fresh THEN turns
                   ELSE IF k.older THEN mergeOlderTimelinePage(k.page)
                   ELSE k.page)
      /\ LoadOver(i)
      /\ UNCHANGED <<server, route, project, gen, snapshot, history, pending, clicks, faults, ghosts>>
  BY LoadArrivesStep DEF BaseInv
<1>2. Dropped(i)
  BY <1>1, LoadOverStep DEF BaseInv
<1>3. EndsKept /\ crossed' = crossed /\ raced' = raced /\ status' = status
  BY <1>1, EndsKeptIs DEF ghosts, server
<1>4. Rest({i}, {}) /\ i \notin DOMAIN calls'
  BY <1>2, DroppedRest DEF BaseInv, Dropped
<1> SUFFICES ASSUME ~crossed, faults = 0 PROVE PanelInv'
  BY <1>1, <1>3 DEF PanelInv
<1>5. \A r \in Runs : k.page[r] \in Ended => k.page[r] = status[r]
  BY <1>1 DEF PanelInv, Told
<1>6. k.fresh /\ k.older =>
        \A r \in Runs : turns'[r] = (IF turns[r] # None THEN turns[r] ELSE k.page[r])
  BY <1>1 DEF mergeOlderTimelinePage
<1>7. /\ ~k.fresh => turns' = turns
      /\ k.fresh /\ ~k.older => turns' = k.page
  BY <1>1
<1>8. ~ Watches(k, gen.run)
  BY <1>1 DEF Watches
<1>9. \A r \in Runs : turns'[r] \in Ended => turns'[r] = turns[r] \/ turns'[r] = status'[r]
  BY <1>3, <1>5, <1>6, <1>7
<1>10. Reloader(k, gen.run) => k.fresh /\ ~k.older /\ ~ OldPage(k, gen.run)
  BY <1>1 DEF Reloader, FreshLoad
<1>11. ASSUME gen.run \in Runs, turns'[gen.run] = "active" PROVE Stale
  <2>1. turns[gen.run] = "active" \/ (k.fresh /\ k.page[gen.run] = "active")
    BY <1>6, <1>7, <1>11
  <2> QED BY <1>1, <2>1 DEF Stale, OldPage
<1>12. ASSUME ~raced', gen.run \in Runs => ~ Reloader(k, gen.run) PROVE Corrected'
  <2>1. Corrected
    BY <1>3, <1>12 DEF PanelInv
  <2> QED BY <1>1, <1>4, <1>11, <1>12, <2>1, CorrectedKept
<1>13. ASSUME gen.run \in Runs, Reloader(k, gen.run) PROVE Corrected'
  <2>1. k.fresh /\ ~k.older /\ ~ OldPage(k, gen.run)
    BY <1>10, <1>13
  <2>2. turns'[gen.run] # "active"
    BY <1>1, <1>7, <2>1 DEF OldPage
  <2>3. ASSUME NEW j \in DOMAIN calls', OldPage(calls'[j], gen.run) PROVE FALSE
    <3>1. j \in DOMAIN calls /\ j # i /\ calls'[j] = calls[j]
      BY <1>2 DEF Dropped
    <3>2. FreshLoad(calls[j]) /\ FreshLoad(k)
      BY <1>1, <2>1, <2>3, <3>1 DEF OldPage, FreshLoad, Loads
    <3> QED BY <1>1, <3>1, <3>2 DEF BaseInv, CallInv, OneOfEach
  <2> QED BY <1>1, <2>2, <2>3 DEF Corrected, Stale
<1>14. ~raced' => Corrected'
  BY <1>12, <1>13
<1> QED BY <1>1, <1>3, <1>4, <1>8, <1>9, <1>14, PanelReloads

LEMMA RunEndsPanel ==
  ASSUME BaseInv, PanelInv, NEW r \in Runs, NEW s, RunEnds(r, s)
  PROVE  PanelInv'
<1>1. /\ status[r] = "active" /\ status' = [status EXCEPT ![r] = s]
      /\ gen' = gen /\ turns' = turns /\ faults' = faults /\ calls' = calls
      /\ crossed' = crossed /\ raced' = raced
  BY DEF RunEnds, shown, ghosts
<1>2. status \in [Runs -> Ended \cup {"active", None}] /\ "active" \notin Ended
  BY DEF BaseInv, TypeOK, Ended
<1>3. EndsKept
  BY <1>1, <1>2 DEF EndsKept
<1>4. Rest({}, {})
  BY <1>1, QuietRest DEF BaseInv
<1> QED BY <1>1, <1>3, <1>4, PanelQuiet

LEMMA StutterPanel ==
  ASSUME BaseInv, PanelInv, UNCHANGED vars
  PROVE  PanelInv'
<1>1. gen' = gen /\ turns' = turns /\ faults' = faults /\ calls' = calls
      /\ crossed' = crossed /\ raced' = raced /\ UNCHANGED server
  BY DEF vars, shown, ghosts
<1>2. EndsKept /\ Rest({}, {})
  BY <1>1, EndsKeptIs, QuietRest DEF BaseInv
<1> QED BY <1>1, <1>2, PanelQuiet

\* A panel that shows no run that was made.
LEMMA NoPanel ==
  ASSUME gen'.run \notin Runs
  PROVE  PanelTrue' /\ Watched' /\ Corrected'
BY DEF PanelTrue, Watched, Corrected

LEMMA NoRuns == NoRun \notin Runs /\ PendingRun \notin Runs
BY WorkspaceAssumption DEF WorkspaceAssumption, Runs, NoRun, PendingRun

LEMMA SubmitPanel ==
  ASSUME BaseInv, PanelInv, Submit
  PROVE  PanelInv'
<1>0. PICK n : n = Free
  OBVIOUS
<1>1. /\ gen' = startApiGeneration(PendingRun)
      /\ UNCHANGED <<server, route, project, snapshot, history, turns, pending,
                     retrying, faults, ghosts>>
      /\ Rest({n}, {"forget"}) /\ n \notin DOMAIN calls /\ calls'[n].step \in {"chat", "create"}
  BY <1>0, SubmitStep DEF BaseInv
<1>2. EndsKept /\ crossed' = crossed
  BY <1>1, EndsKeptIs DEF ghosts
<1> SUFFICES ASSUME ~crossed, faults = 0 PROVE PanelInv'
  BY <1>1, <1>2 DEF PanelInv
<1>3. gen'.run \notin Runs
  BY <1>1, NoRuns, PanelsAre DEF BaseInv
<1>4. Told(n)'
  BY <1>1 DEF Told
<1> QED BY <1>1, <1>2, <1>3, <1>4, NoPanel, PanelSets

LEMMA CreateRunPanel ==
  ASSUME BaseInv, PanelInv, NEW i, NEW r \in Runs, CreateRun(i, r)
  PROVE  PanelInv'
<1>1. /\ i \in DOMAIN calls /\ calls[i].kind = "submit" /\ calls[i].step = "create"
      /\ NewRun(calls[i].chat, r)
      /\ UNCHANGED <<chats, inFlight, retrying, clicks, faults, raced>>
  BY CreateRunStep DEF BaseInv
<1>2. calls[i].chat \in Chats
  BY <1>1, CallTyped DEF BaseInv, CallInv, Shaped
<1>3. home[r] = None /\ EndsKept
  BY <1>1, <1>2, MadeRun, EndsKeptIs
<1>4. ~ Watches(calls[i], gen.run) /\ ~ Reloader(calls[i], gen.run)
  BY <1>1 DEF Watches, Reloader, FreshLoad, Loads
<1>5. CASE ~calls[i].live
  <2>1. Dropped(i) /\ UNCHANGED <<route, shown, pending, crossed>>
    BY <1>5, CreateRunStep DEF BaseInv
  <2> QED BY <1>1, <1>3, <1>4, <2>1, PanelDrop DEF shown
<1>6. CASE calls[i].live
  <2>1. /\ gen' = startApiGeneration(r) /\ turns' = insertTimelineRun(r)
        /\ i \in DOMAIN calls' /\ calls'[i].step = "monitor"
        /\ \/ Rest({i}, {"abort", "leave"}) /\ (crossed => crossed')
           \/ Rest({i}, {"abort"}) /\ crossed' = crossed
    BY <1>6, CreateRunStep DEF BaseInv
  <2>2. calls'[i].kind = "submit" /\ calls'[i].run = r
    BY <1>6, CreateRunLive DEF BaseInv
  <2> SUFFICES ASSUME ~crossed, faults = 0 PROVE PanelInv'
    BY <1>1, <2>1 DEF PanelInv
  <2>3. gen'.run = r /\ gen'.status = "running"
    BY <2>1 DEF startApiGeneration
  <2>4. Watches(calls'[i], gen'.run)
    BY <2>1, <2>2, <2>3 DEF Watches
  <2>5. PanelTrue' /\ Watched' /\ Corrected'
    BY <2>1, <2>3, <2>4 DEF PanelTrue, Watched, Corrected
  <2>6. /\ \A q \in Runs \ {r} : turns'[q] = turns[q]
        /\ turns'[r] = IF turns[r] = None THEN "active" ELSE turns[r]
    BY <2>1, InsertIs DEF BaseInv
  <2>7. "active" \notin Ended
    BY DEF Ended
  <2>8. \A q \in Runs : turns'[q] \in Ended => turns'[q] = turns[q]
    BY <2>6, <2>7
  <2>9. Told(i)'
    BY <2>1 DEF Told
  <2>10. \E V : Rest({i}, V)
    BY <2>1
  <2> QED BY <1>3, <2>5, <2>8, <2>9, <2>10, PanelSets
<1> QED BY <1>5, <1>6

LEMMA MonitorEventPanel ==
  ASSUME BaseInv, PanelInv, NEW i, MonitorEvent(i)
  PROVE  PanelInv'
<1> DEFINE r == calls[i].run
<1>1. /\ i \in DOMAIN calls /\ calls[i].kind = "submit" /\ calls[i].step = "monitor"
      /\ status[r] \in Ended
      /\ gen' = applyAgentEvent(r, status[r]) /\ turns' = applyTimelineEvent(r, status[r])
      /\ UNCHANGED <<server, route, project, snapshot, history, refs, clicks, faults, ghosts>>
      /\ Moved(i) /\ SameCall(calls[i], calls'[i]) /\ calls'[i].step = "detail"
  BY MonitorEventStep DEF BaseInv
<1>2. EndsKept /\ crossed' = crossed /\ status' = status
  BY <1>1, EndsKeptIs DEF ghosts, server
<1>3. Rest({i}, {}) /\ r \in Runs /\ i \in DOMAIN calls'
  BY <1>1, MovedRest DEF BaseInv, CallInv, Shaped, Follows, Moved
<1>4. /\ \A q \in Runs \ {r} : turns'[q] = turns[q]
      /\ turns'[r] \in {None, status[r]}
  BY <1>1, <1>3, EventTurns DEF BaseInv
<1>5. calls'[i].kind = "submit" /\ calls'[i].run = r
  BY <1>1 DEF SameCall
<1>6. gen' = IF gen.run # r THEN gen ELSE [gen EXCEPT !.status = Panel(status[r])]
  BY <1>1 DEF applyAgentEvent
<1> SUFFICES ASSUME ~crossed, faults = 0 PROVE PanelInv'
  BY <1>1, <1>2 DEF PanelInv
<1>7. Told(i)'
  BY <1>1, <1>2, <1>5 DEF Told
<1>8. \A q \in Runs : turns'[q] \in Ended => turns'[q] = turns[q] \/ turns'[q] = status'[q]
  BY <1>2, <1>4, WorkspaceAssumption DEF WorkspaceAssumption
<1>9. Reloader(calls'[i], gen'.run)
  BY <1>1, <1>5 DEF Reloader
<1>10. Corrected'
  BY <1>3, <1>9, CorrectedBy
<1>11. CASE gen.run # r
  <2>1. ~ Watches(calls[i], gen.run)
    BY <1>11 DEF Watches
  <2>2. gen' = gen
    BY <1>6, <1>11
  <2> HIDE DEF r
  <2> QED BY <1>2, <1>3, <1>7, <1>8, <1>10, <2>1, <2>2, PanelReloads
<1>12. CASE gen.run = r
  <2>1. gen'.run = r /\ gen'.status = Panel(status[r])
    BY <1>6, <1>12 DEF BaseInv, TypeOK
  <2>2. Panel(status[r]) # "running"
    BY <1>1, PanelIs DEF Ended
  <2>3. PanelTrue' /\ Watched'
    BY <1>1, <1>2, <2>1, <2>2 DEF PanelTrue, Watched
  <2> HIDE DEF r
  <2> QED BY <1>2, <1>3, <1>7, <1>8, <1>10, <2>3, PanelSets
<1> QED BY <1>11, <1>12

\* The detail of run r, which ended, is shown by a panel that takes it.
LEMMA DetailShown ==
  ASSUME BaseInv, NEW r \in Runs, NEW s \in Ended, status'[r] = s,
         gen' = applyAgentRunDetail(r, s), DetailAccepted(r)
  PROVE  PanelTrue' /\ Watched'
<1>1. gen'.run = r /\ gen'.status = Panel(s)
  BY DEF applyAgentRunDetail
<1>2. Panel(s) # "running"
  BY PanelIs DEF Ended
<1> QED BY <1>1, <1>2 DEF PanelTrue, Watched

LEMMA MonitorReturnsPanel ==
  ASSUME BaseInv, PanelInv, NEW i, MonitorReturns(i)
  PROVE  PanelInv'
<1> DEFINE r == calls[i].run
<1>1. /\ i \in DOMAIN calls /\ calls[i].kind = "submit" /\ calls[i].step = "detail"
      /\ gen' = applyAgentRunDetail(r, status[r])
      /\ UNCHANGED <<server, route, project, history, turns, refs, clicks, faults, ghosts>>
      /\ Refreshed(i)
  BY MonitorReturnsStep DEF BaseInv
<1>2. EndsKept /\ crossed' = crossed /\ status' = status
  BY <1>1, EndsKeptIs DEF ghosts, server
<1>3. /\ Rest({i}, Refreshes) /\ i \in DOMAIN calls' /\ r \in Runs
      /\ calls'[i].kind = "submit" /\ calls'[i].step = "refresh"
  BY <1>1 DEF Refreshed, SameCall, BaseInv, CallInv, Shaped, Follows
<1> SUFFICES ASSUME ~crossed, faults = 0 PROVE PanelInv'
  BY <1>1, <1>2 DEF PanelInv
<1>4. status[r] \in Ended
  BY <1>1 DEF PanelInv, Told
<1> HIDE DEF r
<1>5. Reloader(calls'[i], gen'.run) /\ Told(i)' /\ "abort" \notin Refreshes
  BY <1>3 DEF Reloader, Told, Refreshes
<1>6. Corrected'
  BY <1>3, <1>5, CorrectedBy
<1>7. CASE DetailAccepted(r)
  <2>1. PanelTrue' /\ Watched'
    BY <1>1, <1>2, <1>3, <1>4, <1>7, DetailShown
  <2> QED BY <1>1, <1>2, <1>3, <1>5, <1>6, <2>1, PanelSets
<1>8. CASE ~DetailAccepted(r)
  <2>1. gen' = gen
    BY <1>1, <1>8 DEF applyAgentRunDetail
  <2>2. ~ Watches(calls[i], gen.run)
    BY <1>1 DEF Watches
  <2> QED BY <1>1, <1>2, <1>3, <1>5, <1>6, <2>1, <2>2, PanelReloads
<1> QED BY <1>7, <1>8

LEMMA CancelAnsweredPanel ==
  ASSUME BaseInv, OpenInv, PanelInv, NEW i, CancelAnswered(i)
  PROVE  PanelInv'
<1> DEFINE r == calls[i].run
           s == IF status[r] = "active" THEN "cancelled" ELSE status[r]
<1>1. /\ i \in DOMAIN calls /\ calls[i].kind = "cancel" /\ calls[i].step = "reply"
      /\ status' = [status EXCEPT ![r] = s]
      /\ gen' = applyAgentRunDetail(r, s)
      /\ UNCHANGED <<chats, home, route, project, snapshot, history, turns, refs, clicks, faults, ghosts>>
      /\ \/ Refreshed(i)
         \/ Reloaded(i)
         \/ calls[i].chat = None
  BY CancelAnsweredStep DEF BaseInv
<1>2. r \in Runs /\ home[r] # None /\ ~calls[i].older
  BY <1>1 DEF BaseInv, CallInv, Shaped
<1>3. status[r] \in Ended \cup {"active"}
  BY <1>2 DEF BaseInv, TypeOK, StatusOfMade
<1>4. s \in Ended /\ "active" \notin Ended
  BY <1>3 DEF Ended
<1>5. /\ status'[r] = s
      /\ \A q \in Runs : status[q] \in Ended => status'[q] = status[q]
  BY <1>1, <1>2, <1>4 DEF BaseInv, TypeOK
<1> HIDE DEF r, s
<1>6. EndsKept /\ crossed' = crossed
  BY <1>1, <1>5 DEF EndsKept, ghosts
<1> SUFFICES ASSUME ~crossed, faults = 0 PROVE PanelInv'
  BY <1>1, <1>6 DEF PanelInv
<1>7. Refreshed(i) \/ Reloaded(i)
  BY <1>1 DEF OpenInv, OpenCall
<1>8. PICK V \in {Refreshes, Loads} : Rest({i}, V)
  BY <1>7 DEF Refreshed, Reloaded
<1>9. /\ i \in DOMAIN calls' /\ calls'[i].kind = "cancel" /\ ~calls'[i].older
      /\ calls'[i].step = "refresh" \/ (calls'[i].step = "page" /\ calls'[i].fresh)
  BY <1>1, <1>2, <1>7 DEF Refreshed, Reloaded, SameCall
<1>10. Reloader(calls'[i], gen'.run) /\ Told(i)' /\ "abort" \notin V
  BY <1>9 DEF Reloader, Told, Refreshes, Loads, FreshLoad, OldPage
<1>11. Corrected'
  BY <1>9, <1>10, CorrectedBy
<1>12. CASE DetailAccepted(r)
  <2>1. PanelTrue' /\ Watched'
    BY <1>1, <1>2, <1>4, <1>5, <1>12, DetailShown
  <2> QED BY <1>1, <1>6, <1>8, <1>10, <1>11, <2>1, PanelSets
<1>13. CASE ~DetailAccepted(r)
  <2>1. gen' = gen /\ gen.run # r
    BY <1>1, <1>13 DEF applyAgentRunDetail, DetailAccepted
  <2>2. ~ Watches(calls[i], gen.run)
    BY <2>1 DEF Watches, r
  <2> QED BY <1>1, <1>6, <1>8, <1>10, <1>11, <2>1, <2>2, PanelReloads
<1> QED BY <1>12, <1>13

LEMMA CancelPanel ==
  ASSUME BaseInv, PanelInv, Cancel
  PROVE  PanelInv'
<1>0. PICK n : n = Free
  OBVIOUS
<1>1. /\ gen.status = "running"
      /\ UNCHANGED <<server, route, shown, refs, faults, ghosts>>
      /\ Rest({n}, {"abort"}) /\ n \in DOMAIN calls' /\ n \notin DOMAIN calls
      /\ IsNew(calls'[n], "cancel", "reply", route, project, gen.run)
  BY <1>0, CancelStep DEF BaseInv
<1>2. EndsKept /\ crossed' = crossed /\ gen' = gen /\ turns' = turns
  BY <1>1, EndsKeptIs DEF ghosts, shown
<1> SUFFICES ASSUME ~crossed, faults = 0 PROVE PanelInv'
  BY <1>1, <1>2 DEF PanelInv
<1>3. Watches(calls'[n], gen.run) /\ Told(n)'
  BY <1>1 DEF IsNew, Watches, Told
<1>4. PanelTrue' /\ Watched' /\ Corrected'
  BY <1>1, <1>2, <1>3 DEF PanelTrue, Watched, Corrected
<1> QED BY <1>1, <1>2, <1>3, <1>4, PanelSets

\* Another chat, or the home page, is opened.
LEMMA OpenedPanel ==
  ASSUME BaseInv, PanelInv, NEW c, NEW V, Opened(c, V), UNCHANGED server, crossed => crossed',
         faults' = faults
  PROVE  PanelInv'
<1>0. PICK n : n = Free
  OBVIOUS
<1> SUFFICES ASSUME ~crossed, faults = 0 PROVE PanelInv'
  BY DEF PanelInv
<1> DEFINE W == V \cup {"leave", "abort"} \cup Loads
<1>1. /\ gen' = Idle /\ turns' = Blank /\ Rest({n}, W)
      /\ n \in DOMAIN calls' => IsNew(calls'[n], "route", "chat", c, None, NoRun)
  BY <1>0 DEF Opened
<1> HIDE DEF W
<1>2. gen'.run \notin Runs
  BY <1>1, NoRuns, PanelsAre DEF BaseInv
<1>3. \A r \in Runs : turns'[r] \notin Ended
  BY <1>1, WorkspaceAssumption DEF WorkspaceAssumption, Blank
<1>4. n \in DOMAIN calls' => Told(n)'
  BY <1>1 DEF IsNew, Told
<1>5. EndsKept
  BY EndsKeptIs
<1> QED BY <1>1, <1>2, <1>3, <1>4, <1>5, NoPanel, PanelSets

LEMMA NavigatePanel ==
  ASSUME BaseInv, OpenInv, PanelInv, NEW c \in Chats \cup {None}, Navigate(c)
  PROVE  PanelInv'
<1>1. /\ crossed => crossed'
      /\ UNCHANGED <<server, inFlight, retrying, faults, raced>>
      /\ \/ c # None /\ pending = c
         \/ Opened(c, {})
  BY NavigateStep DEF BaseInv
<1> SUFFICES ASSUME ~crossed PROVE PanelInv'
  BY <1>1 DEF PanelInv
<1>2. Opened(c, {})
  BY <1>1 DEF OpenInv, ShownOpen
<1> QED BY <1>1, <1>2, OpenedPanel

LEMMA BackHomePanel ==
  ASSUME BaseInv, OpenInv, PanelInv, BackHome
  PROVE  PanelInv'
<1>1. /\ UNCHANGED <<server, retrying, faults, raced>>
      /\ \/ /\ route = None
            /\ UNCHANGED <<route, shown, pending, crossed>>
            /\ Rest({}, {"abort", "forget"})
         \/ /\ crossed => crossed'
            /\ Opened(None, {"abort", "forget"})
  BY BackHomeStep DEF BaseInv
<1>2. CASE Opened(None, {"abort", "forget"}) /\ (crossed => crossed')
  BY <1>1, <1>2, OpenedPanel
<1>3. CASE /\ route = None
           /\ UNCHANGED <<route, shown, pending, crossed>>
           /\ Rest({}, {"abort", "forget"})
  <2> SUFFICES ASSUME ~crossed, faults = 0 PROVE PanelInv'
    BY <1>1, <1>3 DEF PanelInv
  <2>1. gen' = gen /\ turns' = turns
    BY <1>3 DEF shown
  <2>2. gen'.run \notin Runs
    BY <1>3, <2>1 DEF OpenInv, ShownOpen, OfOpenChat
  <2>3. EndsKept
    BY <1>1, EndsKeptIs
  <2> QED BY <1>3, <2>1, <2>2, <2>3, NoPanel, PanelSets
<1> QED BY <1>1, <1>2, <1>3

LEMMA PanelInit == Init => PanelInv
<1> SUFFICES ASSUME Init PROVE PanelInv
  OBVIOUS
<1>1. DOMAIN calls = {} /\ gen.run = NoRun /\ turns = Blank
  BY DEF Init, Idle
<1>2. \A r \in Runs : turns[r] \notin Ended
  BY <1>1, WorkspaceAssumption DEF WorkspaceAssumption, Blank
<1> QED BY <1>1, <1>2, NoRuns DEF PanelInv, TurnsTrue, PanelTrue, Watched, Corrected

\* PanelInv is inductive, relative to BaseInv and OpenInv.
LEMMA PanelNext == BaseInv /\ OpenInv /\ PanelInv /\ [Next]_vars => PanelInv'
<1> SUFFICES ASSUME BaseInv, OpenInv, PanelInv, [Next]_vars PROVE PanelInv'
  OBVIOUS
<1>1. ASSUME UNCHANGED vars PROVE PanelInv'
  BY <1>1, StutterPanel
<1>2. ASSUME User PROVE PanelInv'
  BY <1>2, NavigatePanel, BackHomePanel, SubmitPanel, LoadOlderPanel, CancelPanel,
     SelectSnapshotPanel, RetryValidationPanel DEF User
<1>3. ASSUME NEW i \in 1 .. MaxCalls, Answered(i) PROVE PanelInv'
  BY <1>3, RouteChatPanel, RouteProjectPanel, RouteSnapshotPanel, MakeChatPanel,
     CreateRunPanel, RetryMadePanel, MonitorEventPanel, MonitorReturnsPanel,
     AbortedPanel, RefreshArrivesPanel, LoadAnsweredPanel, LoadArrivesPanel,
     CancelAnsweredPanel, SelectArrivesPanel, RetryEventPanel, RetryReturnsPanel
  DEF Answered
<1>4. ASSUME NEW i \in 1 .. MaxCalls, Failed(i) PROVE PanelInv'
  BY <1>4, FailedPanel
<1>5. ASSUME NEW r \in Runs, NEW s \in {"completed", "failed"}, RunEnds(r, s) PROVE PanelInv'
  BY <1>5, RunEndsPanel
<1> QED BY <1>1, <1>2, <1>3, <1>4, <1>5 DEF Next

\* Once no call is under way and none failed, the panel and the turn of its run
\* agree on how it ended: the timeline loaded after the detail of the run
\* (refreshProjectData, then loadTimeline) replaces a page read before the end.
THEOREM PanelAndTimelineAgree == Spec => []PanelAgreesWithTimeline
<1>1. BaseInv /\ PanelInv => PanelAgreesWithTimeline
  <2> SUFFICES ASSUME BaseInv, PanelInv, ~crossed, ~raced, faults = 0, DOMAIN calls = {},
                      gen.run \in Runs
               PROVE  turns[gen.run] = None \/ Panel(turns[gen.run]) = gen.status
    BY DEF PanelAgreesWithTimeline
  <2>1. TurnsTrue /\ PanelTrue /\ Watched /\ Corrected
    BY DEF PanelInv
  <2>2. gen.status # "running"
    BY <2>1 DEF Watched
  <2>3. gen.status = Panel(status[gen.run]) /\ turns[gen.run] # "active"
    BY <2>1, <2>2 DEF PanelTrue, Corrected, Stale
  <2>4. turns[gen.run] \in Ended \cup {None}
    BY <2>3 DEF BaseInv, TypeOK
  <2> QED BY <2>1, <2>3, <2>4 DEF TurnsTrue
<1> QED BY <1>1, BaseInit, BaseNext, OpenInit, OpenNext, PanelInit, PanelNext, PTL DEF Spec

\* The state of the page keeps its shape, and no more calls are unfinished than
\* are counted.
THEOREM TypeCorrect == Spec => []TypeOK
<1>1. BaseInv => TypeOK
  BY DEF BaseInv
<1> QED BY <1>1, BaseInit, BaseNext, PTL DEF Spec
=============================================================================
