------------------------------- MODULE Projects -------------------------------
(***************************************************************************)
(* Users, the default workspace, projects, branches and chats as the API   *)
(* keeps them (routes/auth.ts, routes/project.ts, routes/chat.ts,          *)
(* workspaces/, branches/branchService.ts), on a database that was first   *)
(* brought up from the earlier layout by the migration of                  *)
(* migrations/20260726WorkspaceBranches.ts.                                *)
(*                                                                         *)
(* One action is one MongoDB command of a handler, with the computation on *)
(* the documents it read before. Requests name resources of their user.    *)
(* The migration runs while the servers are stopped and may be killed and  *)
(* run again. Snapshots are left out (RunExecution, ArtifactStore).        *)
(***************************************************************************)
EXTENDS Naturals, Sequences, SequencesExt, FiniteSets, Functions, TLC

CONSTANTS
  Users, Projects, Chats, Runs,
  Names,              \* names of branches beside main
  None,
  LegacyUsers,        \* a sequence: users by the time they registered
  LegacyProject,      \* the project of the earlier layout, with its revision
  LegacyChat, LegacyRevision,
  LegacyRuns,         \* runs of the earlier layout and their projects
  Requests,           \* slots for concurrent requests
  MaxRequests,        \* bound: requests accepted in all
  MaxRollbacks,       \* bound: times the head of a branch moves
  MaxMigrations,      \* bound: orderly stops of the servers
  MaxFaults           \* bound: processes that die, commands that fail

ASSUME ProjectsAssumption ==
  /\ LegacyUsers \in Seq(Users) /\ Len(LegacyUsers) > 0
  /\ LegacyProject \in Projects /\ LegacyChat \in Chats /\ LegacyRevision \in Nat
  /\ DOMAIN LegacyRuns \subseteq Runs
  /\ "main" \notin Names
  /\ None \notin Projects \cup Chats \cup (Projects \X (Names \cup {"main"}))
  /\ IsFiniteSet(Requests)
  /\ {MaxRequests, MaxRollbacks, MaxMigrations, MaxFaults} \subseteq Nat

VARIABLES
  registered,  \* the users, in the order of createdAt
  creator,     \* createdByUserId of the default workspace, or None
  role,        \* the memberships: a function on the members
  project, chat, run,  \* the documents that exist, by their ids
  head,        \* headVersion of the branches that exist, by <<project, name>>
  system,      \* what is running: see Phases
  todo,        \* the migration: users, then projects it has yet to visit
  request,     \* the requests in flight
  strayed,     \* history: the chats of overlapping, interrupted or misdirected requests
  bounds       \* counters of the bounds

vars == <<registered, creator, role, project, chat, run, head, system, todo,
          request, strayed, bounds>>
accounts == <<registered, creator, role>>
control == <<system, todo>>

-----------------------------------------------------------------------------
(* Documents.                                                              *)

Main(p) == <<p, "main">>
BranchIds == Projects \X (Names \cup {"main"})
FirstUser == registered[1]
Member(u) == u \in DOMAIN role
\* version is __v of Mongoose: any change of chatIds raises it.
NewProject(u, workspace, chats, revision) ==
  [user |-> u, workspace |-> workspace, chats |-> chats, revision |-> revision,
   version |-> 0]
MigrationSteps == {"workspace", "members", "own", "main", "chats",
                   "runWorkspace", "runBranch", "runBase"}
Phases == MigrationSteps \cup {"stopped", "migrated", "serving"}

\* A step of a request: the first read of a project or chat, the upserts of
\* workspace, membership and main branch, the lookup of the branch a request
\* names, and the writes of the operation.
Idle == [at |-> "idle"]
Steps == {"user", "workspace", "member", "insertProject", "project", "chat",
          "main", "branch", "insertBranch", "insertChat", "push", "save",
          "filter", "unset", "deleteProject", "unsetAll", "deleteChat", "head",
          "mirror"}

TypeOK ==
  /\ registered \in Seq(Users) /\ creator \in Users \cup {None}
  /\ DOMAIN role \subseteq Users /\ Range(role) \subseteq {"owner", "member"}
  /\ \A p \in DOMAIN project :
       project[p] \in [user : Users, workspace : BOOLEAN, chats : SUBSET Chats,
                       revision : Nat, version : Nat]
  /\ \A c \in DOMAIN chat :
       chat[c] \in [user : Users, project : Projects \cup {None},
                    branch : BranchIds \cup {None}]
  /\ \A r \in DOMAIN run :
       run[r] \in [project : Projects, workspace : BOOLEAN,
                   branch : BranchIds \cup {None}, base : BOOLEAN]
  /\ DOMAIN head \subseteq BranchIds /\ Range(head) \subseteq Nat
  /\ system \in Phases
  /\ \A x \in Requests : request[x] = Idle \/ request[x].at \in Steps
  /\ strayed \subseteq Chats

\* A database of the earlier layout: no workspace, no branches.
Init ==
  /\ registered = LegacyUsers
  /\ creator = None /\ role = <<>>
  /\ project = [p \in {LegacyProject} |->
       NewProject(LegacyUsers[1], FALSE, {LegacyChat}, LegacyRevision)]
  /\ chat = [c \in {LegacyChat} |->
       [user |-> LegacyUsers[1], project |-> LegacyProject, branch |-> None]]
  /\ run = [r \in DOMAIN LegacyRuns |->
       [project |-> LegacyRuns[r], workspace |-> FALSE, branch |-> None,
        base |-> FALSE]]
  /\ head = <<>>
  /\ system = "stopped" /\ todo = <<>>
  /\ request = [x \in Requests |-> Idle]
  /\ strayed = {}
  /\ bounds = [requests |-> 0, rollbacks |-> 0, migrations |-> 0, faults |-> 0]

Count(what, max) ==
  /\ bounds[what] < max
  /\ bounds' = [bounds EXCEPT ![what] = @ + 1]

\* findOneAndUpdate with $setOnInsert and upsert: what exists stays. The
\* insertion of a document with a new id is the same.
Upsert(f, key, value) ==
  [k \in DOMAIN f \cup {key} |-> IF k \in DOMAIN f THEN f[k] ELSE value]

EnsureWorkspace(u) == creator' = IF creator = None THEN u ELSE creator
\* Mutant: $set instead of $setOnInsert.
EnsureMainAnew(p, doc) == head' = Main(p) :> doc.revision @@ head

EnsureMain(p, doc) == head' = Upsert(head, Main(p), doc.revision)
Detached(c) == [chat[c] EXCEPT !.project = None, !.branch = None]

-----------------------------------------------------------------------------
(* The migration, alone on the database.                                   *)

\* The operator has stopped the servers and starts the command.
Migrate ==
  /\ system = "stopped" /\ system' = "workspace"
  /\ UNCHANGED <<accounts, project, chat, run, head, todo, request, strayed, bounds>>

MigrateWorkspace ==
  /\ system = "workspace"
  /\ EnsureWorkspace(FirstUser)
  /\ system' = "members" /\ todo' = registered
  /\ UNCHANGED <<registered, role, project, chat, run, head, request, strayed, bounds>>

\* One updateOne per user; then the projects are read.
MigrateMember ==
  /\ system = "members"
  /\ IF todo = <<>>
     THEN system' = "own" /\ todo' = SetToSeq(DOMAIN project) /\ role' = role
     ELSE LET u == Head(todo) IN
          /\ role' = Upsert(role, u, IF u = FirstUser THEN "owner" ELSE "member")
          /\ todo' = Tail(todo) /\ UNCHANGED system
  /\ UNCHANGED <<registered, creator, project, chat, run, head, request, strayed, bounds>>

\* The loop over the projects is at the first of todo.
OfVisited == {r \in DOMAIN run : run[r].project = Head(todo)}
SetRuns(runs, field, value) ==
  run' = [r \in DOMAIN run |->
            IF r \in runs THEN [run[r] EXCEPT ![field] = value] ELSE run[r]]

\* Mutant: a project that has its workspace counts as migrated.
OwnProjectOnce ==
  LET p == Head(todo) IN
  /\ system = "own" /\ todo # <<>>
  /\ project' = [project EXCEPT ![p].workspace = TRUE]
  /\ IF project[p].workspace THEN todo' = Tail(todo) /\ UNCHANGED system
     ELSE system' = "main" /\ UNCHANGED todo
  /\ UNCHANGED <<chat, run, head>>

OwnProject ==
  /\ system = "own" /\ todo # <<>>
  /\ project' = [project EXCEPT ![Head(todo)].workspace = TRUE]
  /\ system' = "main"
  /\ UNCHANGED <<chat, run, head, todo>>

BranchProject ==
  /\ system = "main"
  /\ EnsureMain(Head(todo), project[Head(todo)])
  /\ system' = "chats"
  /\ UNCHANGED <<project, chat, run, todo>>

BranchChats ==
  /\ system = "chats"
  /\ chat' = [c \in DOMAIN chat |->
       IF chat[c].project = Head(todo) /\ chat[c].branch = None
       THEN [chat[c] EXCEPT !.branch = Main(Head(todo))] ELSE chat[c]]
  /\ system' = "runWorkspace"
  /\ UNCHANGED <<project, run, head, todo>>

\* workspaceId, branchId and baseHeadVersion are three commands.
BackfillRuns ==
  /\ \/ /\ system = "runWorkspace" /\ system' = "runBranch"
        /\ SetRuns(OfVisited, "workspace", TRUE) /\ UNCHANGED todo
     \/ /\ system = "runBranch" /\ system' = "runBase"
        /\ SetRuns({r \in OfVisited : run[r].branch = None}, "branch",
                   Main(Head(todo)))
        /\ UNCHANGED todo
     \/ /\ system = "runBase" /\ system' = "own"
        /\ SetRuns(OfVisited, "base", TRUE) /\ todo' = Tail(todo)
  /\ UNCHANGED <<project, chat, head>>

MigrateProject == OwnProject \/ BranchProject \/ BranchChats \/ BackfillRuns

MigrateProjects ==
  /\ MigrateProject
  /\ UNCHANGED <<accounts, request, strayed, bounds>>

\* verifyWorkspaceBranchMigration: the command fails unless all five counts
\* are zero, and the operator has to run it again.
Complete ==
  /\ \A p \in DOMAIN project : project[p].workspace
  /\ \A c \in DOMAIN chat : chat[c].project # None => chat[c].branch # None
  /\ \A r \in DOMAIN run : run[r].workspace /\ run[r].branch # None /\ run[r].base

Verify ==
  /\ system = "own" /\ todo = <<>>
  /\ system' = IF Complete THEN "migrated" ELSE "stopped"
  /\ UNCHANGED <<accounts, project, chat, run, head, todo, request, strayed, bounds>>

\* The command is killed, or MongoDB fails under it.
MigrationDies ==
  /\ system \in MigrationSteps
  /\ system' = "stopped" /\ todo' = <<>>
  /\ Count("faults", MaxFaults)
  /\ UNCHANGED <<accounts, project, chat, run, head, request, strayed>>

Serve ==
  /\ system = "migrated" /\ system' = "serving"
  /\ UNCHANGED <<accounts, project, chat, run, head, todo, request, strayed, bounds>>

-----------------------------------------------------------------------------
(* Requests. A handler keeps the project as it read it in doc, the branch  *)
(* in b, and the headVersion it saw.                                       *)

At(x, step) == system = "serving" /\ request[x].at = step
\* The chat a request is about, None for the others.
About(x) == IF request[x] = Idle THEN None ELSE request[x].c
InFlight(op, p) ==
  \E x \in Requests : request[x] # Idle /\ request[x].op = op /\ request[x].p = p
Proceed(x, step) == request' = [request EXCEPT ![x].at = step]
Reply(x) == request' = [request EXCEPT ![x] = Idle]

\* Two requests overlap on a chat: the same chat, or one deletes the project
\* the other is about.
Clash(op, p, c) ==
  {d \in Chats \ {None} : \E x \in Requests :
     /\ request[x] # Idle
     /\ \/ d = c /\ (About(x) = c \/ (request[x].op = "deleteProject" /\ request[x].p = p))
        \/ d = About(x) /\ op = "deleteProject" /\ request[x].p = p}

\* removeChat detaches the chat it names, whatever project it is in and whosever it
\* is; only the project it is removed through is looked up by its owner.
Misdirected(op, p, c) ==
  IF op = "removeChat" /\ c \in DOMAIN chat /\ chat[c].project # p THEN {c} ELSE {}

\* A request of user u about project p, chat c and branch b arrives.
Arrive(x, op, u, p, c, b, step) ==
  /\ system = "serving" /\ request[x] = Idle
  /\ request' = [request EXCEPT ![x] =
       [at |-> step, op |-> op, u |-> u, p |-> p, c |-> c, b |-> b, doc |-> None,
        seen |-> 0, saves |-> {"project", "chat"}]]
  /\ strayed' = strayed \cup Clash(op, p, c) \cup Misdirected(op, p, c)
  /\ Count("requests", MaxRequests)
  /\ UNCHANGED <<accounts, project, chat, run, head, control>>

\* A new project has an id of its own.
FreshProject(p) ==
  /\ p \notin DOMAIN project /\ Main(p) \notin DOMAIN head
  /\ \A c \in DOMAIN chat : chat[c].project # p
  /\ \A x \in Requests : request[x] # Idle => request[x].p # p

\* POST /register and POST / of projects, by a registered user.
ArriveUser(x) ==
  \/ \E u \in Users \ Range(registered) :
       Arrive(x, "register", u, None, None, None, "user")
  \/ \E u \in Range(registered), p \in Projects :
       FreshProject(p) /\ Arrive(x, "createProject", u, p, None, None, "workspace")

\* The requests on a project its owner knows of. A new chat has an id of its own;
\* a chat to be added is the user's own, a chat to be removed need not be.
FreshChat(c) ==
  /\ c \notin DOMAIN chat \cup strayed
  /\ \A p \in DOMAIN project : c \notin project[p].chats
  /\ \A x \in Requests : About(x) # c
ArriveProject(x) ==
  \E p \in DOMAIN project : LET u == project[p].user IN
    \/ \E op \in {"listBranches", "deleteProject"} :
         Arrive(x, op, u, p, None, None, "project")
    \/ \E n \in Names : Arrive(x, "createBranch", u, p, None, <<p, n>>, "project")
    \/ \E b \in {None} \cup DOMAIN head :
         \/ Arrive(x, "rollback", u, p, None, b, "project")
         \/ \E c \in Chats : FreshChat(c) /\ Arrive(x, "createChat", u, p, c, b, "project")
    \/ \E op \in {"addChat", "removeChat"}, c \in DOMAIN chat :
         /\ op = "addChat" => chat[c].user = u
         /\ Arrive(x, op, u, p, c, None, "project")

ArriveChat(x) ==
  \E c \in DOMAIN chat :
    Arrive(x, "deleteChat", chat[c].user, None, c, None, "chat")

\* Register: the unique index on the e-mail refuses the second of two.
SaveUser(x) ==
  LET u == request[x].u IN
  /\ At(x, "user")
  /\ IF u \in Range(registered) THEN Reply(x) /\ UNCHANGED registered
     ELSE registered' = Append(registered, u) /\ Proceed(x, "workspace")
  /\ UNCHANGED <<creator, role, project, chat, run, head, control, strayed, bounds>>

\* ensureDefaultWorkspaceForUser, in register and before a project is made.
UpsertWorkspace(x) ==
  /\ At(x, "workspace")
  /\ EnsureWorkspace(request[x].u) /\ Proceed(x, "member")
  /\ UNCHANGED <<registered, role, project, chat, run, head, control, strayed, bounds>>

UpsertMember(x) ==
  LET u == request[x].u IN
  /\ At(x, "member")
  /\ role' = Upsert(role, u, IF creator = u THEN "owner" ELSE "member")
  /\ IF request[x].op = "register" THEN Reply(x) ELSE Proceed(x, "insertProject")
  /\ UNCHANGED <<registered, creator, project, chat, run, head, control, strayed, bounds>>

InsertProject(x) ==
  LET new == NewProject(request[x].u, TRUE, {}, 0) IN
  /\ At(x, "insertProject")
  /\ project' = Upsert(project, request[x].p, new)
  /\ request' = [request EXCEPT ![x].at = "main", ![x].doc = new]
  /\ UNCHANGED <<accounts, chat, run, head, control, strayed, bounds>>

\* findOwnedWorkspaceProject: a project of the user, in a workspace of theirs.
Owned(p, u) ==
  /\ p \in DOMAIN project
  /\ project[p].user = u /\ project[p].workspace /\ Member(u)

ReadProject(x) ==
  LET r == request[x]
      Next(op) == CASE op \in {"listBranches", "createBranch"} -> "main"
                    [] op \in {"createChat", "rollback"} ->
                         IF r.b = None THEN "main" ELSE "branch"
                    [] op = "addChat" -> "chat"
                    [] op = "removeChat" -> "filter"
                    [] op = "deleteProject" -> "deleteProject"
  IN
  /\ At(x, "project")
  /\ IF Owned(r.p, r.u)
     THEN request' = [request EXCEPT ![x].doc = project[r.p], ![x].at = Next(r.op)]
     ELSE Reply(x)
  /\ UNCHANGED <<accounts, project, chat, run, head, control, strayed, bounds>>

findOwnedWorkspaceChat(c, u) ==
  c \in DOMAIN chat /\ (chat[c].project = None \/ Owned(chat[c].project, u))

\* addChat reads a chat of the user, deleteChat one whose project they may see.
ReadChat(x) ==
  LET r == request[x] IN
  /\ At(x, "chat")
  /\ CASE r.op = "addChat" /\ r.c \in DOMAIN chat ->
            request' = [request EXCEPT ![x].b = chat[r.c].branch,
                ![x].at = IF chat[r.c].branch = None THEN "main" ELSE "branch"]
       [] r.op = "deleteChat" /\ findOwnedWorkspaceChat(r.c, r.u) -> Proceed(x, "deleteChat")
       [] OTHER -> Reply(x)
  /\ UNCHANGED <<accounts, project, chat, run, head, control, strayed, bounds>>

\* With the branch in hand: addChat is done if the project lists the chat.
WithBranch(x, b) ==
  LET r == request[x] IN
  IF r.op \in {"listBranches", "createProject"}
     \/ (r.op = "addChat" /\ r.c \in r.doc.chats)
  THEN Reply(x)
  ELSE request' = [request EXCEPT ![x] = [r EXCEPT
         !.b = IF r.op \in {"createChat", "rollback"} THEN b ELSE @,
         !.seen = IF r.op = "rollback" THEN head'[b] ELSE 0,
         !.at = CASE r.op = "createBranch" -> "insertBranch"
                  [] r.op = "createChat" -> "insertChat"
                  [] r.op = "addChat" -> "save"
                  [] r.op = "rollback" -> "head"]]

\* ensureMainBranch, from the project as the handler read it.
UpsertMain(x) ==
  /\ At(x, "main")
  /\ EnsureMain(request[x].p, request[x].doc)
  /\ WithBranch(x, Main(request[x].p))
  /\ UNCHANGED <<accounts, project, chat, run, control, strayed, bounds>>

\* Mutant: the branch is found by its id alone.
ResolvesById(p, b) == b \in DOMAIN head

\* resolveProjectBranch with a branchId.
Resolves(p, b) == b \in DOMAIN head /\ b[1] = p

FindBranch(x) ==
  LET r == request[x] IN
  /\ At(x, "branch")
  /\ UNCHANGED head
  /\ IF Resolves(r.p, r.b) THEN WithBranch(x, r.b) ELSE Reply(x)
  /\ UNCHANGED <<accounts, project, chat, run, control, strayed, bounds>>

\* createProjectBranch: names are unique in a project.
InsertBranch(x) ==
  /\ At(x, "insertBranch")
  /\ head' = Upsert(head, request[x].b, 0) /\ Reply(x)
  /\ UNCHANGED <<accounts, project, chat, run, control, strayed, bounds>>

InsertChat(x) ==
  LET r == request[x] IN
  /\ At(x, "insertChat")
  /\ chat' = Upsert(chat, r.c, [user |-> r.u, project |-> r.p, branch |-> r.b])
  /\ Proceed(x, "push")
  /\ UNCHANGED <<accounts, project, run, head, control, strayed, bounds>>

\* save of a project with an id pushed to chatIds: $push and no check of __v;
\* a project that is gone makes save throw.
PushChat(p, c) ==
  project' = IF p \in DOMAIN project
             THEN [project EXCEPT ![p].chats = @ \cup {c}, ![p].version = @ + 1]
             ELSE project

Push(x) ==
  /\ At(x, "push")
  /\ PushChat(request[x].p, request[x].c) /\ Reply(x)
  /\ UNCHANGED <<accounts, chat, run, head, control, strayed, bounds>>

\* Promise.all of the two saves. A chat that already had its branch is not
\* modified, and its save writes nothing.
Save(x) ==
  LET r == request[x] IN
  /\ At(x, "save")
  /\ \E s \in r.saves :
       /\ IF s = "project" THEN PushChat(r.p, r.c) /\ UNCHANGED chat
          ELSE /\ chat' = IF r.c \in DOMAIN chat /\ r.b = None
                          THEN [chat EXCEPT ![r.c].project = r.p, ![r.c].branch = Main(r.p)]
                          ELSE chat
               /\ UNCHANGED project
       /\ IF r.saves = {s} THEN Reply(x)
          ELSE request' = [request EXCEPT ![x].saves = @ \ {s}]
  /\ UNCHANGED <<accounts, run, head, control, strayed, bounds>>

\* Mutant: the array is written whatever the version.
MayAssignBlindly(p, doc, chats) == p \in DOMAIN project

\* save of a project with chatIds assigned: Mongoose compares __v when the
\* array changed, and throws when another save came between.
MayAssign(p, doc, chats) ==
  p \in DOMAIN project /\ (chats = doc.chats \/ project[p].version = doc.version)

Filter(x) ==
  LET r == request[x]
      kept == r.doc.chats \ {r.c} IN
  /\ At(x, "filter")
  /\ IF MayAssign(r.p, r.doc, kept)
     THEN /\ Proceed(x, "unset")
          /\ project' = IF kept = r.doc.chats THEN project
                        ELSE [project EXCEPT ![r.p].chats = kept, ![r.p].version = @ + 1]
     ELSE Reply(x) /\ UNCHANGED project
  /\ UNCHANGED <<accounts, chat, run, head, control, strayed, bounds>>

Unset(x) ==
  LET c == request[x].c IN
  /\ At(x, "unset")
  /\ chat' = IF c \in DOMAIN chat THEN [chat EXCEPT ![c] = Detached(c)] ELSE chat
  /\ Reply(x)
  /\ UNCHANGED <<accounts, project, run, head, control, strayed, bounds>>

\* DELETE of a project; its branches and runs stay.
DeleteProject(x) ==
  /\ At(x, "deleteProject")
  /\ project' = Restrict(project, DOMAIN project \ {request[x].p})
  /\ Proceed(x, "unsetAll")
  /\ UNCHANGED <<accounts, chat, run, head, control, strayed, bounds>>

UnsetAll(x) ==
  /\ At(x, "unsetAll")
  /\ chat' = [c \in DOMAIN chat |->
       IF chat[c].project = request[x].p THEN Detached(c) ELSE chat[c]]
  /\ Reply(x)
  /\ UNCHANGED <<accounts, project, run, head, control, strayed, bounds>>

DeleteChat(x) ==
  /\ At(x, "deleteChat")
  /\ chat' = Restrict(chat, DOMAIN chat \ {request[x].c})
  /\ Reply(x)
  /\ UNCHANGED <<accounts, project, run, head, control, strayed, bounds>>

\* The rollback moves the head if it is where it was, then the project's copy.
SetBranchHead(x) ==
  LET r == request[x] IN
  /\ At(x, "head")
  /\ Count("rollbacks", MaxRollbacks)
  /\ IF head[r.b] = r.seen
     THEN /\ head' = [head EXCEPT ![r.b] = @ + 1]
          /\ IF r.b = Main(r.p) THEN Proceed(x, "mirror") ELSE Reply(x)
     ELSE Reply(x) /\ UNCHANGED head
  /\ UNCHANGED <<accounts, project, chat, run, control, strayed>>

SetMirror(x) ==
  LET p == request[x].p IN
  /\ At(x, "mirror")
  /\ project' = IF p \in DOMAIN project
                THEN [project EXCEPT ![p].revision = @ + 1] ELSE project
  /\ Reply(x)
  /\ UNCHANGED <<accounts, chat, run, head, control, strayed, bounds>>

Step(x) ==
  \/ SaveUser(x) \/ UpsertWorkspace(x) \/ UpsertMember(x) \/ InsertProject(x)
  \/ ReadProject(x) \/ ReadChat(x) \/ UpsertMain(x) \/ FindBranch(x)
  \/ InsertBranch(x) \/ InsertChat(x) \/ Push(x) \/ Save(x) \/ Filter(x) \/ Unset(x)
  \/ DeleteProject(x) \/ UnsetAll(x) \/ DeleteChat(x)
  \/ SetBranchHead(x) \/ SetMirror(x)

\* A command of one request fails and the handler passes the error on, or the
\* process dies with all of them.
Interrupted(X) ==
  {c \in Chats : \E x \in X : request[x] # Idle /\
     \/ request[x].c = c
     \/ /\ request[x].op = "deleteProject"
        /\ c \in DOMAIN chat /\ chat[c].project = request[x].p}
Cut ==
  \E X \in {Requests} \cup {{x} : x \in Requests} :
    /\ system = "serving" /\ \E x \in X : request[x] # Idle
    /\ request' = [x \in Requests |-> IF x \in X THEN Idle ELSE request[x]]
    /\ strayed' = strayed \cup Interrupted(X)
    /\ Count("faults", MaxFaults)
    /\ UNCHANGED <<accounts, project, chat, run, head, control>>

\* The servers are stopped for another run of the migration.
Stop ==
  /\ system = "serving" /\ \A x \in Requests : request[x] = Idle
  /\ system' = "stopped"
  /\ Count("migrations", MaxMigrations)
  /\ UNCHANGED <<accounts, project, chat, run, head, todo, request, strayed>>

Migration ==
  Migrate \/ MigrateWorkspace \/ MigrateMember \/ MigrateProjects \/ Verify \/ Serve

Next ==
  \/ Migration \/ MigrationDies \/ Stop \/ Cut
  \/ \E x \in Requests :
       ArriveUser(x) \/ ArriveProject(x) \/ ArriveChat(x) \/ Step(x)

Spec == Init /\ [][Next]_vars
\* The operator runs the command again until it succeeds and starts the
\* servers; nothing is assumed of requests.
FairSpec == Spec /\ WF_vars(Migration)

-----------------------------------------------------------------------------
(* Properties.                                                             *)

\* A chat of a project is on a branch of that project (chatSchema requires
\* the branch; resolveProjectBranch looks it up within the project).
ChatsOnBranches ==
  system = "serving" => \A c \in DOMAIN chat :
    chat[c].project # None =>
      chat[c].branch \in DOMAIN head /\ chat[c].branch[1] = chat[c].project

\* Project.chatIds and Chat.projectId are written by separate commands. They
\* agree once the request of a chat is over, whatever happens to the other chats of
\* the project - of a chat none of whose requests overlapped, was cut, or removed
\* it through a project it was not in. The last does not need a second request:
\* the chat loses its project, which still lists it (routes/project.ts:503).
ListsAgree ==
  system = "serving" =>
    \A c \in DOMAIN chat \ (strayed \cup {About(x) : x \in Requests}) :
      /\ \A p \in DOMAIN project : c \in project[p].chats <=> chat[c].project = p
      /\ chat[c].project \in DOMAIN project \cup {None}
           \cup {p \in Projects : InFlight("deleteProject", p)}

\* The main branch of a project never falls behind the revision the project
\* document shows: a head made late, from a project read long ago, does not
\* take a newer one back.
MirrorNeverAhead ==
  \A p \in DOMAIN project :
    Main(p) \in DOMAIN head => project[p].revision <= head[Main(p)]

\* Run again as often as it takes, the migration ends and its verification
\* passes, from wherever it was killed and after the servers wrote.
MigrationCompletes == system = "stopped" ~> system = "serving"
=============================================================================
