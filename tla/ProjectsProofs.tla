-------------------------- MODULE ProjectsProofs --------------------------
(***************************************************************************)
(* What Projects keeps for any sets of users, projects, chats and requests *)
(* and any number of failures and migrations: a chat of a project is on a  *)
(* branch of that project, the head of a main branch never falls behind    *)
(* the revision its project shows, and the list of a project agrees with   *)
(* the projects of the chats.                                              *)
(***************************************************************************)
EXTENDS Projects, FiniteSetTheorems, TLAPS

-----------------------------------------------------------------------------
(* The invariant *)

Doc == [user : Users, workspace : BOOLEAN, chats : SUBSET Chats,
        revision : Nat, version : Nat]
ChatRecord == [user : Users, project : Projects \cup {None},
               branch : BranchIds \cup {None}]
Ops == {"register", "createProject", "listBranches", "createBranch", "rollback",
        "createChat", "addChat", "removeChat", "deleteProject", "deleteChat"}
RequestRecord ==
  [at : Steps, op : Ops, u : Users, p : Projects \cup {None},
   c : Chats \cup {None}, b : BranchIds \cup {None}, doc : Doc \cup {None},
   seen : Nat, saves : SUBSET {"project", "chat"}]

\* The documents and requests are well formed.
Typed ==
  /\ registered \in Seq(Users)
  /\ DOMAIN project \subseteq Projects /\ IsFiniteSet(DOMAIN project)
  /\ project \in [DOMAIN project -> Doc]
  /\ DOMAIN chat \subseteq Chats /\ chat \in [DOMAIN chat -> ChatRecord]
  /\ DOMAIN head \subseteq BranchIds /\ head \in [DOMAIN head -> Nat]
  /\ system \in Phases
  /\ request \in [Requests -> {Idle} \cup RequestRecord]

\* The loop of the migration is at a project that exists; once it is past the
\* second command for it, the project has its main branch.
Looping == {"own", "main", "chats", "runWorkspace", "runBranch", "runBase"}
LoopInv ==
  /\ system = "members" => todo \in Seq(Users)
  /\ system \in Looping => todo \in Seq(DOMAIN project)
  /\ system \in Looping \ {"own"} => todo # <<>>
  /\ system \in Looping \ {"own", "main"} => Main(Head(todo)) \in DOMAIN head

OnBranch(c) ==
  chat[c].branch \in DOMAIN head /\ chat[c].branch[1] = chat[c].project

\* A chat of a project is on a branch of it, or was never migrated; and none is
\* unmigrated once the migration has been verified.
ChatInv ==
  \A c \in DOMAIN chat : chat[c].project # None =>
    OnBranch(c) \/ (chat[c].branch = None /\ system \notin {"migrated", "serving"})

\* The operations that come to a step.
ProjectOps == Ops \ {"register", "createProject", "deleteChat"}
OpsAt(at) ==
  CASE at = "user" -> {"register"}
    [] at \in {"workspace", "member"} -> {"register", "createProject"}
    [] at = "insertProject" -> {"createProject"}
    [] at = "project" -> ProjectOps
    [] at = "chat" -> {"addChat", "deleteChat"}
    [] at = "main" -> (ProjectOps \ {"removeChat", "deleteProject"}) \cup {"createProject"}
    [] at = "branch" -> {"createChat", "rollback", "addChat"}
    [] at = "insertBranch" -> {"createBranch"}
    [] at \in {"insertChat", "push"} -> {"createChat"}
    [] at = "save" -> {"addChat"}
    [] at \in {"filter", "unset"} -> {"removeChat"}
    [] at \in {"deleteProject", "unsetAll"} -> {"deleteProject"}
    [] at = "deleteChat" -> {"deleteChat"}
    [] OTHER -> {"rollback"}

\* The branch a request has in hand exists and is of its project.
BranchOK(x) ==
  LET r == request[x] IN
  r.at \in Steps =>
    /\ r.op \in OpsAt(r.at)
    /\ r.op \notin {"register", "deleteChat"} => r.p \in Projects
    /\ r.op \in {"createChat", "addChat", "removeChat"} => r.c \in Chats
    /\ r.op = "createBranch" => r.b \in Projects \X Names
    /\ r.at = "branch" => r.b # None
    /\ r.at \in {"insertChat", "head"} => r.b \in DOMAIN head /\ r.b[1] = r.p
    /\ r.at = "mirror" => Main(r.p) \in DOMAIN head
    /\ r.at = "save" /\ r.b = None => Main(r.p) \in DOMAIN head
BranchInv == \A x \in Requests : BranchOK(x)

\* The project a request has read shows no revision older than the project has,
\* as long as there is no main branch.
HasDoc(r) ==
  r.at \in {"main", "filter"} \/ (r.at = "chat" /\ r.op = "addChat")
DocOK(x) ==
  LET r == request[x] IN
  HasDoc(r) =>
    /\ r.doc \in Doc
    /\ r.p \in DOMAIN project /\ Main(r.p) \notin DOMAIN head =>
         project[r.p].revision <= r.doc.revision
DocInv == \A x \in Requests : DocOK(x)

\* The requests that have moved the head of main and not yet its copy.
Mirroring(p) == {x \in Requests : request[x].at = "mirror" /\ request[x].p = p}
Revision(p) == IF p \in DOMAIN project THEN project[p].revision ELSE 0

\* The head of main is ahead by at least the copies still to be written.
HeadInv ==
  \A p \in Projects :
    IF Main(p) \in DOMAIN head
    THEN Revision(p) + Cardinality(Mirroring(p)) <= head[Main(p)]
    ELSE Mirroring(p) = {}

\* A project that is being made has an id of its own.
Creating(x) ==
  request[x].at \in {"workspace", "member", "insertProject"} /\ request[x].op = "createProject"
FreshOK(x) ==
  Creating(x) =>
    /\ request[x].p \notin DOMAIN project
    /\ \A y \in Requests \ {x} : Creating(y) => request[y].p # request[x].p
FreshInv == \A x \in Requests : FreshOK(x)

Inv == Typed /\ LoopInv /\ ChatInv /\ BranchInv /\ DocInv /\ HeadInv /\ FreshInv

-----------------------------------------------------------------------------
(* Operators *)

\* A document is added under its id, unless the id is in use.
LEMMA UpsertIs ==
  ASSUME NEW f, NEW S, f \in [DOMAIN f -> S], NEW k, NEW v \in S
  PROVE  LET g == Upsert(f, k, v) IN
         /\ DOMAIN g = DOMAIN f \cup {k} /\ g \in [DOMAIN g -> S]
         /\ \A j \in DOMAIN f : g[j] = f[j]
         /\ k \notin DOMAIN f => g[k] = v
BY DEF Upsert

LEMMA RestrictIs ==
  ASSUME NEW f, NEW S, f \in [DOMAIN f -> S], NEW k
  PROVE  LET g == Restrict(f, DOMAIN f \ {k}) IN
         /\ DOMAIN g = DOMAIN f \ {k} /\ g \in [DOMAIN g -> S]
         /\ \A j \in DOMAIN g : g[j] = f[j]
BY DEF Restrict

\* Listing a finite set: a sequence of its elements.
LEMMA SetToSeqIs ==
  ASSUME NEW S, IsFiniteSet(S)
  PROVE  SetToSeq(S) \in Seq(S)
<1> DEFINE n == Cardinality(S)
<1>1. n \in Nat /\ ExistsBijection(1..n, S)
  BY FS_CardinalityType
<1>2. PICK f \in [1..n -> S] : IsInjective(f)
  BY <1>1 DEF ExistsBijection, Bijection, Injection
<1>3. SetToSeq(S) \in [1..n -> S]
  BY <1>2 DEF SetToSeq
<1> QED BY <1>1, <1>3

\* Only request x has changed.
OnlyRequest(x) ==
  /\ request' \in [Requests -> {Idle} \cup RequestRecord]
  /\ \A y \in Requests \ {x} : request'[y] = request[y]

LEMMA RequestTypes ==
  ASSUME Typed, NEW x \in Requests, request[x].at \in Steps
  PROVE  request[x] \in RequestRecord /\ request[x] # Idle
BY DEF Typed, Idle, Steps

LEMMA IdleIs == Idle.at = "idle" /\ "idle" \notin Steps
BY DEF Idle, Steps

LEMMA ReplyIs ==
  ASSUME Typed, NEW x \in Requests, Reply(x)
  PROVE  OnlyRequest(x) /\ request'[x] = Idle
BY DEF Typed, Reply, OnlyRequest

LEMMA OneRequest ==
  ASSUME Typed, NEW x \in Requests, NEW r \in RequestRecord,
         request' = [request EXCEPT ![x] = r]
  PROVE  OnlyRequest(x) /\ request'[x] = r
BY DEF Typed, OnlyRequest

LEMMA ProceedIs ==
  ASSUME Typed, NEW x \in Requests, request[x].at \in Steps, NEW s \in Steps,
         Proceed(x, s)
  PROVE  /\ OnlyRequest(x) /\ request'[x] \in RequestRecord
         /\ request'[x].at = s /\ request'[x].op = request[x].op
         /\ request'[x].u = request[x].u
         /\ request'[x].p = request[x].p /\ request'[x].c = request[x].c
         /\ request'[x].b = request[x].b /\ request'[x].doc = request[x].doc
<1> DEFINE r == [request[x] EXCEPT !.at = s]
<1>1. r \in RequestRecord /\ r.at = s
  BY RequestTypes DEF RequestRecord
<1>2. /\ r.op = request[x].op /\ r.u = request[x].u
      /\ r.p = request[x].p /\ r.c = request[x].c
      /\ r.b = request[x].b /\ r.doc = request[x].doc
  BY RequestTypes DEF RequestRecord
<1>3. request' = [request EXCEPT ![x] = r]
  BY DEF Proceed
<1> HIDE DEF r
<1>4. OnlyRequest(x) /\ request'[x] = r
  BY <1>1, <1>3, OneRequest
<1> QED BY <1>1, <1>2, <1>4

-----------------------------------------------------------------------------
(* What a step of a request has to show *)

\* Branches are never removed.
LEMMA BranchStays ==
  ASSUME NEW y \in Requests, BranchOK(y), request'[y] = request[y],
         DOMAIN head \subseteq DOMAIN head'
  PROVE  BranchOK(y)'
BY DEF BranchOK

\* The revision of a project without a main branch only goes back to 0.
RevisionsOK ==
  \A p \in DOMAIN project' :
    \/ p \in DOMAIN project /\ project'[p].revision <= project[p].revision
    \/ project'[p].revision = 0
    \/ Main(p) \in DOMAIN head'

LEMMA DocStays ==
  ASSUME Typed, NEW y \in Requests, DocOK(y), request'[y] = request[y],
         DOMAIN head \subseteq DOMAIN head', RevisionsOK,
         project' \in [DOMAIN project' -> Doc]
  PROVE  DocOK(y)'
<1> SUFFICES ASSUME HasDoc(request[y])
             PROVE  LET r == request[y] IN
                    /\ r.doc \in Doc
                    /\ r.p \in DOMAIN project' /\ Main(r.p) \notin DOMAIN head' =>
                         project'[r.p].revision <= r.doc.revision
  BY DEF DocOK, HasDoc
<1> DEFINE r == request[y]  p == r.p
<1>1. r.doc \in Doc /\ r.doc.revision \in Nat
  BY DEF DocOK, HasDoc, Doc
<1>2. ASSUME p \in DOMAIN project', Main(p) \notin DOMAIN head'
      PROVE  project'[p].revision <= r.doc.revision
  <2>1. project'[p].revision \in Nat
    BY <1>2 DEF Doc
  <2>2. CASE project'[p].revision = 0
    BY <1>1, <2>2
  <2>3. CASE p \in DOMAIN project /\ project'[p].revision <= project[p].revision
    <3>1. project[p].revision \in Nat
      BY <2>3 DEF Typed, Doc
    <3>2. project[p].revision <= r.doc.revision
      BY <1>2, <2>3 DEF DocOK, HasDoc
    <3> QED BY <1>1, <2>1, <2>3, <3>1, <3>2
  <2> QED BY <1>2, <2>2, <2>3 DEF RevisionsOK
<1> QED BY <1>1, <1>2

\* A chat stays as it is, is taken out of its project, or is put on a branch.
ChatsOK ==
  \A c \in DOMAIN chat' :
    \/ c \in DOMAIN chat /\ chat'[c] = chat[c]
    \/ chat'[c].project = None
    \/ chat'[c].branch \in DOMAIN head' /\ chat'[c].branch[1] = chat'[c].project

LEMMA ChatsStay ==
  ASSUME ChatInv, ChatsOK, system = "serving", system' = "serving",
         DOMAIN head \subseteq DOMAIN head'
  PROVE  ChatInv'
BY DEF ChatInv, ChatsOK, OnBranch

DocumentsTyped ==
  /\ registered \in Seq(Users)
  /\ DOMAIN project \subseteq Projects /\ IsFiniteSet(DOMAIN project)
  /\ project \in [DOMAIN project -> Doc]
  /\ DOMAIN chat \subseteq Chats /\ chat \in [DOMAIN chat -> ChatRecord]
  /\ DOMAIN head \subseteq BranchIds /\ head \in [DOMAIN head -> Nat]

\* The only project that may appear is the one the request makes.
ProjectsOK(x) ==
  \A p \in DOMAIN project' : p \in DOMAIN project \/ (Creating(x) /\ p = request[x].p)

LEMMA RequestStep ==
  ASSUME Inv, system = "serving", UNCHANGED control, NEW x \in Requests,
         OnlyRequest(x), BranchOK(x)', DocOK(x)', FreshOK(x)', DocumentsTyped',
         DOMAIN head \subseteq DOMAIN head', ProjectsOK(x), RevisionsOK, ChatsOK,
         HeadInv'
  PROVE  Inv'
<1>1. system' = "serving"
  BY DEF control
<1>2. Typed'
  BY <1>1 DEF Typed, DocumentsTyped, OnlyRequest, Phases
<1>3. LoopInv'
  BY <1>1 DEF LoopInv, Looping
<1>4. ChatInv'
  BY <1>1, ChatsStay DEF Inv
<1>5. BranchInv'
  <2>1. ASSUME NEW y \in Requests PROVE BranchOK(y)'
    BY BranchStays DEF Inv, BranchInv, OnlyRequest
  <2> QED BY <2>1 DEF BranchInv
<1>6. DocInv'
  <2>1. project' \in [DOMAIN project' -> Doc]
    BY DEF DocumentsTyped
  <2>2. ASSUME NEW y \in Requests PROVE DocOK(y)'
    BY <2>1, DocStays DEF Inv, DocInv, OnlyRequest
  <2> QED BY <2>2 DEF DocInv
<1>7. FreshInv'
  <2>1. ASSUME NEW y \in Requests \ {x} PROVE FreshOK(y)'
    BY DEF Inv, FreshInv, FreshOK, Creating, OnlyRequest, ProjectsOK
  <2> QED BY <2>1 DEF FreshInv
<1> QED BY <1>2, <1>3, <1>4, <1>5, <1>6, <1>7 DEF Inv

\* Nobody starts to mirror: there are as many copies to be written, or fewer.
LEMMA MirroringStays ==
  ASSUME NEW p,
         \A y \in Requests : request'[y].at = "mirror" => request'[y] = request[y]
  PROVE  /\ Cardinality(Mirroring(p)) \in Nat /\ Cardinality(Mirroring(p)') \in Nat
         /\ Cardinality(Mirroring(p)') <= Cardinality(Mirroring(p))
         /\ Mirroring(p) = {} => Mirroring(p)' = {}
<1>1. Mirroring(p)' \in SUBSET Mirroring(p) /\ Mirroring(p) \in SUBSET Requests
  BY DEF Mirroring
<1>2. IsFiniteSet(Mirroring(p))
  BY <1>1, ProjectsAssumption, FS_Subset
<1>3. /\ IsFiniteSet(Mirroring(p)')
      /\ Cardinality(Mirroring(p)') <= Cardinality(Mirroring(p))
  BY <1>1, <1>2, FS_Subset
<1>4. Cardinality(Mirroring(p)') \in Nat /\ Cardinality(Mirroring(p)) \in Nat
  BY <1>2, <1>3, FS_CardinalityType
<1> QED BY <1>1, <1>3, <1>4

LEMMA HeadIs ==
  ASSUME Typed, NEW p
  PROVE  /\ Revision(p) \in Nat
         /\ Main(p) \in DOMAIN head => head[Main(p)] \in Nat
BY DEF Typed, Revision, Doc

LEMMA RevisionIsNext ==
  ASSUME project' \in [DOMAIN project' -> Doc], NEW p
  PROVE  Revision(p)' \in Nat
BY DEF Revision, Doc

\* No head moves, no copy is written: the heads stay ahead.
RevisionsStay ==
  \A p \in DOMAIN project' :
    \/ p \in DOMAIN project /\ project'[p].revision <= project[p].revision
    \/ project'[p].revision = 0

LEMMA HeadsStay ==
  ASSUME Inv, head' = head, project' \in [DOMAIN project' -> Doc], RevisionsStay,
         \A y \in Requests : request'[y].at = "mirror" => request'[y] = request[y]
  PROVE  HeadInv'
<1> SUFFICES ASSUME NEW p \in Projects
             PROVE  IF Main(p) \in DOMAIN head
                    THEN Revision(p)' + Cardinality(Mirroring(p)') <= head[Main(p)]
                    ELSE Mirroring(p)' = {}
  BY DEF HeadInv
<1>1. /\ Cardinality(Mirroring(p)) \in Nat /\ Cardinality(Mirroring(p)') \in Nat
      /\ Cardinality(Mirroring(p)') <= Cardinality(Mirroring(p))
      /\ Mirroring(p) = {} => Mirroring(p)' = {}
  BY MirroringStays
<1>2. Revision(p)' \in Nat
  BY RevisionIsNext
<1>3. /\ Revision(p) \in Nat
      /\ Main(p) \in DOMAIN head => head[Main(p)] \in Nat
  BY HeadIs DEF Inv
<1>4. Revision(p)' <= Revision(p)
  <2>1. CASE p \notin DOMAIN project'
    BY <1>3, <2>1 DEF Revision
  <2>2. CASE p \in DOMAIN project' /\ project'[p].revision = 0
    BY <1>3, <2>2 DEF Revision
  <2>3. CASE p \in DOMAIN project' /\ p \in DOMAIN project
             /\ project'[p].revision <= project[p].revision
    BY <2>3 DEF Revision
  <2> QED BY <2>1, <2>2, <2>3 DEF RevisionsStay
<1>5. CASE Main(p) \in DOMAIN head
  <2>1. Revision(p) + Cardinality(Mirroring(p)) <= head[Main(p)]
    BY <1>5 DEF Inv, HeadInv
  <2> QED BY <1>1, <1>2, <1>3, <1>4, <1>5, <2>1
<1>6. CASE Main(p) \notin DOMAIN head
  BY <1>1, <1>6 DEF Inv, HeadInv
<1> QED BY <1>5, <1>6

\* A step that moves no head: what it has to show of its request and documents.
RequestOK(x) == BranchOK(x) /\ DocOK(x) /\ FreshOK(x) /\ request[x].at # "mirror"

LEMMA QuietStep ==
  ASSUME Inv, system = "serving", UNCHANGED control, head' = head,
         NEW x \in Requests, OnlyRequest(x), RequestOK(x)', DocumentsTyped',
         ProjectsOK(x), RevisionsStay, ChatsOK
  PROVE  Inv'
<1>1. \A y \in Requests : request'[y].at = "mirror" => request'[y] = request[y]
  BY DEF OnlyRequest, RequestOK
<1>2. HeadInv'
  BY <1>1, HeadsStay DEF DocumentsTyped
<1>3. RevisionsOK
  BY DEF RevisionsStay, RevisionsOK
<1> QED BY <1>2, <1>3, RequestStep DEF RequestOK

LEMMA IdleRequest ==
  ASSUME NEW x, request'[x] = Idle
  PROVE  RequestOK(x)'
BY IdleIs DEF RequestOK, BranchOK, DocOK, HasDoc, FreshOK, Creating

\* The documents are as they were.
LEMMA SameDocuments ==
  ASSUME Typed, NEW x
  PROVE  /\ UNCHANGED <<registered, project, chat, head>> => DocumentsTyped'
         /\ UNCHANGED project => RevisionsStay /\ RevisionsOK /\ ProjectsOK(x)
         /\ UNCHANGED chat => ChatsOK
<1>1. UNCHANGED <<registered, project, chat, head>> => DocumentsTyped'
  BY DEF Typed, DocumentsTyped
<1>2. \A p \in DOMAIN project : project[p].revision <= project[p].revision
  BY DEF Typed, Doc
<1>3. UNCHANGED project => RevisionsStay /\ RevisionsOK /\ ProjectsOK(x)
  BY <1>2 DEF RevisionsStay, RevisionsOK, ProjectsOK
<1>4. UNCHANGED chat => ChatsOK
  BY DEF ChatsOK
<1> QED BY <1>1, <1>3, <1>4

-----------------------------------------------------------------------------
(* Requests that arrive *)

\* What is known of a request that has arrived.
Arrives(x, op, u, p, c, b, step) ==
  /\ op \in Ops /\ u \in Users /\ p \in Projects \cup {None}
  /\ c \in Chats \cup {None} /\ b \in BranchIds \cup {None}
  /\ step \in {"user", "workspace", "project", "chat"} /\ op \in OpsAt(step)
  /\ step = "chat" => op = "deleteChat"
  /\ op \notin {"register", "deleteChat"} => p \in Projects
  /\ op \in {"createChat", "addChat", "removeChat"} => c \in Chats
  /\ op = "deleteProject" => c = None
  /\ op = "createBranch" => b \in Projects \X Names
  /\ IF step = "workspace" THEN FreshProject(p) ELSE p \in DOMAIN project \cup {None}
  /\ op = "createChat" => FreshChat(c)
  /\ op \in {"addChat", "removeChat"} => c \in DOMAIN chat
  /\ Arrive(x, op, u, p, c, b, step)

LEMMA Arrivals ==
  ASSUME Inv, NEW x \in Requests, ArriveUser(x) \/ ArriveProject(x) \/ ArriveChat(x)
  PROVE  \E op, u, p, c, b, step : Arrives(x, op, u, p, c, b, step)
<1>1. Range(registered) \subseteq Users
  BY DEF Inv, Typed, Range
<1>2. CASE ArriveUser(x)
  <2>1. ASSUME NEW u \in Users, Arrive(x, "register", u, None, None, None, "user")
        PROVE  Arrives(x, "register", u, None, None, None, "user")
    BY <2>1 DEF Arrives, OpsAt, Ops
  <2>2. ASSUME NEW u \in Range(registered), NEW p \in Projects, FreshProject(p),
               Arrive(x, "createProject", u, p, None, None, "workspace")
        PROVE  Arrives(x, "createProject", u, p, None, None, "workspace")
    BY <1>1, <2>2 DEF Arrives, OpsAt, Ops
  <2> QED BY <1>2, <2>1, <2>2 DEF ArriveUser
<1>3. CASE ArriveProject(x)
  <2>1. PICK p \in DOMAIN project : LET u == project[p].user IN
          \/ \E op \in {"listBranches", "deleteProject"} :
               Arrive(x, op, u, p, None, None, "project")
          \/ \E n \in Names : Arrive(x, "createBranch", u, p, None, <<p, n>>, "project")
          \/ \E b \in {None} \cup DOMAIN head :
               \/ Arrive(x, "rollback", u, p, None, b, "project")
               \/ \E c \in Chats : FreshChat(c) /\ Arrive(x, "createChat", u, p, c, b, "project")
          \/ \E op \in {"addChat", "removeChat"}, c \in DOMAIN chat :
               /\ op = "addChat" => chat[c].user = u
               /\ Arrive(x, op, u, p, c, None, "project")
    BY <1>3 DEF ArriveProject
  <2> DEFINE u == project[p].user
  <2>2. p \in Projects /\ u \in Users
    BY DEF Inv, Typed, Doc
  <2>3. DOMAIN head \subseteq BranchIds /\ DOMAIN chat \subseteq Chats
    BY DEF Inv, Typed
  <2> HIDE DEF u
  <2>4. ASSUME NEW op \in {"listBranches", "deleteProject"},
               Arrive(x, op, u, p, None, None, "project")
        PROVE  Arrives(x, op, u, p, None, None, "project")
    BY <2>2, <2>4 DEF Arrives, OpsAt, Ops, ProjectOps
  <2>5. ASSUME NEW n \in Names, Arrive(x, "createBranch", u, p, None, <<p, n>>, "project")
        PROVE  Arrives(x, "createBranch", u, p, None, <<p, n>>, "project")
    <3>1. <<p, n>> \in BranchIds /\ <<p, n>> \in Projects \X Names
      BY <2>2 DEF BranchIds
    <3> QED BY <2>2, <2>5, <3>1 DEF Arrives, OpsAt, Ops, ProjectOps
  <2>6. ASSUME NEW b \in {None} \cup DOMAIN head,
               Arrive(x, "rollback", u, p, None, b, "project")
        PROVE  Arrives(x, "rollback", u, p, None, b, "project")
    BY <2>2, <2>3, <2>6 DEF Arrives, OpsAt, Ops, ProjectOps
  <2>7. ASSUME NEW b \in {None} \cup DOMAIN head, NEW c \in Chats, FreshChat(c),
               Arrive(x, "createChat", u, p, c, b, "project")
        PROVE  Arrives(x, "createChat", u, p, c, b, "project")
    BY <2>2, <2>3, <2>7 DEF Arrives, OpsAt, Ops, ProjectOps
  <2>8. ASSUME NEW op \in {"addChat", "removeChat"}, NEW c \in DOMAIN chat,
               Arrive(x, op, u, p, c, None, "project")
        PROVE  Arrives(x, op, u, p, c, None, "project")
    BY <2>2, <2>3, <2>8 DEF Arrives, OpsAt, Ops, ProjectOps
  <2> QED BY <2>1, <2>4, <2>5, <2>6, <2>7, <2>8 DEF u
<1>4. CASE ArriveChat(x)
  <2>1. PICK c \in DOMAIN chat :
          Arrive(x, "deleteChat", chat[c].user, None, c, None, "chat")
    BY <1>4 DEF ArriveChat
  <2>2. c \in Chats /\ chat[c].user \in Users
    BY DEF Inv, Typed, ChatRecord
  <2>3. Arrives(x, "deleteChat", chat[c].user, None, c, None, "chat")
    BY <2>1, <2>2 DEF Arrives, OpsAt, Ops
  <2> QED BY <2>3
<1> QED BY <1>2, <1>3, <1>4

\* The new request is as Arrive makes it; nothing else changes.
LEMMA ArriveIs ==
  ASSUME Typed, NEW x \in Requests, NEW op, NEW u, NEW p, NEW c, NEW b, NEW step,
         Arrives(x, op, u, p, c, b, step)
  PROVE  /\ request[x] = Idle /\ OnlyRequest(x) /\ request'[x] \in RequestRecord
         /\ request'[x].at = step /\ request'[x].op = op /\ request'[x].p = p
         /\ request'[x].c = c /\ request'[x].b = b
         /\ request'[x].saves = {"project", "chat"}
         /\ system = "serving" /\ UNCHANGED control
         /\ UNCHANGED <<registered, project, chat, head>>
<1> DEFINE r == [at |-> step, op |-> op, u |-> u, p |-> p, c |-> c, b |-> b,
                 doc |-> None, seen |-> 0, saves |-> {"project", "chat"}]
<1>1. r \in RequestRecord
  BY DEF Arrives, RequestRecord, Steps
<1>2. request' = [request EXCEPT ![x] = r] /\ request[x] = Idle /\ system = "serving"
      /\ UNCHANGED control /\ UNCHANGED <<registered, project, chat, head>>
  BY DEF Arrives, Arrive, accounts
<1>3. /\ r.at = step /\ r.op = op /\ r.p = p /\ r.c = c /\ r.b = b
      /\ r.saves = {"project", "chat"}
  OBVIOUS
<1> HIDE DEF r
<1>4. OnlyRequest(x) /\ request'[x] = r
  BY <1>1, <1>2, OneRequest
<1> QED BY <1>1, <1>2, <1>3, <1>4

LEMMA ArriveStep ==
  ASSUME Inv, NEW x \in Requests, ArriveUser(x) \/ ArriveProject(x) \/ ArriveChat(x)
  PROVE  Inv'
<1>1. PICK op, u, p, c, b, step : Arrives(x, op, u, p, c, b, step)
  BY Arrivals
<1>2. /\ OnlyRequest(x) /\ request'[x].at = step /\ request'[x].op = op
      /\ request'[x].p = p /\ request'[x].c = c /\ request'[x].b = b
      /\ system = "serving" /\ UNCHANGED control
      /\ UNCHANGED <<registered, project, chat, head>>
  BY <1>1, ArriveIs DEF Inv
<1>3. BranchOK(x)'
  BY <1>1, <1>2 DEF BranchOK, Arrives
<1>4. DocOK(x)'
  BY <1>1, <1>2 DEF DocOK, HasDoc, Arrives
<1>5. FreshOK(x)'
  <2> SUFFICES ASSUME Creating(x)'
               PROVE  /\ p \notin DOMAIN project
                      /\ \A y \in Requests \ {x} : Creating(y)' => request'[y].p # p
    BY <1>2 DEF FreshOK
  <2>1. FreshProject(p)
    BY <1>1, <1>2 DEF Creating, Arrives, OpsAt
  <2>2. ASSUME NEW y \in Requests \ {x}, Creating(y)' PROVE request[y].p # p
    BY <1>2, <2>1, <2>2, IdleIs DEF FreshProject, Creating, OnlyRequest
  <2> QED BY <1>2, <2>1, <2>2 DEF OnlyRequest, FreshProject
<1>6. RequestOK(x)'
  BY <1>1, <1>2, <1>3, <1>4, <1>5 DEF RequestOK, Arrives
<1> QED BY <1>2, <1>6, QuietStep, SameDocuments DEF Inv

-----------------------------------------------------------------------------
(* Requests that read *)

\* A request moves on with all it has in hand.
LEMMA ProceedOK ==
  ASSUME Inv, NEW x \in Requests, request[x].at \in Steps, NEW s \in Steps,
         Proceed(x, s), DOMAIN head \subseteq DOMAIN head',
         request[x].op \in OpsAt(s),
         s \notin {"main", "filter", "chat", "branch", "mirror"},
         s \in {"insertChat", "head", "save"} => request[x].at = s,
         s \in {"workspace", "member", "insertProject"} =>
           \/ request[x].op # "createProject"
           \/ Creating(x) /\ DOMAIN project' \subseteq DOMAIN project
  PROVE  OnlyRequest(x) /\ RequestOK(x)'
<1> DEFINE r == request'[x]
<1>1. /\ OnlyRequest(x) /\ r \in RequestRecord
      /\ r.at = s /\ r.op = request[x].op /\ r.p = request[x].p
      /\ r.c = request[x].c /\ r.b = request[x].b
  BY ProceedIs DEF Inv
<1>2. BranchOK(x) /\ FreshOK(x)
  BY DEF Inv, BranchInv, FreshInv
<1> HIDE DEF r
<1>3. BranchOK(x)'
  BY <1>1, <1>2 DEF BranchOK, r
<1>4. DocOK(x)'
  BY <1>1 DEF DocOK, HasDoc, r
<1>5. FreshOK(x)'
  <2>1. CASE s \notin {"workspace", "member", "insertProject"} \/ r.op # "createProject"
    BY <1>1, <2>1 DEF FreshOK, Creating, r
  <2>2. CASE Creating(x) /\ DOMAIN project' \subseteq DOMAIN project
    BY <1>1, <1>2, <2>2 DEF FreshOK, Creating, OnlyRequest, r
  <2> QED BY <1>1, <2>1, <2>2
<1> QED BY <1>1, <1>3, <1>4, <1>5 DEF RequestOK, r

LEMMA ReplyOK ==
  ASSUME Inv, NEW x \in Requests, Reply(x)
  PROVE  OnlyRequest(x) /\ RequestOK(x)'
BY ReplyIs, IdleRequest DEF Inv

LEMMA SaveUserStep ==
  ASSUME Inv, NEW x \in Requests, SaveUser(x)
  PROVE  Inv'
<1> DEFINE u == request[x].u
<1>1. /\ request[x].at = "user" /\ "user" \in Steps /\ "workspace" \in Steps
      /\ system = "serving" /\ UNCHANGED control /\ UNCHANGED <<project, chat, head>>
  BY DEF SaveUser, At, Steps
<1>2. request[x] \in RequestRecord /\ u \in Users
  BY <1>1, RequestTypes DEF Inv, RequestRecord
<1>3. request[x].op = "register"
  BY <1>1 DEF Inv, BranchInv, BranchOK, OpsAt
<1>4. registered' \in Seq(Users)
  BY <1>2 DEF SaveUser, Inv, Typed
<1>5. OnlyRequest(x) /\ RequestOK(x)'
  <2>1. CASE Reply(x)
    BY <2>1, ReplyOK
  <2>2. CASE Proceed(x, "workspace")
    BY <1>1, <1>3, <2>2, ProceedOK DEF OpsAt
  <2> QED BY <2>1, <2>2 DEF SaveUser
<1>6. DocumentsTyped'
  BY <1>1, <1>4 DEF DocumentsTyped, Inv, Typed
<1> QED BY <1>1, <1>5, <1>6, QuietStep, SameDocuments DEF Inv

LEMMA AccountStep ==
  ASSUME Inv, NEW x \in Requests, UpsertWorkspace(x) \/ UpsertMember(x)
  PROVE  Inv'
<1>1. /\ request[x].at \in {"workspace", "member"} /\ request[x].at \in Steps
      /\ {"member", "insertProject"} \subseteq Steps
      /\ system = "serving" /\ UNCHANGED control
      /\ UNCHANGED <<registered, project, chat, head>>
  BY DEF UpsertWorkspace, UpsertMember, At, Steps
<1>2. request[x].op \in {"register", "createProject"}
  BY <1>1 DEF Inv, BranchInv, BranchOK, OpsAt
<1>3. OnlyRequest(x) /\ RequestOK(x)'
  <2>1. CASE Reply(x)
    BY <2>1, ReplyOK
  <2>2. CASE Proceed(x, "member")
    BY <1>1, <1>2, <2>2, ProceedOK DEF OpsAt, Creating
  <2>3. CASE Proceed(x, "insertProject") /\ request[x].op # "register"
    BY <1>1, <1>2, <2>3, ProceedOK DEF OpsAt, Creating
  <2> QED BY <2>1, <2>2, <2>3 DEF UpsertWorkspace, UpsertMember
<1> QED BY <1>1, <1>3, QuietStep, SameDocuments DEF Inv

\* A request takes the project as it is and moves on.
Carries(x, d, s) == request' = [request EXCEPT ![x].doc = d, ![x].at = s]

LEMMA TakeProject ==
  ASSUME Typed, NEW x \in Requests, request[x].at \in Steps, NEW s \in Steps,
         NEW d \in Doc,
         Carries(x, d, s)
  PROVE  /\ OnlyRequest(x) /\ request'[x] \in RequestRecord
         /\ request'[x].at = s /\ request'[x].doc = d
         /\ request'[x].op = request[x].op /\ request'[x].p = request[x].p
         /\ request'[x].c = request[x].c /\ request'[x].b = request[x].b
         /\ request'[x].saves = request[x].saves
<1> DEFINE e == [request[x] EXCEPT !.doc = d]  r == [e EXCEPT !.at = s]
<1>1. /\ e \in RequestRecord /\ e.doc = d
      /\ e.op = request[x].op /\ e.p = request[x].p
      /\ e.c = request[x].c /\ e.b = request[x].b
      /\ e.saves = request[x].saves
  BY RequestTypes DEF RequestRecord
<1>2. request' = [request EXCEPT ![x] = r]
  BY DEF Typed, Carries
<1> HIDE DEF e
<1>3. /\ r \in RequestRecord /\ r.at = s /\ r.doc = e.doc
      /\ r.op = e.op /\ r.p = e.p /\ r.c = e.c /\ r.b = e.b /\ r.saves = e.saves
  BY <1>1 DEF RequestRecord
<1> HIDE DEF r
<1>4. OnlyRequest(x) /\ request'[x] = r
  BY <1>2, <1>3, OneRequest
<1> QED BY <1>1, <1>3, <1>4

\* The project as it is goes with the request to the next step of its operation.
LEMMA ReadProjectIs ==
  ASSUME Inv, NEW x \in Requests, ReadProject(x)
  PROVE  LET r == request[x]  q == request'[x] IN
         \/ Reply(x)
         \/ /\ r.p \in DOMAIN project /\ OnlyRequest(x) /\ q.doc = project[r.p]
            /\ q.op = r.op /\ q.p = r.p /\ q.c = r.c /\ q.b = r.b /\ q.saves = r.saves
            /\ \/ /\ q.at = "main"
                  /\ r.op \in {"listBranches", "createBranch", "createChat", "rollback"}
               \/ q.at = "branch" /\ r.op \in {"createChat", "rollback"} /\ r.b # None
               \/ q.at = "chat" /\ r.op = "addChat"
               \/ q.at = "filter" /\ r.op = "removeChat"
               \/ q.at = "deleteProject" /\ r.op = "deleteProject"
<1> DEFINE r == request[x]
<1>1. r.at = "project" /\ "project" \in Steps
  BY DEF ReadProject, At, Steps
<1>2. r.op \in ProjectOps
  BY <1>1 DEF Inv, BranchInv, BranchOK, OpsAt
<1>3. CASE ~Reply(x)
  <2>1. Owned(r.p, r.u)
    BY <1>3 DEF ReadProject
  <2>2. PICK s :
          /\ Carries(x, project[r.p], s)
          /\ \/ /\ s = "main"
                /\ r.op \in {"listBranches", "createBranch", "createChat", "rollback"}
             \/ s = "branch" /\ r.op \in {"createChat", "rollback"} /\ r.b # None
             \/ s = "chat" /\ r.op = "addChat"
             \/ s = "filter" /\ r.op = "removeChat"
             \/ s = "deleteProject" /\ r.op = "deleteProject"
    <3>1. CASE r.op \in {"listBranches", "createBranch"}
      BY <2>1, <3>1 DEF ReadProject, Carries
    <3>2. CASE r.op \in {"createChat", "rollback"}
      BY <2>1, <3>2 DEF ReadProject, Carries
    <3>3. CASE r.op \in {"addChat", "removeChat", "deleteProject"}
      BY <2>1, <3>3 DEF ReadProject, Carries
    <3> QED BY <1>2, <3>1, <3>2, <3>3 DEF ProjectOps, Ops
  <2>3. s \in Steps
    BY <2>2 DEF Steps
  <2>4. r.p \in DOMAIN project /\ project[r.p] \in Doc
    BY <2>1 DEF Owned, Inv, Typed
  <2> HIDE DEF r
  <2>5. /\ OnlyRequest(x) /\ request'[x].at = s /\ request'[x].doc = project[r.p]
        /\ request'[x].op = r.op /\ request'[x].p = r.p /\ request'[x].c = r.c
        /\ request'[x].b = r.b /\ request'[x].saves = r.saves
    BY <1>1, <2>2, <2>3, <2>4, TakeProject DEF Inv, r
  <2> QED BY <2>2, <2>4, <2>5 DEF r
<1> QED BY <1>3

LEMMA ReadProjectStep ==
  ASSUME Inv, NEW x \in Requests, ReadProject(x)
  PROVE  Inv'
<1> DEFINE r == request[x]  q == request'[x]
<1>1. /\ r.at = "project" /\ "project" \in Steps
      /\ system = "serving" /\ UNCHANGED control
      /\ UNCHANGED <<registered, project, chat, head>>
  BY DEF ReadProject, At, Steps, accounts
<1>2. /\ r.op \in ProjectOps
      /\ r.p \in Projects
      /\ r.op \in {"createChat", "addChat", "removeChat"} => r.c \in Chats
      /\ r.op = "createBranch" => r.b \in Projects \X Names
  BY <1>1 DEF Inv, BranchInv, BranchOK, OpsAt, ProjectOps
<1>3. OnlyRequest(x) /\ RequestOK(x)'
  <2>1. CASE Reply(x)
    BY <2>1, ReplyOK
  <2>2. CASE ~Reply(x)
    <3>1. /\ r.p \in DOMAIN project /\ OnlyRequest(x) /\ q.doc = project[r.p]
          /\ q.op = r.op /\ q.p = r.p /\ q.c = r.c /\ q.b = r.b
          /\ \/ /\ q.at = "main"
                /\ r.op \in {"listBranches", "createBranch", "createChat", "rollback"}
             \/ q.at = "branch" /\ r.op \in {"createChat", "rollback"} /\ r.b # None
             \/ q.at = "chat" /\ r.op = "addChat"
             \/ q.at = "filter" /\ r.op = "removeChat"
             \/ q.at = "deleteProject" /\ r.op = "deleteProject"
      BY <2>2, ReadProjectIs
    <3>2. project[r.p] \in Doc /\ project[r.p].revision \in Nat
      BY <3>1 DEF Inv, Typed, Doc
    <3> HIDE DEF r, q
    <3>3. BranchOK(x)'
      BY <1>2, <3>1 DEF BranchOK, OpsAt, ProjectOps, Ops, q
    <3>4. DocOK(x)'
      BY <1>1, <3>1, <3>2 DEF DocOK, q
    <3>5. FreshOK(x)' /\ q.at # "mirror"
      BY <3>1 DEF FreshOK, Creating, q
    <3> QED BY <3>1, <3>3, <3>4, <3>5 DEF RequestOK, q
  <2> QED BY <2>1, <2>2
<1> QED BY <1>1, <1>3, QuietStep, SameDocuments DEF Inv

\* A request takes a branch and moves on.
Takes(x, b, s) == request' = [request EXCEPT ![x].b = b, ![x].at = s]

LEMMA TakeBranch ==
  ASSUME Typed, NEW x \in Requests, request[x].at \in Steps, NEW s \in Steps,
         NEW b \in BranchIds \cup {None},
         Takes(x, b, s)
  PROVE  /\ OnlyRequest(x) /\ request'[x] \in RequestRecord
         /\ request'[x].at = s /\ request'[x].doc = request[x].doc
         /\ request'[x].op = request[x].op /\ request'[x].p = request[x].p
         /\ request'[x].c = request[x].c /\ request'[x].b = b
         /\ request'[x].saves = request[x].saves
<1> DEFINE e == [request[x] EXCEPT !.b = b]  r == [e EXCEPT !.at = s]
<1>1. /\ e \in RequestRecord /\ e.doc = request[x].doc
      /\ e.op = request[x].op /\ e.p = request[x].p
      /\ e.c = request[x].c /\ e.b = b
      /\ e.saves = request[x].saves
  BY RequestTypes DEF RequestRecord
<1>2. request' = [request EXCEPT ![x] = r]
  BY DEF Typed, Takes
<1> HIDE DEF e
<1>3. /\ r \in RequestRecord /\ r.at = s /\ r.doc = e.doc
      /\ r.op = e.op /\ r.p = e.p /\ r.c = e.c /\ r.b = e.b /\ r.saves = e.saves
  BY <1>1 DEF RequestRecord
<1> HIDE DEF r
<1>4. OnlyRequest(x) /\ request'[x] = r
  BY <1>2, <1>3, OneRequest
<1> QED BY <1>1, <1>3, <1>4

\* To add a chat is to look for its branch, or to make the main branch for it.
LEMMA ReadChatIs ==
  ASSUME Inv, NEW x \in Requests, ReadChat(x)
  PROVE  LET r == request[x]  q == request'[x] IN
         \/ Reply(x)
         \/ r.op = "deleteChat" /\ Proceed(x, "deleteChat")
         \/ /\ r.op = "addChat" /\ r.c \in DOMAIN chat /\ OnlyRequest(x)
            /\ q.b = chat[r.c].branch
            /\ q.at = IF q.b = None THEN "main" ELSE "branch"
            /\ q.op = r.op /\ q.p = r.p /\ q.c = r.c
            /\ q.doc = r.doc /\ q.saves = r.saves
<1> DEFINE r == request[x]  b == chat[r.c].branch
           s == IF b = None THEN "main" ELSE "branch"
<1>1. Typed /\ r.at \in Steps
  BY DEF ReadChat, At, Steps, Inv
<1>2. CASE /\ r.op = "addChat" /\ r.c \in DOMAIN chat
           /\ request' = [request EXCEPT ![x].b = b, ![x].at = s]
  <2>1. b \in BranchIds \cup {None}
    BY <1>2 DEF Inv, Typed, ChatRecord
  <2>2. s \in Steps /\ Takes(x, b, s)
    BY <1>2 DEF Takes, Steps
  <2> HIDE DEF b, s
  <2>3. /\ OnlyRequest(x) /\ request'[x].at = s /\ request'[x].doc = r.doc
        /\ request'[x].op = r.op /\ request'[x].p = r.p /\ request'[x].c = r.c
        /\ request'[x].b = b /\ request'[x].saves = r.saves
    BY <1>1, <2>1, <2>2, TakeBranch
  <2> QED BY <1>2, <2>3 DEF b, s
<1> QED BY <1>2 DEF ReadChat

LEMMA ReadChatStep ==
  ASSUME Inv, NEW x \in Requests, ReadChat(x)
  PROVE  Inv'
<1> DEFINE r == request[x]  q == request'[x]
<1>1. /\ r.at = "chat" /\ "chat" \in Steps
      /\ {"main", "branch", "deleteChat"} \subseteq Steps
      /\ system = "serving" /\ UNCHANGED control
      /\ UNCHANGED <<registered, project, chat, head>>
  BY DEF ReadChat, At, Steps, accounts
<1>2. BranchOK(x) /\ DocOK(x)
  BY DEF Inv, BranchInv, DocInv
<1>3. OnlyRequest(x) /\ RequestOK(x)'
  <2>1. CASE Reply(x)
    BY <2>1, ReplyOK
  <2>2. CASE r.op = "deleteChat" /\ Proceed(x, "deleteChat")
    BY <1>1, <2>2, ProceedOK DEF OpsAt
  <2>3. CASE /\ r.op = "addChat" /\ OnlyRequest(x)
             /\ q.at = IF q.b = None THEN "main" ELSE "branch"
             /\ q.op = r.op /\ q.p = r.p /\ q.c = r.c /\ q.doc = r.doc
    <3>1. q.at \in {"main", "branch"} /\ (q.at = "branch" => q.b # None)
      BY <2>3
    <3>2. r.p \in Projects /\ r.c \in Chats
      BY <1>1, <1>2, <2>3 DEF BranchOK
    <3>3. BranchOK(x)'
      <4> HIDE DEF r, q
      <4>1. q.op \in OpsAt(q.at)
        BY <2>3, <3>1 DEF OpsAt, ProjectOps, Ops
      <4> QED BY <2>3, <3>1, <3>2, <4>1 DEF BranchOK, q
    <3>4. DocOK(x)'
      BY <1>1, <1>2, <2>3 DEF DocOK, HasDoc
    <3>5. FreshOK(x)' /\ q.at # "mirror"
      BY <3>1 DEF FreshOK, Creating
    <3> QED BY <2>3, <3>3, <3>4, <3>5 DEF RequestOK
  <2> QED BY <2>1, <2>2, <2>3, ReadChatIs
<1> QED BY <1>1, <1>3, QuietStep, SameDocuments DEF Inv

\* With its branch in hand a request is answered or goes on to write; the chat
\* to be added keeps the branch it had.
LEMMA WithBranchIs ==
  ASSUME Typed, NEW x \in Requests, request[x].at \in {"main", "branch"}, BranchOK(x),
         head' \in [DOMAIN head' -> Nat], DOMAIN head' \subseteq BranchIds,
         NEW b \in DOMAIN head', WithBranch(x, b)
  PROVE  LET r == request[x]  q == request'[x] IN
         \/ Reply(x)
         \/ /\ r.op \in {"createBranch", "createChat", "addChat", "rollback"}
            /\ OnlyRequest(x) /\ q \in RequestRecord
            /\ q.op = r.op /\ q.p = r.p /\ q.c = r.c /\ q.saves = r.saves
            /\ q.at = CASE r.op = "createBranch" -> "insertBranch"
                        [] r.op = "createChat" -> "insertChat"
                        [] r.op = "addChat" -> "save"
                        [] r.op = "rollback" -> "head"
            /\ q.b = IF r.op \in {"createChat", "rollback"} THEN b ELSE r.b
<1> DEFINE r == request[x]
<1>1. r \in RequestRecord
  BY RequestTypes DEF Steps
<1>2. r.op \in {"listBranches", "createProject", "createBranch", "createChat",
                "addChat", "rollback"}
  BY DEF BranchOK, OpsAt, ProjectOps, Ops, Steps
<1> SUFFICES ASSUME ~Reply(x) PROVE
            /\ r.op \in {"createBranch", "createChat", "addChat", "rollback"}
            /\ OnlyRequest(x) /\ request'[x] \in RequestRecord
            /\ request'[x].op = r.op /\ request'[x].p = r.p /\ request'[x].c = r.c
            /\ request'[x].saves = r.saves
            /\ request'[x].at = CASE r.op = "createBranch" -> "insertBranch"
                                  [] r.op = "createChat" -> "insertChat"
                                  [] r.op = "addChat" -> "save"
                                  [] r.op = "rollback" -> "head"
            /\ request'[x].b = IF r.op \in {"createChat", "rollback"} THEN b ELSE r.b
  OBVIOUS
<1> DEFINE nb == IF r.op \in {"createChat", "rollback"} THEN b ELSE r.b
           ns == IF r.op = "rollback" THEN head'[b] ELSE 0
           na == CASE r.op = "createBranch" -> "insertBranch"
                   [] r.op = "createChat" -> "insertChat"
                   [] r.op = "addChat" -> "save"
                   [] r.op = "rollback" -> "head"
           e == [r EXCEPT !.b = nb]
           f == [e EXCEPT !.seen = ns]
           n == [f EXCEPT !.at = na]
<1>3. r.op \in {"createBranch", "createChat", "addChat", "rollback"}
  BY <1>2 DEF WithBranch
<1>4. request' = [request EXCEPT ![x] = n]
  BY <1>1 DEF WithBranch, RequestRecord
<1>5. nb \in BranchIds \cup {None} /\ ns \in Nat
  BY <1>1 DEF RequestRecord
<1>6. na \in Steps
  BY <1>3 DEF Steps
<1> HIDE DEF nb, ns, na, n
<1>7. /\ e \in RequestRecord /\ e.b = nb /\ e.op = r.op /\ e.p = r.p /\ e.c = r.c
      /\ e.saves = r.saves
  BY <1>1, <1>5 DEF RequestRecord
<1> HIDE DEF e
<1>8. /\ f \in RequestRecord /\ f.b = nb /\ f.op = r.op /\ f.p = r.p /\ f.c = r.c
      /\ f.saves = r.saves
  BY <1>5, <1>7 DEF RequestRecord
<1> HIDE DEF f
<1>9. /\ n \in RequestRecord /\ n.at = na /\ n.saves = r.saves
      /\ n.b = nb /\ n.op = r.op /\ n.p = r.p /\ n.c = r.c
  BY <1>6, <1>8 DEF RequestRecord, n
<1>10. OnlyRequest(x) /\ request'[x] = n
  BY <1>4, <1>9, OneRequest
<1> QED BY <1>3, <1>9, <1>10 DEF na, nb

LEMMA WithBranchOK ==
  ASSUME Inv, NEW x \in Requests, request[x].at \in {"main", "branch"},
         head' \in [DOMAIN head' -> Nat], DOMAIN head' \subseteq BranchIds,
         NEW b \in DOMAIN head', b[1] = request[x].p,
         request[x].b = None => Main(request[x].p) \in DOMAIN head',
         WithBranch(x, b)
  PROVE  OnlyRequest(x) /\ RequestOK(x)'
<1> DEFINE r == request[x]  q == request'[x]
<1>1. BranchOK(x)
  BY DEF Inv, BranchInv
<1>2. CASE Reply(x)
  BY <1>2, ReplyOK
<1>3. CASE ~Reply(x)
  <2>1. /\ r.op \in {"createBranch", "createChat", "addChat", "rollback"}
        /\ OnlyRequest(x) /\ q \in RequestRecord
        /\ q.op = r.op /\ q.p = r.p /\ q.c = r.c
        /\ q.at = CASE r.op = "createBranch" -> "insertBranch"
                    [] r.op = "createChat" -> "insertChat"
                    [] r.op = "addChat" -> "save"
                    [] r.op = "rollback" -> "head"
        /\ q.b = IF r.op \in {"createChat", "rollback"} THEN b ELSE r.b
    BY <1>1, <1>3, WithBranchIs DEF Inv
  <2>2. /\ r.p \in Projects
        /\ r.op \in {"createChat", "addChat"} => r.c \in Chats
        /\ r.op = "createBranch" => r.b \in Projects \X Names
    BY <1>1, <2>1 DEF BranchOK, Steps
  <2>3. q.at \in {"insertBranch", "insertChat", "save", "head"}
    BY <2>1
  <2> HIDE DEF r, q
  <2>4. BranchOK(x)'
    <3>1. q.op \in OpsAt(q.at)
      BY <2>1 DEF OpsAt
    <3>2. q.at \in {"insertChat", "head"} => q.b \in DOMAIN head' /\ q.b[1] = q.p
      BY <2>1 DEF r
    <3>3. q.at = "save" /\ q.b = None => Main(q.p) \in DOMAIN head'
      BY <2>1 DEF r
    <3> QED BY <2>1, <2>2, <2>3, <3>1, <3>2, <3>3 DEF BranchOK, q
  <2>5. DocOK(x)' /\ FreshOK(x)' /\ q.at # "mirror"
    BY <2>1, <2>3 DEF DocOK, HasDoc, FreshOK, Creating, q
  <2> QED BY <2>1, <2>4, <2>5 DEF RequestOK, q
<1> QED BY <1>2, <1>3

LEMMA FindBranchStep ==
  ASSUME Inv, NEW x \in Requests, FindBranch(x)
  PROVE  Inv'
<1>1. /\ request[x].at = "branch" /\ "branch" \in Steps
      /\ system = "serving" /\ UNCHANGED control
      /\ UNCHANGED <<registered, project, chat, head>>
  BY DEF FindBranch, At, Steps, accounts
<1>2. OnlyRequest(x) /\ RequestOK(x)'
  <2>1. CASE Reply(x)
    BY <2>1, ReplyOK
  <2>2. CASE Resolves(request[x].p, request[x].b) /\ WithBranch(x, request[x].b)
    <3>1. request[x].b # None
      BY <1>1 DEF Inv, BranchInv, BranchOK
    <3>2. head' \in [DOMAIN head' -> Nat] /\ DOMAIN head' \subseteq BranchIds
      BY <1>1 DEF Inv, Typed
    <3>3. request[x].b \in DOMAIN head' /\ request[x].b[1] = request[x].p
      BY <1>1, <2>2 DEF Resolves
    <3> QED BY <1>1, <2>2, <3>1, <3>2, <3>3, WithBranchOK
  <2> QED BY <2>1, <2>2 DEF FindBranch
<1> QED BY <1>1, <1>2, QuietStep, SameDocuments DEF Inv

\* A main branch that is made is not behind the project.
LEMMA HeadMade ==
  ASSUME Inv, UNCHANGED project,
         \A y \in Requests : request'[y].at = "mirror" => request'[y] = request[y],
         NEW b \in BranchIds, NEW v \in Nat, head' = Upsert(head, b, v),
         \A p \in Projects : b = Main(p) /\ Main(p) \notin DOMAIN head => Revision(p) <= v
  PROVE  /\ DOMAIN head' = DOMAIN head \cup {b} /\ DOMAIN head' \subseteq BranchIds
         /\ head' \in [DOMAIN head' -> Nat]
         /\ HeadInv'
<1>1. head \in [DOMAIN head -> Nat] /\ DOMAIN head \subseteq BranchIds
  BY DEF Inv, Typed
<1>2. /\ DOMAIN head' = DOMAIN head \cup {b} /\ head' \in [DOMAIN head' -> Nat]
      /\ \A j \in DOMAIN head : head'[j] = head[j]
      /\ b \notin DOMAIN head => head'[b] = v
  BY <1>1 DEF Upsert
<1>3. HeadInv'
  <2> SUFFICES ASSUME NEW p \in Projects
               PROVE  IF Main(p) \in DOMAIN head'
                      THEN Revision(p)' + Cardinality(Mirroring(p)') <= head'[Main(p)]
                      ELSE Mirroring(p)' = {}
    BY DEF HeadInv, Main
  <2>1. /\ Cardinality(Mirroring(p)) \in Nat /\ Cardinality(Mirroring(p)') \in Nat
        /\ Cardinality(Mirroring(p)') <= Cardinality(Mirroring(p))
        /\ Mirroring(p) = {} => Mirroring(p)' = {}
    BY MirroringStays
  <2>2. /\ Revision(p) \in Nat
        /\ Main(p) \in DOMAIN head => head[Main(p)] \in Nat
    BY HeadIs DEF Inv
  <2>3. Revision(p)' = Revision(p)
    BY DEF Revision
  <2>4. CASE Main(p) \in DOMAIN head
    <3>1. Revision(p) + Cardinality(Mirroring(p)) <= head[Main(p)]
      BY <2>4 DEF Inv, HeadInv
    <3>2. Main(p) \in DOMAIN head' /\ head'[Main(p)] = head[Main(p)]
      BY <1>2, <2>4
    <3> QED BY <2>1, <2>2, <2>3, <2>4, <3>1, <3>2
  <2>5. CASE Main(p) \notin DOMAIN head /\ Main(p) \in DOMAIN head'
    <3>1. b = Main(p) /\ head'[Main(p)] = v /\ Revision(p) <= v
      BY <1>2, <2>5
    <3>2. Mirroring(p)' = {}
      BY <2>1, <2>5 DEF Inv, HeadInv
    <3>3. Cardinality(Mirroring(p)') = 0
      BY <3>2, FS_EmptySet
    <3> QED BY <2>2, <2>3, <2>5, <3>1, <3>3
  <2>6. CASE Main(p) \notin DOMAIN head /\ Main(p) \notin DOMAIN head'
    BY <2>1, <2>6 DEF Inv, HeadInv
  <2> QED BY <2>4, <2>5, <2>6
<1> QED BY <1>1, <1>2, <1>3

\* A branch is made: main from the revision a request has read, or another.
LEMMA BranchMade ==
  ASSUME Inv, system = "serving", UNCHANGED control, UNCHANGED <<registered, project, chat>>,
         NEW x \in Requests, OnlyRequest(x), RequestOK(x)',
         NEW b \in BranchIds, NEW v \in Nat, head' = Upsert(head, b, v),
         \A p \in Projects : b = Main(p) /\ Main(p) \notin DOMAIN head => Revision(p) <= v
  PROVE  Inv'
<1>1. \A y \in Requests : request'[y].at = "mirror" => request'[y] = request[y]
  BY DEF OnlyRequest, RequestOK
<1>2. /\ DOMAIN head' = DOMAIN head \cup {b} /\ DOMAIN head' \subseteq BranchIds
      /\ head' \in [DOMAIN head' -> Nat]
      /\ HeadInv'
  BY <1>1, HeadMade
<1>3. DocumentsTyped'
  BY <1>2 DEF DocumentsTyped, Inv, Typed
<1> QED BY <1>2, <1>3, RequestStep, SameDocuments DEF RequestOK, Inv

LEMMA UpsertMainStep ==
  ASSUME Inv, NEW x \in Requests, UpsertMain(x)
  PROVE  Inv'
<1> DEFINE r == request[x]  b == Main(r.p)  v == r.doc.revision
<1>1. /\ r.at = "main" /\ "main" \in Steps /\ system = "serving" /\ UNCHANGED control
      /\ UNCHANGED <<registered, project, chat>>
  BY DEF UpsertMain, At, Steps, accounts
<1>2. BranchOK(x) /\ DocOK(x)
  BY DEF Inv, BranchInv, DocInv
<1>3. r.p \in Projects /\ r.doc \in Doc
  BY <1>1, <1>2 DEF BranchOK, DocOK, HasDoc, OpsAt, ProjectOps
<1>4. b \in BranchIds /\ v \in Nat /\ b[1] = r.p
  BY <1>3 DEF Main, BranchIds, Doc
<1>5. head' = Upsert(head, b, v) /\ WithBranch(x, b)
  BY DEF UpsertMain, EnsureMain
<1>6. \A p \in Projects : b = Main(p) /\ Main(p) \notin DOMAIN head => Revision(p) <= v
  <2> SUFFICES ASSUME Main(r.p) \notin DOMAIN head PROVE Revision(r.p) <= v
    BY DEF Main
  <2> QED BY <1>1, <1>2, <1>4 DEF DocOK, HasDoc, Revision
<1> HIDE DEF b, v
<1>7. head \in [DOMAIN head -> Nat] /\ DOMAIN head \subseteq BranchIds
  BY DEF Inv, Typed
<1>8. /\ DOMAIN head' = DOMAIN head \cup {b} /\ head' \in [DOMAIN head' -> Nat]
  BY <1>4, <1>5, <1>7 DEF Upsert
<1>9. DOMAIN head' \subseteq BranchIds /\ b \in DOMAIN head' /\ Main(r.p) \in DOMAIN head'
  BY <1>4, <1>7, <1>8 DEF b
<1>10. OnlyRequest(x) /\ RequestOK(x)'
  BY <1>1, <1>4, <1>5, <1>8, <1>9, WithBranchOK
<1> QED BY <1>1, <1>4, <1>5, <1>6, <1>10, BranchMade

LEMMA InsertBranchStep ==
  ASSUME Inv, NEW x \in Requests, InsertBranch(x)
  PROVE  Inv'
<1> DEFINE b == request[x].b
<1>1. /\ request[x].at = "insertBranch" /\ "insertBranch" \in Steps
      /\ system = "serving" /\ UNCHANGED control
      /\ UNCHANGED <<registered, project, chat>>
      /\ head' = Upsert(head, b, 0) /\ Reply(x)
  BY DEF InsertBranch, At, Steps, accounts
<1>2. b \in Projects \X Names
  BY <1>1 DEF Inv, BranchInv, BranchOK, OpsAt
<1>3. b \in BranchIds /\ \A p : b # Main(p)
  BY <1>2, ProjectsAssumption DEF BranchIds, Main
<1>4. OnlyRequest(x) /\ RequestOK(x)'
  BY <1>1, ReplyOK
<1> QED BY <1>1, <1>3, <1>4, BranchMade

-----------------------------------------------------------------------------
(* Requests that write a project *)

\* Lists and versions change, revisions do not.
SameRevisions ==
  /\ DOMAIN project' = DOMAIN project /\ project' \in [DOMAIN project -> Doc]
  /\ \A p \in DOMAIN project : project'[p].revision = project[p].revision

LEMMA ListsChange ==
  ASSUME Typed, SameRevisions, UNCHANGED <<registered, head>>, NEW x,
         DOMAIN chat' \subseteq Chats, chat' \in [DOMAIN chat' -> ChatRecord]
  PROVE  DocumentsTyped' /\ RevisionsStay /\ ProjectsOK(x)
<1>1. \A p \in DOMAIN project : project[p].revision \in Nat
  BY DEF Typed, Doc
<1>2. RevisionsStay
  BY <1>1 DEF RevisionsStay, SameRevisions
<1> QED BY <1>2 DEF DocumentsTyped, Typed, SameRevisions, ProjectsOK

\* The list of a project is written, and its version raised.
Relists(p, cs) ==
  project' = [project EXCEPT ![p].chats = cs, ![p].version = @ + 1]

LEMMA ListChanged ==
  ASSUME Typed, NEW p \in DOMAIN project, NEW cs \in SUBSET Chats,
         Relists(p, cs)
  PROVE  /\ SameRevisions
         /\ project'[p].chats = cs /\ project'[p].version = project[p].version + 1
         /\ \A q \in DOMAIN project \ {p} : project'[q] = project[q]
<1> DEFINE d == project[p]  e == [d EXCEPT !.chats = cs]
           f == [e EXCEPT !.version = d.version + 1]
<1>1. d \in Doc
  BY DEF Typed
<1>2. /\ e \in Doc /\ e.version = d.version /\ e.revision = d.revision
      /\ e.chats = cs
  BY <1>1 DEF Doc
<1>3. d.version \in Nat
  BY <1>1 DEF Doc
<1>4. project' = [project EXCEPT ![p] = f]
  BY <1>2 DEF Typed, Relists
<1> HIDE DEF e
<1>5. /\ f \in Doc /\ f.revision = d.revision
      /\ f.chats = cs /\ f.version = d.version + 1
  BY <1>2, <1>3 DEF Doc
<1> HIDE DEF f
<1> QED BY <1>4, <1>5 DEF SameRevisions, Typed

LEMMA PushIs ==
  ASSUME Typed, NEW p, NEW c \in Chats, PushChat(p, c)
  PROVE  SameRevisions
<1>1. CASE p \in DOMAIN project
  <2> DEFINE cs == project[p].chats \cup {c}
  <2>1. cs \in SUBSET Chats
    BY <1>1 DEF Typed, Doc
  <2>2. Relists(p, cs)
    BY <1>1 DEF PushChat, Typed, Relists
  <2> HIDE DEF cs
  <2> QED BY <1>1, <2>1, <2>2, ListChanged
<1>2. CASE p \notin DOMAIN project
  BY <1>2 DEF PushChat, SameRevisions, Typed
<1> QED BY <1>1, <1>2

LEMMA InsertProjectStep ==
  ASSUME Inv, NEW x \in Requests, InsertProject(x)
  PROVE  Inv'
<1> DEFINE r == request[x]  p == r.p  q == request'[x]
           new == NewProject(r.u, TRUE, {}, 0)
<1>1. /\ r.at = "insertProject" /\ "insertProject" \in Steps /\ "main" \in Steps
      /\ system = "serving" /\ UNCHANGED control
      /\ UNCHANGED <<registered, chat, head>>
      /\ project' = Upsert(project, p, new)
      /\ request' = [request EXCEPT ![x].at = "main", ![x].doc = new]
  BY DEF InsertProject, At, Steps, accounts
<1>2. BranchOK(x) /\ FreshOK(x) /\ Typed
  BY DEF Inv, BranchInv, FreshInv
<1>3. r \in RequestRecord /\ r.op = "createProject" /\ p \in Projects
  BY <1>1, <1>2, RequestTypes DEF BranchOK, OpsAt
<1>4. new \in Doc /\ new.revision = 0
  BY <1>3 DEF NewProject, Doc, RequestRecord
<1>5. Creating(x) /\ p \notin DOMAIN project
  BY <1>1, <1>2, <1>3 DEF FreshOK, Creating
<1> HIDE DEF new
<1>6. /\ OnlyRequest(x) /\ q.at = "main" /\ q.doc = new
      /\ q.op = r.op /\ q.p = p /\ q.c = r.c /\ q.b = r.b
  <2> DEFINE e == [r EXCEPT !.at = "main"]  n == [e EXCEPT !.doc = new]
  <2>1. /\ e \in RequestRecord /\ e.at = "main"
        /\ e.op = r.op /\ e.p = p /\ e.c = r.c /\ e.b = r.b
    BY <1>1, <1>3 DEF RequestRecord
  <2>2. request' = [request EXCEPT ![x] = n]
    BY <1>1, <1>2 DEF Typed
  <2> HIDE DEF e
  <2>3. /\ n \in RequestRecord /\ n.at = "main" /\ n.doc = new
        /\ n.op = r.op /\ n.p = p /\ n.c = r.c /\ n.b = r.b
    BY <1>4, <2>1 DEF RequestRecord
  <2> HIDE DEF n
  <2>4. OnlyRequest(x) /\ q = n
    BY <1>2, <2>2, <2>3, OneRequest
  <2> HIDE DEF q
  <2> QED BY <2>3, <2>4
<1>7. /\ DOMAIN project' = DOMAIN project \cup {p}
      /\ project' \in [DOMAIN project' -> Doc] /\ project'[p] = new
      /\ \A s \in DOMAIN project : project'[s] = project[s]
  BY <1>1, <1>2, <1>4, <1>5 DEF Upsert, Typed
<1>8. DocumentsTyped'
  <2>1. IsFiniteSet(DOMAIN project')
    BY <1>2, <1>7, FS_AddElement DEF Typed
  <2> QED BY <1>1, <1>2, <1>3, <1>7, <2>1 DEF DocumentsTyped, Typed
<1>9. RevisionsStay /\ ProjectsOK(x)
  <2>1. \A s \in DOMAIN project : project[s].revision \in Nat
    BY <1>2 DEF Typed, Doc
  <2> QED BY <1>4, <1>5, <1>7, <2>1 DEF RevisionsStay, ProjectsOK
<1>10. RequestOK(x)'
  <2>1. BranchOK(x)'
    BY <1>3, <1>6 DEF BranchOK, OpsAt, Ops
  <2>2. DocOK(x)'
    BY <1>4, <1>6, <1>7 DEF DocOK
  <2> QED BY <1>6, <2>1, <2>2 DEF RequestOK, FreshOK, Creating
<1>11. ChatsOK
  BY <1>1, <1>2, SameDocuments
<1> QED BY <1>1, <1>6, <1>8, <1>9, <1>10, <1>11, QuietStep

LEMMA PushStep ==
  ASSUME Inv, NEW x \in Requests, Push(x)
  PROVE  Inv'
<1>1. /\ request[x].at = "push" /\ "push" \in Steps
      /\ system = "serving" /\ UNCHANGED control
      /\ UNCHANGED <<registered, chat, head>>
      /\ PushChat(request[x].p, request[x].c) /\ Reply(x)
  BY DEF Push, At, Steps, accounts
<1>2. request[x].c \in Chats
  BY <1>1 DEF Inv, BranchInv, BranchOK, OpsAt
<1>3. SameRevisions
  BY <1>1, <1>2, PushIs DEF Inv
<1>4. DOMAIN chat' \subseteq Chats /\ chat' \in [DOMAIN chat' -> ChatRecord]
  BY <1>1 DEF Inv, Typed
<1>5. DocumentsTyped' /\ RevisionsStay /\ ProjectsOK(x)
  BY <1>1, <1>3, <1>4, ListsChange DEF Inv
<1>6. ChatsOK
  BY <1>1, SameDocuments DEF Inv
<1> QED BY <1>1, <1>5, <1>6, ReplyOK, QuietStep

LEMMA FilterStep ==
  ASSUME Inv, NEW x \in Requests, Filter(x)
  PROVE  Inv'
<1> DEFINE r == request[x]  kept == r.doc.chats \ {r.c}
<1>1. /\ r.at = "filter" /\ "filter" \in Steps /\ "unset" \in Steps
      /\ system = "serving" /\ UNCHANGED control
      /\ UNCHANGED <<registered, chat, head>>
  BY DEF Filter, At, Steps, accounts
<1>2. r.op = "removeChat" /\ r.doc \in Doc
  BY <1>1 DEF Inv, BranchInv, BranchOK, OpsAt, DocInv, DocOK, HasDoc
<1>3. OnlyRequest(x) /\ RequestOK(x)'
  <2>1. CASE Reply(x)
    BY <2>1, ReplyOK
  <2>2. CASE Proceed(x, "unset")
    BY <1>1, <1>2, <2>2, ProceedOK DEF OpsAt
  <2> QED BY <2>1, <2>2 DEF Filter
<1>4. SameRevisions
  <2>1. CASE UNCHANGED project
    BY <2>1 DEF SameRevisions, Inv, Typed
  <2>2. CASE /\ r.p \in DOMAIN project
             /\ project' = [project EXCEPT ![r.p].chats = kept, ![r.p].version = @ + 1]
    <3>1. kept \in SUBSET Chats
      BY <1>2 DEF Doc
    <3>2. Relists(r.p, kept) /\ Typed
      BY <2>2 DEF Relists, Inv
    <3> HIDE DEF kept
    <3> QED BY <2>2, <3>1, <3>2, ListChanged
  <2> QED BY <2>1, <2>2 DEF Filter, MayAssign
<1>5. DOMAIN chat' \subseteq Chats /\ chat' \in [DOMAIN chat' -> ChatRecord]
  BY <1>1 DEF Inv, Typed
<1>6. DocumentsTyped' /\ RevisionsStay /\ ProjectsOK(x)
  BY <1>1, <1>4, <1>5, ListsChange DEF Inv
<1>7. ChatsOK
  BY <1>1, SameDocuments DEF Inv
<1> QED BY <1>1, <1>3, <1>6, <1>7, QuietStep

LEMMA DeleteProjectStep ==
  ASSUME Inv, NEW x \in Requests, DeleteProject(x)
  PROVE  Inv'
<1> DEFINE p == request[x].p
<1>1. /\ request[x].at = "deleteProject" /\ "deleteProject" \in Steps /\ "unsetAll" \in Steps
      /\ system = "serving" /\ UNCHANGED control
      /\ UNCHANGED <<registered, chat, head>>
      /\ project' = Restrict(project, DOMAIN project \ {p}) /\ Proceed(x, "unsetAll")
  BY DEF DeleteProject, At, Steps, accounts
<1>2. request[x].op = "deleteProject"
  BY <1>1 DEF Inv, BranchInv, BranchOK, OpsAt
<1>3. /\ DOMAIN project' = DOMAIN project \ {p} /\ project' \in [DOMAIN project' -> Doc]
      /\ \A s \in DOMAIN project' : project'[s] = project[s]
  BY <1>1 DEF Restrict, Inv, Typed
<1>4. DocumentsTyped'
  <2>1. IsFiniteSet(DOMAIN project')
    BY <1>3, FS_Subset DEF Inv, Typed
  <2> QED BY <1>1, <1>3, <2>1 DEF DocumentsTyped, Inv, Typed
<1>5. RevisionsStay /\ ProjectsOK(x)
  <2>1. \A s \in DOMAIN project : project[s].revision \in Nat
    BY DEF Inv, Typed, Doc
  <2> QED BY <1>3, <2>1 DEF RevisionsStay, ProjectsOK
<1>6. ChatsOK
  BY <1>1, SameDocuments DEF Inv
<1>7. OnlyRequest(x) /\ RequestOK(x)'
  BY <1>1, <1>2, ProceedOK DEF OpsAt
<1> QED BY <1>1, <1>4, <1>5, <1>6, <1>7, QuietStep

-----------------------------------------------------------------------------
(* Requests that write a chat *)

\* The typing of the documents when a chat changes and nothing else.
LEMMA ChatsTyped ==
  ASSUME Typed, UNCHANGED <<registered, project, head>>,
         DOMAIN chat' \subseteq Chats, chat' \in [DOMAIN chat' -> ChatRecord]
  PROVE  DocumentsTyped'
BY DEF Typed, DocumentsTyped

LEMMA InsertChatStep ==
  ASSUME Inv, NEW x \in Requests, InsertChat(x)
  PROVE  Inv'
<1> DEFINE r == request[x]
           new == [user |-> r.u, project |-> r.p, branch |-> r.b]
<1>1. /\ r.at = "insertChat" /\ "insertChat" \in Steps /\ "push" \in Steps
      /\ system = "serving" /\ UNCHANGED control
      /\ UNCHANGED <<registered, project, head>>
      /\ chat' = Upsert(chat, r.c, new) /\ Proceed(x, "push")
  BY DEF InsertChat, At, Steps, accounts
<1>2. /\ r \in RequestRecord /\ r.op = "createChat" /\ r.c \in Chats
      /\ r.b \in DOMAIN head /\ r.b[1] = r.p
  BY <1>1, RequestTypes DEF Inv, BranchInv, BranchOK, OpsAt
<1>3. new \in ChatRecord /\ new.project = r.p /\ new.branch = r.b
  BY <1>2 DEF RequestRecord, ChatRecord
<1> HIDE DEF new
<1>4. /\ DOMAIN chat' = DOMAIN chat \cup {r.c} /\ chat' \in [DOMAIN chat' -> ChatRecord]
      /\ \A c \in DOMAIN chat : chat'[c] = chat[c]
      /\ r.c \notin DOMAIN chat => chat'[r.c] = new
  BY <1>1, <1>2, <1>3 DEF Upsert, Inv, Typed
<1>5. DocumentsTyped'
  BY <1>1, <1>2, <1>4, ChatsTyped DEF Inv, Typed
<1>6. ChatsOK
  BY <1>1, <1>2, <1>3, <1>4 DEF ChatsOK
<1>7. OnlyRequest(x) /\ RequestOK(x)'
  BY <1>1, <1>2, ProceedOK DEF OpsAt
<1> QED BY <1>1, <1>5, <1>6, <1>7, QuietStep, SameDocuments DEF Inv

LEMMA DetachedIs ==
  ASSUME Typed, NEW c \in DOMAIN chat
  PROVE  /\ Detached(c) \in ChatRecord
         /\ Detached(c).project = None /\ Detached(c).branch = None
<1> DEFINE e == [chat[c] EXCEPT !.project = None]
<1>1. e \in ChatRecord /\ e.project = None
  BY DEF Typed, ChatRecord
<1>2. Detached(c) = [e EXCEPT !.branch = None]
  BY DEF Detached
<1> HIDE DEF e
<1> QED BY <1>1, <1>2 DEF ChatRecord

LEMMA UnsetStep ==
  ASSUME Inv, NEW x \in Requests, Unset(x) \/ UnsetAll(x) \/ DeleteChat(x)
  PROVE  Inv'
<1>1. /\ system = "serving" /\ UNCHANGED control
      /\ UNCHANGED <<registered, project, head>> /\ Reply(x)
  BY DEF Unset, UnsetAll, DeleteChat, At, accounts
<1>2. /\ DOMAIN chat' \subseteq DOMAIN chat /\ chat' = [c \in DOMAIN chat' |-> chat'[c]]
      /\ \A c \in DOMAIN chat' : chat'[c] = chat[c] \/ chat'[c] = Detached(c)
  <2>1. CASE Unset(x)
    BY <2>1 DEF Unset, Inv, Typed
  <2>2. CASE UnsetAll(x)
    BY <2>2 DEF UnsetAll
  <2>3. CASE DeleteChat(x)
    BY <2>3 DEF DeleteChat, Restrict
  <2> QED BY <2>1, <2>2, <2>3
<1>3. \A c \in DOMAIN chat : /\ chat[c] \in ChatRecord
                             /\ Detached(c) \in ChatRecord /\ Detached(c).project = None
  BY DetachedIs DEF Inv, Typed
<1>4. DOMAIN chat' \subseteq Chats /\ chat' \in [DOMAIN chat' -> ChatRecord]
  BY <1>2, <1>3 DEF Inv, Typed
<1>5. ChatsOK
  BY <1>2, <1>3 DEF ChatsOK
<1> QED BY <1>1, <1>4, <1>5, ChatsTyped, ReplyOK, QuietStep, SameDocuments DEF Inv

LEMMA SaveStep ==
  ASSUME Inv, NEW x \in Requests, Save(x)
  PROVE  Inv'
<1> DEFINE r == request[x]
<1>1. /\ r.at = "save" /\ "save" \in Steps
      /\ system = "serving" /\ UNCHANGED control /\ UNCHANGED <<registered, head>>
  BY DEF Save, At, Steps, accounts
<1>2. /\ r \in RequestRecord /\ r.op = "addChat" /\ r.c \in Chats /\ r.p \in Projects
      /\ r.b = None => Main(r.p) \in DOMAIN head
      /\ BranchOK(x)
  BY <1>1, RequestTypes DEF Inv, BranchInv, BranchOK, OpsAt
<1>3. PICK s \in r.saves :
        /\ IF s = "project" THEN PushChat(r.p, r.c) /\ UNCHANGED chat
           ELSE /\ chat' = IF r.c \in DOMAIN chat /\ r.b = None
                           THEN [chat EXCEPT ![r.c].project = r.p, ![r.c].branch = Main(r.p)]
                           ELSE chat
                /\ UNCHANGED project
        /\ IF r.saves = {s} THEN Reply(x)
           ELSE request' = [request EXCEPT ![x].saves = @ \ {s}]
  BY DEF Save
<1>4. OnlyRequest(x) /\ RequestOK(x)'
  <2>1. CASE Reply(x)
    BY <2>1, ReplyOK
  <2>2. CASE request' = [request EXCEPT ![x].saves = @ \ {s}]
    <3> DEFINE n == [r EXCEPT !.saves = r.saves \ {s}]
    <3>1. /\ n \in RequestRecord /\ n.at = r.at /\ n.op = r.op /\ n.p = r.p
          /\ n.c = r.c /\ n.b = r.b
      BY <1>2 DEF RequestRecord
    <3>2. request' = [request EXCEPT ![x] = n]
      BY <2>2 DEF Inv, Typed
    <3> HIDE DEF n
    <3>3. OnlyRequest(x) /\ request'[x] = n
      BY <3>1, <3>2, OneRequest DEF Inv
    <3>4. BranchOK(x)'
      BY <1>1, <1>2, <3>1, <3>3 DEF BranchOK
    <3>5. DocOK(x)' /\ FreshOK(x)' /\ n.at # "mirror"
      BY <1>1, <3>1, <3>3 DEF DocOK, HasDoc, FreshOK, Creating
    <3> QED BY <3>3, <3>4, <3>5 DEF RequestOK
  <2> QED BY <1>3, <2>1, <2>2
<1>5. CASE s = "project"
  <2>1. SameRevisions /\ UNCHANGED chat
    BY <1>2, <1>3, <1>5, PushIs DEF Inv
  <2>2. DOMAIN chat' \subseteq Chats /\ chat' \in [DOMAIN chat' -> ChatRecord]
    BY <2>1 DEF Inv, Typed
  <2>3. DocumentsTyped' /\ RevisionsStay /\ ProjectsOK(x)
    BY <1>1, <2>1, <2>2, ListsChange DEF Inv
  <2>4. ChatsOK
    BY <2>1, SameDocuments DEF Inv
  <2> QED BY <1>1, <1>4, <2>3, <2>4, QuietStep
<1>6. CASE s # "project" /\ r.c \in DOMAIN chat /\ r.b = None
  <2> DEFINE e == [chat[r.c] EXCEPT !.project = r.p]
             n == [e EXCEPT !.branch = Main(r.p)]
  <2>1. Main(r.p) \in BranchIds
    BY <1>2 DEF Main, BranchIds
  <2>2. e \in ChatRecord /\ e.project = r.p
    BY <1>2, <1>6 DEF Inv, Typed, ChatRecord
  <2>3. chat' = [chat EXCEPT ![r.c] = n] /\ UNCHANGED project
    BY <1>3, <1>6 DEF Inv, Typed
  <2> HIDE DEF e
  <2>4. n \in ChatRecord /\ n.project = r.p /\ n.branch = Main(r.p)
    BY <2>1, <2>2 DEF ChatRecord
  <2> HIDE DEF n
  <2>5. /\ DOMAIN chat' = DOMAIN chat /\ chat' \in [DOMAIN chat' -> ChatRecord]
        /\ \A c \in DOMAIN chat : IF c = r.c THEN chat'[c] = n ELSE chat'[c] = chat[c]
    BY <1>6, <2>3, <2>4 DEF Inv, Typed
  <2>6. DocumentsTyped'
    BY <1>1, <2>3, <2>5, ChatsTyped DEF Inv, Typed
  <2>7. ChatsOK
    BY <1>1, <1>2, <1>6, <2>4, <2>5 DEF ChatsOK, Main
  <2> QED BY <1>1, <1>4, <2>3, <2>6, <2>7, QuietStep, SameDocuments DEF Inv
<1>7. CASE s # "project" /\ ~(r.c \in DOMAIN chat /\ r.b = None)
  <2>1. UNCHANGED <<registered, project, chat, head>>
    BY <1>1, <1>3, <1>7
  <2> QED BY <1>1, <1>4, <2>1, QuietStep, SameDocuments DEF Inv
<1> QED BY <1>5, <1>6, <1>7

-----------------------------------------------------------------------------
(* Rollbacks *)

LEMMA MirroringFinite ==
  ASSUME NEW p
  PROVE  IsFiniteSet(Mirroring(p)) /\ Cardinality(Mirroring(p)) \in Nat
<1>1. Mirroring(p) \in SUBSET Requests
  BY DEF Mirroring
<1>2. IsFiniteSet(Mirroring(p))
  BY <1>1, ProjectsAssumption, FS_Subset
<1> QED BY <1>2, FS_CardinalityType

\* A head that moves makes room for the copy its request will write.
LEMMA HeadMoved ==
  ASSUME Inv, system = "serving", UNCHANGED control,
         UNCHANGED <<registered, project, chat>>,
         NEW x \in Requests, request[x].at = "head",
         NEW b \in DOMAIN head, b = request[x].b,
         head' = [head EXCEPT ![b] = @ + 1],
         IF b = Main(request[x].p) THEN Proceed(x, "mirror") ELSE Reply(x)
  PROVE  Inv'
<1> DEFINE r == request[x]  q == request'[x]
<1>1. /\ {"head", "mirror"} \subseteq Steps /\ r.at \in Steps /\ r.op = "rollback" /\ b[1] = r.p
      /\ r.p \in Projects
  BY DEF Steps, Inv, BranchInv, BranchOK, OpsAt
<1>2. /\ DOMAIN head' = DOMAIN head /\ head' \in [DOMAIN head -> Nat]
      /\ head'[b] = head[b] + 1 /\ \A j \in DOMAIN head \ {b} : head'[j] = head[j]
      /\ head[b] \in Nat
  BY DEF Inv, Typed
<1>3. /\ OnlyRequest(x) /\ BranchOK(x)' /\ DocOK(x)' /\ FreshOK(x)'
      /\ b = Main(r.p) => q.at = "mirror" /\ q.p = r.p
      /\ b # Main(r.p) => q.at # "mirror"
  <2>1. CASE b = Main(r.p)
    <3>1. /\ OnlyRequest(x) /\ q.at = "mirror" /\ q.op = r.op /\ q.p = r.p
      BY <1>1, <2>1, ProceedIs DEF Inv
    <3> HIDE DEF q
    <3>2. BranchOK(x)'
      BY <1>1, <1>2, <2>1, <3>1 DEF BranchOK, OpsAt, Main, q
    <3>3. DocOK(x)' /\ FreshOK(x)'
      BY <3>1 DEF DocOK, HasDoc, FreshOK, Creating, q
    <3> QED BY <2>1, <3>1, <3>2, <3>3
  <2>2. CASE b # Main(r.p)
    BY <2>2, ReplyOK DEF RequestOK
  <2> QED BY <2>1, <2>2
<1>4. DocumentsTyped'
  BY <1>2 DEF DocumentsTyped, Inv, Typed
<1>5. HeadInv'
  <2> SUFFICES ASSUME NEW p \in Projects
               PROVE  IF Main(p) \in DOMAIN head'
                      THEN Revision(p)' + Cardinality(Mirroring(p)') <= head'[Main(p)]
                      ELSE Mirroring(p)' = {}
    BY DEF HeadInv, Main
  <2>1. /\ IsFiniteSet(Mirroring(p)) /\ Cardinality(Mirroring(p)) \in Nat
        /\ Revision(p) \in Nat /\ Revision(p)' = Revision(p)
    BY MirroringFinite, HeadIs DEF Inv, Revision
  <2>2. CASE b = Main(p)
    <3>1. p = r.p
      BY <1>1, <2>2 DEF Main
    <3>2. Mirroring(p)' = Mirroring(p) \cup {x} /\ x \notin Mirroring(p)
      BY <1>3, <2>2, <3>1 DEF Mirroring, OnlyRequest
    <3>3. Cardinality(Mirroring(p)') = Cardinality(Mirroring(p)) + 1
      BY <2>1, <3>2, FS_AddElement
    <3>4. Revision(p) + Cardinality(Mirroring(p)) <= head[b]
      BY <2>2 DEF Inv, HeadInv
    <3>5. head'[Main(p)] = head[b] + 1 /\ Main(p) \in DOMAIN head'
      BY <1>2, <2>2
    <3> QED BY <1>2, <2>1, <3>3, <3>4, <3>5
  <2>3. CASE b # Main(p)
    <3>1. ~(q.at = "mirror" /\ q.p = p)
      BY <1>3, <2>3
    <3>2. Mirroring(p)' = Mirroring(p)
      BY <1>3, <3>1 DEF Mirroring, OnlyRequest
    <3>3. Main(p) \in DOMAIN head => head'[Main(p)] = head[Main(p)]
      BY <1>2, <2>3
    <3> QED BY <1>2, <2>1, <3>2, <3>3 DEF Inv, HeadInv
  <2> QED BY <2>2, <2>3
<1> QED BY <1>2, <1>3, <1>4, <1>5, RequestStep, SameDocuments DEF Inv

LEMMA SetBranchHeadStep ==
  ASSUME Inv, NEW x \in Requests, SetBranchHead(x)
  PROVE  Inv'
<1> DEFINE r == request[x]
<1>1. /\ r.at = "head" /\ "head" \in Steps
      /\ system = "serving" /\ UNCHANGED control
      /\ UNCHANGED <<registered, project, chat>>
  BY DEF SetBranchHead, At, Steps, accounts
<1>2. r.b \in DOMAIN head
  BY <1>1 DEF Inv, BranchInv, BranchOK
<1>3. CASE /\ head' = [head EXCEPT ![r.b] = @ + 1]
           /\ IF r.b = Main(r.p) THEN Proceed(x, "mirror") ELSE Reply(x)
  BY <1>1, <1>2, <1>3, HeadMoved
<1>4. CASE Reply(x) /\ UNCHANGED head
  BY <1>1, <1>4, ReplyOK, QuietStep, SameDocuments DEF Inv
<1> QED BY <1>3, <1>4 DEF SetBranchHead

LEMMA SetMirrorStep ==
  ASSUME Inv, NEW x \in Requests, SetMirror(x)
  PROVE  Inv'
<1> DEFINE p == request[x].p
<1>1. /\ request[x].at = "mirror" /\ "mirror" \in Steps
      /\ system = "serving" /\ UNCHANGED control
      /\ UNCHANGED <<registered, chat, head>> /\ Reply(x)
      /\ project' = IF p \in DOMAIN project
                    THEN [project EXCEPT ![p].revision = @ + 1] ELSE project
  BY DEF SetMirror, At, Steps, accounts
<1>2. Main(p) \in DOMAIN head /\ p \in Projects
  BY <1>1 DEF Inv, BranchInv, BranchOK, OpsAt
<1>3. /\ OnlyRequest(x) /\ request'[x] = Idle /\ request'[x].at # "mirror"
      /\ RequestOK(x)'
  BY <1>1, ReplyIs, ReplyOK, IdleIs DEF Inv
<1>4. /\ DOMAIN project' = DOMAIN project /\ project' \in [DOMAIN project' -> Doc]
      /\ \A s \in DOMAIN project \ {p} : project'[s] = project[s]
      /\ p \in DOMAIN project => project'[p].revision = project[p].revision + 1
  <2>1. CASE p \in DOMAIN project
    <3> DEFINE d == project[p]  e == [d EXCEPT !.revision = d.revision + 1]
    <3>1. d.revision \in Nat /\ d \in Doc
      BY <2>1 DEF Inv, Typed, Doc
    <3>2. e \in Doc /\ e.revision = d.revision + 1
      BY <3>1 DEF Doc
    <3>3. project' = [project EXCEPT ![p] = e]
      BY <1>1, <2>1 DEF Inv, Typed
    <3> HIDE DEF e
    <3> QED BY <2>1, <3>2, <3>3 DEF Inv, Typed
  <2>2. CASE p \notin DOMAIN project
    BY <1>1, <2>2 DEF Inv, Typed
  <2> QED BY <2>1, <2>2
<1>5. DocumentsTyped'
  BY <1>1, <1>4 DEF DocumentsTyped, Inv, Typed
<1>6. RevisionsOK
  <2>1. \A s \in DOMAIN project : project[s].revision \in Nat
    BY DEF Inv, Typed, Doc
  <2> QED BY <1>1, <1>2, <1>4, <2>1 DEF RevisionsOK
<1>7. HeadInv'
  <2> SUFFICES ASSUME NEW s \in Projects
               PROVE  IF Main(s) \in DOMAIN head
                      THEN Revision(s)' + Cardinality(Mirroring(s)') <= head[Main(s)]
                      ELSE Mirroring(s)' = {}
    BY <1>1 DEF HeadInv, Main
  <2>1. /\ IsFiniteSet(Mirroring(s)) /\ Cardinality(Mirroring(s)) \in Nat
        /\ Revision(s) \in Nat
        /\ Main(s) \in DOMAIN head => head[Main(s)] \in Nat
    BY MirroringFinite, HeadIs DEF Inv
  <2>2. CASE s = p
    <3>1. x \in Mirroring(s) /\ Mirroring(s)' = Mirroring(s) \ {x}
      BY <1>1, <1>3, <2>2 DEF Mirroring, OnlyRequest
    <3>2. Cardinality(Mirroring(s)') = Cardinality(Mirroring(s)) - 1
      BY <2>1, <3>1, FS_RemoveElement
    <3>3. Revision(s)' <= Revision(s) + 1 /\ Revision(s)' \in Nat
      BY <1>4, <2>1, <2>2 DEF Revision, Inv, Typed, Doc
    <3>4. Revision(s) + Cardinality(Mirroring(s)) <= head[Main(s)]
      BY <1>2, <2>2 DEF Inv, HeadInv
    <3> QED BY <1>2, <2>1, <2>2, <3>2, <3>3, <3>4
  <2>3. CASE s # p
    <3>1. Mirroring(s)' = Mirroring(s)
      BY <1>1, <1>3, <2>3 DEF Mirroring, OnlyRequest
    <3>2. Revision(s)' = Revision(s)
      BY <1>4, <2>3 DEF Revision
    <3> QED BY <2>1, <3>1, <3>2 DEF Inv, HeadInv
  <2> QED BY <2>2, <2>3
<1>8. ProjectsOK(x) /\ ChatsOK
  BY <1>1, <1>4, SameDocuments DEF ProjectsOK, Inv
<1> QED BY <1>1, <1>3, <1>5, <1>6, <1>7, <1>8, RequestStep DEF RequestOK

LEMMA StepKeeps ==
  ASSUME Inv, NEW x \in Requests, Step(x)
  PROVE  Inv'
BY SaveUserStep, AccountStep, InsertProjectStep, ReadProjectStep, ReadChatStep,
   UpsertMainStep, FindBranchStep, InsertBranchStep, InsertChatStep, PushStep,
   SaveStep, FilterStep, UnsetStep, DeleteProjectStep, SetBranchHeadStep,
   SetMirrorStep DEF Step

\* Requests that end early leave fewer copies to be written.
LEMMA CutStep ==
  ASSUME Inv, Cut
  PROVE  Inv'
<1>1. /\ system = "serving" /\ UNCHANGED control
      /\ UNCHANGED <<registered, project, chat, head>>
  BY DEF Cut, accounts
<1>2. /\ request' \in [Requests -> {Idle} \cup RequestRecord]
      /\ \A y \in Requests : request'[y] = request[y] \/ request'[y] = Idle
  BY DEF Cut, Inv, Typed
<1>3. Typed' /\ LoopInv' /\ ChatInv'
  BY <1>1, <1>2 DEF control, Inv, Typed, LoopInv, ChatInv, OnBranch
<1>4. \A y \in Requests : request'[y].at = "mirror" => request'[y] = request[y]
  BY <1>2, IdleIs
<1>5. HeadInv'
  BY <1>1, <1>4, HeadsStay, SameDocuments DEF Inv, Typed
<1>6. BranchInv'
  <2>1. ASSUME NEW y \in Requests PROVE BranchOK(y)'
    BY <1>1, <1>2, IdleRequest, BranchStays DEF Inv, BranchInv, RequestOK
  <2> QED BY <2>1 DEF BranchInv
<1>7. DocInv'
  <2>1. ASSUME NEW y \in Requests PROVE DocOK(y)'
    BY <1>1, <1>2, IdleRequest, DocStays, SameDocuments DEF Inv, DocInv, Typed, RequestOK
  <2> QED BY <2>1 DEF DocInv
<1>8. FreshInv'
  BY <1>1, <1>2, IdleIs DEF Inv, FreshInv, FreshOK, Creating
<1> QED BY <1>3, <1>5, <1>6, <1>7, <1>8 DEF Inv

-----------------------------------------------------------------------------
(* The migration *)

LEMMA MigrationFrame ==
  ASSUME Inv, UNCHANGED request, SameRevisions, DOMAIN head \subseteq DOMAIN head',
         Typed', LoopInv', ChatInv', HeadInv'
  PROVE  Inv'
<1>1. BranchInv'
  <2>1. ASSUME NEW y \in Requests PROVE BranchOK(y)'
    BY BranchStays DEF Inv, BranchInv
  <2> QED BY <2>1 DEF BranchInv
<1>2. DocInv'
  <2>1. \A p \in DOMAIN project : project[p].revision \in Nat
    BY DEF Inv, Typed, Doc
  <2>2. RevisionsOK /\ project' \in [DOMAIN project' -> Doc]
    BY <2>1 DEF RevisionsOK, SameRevisions
  <2>3. ASSUME NEW y \in Requests PROVE DocOK(y)'
    BY <2>2, DocStays DEF Inv, DocInv
  <2> QED BY <2>3 DEF DocInv
<1>3. FreshInv'
  BY DEF SameRevisions, Inv, FreshInv, FreshOK, Creating
<1> QED BY <1>1, <1>2, <1>3 DEF Inv

LEMMA SameProjects ==
  ASSUME Typed, UNCHANGED project
  PROVE  SameRevisions
BY DEF SameRevisions, Typed

\* Commands that leave projects, chats and branches alone.
LEMMA ControlStep ==
  ASSUME Inv, UNCHANGED <<registered, project, chat, head, request>>,
         system' \in Phases, LoopInv',
         system' \in {"migrated", "serving"} =>
           \/ system \in {"migrated", "serving"}
           \/ \A c \in DOMAIN chat : chat[c].project # None => chat[c].branch # None
  PROVE  Inv'
<1>1. Typed'
  BY DEF Inv, Typed
<1>2. ChatInv'
  BY DEF Inv, ChatInv, OnBranch
<1>3. SameRevisions
  BY SameProjects DEF Inv
<1>4. HeadInv'
  BY HeadsStay, SameDocuments DEF Inv, Typed
<1> QED BY <1>1, <1>2, <1>3, <1>4, MigrationFrame

LEMMA ControlSteps ==
  ASSUME Inv, Migrate \/ MigrateWorkspace \/ MigrateMember \/ Verify \/ Serve
              \/ MigrationDies \/ Stop
  PROVE  Inv'
<1>1. UNCHANGED <<registered, project, chat, head, request>>
  BY DEF Migrate, MigrateWorkspace, MigrateMember, Verify, Serve, MigrationDies,
         Stop, accounts
<1>2. CASE Migrate \/ Serve \/ MigrationDies \/ Stop
  BY <1>1, <1>2, ControlStep
     DEF Migrate, Serve, MigrationDies, Stop, Phases, MigrationSteps, LoopInv, Looping
<1>3. CASE MigrateWorkspace
  <2>1. registered \in Seq(Users)
    BY DEF Inv, Typed
  <2> QED BY <1>1, <1>3, <2>1, ControlStep
     DEF MigrateWorkspace, Phases, MigrationSteps, LoopInv, Looping
<1>4. CASE MigrateMember
  <2>1. CASE todo = <<>>
    <3>1. SetToSeq(DOMAIN project) \in Seq(DOMAIN project)
      BY SetToSeqIs DEF Inv, Typed
    <3>2. system' = "own" /\ todo' = SetToSeq(DOMAIN project)
      BY <1>4, <2>1 DEF MigrateMember
    <3>3. LoopInv' /\ system' \in Phases
      BY <1>1, <3>1, <3>2 DEF LoopInv, Looping, Phases, MigrationSteps
    <3> QED BY <1>1, <3>2, <3>3, ControlStep
  <2>2. CASE todo # <<>>
    <3>1. system = "members" /\ system' = "members" /\ todo' = Tail(todo)
      BY <1>4, <2>2 DEF MigrateMember
    <3>2. todo' \in Seq(Users)
      BY <2>2, <3>1 DEF Inv, LoopInv
    <3>3. LoopInv' /\ system' \in Phases
      BY <3>1, <3>2 DEF LoopInv, Looping, Phases, MigrationSteps
    <3> QED BY <1>1, <3>1, <3>3, ControlStep
  <2> QED BY <2>1, <2>2
<1>5. CASE Verify
  <2>1. LoopInv' /\ system' \in Phases
    BY <1>5 DEF Verify, Phases, LoopInv, Looping
  <2>2. system' \in {"migrated", "serving"} =>
          \A c \in DOMAIN chat : chat[c].project # None => chat[c].branch # None
    BY <1>5 DEF Verify, Complete
  <2> QED BY <1>1, <2>1, <2>2, ControlStep
<1> QED BY <1>2, <1>3, <1>4, <1>5

LEMMA MigrateProjectsStep ==
  ASSUME Inv, MigrateProjects
  PROVE  Inv'
<1> DEFINE p == Head(todo)
<1>1. UNCHANGED <<registered, request>>
  BY DEF MigrateProjects, accounts
<1>2. /\ system \in Looping /\ todo \in Seq(DOMAIN project) /\ todo # <<>>
      /\ p \in DOMAIN project /\ p \in Projects
      /\ Tail(todo) \in Seq(DOMAIN project)
  <2>1. system \in Looping /\ (system = "own" => todo # <<>>)
    BY DEF MigrateProjects, MigrateProject, OwnProject, BranchProject, BranchChats,
           BackfillRuns, Looping
  <2>2. todo \in Seq(DOMAIN project) /\ todo # <<>>
    BY <2>1 DEF Inv, LoopInv
  <2>3. Head(todo) \in DOMAIN project /\ Tail(todo) \in Seq(DOMAIN project)
    BY <2>2
  <2> QED BY <2>1, <2>2, <2>3 DEF Inv, Typed
<1>3. CASE OwnProject
  <2>1. SameRevisions
    <3> DEFINE d == [project[p] EXCEPT !.workspace = TRUE]
    <3>1. d \in Doc /\ d.revision = project[p].revision
      BY <1>2 DEF Inv, Typed, Doc
    <3>2. project' = [project EXCEPT ![p] = d]
      BY <1>2, <1>3 DEF OwnProject, Inv, Typed
    <3> HIDE DEF d
    <3> QED BY <3>1, <3>2 DEF SameRevisions, Inv, Typed
  <2>2. UNCHANGED <<chat, head, todo>> /\ system = "own" /\ system' = "main"
    BY <1>3 DEF OwnProject
  <2>3. Typed'
    BY <1>1, <2>1, <2>2 DEF Inv, Typed, SameRevisions, Phases, MigrationSteps
  <2>4. LoopInv'
    BY <1>2, <2>1, <2>2 DEF LoopInv, Looping, SameRevisions
  <2>5. ChatInv'
    BY <2>2 DEF Inv, ChatInv, OnBranch
  <2>6. RevisionsStay
    <3>1. \A s \in DOMAIN project : project[s].revision \in Nat
      BY DEF Inv, Typed, Doc
    <3> QED BY <2>1, <3>1 DEF RevisionsStay, SameRevisions
  <2>7. HeadInv'
    BY <1>1, <2>1, <2>2, <2>6, HeadsStay DEF SameRevisions
  <2> QED BY <1>1, <2>1, <2>2, <2>3, <2>4, <2>5, <2>7, MigrationFrame
<1>4. CASE BranchProject
  <2> DEFINE b == Main(p)  v == project[p].revision
  <2>1. /\ UNCHANGED <<project, chat, todo>> /\ system = "main" /\ system' = "chats"
        /\ head' = Upsert(head, b, v)
    BY <1>4 DEF BranchProject, EnsureMain
  <2>2. b \in BranchIds /\ v \in Nat
    BY <1>2 DEF Main, BranchIds, Inv, Typed, Doc
  <2>3. \A s \in Projects : b = Main(s) /\ Main(s) \notin DOMAIN head => Revision(s) <= v
    <3>1. Revision(p) <= v
      BY <1>2, <2>2 DEF Revision
    <3> QED BY <3>1 DEF Main
  <2> HIDE DEF v
  <2>4. /\ DOMAIN head' = DOMAIN head \cup {b} /\ DOMAIN head' \subseteq BranchIds
        /\ head' \in [DOMAIN head' -> Nat]
        /\ HeadInv'
    BY <1>1, <2>1, <2>2, <2>3, HeadMade
  <2>5. Typed'
    BY <1>1, <2>1, <2>4 DEF Inv, Typed, Phases, MigrationSteps
  <2>6. LoopInv'
    BY <1>2, <2>1, <2>4 DEF LoopInv, Looping, Main
  <2>7. ChatInv'
    BY <2>1, <2>4 DEF Inv, ChatInv, OnBranch
  <2>8. SameRevisions
    BY <2>1, SameProjects DEF Inv
  <2> QED BY <1>1, <2>4, <2>5, <2>6, <2>7, <2>8, MigrationFrame
<1>5. CASE BranchChats
  <2>1. /\ UNCHANGED <<project, head, todo>> /\ system = "chats" /\ system' = "runWorkspace"
        /\ chat' = [c \in DOMAIN chat |->
             IF chat[c].project = p /\ chat[c].branch = None
             THEN [chat[c] EXCEPT !.branch = Main(p)] ELSE chat[c]]
    BY <1>5 DEF BranchChats
  <2>2. Main(p) \in DOMAIN head /\ Main(p) \in BranchIds /\ Main(p)[1] = p
    BY <1>2, <2>1 DEF Inv, LoopInv, Looping, Main, BranchIds
  <2>3. \A c \in DOMAIN chat :
          LET d == [chat[c] EXCEPT !.branch = Main(p)] IN
          d \in ChatRecord /\ d.project = chat[c].project /\ d.branch = Main(p)
    BY <2>2 DEF Inv, Typed, ChatRecord
  <2>4. /\ DOMAIN chat' = DOMAIN chat
        /\ \A c \in DOMAIN chat :
             \/ chat'[c] = chat[c] /\ ~(chat[c].project = p /\ chat[c].branch = None)
             \/ /\ chat'[c] \in ChatRecord /\ chat'[c].project = p
                /\ chat'[c].branch = Main(p)
    BY <2>1, <2>3
  <2>5. Typed'
    <3>1. chat' \in [DOMAIN chat' -> ChatRecord]
      BY <2>1, <2>4 DEF Inv, Typed
    <3> QED BY <1>1, <2>1, <2>4, <3>1 DEF Inv, Typed, Phases, MigrationSteps
  <2>6. LoopInv'
    BY <1>2, <2>1, <2>2 DEF LoopInv, Looping, Main
  <2>7. ChatInv'
    BY <2>1, <2>2, <2>4 DEF Inv, ChatInv, OnBranch
  <2>8. SameRevisions /\ HeadInv'
    BY <1>1, <2>1, SameProjects, HeadsStay, SameDocuments DEF Inv, Typed
  <2> QED BY <1>1, <2>1, <2>5, <2>6, <2>7, <2>8, MigrationFrame
<1>6. CASE BackfillRuns
  <2>1. UNCHANGED <<project, chat, head>>
    BY <1>6 DEF BackfillRuns
  <2>2. Main(p) \in DOMAIN head
    BY <1>6 DEF BackfillRuns, Inv, LoopInv, Looping
  <2>3. \/ system' \in {"runBranch", "runBase"} /\ UNCHANGED todo
        \/ system' = "own" /\ todo' = Tail(todo)
    BY <1>6 DEF BackfillRuns
  <2>4. LoopInv' /\ system' \in Phases
    BY <1>2, <2>1, <2>2, <2>3 DEF LoopInv, Looping, Main, Phases, MigrationSteps
  <2>5. system' \notin {"migrated", "serving"}
    BY <2>3
  <2> QED BY <1>1, <2>1, <2>4, <2>5, ControlStep
<1> QED BY <1>3, <1>4, <1>5, <1>6 DEF MigrateProjects, MigrateProject

-----------------------------------------------------------------------------
(* Theorems *)

LEMMA InitInv == Init => Inv
<1> SUFFICES ASSUME Init PROVE Inv
  OBVIOUS
<1>1. LegacyUsers \in Seq(Users) /\ LegacyUsers[1] \in Users
  BY ProjectsAssumption
<1>2. Typed
  <2>1. DOMAIN project = {LegacyProject} /\ IsFiniteSet(DOMAIN project)
    BY FS_Singleton DEF Init
  <2>2. project \in [DOMAIN project -> Doc]
    BY <1>1, ProjectsAssumption DEF Init, NewProject, Doc
  <2>3. DOMAIN chat = {LegacyChat} /\ chat \in [DOMAIN chat -> ChatRecord]
    BY <1>1, ProjectsAssumption DEF Init, ChatRecord
  <2>4. DOMAIN head = {} /\ head \in [DOMAIN head -> Nat]
    BY DEF Init
  <2>5. request \in [Requests -> {Idle} \cup RequestRecord]
    BY DEF Init
  <2>6. DOMAIN project \subseteq Projects /\ DOMAIN chat \subseteq Chats
    BY <2>1, <2>3, ProjectsAssumption
  <2> QED BY <1>1, <2>1, <2>2, <2>3, <2>4, <2>5, <2>6 DEF Typed, Init, Phases
<1>3. LoopInv
  BY DEF Init, LoopInv, Looping
<1>4. ChatInv
  BY DEF Init, ChatInv
<1>5. \A x \in Requests : request[x] = Idle
  BY DEF Init
<1>6. BranchInv /\ DocInv /\ FreshInv
  BY <1>5, IdleIs DEF BranchInv, BranchOK, DocInv, DocOK, HasDoc, FreshInv, FreshOK,
     Creating
<1>7. HeadInv
  BY <1>5, IdleIs DEF Init, HeadInv, Mirroring
<1> QED BY <1>2, <1>3, <1>4, <1>6, <1>7 DEF Inv

LEMMA NextInv == Inv /\ [Next]_vars => Inv'
<1> SUFFICES ASSUME Inv, [Next]_vars PROVE Inv'
  OBVIOUS
<1>1. CASE Migration \/ MigrationDies \/ Stop
  BY <1>1, ControlSteps, MigrateProjectsStep DEF Migration
<1>2. CASE Cut
  BY <1>2, CutStep
<1>3. ASSUME NEW x \in Requests,
             ArriveUser(x) \/ ArriveProject(x) \/ ArriveChat(x) \/ Step(x)
      PROVE  Inv'
  BY <1>3, ArriveStep, StepKeeps
<1>4. CASE UNCHANGED vars
  <2>1. UNCHANGED <<registered, project, chat, head, request, system, todo>>
    BY <1>4 DEF vars
  <2>2. LoopInv' /\ system' \in Phases
    BY <2>1 DEF Inv, LoopInv, Typed
  <2> QED BY <2>1, <2>2, ControlStep
<1> QED BY <1>1, <1>2, <1>3, <1>4 DEF Next

\* The documents stay well formed, and what a request holds in hand between two
\* of its commands stays worth what the next one makes of it.
THEOREM Consistent == Spec => []Inv
BY InitInv, NextInv, PTL DEF Spec

\* While the servers run, a chat of a project is on a branch that exists and is
\* of that project: after a migration of any layout, killed and run again, and
\* whatever the requests of chatRouter and projectRouter do to a chat, its
\* project and its branch meanwhile.
THEOREM ChatsStayOnBranches == Spec => []ChatsOnBranches
<1>1. Inv => ChatsOnBranches
  BY DEF Inv, ChatInv, OnBranch, ChatsOnBranches
<1> QED BY <1>1, Consistent, PTL

\* No project shows a revision its main branch has not reached: ensureMainBranch
\* from a project read long ago creates no head behind a rollback, and the
\* rollbacks still to copy the head into the project fit below it.
THEOREM MirrorsNeverAhead == Spec => []MirrorNeverAhead
<1>1. Inv => MirrorNeverAhead
  <2> SUFFICES ASSUME Inv, NEW p \in DOMAIN project, Main(p) \in DOMAIN head
               PROVE  project[p].revision <= head[Main(p)]
    BY DEF MirrorNeverAhead
  <2>1. p \in Projects /\ Revision(p) = project[p].revision
    BY DEF Inv, Typed, Revision
  <2>2. Revision(p) + Cardinality(Mirroring(p)) <= head[Main(p)]
    BY <2>1 DEF Inv, HeadInv
  <2>3. Revision(p) \in Nat /\ Cardinality(Mirroring(p)) \in Nat /\ head[Main(p)] \in Nat
    BY HeadIs, MirroringFinite DEF Inv
  <2> QED BY <2>1, <2>2, <2>3
<1> QED BY <1>1, Consistent, PTL

-----------------------------------------------------------------------------
(* The two records of which project a chat is in                           *)

\* A request in flight, and the chats that no two requests ever clashed on.
Busy(x) == request[x].at \in Steps
Kept == Chats \ strayed
Deleting(x, p) == Busy(x) /\ request[x].op = "deleteProject" /\ request[x].p = p

\* At most one request is about a chat, and none deletes its project meanwhile.
AloneOK(c) ==
  \A x, y \in Requests : Busy(x) /\ Busy(y) /\ request[x].c = c =>
    /\ request[y].c = c => y = x
    /\ ~Deleting(y, request[x].p)

\* A request is between its write of the one record and that of the other.
Torn(c, p) ==
  \E x \in Requests : /\ request[x].at \in {"push", "save", "unset"}
                      /\ request[x].c = c /\ request[x].p = p

\* Between writes the records agree; a project that is gone is being unset.
AgreeOK(c) ==
  c \in DOMAIN chat =>
    /\ \A p \in DOMAIN project :
         Torn(c, p) \/ (c \in project[p].chats <=> chat[c].project = p)
    /\ chat[c].project \in DOMAIN project \cup {None}
         \cup {request[x].p : x \in {y \in Requests : request[y].at = "unsetAll"}}

\* What a request about a chat has found out or written stays so until it is
\* over.
AdderOK(r) ==
  /\ r.c \in DOMAIN chat
  /\ r.at # "save" => r.saves = {"project", "chat"}
  /\ r.at = "main" => r.b = None /\ chat[r.c].project = None
  /\ r.at = "branch" /\ r.b[1] = r.p => chat[r.c].project = r.p
  /\ r.at = "save" =>
       /\ chat[r.c].project \in {None, r.p}
       /\ "chat" \notin r.saves \/ r.b # None => chat[r.c].project = r.p
       /\ "project" \notin r.saves => r.c \in project[r.p].chats
CreatorOK(r) ==
  IF r.at = "push"
  THEN r.c \in DOMAIN chat /\ chat[r.c].project = r.p
  ELSE r.c \notin DOMAIN chat /\ \A p \in DOMAIN project : r.c \notin project[p].chats
RemoverOK(r) ==
  /\ r.c \in DOMAIN chat /\ chat[r.c].project = r.p
  /\ r.at = "filter" => r.c \in r.doc.chats
  /\ r.at = "unset" => r.c \notin project[r.p].chats
Mine(x) ==
  LET r == request[x] IN
  r.op \in {"createChat", "addChat", "removeChat"} =>
    /\ r.p \in DOMAIN project
    /\ r.op = "addChat" => AdderOK(r)
    /\ r.op = "createChat" => CreatorOK(r)
    /\ r.op = "removeChat" => RemoverOK(r)
WorkOK(c) == \A x \in Requests : Busy(x) /\ request[x].c = c => Mine(x)

KeptInv == \A c \in Kept : AloneOK(c) /\ AgreeOK(c) /\ WorkOK(c)

\* A chat without a project has no branch.
LooseInv == \A c \in DOMAIN chat : chat[c].project = None => chat[c].branch = None

\* A project read at the version it still has is as it was read; a request
\* that unsets a project has deleted it; nobody knows of a project to be made.
RequestKnows(x) ==
  LET r == request[x] IN
  /\ r.at = "filter" /\ r.p \in DOMAIN project =>
       /\ r.doc.version <= project[r.p].version
       /\ r.doc.version = project[r.p].version => r.doc.chats = project[r.p].chats
  /\ r.at = "unsetAll" => r.p \notin DOMAIN project
  /\ Creating(x) => \A y \in Requests \ {x} : Busy(y) => request[y].p # r.p
KnowsInv == \A x \in Requests : RequestKnows(x)

ListsInv == KeptInv /\ LooseInv /\ KnowsInv

\* The records of a chat, and what the documents of projects list.
SameFor(c) ==
  /\ DOMAIN project' = DOMAIN project
  /\ c \in DOMAIN chat' <=> c \in DOMAIN chat
  /\ c \in DOMAIN chat => chat'[c].project = chat[c].project
  /\ \A p \in DOMAIN project : c \in project'[p].chats <=> c \in project[p].chats

\* A request goes on or ends.
Continues(x) ==
  /\ Busy(x) /\ OnlyRequest(x) /\ UNCHANGED strayed
  /\ request'[x] = Idle \/ /\ request'[x].op = request[x].op
                           /\ request'[x].p = request[x].p
                           /\ request'[x].c = request[x].c

LEMMA AloneStays ==
  ASSUME NEW c, AloneOK(c), NEW x \in Requests, Continues(x)
  PROVE  AloneOK(c)'
<1> SUFFICES ASSUME NEW y \in Requests, NEW z \in Requests,
                    Busy(y)', Busy(z)', request'[y].c = c
             PROVE  /\ request'[z].c = c => z = y
                    /\ ~(request'[z].op = "deleteProject" /\ request'[z].p = request'[y].p)
  BY DEF AloneOK, Deleting, Busy
<1>1. ASSUME NEW w \in Requests, Busy(w)'
      PROVE  /\ Busy(w) /\ request'[w].op = request[w].op
             /\ request'[w].p = request[w].p /\ request'[w].c = request[w].c
  BY <1>1, IdleIs DEF Continues, OnlyRequest, Busy
<1> QED BY <1>1 DEF AloneOK, Deleting

\* Nothing that a request about chat c and project p relies on changes.
KeepsFor(c, p) ==
  /\ p \in DOMAIN project =>
       p \in DOMAIN project' /\ (c \in project'[p].chats <=> c \in project[p].chats)
  /\ c \in DOMAIN chat' <=> c \in DOMAIN chat
  /\ c \in DOMAIN chat /\ chat[c].project \in {None, p} =>
       chat'[c].project = chat[c].project
  /\ \A q \in DOMAIN project' :
       c \in project'[q].chats => q \in DOMAIN project /\ c \in project[q].chats

LEMMA MineStays ==
  ASSUME NEW y \in Requests, Mine(y), request'[y] = request[y],
         KeepsFor(request[y].c, request[y].p)
  PROVE  Mine(y)'
<1> SUFFICES ASSUME request[y].op \in {"createChat", "addChat", "removeChat"}
             PROVE  Mine(y)'
  BY DEF Mine
<1>1. request[y].p \in DOMAIN project /\ request[y].p \in DOMAIN project'
  BY DEF Mine, KeepsFor
<1>2. request[y].op = "addChat" => AdderOK(request[y])'
  BY <1>1 DEF Mine, AdderOK, KeepsFor
<1>3. request[y].op = "createChat" => CreatorOK(request[y])'
  BY <1>1 DEF Mine, CreatorOK, KeepsFor
<1>4. request[y].op = "removeChat" => RemoverOK(request[y])'
  BY <1>1 DEF Mine, RemoverOK, KeepsFor
<1> QED BY <1>1, <1>2, <1>3, <1>4 DEF Mine

LEMMA SameKeeps ==
  ASSUME NEW c, SameFor(c)
  PROVE  \A p : KeepsFor(c, p)
BY DEF SameFor, KeepsFor

LEMMA WorkStays ==
  ASSUME NEW c, WorkOK(c), NEW x \in Requests, Continues(x), SameFor(c),
         Busy(x)' /\ request[x].c = c => Mine(x)'
  PROVE  WorkOK(c)'
<1> SUFFICES ASSUME NEW y \in Requests, Busy(y)', request'[y].c = c
             PROVE  Mine(y)'
  BY DEF WorkOK
<1>1. CASE y = x
  BY <1>1, IdleIs DEF Continues, Busy
<1>2. CASE y # x
  <2>1. request'[y] = request[y]
    BY <1>2 DEF Continues, OnlyRequest
  <2> QED BY <2>1, MineStays, SameKeeps DEF WorkOK, Busy
<1> QED BY <1>1, <1>2

LEMMA AgreeStays ==
  ASSUME NEW c, AgreeOK(c), NEW x \in Requests, Continues(x), SameFor(c),
         request[x].at # "unsetAll",
         request[x].at \in {"push", "save", "unset"} => request[x].c # c
  PROVE  AgreeOK(c)'
<1> SUFFICES ASSUME c \in DOMAIN chat
             PROVE  /\ \A p \in DOMAIN project :
                         Torn(c, p)' \/ (c \in project'[p].chats <=> chat[c].project = p)
                    /\ chat[c].project \in DOMAIN project \cup {None}
                         \cup {request'[y].p : y \in {z \in Requests : request'[z].at = "unsetAll"}}
  BY DEF AgreeOK, SameFor
<1>1. ASSUME NEW p \in DOMAIN project, Torn(c, p) PROVE Torn(c, p)'
  BY <1>1 DEF Torn, Continues, OnlyRequest
<1>2. ASSUME NEW y \in Requests, request[y].at = "unsetAll"
      PROVE  request'[y] = request[y]
  BY <1>2 DEF Continues, OnlyRequest
<1> QED BY <1>1, <1>2 DEF AgreeOK, SameFor

\* Whoever changes the list of a project raises its version.
VersionsOK ==
  /\ DOMAIN project' = DOMAIN project /\ project' \in [DOMAIN project -> Doc]
  /\ \A p \in DOMAIN project :
       \/ project'[p].version > project[p].version
       \/ /\ project'[p].version = project[p].version
          /\ project'[p].chats = project[p].chats

LEMMA KnowsStays ==
  ASSUME Inv, KnowsInv, VersionsOK, NEW x \in Requests, Continues(x), RequestKnows(x)'
  PROVE  KnowsInv'
<1> SUFFICES ASSUME NEW y \in Requests \ {x} PROVE RequestKnows(y)'
  BY DEF KnowsInv
<1> DEFINE r == request[y]  p == r.p
<1>1. request'[y] = r /\ RequestKnows(y)
  BY DEF Continues, OnlyRequest, KnowsInv
<1>2. ASSUME r.at = "filter", p \in DOMAIN project
      PROVE  /\ r.doc.version <= project'[p].version
             /\ r.doc.version = project'[p].version => r.doc.chats = project'[p].chats
  <2>1. r.doc \in Doc
    BY <1>2 DEF Inv, DocInv, DocOK, HasDoc
  <2>2. /\ r.doc.version \in Nat /\ project[p].version \in Nat
        /\ project'[p].version \in Nat
    BY <1>2, <2>1 DEF Inv, Typed, VersionsOK, Doc
  <2>3. /\ r.doc.version <= project[p].version
        /\ r.doc.version = project[p].version => r.doc.chats = project[p].chats
    BY <1>1, <1>2 DEF RequestKnows
  <2>4. CASE project'[p].version > project[p].version
    BY <2>2, <2>3, <2>4
  <2>5. CASE /\ project'[p].version = project[p].version
             /\ project'[p].chats = project[p].chats
    BY <2>3, <2>5
  <2> QED BY <1>2, <2>4, <2>5 DEF VersionsOK
<1>3. ASSUME Creating(y), NEW z \in Requests \ {y}, Busy(z)'
      PROVE  request'[z].p # p
  <2>1. Busy(z) /\ request'[z].p = request[z].p
    BY <1>3, IdleIs DEF Continues, OnlyRequest, Busy
  <2> QED BY <1>1, <1>3, <2>1 DEF RequestKnows
<1>4. r.at = "unsetAll" => p \notin DOMAIN project
  BY <1>1 DEF RequestKnows
<1>5. DOMAIN project' = DOMAIN project /\ (Creating(y)' => Creating(y))
  BY <1>1 DEF VersionsOK, Creating
<1> QED BY <1>1, <1>2, <1>3, <1>4, <1>5 DEF RequestKnows

\* A request writes to the records of its own chat, if to any.
LEMMA OneStep ==
  ASSUME ListsInv, NEW x \in Requests, Continues(x), request[x].at # "unsetAll",
         \A c \in Kept \ {request[x].c} : SameFor(c),
         \A c \in Kept : c = request[x].c => AgreeOK(c)' /\ (Busy(x)' => Mine(x)'),
         LooseInv', KnowsInv'
  PROVE  ListsInv'
<1> SUFFICES ASSUME NEW c \in Kept PROVE AloneOK(c)' /\ AgreeOK(c)' /\ WorkOK(c)'
  BY DEF ListsInv, KeptInv, Kept, Continues
<1>1. AloneOK(c) /\ AgreeOK(c) /\ WorkOK(c)
  BY DEF ListsInv, KeptInv
<1>2. AloneOK(c)'
  BY <1>1, AloneStays
<1>3. CASE c # request[x].c
  BY <1>1, <1>2, <1>3, AgreeStays, WorkStays
<1>4. CASE c = request[x].c
  <2>1. ASSUME NEW y \in Requests, Busy(y)', request'[y].c = c PROVE Mine(y)'
    <3>1. y = x
      BY <1>1, <1>4, <2>1 DEF AloneOK, Continues, OnlyRequest, Busy
    <3> QED BY <1>4, <2>1, <3>1
  <2>2. WorkOK(c)'
    BY <2>1 DEF WorkOK
  <2> QED BY <1>2, <1>4, <2>2
<1> QED BY <1>3, <1>4

\* Neither chats nor lists change.
SameLists ==
  /\ VersionsOK /\ UNCHANGED chat
  /\ \A p \in DOMAIN project : project'[p].chats = project[p].chats

LEMMA ReadStep ==
  ASSUME Inv, ListsInv, NEW x \in Requests, Continues(x), SameLists,
         request[x].at \notin {"push", "save", "unset", "unsetAll"},
         Busy(x)' /\ request[x].c \in Kept => Mine(x)',
         RequestKnows(x)'
  PROVE  ListsInv'
<1>1. \A c : SameFor(c)
  BY DEF SameLists, SameFor, VersionsOK
<1>2. LooseInv' /\ KnowsInv'
  BY KnowsStays DEF ListsInv, LooseInv, SameLists
<1>3. \A c \in Kept : AgreeOK(c)'
  BY <1>1, AgreeStays DEF ListsInv, KeptInv
<1> QED BY <1>1, <1>2, <1>3, OneStep

LEMMA SameDocs ==
  ASSUME Inv, UNCHANGED <<project, chat>>
  PROVE  SameLists
BY DEF SameLists, VersionsOK, Inv, Typed

\* A request is over.
LEMMA Over ==
  ASSUME Inv, NEW x \in Requests, Busy(x), Reply(x), UNCHANGED strayed
  PROVE  Continues(x) /\ ~Busy(x)' /\ RequestKnows(x)'
BY ReplyIs, IdleIs DEF Inv, Continues, Busy, RequestKnows, Creating

\* The steps of a request that is not one to create, add or remove a chat, and
\* does not come to write a list.
LEMMA ApartStep ==
  ASSUME Inv, ListsInv, NEW x \in Requests, Busy(x), SameLists, UNCHANGED strayed,
         request[x].op \notin {"createChat", "addChat", "removeChat"},
         request[x].at \notin {"push", "save", "unset", "unsetAll"},
         \/ Reply(x)
         \/ /\ OnlyRequest(x) /\ request'[x].op = request[x].op
            /\ request'[x].p = request[x].p /\ request'[x].c = request[x].c
            /\ request'[x].at \notin {"filter", "unsetAll"}
            /\ Creating(x)' => Creating(x)
  PROVE  ListsInv'
<1>1. CASE Reply(x)
  BY <1>1, Over, ReadStep
<1>2. CASE /\ OnlyRequest(x) /\ request'[x].op = request[x].op
           /\ request'[x].p = request[x].p /\ request'[x].c = request[x].c
           /\ request'[x].at \notin {"filter", "unsetAll"}
           /\ Creating(x)' => Creating(x)
  <2>1. Continues(x)
    BY <1>2 DEF Continues
  <2>2. Mine(x)'
    BY <1>2 DEF Mine
  <2>3. RequestKnows(x)'
    <3>1. ASSUME Creating(x), NEW y \in Requests \ {x}, Busy(y)'
          PROVE  request'[y].p # request'[x].p
      BY <1>2, <3>1 DEF ListsInv, KnowsInv, RequestKnows, OnlyRequest, Busy
    <3> QED BY <1>2, <3>1 DEF RequestKnows
  <2> QED BY <2>1, <2>2, <2>3, ReadStep
<1> QED BY <1>1, <1>2

LEMMA AccountLists ==
  ASSUME Inv, ListsInv, NEW x \in Requests,
         SaveUser(x) \/ UpsertWorkspace(x) \/ UpsertMember(x)
  PROVE  ListsInv'
<1>1. /\ request[x].at \in {"user", "workspace", "member"} /\ Busy(x)
      /\ {"workspace", "member", "insertProject"} \subseteq Steps
      /\ UNCHANGED <<project, chat, strayed>>
  BY DEF SaveUser, UpsertWorkspace, UpsertMember, At, Steps, Busy
<1>2. /\ request[x].op \in {"register", "createProject"}
      /\ request[x].at = "user" => request[x].op = "register"
  BY <1>1 DEF Inv, BranchInv, BranchOK, OpsAt, Busy
<1>3. \/ Reply(x)
      \/ \E s \in {"workspace", "member", "insertProject"} : Proceed(x, s)
  BY DEF SaveUser, UpsertWorkspace, UpsertMember
<1>4. CASE Reply(x)
  BY <1>1, <1>2, <1>4, SameDocs, ApartStep
<1>5. ASSUME NEW s \in {"workspace", "member", "insertProject"}, Proceed(x, s)
      PROVE  ListsInv'
  <2>1. /\ OnlyRequest(x) /\ request'[x].at = s /\ request'[x].op = request[x].op
        /\ request'[x].p = request[x].p /\ request'[x].c = request[x].c
    BY <1>1, <1>5, ProceedIs DEF Inv, Busy
  <2>2. Creating(x)' => Creating(x)
    BY <1>1, <1>2, <2>1 DEF Creating
  <2> QED BY <1>1, <1>2, <2>1, <2>2, SameDocs, ApartStep
<1> QED BY <1>3, <1>4, <1>5

LEMMA InsertBranchLists ==
  ASSUME Inv, ListsInv, NEW x \in Requests, InsertBranch(x)
  PROVE  ListsInv'
<1>1. /\ request[x].at = "insertBranch" /\ Busy(x) /\ Reply(x)
      /\ UNCHANGED <<project, chat, strayed>>
  BY DEF InsertBranch, At, Steps, Busy
<1>2. request[x].op = "createBranch"
  BY <1>1 DEF Inv, BranchInv, BranchOK, OpsAt, Busy
<1> QED BY <1>1, <1>2, SameDocs, ApartStep

LEMMA SetBranchHeadLists ==
  ASSUME Inv, ListsInv, NEW x \in Requests, SetBranchHead(x)
  PROVE  ListsInv'
<1>1. /\ request[x].at = "head" /\ Busy(x) /\ "mirror" \in Steps
      /\ UNCHANGED <<project, chat, strayed>>
      /\ Reply(x) \/ Proceed(x, "mirror")
  BY DEF SetBranchHead, At, Steps, Busy
<1>2. request[x].op = "rollback"
  BY <1>1 DEF Inv, BranchInv, BranchOK, OpsAt, Busy
<1>3. CASE Reply(x)
  BY <1>1, <1>2, <1>3, SameDocs, ApartStep
<1>4. CASE Proceed(x, "mirror")
  <2>1. /\ OnlyRequest(x) /\ request'[x].at = "mirror" /\ request'[x].op = request[x].op
        /\ request'[x].p = request[x].p /\ request'[x].c = request[x].c
    BY <1>1, <1>4, ProceedIs DEF Inv, Busy
  <2>2. ~Creating(x)'
    BY <2>1 DEF Creating
  <2> QED BY <1>1, <1>2, <2>1, <2>2, SameDocs, ApartStep
<1> QED BY <1>1, <1>3, <1>4

LEMMA SetMirrorLists ==
  ASSUME Inv, ListsInv, NEW x \in Requests, SetMirror(x)
  PROVE  ListsInv'
<1> DEFINE p == request[x].p
<1>1. /\ request[x].at = "mirror" /\ Busy(x) /\ Reply(x) /\ UNCHANGED <<chat, strayed>>
      /\ project' = IF p \in DOMAIN project
                    THEN [project EXCEPT ![p].revision = @ + 1] ELSE project
  BY DEF SetMirror, At, Steps, Busy
<1>2. request[x].op = "rollback"
  BY <1>1 DEF Inv, BranchInv, BranchOK, OpsAt, Busy
<1>3. SameLists
  <2>1. CASE p \in DOMAIN project
    <3> DEFINE d == project[p]  e == [d EXCEPT !.revision = d.revision + 1]
    <3>1. d.revision \in Nat /\ d \in Doc
      BY <2>1 DEF Inv, Typed, Doc
    <3>2. e \in Doc /\ e.chats = d.chats /\ e.version = d.version
      BY <3>1 DEF Doc
    <3>3. project' = [project EXCEPT ![p] = e]
      BY <1>1, <2>1 DEF Inv, Typed
    <3> HIDE DEF e
    <3> QED BY <1>1, <2>1, <3>2, <3>3 DEF SameLists, VersionsOK, Inv, Typed
  <2>2. CASE p \notin DOMAIN project
    BY <1>1, <2>2, SameDocs
  <2> QED BY <2>1, <2>2
<1> QED BY <1>1, <1>2, <1>3, ApartStep

\* A request that is the only one about its chat reads lists that agree.
LEMMA NotTorn ==
  ASSUME NEW c, AloneOK(c), AgreeOK(c), c \in DOMAIN chat,
         NEW x \in Requests, Busy(x), request[x].c = c,
         request[x].at \notin {"push", "save", "unset"},
         NEW p \in DOMAIN project
  PROVE  c \in project[p].chats <=> chat[c].project = p
<1>1. ~Torn(c, p)
  BY DEF AloneOK, Torn, Busy, Steps
<1> QED BY <1>1 DEF AgreeOK

LEMMA ReadProjectLists ==
  ASSUME Inv, ListsInv, NEW x \in Requests, ReadProject(x)
  PROVE  ListsInv'
<1> DEFINE r == request[x]  q == request'[x]
<1>1. /\ r.at = "project" /\ Busy(x) /\ UNCHANGED <<project, chat, strayed>>
  BY DEF ReadProject, At, Steps, Busy
<1>2. CASE Reply(x)
  BY <1>1, <1>2, Over, SameDocs, ReadStep
<1>3. CASE /\ r.p \in DOMAIN project /\ OnlyRequest(x) /\ q.doc = project[r.p]
           /\ q.op = r.op /\ q.p = r.p /\ q.c = r.c /\ q.b = r.b /\ q.saves = r.saves
           /\ \/ /\ q.at = "main"
                 /\ r.op \in {"listBranches", "createBranch", "createChat", "rollback"}
              \/ q.at = "branch" /\ r.op \in {"createChat", "rollback"} /\ r.b # None
              \/ q.at = "chat" /\ r.op = "addChat"
              \/ q.at = "filter" /\ r.op = "removeChat"
              \/ q.at = "deleteProject" /\ r.op = "deleteProject"
  <2>1. Continues(x)
    BY <1>1, <1>3 DEF Continues
  <2>2. RequestKnows(x)'
    <3>1. project[r.p].version \in Nat
      BY <1>3 DEF Inv, Typed, Doc
    <3> QED BY <1>1, <1>3, <3>1 DEF RequestKnows, Creating
  <2>3. ASSUME r.c \in Kept PROVE Mine(x)'
    <3>1. AloneOK(r.c) /\ AgreeOK(r.c) /\ Mine(x)
      BY <1>1, <2>3 DEF ListsInv, KeptInv, WorkOK
    <3>2. CASE r.op = "createChat"
      BY <1>1, <1>3, <3>1, <3>2 DEF Mine, CreatorOK
    <3>3. CASE r.op = "addChat"
      BY <1>1, <1>3, <3>1, <3>3 DEF Mine, AdderOK
    <3>4. CASE r.op = "removeChat"
      <4>1. r.c \in DOMAIN chat /\ chat[r.c].project = r.p
        BY <3>1, <3>4 DEF Mine, RemoverOK
      <4>2. r.c \in project[r.p].chats
        BY <1>1, <1>3, <3>1, <4>1, NotTorn
      <4> QED BY <1>1, <1>3, <3>4, <4>1, <4>2 DEF Mine, RemoverOK
    <3> QED BY <1>3, <3>2, <3>3, <3>4 DEF Mine
  <2> QED BY <1>1, <2>1, <2>2, <2>3, SameDocs, ReadStep
<1> QED BY <1>2, <1>3, ReadProjectIs

LEMMA ReadChatLists ==
  ASSUME Inv, ListsInv, NEW x \in Requests, ReadChat(x)
  PROVE  ListsInv'
<1> DEFINE r == request[x]  q == request'[x]
<1>1. /\ r.at = "chat" /\ Busy(x) /\ UNCHANGED <<project, chat, strayed>>
      /\ system = "serving" /\ "deleteChat" \in Steps
  BY DEF ReadChat, At, Steps, Busy
<1>2. CASE Reply(x)
  BY <1>1, <1>2, Over, SameDocs, ReadStep
<1>3. CASE r.op = "deleteChat" /\ Proceed(x, "deleteChat")
  <2>1. /\ OnlyRequest(x) /\ q.at = "deleteChat" /\ q.op = r.op
        /\ q.p = r.p /\ q.c = r.c
    BY <1>1, <1>3, ProceedIs DEF Inv, Busy
  <2>2. ~Creating(x)'
    BY <2>1 DEF Creating
  <2> QED BY <1>1, <1>3, <2>1, <2>2, SameDocs, ApartStep
<1>4. CASE /\ r.op = "addChat" /\ r.c \in DOMAIN chat /\ OnlyRequest(x)
           /\ q.b = chat[r.c].branch
           /\ q.at = IF q.b = None THEN "main" ELSE "branch"
           /\ q.op = r.op /\ q.p = r.p /\ q.c = r.c
           /\ q.doc = r.doc /\ q.saves = r.saves
  <2>1. Continues(x)
    BY <1>1, <1>4 DEF Continues
  <2>2. RequestKnows(x)'
    BY <1>4 DEF RequestKnows, Creating
  <2>3. /\ q.b = None => chat[r.c].project = None
        /\ q.b # None /\ q.b[1] = r.p => chat[r.c].project = r.p
    <3>1. CASE chat[r.c].project = None
      BY <1>4, <3>1 DEF ListsInv, LooseInv
    <3>2. CASE chat[r.c].project # None
      <4>1. OnBranch(r.c)
        BY <1>1, <1>4, <3>2 DEF Inv, ChatInv
      <4>2. chat[r.c].branch # None
        BY <4>1, ProjectsAssumption DEF OnBranch, Inv, Typed, BranchIds
      <4> QED BY <1>4, <4>1, <4>2 DEF OnBranch
    <3> QED BY <3>1, <3>2
  <2>4. ASSUME r.c \in Kept PROVE Mine(x)'
    <3>1. Mine(x)
      BY <1>1, <2>4 DEF ListsInv, KeptInv, WorkOK
    <3>2. r.p \in DOMAIN project /\ AdderOK(r)
      BY <1>4, <3>1 DEF Mine
    <3> HIDE DEF r, q
    <3>3. q.at \in {"main", "branch"} /\ q.saves = {"project", "chat"}
      BY <1>1, <1>4, <3>2 DEF AdderOK
    <3> QED BY <1>1, <1>4, <2>3, <3>2, <3>3 DEF Mine, AdderOK, q
  <2> QED BY <1>1, <2>1, <2>2, <2>4, SameDocs, ReadStep
<1> QED BY <1>2, <1>3, <1>4, ReadChatIs

\* With its branch a request to add a chat goes on to write both records: the
\* chat is in no project, or in this one.
LEMMA WithBranchLists ==
  ASSUME Inv, ListsInv, NEW x \in Requests, request[x].at \in {"main", "branch"},
         head' \in [DOMAIN head' -> Nat], DOMAIN head' \subseteq BranchIds,
         NEW b \in DOMAIN head',
         request[x].at = "branch" => request[x].b[1] = request[x].p,
         WithBranch(x, b), UNCHANGED <<project, chat, strayed>>
  PROVE  ListsInv'
<1> DEFINE r == request[x]  q == request'[x]
<1>1. Busy(x) /\ BranchOK(x)
  BY DEF Inv, BranchInv, Busy, Steps
<1>2. CASE Reply(x)
  BY <1>1, <1>2, Over, SameDocs, ReadStep
<1>3. CASE /\ r.op \in {"createBranch", "createChat", "addChat", "rollback"}
           /\ OnlyRequest(x) /\ q \in RequestRecord
           /\ q.op = r.op /\ q.p = r.p /\ q.c = r.c /\ q.saves = r.saves
           /\ q.at = CASE r.op = "createBranch" -> "insertBranch"
                       [] r.op = "createChat" -> "insertChat"
                       [] r.op = "addChat" -> "save"
                       [] r.op = "rollback" -> "head"
           /\ q.b = IF r.op \in {"createChat", "rollback"} THEN b ELSE r.b
  <2>1. q.at \in {"insertBranch", "insertChat", "save", "head"}
    BY <1>3
  <2>2. Continues(x) /\ RequestKnows(x)'
    BY <1>1, <1>3, <2>1 DEF Continues, RequestKnows, Creating
  <2>3. ASSUME r.c \in Kept PROVE Mine(x)'
    <3>1. Mine(x)
      BY <1>1, <2>3 DEF ListsInv, KeptInv, WorkOK
    <3>2. CASE r.op = "createChat"
      BY <1>3, <2>1, <3>1, <3>2 DEF Mine, CreatorOK
    <3>3. CASE r.op = "addChat"
      <4>1. r.p \in DOMAIN project /\ AdderOK(r)
        BY <3>1, <3>3 DEF Mine
      <4>2. q.at = "save" /\ q.b = r.b
        BY <1>3, <3>3
      <4>3. r.at = "branch" => r.b # None
        BY <1>1 DEF BranchOK, Steps
      <4> HIDE DEF r, q
      <4>4. q.saves = {"project", "chat"} /\ chat[r.c].project \in {None, r.p}
        BY <1>3, <4>1, <4>2 DEF AdderOK, r
      <4>5. r.b # None => chat[r.c].project = r.p
        BY <4>1, <4>2 DEF AdderOK, r
      <4> QED BY <1>3, <3>3, <4>1, <4>2, <4>4, <4>5 DEF Mine, AdderOK, q
    <3> QED BY <1>3, <3>2, <3>3 DEF Mine
  <2> QED BY <1>1, <2>2, <2>3, SameDocs, ReadStep
<1> QED BY <1>1, <1>2, <1>3, WithBranchIs DEF Inv

LEMMA BranchLists ==
  ASSUME Inv, Inv', ListsInv, NEW x \in Requests, UpsertMain(x) \/ FindBranch(x)
  PROVE  ListsInv'
<1> DEFINE r == request[x]
<1>1. /\ Busy(x) /\ UNCHANGED <<project, chat, strayed>>
      /\ head' \in [DOMAIN head' -> Nat] /\ DOMAIN head' \subseteq BranchIds
  BY DEF UpsertMain, FindBranch, At, Steps, Busy, Inv, Typed
<1>2. CASE UpsertMain(x)
  <2>1. r.at = "main" /\ WithBranch(x, Main(r.p)) /\ Main(r.p) \in DOMAIN head'
    BY <1>2 DEF UpsertMain, At, EnsureMain, Upsert
  <2> QED BY <1>1, <2>1, WithBranchLists
<1>3. CASE FindBranch(x)
  <2>1. CASE Reply(x)
    BY <1>1, <2>1, <1>3, Over, SameDocs, ReadStep DEF FindBranch, At
  <2>2. CASE Resolves(r.p, r.b) /\ WithBranch(x, r.b)
    <3>1. r.at = "branch" /\ r.b \in DOMAIN head' /\ r.b[1] = r.p
      BY <1>3, <2>2 DEF FindBranch, At, Resolves
    <3> QED BY <1>1, <2>2, <3>1, WithBranchLists
  <2> QED BY <1>3, <2>1, <2>2 DEF FindBranch
<1> QED BY <1>2, <1>3

\* What the lists are when an id is pushed, or all but one kept.
LEMMA PushLists ==
  ASSUME Typed, NEW p, NEW c \in Chats, PushChat(p, c)
  PROVE  /\ VersionsOK
         /\ \A d, q : q \in DOMAIN project =>
              (d \in project'[q].chats <=> d \in project[q].chats \/ (d = c /\ q = p))
<1>1. CASE p \in DOMAIN project
  <2> DEFINE cs == project[p].chats \cup {c}
  <2>1. cs \in SUBSET Chats /\ project[p].version \in Nat
    BY <1>1 DEF Typed, Doc
  <2>2. Relists(p, cs)
    BY <1>1 DEF PushChat, Typed, Relists
  <2>3. \A d : d \in cs <=> d \in project[p].chats \/ d = c
    OBVIOUS
  <2> HIDE DEF cs
  <2>4. /\ SameRevisions
        /\ project'[p].chats = cs /\ project'[p].version = project[p].version + 1
        /\ \A q \in DOMAIN project \ {p} : project'[q] = project[q]
    BY <1>1, <2>1, <2>2, ListChanged
  <2> QED BY <2>1, <2>3, <2>4 DEF VersionsOK, SameRevisions
<1>2. CASE p \notin DOMAIN project
  BY <1>2 DEF PushChat, VersionsOK, Typed
<1> QED BY <1>1, <1>2

\* The last write of a request leaves the records of its chat in agreement.
LEMMA InAgreement ==
  ASSUME NEW c, c \in DOMAIN chat' =>
           /\ \A p \in DOMAIN project' : c \in project'[p].chats <=> chat'[c].project = p
           /\ chat'[c].project \in DOMAIN project' \cup {None}
  PROVE  AgreeOK(c)'
BY DEF AgreeOK

LEMMA PushChatLists ==
  ASSUME Inv, ListsInv, NEW x \in Requests, Push(x)
  PROVE  ListsInv'
<1> DEFINE r == request[x]
<1>1. /\ r.at = "push" /\ Busy(x) /\ UNCHANGED <<chat, strayed>>
      /\ PushChat(r.p, r.c) /\ Reply(x)
  BY DEF Push, At, Steps, Busy
<1>2. r.c \in Chats /\ r.op = "createChat"
  BY <1>1 DEF Inv, BranchInv, BranchOK, OpsAt, Busy
<1>3. /\ VersionsOK
      /\ \A d, q : q \in DOMAIN project =>
           (d \in project'[q].chats <=> d \in project[q].chats \/ (d = r.c /\ q = r.p))
  BY <1>1, <1>2, PushLists DEF Inv
<1>4. Continues(x) /\ ~Busy(x)' /\ KnowsInv' /\ LooseInv'
  BY <1>1, <1>3, Over, KnowsStays DEF ListsInv, LooseInv
<1>5. \A c \in Kept \ {r.c} : SameFor(c)
  BY <1>1, <1>3 DEF SameFor, VersionsOK
<1>6. ASSUME NEW c \in Kept, c = r.c PROVE AgreeOK(c)'
  <2>1. AloneOK(c) /\ AgreeOK(c) /\ Mine(x)
    BY <1>1, <1>6 DEF ListsInv, KeptInv, WorkOK
  <2>2. c \in DOMAIN chat /\ chat[c].project = r.p /\ r.p \in DOMAIN project
    BY <1>1, <1>2, <1>6, <2>1 DEF Mine, CreatorOK
  <2>3. ASSUME NEW p \in DOMAIN project, p # r.p PROVE ~Torn(c, p)
    BY <1>1, <1>6, <2>1, <2>3 DEF AloneOK, Torn, Busy, Steps
  <2>4. \A p \in DOMAIN project : c \in project'[p].chats <=> chat[c].project = p
    BY <1>3, <1>6, <2>1, <2>2, <2>3 DEF AgreeOK
  <2> QED BY <1>1, <1>3, <2>2, <2>4, InAgreement DEF VersionsOK
<1> QED BY <1>1, <1>4, <1>5, <1>6, OneStep

LEMMA SameVersions ==
  ASSUME Typed, UNCHANGED project
  PROVE  VersionsOK
BY DEF VersionsOK, Typed

LEMMA InsertChatLists ==
  ASSUME Inv, ListsInv, NEW x \in Requests, InsertChat(x)
  PROVE  ListsInv'
<1> DEFINE r == request[x]  q == request'[x]
           new == [user |-> r.u, project |-> r.p, branch |-> r.b]
<1>1. /\ r.at = "insertChat" /\ Busy(x) /\ "push" \in Steps
      /\ UNCHANGED <<project, strayed>>
      /\ chat' = Upsert(chat, r.c, new) /\ Proceed(x, "push")
  BY DEF InsertChat, At, Steps, Busy
<1>2. r.op = "createChat" /\ r.p \in Projects
  BY <1>1 DEF Inv, BranchInv, BranchOK, OpsAt, Busy
<1>3. new.project = r.p
  OBVIOUS
<1> HIDE DEF new
<1>4. /\ OnlyRequest(x) /\ q.at = "push" /\ q.op = r.op
      /\ q.p = r.p /\ q.c = r.c
  BY <1>1, ProceedIs DEF Inv, Busy
<1>5. /\ DOMAIN chat' = DOMAIN chat \cup {r.c}
      /\ \A c \in DOMAIN chat : chat'[c] = chat[c]
      /\ r.c \notin DOMAIN chat => chat'[r.c].project = r.p
  BY <1>1, <1>3 DEF Upsert
<1>6. Continues(x) /\ RequestKnows(x)'
  BY <1>1, <1>4 DEF Continues, RequestKnows, Creating
<1>7. KnowsInv'
  BY <1>1, <1>6, SameVersions, KnowsStays DEF ListsInv, Inv
<1>8. LooseInv'
  BY <1>2, <1>5, ProjectsAssumption DEF ListsInv, LooseInv
<1>9. \A c \in Kept \ {r.c} : SameFor(c)
  BY <1>1, <1>5 DEF SameFor
<1>10. ASSUME NEW c \in Kept, c = r.c PROVE AgreeOK(c)' /\ Mine(x)'
  <2>1. Mine(x)
    BY <1>1, <1>10 DEF ListsInv, KeptInv, WorkOK
  <2>2. /\ c \notin DOMAIN chat /\ r.p \in DOMAIN project
        /\ \A p \in DOMAIN project : c \notin project[p].chats
    BY <1>1, <1>2, <1>10, <2>1 DEF Mine, CreatorOK
  <2>3. Torn(c, r.p)'
    BY <1>4, <1>10 DEF Torn
  <2>4. c \in DOMAIN chat' /\ chat'[c].project = r.p
    BY <1>5, <1>10, <2>2
  <2>5. AgreeOK(c)'
    <3>1. ASSUME NEW p \in DOMAIN project
          PROVE  Torn(c, p)' \/ (c \in project'[p].chats <=> chat'[c].project = p)
      <4>1. CASE p = request'[x].p
        BY <1>4, <1>10, <4>1 DEF Torn
      <4>2. CASE p # request'[x].p
        BY <1>1, <1>4, <2>2, <2>4, <4>2
      <4> QED BY <4>1, <4>2
    <3> QED BY <1>1, <2>2, <2>4, <3>1 DEF AgreeOK
  <2>6. Mine(x)'
    BY <1>1, <1>2, <1>4, <1>10, <2>2, <2>4 DEF Mine, CreatorOK
  <2> QED BY <2>5, <2>6
<1> QED BY <1>1, <1>6, <1>7, <1>8, <1>9, <1>10, OneStep

\* The second of the two saves ends the request with the records in agreement.
LEMMA SaveLists ==
  ASSUME Inv, ListsInv, NEW x \in Requests, Save(x)
  PROVE  ListsInv'
<1> DEFINE r == request[x]  q == request'[x]
<1>1. r.at = "save" /\ Busy(x) /\ UNCHANGED strayed
  BY DEF Save, At, Steps, Busy
<1>2. /\ r \in RequestRecord /\ r.op = "addChat" /\ r.c \in Chats /\ r.p \in Projects
      /\ r.saves \subseteq {"project", "chat"}
  BY <1>1, RequestTypes
     DEF Inv, BranchInv, BranchOK, OpsAt, Busy, RequestRecord
<1>3. PICK s \in r.saves :
        /\ IF s = "project" THEN PushChat(r.p, r.c) /\ UNCHANGED chat
           ELSE /\ chat' = IF r.c \in DOMAIN chat /\ r.b = None
                           THEN [chat EXCEPT ![r.c].project = r.p, ![r.c].branch = Main(r.p)]
                           ELSE chat
                /\ UNCHANGED project
        /\ IF r.saves = {s} THEN Reply(x)
           ELSE request' = [request EXCEPT ![x].saves = @ \ {s}]
  BY DEF Save
<1>4. /\ Continues(x) /\ RequestKnows(x)'
      /\ \/ ~Busy(x)' /\ r.saves = {s}
         \/ /\ q.at = "save" /\ q.op = r.op /\ q.p = r.p /\ q.c = r.c /\ q.b = r.b
            /\ q.saves = r.saves \ {s}
  <2>1. CASE Reply(x) /\ r.saves = {s}
    BY <1>1, <2>1, Over
  <2>2. CASE request' = [request EXCEPT ![x].saves = @ \ {s}]
    <3> DEFINE n == [r EXCEPT !.saves = r.saves \ {s}]
    <3>1. /\ n \in RequestRecord /\ n.at = r.at /\ n.op = r.op /\ n.p = r.p
          /\ n.c = r.c /\ n.b = r.b /\ n.saves = r.saves \ {s}
      BY <1>2 DEF RequestRecord
    <3>2. request' = [request EXCEPT ![x] = n]
      BY <2>2 DEF Inv, Typed
    <3> HIDE DEF n
    <3>3. OnlyRequest(x) /\ request'[x] = n
      BY <3>1, <3>2, OneRequest DEF Inv
    <3> QED BY <1>1, <3>1, <3>3 DEF Continues, RequestKnows, Creating
  <2> QED BY <1>3, <2>1, <2>2
<1>5. /\ VersionsOK
      /\ \A d, p : p \in DOMAIN project =>
           (d \in project'[p].chats <=>
              d \in project[p].chats \/ (s = "project" /\ d = r.c /\ p = r.p))
  BY <1>2, <1>3, PushLists, SameVersions DEF Inv
<1>6. /\ DOMAIN chat' = DOMAIN chat
      /\ \A d \in DOMAIN chat :
           \/ s # "project" /\ d = r.c /\ r.b = None /\ chat'[d].project = r.p
           \/ ~(s # "project" /\ d = r.c /\ r.b = None) /\ chat'[d] = chat[d]
  <2>1. CASE s # "project" /\ r.c \in DOMAIN chat /\ r.b = None
    <3> DEFINE e == [chat[r.c] EXCEPT !.project = r.p]
               n == [e EXCEPT !.branch = Main(r.p)]
    <3>1. e \in ChatRecord /\ e.project = r.p
      BY <1>2, <2>1 DEF Inv, Typed, ChatRecord
    <3>2. chat' = [chat EXCEPT ![r.c] = n]
      BY <1>3, <2>1 DEF Inv, Typed
    <3> HIDE DEF e
    <3>3. n.project = r.p
      BY <3>1 DEF ChatRecord
    <3> HIDE DEF n
    <3> QED BY <2>1, <3>2, <3>3 DEF Inv, Typed
  <2>2. CASE ~(s # "project" /\ r.c \in DOMAIN chat /\ r.b = None)
    BY <1>3, <2>2
  <2> QED BY <2>1, <2>2
<1>7. LooseInv'
  BY <1>2, <1>6, ProjectsAssumption DEF ListsInv, LooseInv
<1>8. KnowsInv'
  BY <1>4, <1>5, KnowsStays DEF ListsInv
<1>9. \A c \in Kept \ {r.c} : SameFor(c)
  BY <1>5, <1>6 DEF SameFor, VersionsOK
<1>10. ASSUME NEW c \in Kept, c = r.c PROVE AgreeOK(c)' /\ (Busy(x)' => Mine(x)')
  <2>1. AloneOK(c) /\ AgreeOK(c) /\ Mine(x)
    BY <1>1, <1>10 DEF ListsInv, KeptInv, WorkOK
  <2>2. r.p \in DOMAIN project /\ AdderOK(r)
    BY <1>2, <2>1 DEF Mine
  <2>3. c \in DOMAIN chat /\ chat[c].project \in {None, r.p}
    BY <1>1, <1>10, <2>2 DEF AdderOK
  <2>4. chat'[c].project \in {None, r.p}
    BY <1>6, <2>3
  <2>5. /\ s = "chat" \/ "chat" \notin r.saves \/ r.b # None => chat'[c].project = r.p
        /\ s = "project" \/ "project" \notin r.saves => c \in project'[r.p].chats
    BY <1>1, <1>2, <1>5, <1>6, <1>10, <2>2, <2>3 DEF AdderOK
  <2>6. ASSUME NEW p \in DOMAIN project, p # r.p
        PROVE  c \notin project'[p].chats /\ chat'[c].project # p
    <3>1. ~Torn(c, p)
      BY <1>1, <1>10, <2>1, <2>6 DEF AloneOK, Torn, Busy, Steps
    <3>2. p # None
      BY ProjectsAssumption DEF Inv, Typed
    <3> QED BY <1>5, <1>10, <2>1, <2>3, <2>4, <2>6, <3>1, <3>2 DEF AgreeOK
  <2>7. CASE ~Busy(x)' /\ r.saves = {s}
    <3>1. chat'[c].project = r.p /\ c \in project'[r.p].chats
      BY <1>2, <2>5, <2>7
    <3>2. AgreeOK(c)'
      BY <1>5, <2>2, <2>6, <3>1, InAgreement DEF VersionsOK
    <3> QED BY <2>7, <3>2
  <2>8. CASE /\ q.at = "save" /\ q.op = r.op /\ q.p = r.p /\ q.c = r.c /\ q.b = r.b
             /\ q.saves = r.saves \ {s}
    <3>1. AgreeOK(c)'
      <4>1. ASSUME NEW p \in DOMAIN project
            PROVE  Torn(c, p)' \/ (c \in project'[p].chats <=> chat'[c].project = p)
        BY <1>10, <2>6, <2>8 DEF Torn
      <4> QED BY <1>5, <2>2, <2>4, <4>1 DEF AgreeOK, VersionsOK
    <3>2. "chat" \notin q.saves \/ q.b # None => chat'[c].project = r.p
      BY <1>2, <2>5, <2>8
    <3>3. "project" \notin q.saves => c \in project'[r.p].chats
      BY <1>2, <2>5, <2>8
    <3>4. Mine(x)'
      BY <1>2, <1>5, <1>6, <1>10, <2>2, <2>3, <2>4, <2>8, <3>2, <3>3
         DEF Mine, AdderOK, VersionsOK
    <3> QED BY <3>1, <3>4
  <2> QED BY <1>4, <2>7, <2>8
<1> QED BY <1>1, <1>4, <1>7, <1>8, <1>9, <1>10, OneStep

LEMMA FilterLists ==
  ASSUME Inv, ListsInv, NEW x \in Requests, Filter(x)
  PROVE  ListsInv'
<1> DEFINE r == request[x]  q == request'[x]  kept == r.doc.chats \ {r.c}
<1>1. r.at = "filter" /\ Busy(x) /\ "unset" \in Steps /\ UNCHANGED <<chat, strayed>>
  BY DEF Filter, At, Steps, Busy
<1>2. r.op = "removeChat" /\ r.doc \in Doc
  BY <1>1 DEF Inv, BranchInv, BranchOK, OpsAt, Busy, DocInv, DocOK, HasDoc
<1>3. CASE Reply(x) /\ UNCHANGED project
  BY <1>1, <1>3, Over, SameDocs, ReadStep
<1>4. CASE /\ MayAssign(r.p, r.doc, kept) /\ Proceed(x, "unset")
           /\ project' = IF kept = r.doc.chats THEN project
                         ELSE [project EXCEPT ![r.p].chats = kept, ![r.p].version = @ + 1]
  <2>1. r.p \in DOMAIN project /\ (kept = r.doc.chats \/ r.doc.chats = project[r.p].chats)
    BY <1>1, <1>4 DEF MayAssign, ListsInv, KnowsInv, RequestKnows
  <2>2. /\ OnlyRequest(x) /\ q.at = "unset" /\ q.op = r.op
        /\ q.p = r.p /\ q.c = r.c
    BY <1>1, <1>4, ProceedIs DEF Inv, Busy
  <2>3. Continues(x) /\ RequestKnows(x)'
    BY <1>1, <2>2 DEF Continues, RequestKnows, Creating
  <2>4. /\ VersionsOK
        /\ \A d, p : p \in DOMAIN project =>
             (d \in project'[p].chats <=>
                d \in project[p].chats /\ ~(r.c \in r.doc.chats /\ d = r.c /\ p = r.p))
    <3>1. CASE kept = r.doc.chats
      BY <1>4, <3>1, SameVersions DEF Inv
    <3>2. CASE kept # r.doc.chats
      <4>1. kept \in SUBSET Chats /\ project[r.p].version \in Nat
        BY <1>2, <2>1 DEF Doc, Inv, Typed
      <4>2. /\ \A d : d \in kept <=> d \in project[r.p].chats /\ d # r.c
            /\ r.c \in r.doc.chats
        BY <2>1, <3>2
      <4>3. Relists(r.p, kept) /\ Typed
        BY <1>4, <3>2 DEF Relists, Inv
      <4> HIDE DEF kept
      <4>4. /\ SameRevisions
            /\ project'[r.p].chats = kept
            /\ project'[r.p].version = project[r.p].version + 1
            /\ \A p \in DOMAIN project \ {r.p} : project'[p] = project[p]
        BY <2>1, <4>1, <4>3, ListChanged
      <4> QED BY <4>1, <4>2, <4>4 DEF VersionsOK, SameRevisions
    <3> QED BY <3>1, <3>2
  <2>5. KnowsInv' /\ LooseInv'
    BY <1>1, <2>3, <2>4, KnowsStays DEF ListsInv, LooseInv
  <2>6. \A c \in Kept \ {r.c} : SameFor(c)
    BY <1>1, <2>4 DEF SameFor, VersionsOK
  <2>7. ASSUME NEW c \in Kept, c = r.c PROVE AgreeOK(c)' /\ Mine(x)'
    <3>1. AloneOK(c) /\ AgreeOK(c) /\ Mine(x)
      BY <1>1, <2>7 DEF ListsInv, KeptInv, WorkOK
    <3>2. /\ c \in DOMAIN chat /\ chat[c].project = r.p /\ c \in r.doc.chats
      BY <1>1, <1>2, <2>7, <3>1 DEF Mine, RemoverOK
    <3>3. c \notin project'[r.p].chats
      BY <2>1, <2>4, <2>7, <3>2
    <3>4. ASSUME NEW p \in DOMAIN project
          PROVE  Torn(c, p)' \/ (c \in project'[p].chats <=> chat[c].project = p)
      <4>1. CASE p = r.p
        BY <2>2, <2>7, <4>1 DEF Torn
      <4>2. CASE p # r.p
        <5>1. c \in project[p].chats <=> chat[c].project = p
          BY <1>1, <2>7, <3>1, <3>2, NotTorn
        <5> QED BY <2>4, <4>2, <5>1
      <4> QED BY <4>1, <4>2
    <3>5. AgreeOK(c)'
      BY <1>1, <2>1, <2>4, <3>2, <3>4 DEF AgreeOK, VersionsOK
    <3>6. Mine(x)'
      BY <1>1, <1>2, <2>1, <2>2, <2>4, <2>7, <3>2, <3>3 DEF Mine, RemoverOK, VersionsOK
    <3> QED BY <3>5, <3>6
  <2> QED BY <1>1, <2>3, <2>5, <2>6, <2>7, OneStep
<1> QED BY <1>3, <1>4 DEF Filter

LEMMA UnsetLists ==
  ASSUME Inv, ListsInv, NEW x \in Requests, Unset(x)
  PROVE  ListsInv'
<1> DEFINE r == request[x]
<1>1. /\ r.at = "unset" /\ Busy(x) /\ Reply(x) /\ UNCHANGED <<project, strayed>>
      /\ chat' = IF r.c \in DOMAIN chat THEN [chat EXCEPT ![r.c] = Detached(r.c)] ELSE chat
  BY DEF Unset, At, Steps, Busy
<1>2. r.op = "removeChat"
  BY <1>1 DEF Inv, BranchInv, BranchOK, OpsAt, Busy
<1>3. /\ DOMAIN chat' = DOMAIN chat
      /\ \A c \in DOMAIN chat \ {r.c} : chat'[c] = chat[c]
      /\ r.c \in DOMAIN chat => chat'[r.c].project = None /\ chat'[r.c].branch = None
  BY <1>1, DetachedIs DEF Inv, Typed
<1>4. Continues(x) /\ ~Busy(x)' /\ KnowsInv'
  BY <1>1, Over, SameVersions, KnowsStays DEF ListsInv, Inv
<1>5. LooseInv'
  BY <1>3 DEF ListsInv, LooseInv
<1>6. \A c \in Kept \ {r.c} : SameFor(c)
  BY <1>1, <1>3 DEF SameFor
<1>7. ASSUME NEW c \in Kept, c = r.c PROVE AgreeOK(c)'
  <2>1. AloneOK(c) /\ AgreeOK(c) /\ Mine(x)
    BY <1>1, <1>7 DEF ListsInv, KeptInv, WorkOK
  <2>2. c \in DOMAIN chat /\ chat[c].project = r.p /\ c \notin project[r.p].chats
    BY <1>1, <1>2, <1>7, <2>1 DEF Mine, RemoverOK
  <2>3. ASSUME NEW p \in DOMAIN project PROVE c \notin project[p].chats
    <3>1. p # r.p => ~Torn(c, p)
      BY <1>1, <1>7, <2>1 DEF AloneOK, Torn, Busy, Steps
    <3> QED BY <2>1, <2>2, <3>1 DEF AgreeOK
  <2>4. None \notin DOMAIN project
    BY ProjectsAssumption DEF Inv, Typed
  <2> QED BY <1>1, <1>3, <1>7, <2>3, <2>4, InAgreement
<1> QED BY <1>1, <1>4, <1>5, <1>6, <1>7, OneStep

LEMMA DeleteChatLists ==
  ASSUME Inv, ListsInv, NEW x \in Requests, DeleteChat(x)
  PROVE  ListsInv'
<1> DEFINE r == request[x]
<1>1. /\ r.at = "deleteChat" /\ Busy(x) /\ Reply(x) /\ UNCHANGED <<project, strayed>>
  BY DEF DeleteChat, At, Steps, Busy
<1>2. /\ DOMAIN chat' = DOMAIN chat \ {r.c}
      /\ \A c \in DOMAIN chat' : chat'[c] = chat[c]
  BY DEF DeleteChat, Restrict
<1>3. Continues(x) /\ ~Busy(x)' /\ KnowsInv'
  BY <1>1, Over, SameVersions, KnowsStays DEF ListsInv, Inv
<1>4. LooseInv'
  BY <1>2 DEF ListsInv, LooseInv
<1>5. \A c \in Kept \ {r.c} : SameFor(c)
  BY <1>1, <1>2 DEF SameFor
<1>6. ASSUME NEW c \in Kept, c = r.c PROVE AgreeOK(c)'
  BY <1>2, <1>6 DEF AgreeOK
<1> QED BY <1>1, <1>3, <1>4, <1>5, <1>6, OneStep

-----------------------------------------------------------------------------
(* Projects that come and go                                               *)

\* A project is made or deleted, or the chats of a deleted one are unset.
LEMMA ProjectStep ==
  ASSUME ListsInv, NEW x \in Requests, Continues(x),
         request[x].op \in {"createProject", "deleteProject"},
         \A c \in Kept : AgreeOK(c)',
         \A y \in Requests \ {x} :
           Busy(y) /\ request[y].c \in Kept /\ Mine(y) /\ AloneOK(request[y].c)
             /\ request[y].op \in {"createChat", "addChat", "removeChat"} =>
               KeepsFor(request[y].c, request[y].p),
         LooseInv', KnowsInv'
  PROVE  ListsInv'
<1> SUFFICES ASSUME NEW c \in Kept PROVE AloneOK(c)' /\ WorkOK(c)'
  BY DEF ListsInv, KeptInv, Kept, Continues
<1>1. AloneOK(c) /\ WorkOK(c)
  BY DEF ListsInv, KeptInv
<1>2. ASSUME NEW y \in Requests, Busy(y)', request'[y].c = c PROVE Mine(y)'
  <2>1. CASE y = x
    BY <1>2, <2>1, IdleIs DEF Continues, Busy, Mine
  <2>2. CASE y # x
    <3>1. request'[y] = request[y] /\ Busy(y) /\ Mine(y)
      BY <1>1, <1>2, <2>2 DEF Continues, OnlyRequest, Busy, WorkOK
    <3>2. CASE request[y].op \in {"createChat", "addChat", "removeChat"}
      BY <1>1, <1>2, <2>2, <3>1, <3>2, MineStays
    <3>3. CASE request[y].op \notin {"createChat", "addChat", "removeChat"}
      BY <3>1, <3>3 DEF Mine
    <3> QED BY <3>2, <3>3
  <2> QED BY <2>1, <2>2
<1>3. WorkOK(c)'
  BY <1>2 DEF WorkOK
<1> QED BY <1>1, <1>3, AloneStays

LEMMA InsertProjectLists ==
  ASSUME Inv, ListsInv, NEW x \in Requests, InsertProject(x)
  PROVE  ListsInv'
<1> DEFINE r == request[x]  p == r.p  q == request'[x]
           new == NewProject(r.u, TRUE, {}, 0)
<1>1. /\ r.at = "insertProject" /\ Busy(x) /\ "main" \in Steps
      /\ UNCHANGED <<chat, strayed>> /\ project' = Upsert(project, p, new)
      /\ request' = [request EXCEPT ![x].at = "main", ![x].doc = new]
  BY DEF InsertProject, At, Steps, Busy
<1>2. r \in RequestRecord /\ r.op = "createProject" /\ p \in Projects
  BY <1>1, RequestTypes DEF Inv, BranchInv, BranchOK, OpsAt, Busy
<1>3. Creating(x) /\ p \notin DOMAIN project
  BY <1>1, <1>2 DEF Inv, FreshInv, FreshOK, Creating
<1>4. \A y \in Requests \ {x} : Busy(y) => request[y].p # p
  BY <1>3 DEF ListsInv, KnowsInv, RequestKnows
<1>5. /\ DOMAIN project' = DOMAIN project \cup {p} /\ project'[p].chats = {}
      /\ \A s \in DOMAIN project : project'[s] = project[s]
  BY <1>1, <1>3 DEF Upsert, NewProject
<1>6. OnlyRequest(x) /\ q.at = "main" /\ q.op = r.op /\ q.p = p /\ q.c = r.c
  <2>1. new \in Doc
    BY <1>2 DEF NewProject, Doc, RequestRecord
  <2> HIDE DEF new
  <2> DEFINE e == [r EXCEPT !.at = "main"]  n == [e EXCEPT !.doc = new]
  <2>2. /\ e \in RequestRecord /\ e.at = "main"
        /\ e.op = r.op /\ e.p = p /\ e.c = r.c
    BY <1>1, <1>2 DEF RequestRecord
  <2>3. request' = [request EXCEPT ![x] = n]
    BY <1>1 DEF Inv, Typed
  <2> HIDE DEF e
  <2>4. /\ n \in RequestRecord /\ n.at = "main"
        /\ n.op = r.op /\ n.p = p /\ n.c = r.c
    BY <2>1, <2>2 DEF RequestRecord
  <2> HIDE DEF n
  <2> QED BY <2>3, <2>4, OneRequest DEF Inv
<1> HIDE DEF new
<1>7. Continues(x)
  BY <1>1, <1>6 DEF Continues
<1>8. ASSUME NEW c \in Kept PROVE AgreeOK(c)'
  <2> SUFFICES ASSUME c \in DOMAIN chat
               PROVE  /\ \A s \in DOMAIN project' :
                           Torn(c, s)' \/ (c \in project'[s].chats <=> chat[c].project = s)
                      /\ chat[c].project \in DOMAIN project' \cup {None}
                           \cup {request'[y].p : y \in {z \in Requests : request'[z].at = "unsetAll"}}
    BY <1>1 DEF AgreeOK
  <2>1. AgreeOK(c)
    BY DEF ListsInv, KeptInv
  <2>2. \A y \in Requests : request[y].at \in {"push", "save", "unset", "unsetAll"} =>
          request'[y] = request[y] /\ Busy(y) /\ y # x
    BY <1>1, <1>6 DEF OnlyRequest, Busy, Steps
  <2>3. chat[c].project # p
    BY <1>2, <1>3, <1>4, <2>1, <2>2, ProjectsAssumption DEF AgreeOK
  <2>4. \A s : Torn(c, s) => Torn(c, s)'
    BY <2>2 DEF Torn
  <2> QED BY <1>5, <2>1, <2>2, <2>3, <2>4 DEF AgreeOK
<1>9. \A y \in Requests \ {x} :
        Busy(y) /\ Mine(y) /\ request[y].op \in {"createChat", "addChat", "removeChat"} =>
          KeepsFor(request[y].c, request[y].p)
  BY <1>1, <1>5 DEF KeepsFor, Mine
<1>10. LooseInv'
  BY <1>1 DEF ListsInv, LooseInv
<1>11. KnowsInv'
  <2> SUFFICES ASSUME NEW y \in Requests PROVE RequestKnows(y)'
    BY DEF KnowsInv
  <2>1. CASE y = x
    BY <1>6, <2>1 DEF RequestKnows, Creating
  <2>2. CASE y # x
    <3>1. request'[y] = request[y] /\ RequestKnows(y)
      BY <1>6, <2>2 DEF OnlyRequest, ListsInv, KnowsInv
    <3>2. request[y].at \in {"filter", "unsetAll"} => request[y].p # p
      BY <1>4, <2>2 DEF Busy, Steps
    <3>3. ASSUME Creating(y), NEW z \in Requests \ {y}, Busy(z)'
          PROVE  request'[z].p # request[y].p
      <4>1. Busy(z) /\ request'[z].p = request[z].p
        BY <1>1, <1>6, <3>3 DEF OnlyRequest, Busy
      <4> QED BY <3>1, <3>3, <4>1 DEF RequestKnows
    <3>4. Creating(y)' => Creating(y)
      BY <3>1 DEF Creating
    <3> QED BY <1>5, <3>1, <3>2, <3>3, <3>4 DEF RequestKnows
  <2> QED BY <2>1, <2>2
<1> QED BY <1>2, <1>7, <1>8, <1>9, <1>10, <1>11, ProjectStep

LEMMA DeleteProjectLists ==
  ASSUME Inv, ListsInv, NEW x \in Requests, DeleteProject(x)
  PROVE  ListsInv'
<1> DEFINE r == request[x]  p == r.p  q == request'[x]
<1>1. /\ r.at = "deleteProject" /\ Busy(x) /\ "unsetAll" \in Steps
      /\ UNCHANGED <<chat, strayed>> /\ Proceed(x, "unsetAll")
      /\ project' = Restrict(project, DOMAIN project \ {p})
  BY DEF DeleteProject, At, Steps, Busy
<1>2. r.op = "deleteProject"
  BY <1>1 DEF Inv, BranchInv, BranchOK, OpsAt, Busy
<1>3. /\ DOMAIN project' = DOMAIN project \ {p}
      /\ \A s \in DOMAIN project' : project'[s] = project[s]
  BY <1>1 DEF Restrict
<1>4. OnlyRequest(x) /\ q.at = "unsetAll" /\ q.op = r.op /\ q.p = p /\ q.c = r.c
  BY <1>1, ProceedIs DEF Inv, Busy
<1>5. Continues(x)
  BY <1>1, <1>4 DEF Continues
<1>6. ASSUME NEW c \in Kept PROVE AgreeOK(c)'
  <2> SUFFICES ASSUME c \in DOMAIN chat
               PROVE  /\ \A s \in DOMAIN project' :
                           Torn(c, s)' \/ (c \in project'[s].chats <=> chat[c].project = s)
                      /\ chat[c].project \in DOMAIN project' \cup {None}
                           \cup {request'[y].p : y \in {z \in Requests : request'[z].at = "unsetAll"}}
    BY <1>1 DEF AgreeOK
  <2>1. AgreeOK(c)
    BY DEF ListsInv, KeptInv
  <2>2. \A y \in Requests : request[y].at \in {"push", "save", "unset", "unsetAll"} =>
          request'[y] = request[y]
    BY <1>1, <1>4 DEF OnlyRequest
  <2>3. \A s : Torn(c, s) => Torn(c, s)'
    BY <2>2 DEF Torn
  <2>4. p \in {request'[y].p : y \in {z \in Requests : request'[z].at = "unsetAll"}}
    BY <1>4
  <2>5. {request[y].p : y \in {z \in Requests : request[z].at = "unsetAll"}}
          \subseteq {request'[y].p : y \in {z \in Requests : request'[z].at = "unsetAll"}}
    BY <2>2
  <2> QED BY <1>3, <2>1, <2>3, <2>4, <2>5 DEF AgreeOK
<1>7. ASSUME NEW y \in Requests \ {x}, Busy(y), AloneOK(request[y].c)
      PROVE  KeepsFor(request[y].c, request[y].p)
  <2>1. request[y].p # p
    BY <1>1, <1>2, <1>7 DEF AloneOK, Deleting
  <2> QED BY <1>1, <1>3, <2>1 DEF KeepsFor
<1>8. LooseInv'
  BY <1>1 DEF ListsInv, LooseInv
<1>9. KnowsInv'
  <2> SUFFICES ASSUME NEW y \in Requests PROVE RequestKnows(y)'
    BY DEF KnowsInv
  <2>1. CASE y = x
    BY <1>3, <1>4, <2>1 DEF RequestKnows, Creating
  <2>2. CASE y # x
    <3>1. request'[y] = request[y] /\ RequestKnows(y)
      BY <1>4, <2>2 DEF OnlyRequest, ListsInv, KnowsInv
    <3>2. ASSUME Creating(y), NEW z \in Requests \ {y}, Busy(z)'
          PROVE  request'[z].p # request[y].p
      <4>1. Busy(z) /\ request'[z].p = request[z].p
        BY <1>1, <1>4, <3>2 DEF OnlyRequest, Busy
      <4> QED BY <3>1, <3>2, <4>1 DEF RequestKnows
    <3>3. Creating(y)' => Creating(y)
      BY <3>1 DEF Creating
    <3> QED BY <1>3, <3>1, <3>2, <3>3 DEF RequestKnows
  <2> QED BY <2>1, <2>2
<1> QED BY <1>2, <1>5, <1>6, <1>7, <1>8, <1>9, ProjectStep

LEMMA UnsetAllLists ==
  ASSUME Inv, ListsInv, NEW x \in Requests, UnsetAll(x)
  PROVE  ListsInv'
<1> DEFINE r == request[x]  p == r.p
<1>1. /\ r.at = "unsetAll" /\ Busy(x) /\ UNCHANGED <<project, strayed>> /\ Reply(x)
      /\ chat' = [c \in DOMAIN chat |->
           IF chat[c].project = p THEN Detached(c) ELSE chat[c]]
  BY DEF UnsetAll, At, Steps, Busy
<1>2. r.op = "deleteProject" /\ p \in Projects
  BY <1>1 DEF Inv, BranchInv, BranchOK, OpsAt, Busy
<1>3. p \notin DOMAIN project
  BY <1>1 DEF ListsInv, KnowsInv, RequestKnows
<1>4. /\ DOMAIN chat' = DOMAIN chat
      /\ \A c \in DOMAIN chat :
           \/ chat[c].project # p /\ chat'[c] = chat[c]
           \/ chat[c].project = p /\ chat'[c].project = None /\ chat'[c].branch = None
  BY <1>1, DetachedIs DEF Inv, Typed
<1>5. Continues(x) /\ ~Busy(x)' /\ KnowsInv'
  BY <1>1, Over, SameVersions, KnowsStays DEF ListsInv, Inv
<1>6. LooseInv'
  BY <1>4 DEF ListsInv, LooseInv
<1>7. ASSUME NEW c \in Kept PROVE AgreeOK(c)'
  <2> SUFFICES ASSUME c \in DOMAIN chat
               PROVE  /\ \A s \in DOMAIN project :
                           Torn(c, s)' \/ (c \in project[s].chats <=> chat'[c].project = s)
                      /\ chat'[c].project \in DOMAIN project \cup {None}
                           \cup {request'[y].p : y \in {z \in Requests : request'[z].at = "unsetAll"}}
    BY <1>1, <1>4 DEF AgreeOK
  <2>1. AgreeOK(c)
    BY DEF ListsInv, KeptInv
  <2>2. \A s : Torn(c, s) => Torn(c, s)'
    BY <1>1, <1>5 DEF Torn, Continues, OnlyRequest
  <2>3. None \notin DOMAIN project
    BY ProjectsAssumption DEF Inv, Typed
  <2>4. \A s \in DOMAIN project : chat'[c].project = s <=> chat[c].project = s
    BY <1>3, <1>4, <2>3
  <2>5. \A y \in Requests : request[y].at = "unsetAll" /\ request[y].p # p =>
          request'[y] = request[y]
    BY <1>5 DEF Continues, OnlyRequest
  <2>6. \/ chat'[c].project = None
        \/ chat'[c].project = chat[c].project /\ chat[c].project # p
    BY <1>4
  <2> QED BY <2>1, <2>2, <2>4, <2>5, <2>6 DEF AgreeOK
<1>8. ASSUME NEW y \in Requests \ {x}, Mine(y),
             request[y].op \in {"createChat", "addChat", "removeChat"}
      PROVE  KeepsFor(request[y].c, request[y].p)
  <2>1. request[y].p # p /\ p # None
    BY <1>2, <1>3, <1>8, ProjectsAssumption DEF Mine
  <2> QED BY <1>1, <1>4, <2>1 DEF KeepsFor
<1> QED BY <1>2, <1>5, <1>6, <1>7, <1>8, ProjectStep

-----------------------------------------------------------------------------
(* Requests that arrive or are cut                                         *)

LEMMA StepLists ==
  ASSUME Inv, Inv', ListsInv, NEW x \in Requests, Step(x)
  PROVE  ListsInv'
BY AccountLists, InsertProjectLists, ReadProjectLists, ReadChatLists, BranchLists,
   InsertBranchLists, InsertChatLists, PushChatLists, SaveLists, FilterLists,
   UnsetLists, DeleteProjectLists, UnsetAllLists, DeleteChatLists,
   SetBranchHeadLists, SetMirrorLists DEF Step

\* The chats that a new request does not stray.
LEMMA NoClash ==
  ASSUME NEW op, NEW p, NEW c, NEW d \in Chats, d \notin Clash(op, p, c),
         NEW y \in Requests, Busy(y)
  PROVE  /\ d = c => request[y].c # d
         /\ d = c => ~Deleting(y, p)
         /\ d = request[y].c => ~(op = "deleteProject" /\ request[y].p = p)
<1>1. request[y] # Idle /\ About(y) = request[y].c /\ d \in Chats \ {None}
  BY IdleIs, ProjectsAssumption DEF Busy, About
<1> QED BY <1>1 DEF Clash, Deleting

LEMMA ArriveLists ==
  ASSUME Inv, ListsInv, NEW x \in Requests,
         ArriveUser(x) \/ ArriveProject(x) \/ ArriveChat(x)
  PROVE  ListsInv'
<1>1. PICK op, u, p, c, b, step : Arrives(x, op, u, p, c, b, step)
  BY Arrivals
<1> DEFINE q == request'[x]
<1>2. /\ request[x] = Idle /\ OnlyRequest(x)
      /\ q.at = step /\ q.op = op /\ q.p = p /\ q.c = c
      /\ q.saves = {"project", "chat"} /\ UNCHANGED <<project, chat>>
  BY <1>1, ArriveIs DEF Inv
<1>3. /\ strayed' = strayed \cup Clash(op, p, c) \cup Misdirected(op, p, c)
      /\ step \notin {"push", "save", "unset", "unsetAll", "filter", "main", "branch"}
      /\ step # "project" => op \notin {"createChat", "addChat", "removeChat"}
  BY <1>1 DEF Arrives, Arrive, OpsAt
<1>4. \A y \in Requests \ {x} : request'[y] = request[y]
  BY <1>2 DEF OnlyRequest
<1>5. ASSUME NEW d \in Chats, d \notin strayed' PROVE AloneOK(d)' /\ AgreeOK(d)' /\ WorkOK(d)'
  <2>1. /\ AloneOK(d) /\ AgreeOK(d) /\ WorkOK(d)
        /\ d \notin Clash(op, p, c) /\ d \notin Misdirected(op, p, c)
    BY <1>3, <1>5 DEF ListsInv, KeptInv, Kept
  <2>2. AloneOK(d)'
    <3> SUFFICES ASSUME NEW y \in Requests, NEW z \in Requests,
                        Busy(y)', Busy(z)', request'[y].c = d
                 PROVE  /\ request'[z].c = d => z = y
                        /\ ~(request'[z].op = "deleteProject" /\ request'[z].p = request'[y].p)
      BY DEF AloneOK, Deleting
    <3>1. CASE y = x /\ z = x
      BY <1>1, <1>2, <3>1, ProjectsAssumption DEF Arrives
    <3>2. CASE y = x /\ z # x
      <4>1. Busy(z) /\ request'[z] = request[z] /\ d = c
        BY <1>2, <1>4, <3>2 DEF Busy
      <4> QED BY <1>2, <2>1, <3>2, <4>1, NoClash DEF Deleting
    <3>3. CASE y # x /\ z = x
      <4>1. Busy(y) /\ request'[y] = request[y] /\ d = request[y].c
        BY <1>4, <3>3 DEF Busy
      <4> QED BY <1>2, <2>1, <3>3, <4>1, NoClash
    <3>4. CASE y # x /\ z # x
      <4>1. Busy(y) /\ Busy(z) /\ request'[y] = request[y] /\ request'[z] = request[z]
        BY <1>4, <3>4 DEF Busy
      <4> QED BY <2>1, <4>1 DEF AloneOK, Deleting
    <3> QED BY <3>1, <3>2, <3>3, <3>4
  <2>3. AgreeOK(d)'
    <3>1. \A y \in Requests : request[y].at \in {"push", "save", "unset", "unsetAll"} =>
            request'[y] = request[y]
      BY <1>2, <1>4, IdleIs DEF Steps, Idle
    <3>2. \A s : Torn(d, s) => Torn(d, s)'
      BY <3>1 DEF Torn
    <3>3. {request[y].p : y \in {z \in Requests : request[z].at = "unsetAll"}}
            \subseteq {request'[y].p : y \in {z \in Requests : request'[z].at = "unsetAll"}}
      BY <3>1
    <3> QED BY <1>2, <2>1, <3>2, <3>3 DEF AgreeOK
  <2>4. ASSUME NEW y \in Requests, Busy(y)', request'[y].c = d PROVE Mine(y)'
    <3>1. CASE y # x
      <4>1. request'[y] = request[y] /\ Mine(y)
        BY <1>4, <2>1, <2>4, <3>1 DEF WorkOK, Busy
      <4>2. SameFor(request[y].c)
        BY <1>2 DEF SameFor
      <4> QED BY <4>1, <4>2, MineStays, SameKeeps
    <3>2. CASE y = x /\ op \in {"createChat", "addChat", "removeChat"}
      <4>1. /\ step = "project" /\ c = d /\ p \in DOMAIN project
        BY <1>1, <1>2, <1>3, <2>4, <3>2, ProjectsAssumption DEF Arrives
      <4>2. op = "createChat" => CreatorOK(request[x])'
        BY <1>1, <1>2, <4>1 DEF Arrives, FreshChat, CreatorOK
      <4>3. op = "addChat" => AdderOK(request[x])'
        BY <1>1, <1>2, <4>1 DEF Arrives, AdderOK
      <4>4. op = "removeChat" => RemoverOK(request[x])'
        BY <1>1, <1>2, <2>1, <4>1 DEF Arrives, RemoverOK, Misdirected
      <4> QED BY <1>2, <3>2, <4>1, <4>2, <4>3, <4>4 DEF Mine
    <3>3. CASE y = x /\ op \notin {"createChat", "addChat", "removeChat"}
      BY <1>2, <3>3 DEF Mine
    <3> QED BY <3>1, <3>2, <3>3
  <2>5. WorkOK(d)'
    BY <2>4 DEF WorkOK
  <2> QED BY <2>2, <2>3, <2>5
<1>6. KeptInv'
  BY <1>5 DEF KeptInv, Kept
<1>7. LooseInv'
  BY <1>2 DEF ListsInv, LooseInv
<1>8. KnowsInv'
  <2> SUFFICES ASSUME NEW y \in Requests PROVE RequestKnows(y)'
    BY DEF KnowsInv
  <2>1. CASE y = x
    <3>1. ASSUME Creating(x)', NEW z \in Requests \ {x}, Busy(z)'
          PROVE  request'[z].p # p
      <4>1. FreshProject(p)
        BY <1>1, <1>2, <3>1 DEF Creating, Arrives, OpsAt
      <4>2. request'[z] = request[z] /\ request[z] # Idle
        BY <1>4, <3>1, IdleIs DEF Busy
      <4> QED BY <4>1, <4>2 DEF FreshProject
    <3> QED BY <1>2, <1>3, <2>1, <3>1 DEF RequestKnows
  <2>2. CASE y # x
    <3>1. request'[y] = request[y] /\ RequestKnows(y) /\ FreshOK(y) /\ BranchOK(y)
      BY <1>4, <2>2 DEF ListsInv, KnowsInv, Inv, FreshInv, BranchInv
    <3>2. ASSUME Creating(y), NEW z \in Requests \ {y}, Busy(z)'
          PROVE  request'[z].p # request[y].p
      <4>1. CASE z # x
        BY <1>4, <3>1, <3>2, <4>1 DEF RequestKnows, Busy
      <4>2. CASE z = x
        <5>1. request[y] # Idle /\ request[y].p \in Projects /\ request[y].p \notin DOMAIN project
          BY <3>1, <3>2, IdleIs DEF Creating, FreshOK, BranchOK, Steps
        <5> QED BY <1>1, <1>2, <4>2, <5>1, ProjectsAssumption DEF Arrives, FreshProject
      <4> QED BY <4>1, <4>2
    <3>3. Creating(y)' => Creating(y)
      BY <3>1 DEF Creating
    <3> QED BY <1>2, <3>1, <3>2, <3>3 DEF RequestKnows
  <2> QED BY <2>1, <2>2
<1> QED BY <1>6, <1>7, <1>8 DEF ListsInv

\* Requests that are cut stray their chats; the others have the view they had.
LEMMA CutLists ==
  ASSUME Inv, ListsInv, Cut
  PROVE  ListsInv'
<1>1. PICK X \in {Requests} \cup {{x} : x \in Requests} :
        /\ request' = [x \in Requests |-> IF x \in X THEN Idle ELSE request[x]]
        /\ strayed' = strayed \cup Interrupted(X)
        /\ UNCHANGED <<project, chat>>
  BY DEF Cut
<1>2. ASSUME NEW y \in Requests, Busy(y)'
      PROVE  request'[y] = request[y] /\ Busy(y)
  BY <1>1, <1>2, IdleIs DEF Busy
<1>3. ASSUME NEW d \in Chats, d \notin strayed' PROVE AloneOK(d)' /\ AgreeOK(d)' /\ WorkOK(d)'
  <2>1. /\ AloneOK(d) /\ AgreeOK(d) /\ WorkOK(d) /\ d \notin Interrupted(X)
    BY <1>1, <1>3 DEF ListsInv, KeptInv, Kept
  <2>2. AloneOK(d)'
    BY <1>2, <2>1 DEF AloneOK, Deleting
  <2>3. AgreeOK(d)'
    <3>1. ASSUME NEW y \in Requests, Busy(y), request[y].c = d
          PROVE  request'[y] = request[y]
      BY <1>1, <2>1, <3>1, IdleIs DEF Interrupted, Busy
    <3>2. \A s : Torn(d, s) => Torn(d, s)'
      BY <3>1 DEF Torn, Busy, Steps
    <3>3. ASSUME NEW y \in Requests, request[y].at = "unsetAll",
                 d \in DOMAIN chat, chat[d].project = request[y].p
          PROVE  request'[y] = request[y]
      <4>1. request[y] # Idle /\ request[y].op = "deleteProject"
        BY <3>3, IdleIs DEF Inv, BranchInv, BranchOK, OpsAt, Steps, Idle
      <4> QED BY <1>1, <2>1, <3>3, <4>1 DEF Interrupted
    <3> QED BY <1>1, <2>1, <3>2, <3>3 DEF AgreeOK
  <2>4. ASSUME NEW y \in Requests, Busy(y)', request'[y].c = d PROVE Mine(y)'
    <3>1. SameFor(request[y].c)
      BY <1>1 DEF SameFor
    <3> QED BY <1>2, <2>1, <2>4, <3>1, MineStays, SameKeeps DEF WorkOK
  <2>5. WorkOK(d)'
    BY <2>4 DEF WorkOK
  <2> QED BY <2>2, <2>3, <2>5
<1>4. KeptInv'
  BY <1>3 DEF KeptInv, Kept
<1>5. LooseInv'
  BY <1>1 DEF ListsInv, LooseInv
<1>6. KnowsInv'
  <2>1. \A y \in Requests : request'[y] = request[y] \/ request'[y] = Idle
    BY <1>1
  <2>2. Idle.at \notin {"filter", "unsetAll", "workspace", "member", "insertProject"}
    BY DEF Idle
  <2> QED BY <1>1, <1>2, <2>1, <2>2 DEF ListsInv, KnowsInv, RequestKnows, Creating
<1> QED BY <1>4, <1>5, <1>6 DEF ListsInv

-----------------------------------------------------------------------------
(* The migration leaves chats in their projects                            *)

LEMMA QuietLists ==
  ASSUME Inv, ListsInv, UNCHANGED <<request, strayed>>, \A c : SameFor(c),
         \A p \in DOMAIN project : /\ project'[p].version = project[p].version
                                   /\ project'[p].chats = project[p].chats,
         LooseInv'
  PROVE  ListsInv'
<1>1. ASSUME NEW c \in Kept PROVE AloneOK(c)' /\ AgreeOK(c)' /\ WorkOK(c)'
  <2>1. AloneOK(c) /\ AgreeOK(c) /\ WorkOK(c)
    BY DEF ListsInv, KeptInv
  <2>2. AloneOK(c)'
    BY <2>1 DEF AloneOK, Deleting, Busy
  <2>3. AgreeOK(c)'
    BY <2>1 DEF AgreeOK, Torn, SameFor
  <2>4. ASSUME NEW y \in Requests, Busy(y)', request'[y].c = c PROVE Mine(y)'
    BY <2>1, <2>4, MineStays, SameKeeps DEF WorkOK, Busy
  <2> QED BY <2>2, <2>3, <2>4 DEF WorkOK
<1>2. KeptInv'
  BY <1>1 DEF KeptInv, Kept
<1>3. KnowsInv'
  BY DEF ListsInv, KnowsInv, RequestKnows, Creating, Busy, SameFor
<1> QED BY <1>2, <1>3 DEF ListsInv

LEMMA MigrationLists ==
  ASSUME Inv, ListsInv,
         Migration \/ MigrationDies \/ Stop \/ UNCHANGED vars
  PROVE  ListsInv'
<1>1. UNCHANGED <<request, strayed>>
  BY DEF Migration, Migrate, MigrateWorkspace, MigrateMember, MigrateProjects,
         Verify, Serve, MigrationDies, Stop, vars
<1>2. CASE UNCHANGED <<project, chat>>
  <2>1. LooseInv' /\ \A c : SameFor(c)
    BY <1>2 DEF ListsInv, LooseInv, SameFor
  <2> QED BY <1>1, <1>2, <2>1, QuietLists
<1> DEFINE p == Head(todo)
<1>3. CASE OwnProject
  <2>1. p \in DOMAIN project
    BY <1>3 DEF OwnProject, Inv, LoopInv, Looping
  <2> DEFINE d == project[p]  e == [d EXCEPT !.workspace = TRUE]
  <2>2. d \in Doc
    BY <2>1 DEF Inv, Typed
  <2>3. e.chats = d.chats /\ e.version = d.version
    BY <2>2 DEF Doc
  <2>4. project' = [project EXCEPT ![p] = e] /\ UNCHANGED chat
    BY <1>3 DEF OwnProject, Inv, Typed
  <2> HIDE DEF e
  <2>5. /\ DOMAIN project' = DOMAIN project
        /\ \A s \in DOMAIN project : /\ project'[s].version = project[s].version
                                     /\ project'[s].chats = project[s].chats
    BY <2>3, <2>4 DEF Inv, Typed
  <2>6. LooseInv' /\ \A c : SameFor(c)
    BY <2>4, <2>5 DEF ListsInv, LooseInv, SameFor
  <2> QED BY <1>1, <2>5, <2>6, QuietLists
<1>4. CASE BranchChats
  <2>1. p \in Projects
    BY <1>4 DEF BranchChats, Inv, LoopInv, Looping, Typed
  <2>2. /\ UNCHANGED project /\ DOMAIN chat' = DOMAIN chat
        /\ \A c \in DOMAIN chat :
             chat'[c] = IF chat[c].project = p /\ chat[c].branch = None
                        THEN [chat[c] EXCEPT !.branch = Main(p)] ELSE chat[c]
    BY <1>4 DEF BranchChats
  <2>3. \A c \in DOMAIN chat : [chat[c] EXCEPT !.branch = Main(p)].project = chat[c].project
    BY DEF Inv, Typed, ChatRecord
  <2>4. \A c \in DOMAIN chat : /\ chat'[c].project = chat[c].project
                               /\ chat'[c] = chat[c] \/ chat[c].project = p
    BY <2>2, <2>3
  <2>5. LooseInv' /\ \A c : SameFor(c)
    BY <2>1, <2>2, <2>4, ProjectsAssumption DEF ListsInv, LooseInv, SameFor
  <2> QED BY <1>1, <2>2, <2>5, QuietLists
<1> QED
  BY <1>2, <1>3, <1>4
     DEF Migration, Migrate, MigrateWorkspace, MigrateMember, MigrateProjects,
         MigrateProject, BranchProject, BackfillRuns, Verify, Serve, MigrationDies,
         Stop, vars

LEMMA InitLists == Init => ListsInv
<1> SUFFICES ASSUME Init PROVE ListsInv
  OBVIOUS
<1>1. \A x \in Requests : ~Busy(x) /\ request[x].at = "idle"
  BY IdleIs DEF Init, Busy
<1>2. \A c \in Kept : AloneOK(c) /\ WorkOK(c)
  BY <1>1 DEF AloneOK, WorkOK
<1>3. \A c \in Kept : AgreeOK(c)
  BY DEF Init, AgreeOK, NewProject
<1>4. LooseInv
  BY ProjectsAssumption DEF Init, LooseInv
<1>5. KnowsInv
  BY <1>1 DEF KnowsInv, RequestKnows, Creating
<1> QED BY <1>2, <1>3, <1>4, <1>5 DEF ListsInv, KeptInv

LEMMA NextLists == Inv /\ Inv' /\ ListsInv /\ [Next]_vars => ListsInv'
BY MigrationLists, CutLists, ArriveLists, StepLists DEF Next

\* Project.chatIds and Chat.projectId, written by separate commands, agree once the
\* request of a chat is over: whatever the requests about the other chats of the
\* project do to its list meanwhile, in whatever order the two saves of addChat
\* come, and when removeChat writes back a list read before others pushed to it.
\* That is claimed of a chat none of whose requests overlapped, none was cut, and
\* none removed it through a project it was not in: the code lets each of the three
\* make its records disagree, the last in one request that nothing disturbs.
THEOREM RecordsAgree == Spec => []ListsAgree
<1>1. Inv /\ ListsInv => ListsAgree
  <2> SUFFICES ASSUME Inv, ListsInv,
                      NEW c \in DOMAIN chat \ (strayed \cup {About(x) : x \in Requests})
               PROVE  /\ \A p \in DOMAIN project :
                           c \in project[p].chats <=> chat[c].project = p
                      /\ chat[c].project \in DOMAIN project \cup {None}
                           \cup {p \in Projects : InFlight("deleteProject", p)}
    BY DEF ListsAgree
  <2>1. c \in Chats /\ AgreeOK(c)
    BY DEF ListsInv, KeptInv, Kept, Inv, Typed
  <2>2. \A p : ~Torn(c, p)
    BY DEF Torn, About, Idle
  <2>3. ASSUME NEW x \in Requests, request[x].at = "unsetAll"
        PROVE  request[x].p \in {p \in Projects : InFlight("deleteProject", p)}
    BY <2>3, IdleIs DEF Inv, BranchInv, BranchOK, OpsAt, Steps, InFlight, Idle
  <2> QED BY <2>1, <2>2, <2>3 DEF AgreeOK
<1> QED BY <1>1, InitInv, NextInv, InitLists, NextLists, PTL DEF Spec

=============================================================================
