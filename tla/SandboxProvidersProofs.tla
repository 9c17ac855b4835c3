------------------------ MODULE SandboxProvidersProofs ------------------------
(***************************************************************************)
(* What the lease service relies on: the providers below it and the quotas *)
(* it reserves under.                                                      *)
(*                                                                         *)
(* SandboxProviders, for any callers, destroyers, keys and specifications, *)
(* any number of sandboxes, failed requests and restarts: which sandbox a  *)
(* key leads to, that one reported gone is gone, that a sandbox said not   *)
(* to have been made was not, and that no command outlives its sandbox.    *)
(*                                                                         *)
(* SandboxQuota, for any requests, leases, resource profiles and limits:   *)
(* no insertion under the lock exceeds a limit.  What is counted is a sum  *)
(* over a set of leases, so its own lemmas come first.                     *)
(***************************************************************************)
EXTENDS SandboxProviders, SandboxQuota, FiniteSetTheorems, WellFoundedInduction, TLAPS

\* Sandboxes are numbered as they are made, and only a local one is forgotten.
BoxInv ==
  /\ \A a, b \in Boxes : a < b /\ box[b].state # "none" => box[a].state # "none"
  /\ \A b \in Boxes : box[b].state # "none" /\ ~box[b].listed => kind = "local"

\* What was reported was made, and is gone or forgotten.
ReportInv ==
  \A b \in reported : /\ box[b].state # "none"
                      /\ box[b].state = "gone" \/ ~box[b].listed

\* The box of a key that creates agree on is the first one of the key.
ReuseInv ==
  \A k \in Keys : reused[k] # None =>
    /\ box[reused[k]].state # "none"
    /\ reused[k] \in Listed =>
         /\ box[reused[k]].key = k
         /\ \A b \in Listed : box[b].key = k => reused[k] <= b

\* A call has made nothing before it creates.
Made(c) ==
  /\ call[c].at \in {"idle", "create", "register"} => call[c].made = None
  /\ At(c, "not-created") /\ call[c].from # "workspace" => call[c].made = None

MadeInv == \A c \in Callers : Made(c)

Using == {"workspace", "created", "ready", "uploaded", "run"}

\* A command runs in the sandbox of its call, which a local provider knows;
\* whoever destroys the sandbox knows all commands but the late ones.
Command(c) ==
  /\ Alive(c) => At(c, "run")
  /\ call[c].at \in Using => call[c].box \in Boxes /\ box[call[c].box].state # "none"
  /\ kind = "local" /\ call[c].at \in Using => box[call[c].box].listed
  /\ kind = "local" /\ Alive(c) /\ c \notin late =>
       /\ box[call[c].box].state # "gone"
       /\ \A d \in Destroyers : kill[d].box = call[c].box =>
            kill[d].at = "stop" /\ c \in kill[d].of

CommandInv == \A c \in Callers : Command(c)

KillInv ==
  \A d \in Destroyers :
    /\ kill[d].at = "idle" <=> kill[d].box = None
    /\ kill[d].at # "idle" => box[kill[d].box].state # "none"
    /\ kill[d].at \in {"stop", "remove"} => kind = "local"
    /\ kill[d].at = "delete" => kind = "daytona"

Inv == BoxInv /\ ReportInv /\ ReuseInv /\ MadeInv /\ CommandInv /\ KillInv

-----------------------------------------------------------------------------
(* Numbers, and the steps of one record.                                   *)

\* A set of box numbers that is not empty has a first element.
LEMMA FirstOfBoxes ==
  ASSUME NEW S \in SUBSET Nat, S # {}
  PROVE  /\ Min(S) \in S
         /\ \A x \in S : Min(S) <= x
<1> DEFINE T == {0 .. x : x \in S}
<1>1. \A x \in S : 0 .. x \in FiniteSubsetsOf(Nat)
  BY FS_Interval DEF FiniteSubsetsOf
<1>2. T \subseteq FiniteSubsetsOf(Nat) /\ T # {}  BY <1>1
<1> HIDE DEF T
<1>3. PICK I \in T : \A J \in T : ~ (<<J, I>> \in StrictSubsetOrdering(Nat))
  BY <1>2, FS_StrictSubsetOrderingWellFounded, WFMin
<1>4. PICK x \in S : I = 0 .. x  BY DEF T
<1>5. ASSUME NEW y \in S, y < x PROVE FALSE
  <2>1. 0 .. y \in T /\ 0 .. y \subseteq 0 .. x /\ x \notin 0 .. y /\ x \in 0 .. x
    BY <1>5 DEF T
  <2>2. <<0 .. y, 0 .. x>> \in StrictSubsetOrdering(Nat)
    BY <2>1 DEF StrictSubsetOrdering
  <2> QED  BY <1>3, <1>4, <2>1, <2>2
<1>6. \A y \in S : x <= y  BY <1>5
<1> QED  BY <1>6 DEF Min

BoxRecord == [state: States, key: Keys \cup {None}, spec: Specs \cup {None},
              listed: BOOLEAN, files: {"none", "some", "all"}]
CallRecord ==
  [at: {"idle", "create", "register", "workspace", "created", "ready",
        "uploaded", "run", "done"} \cup Failures,
   spec: Specs \cup {None}, box: Boxes \cup {None}, made: Boxes \cup {None},
   from: {"list", "create", "workspace", None}]
Ats == {"idle", "create", "register", "workspace", "created", "ready",
        "uploaded", "run", "done"} \cup Failures
KillRecord == [at: {"idle", "stop", "remove", "delete"},
               box: Boxes \cup {None}, of: SUBSET Callers]

LEMMA Types ==
  TypeOK => /\ box \in [Boxes -> BoxRecord]
            /\ call \in [Callers -> CallRecord]
            /\ kill \in [Destroyers -> KillRecord]
BY DEF TypeOK, BoxRecord, CallRecord, KillRecord

OnlyCall(c) == /\ call' \in [Callers -> CallRecord]
               /\ \A e \in Callers \ {c} : call'[e] = call[e]

LEMMA GotoCall ==
  ASSUME TypeOK, NEW c \in Callers, NEW s \in Ats, Goto(c, s)
  PROVE  /\ OnlyCall(c)
         /\ call'[c].at = s /\ call'[c].spec = call[c].spec
         /\ call'[c].box = call[c].box /\ call'[c].made = call[c].made
         /\ call'[c].from = call[c].from
<1>1. call \in [Callers -> CallRecord]  BY Types
<1> DEFINE t == [call[c] EXCEPT !.at = s]
<1>2. call' = [call EXCEPT ![c] = t]  BY <1>1 DEF Goto
<1>3. /\ t \in CallRecord
      /\ t.at = s /\ t.spec = call[c].spec /\ t.box = call[c].box
      /\ t.made = call[c].made /\ t.from = call[c].from
  BY <1>1 DEF CallRecord, Ats
<1> HIDE DEF t
<1> QED  BY <1>1, <1>2, <1>3 DEF OnlyCall

LEMMA GotCall ==
  ASSUME TypeOK, NEW c \in Callers, NEW s \in Ats, NEW b \in Boxes, Got(c, s, b)
  PROVE  /\ OnlyCall(c)
         /\ call'[c].at = s /\ call'[c].spec = call[c].spec
         /\ call'[c].box = b /\ call'[c].made = b
         /\ call'[c].from = call[c].from
<1>1. call \in [Callers -> CallRecord]  BY Types
<1> DEFINE p == [call[c] EXCEPT !.at = s]
           q == [p EXCEPT !.box = b]
           t == [q EXCEPT !.made = b]
<1>2. call' = [call EXCEPT ![c] = t]  BY <1>1 DEF Got
<1>3. /\ p \in CallRecord
      /\ p.at = s /\ p.spec = call[c].spec /\ p.from = call[c].from
  BY <1>1 DEF CallRecord, Ats
<1> HIDE DEF p
<1>4. /\ q \in CallRecord
      /\ q.at = s /\ q.spec = call[c].spec /\ q.from = call[c].from /\ q.box = b
  BY <1>3 DEF CallRecord
<1> HIDE DEF q
<1>5. /\ t \in CallRecord
      /\ t.at = s /\ t.spec = call[c].spec /\ t.from = call[c].from /\ t.box = b
      /\ t.made = b
  BY <1>4 DEF CallRecord
<1> HIDE DEF t
<1> QED  BY <1>1, <1>2, <1>5 DEF OnlyCall

LEMMA FailsCall ==
  ASSUME TypeOK, NEW c \in Callers, NEW s \in Failures,
         NEW from \in {"list", "create", "workspace", None}, Fails(c, s, from)
  PROVE  /\ OnlyCall(c)
         /\ call'[c].at = s /\ call'[c].spec = call[c].spec
         /\ call'[c].box = None /\ call'[c].made = call[c].made
         /\ call'[c].from = from
<1>1. call \in [Callers -> CallRecord]  BY Types
<1> DEFINE p == [call[c] EXCEPT !.at = s]
           q == [p EXCEPT !.from = from]
           t == [q EXCEPT !.box = None]
<1>2. call' = [call EXCEPT ![c] = t]  BY <1>1 DEF Fails
<1>3. /\ p \in CallRecord
      /\ p.at = s /\ p.spec = call[c].spec /\ p.made = call[c].made
  BY <1>1 DEF CallRecord
<1> HIDE DEF p
<1>4. /\ q \in CallRecord
      /\ q.at = s /\ q.spec = call[c].spec /\ q.from = from /\ q.made = call[c].made
  BY <1>3 DEF CallRecord
<1> HIDE DEF q
<1>5. /\ t \in CallRecord
      /\ t.at = s /\ t.spec = call[c].spec /\ t.from = from /\ t.box = None
      /\ t.made = call[c].made
  BY <1>4 DEF CallRecord
<1> HIDE DEF t
<1> QED  BY <1>1, <1>2, <1>5 DEF OnlyCall

\* A create that finds a box of the key.
LEMMA ReuseCall ==
  ASSUME TypeOK, NEW c \in Callers, NEW b \in Boxes,
         call' = [call EXCEPT ![c].at = "created", ![c].box = b]
  PROVE  /\ OnlyCall(c)
         /\ call'[c].at = "created" /\ call'[c].box = b /\ call'[c].made = call[c].made
<1>1. call \in [Callers -> CallRecord]  BY Types
<1> DEFINE p == [call[c] EXCEPT !.at = "created"]
           t == [p EXCEPT !.box = b]
<1>2. call' = [call EXCEPT ![c] = t]  BY <1>1
<1>3. p \in CallRecord /\ p.at = "created" /\ p.made = call[c].made
  BY <1>1 DEF CallRecord
<1> HIDE DEF p
<1>4. t \in CallRecord /\ t.at = "created" /\ t.box = b /\ t.made = call[c].made
  BY <1>3 DEF CallRecord
<1> HIDE DEF t
<1> QED  BY <1>1, <1>2, <1>4 DEF OnlyCall

LEMMA OneCall ==
  ASSUME call \in [Callers -> CallRecord], NEW c \in Callers, NEW t \in CallRecord,
         call' = [call EXCEPT ![c] = t]
  PROVE  OnlyCall(c) /\ call'[c] = t
BY DEF OnlyCall

\* A create that is left without an answer, its machine made.
LEMMA UnansweredCall ==
  ASSUME TypeOK, NEW c \in Callers, NEW b \in Boxes, NEW s \in Failures,
         call' = [call EXCEPT ![c].at = s, ![c].from = "create", ![c].made = b]
  PROVE  OnlyCall(c) /\ call'[c].at = s
<1>1. call \in [Callers -> CallRecord]  BY Types
<1> DEFINE p == [call[c] EXCEPT !.at = s]
           q == [p EXCEPT !.from = "create"]
           t == [q EXCEPT !.made = b]
<1>2. call' = [call EXCEPT ![c] = t]  BY <1>1
<1>3. p \in CallRecord /\ p.at = s  BY <1>1 DEF CallRecord
<1> HIDE DEF p
<1>4. q \in CallRecord /\ q.at = s  BY <1>3 DEF CallRecord
<1> HIDE DEF q
<1>5. t \in CallRecord /\ t.at = s  BY <1>4 DEF CallRecord
<1> HIDE DEF t
<1> QED  BY <1>1, <1>2, <1>5, OneCall

OnlyBox(b) == /\ box' \in [Boxes -> BoxRecord]
              /\ \A a \in Boxes \ {b} : box'[a] = box[a]

LEMMA StateBox ==
  ASSUME TypeOK, NEW b \in Boxes, NEW s \in States, box' = [box EXCEPT ![b].state = s]
  PROVE  /\ OnlyBox(b)
         /\ box'[b].state = s /\ box'[b].key = box[b].key
         /\ box'[b].listed = box[b].listed
<1>1. box \in [Boxes -> BoxRecord]  BY Types
<1> DEFINE t == [box[b] EXCEPT !.state = s]
<1>2. box' = [box EXCEPT ![b] = t]  BY <1>1
<1>3. /\ t \in BoxRecord
      /\ t.state = s /\ t.key = box[b].key /\ t.listed = box[b].listed
  BY <1>1 DEF BoxRecord
<1> HIDE DEF t
<1> QED  BY <1>1, <1>2, <1>3 DEF OnlyBox

LEMMA FilesBox ==
  ASSUME TypeOK, NEW b \in Boxes, NEW f \in {"none", "some", "all"},
         box' = [box EXCEPT ![b].files = f]
  PROVE  /\ OnlyBox(b)
         /\ box'[b].state = box[b].state /\ box'[b].key = box[b].key
         /\ box'[b].listed = box[b].listed
<1>1. box \in [Boxes -> BoxRecord]  BY Types
<1> DEFINE t == [box[b] EXCEPT !.files = f]
<1>2. box' = [box EXCEPT ![b] = t]  BY <1>1
<1>3. /\ t \in BoxRecord
      /\ t.state = box[b].state /\ t.key = box[b].key /\ t.listed = box[b].listed
  BY <1>1 DEF BoxRecord
<1> HIDE DEF t
<1> QED  BY <1>1, <1>2, <1>3 DEF OnlyBox

LEMMA NewBox ==
  ASSUME TypeOK, NEW c \in Callers, NEW b \in Boxes, NEW s \in States, New(c, b, s)
  PROVE  OnlyBox(b) /\ box'[b].state = s /\ box'[b].listed /\ box'[b].key = KeyOf[c]
<1>1. box \in [Boxes -> BoxRecord] /\ call[c] \in CallRecord  BY Types
<1> DEFINE t == [state |-> s, key |-> KeyOf[c], spec |-> call[c].spec,
                 listed |-> TRUE, files |-> "none"]
<1>2. t \in BoxRecord  BY <1>1, ProviderAssumption DEF BoxRecord, CallRecord
<1> QED  BY <1>1, <1>2 DEF New, OnlyBox

-----------------------------------------------------------------------------
(* How sandboxes change.                                                   *)

\* A sandbox that was made keeps its key, is never listed again and never comes
\* back; a new one is listed, and follows all that were made.
BoxMoves(b) ==
  /\ box[b].state # "none" =>
       /\ box'[b].state # "none" /\ box'[b].key = box[b].key
       /\ box'[b].listed => box[b].listed
       /\ box[b].state = "gone" => box'[b].state = "gone"
  /\ box[b].state = "none" /\ box'[b].state # "none" =>
       box'[b].listed /\ \A a \in Boxes : box[a].state # "none" <=> a < b
  /\ box'[b].state # "none" /\ ~box'[b].listed => kind = "local"
  /\ kind # "local" => box'[b].listed = box[b].listed \/ box[b].state = "none"

AllMove == box' \in [Boxes -> BoxRecord] /\ \A b \in Boxes : BoxMoves(b)

LEMMA SameBoxes ==
  ASSUME TypeOK, BoxInv, box' = box
  PROVE  AllMove
BY Types DEF BoxInv, BoxMoves, AllMove

LEMMA OneBox ==
  ASSUME TypeOK, BoxInv, NEW b \in Boxes, OnlyBox(b),
         box[b].state # "none", box'[b].state # "none",
         box[b].state = "gone" => box'[b].state = "gone",
         box'[b].key = box[b].key, box'[b].listed = box[b].listed
  PROVE  AllMove
<1>1. \A a \in Boxes : BoxMoves(a)  BY Types DEF OnlyBox, BoxInv, BoxMoves
<1> QED  BY <1>1 DEF OnlyBox, AllMove

LEMMA UnusedFirst ==
  ASSUME TypeOK, BoxInv, Unused # {}
  PROVE  /\ Min(Unused) \in Boxes /\ box[Min(Unused)].state = "none"
         /\ \A a \in Boxes : box[a].state # "none" <=> a < Min(Unused)
<1>1. Unused \subseteq Boxes /\ Boxes \subseteq Nat
  BY ProviderAssumption DEF Unused, Boxes
<1> DEFINE m == Min(Unused)
<1>2. m \in Unused /\ \A a \in Unused : m <= a  BY <1>1, FirstOfBoxes
<1> HIDE DEF m
<1>3. ASSUME NEW a \in Boxes PROVE box[a].state # "none" <=> a < m
  <2>1. a \in Nat /\ m \in Nat /\ m \in Boxes /\ box[m].state = "none"
    BY <1>1, <1>2 DEF Unused
  <2>2. box[a].state = "none" => m <= a  BY <1>2 DEF Unused
  <2>3. m < a /\ box[a].state # "none" => FALSE  BY <2>1 DEF BoxInv
  <2>4. a = m => box[a].state = "none"  BY <2>1
  <2> QED  BY <2>1, <2>2, <2>3, <2>4
<1> QED  BY <1>1, <1>2, <1>3 DEF m, Unused

LEMMA OneNew ==
  ASSUME TypeOK, BoxInv, Unused # {}, NEW c \in Callers, NEW s \in States \ {"none"},
         New(c, Min(Unused), s)
  PROVE  /\ AllMove /\ Min(Unused) \in Boxes /\ box[Min(Unused)].state = "none"
         /\ box'[Min(Unused)].state = s /\ box'[Min(Unused)].listed
<1> DEFINE m == Min(Unused)
<1>1. /\ m \in Boxes /\ box[m].state = "none"
      /\ \A a \in Boxes : box[a].state # "none" <=> a < m
  BY UnusedFirst
<1> HIDE DEF m
<1>2. New(c, m, s)  BY DEF m
<1>3. OnlyBox(m) /\ box'[m].state = s /\ box'[m].listed  BY <1>1, <1>2, NewBox
<1>4. \A a \in Boxes : BoxMoves(a)  BY <1>1, <1>3, Types DEF OnlyBox, BoxInv, BoxMoves
<1> QED  BY <1>1, <1>3, <1>4 DEF AllMove, OnlyBox, m

LEMMA ListedBoxes ==
  ASSUME TypeOK, NEW b \in Listed
  PROVE  b \in Boxes /\ box[b].state \notin {"none", "gone"} /\ box[b].listed
BY DEF Listed

LEMMA BoxStep ==
  ASSUME TypeOK, Inv, Next
  PROVE  AllMove /\ kind' = kind
<1> USE DEF At
<1>0. /\ BoxInv /\ ReportInv /\ ReuseInv /\ MadeInv /\ CommandInv /\ KillInv
  BY DEF Inv
<1> USE <1>0
<1>1. CASE UNCHANGED <<kind, box>>  BY <1>1, SameBoxes
<1>2. ASSUME NEW c \in Callers, Request(c) \/ Create(c) \/ Use(c)
      PROVE  AllMove /\ kind' = kind
  <2>0. kind' = kind
    BY <1>2
    DEF Request, Create, Use, FindByProvisioningKey, FakeCreate, LocalMakeDirectory,
        LocalRegister, DaytonaList, DaytonaCreate, DaytonaEnsureWorkspace, ConnectMapped,
        DaytonaConnect, LocalWriteFiles, DaytonaWriteFiles, LocalRun, RemoteRun, Exit,
        TimeOut, Abort, ForceKill, LocalReadOutput, RemoteReadOutput
  <2>1. CASE box' = box  BY <2>0, <2>1, SameBoxes
  <2>2. call[c].at \in Using => call[c].box \in Boxes /\ box[call[c].box].state # "none"
    BY DEF CommandInv, Command
  <2> DEFINE b == call[c].box
  <2>3. CASE FakeCreate(c)
    BY <2>0, <2>1, <2>3, OneNew DEF FakeCreate, States
  <2>4. CASE LocalRegister(c)
    BY <2>0, <2>1, <2>4, OneNew DEF LocalRegister, States
  <2>5. CASE DaytonaCreate(c)
    BY <2>0, <2>1, <2>5, OneNew DEF DaytonaCreate, States
  <2>6. CASE DaytonaConnect(c)
    <3>1. CASE box' = box  BY <2>1, <3>1
    <3>2. CASE box' # box
      <4>1. /\ call[c].at = "created" /\ box[b].state # "gone"
            /\ box' = [box EXCEPT ![b].state = "ready"]
        BY <2>6, <3>2 DEF DaytonaConnect
      <4>2. "ready" \in States /\ b \in Boxes /\ box[b].state # "none"
        BY <2>2, <4>1 DEF Using, States
      <4> HIDE DEF b
      <4>3. /\ OnlyBox(b) /\ box'[b].state = "ready" /\ box'[b].key = box[b].key
            /\ box'[b].listed = box[b].listed
        BY <4>1, <4>2, StateBox
      <4> QED  BY <2>0, <4>1, <4>2, <4>3, OneBox
    <3> QED  BY <3>1, <3>2
  <2>7. CASE LocalWriteFiles(c) \/ DaytonaWriteFiles(c)
    <3>1. CASE box' = box  BY <2>1, <3>1
    <3>2. CASE box' # box
      <4>1. /\ call[c].at = "ready"
            /\ \E f \in {"some", "all"} : box' = [box EXCEPT ![b].files = f]
        BY <2>7, <3>2 DEF LocalWriteFiles, DaytonaWriteFiles
      <4>2. b \in Boxes /\ box[b].state # "none"  BY <2>2, <4>1 DEF Using
      <4> HIDE DEF b
      <4>3. PICK f \in {"some", "all"} : box' = [box EXCEPT ![b].files = f]  BY <4>1
      <4>4. /\ OnlyBox(b) /\ box'[b].state = box[b].state /\ box'[b].key = box[b].key
            /\ box'[b].listed = box[b].listed
        BY <4>2, <4>3, FilesBox
      <4> QED  BY <2>0, <4>2, <4>4, OneBox
    <3> QED  BY <3>1, <3>2
  <2>8. CASE Abort(c)
    <3>1. CASE box' = box  BY <2>1, <3>1
    <3>2. CASE box' # box
      <4>1. /\ cmd[c] = "running" /\ box[b].state = "ready"
            /\ box' = [box EXCEPT ![b].state = "stopped"]
        BY <2>8, <3>2 DEF Abort
      <4>2. "stopped" \in States /\ b \in Boxes
        BY <2>2, <4>1 DEF Using, States, CommandInv, Command, Alive
      <4> HIDE DEF b
      <4>3. /\ OnlyBox(b) /\ box'[b].state = "stopped" /\ box'[b].key = box[b].key
            /\ box'[b].listed = box[b].listed
        BY <4>1, <4>2, StateBox
      <4> QED  BY <2>0, <4>1, <4>2, <4>3, OneBox
    <3> QED  BY <3>1, <3>2
  <2>9. \/ box' = box \/ FakeCreate(c) \/ LocalRegister(c) \/ DaytonaCreate(c)
        \/ DaytonaConnect(c) \/ LocalWriteFiles(c) \/ DaytonaWriteFiles(c) \/ Abort(c)
    BY <1>2
    DEF Request, Create, Use, FindByProvisioningKey, LocalMakeDirectory, DaytonaList,
        DaytonaEnsureWorkspace, ConnectMapped, LocalRun, RemoteRun, Exit,
        TimeOut, ForceKill, LocalReadOutput, RemoteReadOutput
  <2> QED  BY <2>1, <2>3, <2>4, <2>5, <2>6, <2>7, <2>8, <2>9
\* A destroyer's box goes; the double's, and the machines of the service.
<1>3. ASSUME NEW b \in Boxes, NEW s \in States \ {"none"}, kind' = kind,
             box' = [box EXCEPT ![b].state = s], box[b].state # "none",
             box[b].state = "gone" => s = "gone"
      PROVE  AllMove /\ kind' = kind
  <2>1. /\ OnlyBox(b) /\ box'[b].state = s /\ box'[b].key = box[b].key
        /\ box'[b].listed = box[b].listed
    BY <1>3, StateBox
  <2> QED  BY <1>3, <2>1, OneBox
<1>4. ASSUME NEW d \in Destroyers, Destroy(d) PROVE AllMove /\ kind' = kind
  <2>1. CASE LocalStopped(d) \/ DaytonaDeleted(d) \/ \E b \in Boxes : LocalStopAll(d, b)
    BY <1>1, <2>1 DEF LocalStopped, DaytonaDeleted, LocalStopAll
  <2>2. CASE LocalRemove(d)
    <3>1. CASE box' = box  BY <1>1, <2>2, <3>1 DEF LocalRemove
    <3>2. CASE box' # box
      <4> DEFINE b == kill[d].box
      <4>1. kind' = kind /\ kill[d].at = "remove" /\ box' = [box EXCEPT ![b].state = "gone"]
        BY <2>2, <3>2 DEF LocalRemove
      <4>2. b \in Boxes /\ box[b].state # "none" /\ "gone" \in States \ {"none"}
        BY <4>1, Types DEF KillInv, KillRecord, States
      <4> HIDE DEF b
      <4> QED  BY <1>3, <4>1, <4>2
    <3> QED  BY <3>1, <3>2
  <2>3. CASE \E b \in Boxes : DaytonaDelete(d, b)
    <3>1. PICK b \in Boxes : DaytonaDelete(d, b)  BY <2>3
    <3>2. /\ kind' = kind /\ b \in Listed
          /\ box' = [box EXCEPT ![b].state = "destroying"]
      BY <3>1 DEF DaytonaDelete
    <3>3. "destroying" \in States \ {"none"}  BY DEF States
    <3> QED  BY <1>3, <3>2, <3>3, ListedBoxes
  <2> QED  BY <1>4, <2>1, <2>2, <2>3 DEF Destroy
<1>5. ASSUME NEW b \in Boxes, Inspect(b) \/ FakeDestroy(b) \/ MachineMoves(b)
      PROVE  AllMove /\ kind' = kind
  <2>1. CASE Inspect(b)  BY <1>1, <2>1 DEF Inspect
  <2>2. CASE FakeDestroy(b) \/ MachineMoves(b)
    <3>1. PICK s \in {"ready", "stopped", "error", "gone"} :
            box' = [box EXCEPT ![b].state = s]
      BY <2>2 DEF FakeDestroy, MachineMoves
    <3>2. kind' = kind /\ box[b].state \notin {"none", "gone"}
      BY <2>2, ListedBoxes DEF FakeDestroy, MachineMoves
    <3>3. s \in States \ {"none"}  BY DEF States
    <3> QED  BY <1>3, <3>1, <3>2, <3>3
  <2> QED  BY <1>5, <2>1, <2>2
<1>6. CASE Restart
  <2>1. kind' = kind  BY <1>6 DEF Restart
  <2>2. box \in [Boxes -> BoxRecord]  BY Types
  <2>3. ASSUME NEW b \in Boxes PROVE box'[b] \in BoxRecord /\ BoxMoves(b)
    <3>0. box[b] \in BoxRecord  BY <2>2
    <3>1. CASE box[b].state = "none" \/ kind = "daytona"
      <4>1. box'[b] = box[b]  BY <1>6, <3>1 DEF Restart
      <4> QED  BY <3>0, <4>1 DEF BoxMoves, BoxInv
    <3>2. CASE box[b].state # "none" /\ kind = "local"
      <4>1. box'[b] = [box[b] EXCEPT !.listed = FALSE]  BY <1>6, <3>2 DEF Restart
      <4>2. /\ [box[b] EXCEPT !.listed = FALSE] \in BoxRecord
            /\ [box[b] EXCEPT !.listed = FALSE].state = box[b].state
            /\ [box[b] EXCEPT !.listed = FALSE].key = box[b].key
            /\ [box[b] EXCEPT !.listed = FALSE].listed = FALSE
        BY <3>0 DEF BoxRecord
      <4> QED  BY <3>2, <4>1, <4>2 DEF BoxMoves
    <3>3. CASE box[b].state # "none" /\ kind \notin {"local", "daytona"}
      <4>1. box'[b] = [box[b] EXCEPT !.state = "gone"]  BY <1>6, <3>3 DEF Restart
      <4>2. /\ [box[b] EXCEPT !.state = "gone"] \in BoxRecord
            /\ [box[b] EXCEPT !.state = "gone"].state = "gone"
            /\ [box[b] EXCEPT !.state = "gone"].key = box[b].key
            /\ [box[b] EXCEPT !.state = "gone"].listed = box[b].listed
        BY <3>0 DEF BoxRecord, States
      <4> QED  BY <3>3, <4>1, <4>2 DEF BoxMoves, BoxInv
    <3> QED  BY <3>1, <3>2, <3>3
  <2>4. DOMAIN box' = Boxes /\ box' = [b \in Boxes |-> box'[b]]  BY <1>6 DEF Restart
  <2>5. box' \in [Boxes -> BoxRecord]  BY <2>3, <2>4
  <2> QED  BY <2>1, <2>3, <2>5 DEF AllMove
<1> QED  BY <1>2, <1>4, <1>5, <1>6 DEF Next

-----------------------------------------------------------------------------
(* What is reported gone, and which box creates agree on.                  *)

LEMMA BoxInvStep ==
  ASSUME TypeOK, BoxInv, AllMove, kind' = kind
  PROVE  BoxInv'
<1>1. ASSUME NEW a \in Boxes, NEW b \in Boxes, a < b, box'[b].state # "none"
      PROVE  box'[a].state # "none"
  BY <1>1 DEF AllMove, BoxMoves, BoxInv
<1>2. ASSUME NEW b \in Boxes, box'[b].state # "none", ~box'[b].listed
      PROVE  kind' = "local"
  BY <1>2 DEF AllMove, BoxMoves
<1>3. Boxes' = Boxes  OBVIOUS
<1> QED  BY <1>1, <1>2, <1>3 DEF BoxInv

\* Only inspect, and destroy after it has removed or waited, report a box.
LEMMA NewReports ==
  ASSUME TypeOK, Inv, Next, NEW b \in reported' \ reported
  PROVE  /\ b \in Boxes /\ box'[b].state # "none"
         /\ box'[b].state = "gone" \/ ~box'[b].listed
<1>1. \/ \E a \in Boxes : Inspect(a) \/ FakeDestroy(a)
      \/ \E d \in Destroyers : LocalRemove(d) \/ DaytonaDeleted(d)
  BY DEF Next, Request, Create, Use, FindByProvisioningKey, FakeCreate, LocalMakeDirectory,
        LocalRegister, DaytonaList, DaytonaCreate, DaytonaEnsureWorkspace, ConnectMapped,
        DaytonaConnect, LocalWriteFiles, DaytonaWriteFiles, LocalRun, RemoteRun, Exit,
        TimeOut, Abort, ForceKill, LocalReadOutput, RemoteReadOutput, Destroy,
        LocalStopped, LocalStopAll, DaytonaDelete, MachineMoves, Restart
<1>2. ASSUME NEW a \in Boxes, Inspect(a) PROVE b = a /\ box' = box /\ box[a].state # "none"
                                               /\ a \notin Listed
  BY <1>2 DEF Inspect, Tell, Missing
<1>3. ASSUME NEW a \in Boxes, FakeDestroy(a)
      PROVE  b = a /\ box'[a].state = "gone"
  <2>1. "gone" \in States  BY DEF States
  <2>2. b = a /\ box' = [box EXCEPT ![a].state = "gone"]  BY <1>3 DEF FakeDestroy, Tell
  <2> QED  BY <2>1, <2>2, StateBox
<1>4. ASSUME NEW d \in Destroyers, LocalRemove(d)
      PROVE  b \in Boxes /\ box'[b].state = "gone"
  <2>1. "gone" \in States  BY DEF States
  <2>2. b = kill[d].box /\ box' = [box EXCEPT ![b].state = "gone"] /\ kill[d].at = "remove"
    BY <1>4 DEF LocalRemove, Tell
  <2>3. b \in Boxes  BY <2>2, Types DEF Inv, KillInv, KillRecord
  <2> QED  BY <2>1, <2>2, <2>3, StateBox
<1>5. ASSUME NEW d \in Destroyers, DaytonaDeleted(d)
      PROVE  b \in Boxes /\ box'[b].state = "gone"
  <2>1. b = kill[d].box /\ box' = box /\ box[b].state = "gone" /\ kill[d].at = "delete"
    BY <1>5 DEF DaytonaDeleted, Tell
  <2> QED  BY <2>1, Types DEF Inv, KillInv, KillRecord
<1> QED  BY <1>1, <1>2, <1>3, <1>4, <1>5 DEF Listed

LEMMA ReportInvStep ==
  ASSUME TypeOK, Inv, Next, AllMove
  PROVE  ReportInv' /\ reported' \subseteq Boxes
<1>1. reported \subseteq Boxes  BY DEF TypeOK
<1>2. ASSUME NEW b \in reported'
      PROVE  /\ b \in Boxes /\ box'[b].state # "none"
             /\ box'[b].state = "gone" \/ ~box'[b].listed
  <2>1. CASE b \in reported
    BY <1>1, <2>1 DEF Inv, ReportInv, AllMove, BoxMoves
  <2>2. CASE b \notin reported  BY <2>2, NewReports
  <2> QED  BY <2>1, <2>2
<1> QED  BY <1>2 DEF ReportInv

LEMMA FoundFirst ==
  ASSUME TypeOK, NEW k \in Keys, HasBox(k)
  PROVE  /\ Found(k) \in Listed /\ box[Found(k)].key = k
         /\ \A b \in Listed : box[b].key = k => Found(k) <= b
<1> DEFINE S == {b \in Listed : box[b].key = k}
<1>1. S \subseteq Nat /\ S # {}
  BY ProviderAssumption DEF HasBox, Listed, Boxes
<1>2. Min(S) \in S /\ \A b \in S : Min(S) <= b  BY <1>1, FirstOfBoxes
<1> QED  BY <1>2 DEF Found

\* Only a create that finds a box changes what is agreed on.
LEMMA NewReuse ==
  ASSUME TypeOK, Next, reused' # reused
  PROVE  \E c \in Callers :
           /\ HasBox(KeyOf[c]) /\ box' = box /\ kind' = kind
           /\ reused' = [reused EXCEPT ![KeyOf[c]] = Found(KeyOf[c])]
<1>1. ASSUME NEW c \in Callers, Request(c) \/ Use(c) PROVE FALSE
  BY <1>1 DEF Request, Use, ConnectMapped, DaytonaConnect, LocalWriteFiles, DaytonaWriteFiles,
             LocalRun, RemoteRun, Exit, TimeOut, Abort, ForceKill, LocalReadOutput,
             RemoteReadOutput
<1>2. ASSUME NEW d \in Destroyers, Destroy(d) PROVE FALSE
  BY <1>2 DEF Destroy, LocalStopped, LocalStopAll, LocalRemove, DaytonaDelete, DaytonaDeleted
<1>3. ASSUME NEW b \in Boxes, Inspect(b) \/ FakeDestroy(b) \/ MachineMoves(b) PROVE FALSE
  BY <1>3 DEF MachineMoves, Inspect, FakeDestroy
<1>4. ~Restart  BY DEF Restart
<1>5. PICK c \in Callers : Create(c)  BY <1>1, <1>2, <1>3, <1>4 DEF Next
<1>6. FindByProvisioningKey(c)
  BY <1>5 DEF Create, FakeCreate, LocalMakeDirectory, LocalRegister, DaytonaList,
             DaytonaCreate, DaytonaEnsureWorkspace
<1> QED  BY <1>6 DEF FindByProvisioningKey, Reuse

LEMMA ReuseInvStep ==
  ASSUME TypeOK, Inv, Next, AllMove
  PROVE  ReuseInv' /\ reused' \in [Keys -> Boxes \cup {None}]
<1>0. /\ reused \in [Keys -> Boxes \cup {None}] /\ Boxes \subseteq Nat
      /\ ReuseInv
  BY ProviderAssumption DEF TypeOK, Boxes, Inv
<1>1. CASE reused' = reused
  <2>1. ASSUME NEW k \in Keys, reused[k] # None
        PROVE  /\ box'[reused[k]].state # "none"
               /\ reused[k] \in Listed' =>
                    /\ box'[reused[k]].key = k
                    /\ \A b \in Listed' : box'[b].key = k => reused[k] <= b
    <3> DEFINE r == reused[k]
    <3>1. /\ r \in Boxes /\ box[r].state # "none"
          /\ r \in Listed => /\ box[r].key = k
                             /\ \A b \in Listed : box[b].key = k => r <= b
      BY <1>0, <2>1 DEF ReuseInv
    <3> HIDE DEF r
    <3>2. BoxMoves(r)  BY <3>1 DEF AllMove
    <3>3. r \in Listed' => r \in Listed /\ box'[r].key = k
      BY <3>1, <3>2 DEF Listed, BoxMoves
    <3>4. ASSUME r \in Listed, NEW b \in Listed', box'[b].key = k PROVE r <= b
      <4>1. b \in Boxes /\ BoxMoves(b) /\ b \in Nat /\ r \in Nat
        BY <1>0, <3>1 DEF AllMove, Listed
      <4>2. CASE box[b].state # "none"
        BY <3>1, <3>4, <4>1, <4>2 DEF BoxMoves, Listed
      <4>3. CASE box[b].state = "none"
        BY <3>1, <3>4, <4>1, <4>3 DEF BoxMoves, Listed
      <4> QED  BY <4>2, <4>3
    <3> QED  BY <3>1, <3>2, <3>3, <3>4 DEF r, BoxMoves
  <2> QED  BY <1>0, <1>1, <2>1 DEF ReuseInv
<1>2. CASE reused' # reused
  <2>1. PICK c \in Callers :
          /\ HasBox(KeyOf[c]) /\ box' = box /\ kind' = kind
          /\ reused' = [reused EXCEPT ![KeyOf[c]] = Found(KeyOf[c])]
    BY <1>2, NewReuse
  <2> DEFINE k == KeyOf[c]
             r == Found(k)
  <2>2. k \in Keys  BY ProviderAssumption
  <2>3. /\ r \in Listed /\ box[r].key = k
        /\ \A b \in Listed : box[b].key = k => r <= b
    BY <2>1, <2>2, FoundFirst
  <2>4. r \in Boxes /\ box[r].state # "none"  BY <2>3 DEF Listed
  <2>5. Listed' = Listed  BY <2>1 DEF Listed
  <2>6. reused' = [reused EXCEPT ![k] = r]  BY <2>1
  <2> HIDE DEF r, k
  <2>7. reused'[k] = r /\ \A i \in Keys \ {k} : reused'[i] = reused[i]
    BY <1>0, <2>2, <2>6
  <2>8. reused' \in [Keys -> Boxes \cup {None}]  BY <1>0, <2>2, <2>4, <2>6
  <2> QED  BY <1>0, <2>1, <2>3, <2>4, <2>5, <2>7, <2>8 DEF ReuseInv
<1> QED  BY <1>1, <1>2

-----------------------------------------------------------------------------
(* The steps of a caller.                                                  *)

\* What else a caller's step leaves alone.
LEMMA CallerStep ==
  ASSUME TypeOK, Inv, NEW c \in Callers, Request(c) \/ Create(c) \/ Use(c)
  PROVE  /\ OnlyCall(c) /\ kill' = kill
         /\ cmd' \in [Callers -> {"none", "running", "terminated", "over"}]
         /\ late' \subseteq Callers /\ faults' \in 0 .. MaxFaults
         /\ \A e \in Callers \ {c} : cmd'[e] = cmd[e] /\ (e \in late' <=> e \in late)
<1> USE DEF At
<1>0. /\ call \in [Callers -> CallRecord]
      /\ cmd \in [Callers -> {"none", "running", "terminated", "over"}]
      /\ late \subseteq Callers /\ faults \in 0 .. MaxFaults /\ MaxFaults \in Nat
  BY Types, ProviderAssumption DEF TypeOK
<1>1. /\ kill' = kill
      /\ cmd' \in [Callers -> {"none", "running", "terminated", "over"}]
      /\ late' \subseteq Callers
      /\ \A e \in Callers \ {c} : cmd'[e] = cmd[e] /\ (e \in late' <=> e \in late)
  <2>1. CASE Create(c)
    BY <1>0, <2>1
    DEF Create, FindByProvisioningKey, FakeCreate, LocalMakeDirectory,
        LocalRegister, DaytonaList, DaytonaCreate, DaytonaEnsureWorkspace
  <2>2. CASE Request(c)  BY <1>0, <2>2 DEF Request
  <2>3. CASE Use(c)
    BY <1>0, <2>3
    DEF Use, ConnectMapped, DaytonaConnect, LocalWriteFiles, DaytonaWriteFiles, LocalRun,
        RemoteRun, Exit, TimeOut, Abort, ForceKill, LocalReadOutput, RemoteReadOutput, Settle
  <2> QED  BY <2>1, <2>2, <2>3
<1>2. faults' = faults \/ Fault
  BY DEF Request, Create, Use, FindByProvisioningKey, FakeCreate, LocalMakeDirectory,
        LocalRegister, DaytonaList, DaytonaCreate, DaytonaEnsureWorkspace, ConnectMapped,
        DaytonaConnect, LocalWriteFiles, DaytonaWriteFiles, LocalRun, RemoteRun, Exit,
        TimeOut, Abort, ForceKill, LocalReadOutput, RemoteReadOutput
<1>3. faults' \in 0 .. MaxFaults  BY <1>0, <1>2 DEF Fault
<1>4. OnlyCall(c)
  <2>0. call' = call => OnlyCall(c)  BY <1>0 DEF OnlyCall
  <2>1. CASE Request(c)
    <3>1. PICK s \in Specs :
            call' = [call EXCEPT ![c] = [NoCall EXCEPT !.at = "create", !.spec = s]]
      BY <2>1 DEF Request
    <3> DEFINE t == [NoCall EXCEPT !.at = "create", !.spec = s]
    <3>2. t \in CallRecord  BY DEF NoCall, CallRecord
    <3> HIDE DEF t
    <3>3. call' = [call EXCEPT ![c] = t]  BY <3>1 DEF t
    <3> QED  BY <1>0, <3>2, <3>3 DEF OnlyCall
  <2>2. CASE FindByProvisioningKey(c)
    <3>1. Found(KeyOf[c]) \in Boxes /\ KeyOf[c] \in Keys
      BY <2>2, FoundFirst, ProviderAssumption DEF FindByProvisioningKey, Listed
    <3>2. \/ Goto(c, "mismatch")
          \/ call' = [call EXCEPT ![c].at = "created", ![c].box = Found(KeyOf[c])]
      BY <2>2 DEF FindByProvisioningKey, Reuse
    <3> QED  BY <3>1, <3>2, GotoCall, ReuseCall DEF Ats, Failures
  <2>3. CASE FakeCreate(c) \/ LocalRegister(c)
    <3>1. \/ Unused # {} /\ Got(c, "created", Min(Unused))
          \/ \E s \in Failures, from \in {"create", None} : Fails(c, s, from)
      BY <2>3 DEF FakeCreate, LocalRegister, Failures
    <3>2. "created" \in Ats  BY DEF Ats
    <3> QED  BY <3>1, <3>2, UnusedFirst, GotCall, FailsCall DEF Inv
  <2>4. CASE LocalMakeDirectory(c)
    BY <2>4, GotoCall DEF LocalMakeDirectory, Ats
  <2>5. CASE DaytonaList(c)
    <3>1. \/ call' = [call EXCEPT ![c].from = "list"]
          \/ Fails(c, "not-created", "list")
      BY <2>5 DEF DaytonaList
    <3>2. [call[c] EXCEPT !.from = "list"] \in CallRecord  BY <1>0 DEF CallRecord
    <3> QED  BY <1>0, <3>1, <3>2, FailsCall DEF OnlyCall, Failures
  <2>6. CASE DaytonaCreate(c)
    <3>1. \/ Got(c, "workspace", Min(Unused))
          \/ \E error \in {"4xx", "timeout"} : Fails(c, Outcome(error), "create")
          \/ call' = [call EXCEPT ![c].at = Outcome("timeout"), ![c].from = "create",
                                  ![c].made = Min(Unused)]
      BY <2>6 DEF DaytonaCreate
    <3>2. /\ "workspace" \in Ats /\ Min(Unused) \in Boxes
          /\ \A error \in {"4xx", "timeout"} : Outcome(error) \in Failures
      BY <2>6, UnusedFirst DEF Ats, Outcome, Failures, Inv, DaytonaCreate
    <3> QED  BY <3>1, <3>2, GotCall, FailsCall, UnansweredCall
  <2>7. CASE DaytonaEnsureWorkspace(c)
    <3>1. \/ Goto(c, "created")
          \/ \E error \in {"4xx", "timeout"} : Fails(c, Outcome(error), "workspace")
      BY <2>7 DEF DaytonaEnsureWorkspace
    <3>2. \A error \in {"4xx", "timeout"} : Outcome(error) \in Failures
      BY DEF Outcome, Failures
    <3> QED  BY <3>1, <3>2, GotoCall, FailsCall DEF Ats
  <2>8. CASE Use(c)
    <3>1. call' = call \/ \E s \in {"ready", "lost", "error", "uploaded", "run", "done"} :
                             Goto(c, s)
      BY <2>8
      DEF Use, ConnectMapped, DaytonaConnect, LocalWriteFiles, DaytonaWriteFiles, LocalRun,
          RemoteRun, Exit, TimeOut, Abort, ForceKill, LocalReadOutput, RemoteReadOutput
    <3> QED  BY <2>0, <3>1, GotoCall DEF Ats, Failures
  <2> QED  BY <2>1, <2>2, <2>3, <2>4, <2>5, <2>6, <2>7, <2>8 DEF Create
<1> QED  BY <1>1, <1>3, <1>4

\* A call that ends with not-created has made nothing.
LEMMA MadeStep ==
  ASSUME TypeOK, Inv, NEW c \in Callers, Request(c) \/ Create(c) \/ Use(c)
  PROVE  Made(c)'
<1> USE DEF At
<1>0. call \in [Callers -> CallRecord] /\ Made(c)
  BY Types DEF Inv, MadeInv
<1>1. CASE call' = call  BY <1>0, <1>1 DEF Made
<1>2. CASE Request(c)
  <2>1. PICK s \in Specs :
          call' = [call EXCEPT ![c] = [NoCall EXCEPT !.at = "create", !.spec = s]]
    BY <1>2 DEF Request
  <2> DEFINE t == [NoCall EXCEPT !.at = "create", !.spec = s]
  <2>2. t.at = "create" /\ t.made = None  BY DEF NoCall
  <2> HIDE DEF t
  <2>3. call' = [call EXCEPT ![c] = t]  BY <2>1 DEF t
  <2> QED  BY <1>0, <2>2, <2>3 DEF Made
<1>3. CASE FindByProvisioningKey(c)
  <2>1. Found(KeyOf[c]) \in Boxes /\ KeyOf[c] \in Keys
    BY <1>3, FoundFirst, ProviderAssumption DEF FindByProvisioningKey, Listed
  <2>2. \/ Goto(c, "mismatch")
        \/ call' = [call EXCEPT ![c].at = "created", ![c].box = Found(KeyOf[c])]
    BY <1>3 DEF FindByProvisioningKey, Reuse
  <2>3. call'[c].at \in {"mismatch", "created"}
    BY <2>1, <2>2, GotoCall, ReuseCall DEF Ats, Failures
  <2> QED  BY <2>3 DEF Made
<1>4. CASE FakeCreate(c) \/ LocalRegister(c)
  <2>1. call[c].made = None  BY <1>0, <1>4 DEF Made, FakeCreate, LocalRegister
  <2>2. \/ Unused # {} /\ Got(c, "created", Min(Unused))
        \/ \E s \in Failures, from \in {"create", None} : Fails(c, s, from)
    BY <1>4 DEF FakeCreate, LocalRegister, Failures
  <2>3. call'[c].at = "created" \/ call'[c].made = None
    BY <2>1, <2>2, UnusedFirst, GotCall, FailsCall DEF Inv, Ats
  <2> QED  BY <2>3 DEF Made
<1>5. CASE LocalMakeDirectory(c)
  <2>1. call'[c].made = call[c].made
    BY <1>5, GotoCall DEF LocalMakeDirectory, Ats
  <2> QED  BY <1>0, <1>5, <2>1 DEF Made, LocalMakeDirectory
<1>6. CASE DaytonaList(c)
  <2>1. \/ call' = [call EXCEPT ![c].from = "list"]
        \/ Fails(c, "not-created", "list")
    BY <1>6 DEF DaytonaList
  <2>2. call'[c].made = call[c].made
    BY <1>0, <2>1, FailsCall DEF CallRecord, Failures
  <2> QED  BY <1>0, <1>6, <2>2 DEF Made, DaytonaList
<1>7. CASE DaytonaCreate(c)
  <2>1. \/ Got(c, "workspace", Min(Unused))
        \/ \E error \in {"4xx", "timeout"} : Fails(c, Outcome(error), "create")
        \/ call' = [call EXCEPT ![c].at = Outcome("timeout"), ![c].from = "create",
                                ![c].made = Min(Unused)]
    BY <1>7 DEF DaytonaCreate
  <2>2. /\ "workspace" \in Ats /\ Min(Unused) \in Boxes
        /\ \A error \in {"4xx", "timeout"} : Outcome(error) \in Failures
        /\ Outcome("timeout") = "unknown"
    BY <1>7, UnusedFirst DEF Ats, Outcome, Failures, Inv, DaytonaCreate
  <2>3. call'[c].at \in {"workspace", "unknown"} \/ call'[c].made = call[c].made
    <3>1. CASE Got(c, "workspace", Min(Unused))  BY <2>2, <3>1, GotCall
    <3>2. CASE \E error \in {"4xx", "timeout"} : Fails(c, Outcome(error), "create")
      BY <2>2, <3>2, FailsCall
    <3>3. CASE call' = [call EXCEPT ![c].at = Outcome("timeout"), ![c].from = "create",
                                    ![c].made = Min(Unused)]
      <4>1. Outcome("timeout") \in Failures  BY <2>2
      <4> QED  BY <2>2, <3>3, <4>1, UnansweredCall
    <3> QED  BY <2>1, <3>1, <3>2, <3>3
  <2> QED  BY <1>0, <1>7, <2>3 DEF Made, DaytonaCreate
<1>8. CASE DaytonaEnsureWorkspace(c)
  <2>1. \/ Goto(c, "created")
        \/ \E error \in {"4xx", "timeout"} : Fails(c, Outcome(error), "workspace")
    BY <1>8 DEF DaytonaEnsureWorkspace
  <2>2. \A error \in {"4xx", "timeout"} : Outcome(error) \in Failures
    BY DEF Outcome, Failures
  <2>3. call'[c].at = "created" \/ (call'[c].from = "workspace" /\ call'[c].at \in Failures)
    BY <2>1, <2>2, GotoCall, FailsCall DEF Ats
  <2> QED  BY <2>3 DEF Made, Failures
<1>9. CASE Use(c)
  <2>1. call' = call \/ \E s \in {"ready", "lost", "error", "uploaded", "run", "done"} :
                           Goto(c, s)
    BY <1>9
    DEF Use, ConnectMapped, DaytonaConnect, LocalWriteFiles, DaytonaWriteFiles, LocalRun,
        RemoteRun, Exit, TimeOut, Abort, ForceKill, LocalReadOutput, RemoteReadOutput
  <2>2. call' = call \/ call'[c].at \in {"ready", "lost", "error", "uploaded", "run", "done"}
    BY <2>1, GotoCall DEF Ats, Failures
  <2> QED  BY <1>1, <2>2 DEF Made
<1> QED  BY <1>2, <1>3, <1>4, <1>5, <1>6, <1>7, <1>8, <1>9 DEF Create

-----------------------------------------------------------------------------
(* Commands and the destruction of their sandboxes.                        *)

\* Only a restart makes a local provider forget, and only destroy removes.
LocalStays ==
  kind = "local" => \A b \in Boxes : box[b].state # "none" =>
    /\ box'[b].listed = box[b].listed
    /\ box'[b].state = "gone" => box[b].state = "gone"

LEMMA CallerStays ==
  ASSUME TypeOK, Inv, NEW c \in Callers, Request(c) \/ Create(c) \/ Use(c)
  PROVE  LocalStays
<1> SUFFICES ASSUME kind = "local", box' # box PROVE LocalStays
  BY DEF LocalStays
<1>1. LocalRegister(c) \/ LocalWriteFiles(c)
  BY DEF Request, Create, Use, FindByProvisioningKey, FakeCreate, LocalMakeDirectory,
        DaytonaList, DaytonaCreate, DaytonaEnsureWorkspace, ConnectMapped,
        DaytonaConnect, DaytonaWriteFiles, LocalRun, RemoteRun, Exit,
        TimeOut, Abort, ForceKill, LocalReadOutput, RemoteReadOutput
<1>2. CASE LocalRegister(c)
  <2>1. Unused # {} /\ New(c, Min(Unused), "ready")  BY <1>2 DEF LocalRegister
  <2>2. Min(Unused) \in Boxes /\ box[Min(Unused)].state = "none" /\ "ready" \in States
    BY <2>1, UnusedFirst DEF Inv, States
  <2>3. OnlyBox(Min(Unused))  BY <2>1, <2>2, NewBox
  <2> QED  BY <2>2, <2>3 DEF OnlyBox, LocalStays
<1>3. CASE LocalWriteFiles(c)
  <2> DEFINE b == call[c].box
  <2>1. /\ call[c].at = "ready"
        /\ \E f \in {"some", "all"} : box' = [box EXCEPT ![b].files = f]
    BY <1>3 DEF LocalWriteFiles, At
  <2>2. b \in Boxes  BY <2>1 DEF Inv, CommandInv, Command, Using
  <2> HIDE DEF b
  <2>3. PICK f \in {"some", "all"} : box' = [box EXCEPT ![b].files = f]  BY <2>1
  <2>4. /\ OnlyBox(b) /\ box'[b].state = box[b].state
        /\ box'[b].listed = box[b].listed
    BY <2>2, <2>3, FilesBox
  <2> QED  BY <2>4 DEF OnlyBox, LocalStays
<1> QED  BY <1>1, <1>2, <1>3

\* A call that is not given another box keeps what holds of its command.
LEMMA CommandKeeps ==
  ASSUME TypeOK, NEW c \in Callers, Command(c), AllMove, LocalStays, kind' = kind, kill' = kill,
         call'[c].at \in Using => call[c].at \in Using /\ call'[c].box = call[c].box,
         Alive(c)' => Alive(c) /\ call'[c].at = "run" /\ (c \in late => c \in late')
  PROVE  Command(c)'
BY DEF Command, AllMove, BoxMoves, LocalStays, Using, At

LEMMA CommandStep ==
  ASSUME TypeOK, Inv, Next, NEW c \in Callers, Request(c) \/ Create(c) \/ Use(c)
  PROVE  Command(c)'
<1> USE DEF At
<1>0. /\ call \in [Callers -> CallRecord] /\ Command(c)
      /\ cmd \in [Callers -> {"none", "running", "terminated", "over"}]
      /\ AllMove /\ kind' = kind /\ kill' = kill /\ LocalStays /\ OnlyCall(c) /\ BoxInv
  BY Types, BoxStep, CallerStep, CallerStays DEF Inv, CommandInv, TypeOK
<1> USE <1>0
<1>1. ASSUME call'[c].at \notin Using, ~Alive(c)' PROVE Command(c)'
  BY <1>1 DEF Command
\* A sandbox that has just been found or made, with no command yet.
<1>2. ASSUME NEW b \in Boxes, call'[c].box = b, box'[b].state # "none",
             kind = "local" => box'[b].listed, ~Alive(c)'
      PROVE  Command(c)'
  BY <1>2 DEF Command
<1>3. CASE Request(c)
  <2>1. PICK s \in Specs :
          call' = [call EXCEPT ![c] = [NoCall EXCEPT !.at = "create", !.spec = s]]
    BY <1>3 DEF Request
  <2> DEFINE t == [NoCall EXCEPT !.at = "create", !.spec = s]
  <2>2. t.at = "create"  BY DEF NoCall
  <2> HIDE DEF t
  <2>3. call' = [call EXCEPT ![c] = t]  BY <2>1 DEF t
  <2>4. cmd'[c] = "none"  BY <1>3 DEF Request
  <2> QED  BY <1>1, <2>2, <2>3, <2>4 DEF Using, Alive
<1>4. CASE Create(c)
  <2>1. cmd' = cmd /\ call[c].at \in {"create", "register", "workspace"}
    BY <1>4
    DEF Create, FindByProvisioningKey, FakeCreate, LocalMakeDirectory,
        LocalRegister, DaytonaList, DaytonaCreate, DaytonaEnsureWorkspace
  <2>2. ~Alive(c)' /\ ~Alive(c)  BY <2>1 DEF Command, Alive
  <2>3. CASE FindByProvisioningKey(c)
    <3>1. /\ Found(KeyOf[c]) \in Listed
      BY <2>3, FoundFirst, ProviderAssumption DEF FindByProvisioningKey
    <3>2. \/ Goto(c, "mismatch")
          \/ call' = [call EXCEPT ![c].at = "created", ![c].box = Found(KeyOf[c])]
      BY <2>3 DEF FindByProvisioningKey, Reuse
    <3>3. box' = box  BY <2>3 DEF FindByProvisioningKey
    <3>4. CASE Goto(c, "mismatch")
      <4>1. call'[c].at = "mismatch"  BY <3>4, GotoCall DEF Ats, Failures
      <4> QED  BY <1>1, <2>2, <4>1 DEF Using
    <3>5. CASE ~Goto(c, "mismatch")
      <4>1. /\ Found(KeyOf[c]) \in Boxes /\ box[Found(KeyOf[c])].state # "none"
            /\ box[Found(KeyOf[c])].listed
        BY <3>1, ListedBoxes
      <4>2. call'[c].box = Found(KeyOf[c])  BY <3>2, <3>5, <4>1, ReuseCall
      <4> QED  BY <1>2, <2>2, <3>3, <4>1, <4>2
    <3> QED  BY <3>4, <3>5
  <2>4. CASE FakeCreate(c) \/ LocalRegister(c) \/ DaytonaCreate(c)
    <3>1. CASE call'[c].at \notin Using  BY <1>1, <2>2, <3>1
    <3>2. CASE call'[c].at \in Using
      <4>1. \/ /\ Unused # {} /\ New(c, Min(Unused), "ready")
               /\ \E s \in {"created", "workspace"} : Got(c, s, Min(Unused))
            \/ \E s \in Failures, from \in {"create", None} : Fails(c, s, from)
            \/ Unused # {} /\ \E s \in Failures :
                 call' = [call EXCEPT ![c].at = s, ![c].from = "create",
                                      ![c].made = Min(Unused)]
        BY <2>4 DEF FakeCreate, LocalRegister, DaytonaCreate, Outcome, Failures
      <4>2. Failures \cap Using = {} /\ "ready" \in States \ {"none"}
            /\ {"created", "workspace"} \subseteq Ats
        BY DEF Failures, Using, States, Ats
      <4>3. Unused # {} => Min(Unused) \in Boxes  BY UnusedFirst
      <4>4. /\ Unused # {} /\ New(c, Min(Unused), "ready")
            /\ \E s \in {"created", "workspace"} : Got(c, s, Min(Unused))
        <5>1. ASSUME NEW s \in Failures, NEW from \in {"create", None}, Fails(c, s, from)
              PROVE  FALSE
          <6>1. call'[c].at = s  BY <5>1, FailsCall
          <6> QED  BY <3>2, <4>2, <5>1, <6>1
        <5>2. ASSUME Unused # {}, NEW s \in Failures,
                     call' = [call EXCEPT ![c].at = s, ![c].from = "create",
                                          ![c].made = Min(Unused)]
              PROVE  FALSE
          <6>1. call'[c].at = s  BY <4>3, <5>2, UnansweredCall
          <6> QED  BY <3>2, <4>2, <5>2, <6>1
        <5> QED  BY <4>1, <5>1, <5>2
      <4>5. call'[c].box = Min(Unused)  BY <4>2, <4>3, <4>4, GotCall
      <4>6. box'[Min(Unused)].state = "ready" /\ box'[Min(Unused)].listed
        BY <4>2, <4>4, OneNew
      <4> QED  BY <1>2, <2>2, <4>3, <4>4, <4>5, <4>6
    <3> QED  BY <3>1, <3>2
  <2>5. CASE LocalMakeDirectory(c)
    <3>1. call'[c].at = "register"  BY <2>5, GotoCall DEF LocalMakeDirectory, Ats
    <3> QED  BY <1>1, <2>2, <3>1 DEF Using
  <2>6. CASE DaytonaList(c)
    <3>1. \/ call' = [call EXCEPT ![c].from = "list"]
          \/ Fails(c, "not-created", "list")
      BY <2>6 DEF DaytonaList
    <3>2. call[c].at = "create"  BY <2>6 DEF DaytonaList
    <3>3. call'[c].at \in {"create", "not-created"}
      BY <3>1, <3>2, FailsCall DEF CallRecord, Failures
    <3> QED  BY <1>1, <2>2, <3>3 DEF Using
  <2>7. CASE DaytonaEnsureWorkspace(c)
    <3>1. \/ Goto(c, "created")
          \/ \E error \in {"4xx", "timeout"} : Fails(c, Outcome(error), "workspace")
      BY <2>7 DEF DaytonaEnsureWorkspace
    <3>2. \A error \in {"4xx", "timeout"} : Outcome(error) \in Failures
      BY DEF Outcome, Failures
    <3>3. \/ call'[c].at = "created" /\ call'[c].box = call[c].box
          \/ call'[c].at \in Failures
      BY <3>1, <3>2, GotoCall, FailsCall DEF Ats
    <3>4. call[c].at = "workspace"  BY <2>7 DEF DaytonaEnsureWorkspace
    <3> QED  BY <2>2, <3>3, <3>4, CommandKeeps DEF Using, Failures
  <2> QED  BY <1>4, <2>3, <2>4, <2>5, <2>6, <2>7 DEF Create
<1>5. CASE ConnectMapped(c) \/ DaytonaConnect(c) \/ LocalWriteFiles(c)
           \/ DaytonaWriteFiles(c) \/ LocalReadOutput(c) \/ RemoteReadOutput(c)
  <2>1. \/ call' = call
        \/ \E s \in {"ready", "lost", "error", "uploaded", "done"} : Goto(c, s)
    BY <1>5
    DEF ConnectMapped, DaytonaConnect, LocalWriteFiles, DaytonaWriteFiles, LocalReadOutput,
        RemoteReadOutput
  <2>2. /\ call'[c].at \in {call[c].at, "ready", "lost", "error", "uploaded", "done"}
        /\ call'[c].box = call[c].box
    BY <2>1, GotoCall DEF Ats, Failures
  <2>3. /\ call[c].at \in {"created", "ready"} \/ (call[c].at = "run" /\ cmd[c] = "over")
        /\ cmd' = cmd
    BY <1>5
    DEF ConnectMapped, DaytonaConnect, LocalWriteFiles, DaytonaWriteFiles, LocalReadOutput,
        RemoteReadOutput
  <2>4. ~Alive(c)' /\ ~Alive(c) /\ call[c].at \in Using
    BY <2>3 DEF Command, Alive, Using
  <2> QED  BY <2>2, <2>4, CommandKeeps
<1>6. CASE LocalRun(c)
  <2>1. /\ call[c].at = "uploaded" /\ kind = "local" /\ box' = box
        /\ \/ Goto(c, "error") /\ cmd' = cmd
           \/ /\ Goto(c, "run") /\ box[call[c].box].state # "gone"
              /\ late' = IF BeingDestroyed(call[c].box) THEN late \cup {c} ELSE late
    BY <1>6 DEF LocalRun
  <2>2. /\ ~Alive(c) /\ call[c].box \in Boxes /\ box[call[c].box].state # "none"
        /\ box[call[c].box].listed
    BY <2>1 DEF Command, Using
  <2>3. CASE Goto(c, "error") /\ cmd' = cmd
    <3>1. call'[c].at = "error"  BY <2>3, GotoCall DEF Ats, Failures
    <3> QED  BY <1>1, <2>2, <2>3, <3>1 DEF Using, Alive
  <2>4. CASE ~(Goto(c, "error") /\ cmd' = cmd)
    <3>1. call'[c].at = "run" /\ call'[c].box = call[c].box
      BY <2>1, <2>4, GotoCall DEF Ats
    <3>2. c \notin late' => \A d \in Destroyers : kill[d].box # call[c].box
      BY <2>1, <2>4 DEF BeingDestroyed
    <3> QED  BY <2>1, <2>2, <2>4, <3>1, <3>2 DEF Command
  <2> QED  BY <2>3, <2>4
<1>7. CASE RemoteRun(c)
  <2>1. /\ call[c].at = "uploaded" /\ kind # "local"
        /\ Goto(c, "run") \/ (Goto(c, "error") /\ cmd' = cmd)
    BY <1>7 DEF RemoteRun
  <2>2. ~Alive(c) /\ call[c].box \in Boxes /\ box[call[c].box].state # "none"
    BY <2>1 DEF Command, Using
  <2>3. /\ call'[c].at \in {"run", "error"} /\ call'[c].box = call[c].box
        /\ call'[c].at = "error" => ~Alive(c)'
    BY <2>1, <2>2, GotoCall DEF Ats, Failures, Alive
  <2>4. box'[call[c].box].state # "none"  BY <2>2 DEF AllMove, BoxMoves
  <2> QED  BY <2>1, <2>2, <2>3, <2>4 DEF Command, Using
<1>8. CASE Exit(c) \/ TimeOut(c) \/ Abort(c) \/ ForceKill(c)
  <2>1. /\ call' = call /\ late' = late /\ Alive(c)
    BY <1>8 DEF Exit, TimeOut, Abort, ForceKill, Alive
  <2> QED  BY <2>1, CommandKeeps DEF Command
<1> QED  BY <1>3, <1>4, <1>5, <1>6, <1>7, <1>8 DEF Use

\* The steps of a destroyer.
LEMMA DestroyerStep ==
  ASSUME TypeOK, Inv, Next, NEW d \in Destroyers, Destroy(d)
  PROVE  /\ kill' \in [Destroyers -> KillRecord] /\ KillInv' /\ CommandInv'
         /\ call' = call /\ late' = late /\ faults' \in 0 .. MaxFaults
         /\ cmd' \in [Callers -> {"none", "running", "terminated", "over"}]
<1>0. /\ kill \in [Destroyers -> KillRecord] /\ box \in [Boxes -> BoxRecord]
      /\ cmd \in [Callers -> {"none", "running", "terminated", "over"}]
      /\ faults \in 0 .. MaxFaults /\ MaxFaults \in Nat
      /\ AllMove /\ kind' = kind /\ KillInv /\ None \notin Boxes
      /\ CommandsOf(0) \subseteq Callers
  BY Types, BoxStep, ProviderAssumption DEF Inv, TypeOK, Boxes, CommandsOf
<1> USE <1>0
<1>1. ASSUME NEW c \in Callers PROVE Command(c)
  BY DEF Inv, CommandInv
\* It leaves the records of the other destroyers alone.
<1>2. ASSUME NEW t \in KillRecord, kill' = [kill EXCEPT ![d] = t],
             t.at = "idle" <=> t.box = None,
             t.at # "idle" => box[t.box].state # "none",
             t.at \in {"stop", "remove"} => kind = "local",
             t.at = "delete" => kind = "daytona"
      PROVE  kill' \in [Destroyers -> KillRecord] /\ KillInv'
  <2>1. kill' \in [Destroyers -> KillRecord]  BY <1>2
  <2>2. ASSUME NEW e \in Destroyers
        PROVE  /\ kill'[e].at = "idle" <=> kill'[e].box = None
               /\ kill'[e].at # "idle" => box'[kill'[e].box].state # "none"
               /\ kill'[e].at \in {"stop", "remove"} => kind = "local"
               /\ kill'[e].at = "delete" => kind = "daytona"
    <3>1. \A b \in Boxes : box[b].state # "none" => box'[b].state # "none"
      BY DEF AllMove, BoxMoves
    <3>2. kill'[e] = IF e = d THEN t ELSE kill[e]  BY <1>2
    <3>3. \A r \in KillRecord : r.box \in Boxes \cup {None}  BY DEF KillRecord
    <3> QED  BY <1>2, <3>1, <3>2, <3>3 DEF KillInv
  <2> QED  BY <2>1, <2>2 DEF KillInv
<1>3. NoKill \in KillRecord /\ NoKill.at = "idle" /\ NoKill.box = None
  BY DEF NoKill, KillRecord
<1>4. CASE \E b \in Boxes : LocalStopAll(d, b)
  <2>1. PICK b \in Boxes : LocalStopAll(d, b)  BY <1>4
  <2> DEFINE t == [at |-> "stop", box |-> b, of |-> CommandsOf(b)]
  <2>2. /\ kill' = [kill EXCEPT ![d] = t] /\ t \in KillRecord
        /\ t.at = "stop" /\ t.box = b /\ t.of = CommandsOf(b)
        /\ kind = "local" /\ b \in Listed /\ box' = box
        /\ call' = call /\ late' = late /\ faults' = faults
        /\ \A c \in Callers : cmd'[c] = IF c \in CommandsOf(b) THEN "terminated" ELSE cmd[c]
    BY <2>1 DEF LocalStopAll, KillRecord, CommandsOf
  <2> HIDE DEF t
  <2>3. kill' \in [Destroyers -> KillRecord] /\ KillInv'
    BY <1>2, <2>2 DEF Listed
  <2>4. cmd' \in [Callers -> {"none", "running", "terminated", "over"}]
    BY <2>1 DEF LocalStopAll
  <2>5. ASSUME NEW c \in Callers PROVE Command(c)'
    <3>1. Command(c)  BY <1>1
    <3>2. Alive(c)' <=> Alive(c)  BY <2>2 DEF CommandsOf, Alive
    <3>3. ASSUME Alive(c), c \notin late, NEW e \in Destroyers, kill'[e].box = call[c].box
          PROVE  kill'[e].at = "stop" /\ c \in kill'[e].of
      <4>1. CASE e = d
        <5>1. kill'[e] = t  BY <2>2, <4>1
        <5> QED  BY <2>2, <3>3, <5>1 DEF CommandsOf
      <4>2. CASE e # d
        <5>1. kill'[e] = kill[e]  BY <2>2, <4>2
        <5> QED  BY <2>2, <3>1, <3>3, <5>1 DEF Command
      <4> QED  BY <4>1, <4>2
    <3> QED  BY <2>2, <3>1, <3>2, <3>3 DEF Command, At
  <2> QED  BY <2>2, <2>3, <2>4, <2>5 DEF CommandInv
\* The commands it waits for are over: none is left but the late ones.
<1>5. CASE LocalStopped(d)
  <2> DEFINE t == [kill[d] EXCEPT !.at = "remove"]
  <2>1. /\ kill[d].at = "stop" /\ \A c \in kill[d].of : ~Alive(c)
        /\ kill' = [kill EXCEPT ![d] = t]
        /\ UNCHANGED <<box, call, cmd, late, faults>>
    BY <1>5 DEF LocalStopped
  <2>2. /\ t \in KillRecord /\ t.at = "remove" /\ t.box = kill[d].box /\ t.of = kill[d].of
    BY DEF KillRecord
  <2> HIDE DEF t
  <2>3. kill' \in [Destroyers -> KillRecord] /\ KillInv'
    BY <1>2, <2>1, <2>2 DEF KillInv
  <2>4. ASSUME NEW c \in Callers PROVE Command(c)'
    <3>1. Command(c)  BY <1>1
    <3>2. ASSUME kind = "local", Alive(c), c \notin late, NEW e \in Destroyers,
                 kill'[e].box = call[c].box
          PROVE  kill'[e].at = "stop" /\ c \in kill'[e].of
      <4>1. CASE e = d
        <5>1. c \in kill[d].of  BY <2>1, <2>2, <3>1, <3>2, <4>1 DEF Command
        <5> QED  BY <2>1, <3>2, <5>1
      <4>2. CASE e # d
        <5>1. kill'[e] = kill[e]  BY <2>1, <4>2
        <5> QED  BY <3>1, <3>2, <5>1 DEF Command
      <4> QED  BY <4>1, <4>2
    <3> QED  BY <2>1, <3>1, <3>2 DEF Command, At, Alive
  <2> QED  BY <2>1, <2>3, <2>4 DEF CommandInv
<1>6. CASE LocalRemove(d)
  <2> DEFINE b == kill[d].box
  <2>1. /\ kill[d].at = "remove" /\ kind = "local"
        /\ kill' = [kill EXCEPT ![d] = NoKill]
        /\ UNCHANGED <<call, cmd, late>>
        /\ faults' = faults \/ Fault
        /\ box' = box \/ box' = [box EXCEPT ![b].state = "gone"]
    BY <1>6 DEF LocalRemove, KillInv
  <2>2. kill' \in [Destroyers -> KillRecord] /\ KillInv'  BY <1>2, <1>3, <2>1
  <2>3. faults' \in 0 .. MaxFaults  BY <2>1 DEF Fault
  <2>4. b \in Boxes /\ "gone" \in States  BY <2>1 DEF KillInv, KillRecord, States
  <2>5. \A a \in Boxes : /\ box'[a].listed = box[a].listed
                         /\ a # b => box'[a].state = box[a].state
    BY <2>1, <2>4, StateBox DEF OnlyBox
  <2>6. ASSUME NEW c \in Callers PROVE Command(c)'
    <3>1. Command(c)  BY <1>1
    <3>2. call[c].at \in Using => call[c].box \in Boxes /\ box'[call[c].box].state # "none"
      BY <3>1 DEF Command, AllMove, BoxMoves
    <3>3. Alive(c) /\ c \notin late => call[c].box # b
      BY <2>1, <3>1 DEF Command
    <3>4. ASSUME Alive(c), c \notin late, NEW e \in Destroyers, kill'[e].box = call[c].box
          PROVE  kill'[e].at = "stop" /\ c \in kill'[e].of
      <4>1. CASE e = d
        <5>1. kill'[e].box = None  BY <1>3, <2>1, <4>1
        <5>2. call[c].box \in Boxes  BY <3>1, <3>4 DEF Command, At, Using
        <5> QED  BY <3>4, <5>1, <5>2
      <4>2. CASE e # d
        <5>1. kill'[e] = kill[e]  BY <2>1, <4>2
        <5> QED  BY <2>1, <3>1, <3>4, <5>1 DEF Command
      <4> QED  BY <4>1, <4>2
    <3> QED  BY <2>1, <2>5, <3>1, <3>2, <3>3, <3>4 DEF Command, At, Alive, Using
  <2> QED  BY <2>1, <2>2, <2>3, <2>6 DEF CommandInv
<1>7. ASSUME kind = "daytona", UNCHANGED <<call, cmd, late>> PROVE CommandInv'
  <2>1. ASSUME NEW c \in Callers PROVE Command(c)'
    <3>1. Command(c)  BY <1>1
    <3> QED  BY <1>7, <3>1 DEF Command, At, Alive, AllMove, BoxMoves
  <2> QED  BY <2>1 DEF CommandInv
<1>8. CASE \E b \in Boxes : DaytonaDelete(d, b)
  <2>1. PICK b \in Boxes : DaytonaDelete(d, b)  BY <1>8
  <2> DEFINE t == [at |-> "delete", box |-> b, of |-> {}]
  <2>2. /\ kill' = [kill EXCEPT ![d] = t] /\ t \in KillRecord
        /\ t.at = "delete" /\ t.box = b
        /\ kind = "daytona" /\ b \in Listed /\ UNCHANGED <<call, cmd, late, faults>>
    BY <2>1 DEF DaytonaDelete, KillRecord
  <2> HIDE DEF t
  <2>3. kill' \in [Destroyers -> KillRecord] /\ KillInv'
    BY <1>2, <2>2 DEF Listed
  <2> QED  BY <1>7, <2>2, <2>3
<1>9. CASE DaytonaDeleted(d)
  <2>1. /\ kind = "daytona" /\ kill' = [kill EXCEPT ![d] = NoKill]
        /\ UNCHANGED <<call, cmd, late>>
        /\ faults' = faults \/ Fault
    BY <1>9 DEF DaytonaDeleted, KillInv
  <2>2. kill' \in [Destroyers -> KillRecord] /\ KillInv'  BY <1>2, <1>3, <2>1
  <2>3. faults' \in 0 .. MaxFaults  BY <2>1 DEF Fault
  <2> QED  BY <1>7, <2>1, <2>2, <2>3
<1> QED  BY <1>4, <1>5, <1>6, <1>7, <1>8, <1>9 DEF Destroy

\* The steps of a sandbox by itself: inspect, the double, the machines.
LEMMA SandboxStep ==
  ASSUME TypeOK, Inv, Next, NEW b \in Boxes,
         Inspect(b) \/ FakeDestroy(b) \/ MachineMoves(b)
  PROVE  /\ call' = call /\ late' = late /\ kill' = kill
         /\ cmd' \in [Callers -> {"none", "running", "terminated", "over"}]
         /\ faults' \in 0 .. MaxFaults /\ CommandInv'
<1>0. /\ cmd \in [Callers -> {"none", "running", "terminated", "over"}]
      /\ faults \in 0 .. MaxFaults /\ MaxFaults \in Nat
      /\ AllMove /\ kind' = kind
  BY BoxStep, ProviderAssumption DEF TypeOK
<1>1. /\ call' = call /\ late' = late /\ kill' = kill
      /\ faults' = faults \/ Fault
      /\ cmd' = cmd \/ Settle(CommandsOf(b))
  BY DEF Inspect, FakeDestroy, MachineMoves
<1>2. faults' \in 0 .. MaxFaults  BY <1>0, <1>1 DEF Fault
<1>3. cmd' \in [Callers -> {"none", "running", "terminated", "over"}]
  BY <1>0, <1>1 DEF Settle
<1>4. \A c \in Callers : Alive(c)' => Alive(c)
  BY <1>0, <1>1 DEF Settle, Alive
<1>5. kind = "local" => box' = box  BY DEF Inspect, FakeDestroy, MachineMoves
<1>6. ASSUME NEW c \in Callers PROVE Command(c)'
  <2>1. Command(c)  BY DEF Inv, CommandInv
  <2>2. LocalStays  BY <1>5 DEF LocalStays
  <2> QED  BY <1>0, <1>1, <1>4, <2>1, <2>2, CommandKeeps DEF Command, At
<1> QED  BY <1>1, <1>2, <1>3, <1>6 DEF CommandInv

\* A restart forgets all calls.
LEMMA RestartStep ==
  ASSUME TypeOK, Restart
  PROVE  /\ call' \in [Callers -> CallRecord] /\ kill' \in [Destroyers -> KillRecord]
         /\ late' \subseteq Callers
         /\ cmd' \in [Callers -> {"none", "running", "terminated", "over"}]
         /\ faults' \in 0 .. MaxFaults /\ CommandInv' /\ KillInv' /\ MadeInv'
<1>1. /\ call' = [c \in Callers |-> NoCall] /\ kill' = [d \in Destroyers |-> NoKill]
      /\ cmd' = [c \in Callers |-> "none"] /\ late' = {}
  BY DEF Restart
<1>2. /\ NoCall \in CallRecord /\ NoCall.at = "idle" /\ NoCall.made = None
      /\ NoKill \in KillRecord /\ NoKill.at = "idle" /\ NoKill.box = None
  BY DEF NoCall, NoKill, CallRecord, KillRecord
<1>3. faults' \in 0 .. MaxFaults  BY ProviderAssumption DEF Restart, Fault, TypeOK
<1>4. ASSUME NEW c \in Callers PROVE Command(c)' /\ Made(c)'
  <2>1. call'[c].at = "idle" /\ call'[c].made = None /\ cmd'[c] = "none"  BY <1>1, <1>2
  <2> QED  BY <2>1 DEF Command, Made, At, Alive, Using
<1>5. \A d \in Destroyers : kill'[d].at = "idle" /\ kill'[d].box = None  BY <1>1, <1>2
<1>6. KillInv'  BY <1>5 DEF KillInv
<1> QED  BY <1>1, <1>2, <1>3, <1>4, <1>6 DEF CommandInv, MadeInv

\* A caller's step leaves the others alone.
LEMMA OthersStep ==
  ASSUME TypeOK, Inv, Next, NEW c \in Callers, Request(c) \/ Create(c) \/ Use(c)
  PROVE  CommandInv' /\ MadeInv'
<1>0. /\ OnlyCall(c) /\ kill' = kill /\ AllMove /\ kind' = kind /\ LocalStays
      /\ \A e \in Callers \ {c} : cmd'[e] = cmd[e] /\ (e \in late' <=> e \in late)
  BY CallerStep, CallerStays, BoxStep
<1>1. Command(c)' /\ Made(c)'  BY CommandStep, MadeStep
<1>2. ASSUME NEW e \in Callers, e # c PROVE Command(e)' /\ Made(e)'
  <2>1. Command(e) /\ Made(e)  BY DEF Inv, CommandInv, MadeInv
  <2>2. call'[e] = call[e] /\ cmd'[e] = cmd[e] /\ (e \in late' <=> e \in late)
    BY <1>0, <1>2 DEF OnlyCall
  <2>3. Alive(e)' => Alive(e) /\ call'[e].at = "run" /\ (e \in late => e \in late')
    BY <2>1, <2>2 DEF Alive, Command, At
  <2>4. Command(e)'  BY <1>0, <2>1, <2>2, <2>3, CommandKeeps
  <2>5. Made(e)'  BY <2>1, <2>2 DEF Made, At
  <2> QED  BY <2>4, <2>5
<1>3. \A e \in Callers : Command(e)' /\ Made(e)'  BY <1>1, <1>2
<1> QED  BY <1>3 DEF CommandInv, MadeInv

\* What the destroyers remember still holds of sandboxes that moved.
LEMMA KillKeeps ==
  ASSUME TypeOK, KillInv, AllMove, kill' = kill, kind' = kind
  PROVE  KillInv'
<1>1. kill \in [Destroyers -> KillRecord]  BY Types
<1>2. ASSUME NEW d \in Destroyers, kill[d].at # "idle"
      PROVE  box'[kill[d].box].state # "none"
  <2>1. kill[d].box \in Boxes  BY <1>1, <1>2 DEF KillInv, KillRecord
  <2> QED  BY <1>2, <2>1 DEF KillInv, AllMove, BoxMoves
<1> QED  BY <1>2 DEF KillInv

-----------------------------------------------------------------------------
(* The invariant.                                                          *)

LEMMA InitInv == Init => TypeOK /\ Inv
<1> SUFFICES ASSUME Init PROVE TypeOK /\ Inv  OBVIOUS
<1>1. /\ NoBox \in BoxRecord /\ NoCall \in CallRecord /\ NoKill \in KillRecord
      /\ NoBox.state = "none" /\ NoCall.at = "idle" /\ NoCall.made = None
      /\ NoKill.at = "idle" /\ NoKill.box = None
  BY DEF NoBox, NoCall, NoKill, BoxRecord, CallRecord, KillRecord, States
<1>2. TypeOK
  BY <1>1, ProviderAssumption DEF Init, TypeOK, BoxRecord, CallRecord, KillRecord
<1>3. BoxInv /\ ReportInv /\ ReuseInv
  BY <1>1 DEF Init, BoxInv, ReportInv, ReuseInv
<1>4. MadeInv /\ CommandInv
  BY <1>1 DEF Init, MadeInv, Made, CommandInv, Command, At, Alive, Using
<1>5. KillInv  BY <1>1 DEF Init, KillInv
<1> QED  BY <1>2, <1>3, <1>4, <1>5 DEF Inv

LEMMA NextInv == TypeOK /\ Inv /\ [Next]_vars => (TypeOK /\ Inv)'
<1> SUFFICES ASSUME TypeOK, Inv, [Next]_vars PROVE (TypeOK /\ Inv)'  OBVIOUS
<1>1. CASE UNCHANGED vars
  BY <1>1 DEF vars, TypeOK, Inv, BoxInv, ReportInv, ReuseInv, MadeInv, Made, CommandInv,
             Command, KillInv, Listed, At, Alive
<1>2. CASE Next
  <2>0. /\ AllMove /\ kind' = kind /\ KillInv /\ MadeInv
        /\ call \in [Callers -> CallRecord] /\ kill \in [Destroyers -> KillRecord]
        /\ late \subseteq Callers
    BY <1>2, BoxStep, Types DEF Inv, TypeOK
  <2>1. BoxInv' /\ ReportInv' /\ ReuseInv' /\ reported' \subseteq Boxes
        /\ reused' \in [Keys -> Boxes \cup {None}]
    BY <1>2, <2>0, BoxInvStep, ReportInvStep, ReuseInvStep DEF Inv
  <2>2. /\ call' \in [Callers -> CallRecord] /\ kill' \in [Destroyers -> KillRecord]
        /\ late' \subseteq Callers
        /\ cmd' \in [Callers -> {"none", "running", "terminated", "over"}]
        /\ faults' \in 0 .. MaxFaults /\ CommandInv' /\ KillInv' /\ MadeInv'
    <3>1. CASE \E c \in Callers : Request(c) \/ Create(c) \/ Use(c)
      <4>1. PICK c \in Callers : Request(c) \/ Create(c) \/ Use(c)  BY <3>1
      <4>2. CommandInv' /\ MadeInv'  BY <1>2, <4>1, OthersStep
      <4>3. KillInv'  BY <2>0, <4>1, CallerStep, KillKeeps
      <4> QED  BY <2>0, <4>1, <4>2, <4>3, CallerStep DEF OnlyCall
    <3>2. CASE \E d \in Destroyers : Destroy(d)
      <4>1. PICK d \in Destroyers : Destroy(d)  BY <3>2
      <4>2. call' = call  BY <1>2, <4>1, DestroyerStep
      <4>3. MadeInv'  BY <2>0, <4>2 DEF MadeInv, Made, At
      <4> QED  BY <1>2, <2>0, <4>1, <4>3, DestroyerStep
    <3>3. CASE \E b \in Boxes : Inspect(b) \/ FakeDestroy(b) \/ MachineMoves(b)
      <4>1. PICK b \in Boxes : Inspect(b) \/ FakeDestroy(b) \/ MachineMoves(b)  BY <3>3
      <4>2. call' = call /\ late' = late /\ kill' = kill  BY <1>2, <4>1, SandboxStep
      <4>3. MadeInv'  BY <2>0, <4>2 DEF MadeInv, Made, At
      <4>4. KillInv'  BY <2>0, <4>2, KillKeeps
      <4> QED  BY <1>2, <2>0, <4>1, <4>2, <4>3, <4>4, SandboxStep
    <3>4. CASE Restart  BY <3>4, RestartStep
    <3> QED  BY <1>2, <3>1, <3>2, <3>3, <3>4 DEF Next
  <2>3. TypeOK'
    BY <2>0, <2>1, <2>2 DEF TypeOK, AllMove, BoxRecord, CallRecord, KillRecord
  <2> QED  BY <2>1, <2>2, <2>3 DEF Inv
<1> QED  BY <1>1, <1>2

-----------------------------------------------------------------------------
(* What the providers promise.                                             *)

\* Every record stays within its type, and with it what the providers know of
\* sandboxes, calls, commands and destroyers: sandboxes are numbered as they
\* are made, and a command runs in a sandbox its provider knows.
THEOREM Consistent == Spec => [](TypeOK /\ Inv)
<1>1. TypeOK /\ Inv /\ [Next]_vars => (TypeOK /\ Inv)'  BY NextInv
<1> QED  BY InitInv, <1>1, PTL DEF Spec

\* inspect and destroy tell the truth: a sandbox they reported missing or
\* destroyed is gone, except one a restarted local provider has forgotten.
THEOREM ReportsAreTrue == Spec => []ReportedIsGone
<1>1. TypeOK /\ Inv => ReportedIsGone
  BY DEF TypeOK, Inv, BoxInv, ReportInv, ReportedIsGone
<1> QED  BY <1>1, Consistent, PTL

\* A create that answers not-created has made nothing, whatever request failed
\* before or after it, unless it was the set-up of /workspace.
THEOREM RejectionsAreTrue == Spec => []NotCreatedIsTrue
<1>1. TypeOK /\ Inv => NotCreatedIsTrue
  BY DEF Inv, MadeInv, Made, NotCreatedIsTrue
<1> QED  BY <1>1, Consistent, PTL

\* stopAll, the wait for the processes and rm: when the local destroy reports
\* the sandbox, no command is alive that it could have seen.
THEOREM CommandsAreStopped == Spec => []NoCommandOutlivesDestroy
<1>1. TypeOK /\ Inv => NoCommandOutlivesDestroy
  <2> SUFFICES ASSUME TypeOK, Inv, NEW c \in Callers, kind = "local",
                      call[c].box \in reported, Alive(c), c \notin late
               PROVE  FALSE
    BY DEF NoCommandOutlivesDestroy
  <2>1. Command(c)  BY DEF Inv, CommandInv
  <2>2. box[call[c].box].listed /\ box[call[c].box].state # "gone"
    BY <2>1 DEF Command, At, Using
  <2> QED  BY <2>2 DEF Inv, ReportInv
<1> QED  BY <1>1, Consistent, PTL

\* The lookup every create begins with returns the first sandbox of the key, so
\* that creates agree on one while it lives, though overlapping creates of a
\* local provider may have made two.
THEOREM CreatesAgree == Spec => ReuseAgrees
<1>1. TypeOK /\ Inv /\ [Next]_vars
        => [\A k \in Keys : reused[k] # None /\ reused'[k] # reused[k]
                            => reused[k] \notin Listed]_vars
  <2> SUFFICES ASSUME TypeOK, Inv, Next, NEW k \in Keys, reused[k] # None,
                      reused'[k] # reused[k], reused[k] \in Listed
               PROVE  FALSE
    BY DEF vars
  <2>1. reused \in [Keys -> Boxes \cup {None}] /\ Boxes \subseteq Nat
        /\ KeyOf \in [Callers -> Keys]
    BY ProviderAssumption DEF TypeOK, Boxes
  <2>2. HasBox(k) /\ reused'[k] = Found(k)
    <3>1. PICK c \in Callers : /\ HasBox(KeyOf[c])
                               /\ reused' = [reused EXCEPT ![KeyOf[c]] = Found(KeyOf[c])]
      BY NewReuse
    <3>2. KeyOf[c] = k  BY <2>1, <3>1
    <3> QED  BY <2>1, <3>1, <3>2
  <2>3. /\ Found(k) \in Listed /\ box[Found(k)].key = k
        /\ \A b \in Listed : box[b].key = k => Found(k) <= b
    BY <2>2, FoundFirst
  <2>4. /\ box[reused[k]].key = k
        /\ \A b \in Listed : box[b].key = k => reused[k] <= b
    BY DEF Inv, ReuseInv
  <2>5. Found(k) <= reused[k] /\ reused[k] <= Found(k)
    BY <2>3, <2>4
  <2>6. Found(k) \in Nat /\ reused[k] \in Nat
    BY <2>1, <2>3 DEF Listed
  <2> QED  BY <2>2, <2>5, <2>6
<1> QED  BY <1>1, Consistent, PTL DEF Spec, ReuseAgrees

-----------------------------------------------------------------------------
(***************************************************************************)
(* The sum Cpu is a fold. As the provers have no induction over sets, each *)
(* lemma takes a counterexample of least size.                             *)
(***************************************************************************)

\* A set of numbers has a least element.
LEMMA LeastOf ==
  ASSUME NEW S \in SUBSET Nat, S # {}
  PROVE  \E n \in S : \A m \in S : n <= m
<1> DEFINE R == OpToRel(<, Nat)
<1>1. IsWellFoundedOn(R, Nat)
  BY NatLessThanWellFounded, Zenon
<1>2. \A x, y \in Nat : <<y, x>> \in R <=> y < x
  BY DEF OpToRel
<1> HIDE DEF R
<1>3. PICK x \in S : \A y \in S : ~ (<<y, x>> \in R)
  BY <1>1, WFMin
<1>4. ASSUME NEW y \in S PROVE x <= y
  <2>1. x \in Nat /\ y \in Nat /\ ~ (y < x)
    BY <1>2, <1>3
  <2> QED BY <2>1
<1> QED BY <1>4

\* The element a fold takes next.
TakenNext(s) == CHOOSE x \in s : TRUE
Summed(s, g) == IF s = {} THEN 0 ELSE CpuOf[TakenNext(s)] + g[s \ {TakenNext(s)}]

LEMMA CpuIs ==
  ASSUME NEW S
  PROVE  Cpu(S) = (CHOOSE g : g = [s \in SUBSET S |-> Summed(s, g)])[S]
BY DEF Cpu, FoldFunctionOnSet, MapThenFoldSet, Summed, TakenNext

\* A function that sums over every set of leases.
Sums(g, n) ==
  LET D == {s \in SUBSET LeaseKeys : Cardinality(s) <= n}
  IN  g \in [D -> Nat] /\ \A s \in D : g[s] = Summed(s, g)

LEMMA SmallerSets ==
  ASSUME NEW s \in SUBSET LeaseKeys
  PROVE  /\ IsFiniteSet(s) /\ Cardinality(s) \in Nat
         /\ s = {} <=> Cardinality(s) = 0
         /\ s # {} => TakenNext(s) \in s
         /\ \A x \in s : s \ {x} \in SUBSET LeaseKeys /\ Cardinality(s \ {x}) = Cardinality(s) - 1
<1>1. IsFiniteSet(s)
  BY QuotaAssumption, FS_Subset
<1>2. s # {} => TakenNext(s) \in s
  BY DEF TakenNext
<1>3. \A x \in s : Cardinality(s \ {x}) = Cardinality(s) - 1
  BY <1>1, FS_RemoveElement
<1> QED BY <1>1, <1>2, <1>3, FS_CardinalityType, FS_EmptySet

LEMMA SumsStart == \E g : Sums(g, 0)
<1> DEFINE D == {s \in SUBSET LeaseKeys : Cardinality(s) <= 0}
<1> DEFINE g == [s \in D |-> 0]
<1>1. \A s \in D : s = {}
  BY SmallerSets
<1>2. g \in [D -> Nat] /\ \A s \in D : g[s] = Summed(s, g)
  BY <1>1 DEF Summed
<1>3. Sums(g, 0)
  BY <1>2 DEF Sums
<1> QED BY <1>3

LEMMA SumsGrow ==
  ASSUME NEW n \in Nat, NEW h, Sums(h, n)
  PROVE  \E g : Sums(g, n + 1)
<1> DEFINE D(m) == {s \in SUBSET LeaseKeys : Cardinality(s) <= m}
<1> DEFINE g == [s \in D(n + 1) |-> Summed(s, h)]
<1>1. h \in [D(n) -> Nat] /\ \A s \in D(n) : h[s] = Summed(s, h)
  BY DEF Sums
<1>2. ASSUME NEW s \in D(n + 1), s # {}
      PROVE  TakenNext(s) \in LeaseKeys /\ s \ {TakenNext(s)} \in D(n)
  <2>1. TakenNext(s) \in s /\ Cardinality(s) \in Nat /\ Cardinality(s) <= n + 1
    BY <1>2, SmallerSets
  <2>2. s \ {TakenNext(s)} \in SUBSET LeaseKeys /\ Cardinality(s \ {TakenNext(s)}) = Cardinality(s) - 1
    BY <2>1, SmallerSets
  <2>3. Cardinality(s) - 1 <= n
    BY <2>1
  <2> QED BY <2>1, <2>2, <2>3
<1>3. \A s \in D(n) : s \in D(n + 1)
  BY SmallerSets
<1>4. \A s \in D(n) : g[s] = h[s]
  BY <1>1, <1>3
<1>5. ASSUME NEW s \in D(n + 1) PROVE Summed(s, h) \in Nat /\ Summed(s, h) = Summed(s, g)
  <2>1. CASE s = {}
    BY <2>1 DEF Summed
  <2>2. CASE s # {}
    <3>1. g[s \ {TakenNext(s)}] = h[s \ {TakenNext(s)}] /\ h[s \ {TakenNext(s)}] \in Nat
      BY <1>1, <1>2, <1>4, <2>2
    <3>2. CpuOf[TakenNext(s)] \in Nat
      BY <1>2, <2>2, QuotaAssumption
    <3> QED BY <2>2, <3>1, <3>2 DEF Summed
  <2> QED BY <2>1, <2>2
<1>6. g \in [D(n + 1) -> Nat] /\ \A s \in D(n + 1) : g[s] = Summed(s, g)
  BY <1>5
<1>7. Sums(g, n + 1)
  BY <1>6 DEF Sums
<1> QED BY <1>7

LEMMA SumsExist == \A n \in Nat : \E g : Sums(g, n)
<1> DEFINE T == {n \in Nat : ~ \E g : Sums(g, n)}
<1>1. ASSUME T # {} PROVE FALSE
  <2>1. PICK n \in T : \A m \in T : n <= m
    BY <1>1, LeastOf
  <2>2. n # 0
    BY <2>1, SumsStart
  <2>3. n - 1 \in Nat /\ n - 1 < n /\ (n - 1) + 1 = n
    BY <2>1, <2>2
  <2>4. n - 1 \notin T
    BY <2>1, <2>3
  <2>5. PICK h : Sums(h, n - 1)
    BY <2>3, <2>4
  <2>6. \E g : Sums(g, (n - 1) + 1)
    BY <2>3, <2>5, SumsGrow
  <2> QED BY <2>1, <2>3, <2>6
<1> QED BY <1>1

\* The sum of every set of leases, whatever set the fold started from.
SumOfSets(g) ==
  /\ g \in [SUBSET LeaseKeys -> Nat]
  /\ \A s \in SUBSET LeaseKeys : g[s] = Summed(s, g)

LEMMA SumExists == \E g : SumOfSets(g)
<1>1. IsFiniteSet(LeaseKeys) /\ Cardinality(LeaseKeys) \in Nat
  BY QuotaAssumption, FS_CardinalityType
<1>2. PICK g : Sums(g, Cardinality(LeaseKeys))
  BY <1>1, SumsExist
<1>3. \A s \in SUBSET LeaseKeys : Cardinality(s) <= Cardinality(LeaseKeys)
  BY <1>1, FS_Subset
<1>4. {s \in SUBSET LeaseKeys : Cardinality(s) <= Cardinality(LeaseKeys)} = SUBSET LeaseKeys
  BY <1>3
<1> QED BY <1>2, <1>4 DEF Sums, SumOfSets

\* The fold over a set of leases agrees with that sum.
LEMMA CpuSums ==
  ASSUME NEW g, SumOfSets(g), NEW S \in SUBSET LeaseKeys
  PROVE  Cpu(S) = g[S]
<1> DEFINE G == [s \in SUBSET S |-> g[s]]
<1> DEFINE iter == CHOOSE h : h = [s \in SUBSET S |-> Summed(s, h)]
<1>1. G = [s \in SUBSET S |-> Summed(s, G)]
  <2>1. ASSUME NEW s \in SUBSET S PROVE Summed(s, G) = g[s]
    <3>1. s \in SUBSET LeaseKeys /\ g[s] = Summed(s, g) /\ s \ {TakenNext(s)} \in SUBSET S
      BY DEF SumOfSets
    <3>2. G[s \ {TakenNext(s)}] = g[s \ {TakenNext(s)}]
      BY <3>1
    <3> HIDE DEF G
    <3> QED BY <3>1, <3>2 DEF Summed
  <2> QED BY <2>1
<1> HIDE DEF G
<1>2. iter = [s \in SUBSET S |-> Summed(s, iter)]
  <2>1. \E h : h = [s \in SUBSET S |-> Summed(s, h)]
    BY <1>1
  <2> QED BY <2>1
<1> HIDE DEF iter
<1> DEFINE T == {n \in Nat : \E s \in SUBSET S : Cardinality(s) = n /\ iter[s] # g[s]}
<1>3. ASSUME T # {} PROVE FALSE
  <2>1. PICK n \in T : \A m \in T : n <= m
    BY <1>3, LeastOf
  <2>2. PICK s \in SUBSET S : Cardinality(s) = n /\ iter[s] # g[s]
    BY <2>1
  <2>3. iter[s] = Summed(s, iter) /\ g[s] = Summed(s, g) /\ s \in SUBSET LeaseKeys
    BY <1>2 DEF SumOfSets
  <2>4. s # {}
    BY <2>2, <2>3 DEF Summed
  <2> DEFINE t == s \ {TakenNext(s)}
  <2>5. iter[t] # g[t]
    BY <2>2, <2>3, <2>4 DEF Summed
  <2>6. TakenNext(s) \in s /\ Cardinality(t) = n - 1 /\ n \in Nat /\ n # 0
    BY <2>1, <2>2, <2>3, <2>4, SmallerSets
  <2>7. t \in SUBSET S /\ n - 1 \in Nat
    BY <2>6
  <2>8. n - 1 \in T
    BY <2>5, <2>6, <2>7
  <2> QED BY <2>1, <2>6, <2>8
<1>4. iter[S] = g[S]
  <2>1. S \in SUBSET S /\ Cardinality(S) \in Nat
    BY SmallerSets
  <2> QED BY <1>3, <2>1
<1>5. Cpu(S) = iter[S]
  BY CpuIs DEF iter
<1> QED BY <1>4, <1>5

\* It may be taken apart at any element.
LEMMA SumSplits ==
  ASSUME NEW g, SumOfSets(g)
  PROVE  \A s \in SUBSET LeaseKeys : \A x \in s : g[s] = CpuOf[x] + g[s \ {x}]
<1> DEFINE Bad(s) == \E x \in s : g[s] # CpuOf[x] + g[s \ {x}]
<1> DEFINE T == {n \in Nat : \E s \in SUBSET LeaseKeys : Cardinality(s) = n /\ Bad(s)}
<1>1. ASSUME T # {} PROVE FALSE
  <2>1. PICK n \in T : \A m \in T : n <= m
    BY <1>1, LeastOf
  <2>2. PICK s \in SUBSET LeaseKeys : Cardinality(s) = n /\ Bad(s)
    BY <2>1
  <2>3. PICK x \in s : g[s] # CpuOf[x] + g[s \ {x}]
    BY <2>2
  <2> DEFINE c == TakenNext(s)
  <2>4. c \in s /\ g[s] = CpuOf[c] + g[s \ {c}]
    BY <2>3, SmallerSets DEF SumOfSets, Summed
  <2>5. c # x
    BY <2>3, <2>4
  <2>6. \A z \in s : s \ {z} \in SUBSET LeaseKeys /\ Cardinality(s \ {z}) = n - 1
    BY <2>2, SmallerSets
  <2>7. n \in Nat /\ n # 0
    BY <2>1, <2>2, <2>3, SmallerSets
  <2>8. n - 1 \in Nat /\ n - 1 \notin T
    <3>1. n - 1 \in Nat /\ ~ (n <= n - 1)
      BY <2>7
    <3> HIDE DEF T
    <3> QED BY <2>1, <3>1
  <2>9. \A z \in s : ~ Bad(s \ {z})
    BY <2>6, <2>8
  <2> HIDE DEF T, c
  <2>10. g[s \ {c}] = CpuOf[x] + g[(s \ {c}) \ {x}]
    BY <2>3, <2>4, <2>5, <2>9
  <2>11. g[s \ {x}] = CpuOf[c] + g[(s \ {x}) \ {c}]
    BY <2>3, <2>4, <2>5, <2>9
  <2>12. (s \ {c}) \ {x} = (s \ {x}) \ {c}
    OBVIOUS
  <2>13. CpuOf[c] \in Nat /\ CpuOf[x] \in Nat /\ g[(s \ {x}) \ {c}] \in Nat
    BY <2>2, <2>3, <2>4, QuotaAssumption DEF SumOfSets
  <2>14. g[s] = CpuOf[c] + (CpuOf[x] + g[(s \ {x}) \ {c}])
    BY <2>4, <2>10, <2>12
  <2>15. g[s] # CpuOf[x] + (CpuOf[c] + g[(s \ {x}) \ {c}])
    BY <2>3, <2>11
  <2> QED BY <2>13, <2>14, <2>15
<1>2. ASSUME NEW s \in SUBSET LeaseKeys PROVE ~ Bad(s)
  BY <1>1, SmallerSets
<1> QED BY <1>2

\* More leases have no fewer CPUs.
LEMMA CpuMonotone ==
  ASSUME NEW S \in SUBSET LeaseKeys, NEW U \in SUBSET S
  PROVE  Cpu(U) \in Nat /\ Cpu(S) \in Nat /\ Cpu(U) <= Cpu(S)
<1>1. PICK g : SumOfSets(g)
  BY SumExists
<1> DEFINE T == {n \in Nat : \E s \in SUBSET LeaseKeys :
                               Cardinality(s) = n /\ \E u \in SUBSET s : ~ (g[u] <= g[s])}
<1>2. ASSUME T # {} PROVE FALSE
  <2>1. PICK n \in T : \A m \in T : n <= m
    BY <1>2, LeastOf
  <2>2. PICK s \in SUBSET LeaseKeys : Cardinality(s) = n /\ \E u \in SUBSET s : ~ (g[u] <= g[s])
    BY <2>1
  <2>3. PICK u \in SUBSET s : ~ (g[u] <= g[s])
    BY <2>2
  <2>4. g[u] \in Nat /\ g[s] \in Nat
    BY <1>1 DEF SumOfSets
  <2>5. u # s
    BY <2>3, <2>4
  <2>6. PICK x \in s : x \notin u
    BY <2>5
  <2>7. s \ {x} \in SUBSET LeaseKeys /\ Cardinality(s \ {x}) = n - 1 /\ n \in Nat /\ n # 0
    BY <2>1, <2>2, <2>6, SmallerSets
  <2>8. n - 1 \in Nat /\ n - 1 \notin T
    <3>1. n - 1 \in Nat /\ ~ (n <= n - 1)
      BY <2>7
    <3> HIDE DEF T
    <3> QED BY <2>1, <3>1
  <2>9. g[u] <= g[s \ {x}]
    BY <2>6, <2>7, <2>8
  <2>10. g[s] = CpuOf[x] + g[s \ {x}]
    BY <1>1, <2>6, SumSplits
  <2>11. CpuOf[x] \in Nat /\ g[s \ {x}] \in Nat
    BY <1>1, <2>6, <2>7, QuotaAssumption DEF SumOfSets
  <2> QED BY <2>3, <2>4, <2>9, <2>10, <2>11
<1>3. S \in SUBSET LeaseKeys /\ Cardinality(S) \in Nat
  BY SmallerSets
<1>4. g[U] <= g[S]
  BY <1>2, <1>3
<1>5. Cpu(U) = g[U] /\ Cpu(S) = g[S]
  BY <1>1, CpuSums
<1> QED BY <1>1, <1>4, <1>5 DEF SumOfSets

-----------------------------------------------------------------------------
(***************************************************************************)
(* SandboxQuota: what was counted under the lock stays counted until the   *)
(* insertion.                                                              *)
(***************************************************************************)

\* Limits that hold of some leases hold of fewer.
LEMMA WithinFewer ==
  ASSUME NEW S \in SUBSET LeaseKeys, NEW U \in SUBSET S, NEW k \in LeaseKeys, Within(S, k)
  PROVE  Within(U, k)
<1>1. Cpu(U) <= MaxCpu
  BY CpuMonotone, QuotaAssumption DEF Within
<1>2. /\ IsFiniteSet(InWorkspace(S, k)) /\ InWorkspace(U, k) \subseteq InWorkspace(S, k)
      /\ IsFiniteSet(InProject(S, k)) /\ InProject(U, k) \subseteq InProject(S, k)
  <2>1. IsFiniteSet(S)
    BY SmallerSets
  <2>2. InWorkspace(S, k) \subseteq S /\ InProject(S, k) \subseteq S
    BY DEF InWorkspace, InProject
  <2> QED BY <2>1, <2>2, FS_Subset DEF InWorkspace, InProject
<1>3. /\ Cardinality(InWorkspace(U, k)) <= Cardinality(InWorkspace(S, k))
      /\ Cardinality(InProject(U, k)) <= Cardinality(InProject(S, k))
  BY <1>2, FS_Subset
<1>4. /\ Cardinality(InWorkspace(U, k)) \in Nat /\ Cardinality(InWorkspace(S, k)) \in Nat
      /\ Cardinality(InProject(U, k)) \in Nat /\ Cardinality(InProject(S, k)) \in Nat
  BY <1>2, FS_Subset, FS_CardinalityType
<1>5. ProjectLimit[PurposeOf[k]] \in Nat /\ WorkspaceLimit[PurposeOf[k]] \in Nat
  BY QuotaAssumption
<1> QED BY <1>1, <1>3, <1>4, <1>5 DEF Within

\* A call whose count still stands: it has the lock, or is about to insert.
Counted(r) == AtStep(r, "insert") \/ (AtStep(r, "assert") /\ lock = r)
Fits(r) == Within(Occupying \cup {LeaseKey[r]}, LeaseKey[r])

\* A call that inserts has the lock, and what it counted still fits.
QuotaInv ==
  ~lapsed => \A r \in Requests : /\ AtStep(r, "insert") => lock = r
                                 /\ Counted(r) => Fits(r)


\* Only the call r moves, and comes to step s.
OnlyRequest(r, s) ==
  /\ request' \in [Requests -> [at: ReserveSteps, out: Outcomes]]
  /\ request'[r].at = s
  /\ \A q \in Requests \ {r} : request'[q] = request[q]

LEMMA ToMoves ==
  ASSUME QuotaTypeOK, NEW r \in Requests, NEW s \in ReserveSteps, ToStep(r, s)
  PROVE  OnlyRequest(r, s)
<1>1. request \in [Requests -> [at: ReserveSteps, out: Outcomes]]
  BY DEF QuotaTypeOK
<1>2. request' = [request EXCEPT ![r] = [request[r] EXCEPT !.at = s]]
  BY <1>1 DEF ToStep
<1>3. [request[r] EXCEPT !.at = s] \in [at: ReserveSteps, out: Outcomes] /\ [request[r] EXCEPT !.at = s].at = s
  BY <1>1
<1> QED BY <1>1, <1>2, <1>3 DEF OnlyRequest

LEMMA OutMoves ==
  ASSUME QuotaTypeOK, NEW r \in Requests, NEW s \in ReserveSteps, NEW o \in Outcomes,
         request' = [request EXCEPT ![r] = [at |-> s, out |-> o]]
  PROVE  OnlyRequest(r, s)
BY DEF QuotaTypeOK, OnlyRequest

LEMMA LeaveMoves ==
  ASSUME QuotaTypeOK, NEW r \in Requests, NEW o \in Outcomes, Leave(r, o)
  PROVE  OnlyRequest(r, "release")
BY OutMoves DEF Leave, ReserveSteps

\* What a step of call r does to the lock, the leases and its own place.
RequestMoves(r) ==
  /\ QuotaTypeOK'
  /\ lapsed' = lapsed
  /\ \A q \in Requests \ {r} : request'[q] = request[q]
  /\ \/ lock' = lock
     \/ /\ lock \in {r, NoToken} /\ lock' \in {r, NoToken}
        /\ request'[r].at \notin {"assert", "insert"}
  /\ lease' = lease \/ (AtStep(r, "insert") /\ request'[r].at = "release")
  /\ request'[r].at = "assert" => AtStep(r, "assert") \/ Fits(r)
  /\ request'[r].at = "insert" => Counted(r)

LEMMA StandsStill ==
  ASSUME QuotaTypeOK, NEW r \in Requests,
         UNCHANGED <<request, lock, lease, lapsed>>,
         lost' \subseteq Requests, quotaFaults' \in 0 .. MaxQuotaFaults
  PROVE  RequestMoves(r)
BY DEF QuotaTypeOK, RequestMoves, AtStep, Counted

LEMMA MovesOn ==
  ASSUME QuotaTypeOK, NEW r \in Requests, NEW s, OnlyRequest(r, s),
         UNCHANGED <<lost, lease, lapsed>>, quotaFaults' \in 0 .. MaxQuotaFaults,
         \/ lock' = lock
         \/ lock \in {r, NoToken} /\ lock' \in {r, NoToken} /\ s \notin {"assert", "insert"},
         s = "assert" => Fits(r),
         s = "insert" => Counted(r)
  PROVE  RequestMoves(r)
<1>1. lock' \in Requests \cup {NoToken}
  BY DEF QuotaTypeOK
<1>2. QuotaTypeOK'
  BY <1>1 DEF QuotaTypeOK, OnlyRequest
<1> QED BY <1>2 DEF RequestMoves, OnlyRequest

LEMMA FaultCounted ==
  ASSUME QuotaTypeOK
  PROVE  /\ quotaFaults \in 0 .. MaxQuotaFaults
         /\ QuotaFault => quotaFaults' \in 0 .. MaxQuotaFaults
BY QuotaAssumption DEF QuotaTypeOK, QuotaFault

LEMMA ReserveMoves ==
  ASSUME QuotaTypeOK, NEW r \in Requests, Reserve(r)
  PROVE  RequestMoves(r)
<1> USE FaultCounted
<1>1. CASE Call(r)
  <2>1. OnlyRequest(r, "wait")
    BY <1>1, ToMoves DEF Call, ReserveSteps
  <2> QED BY <1>1, <2>1, MovesOn DEF Call
<1>2. CASE Acquire(r)
  <2>1. OnlyRequest(r, "scope")
    BY <1>2, ToMoves DEF Acquire, ReserveSteps
  <2> QED BY <1>2, <2>1, MovesOn DEF Acquire
<1>3. CASE WaitTimesOut(r)
  <2>1. OnlyRequest(r, "done")
    BY <1>3, OutMoves DEF WaitTimesOut, ReserveSteps, Outcomes
  <2> QED BY <1>3, <2>1, MovesOn DEF WaitTimesOut
<1>4. CASE CheckScope(r)
  <2>1. OnlyRequest(r, "existing") \/ OnlyRequest(r, "release")
    BY <1>4, ToMoves, LeaveMoves DEF CheckScope, ReserveSteps, Outcomes
  <2> QED BY <1>4, <2>1, MovesOn DEF CheckScope
<1>5. CASE FindExisting(r)
  <2>1. OnlyRequest(r, "busy") \/ OnlyRequest(r, "release")
    BY <1>5, ToMoves, LeaveMoves DEF FindExisting, ReserveSteps, Outcomes
  <2> QED BY <1>5, <2>1, MovesOn DEF FindExisting
<1>6. CASE CheckBranch(r)
  <2>1. OnlyRequest(r, "count") \/ OnlyRequest(r, "release")
    BY <1>6, ToMoves, LeaveMoves DEF CheckBranch, ReserveSteps, Outcomes
  <2> QED BY <1>6, <2>1, MovesOn DEF CheckBranch
<1>7. CASE Count(r)
  <2>1. (OnlyRequest(r, "assert") /\ Fits(r)) \/ OnlyRequest(r, "release")
    BY <1>7, ToMoves, LeaveMoves DEF Count, Fits, ReserveSteps, Outcomes
  <2> QED BY <1>7, <2>1, MovesOn DEF Count
<1>8. CASE AssertHeld(r)
  <2>1. (OnlyRequest(r, "insert") /\ Counted(r)) \/ OnlyRequest(r, "release")
    BY <1>8, ToMoves, LeaveMoves DEF AssertHeld, Counted, ReserveSteps, Outcomes
  <2> QED BY <1>8, <2>1, MovesOn DEF AssertHeld
<1>9. CASE CreateReserved(r)
  <2>1. /\ AtStep(r, "insert") /\ OnlyRequest(r, "release")
        /\ UNCHANGED <<lock, lost, lapsed, quotaFaults>>
        /\ lease' \in [LeaseKeys -> LeaseStates]
    BY <1>9, LeaveMoves DEF CreateReserved, QuotaTypeOK, Outcomes, LeaseStates
  <2> QED BY <2>1 DEF RequestMoves, QuotaTypeOK, OnlyRequest
<1>10. CASE Release(r)
  <2>1. OnlyRequest(r, "done")
    BY <1>10, ToMoves DEF Release, ReserveSteps
  <2> QED BY <1>10, <2>1, MovesOn DEF Release
<1> QED BY <1>1, <1>2, <1>3, <1>4, <1>5, <1>6, <1>7, <1>8, <1>9, <1>10 DEF Reserve

LEMMA FailureMoves ==
  ASSUME QuotaTypeOK, NEW r \in Requests, Renew(r) \/ RedisFails(r) \/ Die(r)
  PROVE  RequestMoves(r)
<1> USE FaultCounted
<1>1. CASE Renew(r)
  BY <1>1, StandsStill DEF Renew, QuotaTypeOK
<1>2. CASE AcquireFails(r)
  <2>1. OnlyRequest(r, "done")
    BY <1>2, OutMoves DEF AcquireFails, ReserveSteps, Outcomes
  <2> QED BY <1>2, <2>1, MovesOn DEF AcquireFails
<1>3. CASE RenewFails(r)
  BY <1>3, StandsStill DEF RenewFails, QuotaTypeOK
<1>4. CASE VerifyFails(r)
  <2>1. OnlyRequest(r, "release")
    BY <1>4, LeaveMoves DEF VerifyFails, Outcomes
  <2> QED BY <1>4, <2>1, MovesOn DEF VerifyFails
<1>5. CASE ReleaseFails(r)
  <2>1. OnlyRequest(r, "done")
    BY <1>5, ToMoves DEF ReleaseFails, ReserveSteps
  <2> QED BY <1>5, <2>1, MovesOn DEF ReleaseFails
<1>6. CASE Die(r)
  <2>1. OnlyRequest(r, "dead")
    BY <1>6, ToMoves DEF Die, ReserveSteps
  <2> QED BY <1>6, <2>1, MovesOn DEF Die
<1> QED BY <1>1, <1>2, <1>3, <1>4, <1>5, <1>6 DEF RedisFails

\* A lease step leaves the calls and the lock alone; only Reoccupy adds to what
\* occupies the quota.
LEMMA LeaseMoves ==
  ASSUME QuotaTypeOK, NEW k \in LeaseKeys, LeaseStep(k)
  PROVE  /\ QuotaTypeOK' /\ UNCHANGED <<request, lock>>
         /\ \/ lapsed' = lapsed /\ Occupying' \subseteq Occupying
            \/ lapsed' = (lapsed \/ \E r \in Requests : request[r].at \in {"assert", "insert"})
         /\ \A j \in LeaseKeys : ~ Inserts(j)
<1>1. CASE FailOrLose(k)
  BY <1>1 DEF FailOrLose, LeaseBecomes, QuotaTypeOK, LeaseStates, Occupying, OCCUPYING_SANDBOX_STATES, Inserts
<1>2. CASE StartTermination(k)
  BY <1>2 DEF StartTermination, LeaseBecomes, QuotaTypeOK, LeaseStates, Occupying, OCCUPYING_SANDBOX_STATES, Inserts
<1>3. CASE Reoccupy(k)
  BY <1>3 DEF Reoccupy, LeaseBecomes, QuotaTypeOK, LeaseStates, Inserts
<1>4. CASE Terminated(k)
  BY <1>4 DEF Terminated, LeaseBecomes, QuotaTypeOK, LeaseStates, Occupying, OCCUPYING_SANDBOX_STATES, Inserts
<1> QED BY <1>1, <1>2, <1>3, <1>4 DEF LeaseStep

LEMMA ExpireMoves ==
  ASSUME QuotaTypeOK, Expire
  PROVE  QuotaTypeOK'
BY FaultCounted DEF Expire, QuotaTypeOK

LEMMA OccupyingLeases == Occupying \subseteq LeaseKeys
BY DEF Occupying

LEMMA QuotaStart == QuotaInit => QuotaTypeOK /\ QuotaInv
<1> SUFFICES ASSUME QuotaInit PROVE QuotaTypeOK /\ QuotaInv
  OBVIOUS
<1>1. [at |-> "idle", out |-> "none"] \in [at: ReserveSteps, out: Outcomes]
  BY DEF ReserveSteps, Outcomes
<1>2. request \in [Requests -> [at: ReserveSteps, out: Outcomes]]
  BY <1>1 DEF QuotaInit
<1>3. QuotaTypeOK
  <2>1. lease \in [LeaseKeys -> LeaseStates] /\ lock \in Requests \cup {NoToken}
    BY DEF QuotaInit, LeaseStates
  <2>2. lost \subseteq Requests /\ lapsed \in BOOLEAN
    BY DEF QuotaInit
  <2>3. quotaFaults \in 0 .. MaxQuotaFaults
    BY QuotaAssumption DEF QuotaInit
  <2> QED BY <1>2, <2>1, <2>2, <2>3 DEF QuotaTypeOK
<1>4. \A r \in Requests : request[r].at = "idle"
  BY DEF QuotaInit
<1> QED BY <1>3, <1>4 DEF QuotaInv, Counted, AtStep

LEMMA RequestKeepsQuota ==
  ASSUME QuotaTypeOK, QuotaInv, NEW r \in Requests, RequestMoves(r)
  PROVE  QuotaInv'
<1> SUFFICES ASSUME ~lapsed, NEW q \in Requests
             PROVE  /\ AtStep(q, "insert")' => lock' = q
                    /\ Counted(q)' => Fits(q)'
  BY DEF QuotaInv, RequestMoves
<1>1. /\ \A p \in Requests : AtStep(p, "insert") => lock = p
      /\ \A p \in Requests : Counted(p) => Fits(p)
  BY DEF QuotaInv
<1>2. lease' = lease => (Fits(q) <=> Fits(q)')
  BY DEF Fits, Occupying
<1>3. NoToken \notin Requests
  BY QuotaAssumption
<1>4. CASE q # r
  <2>1. AtStep(q, "insert") <=> AtStep(q, "insert")'
    BY <1>4 DEF AtStep, RequestMoves
  <2>2. AtStep(q, "assert") <=> AtStep(q, "assert")'
    BY <1>4 DEF AtStep, RequestMoves
  <2>3. lock = q <=> lock' = q
    BY <1>3, <1>4 DEF RequestMoves
  <2>4. Counted(q)' => Counted(q) /\ lock = q
    BY <1>1, <2>1, <2>2, <2>3 DEF Counted
  <2>5. lock = q => lease' = lease
    BY <1>1, <1>4 DEF RequestMoves
  <2> QED BY <1>1, <1>2, <2>1, <2>3, <2>4, <2>5
<1>5. CASE q = r
  <2>1. AtStep(q, "insert")' => Counted(q) /\ lock = q /\ lock' = q /\ lease' = lease
    BY <1>1, <1>5 DEF AtStep, Counted, RequestMoves
  <2>2. AtStep(q, "assert")' => lock' = lock /\ lease' = lease /\ (AtStep(q, "assert") \/ Fits(q))
    BY <1>5 DEF AtStep, RequestMoves
  <2>3. Counted(q)' => lease' = lease /\ Fits(q)
    BY <1>1, <2>1, <2>2 DEF Counted
  <2> QED BY <1>2, <2>1, <2>3
<1> QED BY <1>4, <1>5

LEMMA LeaseKeepsQuota ==
  ASSUME QuotaTypeOK, QuotaInv, NEW k \in LeaseKeys, LeaseStep(k)
  PROVE  QuotaInv'
<1> SUFFICES ASSUME ~lapsed', NEW q \in Requests
             PROVE  /\ AtStep(q, "insert")' => lock' = q
                    /\ Counted(q)' => Fits(q)'
  BY DEF QuotaInv
<1>1. UNCHANGED <<request, lock>>
  BY LeaseMoves
<1>2. AtStep(q, "insert") <=> AtStep(q, "insert")'
  BY <1>1 DEF AtStep
<1>3. Counted(q) <=> Counted(q)'
  BY <1>1 DEF AtStep, Counted
<1>4. CASE lapsed' = lapsed /\ Occupying' \subseteq Occupying
  <2>1. /\ AtStep(q, "insert") => lock = q
        /\ Counted(q) => Fits(q)
    BY <1>4 DEF QuotaInv
  <2>2. Fits(q) => Fits(q)'
    <3>1. LeaseKey[q] \in LeaseKeys /\ Occupying \cup {LeaseKey[q]} \in SUBSET LeaseKeys
      BY OccupyingLeases, QuotaAssumption
    <3>2. Occupying' \cup {LeaseKey[q]} \in SUBSET (Occupying \cup {LeaseKey[q]})
      BY <1>4
    <3>3. Fits(q) => Within(Occupying' \cup {LeaseKey[q]}, LeaseKey[q])
      BY <3>1, <3>2, WithinFewer DEF Fits
    <3> QED BY <3>3 DEF Fits
  <2> QED BY <1>1, <1>2, <1>3, <2>1, <2>2
<1>5. CASE lapsed' = (lapsed \/ \E r \in Requests : request[r].at \in {"assert", "insert"})
  BY <1>2, <1>3, <1>5 DEF AtStep, Counted
<1> QED BY <1>4, <1>5, LeaseMoves

LEMMA ExpireKeepsQuota ==
  ASSUME QuotaTypeOK, QuotaInv, Expire
  PROVE  QuotaInv'
<1> SUFFICES ASSUME ~lapsed', NEW q \in Requests
             PROVE  ~ AtStep(q, "insert")' /\ ~ Counted(q)'
  BY DEF QuotaInv
<1>1. /\ ~lapsed /\ ~ AtStep(lock, "insert") /\ lock' = NoToken
      /\ request' = request
  BY DEF Expire
<1>2. ~ AtStep(q, "insert")'
  BY <1>1 DEF QuotaInv, AtStep
<1>3. lock' # q
  BY <1>1, QuotaAssumption
<1> QED BY <1>2, <1>3 DEF Counted

LEMMA QuotaStep == QuotaTypeOK /\ QuotaInv /\ [QuotaNext]_quotaVars => QuotaTypeOK' /\ QuotaInv'
<1> SUFFICES ASSUME QuotaTypeOK, QuotaInv, [QuotaNext]_quotaVars
             PROVE  QuotaTypeOK' /\ QuotaInv'
  OBVIOUS
<1>1. ASSUME NEW r \in Requests, Reserve(r) \/ Renew(r) \/ RedisFails(r) \/ Die(r)
      PROVE  QuotaTypeOK' /\ QuotaInv'
  <2>1. RequestMoves(r)
    BY <1>1, ReserveMoves, FailureMoves
  <2> QED BY <2>1, RequestKeepsQuota DEF RequestMoves
<1>2. CASE Expire
  BY <1>2, ExpireMoves, ExpireKeepsQuota
<1>3. ASSUME NEW k \in LeaseKeys, LeaseStep(k)
      PROVE  QuotaTypeOK' /\ QuotaInv'
  BY <1>3, LeaseMoves, LeaseKeepsQuota
<1>4. CASE UNCHANGED quotaVars
  <2>1. UNCHANGED <<lock, request, lost, lease, lapsed, quotaFaults>>
    BY <1>4 DEF quotaVars
  <2>2. QuotaTypeOK'
    BY <2>1 DEF QuotaTypeOK
  <2>3. Occupying' = Occupying
    BY <2>1 DEF Occupying
  <2> QED BY <2>1, <2>2, <2>3 DEF QuotaInv, Counted, Fits, AtStep
<1> QED BY <1>1, <1>2, <1>3, <1>4 DEF QuotaNext

\* Calls, the lock and leases keep their form.
THEOREM QuotaTypeCorrect == QuotaSpec => []QuotaTypeOK
<1>1. QuotaSpec => [](QuotaTypeOK /\ QuotaInv)
  BY QuotaStart, QuotaStep, PTL DEF QuotaSpec
<1> QED BY <1>1, PTL

\* For any requests, leases, resource profiles and limits: as long as neither the
\* lock of an inserting call expired nor a freed lease came back between a count
\* and its insertion (lapsed), no reservation takes its project or the workspace
\* past a limit; what QuotaScheduler.reserve counted under the lock still holds
\* when the lease is inserted.
THEOREM InsertionsWithinLimits == QuotaSpec => CountedUnderLock
<1> DEFINE Ins == \A k \in LeaseKeys : Inserts(k) /\ ~lapsed => Within(Occupying', k)
<1>1. QuotaSpec => [](QuotaTypeOK /\ QuotaInv)
  BY QuotaStart, QuotaStep, PTL DEF QuotaSpec
<1>2. QuotaTypeOK /\ QuotaInv /\ [QuotaNext]_quotaVars => [Ins]_quotaVars
  <2> SUFFICES ASSUME QuotaTypeOK, QuotaInv, [QuotaNext]_quotaVars,
                      NEW k \in LeaseKeys, Inserts(k), ~lapsed
               PROVE  Within(Occupying', k)
    OBVIOUS
  <2>1. lease' # lease
    BY DEF Inserts
  <2>2. PICK r \in Requests : CreateReserved(r)
    <3>1. ~ Expire /\ ~ UNCHANGED quotaVars
      BY <2>1 DEF Expire, quotaVars
    <3>2. \A j \in LeaseKeys : ~ LeaseStep(j)
      BY LeaseMoves
    <3>3. \A r \in Requests : Reserve(r) \/ Renew(r) \/ RedisFails(r) \/ Die(r) => CreateReserved(r)
      BY <2>1 DEF Reserve, Renew, RedisFails, Die, Call, Acquire, WaitTimesOut, CheckScope,
                  FindExisting, CheckBranch, Count, AssertHeld, Release, AcquireFails,
                  RenewFails, VerifyFails, ReleaseFails
    <3> QED BY <3>1, <3>2, <3>3 DEF QuotaNext
  <2>3. Fits(r)
    BY <2>2 DEF QuotaInv, Counted, CreateReserved
  <2>4. lease' = [lease EXCEPT ![LeaseKey[r]] = "used"]
    BY <2>1, <2>2 DEF CreateReserved
  <2>5. LeaseKey[r] \in LeaseKeys /\ lease \in [LeaseKeys -> LeaseStates]
    BY QuotaAssumption DEF QuotaTypeOK
  <2>6. k = LeaseKey[r]
    BY <2>4, <2>5 DEF Inserts
  <2>7. Occupying' = Occupying \cup {k}
    BY <2>4, <2>5, <2>6 DEF Occupying, OCCUPYING_SANDBOX_STATES
  <2> QED BY <2>3, <2>6, <2>7 DEF Fits
<1> QED BY <1>1, <1>2, PTL DEF QuotaSpec, CountedUnderLock
=============================================================================
