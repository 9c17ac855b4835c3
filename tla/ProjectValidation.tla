-------------------------- MODULE ProjectValidation --------------------------
(***************************************************************************)
(* The local project validator (agent/validator.ts) with the dependency    *)
(* cache that validations of all workers share (validation/                *)
(* dependencyCache.ts) and the cleanup that runs beside them (validation/  *)
(* cacheCleanup.ts).                                                       *)
(*                                                                         *)
(* One action is one file system operation of the cache or the cleanup, or *)
(* a phase of the validator between two awaits. A cache entry is the set   *)
(* of what is on disk of it: its directory, complete.json, node_modules,   *)
(* and whether node_modules is whole. A project is known by its flaw.      *)
(***************************************************************************)
EXTENDS Naturals, FiniteSets

CONSTANTS
  Validations,       \* calls of validate
  Fingerprints,      \* keys of the cache: of dependencies and platform
  FingerprintOf,     \* of the project of a validation
  FlawSets,          \* what may be wrong with the projects of the validations
  None,
  MaxRetries,        \* length of infrastructureRetryDelaysMs
  MaxScans,          \* bound: runs of the cleanup
  MaxFaults          \* bound: deaths, aborts, failing services

Flaws == {"none", "structure", "manifest", "styling", "dependency", "types",
          "bundle", "css"}
\* What a validation of a project with the flaw should find.
Verdict(f) ==
  CASE f = "none" -> "passed"
    [] f \in {"structure", "types", "bundle"} -> "CODE_ERROR"
    [] f \in {"manifest", "dependency"} -> "DEPENDENCY_ERROR"
    [] f \in {"styling", "css"} -> "STYLING_CONFIGURATION_ERROR"

\* The checks of the source files and of the emitted CSS, by what they find.
validateProjectStructure(f) == f \notin {"structure", "manifest"}
validateSource(f) == f # "styling"
validateBuild(f) == f # "css"

ASSUME ValidationAssumption ==
  /\ FingerprintOf \in [Validations -> Fingerprints]
  /\ FlawSets \subseteq [Validations -> Flaws]
  \* Dependencies that cannot be installed have a fingerprint of their own.
  /\ \A flaws \in FlawSets, v, w \in Validations :
       FingerprintOf[v] = FingerprintOf[w] /\ flaws[v] = "dependency"
         => flaws[w] = "dependency"
  /\ None \notin Validations \cup Fingerprints
  /\ {MaxRetries, MaxScans, MaxFaults} \subseteq Nat

VARIABLES
  flaw,       \* of the project of each validation; never changes
  val,        \* each validation: its step, retries, results and outcome
  aborted,    \* the validations whose signal is aborted
  commands,   \* the child processes of each
  workspace, staging,  \* the validations whose directory exists
  lock,       \* the creator of .locks/<fingerprint>.lock, or None
  entry,      \* what is on disk of each cache entry
  cleaner,    \* the cleanup: its step, visits left to the entries, the one it is at
  touched,    \* the entries marked as used since the cleanup read them
  torn,       \* history: entries the cleanup took apart, until reinstalled
  disturbed,  \* history: validations the environment or the cleanup broke
  bounds

vars == <<flaw, val, aborted, commands, workspace, staging, lock, entry, cleaner,
          touched, torn, disturbed, bounds>>
disk == <<workspace, staging, lock, entry, touched>>
history == <<torn, disturbed>>

-----------------------------------------------------------------------------

Checks == {"type-check", "build"}
Categories == {"CODE_ERROR", "DEPENDENCY_ERROR", "STYLING_CONFIGURATION_ERROR",
               "INFRA_ERROR"}
Steps == {"idle", "structure", "look", "look2", "mark", "open", "held", "install",
          "publish", "rename", "link", "unlock", "failed", "ready", "checks",
          "evidence", "preview", "finally", "done", "dead"}
Whole == {"directory", "complete", "modules", "whole"}

TypeOK ==
  /\ flaw \in FlawSets
  /\ val \in [Validations ->
       [at : Steps, tries : 0 .. MaxRetries, error : Categories \cup {"none", "other"},
        result : [Checks -> Categories \cup {"none"}],
        out : Categories \cup {"none", "passed", "aborted", "thrown"}]]
  /\ commands \in [Validations -> SUBSET (Checks \cup {"install"})]
  /\ aborted \cup workspace \cup staging \cup disturbed \subseteq Validations
  /\ lock \in [Fingerprints -> Validations \cup {None}]
  /\ entry \in [Fingerprints -> SUBSET Whole]
  /\ touched \cup torn \subseteq Fingerprints
  /\ cleaner \in [at : {"idle", "pick", "reread", "relock", "remove"},
                  list : [Fingerprints -> 0 .. 2], at_entry : Fingerprints \cup {None}]

Init ==
  /\ flaw \in FlawSets
  /\ val = [v \in Validations |->
       [at |-> "idle", tries |-> 0, error |-> "none",
        result |-> [k \in Checks |-> "none"], out |-> "none"]]
  /\ commands = [v \in Validations |-> {}]
  /\ aborted = {} /\ workspace = {} /\ staging = {}
  /\ lock = [f \in Fingerprints |-> None]
  /\ entry = [f \in Fingerprints |-> {}]
  /\ cleaner = [at |-> "idle", list |-> [f \in Fingerprints |-> 0], at_entry |-> None]
  /\ touched = {} /\ torn = {} /\ disturbed = {}
  /\ bounds = [scans |-> 0, faults |-> 0]

At(v, s) == val[v].at = s
F(v) == FingerprintOf[v]
Holds(v) == lock[F(v)] = v
To(v, s) == val' = [val EXCEPT ![v].at = s]
\* The validation returns or throws: the workspace is removed in finally.
Leave(v, out) == val' = [val EXCEPT ![v].at = "finally", ![v].out = out]
\* prepare throws: the finally block of the lock comes first.
Throw(v, error) ==
  val' = [val EXCEPT ![v].error = error,
                     ![v].at = IF Holds(v) THEN "unlock" ELSE "failed"]
Fault == bounds.faults < MaxFaults /\ bounds' = [bounds EXCEPT !.faults = @ + 1]

\* The validations whose node_modules is, or is about to be, the entry.
Uses(v, f) == F(v) = f /\ val[v].at \in {"look2", "mark", "link", "unlock", "ready", "checks"}

-----------------------------------------------------------------------------
(* The validator, up to the preparation of dependencies.                   *)

\* validateProjectStructure, then the source checks of the styling adapters.
Structure(v) ==
  /\ At(v, "idle")
  /\ CASE v \in aborted ->
            val' = [val EXCEPT ![v].at = "done", ![v].out = "aborted"]
       [] /\ v \notin aborted
          /\ ~(validateProjectStructure(flaw[v]) /\ validateSource(flaw[v])) ->
            val' = [val EXCEPT ![v].at = "done", ![v].out = Verdict(flaw[v])]
       [] OTHER -> To(v, "structure")
  /\ UNCHANGED <<flaw, aborted, commands, disk, cleaner, history, bounds>>

\* createValidationWorkspace removes what it made when a file cannot be written.
CreateWorkspace(v) ==
  /\ At(v, "structure")
  /\ \/ /\ workspace' = workspace \cup {v} /\ To(v, "look") /\ UNCHANGED bounds
     \/ /\ Fault /\ UNCHANGED workspace
        /\ val' = [val EXCEPT ![v].at = "done", ![v].out = "thrown"]
  /\ UNCHANGED <<flaw, aborted, commands, staging, lock, entry, touched, cleaner, history>>

-----------------------------------------------------------------------------
(* DependencyCache.prepare.                                                *)

\* exists(complete.json), before the lock, where the signal is looked at
\* first, and again once it is held.
Look(v) ==
  /\ At(v, "look") \/ At(v, "held")
  /\ IF At(v, "look") /\ v \in aborted THEN Leave(v, "aborted")
     ELSE IF "complete" \in entry[F(v)] THEN To(v, "look2")
     ELSE IF ~Holds(v) THEN To(v, "open")
     ELSE To(v, "install")
  /\ UNCHANGED <<flaw, aborted, commands, disk, cleaner, history, bounds>>

\* exists(node_modules).
LookModules(v) ==
  /\ At(v, "look2")
  /\ IF "modules" \in entry[F(v)] THEN To(v, "mark")
     ELSE To(v, IF Holds(v) THEN "install" ELSE "open")
  /\ UNCHANGED <<flaw, aborted, commands, disk, cleaner, history, bounds>>

\* markUsed writes complete.json anew and fails without its directory.
Mark(v) ==
  /\ At(v, "mark")
  /\ IF "directory" \in entry[F(v)]
     THEN /\ entry' = [entry EXCEPT ![F(v)] = @ \cup {"complete"}]
          /\ touched' = touched \cup {F(v)}
          /\ To(v, "link")
     ELSE Throw(v, "other") /\ UNCHANGED <<entry, touched>>
  /\ UNCHANGED <<flaw, aborted, commands, workspace, staging, lock, cleaner, history, bounds>>

\* Mutant: the lock file is opened without the exclusive flag.
OpenShared(v) ==
  /\ At(v, "open")
  /\ lock' = [lock EXCEPT ![F(v)] = v] /\ To(v, "held")
  /\ UNCHANGED <<flaw, aborted, commands, workspace, staging, entry, touched, cleaner,
                 history, bounds>>

\* open(lockPath, 'wx').
Open(v) ==
  /\ At(v, "open") /\ lock[F(v)] = None
  /\ lock' = [lock EXCEPT ![F(v)] = v] /\ To(v, "held")
  /\ UNCHANGED <<flaw, aborted, commands, workspace, staging, entry, touched, cleaner,
                 history, bounds>>

\* While another holds the lock, the entry is polled.
PollHit(v) ==
  /\ At(v, "open") /\ lock[F(v)] # None
  /\ {"complete", "modules"} \subseteq entry[F(v)]
  /\ To(v, "mark")
  /\ UNCHANGED <<flaw, aborted, commands, disk, cleaner, history, bounds>>

\* Mutant: the wait for the lock has no end.
WaitForEver(v) == FALSE
\* The wait ends after lockTimeoutMs. A holder that lives lets go sooner, or
\* else it counts as a fault.
LockTimeout(v) ==
  /\ At(v, "open") /\ lock[F(v)] # None
  /\ IF val[lock[F(v)]].at = "dead" THEN UNCHANGED bounds ELSE Fault
  /\ Throw(v, "other")
  /\ UNCHANGED <<flaw, aborted, commands, disk, cleaner, history>>

\* Mutant: npm installs in the entry itself, marked as complete beforehand.
InstallInPlace(v) ==
  /\ At(v, "install") /\ v \notin staging
  /\ staging' = staging \cup {v}
  /\ commands' = [commands EXCEPT ![v] = {"install"}]
  /\ entry' = [entry EXCEPT ![F(v)] = {"directory", "complete", "modules"}]
  /\ UNCHANGED <<flaw, val, aborted, workspace, lock, touched, cleaner, history, bounds>>

\* mkdtemp, and npm ci or npm install in the new directory.
Install(v) ==
  /\ At(v, "install") /\ v \notin staging
  /\ staging' = staging \cup {v}
  /\ commands' = [commands EXCEPT ![v] = {"install"}]
  /\ UNCHANGED <<flaw, val, aborted, workspace, lock, entry, touched, cleaner, history, bounds>>

\* npm ends; with the signal aborted its process group is killed and the call
\* rejects. A registry failure or a time-out is INFRA_ERROR; a command that
\* does not start or is killed by the system exits with 1.
InstallEnds(v) ==
  /\ At(v, "install") /\ commands[v] = {"install"}
  /\ commands' = [commands EXCEPT ![v] = {}]
  /\ CASE v \in aborted -> Throw(v, "other") /\ UNCHANGED <<disturbed, bounds>>
       [] v \notin aborted ->
          \/ /\ IF flaw[v] = "dependency" THEN Throw(v, "DEPENDENCY_ERROR")
                ELSE To(v, "publish")
             /\ UNCHANGED <<disturbed, bounds>>
          \/ Throw(v, "INFRA_ERROR") /\ Fault /\ UNCHANGED disturbed
          \/ /\ Throw(v, "DEPENDENCY_ERROR") /\ Fault
             /\ disturbed' = disturbed \cup {v}
  /\ UNCHANGED <<flaw, aborted, disk, cleaner, torn>>

\* rm of what is left of an entry, then rename of the staging directory.
Publish(v) ==
  /\ At(v, "publish")
  /\ entry' = [entry EXCEPT ![F(v)] = {}]
  /\ To(v, "rename")
  /\ UNCHANGED <<flaw, aborted, commands, workspace, staging, lock, touched, cleaner,
                 history, bounds>>

Rename(v) ==
  /\ At(v, "rename")
  /\ entry' = [entry EXCEPT ![F(v)] = Whole]
  /\ touched' = touched \cup {F(v)}
  /\ torn' = torn \ {F(v)}
  /\ staging' = staging \ {v}
  /\ To(v, "link")
  /\ UNCHANGED <<flaw, aborted, commands, workspace, lock, cleaner, disturbed, bounds>>

\* The link leads to the path of the entry, whatever is there.
Link(v) ==
  /\ At(v, "link")
  /\ To(v, IF Holds(v) THEN "unlock" ELSE "ready")
  /\ disturbed' = IF F(v) \in torn THEN disturbed \cup {v} ELSE disturbed
  /\ UNCHANGED <<flaw, aborted, commands, disk, cleaner, torn, bounds>>

\* Mutant: the lock is released when the installation succeeded.
UnlockAfterSuccess(v) ==
  /\ At(v, "unlock")
  /\ staging' = staging \ {v}
  /\ lock' = IF val[v].error = "none" THEN [lock EXCEPT ![F(v)] = None] ELSE lock
  /\ To(v, IF val[v].error = "none" THEN "ready" ELSE "failed")
  /\ UNCHANGED <<flaw, aborted, commands, workspace, entry, touched, cleaner, history, bounds>>

\* The finally block: the staging directory and the lock file are removed.
Unlock(v) ==
  /\ At(v, "unlock")
  /\ staging' = staging \ {v}
  /\ lock' = [lock EXCEPT ![F(v)] = None]
  /\ To(v, IF val[v].error = "none" THEN "ready" ELSE "failed")
  /\ UNCHANGED <<flaw, aborted, commands, workspace, entry, touched, cleaner, history, bounds>>

\* runWithInfrastructureRetry repeats prepare after an INFRA_ERROR.
MayRetry(v) == val[v].error = "INFRA_ERROR" /\ val[v].tries < MaxRetries

\* What it gives up on, and errors without a category, end the validation.
Failed(v) ==
  /\ At(v, "failed")
  /\ LET error == val[v].error IN
     IF v \in aborted THEN Leave(v, "aborted")
     ELSE IF MayRetry(v)
     THEN val' = [val EXCEPT ![v].at = "look", ![v].error = "none", ![v].tries = @ + 1]
     ELSE Leave(v, IF error = "other" THEN "INFRA_ERROR" ELSE error)
  /\ UNCHANGED <<flaw, aborted, commands, disk, cleaner, history, bounds>>

-----------------------------------------------------------------------------
(* Type check and build, side by side, and what follows.                   *)

Ready(v) ==
  /\ At(v, "ready")
  /\ IF v \in aborted THEN Leave(v, "aborted") /\ UNCHANGED commands
     ELSE To(v, "checks") /\ commands' = [commands EXCEPT ![v] = Checks]
  /\ UNCHANGED <<flaw, aborted, disk, cleaner, history, bounds>>

\* Whether a command of the project fails by itself.
Breaks(v, k) ==
  \/ flaw[v] = IF k = "build" THEN "bundle" ELSE "types"
  \/ "whole" \notin entry[F(v)]

\* A command ends and its result is reported. The command of a disturbed
\* validation may fail; a fault is a time-out (INFRA_ERROR), a command that
\* does not start or is killed (CODE_ERROR).
CheckEnds(v, k) ==
  /\ k \in commands[v] \cap Checks /\ At(v, "checks") /\ v \notin aborted
  /\ commands' = [commands EXCEPT ![v] = @ \ {k}]
  /\ \E category \in {"none", "CODE_ERROR", "INFRA_ERROR"} :
       /\ CASE category = "INFRA_ERROR" -> Fault /\ UNCHANGED disturbed
            [] category = "CODE_ERROR" ->
                 IF Breaks(v, k) \/ v \in disturbed THEN UNCHANGED <<disturbed, bounds>>
                 ELSE Fault /\ disturbed' = disturbed \cup {v}
            [] category = "none" -> ~Breaks(v, k) /\ UNCHANGED <<disturbed, bounds>>
       /\ val' = [val EXCEPT ![v].result[k] = category,
                             ![v].at = IF commands[v] = {k} THEN "evidence" ELSE @]
  /\ UNCHANGED <<flaw, aborted, disk, cleaner, torn>>

\* Promise.all rejects with the first rejection: both commands of an aborted
\* validation are killed; the other goes on when a report cannot be stored.
ChecksThrow(v) ==
  /\ At(v, "checks") /\ commands[v] # {}
  /\ \/ /\ v \in aborted
        /\ commands' = [commands EXCEPT ![v] = {}]
        /\ Leave(v, "aborted") /\ UNCHANGED <<disturbed, bounds>>
     \/ /\ v \notin aborted /\ Fault
        /\ \E k \in commands[v] : commands' = [commands EXCEPT ![v] = @ \ {k}]
        /\ Leave(v, "thrown") /\ disturbed' = disturbed \cup {v}
  /\ UNCHANGED <<flaw, aborted, disk, cleaner, torn>>

\* The first failed check, type-check before build, gives the category; the
\* emitted CSS is looked at when none failed.
Evidence(v) ==
  /\ At(v, "evidence")
  /\ LET result == val[v].result IN
     CASE result["type-check"] # "none" -> Leave(v, result["type-check"])
       [] result["type-check"] = "none" /\ result["build"] # "none" ->
            Leave(v, result["build"])
       [] OTHER -> IF validateBuild(flaw[v]) THEN To(v, "preview")
                   ELSE Leave(v, "STYLING_CONFIGURATION_ERROR")
  /\ UNCHANGED <<flaw, aborted, commands, disk, cleaner, history, bounds>>

\* The preview is read from dist and written to the artifact store.
Preview(v) ==
  /\ At(v, "preview")
  /\ \/ Leave(v, IF v \in aborted THEN "aborted" ELSE "passed") /\ UNCHANGED bounds
     \/ v \notin aborted /\ Leave(v, "INFRA_ERROR") /\ Fault
  /\ UNCHANGED <<flaw, aborted, commands, disk, cleaner, history>>

Cleanup(v) ==
  /\ At(v, "finally")
  /\ workspace' = workspace \ {v} /\ To(v, "done")
  /\ UNCHANGED <<flaw, aborted, commands, staging, lock, entry, touched, cleaner, history, bounds>>

\* A command left alone ends by itself, or by its own time-out in the parent.
StrayEnds(v) ==
  /\ val[v].at \in {"finally", "done", "dead"} /\ commands[v] # {}
  /\ commands' = [commands EXCEPT ![v] = {}]
  /\ UNCHANGED <<flaw, val, aborted, disk, cleaner, history, bounds>>

\* The run is cancelled; or the worker is killed: its files, lock and detached
\* commands stay.
Abort(v) ==
  /\ v \notin aborted /\ val[v].at \notin {"done", "dead"}
  /\ aborted' = aborted \cup {v} /\ Fault
  /\ UNCHANGED <<flaw, val, commands, disk, cleaner, history>>

Die(v) ==
  /\ val[v].at \notin {"idle", "done", "dead"}
  /\ To(v, "dead") /\ Fault
  /\ UNCHANGED <<flaw, aborted, commands, disk, cleaner, history>>

-----------------------------------------------------------------------------
(* cleanupDependencyCache. Which entries are old or the cache too large is *)
(* left open: any entry it read may be its victim, once for its age and,   *)
(* if it is still there, once more for the size of the cache.              *)

Scan ==
  /\ cleaner.at = "idle" /\ bounds.scans < MaxScans
  /\ bounds' = [bounds EXCEPT !.scans = @ + 1]
  /\ cleaner' = [at |-> "pick", at_entry |-> None,
                 list |-> [f \in Fingerprints |->
                             IF "complete" \in entry[f] THEN 2 ELSE 0]]
  /\ touched' = {}
  /\ UNCHANGED <<flaw, val, aborted, commands, workspace, staging, lock, entry, history>>

Goes(at) == cleaner' = [cleaner EXCEPT !.at = at]
Skip == cleaner' = [cleaner EXCEPT !.at = "pick", !.at_entry = None]

\* removeIfUnlocked: no lock, the metadata as it was read, no lock still.
Pick ==
  /\ cleaner.at = "pick"
  /\ \/ \E f \in Fingerprints :
          /\ cleaner.list[f] > 0
          /\ cleaner' = [at |-> IF lock[f] = None THEN "reread" ELSE "pick",
                         at_entry |-> IF lock[f] = None THEN f ELSE None,
                         list |-> [cleaner.list EXCEPT ![f] = @ - 1]]
     \/ Goes("idle")
  /\ UNCHANGED <<flaw, val, aborted, commands, disk, history, bounds>>

Reread ==
  /\ cleaner.at = "reread"
  /\ IF "complete" \in entry[cleaner.at_entry] /\ cleaner.at_entry \notin touched
     THEN Goes("relock") ELSE Skip
  /\ UNCHANGED <<flaw, val, aborted, commands, disk, history, bounds>>

Relock ==
  /\ cleaner.at = "relock"
  /\ IF lock[cleaner.at_entry] = None THEN Goes("remove") ELSE Skip
  /\ UNCHANGED <<flaw, val, aborted, commands, disk, history, bounds>>

\* rm takes the files one after the other, the directory last; it may fail or
\* be killed half-way.
Remove ==
  LET f == cleaner.at_entry
      next == IF entry[f] \subseteq {"directory"} THEN {"directory"}
              ELSE ({"complete"} \cap entry[f]) \cup
                   (IF "whole" \in entry[f] THEN {"whole"} ELSE {"modules"} \cap entry[f])
  IN
  /\ cleaner.at = "remove"
  /\ \/ \E part \in next :
          /\ entry' = [entry EXCEPT ![f] = @ \ {part}]
          /\ torn' = torn \cup {f}
          /\ disturbed' = disturbed \cup {v \in Validations : Uses(v, f)}
          /\ IF part = "directory"
             THEN cleaner' = [at |-> "pick", at_entry |-> None,
                              list |-> [cleaner.list EXCEPT ![f] = 0]]
             ELSE UNCHANGED cleaner
          /\ UNCHANGED bounds
     \/ /\ Goes("idle") /\ Fault /\ UNCHANGED <<entry, history>>
  /\ UNCHANGED <<flaw, val, aborted, commands, workspace, staging, lock, touched>>

-----------------------------------------------------------------------------

Step(v) ==
  \/ CreateWorkspace(v) \/ Look(v) \/ LookModules(v) \/ Mark(v) \/ Open(v)
  \/ PollHit(v) \/ LockTimeout(v) \/ Install(v) \/ InstallEnds(v) \/ Publish(v)
  \/ Rename(v) \/ Link(v) \/ Unlock(v) \/ Failed(v) \/ Ready(v)
  \/ (\E k \in Checks : CheckEnds(v, k)) \/ ChecksThrow(v)
  \/ Evidence(v) \/ Preview(v) \/ Cleanup(v) \/ StrayEnds(v)

Next ==
  \/ \E v \in Validations : Structure(v) \/ Step(v) \/ Abort(v) \/ Die(v)
  \/ Scan \/ Pick \/ Reread \/ Relock \/ Remove

Spec == Init /\ [][Next]_vars
\* Commands have time-outs and the event loop runs on; validations need not
\* begin and the cleanup need not go on.
FairSpec == Spec /\ \A v \in Validations : WF_vars(Step(v))

-----------------------------------------------------------------------------
(* Properties.                                                             *)

\* A verdict other than INFRA_ERROR is the one the project deserves: sharing
\* installed dependencies, waiting for them and retrying never makes a project
\* pass or fail for what another validation did. What the cleanup takes apart
\* under a validation, and commands the system kills, are excepted.
VerdictIsFair ==
  \A v \in Validations \ disturbed :
    val[v].out \in (Categories \ {"INFRA_ERROR"}) \cup {"passed"}
      => val[v].out = Verdict(flaw[v])

\* Of the validations with the same dependencies, one installs and the others
\* wait for it.
OneInstallsAtATime ==
  \A f \in Fingerprints :
    Cardinality({v \in Validations : /\ F(v) = f
                                     /\ val[v].at \in {"install", "publish", "rename"}}) <= 1

\* A validation that is over, however it ended, leaves no workspace, no staging
\* directory and no lock behind, and none of its commands running but one
\* whose companion's report could not be stored.
NothingIsLeftBehind ==
  \A v \in Validations : At(v, "done") =>
    /\ v \notin workspace \cup staging /\ ~Holds(v)
    /\ commands[v] # {} => val[v].out = "thrown"

\* Every validation ends, also those that wait for a lock whose holder died.
ValidationsEnd ==
  <>[](\A v \in Validations : val[v].at \in {"idle", "done", "dead"})

\* The design's promise that the cleanup does not remove actively referenced
\* entries: an entry shrinks only when no validation uses it, but for the
\* reinstallation under the lock. It is violated.
ActiveEntriesStay ==
  [][\A f \in Fingerprints, v \in Validations :
       cleaner.at = "remove" /\ cleaner.at_entry = f /\ ~(entry[f] \subseteq entry'[f])
         => ~(F(v) = f /\ val[v].at = "checks")]_vars
=============================================================================
