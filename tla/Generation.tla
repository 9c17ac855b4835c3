----------------------------- MODULE Generation -----------------------------
(***************************************************************************)
(* What a run does to a project: agent/orchestrator.ts (runAgentGeneration,*)
(* runAgentGenerationWithValidation), agent/fileOperations.ts and          *)
(* agent/dependencies.ts. The language model answers with operations on    *)
(* files and with dependencies, the server applies them and writes the     *)
(* package manifest, the validator judges the result, and the model may    *)
(* repair what failed. The result is the base of the next run, so what one *)
(* run leaves in the project every later one builds on.                    *)
(*                                                                         *)
(* The contents of files are values of Texts; the manifest the server      *)
(* writes is the table of dependencies itself. The leases, statuses and    *)
(* commits around the loop are in RunExecution.                            *)
(***************************************************************************)
EXTENDS Integers

CONSTANTS
  NoProject,
  Spellings,       \* the paths a model may write, "./src/a.ts" for "src/a.ts"
  normalizeProjectPath,  \* the file of each of them
  Manifest,        \* package.json
  requiredTemplateFiles,
  Texts,
  template,        \* the files of an empty project
  Names, Versions, \* of dependencies
  required,        \* the dependencies of every project, with their versions
  Diagnostics,     \* fingerprints of failed validations
  maxRepairAttempts,
  MaxOperations, MaxRuns

Paths == {normalizeProjectPath[s] : s \in Spellings}
Tables == UNION {[N -> Versions] : N \in SUBSET Names}
Trees == UNION {[P -> Texts \cup Tables] : P \in SUBSET Paths}
Projects == [files : Trees, packageJson : Tables]

ASSUME GenerationAssumption ==
  /\ Manifest \in Paths /\ Manifest \in requiredTemplateFiles
  /\ requiredTemplateFiles \subseteq Paths
  /\ template \in Trees
  /\ requiredTemplateFiles \ {Manifest} \subseteq DOMAIN template
  /\ required \in Tables
  /\ NoProject \notin Projects
  /\ maxRepairAttempts \in Nat

VARIABLES
  phase,        \* where the run is
  mode,         \* "create" or "edit"
  files, packageJson,
  before,       \* both as they were before the repair
  effective,    \* an operation would change a base file
  operations,   \* of this answer, applied so far
  repairAttempts, seenDiagnostics,
  base,         \* the snapshot the run builds on
  snapshots,    \* all that are stored
  candidate,    \* what a run left for a validation retry
  verified,     \* the projects a real build has passed
  runs          \* runs begun

generationVars ==
  <<phase, mode, files, packageJson, before, effective, operations, repairAttempts,
    seenDiagnostics, base, snapshots, candidate, verified, runs>>
store == <<snapshots, candidate, verified, runs>>
loop == <<base, before, effective, operations, repairAttempts, seenDiagnostics>>

Phases == {"idle", "planning", "generating", "operations", "validating",
           "repairing", "returned"}

GenerationTypeOK ==
  /\ phase \in Phases
  /\ mode \in {"create", "edit"}
  /\ files \in Trees /\ packageJson \in Tables
  /\ before \in Projects \cup {NoProject}
  /\ effective \in BOOLEAN
  /\ operations \in Nat /\ repairAttempts \in Nat /\ runs \in Nat
  /\ seenDiagnostics \subseteq Diagnostics
  /\ base \in Projects \cup {NoProject} /\ snapshots \subseteq Projects
  /\ candidate \in Projects \cup {NoProject}
  /\ verified \subseteq Projects

-----------------------------------------------------------------------------
(* The functions the loop is made of.                                      *)

Project == [files |-> files, packageJson |-> packageJson]

\* resolveProjectBaseFiles, and the manifest of the base snapshot.
BaseFiles == IF base = NoProject THEN template ELSE base.files
EmptyTable == [n \in {} |-> n]
BasePackageJson == IF base = NoProject THEN EmptyTable ELSE base.packageJson

\* mergeProjectPackageJson: what the model names goes before the base, the
\* base before what every project needs; nothing is ever taken out.
mergeProjectPackageJson(old, generated) ==
  [n \in DOMAIN required \cup DOMAIN old \cup DOMAIN generated |->
     IF n \in DOMAIN generated THEN generated[n]
     ELSE IF n \in DOMAIN old THEN old[n] ELSE required[n]]

Written(f, path, content) ==
  [p \in DOMAIN f \cup {path} |-> IF p = path THEN content ELSE f[p]]
Deleted(f, path) == [p \in DOMAIN f \ {path} |-> f[p]]

\* hasEffectiveFileChanges compares the path as the model spelled it.
ChangesBase(spelling, content) ==
  spelling \in DOMAIN BaseFiles => BaseFiles[spelling] # content

-----------------------------------------------------------------------------
GenerationInit ==
  /\ phase = "idle" /\ mode = "create"
  /\ files = template /\ packageJson = required
  /\ before = NoProject /\ effective = FALSE /\ operations = 0
  /\ repairAttempts = 0 /\ seenDiagnostics = {}
  /\ base = NoProject /\ snapshots = {} /\ candidate = NoProject /\ verified = {}
  /\ runs = 0

\* The run is over without a result.
Fail == phase' = "idle" /\ UNCHANGED <<mode, files, packageJson, loop>>

\* processAgentRun loads context and base: the head of the branch, which
\* rollbacks and new branches may have set to any snapshot. An edit needs one.
Begin ==
  /\ phase = "idle" /\ runs < MaxRuns
  /\ base' \in snapshots \cup {NoProject}
  /\ mode' \in {"create", "edit"} /\ (mode' = "edit" => base' # NoProject)
  /\ phase' = "planning"
  /\ runs' = runs + 1
  /\ repairAttempts' = 0 /\ seenDiagnostics' = {} /\ before' = NoProject
  /\ UNCHANGED <<files, packageJson, effective, operations, snapshots,
                 candidate, verified>>

GeneratePlan ==
  /\ phase = "planning" /\ phase' = "generating"
  /\ UNCHANGED <<mode, files, packageJson, loop, store>>

\* The answer's dependencies are merged into those of the base.
GenerateFiles ==
  /\ phase = "generating"
  /\ \E generated \in Tables :
       packageJson' = mergeProjectPackageJson(BasePackageJson, generated)
  /\ files' = BaseFiles
  /\ phase' = "operations" /\ effective' = FALSE /\ operations' = 0
  /\ UNCHANGED <<mode, base, before, repairAttempts, seenDiagnostics, store>>

\* One round of the loop in applyFileOperations: create and update write.
Write(s) ==
  /\ phase = "operations" /\ operations < MaxOperations
  /\ \E content \in Texts :
       /\ files' = Written(files, normalizeProjectPath[s], content)
       /\ effective' = (effective \/ ChangesBase(s, content))
  /\ operations' = operations + 1
  /\ UNCHANGED <<phase, mode, packageJson, base, before, repairAttempts,
                 seenDiagnostics, store>>

\* Mutant: any file may be deleted.
DeleteAny(s) ==
  /\ phase = "operations" /\ operations < MaxOperations
  /\ files' = Deleted(files, normalizeProjectPath[s])
  /\ effective' = (effective \/ s \in DOMAIN BaseFiles)
  /\ operations' = operations + 1
  /\ UNCHANGED <<phase, mode, packageJson, base, before, repairAttempts,
                 seenDiagnostics, store>>

\* Deleting a required file, however it is spelled, fails the run.
Delete(s) ==
  /\ phase = "operations" /\ operations < MaxOperations
  /\ IF normalizeProjectPath[s] \in requiredTemplateFiles THEN Fail
     ELSE /\ files' = Deleted(files, normalizeProjectPath[s])
          /\ effective' = (effective \/ s \in DOMAIN BaseFiles)
          /\ operations' = operations + 1
          /\ UNCHANGED <<phase, mode, packageJson, base, before, repairAttempts,
                         seenDiagnostics>>
  /\ UNCHANGED store

\* The operations of the answer are applied. An edit must have an effective
\* one; a repair must leave other files or dependencies than it found.
Standstill ==
  IF before = NoProject THEN mode = "edit" /\ ~effective ELSE Project = before

\* writeServerPackageJson, over whatever the model has written there.
Assemble ==
  /\ phase = "operations"
  /\ IF Standstill THEN Fail
     ELSE /\ files' = Written(files, Manifest, packageJson)
          /\ phase' = "validating"
          /\ UNCHANGED <<mode, packageJson, loop>>
  /\ UNCHANGED store

-----------------------------------------------------------------------------
(* The verdict of the validator.                                           *)

\* Mutant: a simulated build is a build.
BelievedIfPassed(verdict) == verdict \in {"verified", "simulated"}
\* Only a build that was not simulated counts.
Believed(verdict) == verdict = "verified"

Verdicts == {"verified", "simulated", "INFRA_ERROR"} \cup Diagnostics

\* A diagnostic that has been repaired before, or more repairs than the run
\* has, ends it; an infrastructure error leaves a candidate.
Validate ==
  /\ phase = "validating"
  /\ \E verdict \in Verdicts :
       /\ verified' = IF verdict = "verified" THEN verified \cup {Project}
                                              ELSE verified
       /\ candidate' = IF verdict = "INFRA_ERROR" THEN Project ELSE candidate
       /\ IF Believed(verdict)
            THEN /\ phase' = "returned"
                 /\ UNCHANGED <<mode, files, packageJson, loop>>
          ELSE IF \/ verdict \notin Diagnostics \ seenDiagnostics
                  \/ repairAttempts >= maxRepairAttempts
            THEN Fail
          ELSE /\ phase' = "repairing"
               /\ repairAttempts' = repairAttempts + 1
               /\ seenDiagnostics' = seenDiagnostics \cup {verdict}
               /\ UNCHANGED <<mode, files, packageJson, base, before, effective,
                              operations>>
  /\ UNCHANGED <<snapshots, runs>>

\* repairFiles or repairDependencies answers.
Repair ==
  /\ phase = "repairing"
  /\ before' = Project
  /\ \E generated \in Tables :
       packageJson' = mergeProjectPackageJson(packageJson, generated)
  /\ phase' = "operations" /\ operations' = 0
  /\ UNCHANGED <<mode, files, base, effective, repairAttempts, seenDiagnostics,
                 store>>

\* The model, the validator or an event fails, the lease is lost, or the run
\* is aborted.
Throws == phase # "idle" /\ Fail /\ UNCHANGED store

\* createRunSnapshot; whether the head follows is commitBranchHead's business.
CreateRunSnapshot ==
  /\ phase = "returned" /\ phase' = "idle"
  /\ snapshots' = snapshots \cup {Project}
  /\ UNCHANGED <<mode, files, packageJson, loop, candidate, verified, runs>>

\* processValidationCandidate: the candidate is built again as it is.
RetryCandidate ==
  /\ phase = "idle" /\ candidate # NoProject
  /\ \E verdict \in Verdicts :
       /\ verified' = IF verdict = "verified" THEN verified \cup {candidate}
                                              ELSE verified
       /\ IF Believed(verdict)
            THEN snapshots' = snapshots \cup {candidate} /\ candidate' = NoProject
            ELSE UNCHANGED <<snapshots, candidate>>
  /\ UNCHANGED <<phase, mode, files, packageJson, loop, runs>>

GenerationNext ==
  \/ Begin \/ GeneratePlan \/ GenerateFiles
  \/ \E s \in Spellings : Write(s) \/ Delete(s)
  \/ Assemble \/ Validate \/ Repair \/ Throws \/ CreateRunSnapshot \/ RetryCandidate

GenerationSpec == GenerationInit /\ [][GenerationNext]_generationVars

-----------------------------------------------------------------------------
(* Properties.                                                             *)

Buildable(project) ==
  /\ requiredTemplateFiles \subseteq DOMAIN project.files
  /\ project.files[Manifest] = project.packageJson
  /\ DOMAIN required \subseteq DOMAIN project.packageJson

\* Whatever operations the model answers with, over any number of repairs and
\* runs, every project that is built, stored as a snapshot (on which the next
\* runs build) or kept for a retry has the required files of the template and
\* the server's own manifest with the dependencies of every project
\* (applyFileOperations, writeServerPackageJson, mergeProjectPackageJson).
AlwaysBuildable ==
  /\ phase \in {"validating", "returned"} => Buildable(Project)
  /\ \A project \in snapshots : Buildable(project)
  /\ candidate # NoProject => Buildable(candidate)

\* A project becomes a snapshot only in exactly the form in which a real build
\* has passed: neither a simulated validation nor a change made after the
\* build gets in, through a run or through the retry of its candidate.
OnlyVerifiedIsStored == snapshots \subseteq verified

\* What makes both inductive: from the answer to the commit the files keep
\* those of the template, whatever the operations, and the manifest keeps its
\* dependencies; every base is itself a stored project.
Keeps == /\ requiredTemplateFiles \ {Manifest} \subseteq DOMAIN files
         /\ DOMAIN required \subseteq DOMAIN packageJson
GenerationInv ==
  /\ base \in snapshots \cup {NoProject}
  /\ phase \in {"operations", "validating", "repairing", "returned"} => Keeps
  /\ phase = "repairing" => Buildable(Project)
  /\ phase = "returned" => Project \in verified
  /\ AlwaysBuildable /\ OnlyVerifiedIsStored
=============================================================================
