--------------------------- MODULE GenerationProofs ---------------------------
(***************************************************************************)
(* Theorems about what a run makes of a project, and about the validation  *)
(* it is judged by.                                                        *)
(*                                                                         *)
(* Generation: whatever the model answers, in any number of operations,    *)
(* repairs and runs, every stored project can be built again and has been  *)
(* built.  GenerationInv follows a project around the circle: a base is a  *)
(* stored project and so has the required files; operations may write but  *)
(* not delete them; the merge keeps the dependencies; the manifest is      *)
(* written last; only a believed verdict leads to a snapshot.              *)
(*                                                                         *)
(* ProjectValidation: what the shared dependency cache never does to a     *)
(* validation, for any validations, fingerprints and flaws, any number of  *)
(* retries, cleanups and faults: its verdict, who installs, and what is    *)
(* left behind.                                                            *)
(***************************************************************************)
EXTENDS Generation, ProjectValidation, FiniteSetTheorems, TLAPS


-----------------------------------------------------------------------------
(* The functions of the loop: what they return and what they preserve.     *)

\* applyFileOperations, delete: no other file is lost.
LEMMA DeletedKeeps ==
  ASSUME NEW f, NEW path
  PROVE  DOMAIN Deleted(f, path) = DOMAIN f \ {path}
BY DEF Deleted

\* mergeProjectPackageJson drops nothing of what every project needs.
LEMMA MergeKeeps ==
  ASSUME NEW old, NEW generated
  PROVE  DOMAIN required \subseteq DOMAIN mergeProjectPackageJson(old, generated)
BY DEF mergeProjectPackageJson

\* A file set is a function from paths, a manifest one from names.
LEMMA TreeFunction ==
  ASSUME NEW f, DOMAIN f \subseteq Paths, f = [p \in DOMAIN f |-> f[p]],
         \A p \in DOMAIN f : f[p] \in Texts \cup Tables
  PROVE  f \in Trees
<1>1. f \in [DOMAIN f -> Texts \cup Tables]
  OBVIOUS
<1> QED BY <1>1 DEF Trees

LEMMA TableFunction ==
  ASSUME NEW t, DOMAIN t \subseteq Names, t = [n \in DOMAIN t |-> t[n]],
         \A n \in DOMAIN t : t[n] \in Versions
  PROVE  t \in Tables
<1>1. t \in [DOMAIN t -> Versions]
  OBVIOUS
<1> QED BY <1>1 DEF Tables

LEMMA TreeParts ==
  ASSUME NEW f \in Trees
  PROVE  DOMAIN f \subseteq Paths /\ \A p \in DOMAIN f : f[p] \in Texts \cup Tables
BY DEF Trees

LEMMA TableParts ==
  ASSUME NEW t \in Tables
  PROVE  DOMAIN t \subseteq Names /\ \A n \in DOMAIN t : t[n] \in Versions
BY DEF Tables

\* Operations make file sets of file sets.
LEMMA WrittenType ==
  ASSUME NEW f \in Trees, NEW path \in Paths, NEW content \in Texts \cup Tables
  PROVE  Written(f, path, content) \in Trees
<1> DEFINE g == Written(f, path, content)
<1>1. DOMAIN g \subseteq Paths
  BY TreeParts DEF Written
<1>2. \A p \in DOMAIN g : g[p] \in Texts \cup Tables
  BY TreeParts DEF Written
<1>3. g = [p \in DOMAIN g |-> g[p]]
  BY DEF Written
<1> HIDE DEF g
<1>4. g \in Trees
  BY <1>1, <1>2, <1>3, TreeFunction
<1> QED BY <1>4 DEF g

LEMMA DeletedType ==
  ASSUME NEW f \in Trees, NEW path
  PROVE  Deleted(f, path) \in Trees
<1> DEFINE g == Deleted(f, path)
<1>1. DOMAIN g \subseteq Paths
  BY TreeParts DEF Deleted
<1>2. \A p \in DOMAIN g : g[p] \in Texts \cup Tables
  BY TreeParts DEF Deleted
<1>3. g = [p \in DOMAIN g |-> g[p]]
  BY DEF Deleted
<1> HIDE DEF g
<1>4. g \in Trees
  BY <1>1, <1>2, <1>3, TreeFunction
<1> QED BY <1>4 DEF g

\* Merging makes manifests of manifests.
LEMMA MergeType ==
  ASSUME NEW old \in Tables, NEW generated \in Tables
  PROVE  mergeProjectPackageJson(old, generated) \in Tables
<1> DEFINE t == mergeProjectPackageJson(old, generated)
<1>0. required \in Tables
  BY GenerationAssumption DEF GenerationAssumption
<1>1. DOMAIN t \subseteq Names
  BY <1>0, TableParts DEF mergeProjectPackageJson
<1>2. \A n \in DOMAIN t : t[n] \in Versions
  BY <1>0, TableParts DEF mergeProjectPackageJson
<1>3. t = [n \in DOMAIN t |-> t[n]]
  BY DEF mergeProjectPackageJson
<1> HIDE DEF t
<1>4. t \in Tables
  BY <1>1, <1>2, <1>3, TableFunction
<1> QED BY <1>4 DEF t

LEMMA EmptyTableType == EmptyTable \in Tables
<1> DEFINE t == EmptyTable
<1>1. DOMAIN t = {} /\ t = [n \in DOMAIN t |-> t[n]]
  BY DEF EmptyTable
<1> HIDE DEF t
<1>2. t \in Tables
  BY <1>1, TableFunction
<1> QED BY <1>2 DEF t

\* The base of a run, whether there is a snapshot or only the template.
LEMMA BaseType ==
  ASSUME GenerationTypeOK
  PROVE  BaseFiles \in Trees /\ BasePackageJson \in Tables
BY GenerationAssumption, EmptyTableType
   DEF GenerationAssumption, GenerationTypeOK, BaseFiles, BasePackageJson, Projects

LEMMA ProjectType ==
  ASSUME GenerationTypeOK
  PROVE  Project \in Projects
BY DEF GenerationTypeOK, Project, Projects

-----------------------------------------------------------------------------
(* The type invariant.                                                     *)

\* GenerationInit makes a state of the right shape.
LEMMA InitGenerationTypeOK == GenerationInit => GenerationTypeOK
<1> SUFFICES ASSUME GenerationInit PROVE GenerationTypeOK
  OBVIOUS
<1>1. files \in Trees /\ packageJson \in Tables
  BY GenerationAssumption DEF GenerationAssumption, GenerationInit
<1>2. phase \in Phases /\ mode \in {"create", "edit"} /\ effective \in BOOLEAN
  BY DEF GenerationInit, Phases
<1>3. operations \in Nat /\ repairAttempts \in Nat /\ runs \in Nat
  BY DEF GenerationInit
<1> QED BY <1>1, <1>2, <1>3 DEF GenerationInit, GenerationTypeOK

\* Each step keeps the shape of the state.
LEMMA NextGenerationTypeOK == GenerationTypeOK /\ [GenerationNext]_generationVars => GenerationTypeOK'
<1> SUFFICES ASSUME GenerationTypeOK, [GenerationNext]_generationVars PROVE GenerationTypeOK'
  OBVIOUS
<1> USE DEF Phases, store, loop
<1>0. Manifest \in Paths /\ required \in Tables /\ maxRepairAttempts \in Nat
  BY GenerationAssumption DEF GenerationAssumption
<1>1. CASE Begin
  BY <1>1 DEF Begin, GenerationTypeOK
<1>2. CASE GeneratePlan
  BY <1>2 DEF GeneratePlan, GenerationTypeOK
<1>3. CASE GenerateFiles
  <2>1. files' \in Trees /\ packageJson' \in Tables
    BY <1>3, BaseType, MergeType DEF GenerateFiles
  <2> QED BY <1>3, <2>1 DEF GenerateFiles, GenerationTypeOK
<1>4. ASSUME NEW s \in Spellings, Write(s) PROVE GenerationTypeOK'
  <2>1. PICK content \in Texts :
          /\ files' = Written(files, normalizeProjectPath[s], content)
          /\ effective' = (effective \/ ChangesBase(s, content))
    BY <1>4 DEF Write
  <2>2. files' \in Trees
    BY <2>1, WrittenType DEF GenerationTypeOK, Paths
  <2>3. effective' \in BOOLEAN
    BY <2>1 DEF GenerationTypeOK, ChangesBase
  <2> QED BY <1>4, <2>2, <2>3 DEF Write, GenerationTypeOK
<1>5. ASSUME NEW s \in Spellings, Delete(s) PROVE GenerationTypeOK'
  <2>1. CASE normalizeProjectPath[s] \in requiredTemplateFiles
    BY <1>5, <2>1 DEF Delete, Fail, GenerationTypeOK
  <2>2. CASE normalizeProjectPath[s] \notin requiredTemplateFiles
    <3>1. files' \in Trees
      BY <1>5, <2>2, DeletedType DEF Delete, GenerationTypeOK
    <3> QED BY <1>5, <2>2, <3>1 DEF Delete, GenerationTypeOK
  <2> QED BY <2>1, <2>2
<1>6. CASE Assemble
  <2>1. CASE Standstill
    BY <1>6, <2>1 DEF Assemble, Fail, GenerationTypeOK
  <2>2. CASE ~Standstill
    <3>1. files' \in Trees
      BY <1>0, <1>6, <2>2, WrittenType DEF Assemble, GenerationTypeOK
    <3> QED BY <1>6, <2>2, <3>1 DEF Assemble, GenerationTypeOK
  <2> QED BY <2>1, <2>2
<1>7. CASE Validate
  <2>1. /\ verified' \subseteq Projects /\ candidate' \in Projects \cup {NoProject}
        /\ snapshots' \subseteq Projects /\ runs' \in Nat
    BY <1>7, ProjectType DEF Validate, GenerationTypeOK
  <2>2. /\ phase' \in Phases /\ mode' = mode /\ files' = files
        /\ packageJson' = packageJson /\ before' = before /\ base' = base
        /\ effective' = effective /\ operations' = operations
        /\ repairAttempts' \in Nat /\ seenDiagnostics' \subseteq Diagnostics
    BY <1>7 DEF Validate, Fail, GenerationTypeOK
  <2> QED BY <2>1, <2>2 DEF GenerationTypeOK
<1>8. CASE Repair
  <2>1. before' \in Projects /\ packageJson' \in Tables
    BY <1>8, ProjectType, MergeType DEF Repair, GenerationTypeOK
  <2> QED BY <1>8, <2>1 DEF Repair, GenerationTypeOK
<1>9. CASE Throws
  BY <1>9 DEF Throws, Fail, GenerationTypeOK
<1>10. CASE CreateRunSnapshot
  BY <1>10, ProjectType DEF CreateRunSnapshot, GenerationTypeOK
<1>11. CASE RetryCandidate
  BY <1>11 DEF RetryCandidate, GenerationTypeOK
<1>12. CASE UNCHANGED generationVars
  BY <1>12 DEF generationVars, GenerationTypeOK
<1> QED BY <1>1, <1>2, <1>3, <1>4, <1>5, <1>6, <1>7, <1>8, <1>9, <1>10, <1>11,
           <1>12 DEF GenerationNext

\* The state of a run and its project always has its shape.
THEOREM GenerationTypeCorrect == GenerationSpec => []GenerationTypeOK
<1>1. GenerationInit => GenerationTypeOK
  BY InitGenerationTypeOK
<1>2. GenerationTypeOK /\ [GenerationNext]_generationVars => GenerationTypeOK'
  BY NextGenerationTypeOK
<1> QED BY <1>1, <1>2, PTL DEF GenerationSpec

-----------------------------------------------------------------------------
(* The inductive invariant.                                                *)

\* The base of a run has the template's required files and, if it is a
\* snapshot, its dependencies.
LEMMA BaseHasTemplate ==
  ASSUME GenerationInv
  PROVE  requiredTemplateFiles \ {Manifest} \subseteq DOMAIN BaseFiles
BY GenerationAssumption
   DEF GenerationAssumption, GenerationInv, AlwaysBuildable, Buildable, BaseFiles

\* Once the manifest is written, what kept the template can be built.
LEMMA AssembledIsBuildable ==
  ASSUME NEW f, requiredTemplateFiles \ {Manifest} \subseteq DOMAIN f,
         NEW t, DOMAIN required \subseteq DOMAIN t
  PROVE  Buildable([files |-> Written(f, Manifest, t), packageJson |-> t])
<1> DEFINE g == Written(f, Manifest, t)
<1>1. requiredTemplateFiles \subseteq DOMAIN g /\ g[Manifest] = t
  BY DEF Written
<1> HIDE DEF g
<1>2. Buildable([files |-> g, packageJson |-> t])
  BY <1>1 DEF Buildable
<1> QED BY <1>2 DEF g

\* Nothing is stored, and the first run has nothing but the template.
LEMMA InitInv == GenerationInit => GenerationInv
BY DEF GenerationInit, GenerationInv, AlwaysBuildable, OnlyVerifiedIsStored

\* A step that leaves what is stored alone only has to keep the run in order.
Stored == <<snapshots, candidate, verified>>
LEMMA RunStep ==
  ASSUME GenerationInv, UNCHANGED Stored, base' \in snapshots \cup {NoProject},
         phase' \in {"operations", "validating", "repairing", "returned"}
           => Keeps',
         phase' \in {"validating", "repairing", "returned"}
           => Buildable(Project'),
         phase' = "returned" => Project' \in verified
  PROVE  GenerationInv'
BY DEF Stored, GenerationInv, AlwaysBuildable, OnlyVerifiedIsStored, Buildable

LEMMA NextInv == GenerationInv /\ [GenerationNext]_generationVars => GenerationInv'
<1> SUFFICES ASSUME GenerationInv, [GenerationNext]_generationVars PROVE GenerationInv'
  OBVIOUS
<1> USE DEF store, loop
<1>0. base \in snapshots \cup {NoProject}
  BY DEF GenerationInv
<1>1. CASE Begin
  BY <1>1, RunStep DEF Begin, Stored
<1>2. CASE GeneratePlan
  BY <1>0, <1>2, RunStep DEF GeneratePlan, Stored
<1>3. CASE GenerateFiles
  <2>1. Keeps'
    BY <1>3, BaseHasTemplate, MergeKeeps DEF GenerateFiles, Keeps
  <2> QED BY <1>0, <1>3, <2>1, RunStep DEF GenerateFiles, Stored
<1>4. ASSUME NEW s \in Spellings, Write(s) PROVE GenerationInv'
  <2>1. PICK content : files' = Written(files, normalizeProjectPath[s], content)
    BY <1>4 DEF Write
  <2>2. DOMAIN files \subseteq DOMAIN files'
    BY <2>1 DEF Written
  <2>3. Keeps /\ UNCHANGED packageJson
    BY <1>4 DEF Write, GenerationInv
  <2>4. Keeps'
    BY <2>2, <2>3 DEF Keeps
  <2> QED BY <1>0, <1>4, <2>4, RunStep DEF Write, Stored
<1>5. ASSUME NEW s \in Spellings, Delete(s) PROVE GenerationInv'
  <2>1. CASE normalizeProjectPath[s] \in requiredTemplateFiles
    BY <1>0, <1>5, <2>1, RunStep DEF Delete, Fail, Stored
  <2>2. CASE normalizeProjectPath[s] \notin requiredTemplateFiles
    <3>1. Keeps'
      BY <1>5, <2>2, DeletedKeeps DEF Delete, Keeps, GenerationInv
    <3> QED BY <1>0, <1>5, <2>2, <3>1, RunStep DEF Delete, Stored
  <2> QED BY <2>1, <2>2
<1>6. CASE Assemble
  <2>1. CASE Standstill
    BY <1>0, <1>6, <2>1, RunStep DEF Assemble, Fail, Stored
  <2>2. CASE ~Standstill
    <3>0. Keeps /\ UNCHANGED packageJson
      BY <1>6, <2>2 DEF Assemble, GenerationInv
    <3>a. DOMAIN files \subseteq DOMAIN files'
      BY <1>6, <2>2 DEF Assemble, Written
    <3>1. Keeps /\ Keeps'
      BY <3>0, <3>a DEF Keeps
    <3>2. Project' = [files |-> Written(files, Manifest, packageJson),
                      packageJson |-> packageJson]
      BY <1>6, <2>2 DEF Assemble, Project
    <3>3. Buildable(Project')
      BY <3>1, <3>2, AssembledIsBuildable DEF Keeps
    <3> QED BY <1>0, <1>6, <2>2, <3>1, <3>3, RunStep DEF Assemble, Stored
  <2> QED BY <2>1, <2>2
<1>7. CASE Validate
  <2>1. /\ phase = "validating" /\ Keeps /\ Buildable(Project)
        /\ UNCHANGED <<files, packageJson, base, snapshots>>
    BY <1>7 DEF Validate, Fail, GenerationInv, AlwaysBuildable
  <2>2. Keeps' /\ Project' = Project
    BY <2>1 DEF Keeps, Project
  <2>3. verified \subseteq verified'
    BY <1>7 DEF Validate
  <2>4. candidate' # NoProject => Buildable(candidate')
    BY <1>7, <2>1 DEF Validate, GenerationInv, AlwaysBuildable
  <2>5. phase' = "returned" => Project \in verified'
    BY <1>7, <2>1 DEF Validate, Fail, Believed
  <2> QED
    BY <1>0, <2>1, <2>2, <2>3, <2>4, <2>5
       DEF GenerationInv, AlwaysBuildable, OnlyVerifiedIsStored
<1>8. CASE Repair
  <2>1. Keeps'
    BY <1>8, MergeKeeps DEF Repair, Keeps, GenerationInv
  <2> QED BY <1>0, <1>8, <2>1, RunStep DEF Repair, Stored
<1>9. CASE Throws
  BY <1>0, <1>9, RunStep DEF Throws, Fail, Stored
<1>10. CASE CreateRunSnapshot
  BY <1>10 DEF CreateRunSnapshot, GenerationInv, AlwaysBuildable, OnlyVerifiedIsStored
<1>11. CASE RetryCandidate
  <2>1. /\ phase' = phase /\ phase = "idle" /\ base' = base
        /\ candidate # NoProject /\ Buildable(candidate)
    BY <1>11 DEF RetryCandidate, GenerationInv, AlwaysBuildable
  <2>2. /\ snapshots \subseteq snapshots'
        /\ \A project \in snapshots' : Buildable(project)
        /\ candidate' # NoProject => Buildable(candidate')
    BY <1>11, <2>1 DEF RetryCandidate, GenerationInv, AlwaysBuildable
  <2>3. snapshots' \subseteq verified'
    BY <1>11 DEF RetryCandidate, Believed, GenerationInv, OnlyVerifiedIsStored
  <2> QED
    BY <1>0, <2>1, <2>2, <2>3 DEF GenerationInv, AlwaysBuildable, OnlyVerifiedIsStored
<1>12. CASE UNCHANGED generationVars
  BY <1>12
     DEF generationVars, GenerationInv, Keeps, AlwaysBuildable, OnlyVerifiedIsStored, Project
<1> QED BY <1>1, <1>2, <1>3, <1>4, <1>5, <1>6, <1>7, <1>8, <1>9, <1>10, <1>11,
           <1>12 DEF GenerationNext

\* The invariant that carries both properties.
THEOREM GenerationInvariant == GenerationSpec => []GenerationInv
<1>1. GenerationInit => GenerationInv
  BY InitInv
<1>2. GenerationInv /\ [GenerationNext]_generationVars => GenerationInv'
  BY NextInv
<1> QED BY <1>1, <1>2, PTL DEF GenerationSpec

\* Every project that is built, stored or kept can be built, whatever the
\* template, the paths, the dependencies and the number of repairs and runs.
THEOREM EveryProjectBuildable == GenerationSpec => []AlwaysBuildable
<1>1. GenerationInv => AlwaysBuildable
  BY DEF GenerationInv
<1> QED BY <1>1, GenerationInvariant, PTL

\* No snapshot is stored that a real build has not passed in that very form.
THEOREM EverySnapshotVerified == GenerationSpec => []OnlyVerifiedIsStored
<1>1. GenerationInv => OnlyVerifiedIsStored
  BY DEF GenerationInv
<1> QED BY <1>1, GenerationInvariant, PTL

-----------------------------------------------------------------------------
(* The validations of one worker, from here on.                            *)


Installing == {"install", "publish", "rename"}
\* Steps at which the lock is held for sure, and those at which it may be.
Locked == Installing \cup {"held", "unlock"}
MayLock == Locked \cup {"look2", "mark", "link", "dead"}
\* Steps that end a validation.
Over == {"finally", "done"}

\* The lock, the directories and the commands of a validation.
Tidy(v) ==
  /\ val[v].at \in Locked => Holds(v)
  /\ Holds(v) => val[v].at \in MayLock
  /\ v \in staging => val[v].at \in Installing \cup {"unlock", "dead"}
  /\ v \in workspace => val[v].at \notin {"idle", "structure", "done"}
  /\ commands[v] # {} => \/ val[v].at \in {"install", "checks", "dead"}
                         \/ val[v].at \in Over /\ val[v].out = "thrown"

TidyInv == \A v \in Validations : Tidy(v)

\* An entry nobody took apart is whole or not there.
EntryInv == \A f \in Fingerprints \ torn : entry[f] \in {{}, Whole}

\* What makes a command fail that the project is to blame for.
FlawOf(k) == IF k = "build" THEN "bundle" ELSE "types"

\* Steps that a project with dependencies that cannot be installed gets to.
Uninstallable == {"idle", "structure", "look", "open", "held", "install",
                  "unlock", "failed", "finally", "done", "dead"}

\* node_modules of the workspace is the entry, and about to be used.
Linked(v) == \/ val[v].at \in {"ready", "checks"}
             \/ val[v].at = "unlock" /\ val[v].error = "none"

\* What a validation may rely on: the entry it is to use is whole, the entry it
\* is to replace is not there, and nobody installs what cannot be installed.
OnEntry(v) ==
  /\ val[v].at \in {"look2", "mark", "link"} /\ F(v) \notin torn => entry[F(v)] = Whole
  /\ val[v].at \in Installing /\ F(v) \notin torn => entry[F(v)] = {}
  /\ Linked(v) /\ v \notin disturbed => F(v) \notin torn /\ entry[F(v)] = Whole
  /\ flaw[v] = "dependency" =>
       /\ entry[F(v)] = {} /\ val[v].at \in Uninstallable
       /\ val[v].at = "unlock" => val[v].error # "none"

Blames(v, category) ==
  category \in (Categories \ {"INFRA_ERROR"}) \cup {"passed"} /\ v \notin disturbed
    => category = Verdict(flaw[v])

\* What a validation has found so far is the project's fault, and what it found
\* in order is in order.
OnProject(v) ==
  /\ val[v].error \in {"none", "other", "INFRA_ERROR", "DEPENDENCY_ERROR"}
  /\ val[v].error = "DEPENDENCY_ERROR" /\ v \notin disturbed => flaw[v] = "dependency"
  /\ val[v].at \notin {"idle", "done", "dead"} =>
       flaw[v] \notin {"structure", "manifest", "styling"}
  /\ val[v].at \in {"checks", "evidence", "preview"} =>
       \A k \in Checks \ commands[v] : val[v].result[k] = "none" => flaw[v] # FlawOf(k)
  /\ \A k \in Checks :
       /\ val[v].result[k] \in {"none", "CODE_ERROR", "INFRA_ERROR"}
       /\ val[v].result[k] = "CODE_ERROR" /\ v \notin disturbed => flaw[v] = FlawOf(k)
  /\ val[v].at = "preview" =>
       validateBuild(flaw[v]) /\ \A k \in Checks : val[v].result[k] = "none"
  /\ Blames(v, val[v].out)

FairInv == EntryInv /\ \A v \in Validations : OnEntry(v) /\ OnProject(v)

-----------------------------------------------------------------------------
(* The steps of one validation: what they do to its record, and to no other. *)

ValRecord ==
  [at : Steps, tries : 0 .. MaxRetries, error : Categories \cup {"none", "other"},
   result : [Checks -> Categories \cup {"none"}],
   out : Categories \cup {"none", "passed", "aborted", "thrown"}]

Only(v) == /\ val' \in [Validations -> ValRecord]
           /\ \A u \in Validations \ {v} : val'[u] = val[u]

LEMMA ToStep ==
  ASSUME TypeOK, NEW v \in Validations, NEW s \in Steps, To(v, s)
  PROVE  /\ Only(v)
         /\ val'[v].at = s /\ val'[v].tries = val[v].tries
         /\ val'[v].error = val[v].error /\ val'[v].result = val[v].result
         /\ val'[v].out = val[v].out
<1>1. val \in [Validations -> ValRecord]  BY DEF TypeOK, ValRecord
<1>2. val' = [val EXCEPT ![v] = [val[v] EXCEPT !.at = s]]  BY <1>1 DEF To
<1>3. [val[v] EXCEPT !.at = s] \in ValRecord  BY <1>1 DEF ValRecord
<1> QED  BY <1>1, <1>2, <1>3 DEF Only, ValRecord

LEMMA LeaveStep ==
  ASSUME TypeOK, NEW v \in Validations,
         NEW o \in Categories \cup {"none", "passed", "aborted", "thrown"}, Leave(v, o)
  PROVE  /\ Only(v)
         /\ val'[v].at = "finally" /\ val'[v].tries = val[v].tries
         /\ val'[v].error = val[v].error /\ val'[v].result = val[v].result
         /\ val'[v].out = o
<1>1. val \in [Validations -> ValRecord]  BY DEF TypeOK, ValRecord
<1> DEFINE a == [val[v] EXCEPT !.at = "finally"]
           t == [a EXCEPT !.out = o]
<1>2. val' = [val EXCEPT ![v] = t]  BY <1>1 DEF Leave
<1>3. /\ t \in ValRecord
      /\ t.at = "finally" /\ t.tries = val[v].tries /\ t.out = o
      /\ t.error = val[v].error /\ t.result = val[v].result
  <2>1. /\ a \in ValRecord /\ a.at = "finally" /\ a.tries = val[v].tries
        /\ a.error = val[v].error /\ a.result = val[v].result
    BY <1>1 DEF ValRecord, Steps
  <2> HIDE DEF a
  <2> QED  BY <2>1 DEF ValRecord
<1> HIDE DEF t
<1> QED  BY <1>1, <1>2, <1>3 DEF Only

LEMMA ThrowStep ==
  ASSUME TypeOK, NEW v \in Validations,
         NEW e \in Categories \cup {"none", "other"}, Throw(v, e)
  PROVE  /\ Only(v)
         /\ val'[v].at = IF Holds(v) THEN "unlock" ELSE "failed"
         /\ val'[v].tries = val[v].tries
         /\ val'[v].error = e /\ val'[v].result = val[v].result
         /\ val'[v].out = val[v].out
<1>1. val \in [Validations -> ValRecord]  BY DEF TypeOK, ValRecord
<1> DEFINE at == IF Holds(v) THEN "unlock" ELSE "failed"
           a == [val[v] EXCEPT !.error = e]
           t == [a EXCEPT !.at = at]
<1>2. val' = [val EXCEPT ![v] = t]  BY <1>1 DEF Throw
<1>3. /\ t \in ValRecord
      /\ t.at = IF Holds(v) THEN "unlock" ELSE "failed"
      /\ t.tries = val[v].tries /\ t.out = val[v].out
      /\ t.error = e /\ t.result = val[v].result
  <2>1. at \in Steps  BY DEF Steps
  <2>2. /\ a \in ValRecord /\ a.error = e /\ a.tries = val[v].tries
        /\ a.out = val[v].out /\ a.result = val[v].result
    BY <1>1 DEF ValRecord
  <2> HIDE DEF a
  <2> QED  BY <2>1, <2>2 DEF ValRecord
<1> HIDE DEF t
<1> QED  BY <1>1, <1>2, <1>3 DEF Only

\* A validation that ends without a workspace.
LEMMA EndStep ==
  ASSUME TypeOK, NEW v \in Validations,
         NEW o \in Categories \cup {"none", "passed", "aborted", "thrown"},
         val' = [val EXCEPT ![v].at = "done", ![v].out = o]
  PROVE  /\ Only(v)
         /\ val'[v].at = "done" /\ val'[v].tries = val[v].tries
         /\ val'[v].error = val[v].error /\ val'[v].result = val[v].result
         /\ val'[v].out = o
<1>1. val \in [Validations -> ValRecord]  BY DEF TypeOK, ValRecord
<1> DEFINE a == [val[v] EXCEPT !.at = "done"]
           t == [a EXCEPT !.out = o]
<1>2. val' = [val EXCEPT ![v] = t]  BY <1>1
<1>3. /\ t \in ValRecord
      /\ t.at = "done" /\ t.tries = val[v].tries /\ t.out = o
      /\ t.error = val[v].error /\ t.result = val[v].result
  <2>1. /\ a \in ValRecord /\ a.at = "done" /\ a.tries = val[v].tries
        /\ a.error = val[v].error /\ a.result = val[v].result
    BY <1>1 DEF ValRecord, Steps
  <2> HIDE DEF a
  <2> QED  BY <2>1 DEF ValRecord
<1> HIDE DEF t
<1> QED  BY <1>1, <1>2, <1>3 DEF Only

LEMMA RetryStep ==
  ASSUME TypeOK, NEW v \in Validations, MayRetry(v),
         val' = [val EXCEPT ![v].at = "look", ![v].error = "none", ![v].tries = @ + 1]
  PROVE  /\ Only(v)
         /\ val'[v].at = "look" /\ val'[v].error = "none"
         /\ val'[v].result = val[v].result /\ val'[v].out = val[v].out
<1>1. val \in [Validations -> ValRecord]  BY DEF TypeOK, ValRecord
<1> DEFINE a == [val[v] EXCEPT !.at = "look"]
           b == [a EXCEPT !.error = "none"]
           t == [b EXCEPT !.tries = @ + 1]
<1>2. val' = [val EXCEPT ![v] = t]  BY <1>1
<1>3. MaxRetries \in Nat  BY ValidationAssumption
<1>4. val[v].tries + 1 \in 0 .. MaxRetries  BY <1>1, <1>3 DEF MayRetry, ValRecord
<1>5. /\ t \in ValRecord
      /\ t.at = "look" /\ t.out = val[v].out
      /\ t.error = "none" /\ t.result = val[v].result
  <2>1. /\ a \in ValRecord /\ a.at = "look" /\ a.tries = val[v].tries
        /\ a.out = val[v].out /\ a.result = val[v].result
    BY <1>1 DEF ValRecord, Steps
  <2> HIDE DEF a
  <2>2. /\ b \in ValRecord /\ b.at = "look" /\ b.tries = val[v].tries
        /\ b.error = "none" /\ b.out = val[v].out /\ b.result = val[v].result
    BY <2>1 DEF ValRecord
  <2> HIDE DEF b
  <2>3. b.tries + 1 \in 0 .. MaxRetries  BY <1>4, <2>2
  <2> QED  BY <2>2, <2>3 DEF ValRecord
<1> HIDE DEF t, a, b
<1>6. val' \in [Validations -> ValRecord] /\ val'[v] = t
  <2>1. t \in ValRecord  BY <1>5
  <2> QED  BY <1>1, <1>2, <2>1
<1>7. \A u \in Validations \ {v} : val'[u] = val[u]  BY <1>1, <1>2
<1> QED  BY <1>5, <1>6, <1>7 DEF Only

\* The result of a check is stored; the second one leads on.
Reports(v, k, c) ==
  val' = [val EXCEPT ![v].result[k] = c,
                     ![v].at = IF commands[v] = {k} THEN "evidence" ELSE @]

LEMMA ResultStep ==
  ASSUME TypeOK, NEW v \in Validations, NEW k \in Checks,
         NEW c \in {"none", "CODE_ERROR", "INFRA_ERROR"}, Reports(v, k, c)
  PROVE  /\ Only(v)
         /\ val'[v].at = IF commands[v] = {k} THEN "evidence" ELSE val[v].at
         /\ val'[v].error = val[v].error /\ val'[v].out = val[v].out
         /\ \A i \in Checks : val'[v].result[i] = IF i = k THEN c ELSE val[v].result[i]
<1>1. val \in [Validations -> ValRecord]  BY DEF TypeOK, ValRecord
<1> DEFINE x == [val[v].result EXCEPT ![k] = c]
           a == [val[v] EXCEPT !.result = x]
           t == [a EXCEPT !.at = IF commands[v] = {k} THEN "evidence" ELSE @]
<1>2. val' = [val EXCEPT ![v] = t]  BY <1>1 DEF Reports
<1>3. x \in [Checks -> Categories \cup {"none"}]
  BY <1>1 DEF ValRecord, Categories
<1>4. /\ t \in ValRecord
      /\ t.at = IF commands[v] = {k} THEN "evidence" ELSE val[v].at
      /\ t.error = val[v].error /\ t.out = val[v].out
      /\ t.result = x
  <2>1. /\ a \in ValRecord /\ a.at = val[v].at /\ a.error = val[v].error
        /\ a.out = val[v].out /\ a.result = x
    BY <1>1, <1>3 DEF ValRecord
  <2> HIDE DEF a, x
  <2>2. (IF commands[v] = {k} THEN "evidence" ELSE a.at) \in Steps
    BY <2>1 DEF ValRecord, Steps
  <2> QED  BY <2>1, <2>2 DEF ValRecord
<1> HIDE DEF t
<1>5. \A i \in Checks : t.result[i] = IF i = k THEN c ELSE val[v].result[i]
  BY <1>1, <1>4 DEF ValRecord
<1> QED  BY <1>1, <1>2, <1>4, <1>5 DEF Only

\* What a step of a validation, its cancellation and its death do to records.
LEMMA OnlyStep ==
  ASSUME TypeOK, NEW v \in Validations, Structure(v) \/ Step(v) \/ Abort(v) \/ Die(v)
  PROVE  Only(v)
<1> USE DEF At
<1>0. /\ val \in [Validations -> ValRecord]
      /\ val' = val => Only(v)
  BY DEF TypeOK, ValRecord, Only
<1>1. CASE Structure(v)
  <2>1. CASE v \in aborted  BY <1>1, <2>1, EndStep DEF Structure
  <2>2. CASE v \notin aborted /\ ~(validateProjectStructure(flaw[v]) /\ validateSource(flaw[v]))
    <3>1. flaw[v] \in Flaws  BY ValidationAssumption DEF TypeOK
    <3>2. Verdict(flaw[v]) \in Categories
      BY <2>2, <3>1 DEF Flaws, Verdict, Categories, validateProjectStructure, validateSource
    <3> QED  BY <1>1, <2>2, <3>2, EndStep DEF Structure
  <2>3. CASE v \notin aborted /\ validateProjectStructure(flaw[v]) /\ validateSource(flaw[v])
    BY <1>1, <2>3, ToStep DEF Structure, Steps
  <2> QED  BY <2>1, <2>2, <2>3
<1>2. CASE CreateWorkspace(v)  BY <1>2, ToStep, EndStep DEF CreateWorkspace, Steps
<1>3. CASE Look(v)  BY <1>3, ToStep, LeaveStep DEF Look, Steps
<1>4. CASE LookModules(v)
  <2>1. (IF Holds(v) THEN "install" ELSE "open") \in Steps  BY DEF Steps
  <2> QED  BY <1>4, <2>1, ToStep DEF LookModules, Steps
<1>5. CASE Mark(v)  BY <1>5, ToStep, ThrowStep DEF Mark, Steps
<1>6. CASE Open(v) \/ PollHit(v)  BY <1>6, ToStep DEF Open, PollHit, Steps
<1>7. CASE LockTimeout(v)  BY <1>7, ThrowStep DEF LockTimeout
<1>8. CASE Install(v)  BY <1>0, <1>8 DEF Install
<1>9. CASE InstallEnds(v)  BY <1>9, ToStep, ThrowStep DEF InstallEnds, Steps, Categories
<1>10. CASE Publish(v) \/ Rename(v)  BY <1>10, ToStep DEF Publish, Rename, Steps
<1>11. CASE Link(v)
  <2>1. (IF Holds(v) THEN "unlock" ELSE "ready") \in Steps  BY DEF Steps
  <2> QED  BY <1>11, <2>1, ToStep DEF Link
<1>12. CASE Unlock(v)
  <2>1. (IF val[v].error = "none" THEN "ready" ELSE "failed") \in Steps  BY DEF Steps
  <2> QED  BY <1>12, <2>1, ToStep DEF Unlock
<1>13. CASE Failed(v)
  <2>1. val[v].error \in Categories \cup {"none", "other"}  BY <1>0 DEF ValRecord
  <2>2. (IF val[v].error = "other" THEN "INFRA_ERROR" ELSE val[v].error)
          \in Categories \cup {"none", "passed", "aborted", "thrown"}
    BY <2>1 DEF Categories
  <2>3. CASE v \in aborted  BY <1>13, <2>3, LeaveStep DEF Failed
  <2>4. CASE v \notin aborted /\ MayRetry(v)  BY <1>13, <2>4, RetryStep DEF Failed
  <2>5. CASE v \notin aborted /\ ~MayRetry(v)  BY <1>13, <2>2, <2>5, LeaveStep DEF Failed
  <2> QED  BY <2>3, <2>4, <2>5
<1>14. CASE Ready(v)  BY <1>14, ToStep, LeaveStep DEF Ready, Steps
<1>15. CASE \E k \in Checks : CheckEnds(v, k)
  <2>1. PICK k \in Checks : CheckEnds(v, k)  BY <1>15
  <2>2. PICK c \in {"none", "CODE_ERROR", "INFRA_ERROR"} : Reports(v, k, c)
    BY <2>1 DEF CheckEnds, Reports
  <2> QED  BY <2>2, ResultStep
<1>16. CASE ChecksThrow(v)  BY <1>16, LeaveStep DEF ChecksThrow
<1>17. CASE Evidence(v)
  <2>1. val[v].result \in [Checks -> Categories \cup {"none"}]  BY <1>0 DEF ValRecord
  <2>2. \A k \in Checks : val[v].result[k] \in Categories \cup {"none"}  BY <2>1
  <2>3. "type-check" \in Checks /\ "build" \in Checks  BY DEF Checks
  <2> QED  BY <1>17, <2>2, <2>3, ToStep, LeaveStep DEF Evidence, Steps, Categories
<1>18. CASE Preview(v)
  <2>1. (IF v \in aborted THEN "aborted" ELSE "passed")
          \in Categories \cup {"none", "passed", "aborted", "thrown"}
    BY DEF Categories
  <2> QED  BY <1>18, <2>1, LeaveStep DEF Preview, Categories
<1>19. CASE Cleanup(v) \/ Die(v)  BY <1>19, ToStep DEF Cleanup, Die, Steps
<1>20. CASE StrayEnds(v) \/ Abort(v)  BY <1>0, <1>20 DEF StrayEnds, Abort
<1> QED
  BY <1>1, <1>2, <1>3, <1>4, <1>5, <1>6, <1>7, <1>8, <1>9, <1>10, <1>11, <1>12, <1>13,
     <1>14, <1>15, <1>16, <1>17, <1>18, <1>19, <1>20 DEF Step

-----------------------------------------------------------------------------
(* Types.                                                                  *)

\* The cleanup is at an entry as long as it deals with one.
CleanerOK == cleaner.at \in {"reread", "relock", "remove"} => cleaner.at_entry \in Fingerprints
Typed == TypeOK /\ CleanerOK

\* Typed but for the records of the validations.
RestOK ==
  /\ CleanerOK
  /\ flaw \in FlawSets
  /\ commands \in [Validations -> SUBSET (Checks \cup {"install"})]
  /\ aborted \cup workspace \cup staging \cup disturbed \subseteq Validations
  /\ lock \in [Fingerprints -> Validations \cup {None}]
  /\ entry \in [Fingerprints -> SUBSET Whole]
  /\ touched \cup torn \subseteq Fingerprints
  /\ cleaner \in [at : {"idle", "pick", "reread", "relock", "remove"},
                  list : [Fingerprints -> 0 .. 2], at_entry : Fingerprints \cup {None}]

LEMMA TypeSplit == Typed <=> val \in [Validations -> ValRecord] /\ RestOK
  BY DEF Typed, TypeOK, ValRecord, RestOK

LEMMA InitTyped == Init => Typed
<1> SUFFICES ASSUME Init PROVE Typed  OBVIOUS
<1>1. val \in [Validations -> ValRecord]
  BY ValidationAssumption DEF Init, ValRecord, Steps, Categories
<1>2. RestOK  BY DEF Init, RestOK, CleanerOK
<1> QED  BY <1>1, <1>2, TypeSplit

LEMMA StepRestOK ==
  ASSUME Typed, NEW v \in Validations, Structure(v) \/ Step(v) \/ Abort(v) \/ Die(v)
  PROVE  RestOK'
<1> USE ValidationAssumption, TypeSplit DEF CleanerOK
<1>0. F(v) \in Fingerprints  BY DEF F
<1>1. CASE UNCHANGED <<flaw, aborted, commands, disk, cleaner, history>>
  BY <1>1 DEF RestOK, disk, history
<1>2. CASE Structure(v) \/ Look(v) \/ LookModules(v) \/ PollHit(v) \/ LockTimeout(v)
           \/ Failed(v) \/ Evidence(v) \/ Preview(v) \/ Die(v)
  BY <1>1, <1>2
  DEF Structure, Look, LookModules, PollHit, LockTimeout, Failed, Evidence, Preview, Die
<1>3. CASE CreateWorkspace(v) \/ Cleanup(v)
  BY <1>3 DEF RestOK, CreateWorkspace, Cleanup, history
<1>4. CASE Mark(v)
  <2>1. entry' \in [Fingerprints -> SUBSET Whole]
    BY <1>0, <1>4 DEF RestOK, Mark, Whole
  <2> QED  BY <1>0, <1>4, <2>1 DEF RestOK, Mark, history
<1>5. CASE Open(v) \/ Unlock(v)  BY <1>0, <1>5 DEF RestOK, Open, Unlock, history
<1>6. CASE Install(v) \/ StrayEnds(v)
  BY <1>6 DEF RestOK, Install, StrayEnds, history, disk
<1>7. CASE InstallEnds(v)
  <2>1. commands' = [commands EXCEPT ![v] = {}] /\ disturbed' \in {disturbed, disturbed \cup {v}}
    BY <1>7 DEF InstallEnds
  <2> QED  BY <1>7, <2>1 DEF RestOK, InstallEnds, disk
<1>8. CASE Publish(v) \/ Rename(v)
  BY <1>0, <1>8 DEF RestOK, Publish, Rename, history
<1>9. CASE Link(v)  BY <1>9 DEF RestOK, Link, disk
<1>10. CASE Ready(v)  BY <1>10, <1>1 DEF RestOK, Ready, disk, history
<1>11. CASE \E k \in Checks : CheckEnds(v, k)
  <2>1. PICK k \in Checks : CheckEnds(v, k)  BY <1>11
  <2>2. /\ commands' = [commands EXCEPT ![v] = @ \ {k}]
        /\ disturbed' \in {disturbed, disturbed \cup {v}}
    BY <2>1 DEF CheckEnds
  <2> QED  BY <2>1, <2>2 DEF RestOK, CheckEnds, disk
<1>12. CASE ChecksThrow(v)
  <2>1. /\ \E left \in SUBSET commands[v] : commands' = [commands EXCEPT ![v] = left]
        /\ disturbed' \in {disturbed, disturbed \cup {v}}
    BY <1>12 DEF ChecksThrow, RestOK
  <2> QED  BY <1>12, <2>1 DEF RestOK, ChecksThrow, disk
<1>13. CASE Abort(v)  BY <1>13 DEF RestOK, Abort, disk, history
<1> QED
  BY <1>2, <1>3, <1>4, <1>5, <1>6, <1>7, <1>8, <1>9, <1>10, <1>11, <1>12, <1>13 DEF Step

LEMMA CleanerRestOK ==
  ASSUME Typed, Scan \/ Pick \/ Reread \/ Relock \/ Remove
  PROVE  RestOK' /\ val' = val
<1> USE ValidationAssumption, TypeSplit DEF CleanerOK
<1>1. CASE Scan
  <2>1. [f \in Fingerprints |-> IF "complete" \in entry[f] THEN 2 ELSE 0]
          \in [Fingerprints -> 0 .. 2]
    OBVIOUS
  <2> QED  BY <1>1, <2>1 DEF RestOK, Scan, history
<1>2. CASE Pick
  <2>1. cleaner' \in [at : {"idle", "pick", "reread", "relock", "remove"},
                      list : [Fingerprints -> 0 .. 2], at_entry : Fingerprints \cup {None}]
    <3>1. CASE Goes("idle")  BY <3>1 DEF Goes, RestOK
    <3>2. ASSUME NEW f \in Fingerprints, cleaner.list[f] > 0
          PROVE  [cleaner.list EXCEPT ![f] = @ - 1] \in [Fingerprints -> 0 .. 2]
      BY <3>2 DEF RestOK
    <3>3. CASE ~Goes("idle")
      <4>1. PICK f \in Fingerprints :
              /\ cleaner.list[f] > 0
              /\ cleaner' = [at |-> IF lock[f] = None THEN "reread" ELSE "pick",
                             at_entry |-> IF lock[f] = None THEN f ELSE None,
                             list |-> [cleaner.list EXCEPT ![f] = @ - 1]]
        BY <1>2, <3>3 DEF Pick
      <4> QED  BY <4>1, <3>2
    <3> QED  BY <3>1, <3>3
  <2>2. CleanerOK'  BY <1>2 DEF RestOK, Pick, Goes
  <2> QED  BY <1>2, <2>1, <2>2 DEF RestOK, Pick, disk, history
<1>3. CASE Reread \/ Relock
  <2>1. cleaner' \in [at : {"idle", "pick", "reread", "relock", "remove"},
                      list : [Fingerprints -> 0 .. 2], at_entry : Fingerprints \cup {None}]
    <3>1. CASE Skip  BY <3>1 DEF Skip, RestOK
    <3>2. CASE Goes("relock")  BY <3>2 DEF Goes, RestOK
    <3>3. CASE Goes("remove")  BY <3>3 DEF Goes, RestOK
    <3> QED  BY <1>3, <3>1, <3>2, <3>3 DEF Reread, Relock
  <2>2. CleanerOK'
    <3>1. CASE Skip  BY <3>1 DEF Skip, RestOK
    <3>2. CASE Goes("relock") \/ Goes("remove")
      <4>1. cleaner'.at_entry = cleaner.at_entry  BY <3>2 DEF Goes, RestOK
      <4> QED  BY <1>3, <4>1 DEF RestOK, Reread, Relock
    <3> QED  BY <1>3, <3>1, <3>2 DEF Reread, Relock
  <2> QED  BY <1>3, <2>1, <2>2 DEF RestOK, Reread, Relock, disk, history
<1>4. CASE Remove
  <2>1. CASE Goes("idle") /\ UNCHANGED <<entry, history>>
    BY <1>4, <2>1 DEF RestOK, Remove, Goes, history
  <2>2. CASE ~(Goes("idle") /\ UNCHANGED <<entry, history>>)
    <3> DEFINE f == cleaner.at_entry
    <3>1. PICK part :
            /\ entry' = [entry EXCEPT ![f] = @ \ {part}]
            /\ torn' = torn \cup {f}
            /\ disturbed' = disturbed \cup {v \in Validations : Uses(v, f)}
            /\ IF part = "directory"
               THEN cleaner' = [at |-> "pick", at_entry |-> None,
                                list |-> [cleaner.list EXCEPT ![f] = 0]]
               ELSE UNCHANGED cleaner
      BY <1>4, <2>2 DEF Remove
    <3> QED  BY <1>4, <3>1 DEF RestOK, Remove
  <2> QED  BY <2>1, <2>2
<1> QED  BY <1>1, <1>2, <1>3, <1>4 DEF Scan, Pick, Reread, Relock, Remove
LEMMA NextTyped == Typed /\ [Next]_vars => Typed'
<1> SUFFICES ASSUME Typed, [Next]_vars PROVE Typed'  OBVIOUS
<1>0. TypeOK  BY DEF Typed
<1>1. CASE UNCHANGED vars
  BY <1>1 DEF Typed, TypeOK, CleanerOK, vars
<1>2. ASSUME NEW v \in Validations, Structure(v) \/ Step(v) \/ Abort(v) \/ Die(v)
      PROVE  Typed'
  <2>1. val' \in [Validations -> ValRecord]  BY <1>0, <1>2, OnlyStep DEF Only
  <2>2. RestOK'  BY <1>2, StepRestOK
  <2> QED  BY <2>1, <2>2 DEF Typed, TypeOK, ValRecord, RestOK
<1>3. CASE Scan \/ Pick \/ Reread \/ Relock \/ Remove
  <2>1. RestOK' /\ val' = val  BY <1>3, CleanerRestOK
  <2>2. val \in [Validations -> ValRecord]  BY TypeSplit
  <2> QED  BY <2>1, <2>2 DEF Typed, TypeOK, ValRecord, RestOK
<1> QED  BY <1>1, <1>2, <1>3 DEF Next

\* Every validation is at one of its steps and has a result of the known
\* categories, and the cleanup is at an entry of the cache.
THEOREM TypeCorrect == Spec => []Typed
<1> QED  BY InitTyped, NextTyped, PTL DEF Spec

-----------------------------------------------------------------------------
(* The lock, the directories and the commands.                             *)

\* The steps of a validation that leave another's lock, directories and
\* commands alone: all of them, the lock being let go only by its holder.
LEMMA OthersKeep ==
  ASSUME Typed, NEW v \in Validations, Tidy(v),
         Structure(v) \/ Step(v) \/ Abort(v) \/ Die(v),
         NEW u \in Validations \ {v}
  PROVE  /\ val'[u] = val[u] /\ commands'[u] = commands[u]
         /\ (u \in staging') = (u \in staging)
         /\ (u \in workspace') = (u \in workspace)
         /\ Holds(u)' = Holds(u)
<1> USE ValidationAssumption
<1>1. val'[u] = val[u]  BY OnlyStep DEF Only, Typed
<1>2. commands \in [Validations -> SUBSET (Checks \cup {"install"})]
  BY DEF Typed, TypeOK
<1>3. /\ \/ commands' = commands
         \/ \E new \in SUBSET (Checks \cup {"install"}) :
              commands' = [commands EXCEPT ![v] = new]
      /\ staging' \in {staging, staging \cup {v}, staging \ {v}}
      /\ workspace' \in {workspace, workspace \cup {v}, workspace \ {v}}
      /\ \/ lock' = lock
         \/ lock[F(v)] = None /\ lock' = [lock EXCEPT ![F(v)] = v]
         \/ val[v].at = "unlock" /\ lock' = [lock EXCEPT ![F(v)] = None]
  <2>1. CASE UNCHANGED <<commands, disk>>  BY <2>1 DEF disk
  <2>2. CASE Structure(v) \/ Look(v) \/ LookModules(v) \/ PollHit(v) \/ LockTimeout(v)
             \/ Failed(v) \/ Evidence(v) \/ Preview(v) \/ Die(v) \/ Link(v) \/ Abort(v)
    BY <2>1, <2>2
    DEF Structure, Look, LookModules, PollHit, LockTimeout, Failed, Evidence, Preview, Die,
        Link, Abort
  <2>3. CASE CreateWorkspace(v) \/ Cleanup(v) \/ Mark(v) \/ Publish(v) \/ Rename(v)
             \/ Open(v) \/ Unlock(v)
    BY <2>3 DEF CreateWorkspace, Cleanup, Mark, Publish, Rename, Open, Unlock, At
  <2>4. CASE Install(v) \/ StrayEnds(v) \/ InstallEnds(v) \/ Ready(v)
    BY <2>4 DEF Install, StrayEnds, InstallEnds, Ready, disk, Checks
  <2>5. CASE \E k \in Checks : CheckEnds(v, k)
    <3>1. PICK k \in Checks : CheckEnds(v, k)  BY <2>5
    <3>2. commands' = [commands EXCEPT ![v] = commands[v] \ {k}]
      BY <3>1 DEF CheckEnds
    <3> QED  BY <1>2, <3>1, <3>2 DEF CheckEnds, disk
  <2>6. CASE ChecksThrow(v)
    <3>1. \E left \in SUBSET commands[v] : commands' = [commands EXCEPT ![v] = left]
      BY <2>6 DEF ChecksThrow
    <3> QED  BY <1>2, <2>6, <3>1 DEF ChecksThrow, disk
  <2> QED  BY <2>2, <2>3, <2>4, <2>5, <2>6 DEF Step
<1>4. Holds(u)' = Holds(u)
  <2>1. /\ lock \in [Fingerprints -> Validations \cup {None}]
        /\ F(u) \in Fingerprints /\ F(v) \in Fingerprints
    BY DEF Typed, TypeOK, F
  <2>2. val[v].at = "unlock" => lock[F(v)] = v  BY DEF Tidy, Locked, Holds
  <2> QED  BY <1>3, <2>1, <2>2 DEF Holds, F
<1> QED  BY <1>1, <1>2, <1>3, <1>4

\* What the cleanup leaves alone.
LEMMA CleanerKeeps ==
  ASSUME Scan \/ Pick \/ Reread \/ Relock \/ Remove
  PROVE  UNCHANGED <<flaw, val, aborted, commands, workspace, staging, lock>>
BY DEF Scan, Pick, Reread, Relock, Remove, disk

LEMMA TidyUnchanged ==
  ASSUME NEW u \in Validations, Tidy(u),
         val'[u] = val[u], commands'[u] = commands[u],
         (u \in staging') = (u \in staging), (u \in workspace') = (u \in workspace),
         Holds(u)' = Holds(u)
  PROVE  Tidy(u)'
BY DEF Tidy

\* The validation that takes a step stays tidy, action by action.
LEMMA StepTidy ==
  ASSUME Typed, NEW v \in Validations, Tidy(v),
         Structure(v) \/ Step(v) \/ Abort(v) \/ Die(v)
  PROVE  Tidy(v)'
<1> USE ValidationAssumption DEF At
<1>0. /\ TypeOK
      /\ lock \in [Fingerprints -> Validations \cup {None}] /\ F(v) \in Fingerprints
      /\ commands \in [Validations -> SUBSET (Checks \cup {"install"})]
  BY DEF Typed, TypeOK, F
<1> USE <1>0
<1>1. CASE Structure(v)
  <2>1. val'[v].at \in {"done", "structure"}
    <3>1. CASE v \in aborted  BY <1>1, <3>1, EndStep DEF Structure
    <3>2. CASE v \notin aborted /\ ~(validateProjectStructure(flaw[v]) /\ validateSource(flaw[v]))
      <4>1. flaw[v] \in Flaws  BY DEF TypeOK
      <4>2. Verdict(flaw[v]) \in Categories
        BY <3>2, <4>1 DEF Flaws, Verdict, Categories, validateProjectStructure, validateSource
      <4> QED  BY <1>1, <3>2, <4>2, EndStep DEF Structure
    <3>3. CASE v \notin aborted /\ validateProjectStructure(flaw[v]) /\ validateSource(flaw[v])
      BY <1>1, <3>3, ToStep DEF Structure, Steps
    <3> QED  BY <3>1, <3>2, <3>3
  <2> QED  BY <1>1, <2>1 DEF Structure, disk, Tidy, Holds, F, Locked, MayLock, Installing, Over
<1>2. CASE CreateWorkspace(v)
  BY <1>2, ToStep, EndStep
  DEF CreateWorkspace, Steps, Tidy, Holds, F, Locked, MayLock, Installing, Over
<1>3. CASE Look(v)
  <2>1. \/ ~Holds(v) /\ val'[v].at \in {"finally", "look2", "open"}
        \/ Holds(v) /\ val[v].at = "held" /\ val'[v].at \in {"look2", "install"}
    BY <1>3, ToStep, LeaveStep DEF Look, Steps, Tidy, MayLock, Locked, Installing
  <2> QED  BY <1>3, <2>1 DEF Look, disk, Tidy, Holds, F, Locked, MayLock, Installing, Over
<1>4. CASE LookModules(v)
  <2>1. (IF Holds(v) THEN "install" ELSE "open") \in Steps  BY DEF Steps
  <2>2. val'[v].at \in {"mark", IF Holds(v) THEN "install" ELSE "open"}
    BY <1>4, <2>1, ToStep DEF LookModules, Steps
  <2> QED  BY <1>4, <2>2 DEF LookModules, disk, Tidy, Holds, F, Locked, MayLock, Installing, Over
<1>5. CASE Mark(v) \/ LockTimeout(v)
  <2>1. val'[v].at \in {"link", IF Holds(v) THEN "unlock" ELSE "failed"} /\ val'[v].at # "dead"
    BY <1>5, ToStep, ThrowStep DEF Mark, LockTimeout, Steps
  <2>2. val[v].at = "open" => val'[v].at # "link"
    BY <1>5, ThrowStep DEF Mark, LockTimeout
  <2> QED  BY <1>5, <2>1, <2>2
           DEF Mark, LockTimeout, disk, Tidy, Holds, F, Locked, MayLock, Installing, Over
<1>6. CASE Open(v) \/ PollHit(v)
  <2>1. val'[v].at = IF Open(v) THEN "held" ELSE "mark"
    BY <1>6, ToStep DEF Open, PollHit, Steps
  <2>2. Open(v) => lock'[F(v)] = v  BY DEF Open
  <2> QED  BY <1>6, <2>1, <2>2
           DEF Open, PollHit, disk, Tidy, Holds, F, Locked, MayLock, Installing, Over
<1>7. CASE Install(v)
  BY <1>7 DEF Install, Tidy, Holds, F, Locked, MayLock, Installing, Over
<1>8. CASE InstallEnds(v)
  <2>1. val'[v].at \in {"publish", "unlock"}
    BY <1>8, ToStep, ThrowStep
    DEF InstallEnds, Steps, Categories, Tidy, Locked, Installing
  <2>2. commands'[v] = {}  BY <1>8 DEF InstallEnds
  <2> QED  BY <1>8, <2>1, <2>2
           DEF InstallEnds, disk, Tidy, Holds, F, Locked, MayLock, Installing, Over
<1>9. CASE Publish(v) \/ Rename(v)
  <2>1. val'[v].at = IF val[v].at = "publish" THEN "rename" ELSE "link"
    BY <1>9, ToStep DEF Publish, Rename, Steps
  <2> QED  BY <1>9, <2>1 DEF Publish, Rename, Tidy, Holds, F, Locked, MayLock, Installing, Over
<1>10. CASE Link(v)
  <2>1. (IF Holds(v) THEN "unlock" ELSE "ready") \in Steps  BY DEF Steps
  <2>2. val'[v].at = IF Holds(v) THEN "unlock" ELSE "ready"
    BY <1>10, <2>1, ToStep DEF Link
  <2> QED  BY <1>10, <2>2 DEF Link, disk, Tidy, Holds, F, Locked, MayLock, Installing, Over
<1>11. CASE Unlock(v)
  <2>1. (IF val[v].error = "none" THEN "ready" ELSE "failed") \in Steps  BY DEF Steps
  <2>2. val'[v].at \in {"ready", "failed"}  BY <1>11, <2>1, ToStep DEF Unlock
  <2>3. lock'[F(v)] = None  BY <1>11 DEF Unlock
  <2> QED  BY <1>11, <2>2, <2>3
           DEF Unlock, disk, Tidy, Holds, F, Locked, MayLock, Installing, Over
<1>12. CASE Failed(v)
  <2>1. val'[v].at \in {"finally", "look"}
    <3>1. val[v].error \in Categories \cup {"none", "other"}  BY DEF TypeOK
    <3>2. (IF val[v].error = "other" THEN "INFRA_ERROR" ELSE val[v].error)
            \in Categories \cup {"none", "passed", "aborted", "thrown"}
      BY <3>1 DEF Categories
    <3>3. CASE v \in aborted  BY <1>12, <3>3, LeaveStep DEF Failed
    <3>4. CASE v \notin aborted /\ MayRetry(v)  BY <1>12, <3>4, RetryStep DEF Failed
    <3>5. CASE v \notin aborted /\ ~MayRetry(v)  BY <1>12, <3>2, <3>5, LeaveStep DEF Failed
    <3> QED  BY <3>3, <3>4, <3>5
  <2> QED  BY <1>12, <2>1 DEF Failed, disk, Tidy, Holds, F, Locked, MayLock, Installing, Over
<1>13. CASE Ready(v)
  <2>1. val'[v].at = "checks" \/ (val'[v].at = "finally" /\ commands' = commands)
    BY <1>13, ToStep, LeaveStep DEF Ready, Steps
  <2> QED  BY <1>13, <2>1 DEF Ready, disk, Tidy, Holds, F, Locked, MayLock, Installing, Over
<1>14. CASE \E k \in Checks : CheckEnds(v, k)
  <2>1. PICK k \in Checks : CheckEnds(v, k)  BY <1>14
  <2>2. PICK c \in {"none", "CODE_ERROR", "INFRA_ERROR"} : Reports(v, k, c)
    BY <2>1 DEF CheckEnds, Reports
  <2>3. val'[v].at = IF commands[v] = {k} THEN "evidence" ELSE "checks"
    <3>1. val'[v].at = IF commands[v] = {k} THEN "evidence" ELSE val[v].at
      BY <2>2, ResultStep
    <3>2. val[v].at = "checks"  BY <2>1 DEF CheckEnds
    <3> QED  BY <3>1, <3>2
  <2>4. commands'[v] = commands[v] \ {k}  BY <2>1 DEF CheckEnds
  <2> QED  BY <2>1, <2>3, <2>4
           DEF CheckEnds, disk, Tidy, Holds, F, Locked, MayLock, Installing, Over
<1>15. CASE ChecksThrow(v)
  <2>1. /\ val'[v].at = "finally"
        /\ v \in aborted => commands'[v] = {}
        /\ v \notin aborted => val'[v].out = "thrown"
    BY <1>15, LeaveStep DEF ChecksThrow
  <2> QED  BY <1>15, <2>1 DEF ChecksThrow, disk, Tidy, Holds, F, Locked, MayLock, Installing, Over
<1>16. CASE Evidence(v) \/ Preview(v)
  <2>1. val'[v].at \in {"preview", "finally"}
    <3>1. \A k \in Checks : val[v].result[k] \in Categories \cup {"none"}  BY DEF TypeOK
    <3>2. "type-check" \in Checks /\ "build" \in Checks  BY DEF Checks
    <3>3. (IF v \in aborted THEN "aborted" ELSE "passed")
            \in Categories \cup {"none", "passed", "aborted", "thrown"}
      BY DEF Categories
    <3>4. CASE Evidence(v)
      BY <3>1, <3>2, <3>4, ToStep, LeaveStep DEF Evidence, Steps, Categories
    <3>5. CASE Preview(v)  BY <3>3, <3>5, LeaveStep DEF Preview, Categories
    <3> QED  BY <1>16, <3>4, <3>5
  <2> QED  BY <1>16, <2>1
           DEF Evidence, Preview, disk, Tidy, Holds, F, Locked, MayLock, Installing, Over
<1>17. CASE Cleanup(v)
  <2>1. val'[v].at = "done" /\ val'[v].out = val[v].out
    BY <1>17, ToStep DEF Cleanup, Steps
  <2> QED  BY <1>17, <2>1 DEF Cleanup, Tidy, Holds, F, Locked, MayLock, Installing, Over
<1>18. CASE Die(v)
  <2>1. val'[v].at = "dead"  BY <1>18, ToStep DEF Die, Steps
  <2> QED  BY <1>18, <2>1 DEF Die, disk, Tidy, Holds, F, Locked, MayLock, Installing, Over
<1>19. CASE StrayEnds(v) \/ Abort(v)
  <2>1. commands'[v] \in {{}, commands[v]}  BY <1>19 DEF StrayEnds, Abort
  <2> QED  BY <1>19, <2>1 DEF StrayEnds, Abort, disk, Tidy, Holds, F
<1> QED
  BY <1>1, <1>2, <1>3, <1>4, <1>5, <1>6, <1>7, <1>8, <1>9, <1>10, <1>11, <1>12, <1>13,
     <1>14, <1>15, <1>16, <1>17, <1>18, <1>19 DEF Step

LEMMA InitTidy == Init => TidyInv
<1> SUFFICES ASSUME Init, NEW v \in Validations PROVE Tidy(v)
  BY DEF TidyInv
<1>1. val[v].at = "idle" /\ lock[F(v)] = None /\ commands[v] = {}
  BY ValidationAssumption DEF Init, F
<1> QED
  BY <1>1, ValidationAssumption DEF Init, Tidy, Holds, Locked, MayLock, Installing

LEMMA NextTidy == Typed /\ TidyInv /\ [Next]_vars => TidyInv'
<1> SUFFICES ASSUME Typed, TidyInv, [Next]_vars, NEW u \in Validations PROVE Tidy(u)'
  BY DEF TidyInv
<1>0. Tidy(u)  BY DEF TidyInv
<1>1. CASE UNCHANGED vars
  BY <1>0, <1>1 DEF vars, Tidy, Holds, F
<1>2. ASSUME NEW v \in Validations, Structure(v) \/ Step(v) \/ Abort(v) \/ Die(v)
      PROVE  Tidy(u)'
  <2>1. Tidy(v)  BY DEF TidyInv
  <2>2. CASE u = v  BY <1>2, <2>1, <2>2, StepTidy
  <2>3. CASE u # v
    <3>1. /\ val'[u] = val[u] /\ commands'[u] = commands[u]
          /\ (u \in staging') = (u \in staging)
          /\ (u \in workspace') = (u \in workspace)
          /\ Holds(u)' = Holds(u)
      BY <1>2, <2>1, <2>3, OthersKeep
    <3> QED  BY <1>0, <3>1, TidyUnchanged
  <2> QED  BY <2>2, <2>3
<1>3. CASE Scan \/ Pick \/ Reread \/ Relock \/ Remove
  BY <1>0, <1>3, CleanerKeeps DEF Tidy, Holds, F
<1> QED  BY <1>1, <1>2, <1>3 DEF Next

LEMMA TidyAlways == Spec => [](Typed /\ TidyInv)
<1>1. Init => Typed /\ TidyInv  BY InitTyped, InitTidy
<1>2. Typed /\ TidyInv /\ [Next]_vars => (Typed /\ TidyInv)'
  BY NextTyped, NextTidy
<1> QED  BY <1>1, <1>2, PTL DEF Spec

\* A validation that is over has removed its workspace and its staging directory
\* and let go of the lock in its finally blocks, and has no command running but
\* one whose companion's report could not be stored.
THEOREM TidyAfterwards == Spec => []NothingIsLeftBehind
<1>1. Typed /\ TidyInv => NothingIsLeftBehind
  BY DEF TidyInv, Tidy, NothingIsLeftBehind, At, MayLock, Locked, Installing, Over
<1> QED  BY <1>1, TidyAlways, PTL

\* The lock of a fingerprint lets only its creator install: of the validations
\* with the same dependencies, one at a time does.
THEOREM OneInstaller == Spec => []OneInstallsAtATime
<1>1. ASSUME Typed, TidyInv, NEW f \in Fingerprints
      PROVE  Cardinality({v \in Validations : /\ F(v) = f
                           /\ val[v].at \in {"install", "publish", "rename"}}) <= 1
  <2> DEFINE S == {v \in Validations : /\ F(v) = f
                                       /\ val[v].at \in {"install", "publish", "rename"}}
  <2>1. \A v \in S : v = lock[f]
    BY <1>1 DEF TidyInv, Tidy, Locked, Installing, Holds
  <2>2. S = {} \/ S = {lock[f]}  BY <2>1
  <2>3. Cardinality({}) = 0 /\ Cardinality({lock[f]}) = 1
    BY FS_EmptySet, FS_Singleton
  <2> HIDE DEF S
  <2>4. Cardinality(S) <= 1  BY <2>2, <2>3
  <2> QED  BY <2>4 DEF S
<1>2. Typed /\ TidyInv => OneInstallsAtATime
  BY <1>1 DEF OneInstallsAtATime
<1> QED  BY <1>2, TidyAlways, PTL

-----------------------------------------------------------------------------
(* The verdict.                                                            *)

LEMMA VerdictFollows == (\A v \in Validations : OnProject(v)) => VerdictIsFair
  BY DEF OnProject, Blames, VerdictIsFair

LEMMA InitFair == Init => FairInv
<1> SUFFICES ASSUME Init PROVE FairInv  OBVIOUS
<1>1. EntryInv  BY DEF Init, EntryInv
<1>2. ASSUME NEW v \in Validations PROVE OnEntry(v) /\ OnProject(v)
  <2>1. /\ val[v].at = "idle" /\ val[v].error = "none" /\ val[v].out = "none"
        /\ val[v].result = [k \in Checks |-> "none"]
        /\ F(v) \in Fingerprints /\ entry[F(v)] = {}
    BY ValidationAssumption DEF Init, F
  <2> QED
    BY <2>1
    DEF OnEntry, OnProject, Linked, Installing, Uninstallable, Blames, Categories
<1> QED  BY <1>1, <1>2 DEF FairInv

\* History only grows, and a step that does not touch a validation's record,
\* commands and project leaves what it has found as it is.
LEMMA ProjectUnchanged ==
  ASSUME NEW u \in Validations, OnProject(u), val'[u] = val[u],
         commands'[u] = commands[u], flaw' = flaw, disturbed \subseteq disturbed'
  PROVE  OnProject(u)'
BY DEF OnProject, Blames

\* A step on which nothing is found out about the project.
LEMMA NothingFound ==
  ASSUME NEW v \in Validations, OnProject(v), flaw' = flaw, disturbed \subseteq disturbed',
         val[v].at # "idle", val[v].at \in {"done", "dead"} => val'[v].at = val[v].at,
         val'[v].at \in {"checks", "evidence", "preview"} =>
           \/ val'[v].at = val[v].at /\ commands'[v] = commands[v]
           \/ val'[v].at = "checks" /\ commands'[v] = Checks,
         val'[v].error \in {"none", "other", "INFRA_ERROR", val[v].error},
         val'[v].result = val[v].result,
         val'[v].out \in {"none", "aborted", "thrown", "INFRA_ERROR", val[v].out}
  PROVE  OnProject(v)'
<1>1. Blames(v, val[v].out)'
  BY DEF OnProject, Blames, Categories
<1> QED  BY <1>1 DEF OnProject, Blames, validateBuild

\* The validation that takes a step blames only the project, action by action.
LEMMA StepProject ==
  ASSUME Typed, NEW v \in Validations, Tidy(v), OnEntry(v), OnProject(v),
         Structure(v) \/ Step(v) \/ Abort(v) \/ Die(v)
  PROVE  OnProject(v)'
<1> USE ValidationAssumption DEF At
<1>0. /\ TypeOK
      /\ flaw[v] \in Flaws
      /\ commands \in [Validations -> SUBSET (Checks \cup {"install"})]
      /\ val[v].result \in [Checks -> Categories \cup {"none"}]
      /\ "type-check" \in Checks /\ "build" \in Checks
  BY DEF Typed, TypeOK, Checks
<1> USE <1>0
<1>1. CASE Structure(v)
  <2>0. UNCHANGED <<flaw, disturbed, commands>> /\ val[v].at = "idle"
    BY <1>1 DEF Structure, history
  <2>1. CASE v \in aborted
    <3>1. /\ val'[v].at = "done" /\ val'[v].error = val[v].error
          /\ val'[v].result = val[v].result /\ val'[v].out = "aborted"
      BY <1>1, <2>1, EndStep DEF Structure
    <3> QED  BY <2>0, <3>1 DEF OnProject, Blames, Categories
  <2>2. CASE v \notin aborted /\ ~(validateProjectStructure(flaw[v]) /\ validateSource(flaw[v]))
    <3>1. Verdict(flaw[v]) \in Categories
      BY <2>2 DEF Flaws, Verdict, Categories, validateProjectStructure, validateSource
    <3>2. /\ val'[v].at = "done" /\ val'[v].error = val[v].error
          /\ val'[v].result = val[v].result /\ val'[v].out = Verdict(flaw[v])
      BY <1>1, <2>2, <3>1, EndStep DEF Structure
    <3> QED  BY <2>0, <3>2 DEF OnProject, Blames
  <2>3. CASE v \notin aborted /\ validateProjectStructure(flaw[v]) /\ validateSource(flaw[v])
    <3>1. /\ val'[v].at = "structure" /\ val'[v].error = val[v].error
          /\ val'[v].result = val[v].result /\ val'[v].out = val[v].out
      BY <1>1, <2>3, ToStep DEF Structure, Steps
    <3>2. flaw[v] \notin {"structure", "manifest", "styling"}
      BY <2>3 DEF validateProjectStructure, validateSource
    <3> QED  BY <2>0, <3>1, <3>2 DEF OnProject, Blames
  <2> QED  BY <2>1, <2>2, <2>3
<1>2. CASE CreateWorkspace(v)
  <2>1. /\ val'[v].at \in {"look", "done"} /\ val'[v].error = val[v].error
        /\ val'[v].result = val[v].result /\ val'[v].out \in {val[v].out, "thrown"}
    <3>1. CASE To(v, "look")  BY <3>1, ToStep DEF Steps
    <3>2. CASE ~To(v, "look")  BY <1>2, <3>2, EndStep DEF CreateWorkspace
    <3> QED  BY <3>1, <3>2
  <2> QED  BY <1>2, <2>1, NothingFound DEF CreateWorkspace, history
<1>3. CASE Look(v)
  <2>1. /\ val'[v].at \in {"finally", "look2", "open", "install"}
        /\ val'[v].error = val[v].error
        /\ val'[v].result = val[v].result /\ val'[v].out \in {val[v].out, "aborted"}
    BY <1>3, ToStep, LeaveStep DEF Look, Steps
  <2> QED  BY <1>3, <2>1, NothingFound DEF Look, history
<1>4. CASE LookModules(v)
  <2>1. (IF Holds(v) THEN "install" ELSE "open") \in Steps  BY DEF Steps
  <2>2. /\ val'[v].at \in {"mark", "install", "open"} /\ val'[v].error = val[v].error
        /\ val'[v].result = val[v].result /\ val'[v].out = val[v].out
    BY <1>4, <2>1, ToStep DEF LookModules, Steps
  <2> QED  BY <1>4, <2>2, NothingFound DEF LookModules, history
<1>5. CASE Mark(v) \/ LockTimeout(v)
  <2>1. /\ val'[v].at \in {"link", "unlock", "failed"}
        /\ val'[v].error \in {val[v].error, "other"}
        /\ val'[v].result = val[v].result /\ val'[v].out = val[v].out
    BY <1>5, ToStep, ThrowStep DEF Mark, LockTimeout, Steps
  <2> QED  BY <1>5, <2>1, NothingFound DEF Mark, LockTimeout, history
<1>6. CASE Open(v) \/ PollHit(v)
  <2>1. /\ val'[v].at \in {"held", "mark"} /\ val'[v].error = val[v].error
        /\ val'[v].result = val[v].result /\ val'[v].out = val[v].out
    BY <1>6, ToStep DEF Open, PollHit, Steps
  <2> QED  BY <1>6, <2>1, NothingFound DEF Open, PollHit, history
<1>7. CASE Install(v) \/ Abort(v)
  <2>1. CASE Install(v)  BY <2>1, NothingFound DEF Install, history
  <2>2. CASE Abort(v)  BY <2>2, ProjectUnchanged DEF Abort, history
  <2> QED  BY <1>7, <2>1, <2>2
<1>8. CASE InstallEnds(v)
  <2>1. /\ val'[v].at \in {"publish", "unlock", "failed"}
        /\ val'[v].error \in {val[v].error, "other", "INFRA_ERROR", "DEPENDENCY_ERROR"}
        /\ val'[v].result = val[v].result /\ val'[v].out = val[v].out
    <3>1. \/ Throw(v, "other") \/ Throw(v, "INFRA_ERROR") \/ To(v, "publish")
          \/ Throw(v, "DEPENDENCY_ERROR")
      BY <1>8 DEF InstallEnds
    <3> QED  BY <3>1, ToStep, ThrowStep DEF Steps, Categories
  <2>2. val'[v].error = "DEPENDENCY_ERROR" /\ v \notin disturbed'
          => flaw[v] = "dependency" \/ val[v].error = "DEPENDENCY_ERROR"
    <3>1. \/ Throw(v, "other") \/ Throw(v, "INFRA_ERROR") \/ To(v, "publish")
          \/ Throw(v, "DEPENDENCY_ERROR") /\ (flaw[v] = "dependency" \/ v \in disturbed')
      <4>1. CASE v \in aborted  BY <1>8, <4>1 DEF InstallEnds
      <4>2. CASE v \notin aborted
        <5>1. \/ IF flaw[v] = "dependency" THEN Throw(v, "DEPENDENCY_ERROR") ELSE To(v, "publish")
              \/ Throw(v, "INFRA_ERROR")
              \/ Throw(v, "DEPENDENCY_ERROR") /\ disturbed' = disturbed \cup {v}
          BY <1>8, <4>2 DEF InstallEnds
        <5> QED  BY <5>1
      <4> QED  BY <4>1, <4>2
    <3>2. /\ To(v, "publish") => val'[v].error = val[v].error
          /\ Throw(v, "other") => val'[v].error = "other"
          /\ Throw(v, "INFRA_ERROR") => val'[v].error = "INFRA_ERROR"
      BY ToStep, ThrowStep DEF Steps, Categories
    <3> QED  BY <3>1, <3>2
  <2>3. disturbed \subseteq disturbed' /\ flaw' = flaw /\ val[v].at = "install"
    <3>1. disturbed' = disturbed \/ disturbed' = disturbed \cup {v}  BY <1>8 DEF InstallEnds
    <3>2. flaw' = flaw /\ val[v].at = "install"  BY <1>8 DEF InstallEnds
    <3> QED  BY <3>1, <3>2
  <2> QED  BY <2>1, <2>2, <2>3 DEF OnProject, Blames
<1>9. CASE Publish(v) \/ Rename(v)
  <2>1. /\ val'[v].at \in {"rename", "link"} /\ val'[v].error = val[v].error
        /\ val'[v].result = val[v].result /\ val'[v].out = val[v].out
    BY <1>9, ToStep DEF Publish, Rename, Steps
  <2> QED  BY <1>9, <2>1, NothingFound DEF Publish, Rename, history
<1>10. CASE Link(v)
  <2>1. (IF Holds(v) THEN "unlock" ELSE "ready") \in Steps  BY DEF Steps
  <2>2. /\ val'[v].at \in {"unlock", "ready"} /\ val'[v].error = val[v].error
        /\ val'[v].result = val[v].result /\ val'[v].out = val[v].out
    BY <1>10, <2>1, ToStep DEF Link
  <2>3. disturbed \subseteq disturbed' /\ flaw' = flaw  BY <1>10 DEF Link
  <2> QED  BY <1>10, <2>2, <2>3, NothingFound DEF Link
<1>11. CASE Unlock(v)
  <2>1. (IF val[v].error = "none" THEN "ready" ELSE "failed") \in Steps  BY DEF Steps
  <2>2. /\ val'[v].at \in {"ready", "failed"} /\ val'[v].error = val[v].error
        /\ val'[v].result = val[v].result /\ val'[v].out = val[v].out
    BY <1>11, <2>1, ToStep DEF Unlock
  <2> QED  BY <1>11, <2>2, NothingFound DEF Unlock, history
<1>12. CASE Failed(v)
  <2>0. UNCHANGED <<flaw, disturbed>> /\ val[v].at = "failed"
    BY <1>12 DEF Failed, history
  <2>1. CASE v \in aborted
    <3>1. /\ val'[v].at = "finally" /\ val'[v].error = val[v].error
          /\ val'[v].result = val[v].result /\ val'[v].out = "aborted"
      BY <1>12, <2>1, LeaveStep DEF Failed
    <3> QED  BY <2>0, <3>1, NothingFound
  <2>2. CASE v \notin aborted /\ MayRetry(v)
    <3>1. /\ val'[v].at = "look" /\ val'[v].error = "none"
          /\ val'[v].result = val[v].result /\ val'[v].out = val[v].out
      BY <1>12, <2>2, RetryStep DEF Failed
    <3> QED  BY <2>0, <3>1, NothingFound
  <2>3. CASE v \notin aborted /\ ~MayRetry(v)
    <3> DEFINE o == IF val[v].error = "other" THEN "INFRA_ERROR" ELSE val[v].error
    <3>1. o \in Categories \cup {"none", "passed", "aborted", "thrown"}
      BY DEF OnProject, Categories
    <3>2. /\ val'[v].at = "finally" /\ val'[v].error = val[v].error
          /\ val'[v].result = val[v].result /\ val'[v].out = o
      BY <1>12, <2>3, <3>1, LeaveStep DEF Failed
    <3>3. Blames(v, val'[v].out)  BY <3>2 DEF OnProject, Blames, Categories, Verdict
    <3>4. Blames(v, val[v].out)'  BY <2>0, <3>3 DEF Blames
    <3> QED  BY <2>0, <3>2, <3>4 DEF OnProject
  <2> QED  BY <2>1, <2>2, <2>3
<1>13. CASE Ready(v)
  <2>1. /\ \/ val'[v].at = "checks" /\ commands'[v] = Checks
           \/ val'[v].at = "finally"
        /\ val'[v].error = val[v].error
        /\ val'[v].result = val[v].result /\ val'[v].out \in {val[v].out, "aborted"}
    BY <1>13, ToStep, LeaveStep DEF Ready, Steps
  <2> QED  BY <1>13, <2>1, NothingFound DEF Ready, history
<1>14. CASE \E k \in Checks : CheckEnds(v, k)
  <2>1. PICK k \in Checks : CheckEnds(v, k)  BY <1>14
  <2>2. PICK c \in {"none", "CODE_ERROR", "INFRA_ERROR"} :
          /\ CASE c = "INFRA_ERROR" -> Fault /\ UNCHANGED disturbed
               [] c = "CODE_ERROR" ->
                    IF Breaks(v, k) \/ v \in disturbed THEN UNCHANGED <<disturbed, bounds>>
                    ELSE Fault /\ disturbed' = disturbed \cup {v}
               [] c = "none" -> ~Breaks(v, k) /\ UNCHANGED <<disturbed, bounds>>
          /\ Reports(v, k, c)
    BY <2>1 DEF CheckEnds, Reports
  <2>3. /\ val'[v].at = IF commands[v] = {k} THEN "evidence" ELSE val[v].at
        /\ val'[v].error = val[v].error /\ val'[v].out = val[v].out
        /\ \A i \in Checks : val'[v].result[i] = IF i = k THEN c ELSE val[v].result[i]
    BY <2>2, ResultStep
  <2>4. /\ val[v].at = "checks" /\ flaw' = flaw
        /\ commands'[v] = commands[v] \ {k}
    BY <2>1 DEF CheckEnds
  <2>5. disturbed \subseteq disturbed' /\ (c # "CODE_ERROR" => disturbed' = disturbed)
    BY <2>2
  <2>6. Breaks(v, k) /\ v \notin disturbed => flaw[v] = FlawOf(k)
    BY <2>4 DEF Breaks, FlawOf, OnEntry, Linked, Whole
  <2>7. c = "none" => flaw[v] # FlawOf(k)  BY <2>2 DEF Breaks, FlawOf
  <2>8. c = "CODE_ERROR" /\ v \notin disturbed' => flaw[v] = FlawOf(k)
    BY <2>2, <2>6
  <2>9. Blames(v, val[v].out)'  BY <2>3, <2>4, <2>5 DEF OnProject, Blames
  <2> QED  BY <2>3, <2>4, <2>5, <2>7, <2>8, <2>9 DEF OnProject
<1>15. CASE ChecksThrow(v)
  <2>1. /\ val'[v].at = "finally" /\ val'[v].error = val[v].error
        /\ val'[v].result = val[v].result /\ val'[v].out \in {"aborted", "thrown"}
    BY <1>15, LeaveStep DEF ChecksThrow
  <2>2. disturbed \subseteq disturbed' /\ flaw' = flaw /\ val[v].at = "checks"
    BY <1>15 DEF ChecksThrow
  <2> QED  BY <2>1, <2>2, NothingFound
<1>16. CASE Evidence(v)
  <2>0. /\ UNCHANGED <<flaw, disturbed, commands>> /\ val[v].at = "evidence"
        /\ commands[v] = {}
    BY <1>16 DEF Evidence, history, Tidy, Over
  <2> DEFINE result == val[v].result
  <2>1. \A k \in Checks :
          /\ result[k] \in {"none", "CODE_ERROR", "INFRA_ERROR"}
          /\ result[k] = "none" => flaw[v] # FlawOf(k)
          /\ result[k] # "none" => Blames(v, result[k])
    BY <2>0 DEF OnProject, Blames, Categories, Verdict, FlawOf
  <2>2. \/ /\ val'[v].at = "finally"
           /\ \/ \E k \in Checks : result[k] # "none" /\ val'[v].out = result[k]
              \/ /\ val'[v].out = "STYLING_CONFIGURATION_ERROR" /\ ~validateBuild(flaw[v])
        \/ /\ val'[v].at = "preview" /\ validateBuild(flaw[v]) /\ val'[v].out = val[v].out
           /\ \A k \in Checks : result[k] = "none"
    BY <1>16, <2>1, ToStep, LeaveStep DEF Evidence, Steps, Categories, Checks
  <2>3. val'[v].error = val[v].error /\ val'[v].result = val[v].result
    BY <1>16, <2>1, ToStep, LeaveStep DEF Evidence, Steps, Categories
  <2>4. Blames(v, val'[v].out)
    BY <2>1, <2>2 DEF OnProject, Blames, validateBuild, Verdict, Categories
  <2>5. Blames(v, val[v].out)'  BY <2>0, <2>4 DEF Blames
  <2> QED  BY <2>0, <2>2, <2>3, <2>5 DEF OnProject, validateBuild
<1>17. CASE Preview(v)
  <2>0. /\ UNCHANGED <<flaw, disturbed, commands>> /\ val[v].at = "preview"
        /\ commands[v] = {}
    BY <1>17 DEF Preview, history, Tidy, Over
  <2>1. (IF v \in aborted THEN "aborted" ELSE "passed")
          \in Categories \cup {"none", "passed", "aborted", "thrown"}
    BY DEF Categories
  <2>2. /\ val'[v].at = "finally" /\ val'[v].out \in {"aborted", "passed", "INFRA_ERROR"}
        /\ val'[v].error = val[v].error /\ val'[v].result = val[v].result
    BY <1>17, <2>1, LeaveStep DEF Preview, Categories
  <2>3. flaw[v] = "none"
    BY <2>0
    DEF OnProject, OnEntry, Uninstallable, validateBuild, FlawOf, Flaws, Checks
  <2>4. Blames(v, val[v].out)'  BY <2>0, <2>2, <2>3 DEF Blames, Verdict, Categories
  <2> QED  BY <2>0, <2>2, <2>4 DEF OnProject
<1>18. CASE Cleanup(v) \/ Die(v)
  <2>1. /\ val'[v].at \in {"done", "dead"} /\ val'[v].error = val[v].error
        /\ val'[v].result = val[v].result /\ val'[v].out = val[v].out
    BY <1>18, ToStep DEF Cleanup, Die, Steps
  <2> QED  BY <1>18, <2>1, NothingFound DEF Cleanup, Die, history
<1>19. CASE StrayEnds(v)
  BY <1>19, NothingFound DEF StrayEnds, OnProject, history
<1> QED
  BY <1>1, <1>2, <1>3, <1>4, <1>5, <1>6, <1>7, <1>8, <1>9, <1>10, <1>11, <1>12, <1>13,
     <1>14, <1>15, <1>16, <1>17, <1>18, <1>19 DEF Step

LEMMA EntryUnchanged ==
  ASSUME NEW u \in Validations, OnEntry(u), val'[u] = val[u], flaw' = flaw,
         entry'[F(u)] = entry[F(u)], F(u) \in torn <=> F(u) \in torn',
         disturbed \subseteq disturbed'
  PROVE  OnEntry(u)'
<1>1. F(u)' = F(u)  BY DEF F
<1> QED  BY <1>1 DEF OnEntry, Linked

\* The validation that takes a step relies on the entry of its dependencies only
\* as it has found it, installed it or been told by the lock's holder. The steps
\* that write the entry are dealt with below.
LEMMA StepEntry ==
  ASSUME Typed, NEW v \in Validations, Tidy(v), EntryInv, OnEntry(v), OnProject(v),
         Structure(v) \/ Step(v) \/ Abort(v) \/ Die(v),
         ~(Mark(v) \/ Publish(v) \/ Rename(v))
  PROVE  UNCHANGED <<flaw, entry, torn>> /\ disturbed \subseteq disturbed' /\ OnEntry(v)'
<1> USE ValidationAssumption DEF At
<1>0. /\ TypeOK
      /\ flaw[v] \in Flaws /\ F(v) \in Fingerprints
      /\ val[v].at \in Steps
      /\ F(v) \notin torn => entry[F(v)] \in {{}, Whole}
  BY DEF Typed, TypeOK, F, EntryInv
<1>1. F(v)' = F(v)  BY DEF F
<1>2. {"complete", "modules"} \subseteq Whole  BY DEF Whole
<1> USE <1>0, <1>1, <1>2
<1>3. CASE Structure(v)
  <2>0. UNCHANGED <<flaw, entry, torn, disturbed>> /\ val[v].at = "idle"
    BY <1>3 DEF Structure, history, disk
  <2>1. val'[v].at \in {"done", "structure"}
    <3>1. CASE v \in aborted  BY <1>3, <3>1, EndStep DEF Structure
    <3>2. CASE v \notin aborted /\ ~(validateProjectStructure(flaw[v]) /\ validateSource(flaw[v]))
      <4>1. Verdict(flaw[v]) \in Categories
        BY <3>2 DEF Flaws, Verdict, Categories, validateProjectStructure, validateSource
      <4> QED  BY <1>3, <3>2, <4>1, EndStep DEF Structure
    <3>3. CASE v \notin aborted /\ validateProjectStructure(flaw[v]) /\ validateSource(flaw[v])
      BY <1>3, <3>3, ToStep DEF Structure, Steps
    <3> QED  BY <3>1, <3>2, <3>3
  <2> QED  BY <2>0, <2>1 DEF OnEntry, Linked, Installing, Uninstallable
<1>4. CASE CreateWorkspace(v)
  <2>0. UNCHANGED <<flaw, entry, torn, disturbed>> /\ val[v].at = "structure"
    BY <1>4 DEF CreateWorkspace, history
  <2>1. val'[v].at \in {"look", "done"}
    BY <1>4, ToStep, EndStep DEF CreateWorkspace, Steps
  <2> QED  BY <2>0, <2>1 DEF OnEntry, Linked, Installing, Uninstallable
<1>5. CASE Look(v)
  <2>0. UNCHANGED <<flaw, entry, torn, disturbed>> /\ val[v].at \in {"look", "held"}
    BY <1>5 DEF Look, history, disk
  <2>1. \/ val'[v].at \in {"finally", "open"}
        \/ val'[v].at = "look2" /\ "complete" \in entry[F(v)]
        \/ val'[v].at = "install" /\ "complete" \notin entry[F(v)]
    BY <1>5, ToStep, LeaveStep DEF Look, Steps
  <2> QED  BY <2>0, <2>1 DEF OnEntry, Linked, Installing, Uninstallable
<1>6. CASE LookModules(v)
  <2>0. UNCHANGED <<flaw, entry, torn, disturbed>> /\ val[v].at = "look2"
    BY <1>6 DEF LookModules, history, disk
  <2>1. (IF Holds(v) THEN "install" ELSE "open") \in Steps  BY DEF Steps
  <2>2. \/ val'[v].at = "mark" /\ "modules" \in entry[F(v)]
        \/ val'[v].at \in {"install", "open"} /\ "modules" \notin entry[F(v)]
    BY <1>6, <2>1, ToStep DEF LookModules, Steps
  <2> QED  BY <2>0, <2>2 DEF OnEntry, Linked, Installing, Uninstallable
<1>7. CASE LockTimeout(v)
  <2>0. UNCHANGED <<flaw, entry, torn, disturbed>> /\ val[v].at = "open"
    BY <1>7 DEF LockTimeout, history, disk
  <2>1. val'[v].at \in {"unlock", "failed"} /\ val'[v].error = "other"
    BY <1>7, ThrowStep DEF LockTimeout
  <2> QED  BY <2>0, <2>1 DEF OnEntry, Linked, Installing, Uninstallable
<1>8. CASE Open(v) \/ PollHit(v)
  <2>0. UNCHANGED <<flaw, entry, torn, disturbed>> /\ val[v].at = "open"
    BY <1>8 DEF Open, PollHit, history, disk
  <2>1. \/ val'[v].at = "held"
        \/ val'[v].at = "mark" /\ "complete" \in entry[F(v)]
    <3>1. CASE Open(v)
      <4>1. To(v, "held") /\ "held" \in Steps  BY <3>1 DEF Open, Steps
      <4>2. val'[v].at = "held"  BY <4>1, ToStep DEF Steps
      <4> QED  BY <4>2
    <3>2. CASE PollHit(v)
      <4>1. To(v, "mark") /\ {"complete", "modules"} \subseteq entry[F(v)]
        BY <3>2 DEF PollHit
      <4>2. "mark" \in Steps  BY DEF Steps
      <4> QED  BY <4>1, <4>2, ToStep
    <3> QED  BY <1>8, <3>1, <3>2
  <2> QED  BY <2>0, <2>1 DEF OnEntry, Linked, Installing, Uninstallable
<1>9. CASE Install(v) \/ StrayEnds(v) \/ Abort(v)
  BY <1>9, EntryUnchanged DEF Install, StrayEnds, Abort, history, disk
<1>10. CASE InstallEnds(v)
  <2>0. /\ UNCHANGED <<flaw, entry, torn>> /\ disturbed \subseteq disturbed'
        /\ val[v].at = "install"
    BY <1>10 DEF InstallEnds, disk
  <2>1. \/ Throw(v, "other") \/ Throw(v, "INFRA_ERROR") \/ Throw(v, "DEPENDENCY_ERROR")
        \/ To(v, "publish") /\ flaw[v] # "dependency"
    BY <1>10 DEF InstallEnds
  <2>2. \/ val'[v].at \in {"unlock", "failed"} /\ val'[v].error # "none"
        \/ val'[v].at = "publish" /\ flaw[v] # "dependency"
    BY <2>1, ToStep, ThrowStep DEF Steps, Categories
  <2> QED  BY <2>0, <2>2 DEF OnEntry, Linked, Installing, Uninstallable
<1>11. CASE Link(v)
  <2>0. /\ UNCHANGED <<flaw, entry, torn>> /\ val[v].at = "link"
        /\ disturbed' = IF F(v) \in torn THEN disturbed \cup {v} ELSE disturbed
    BY <1>11 DEF Link, disk
  <2>1. (IF Holds(v) THEN "unlock" ELSE "ready") \in Steps  BY DEF Steps
  <2>2. val'[v].at \in {"unlock", "ready"}  BY <1>11, <2>1, ToStep DEF Link
  <2> QED  BY <2>0, <2>2 DEF OnEntry, Linked, Installing, Uninstallable
<1>12. CASE Unlock(v)
  <2>0. UNCHANGED <<flaw, entry, torn, disturbed>> /\ val[v].at = "unlock"
    BY <1>12 DEF Unlock, history
  <2>1. (IF val[v].error = "none" THEN "ready" ELSE "failed") \in Steps  BY DEF Steps
  <2>2. val'[v].at = IF val[v].error = "none" THEN "ready" ELSE "failed"
    BY <1>12, <2>1, ToStep DEF Unlock
  <2> QED  BY <2>0, <2>2 DEF OnEntry, Linked, Installing, Uninstallable
<1>13. CASE Failed(v)
  <2>0. UNCHANGED <<flaw, entry, torn, disturbed>> /\ val[v].at = "failed"
    BY <1>13 DEF Failed, history, disk
  <2>1. val'[v].at \in {"finally", "look"}
    <3>1. (IF val[v].error = "other" THEN "INFRA_ERROR" ELSE val[v].error)
            \in Categories \cup {"none", "passed", "aborted", "thrown"}
      BY DEF OnProject, Categories
    <3>2. CASE v \in aborted  BY <1>13, <3>2, LeaveStep DEF Failed
    <3>3. CASE v \notin aborted /\ MayRetry(v)  BY <1>13, <3>3, RetryStep DEF Failed
    <3>4. CASE v \notin aborted /\ ~MayRetry(v)  BY <1>13, <3>1, <3>4, LeaveStep DEF Failed
    <3> QED  BY <3>2, <3>3, <3>4
  <2> QED  BY <2>0, <2>1 DEF OnEntry, Linked, Installing, Uninstallable
<1>14. CASE Ready(v)
  <2>0. UNCHANGED <<flaw, entry, torn, disturbed>> /\ val[v].at = "ready"
    BY <1>14 DEF Ready, history, disk
  <2>1. val'[v].at \in {"checks", "finally"}  BY <1>14, ToStep, LeaveStep DEF Ready, Steps
  <2> QED  BY <2>0, <2>1 DEF OnEntry, Linked, Installing, Uninstallable
<1>15. CASE \E k \in Checks : CheckEnds(v, k)
  <2>1. PICK k \in Checks : CheckEnds(v, k)  BY <1>15
  <2>2. PICK c \in {"none", "CODE_ERROR", "INFRA_ERROR"} :
          disturbed' \in {disturbed, disturbed \cup {v}} /\ Reports(v, k, c)
    BY <2>1 DEF CheckEnds, Reports
  <2>3. UNCHANGED <<flaw, entry, torn>> /\ val[v].at = "checks"
    BY <2>1 DEF CheckEnds, disk
  <2>4. val'[v].at \in {"checks", "evidence"}  BY <2>2, <2>3, ResultStep
  <2>5. disturbed \subseteq disturbed'  BY <2>2
  <2> QED  BY <2>3, <2>4, <2>5 DEF OnEntry, Linked, Installing, Uninstallable
<1>16. CASE ChecksThrow(v)
  <2>0. /\ UNCHANGED <<flaw, entry, torn>> /\ disturbed \subseteq disturbed'
        /\ val[v].at = "checks"
    BY <1>16 DEF ChecksThrow, disk
  <2>1. val'[v].at = "finally"  BY <1>16, LeaveStep DEF ChecksThrow
  <2> QED  BY <2>0, <2>1 DEF OnEntry, Linked, Installing, Uninstallable
<1>17. CASE Evidence(v) \/ Preview(v)
  <2>0. UNCHANGED <<flaw, entry, torn, disturbed>> /\ val[v].at \in {"evidence", "preview"}
    BY <1>17 DEF Evidence, Preview, history, disk
  <2>1. val'[v].at \in {"preview", "finally"}
    <3>1. \A k \in Checks : val[v].result[k] \in Categories \cup {"none"}  BY DEF TypeOK
    <3>2. "type-check" \in Checks /\ "build" \in Checks  BY DEF Checks
    <3>3. (IF v \in aborted THEN "aborted" ELSE "passed")
            \in Categories \cup {"none", "passed", "aborted", "thrown"}
      BY DEF Categories
    <3>4. CASE Evidence(v)
      BY <3>1, <3>2, <3>4, ToStep, LeaveStep DEF Evidence, Steps, Categories
    <3>5. CASE Preview(v)  BY <3>3, <3>5, LeaveStep DEF Preview, Categories
    <3> QED  BY <1>17, <3>4, <3>5
  <2> QED  BY <2>0, <2>1 DEF OnEntry, Linked, Installing, Uninstallable
<1>18. CASE Cleanup(v) \/ Die(v)
  <2>0. UNCHANGED <<flaw, entry, torn, disturbed>>
    BY <1>18 DEF Cleanup, Die, history, disk
  <2>1. val'[v].at \in {"done", "dead"}  BY <1>18, ToStep DEF Cleanup, Die, Steps
  <2> QED  BY <2>0, <2>1 DEF OnEntry, Linked, Installing, Uninstallable
<1> QED
  BY <1>3, <1>4, <1>5, <1>6, <1>7, <1>8, <1>9, <1>10, <1>11, <1>12, <1>13,
     <1>14, <1>15, <1>16, <1>17, <1>18 DEF Step

\* The steps that write an entry: they complete a whole one, or replace one that
\* was not there or is in pieces, and the lock keeps those that use it away.
LEMMA WriteEntry ==
  ASSUME Typed, TidyInv, EntryInv, \A u \in Validations : OnEntry(u) /\ OnProject(u),
         NEW v \in Validations, Mark(v) \/ Publish(v) \/ Rename(v)
  PROVE  EntryInv' /\ \A u \in Validations : OnEntry(u)'
<1> USE ValidationAssumption DEF At
<1>0. /\ TypeOK
      /\ entry \in [Fingerprints -> SUBSET Whole]
      /\ \A u \in Validations : F(u) \in Fingerprints /\ F(u)' = F(u)
      /\ Tidy(v) /\ OnEntry(v)
  BY DEF Typed, TypeOK, F, TidyInv
<1> USE <1>0
<1>1. /\ UNCHANGED <<flaw, disturbed>>
      /\ \A u \in Validations \ {v} : val'[u] = val[u]
  BY OnlyStep DEF Only, Step, Mark, Publish, Rename, history
\* Projects with one fingerprint can be installed all or none.
<1>2. \A u \in Validations : F(u) = F(v) /\ flaw[u] = "dependency" => flaw[v] = "dependency"
  BY DEF TypeOK, F
<1>3. CASE Mark(v)
  <2>1. /\ torn' = torn
        /\ \/ entry' = entry
           \/ entry' = [entry EXCEPT ![F(v)] = @ \cup {"complete"}]
        /\ val[v].at = "mark" /\ flaw[v] # "dependency"
    BY <1>3 DEF Mark, history, OnEntry, Uninstallable
  <2>2. \A f \in Fingerprints : f # F(v) \/ f \notin torn => entry'[f] = entry[f]
    BY <2>1 DEF OnEntry, Whole
  <2>3. EntryInv'  BY <2>1, <2>2 DEF EntryInv
  <2>4. OnEntry(v)'
    <3>1. \/ val'[v].at = "link"
          \/ val'[v].at \in {"unlock", "failed"} /\ val'[v].error = "other"
      BY <1>3, ToStep, ThrowStep DEF Mark, Steps
    <3> QED  BY <1>1, <2>1, <2>2, <3>1 DEF OnEntry, Linked, Installing
  <2>5. ASSUME NEW u \in Validations \ {v} PROVE OnEntry(u)'
    <3>1. OnEntry(u)  OBVIOUS
    <3> QED  BY <1>1, <1>2, <2>1, <2>2, <3>1 DEF OnEntry, Linked
  <2> QED  BY <2>3, <2>4, <2>5
<1>4. CASE Publish(v)
  <2>1. /\ torn' = torn /\ entry' = [entry EXCEPT ![F(v)] = {}]
        /\ val[v].at = "publish"
    BY <1>4 DEF Publish, history
  <2>2. \A f \in Fingerprints : f # F(v) \/ f \notin torn => entry'[f] = entry[f]
    BY <2>1 DEF OnEntry, Installing
  <2>3. EntryInv'  BY <2>1, <2>2 DEF EntryInv
  <2>4. OnEntry(v)'
    <3>1. val'[v].at = "rename"  BY <1>4, ToStep DEF Publish, Steps
    <3>2. flaw[v] # "dependency"  BY <2>1 DEF OnEntry, Uninstallable
    <3> QED  BY <1>1, <2>1, <2>2, <3>1, <3>2 DEF OnEntry, Linked, Installing
  <2>5. ASSUME NEW u \in Validations \ {v} PROVE OnEntry(u)'
    <3>1. OnEntry(u)  OBVIOUS
    <3>2. entry'[F(u)] \in {entry[F(u)], {}}  BY <2>1
    <3> QED  BY <1>1, <2>1, <2>2, <3>1, <3>2 DEF OnEntry, Linked
  <2> QED  BY <2>3, <2>4, <2>5
<1>5. CASE Rename(v)
  <2>1. /\ torn' = torn \ {F(v)} /\ entry' = [entry EXCEPT ![F(v)] = Whole]
        /\ val[v].at = "rename"
    BY <1>5 DEF Rename
  <2>2. flaw[v] # "dependency"  BY <2>1 DEF OnEntry, Uninstallable
  <2>3. EntryInv'  BY <2>1 DEF EntryInv
  <2>4. OnEntry(v)'
    <3>1. val'[v].at = "link"  BY <1>5, ToStep DEF Rename, Steps
    <3> QED  BY <1>1, <2>1, <2>2, <3>1 DEF OnEntry, Linked, Installing
  <2>5. ASSUME NEW u \in Validations \ {v} PROVE OnEntry(u)'
    <3>1. OnEntry(u) /\ Tidy(u)  BY DEF TidyInv
    <3>2. CASE F(u) # F(v)
      <4>1. entry'[F(u)] = entry[F(u)] /\ (F(u) \in torn) = (F(u) \in torn')
        BY <2>1, <3>2
      <4> QED  BY <1>1, <3>1, <4>1 DEF OnEntry, Linked
    <3>3. CASE F(u) = F(v)
      <4>1. val[u].at \notin Installing
        BY <2>1, <3>1, <3>3 DEF Tidy, Locked, Installing, Holds
      <4>2. flaw[u] # "dependency"  BY <1>2, <2>2, <3>3
      <4>3. entry'[F(u)] = Whole /\ F(u) \notin torn'  BY <2>1, <3>3
      <4> QED  BY <1>1, <4>1, <4>2, <4>3 DEF OnEntry
    <3> QED  BY <3>2, <3>3
  <2> QED  BY <2>3, <2>4, <2>5
<1> QED  BY <1>3, <1>4, <1>5

\* The cleanup takes apart entries it remembers as torn, and whoever uses one
\* then is remembered as disturbed.
LEMMA CleanerFair ==
  ASSUME Typed, FairInv, Scan \/ Pick \/ Reread \/ Relock \/ Remove
  PROVE  FairInv'
<1>1. UNCHANGED <<flaw, val, commands>>  BY CleanerKeeps
<1>2. \A u \in Validations : F(u)' = F(u)  BY DEF F
<1>3. CASE UNCHANGED <<entry, torn, disturbed>>
  <2>1. EntryInv'  BY <1>3 DEF FairInv, EntryInv
  <2>2. ASSUME NEW u \in Validations PROVE OnEntry(u)' /\ OnProject(u)'
    <3>1. OnEntry(u) /\ OnProject(u)  BY DEF FairInv
    <3> QED  BY <1>1, <1>2, <1>3, <3>1, ProjectUnchanged DEF OnEntry, Linked
  <2> QED  BY <2>1, <2>2 DEF FairInv
<1>4. CASE Scan \/ Pick \/ Reread \/ Relock
  BY <1>3, <1>4 DEF Scan, Pick, Reread, Relock, disk, history
<1>5. CASE Remove
  <2>1. CASE UNCHANGED <<entry, history>>  BY <1>3, <2>1 DEF history
  <2>2. CASE ~UNCHANGED <<entry, history>>
    <3> DEFINE f == cleaner.at_entry
    <3>1. PICK part : /\ entry' = [entry EXCEPT ![f] = @ \ {part}]
                      /\ torn' = torn \cup {f}
                      /\ disturbed' = disturbed \cup {v \in Validations : Uses(v, f)}
      BY <1>5, <2>2 DEF Remove
    <3>2. entry \in [Fingerprints -> SUBSET Whole]  BY DEF Typed, TypeOK
    <3>3. EntryInv'  BY <3>1, <3>2 DEF FairInv, EntryInv
    <3>4. ASSUME NEW u \in Validations PROVE OnEntry(u)' /\ OnProject(u)'
      <4>1. OnEntry(u) /\ OnProject(u)  BY DEF FairInv
      <4>2. OnProject(u)'  BY <1>1, <3>1, <4>1, ProjectUnchanged
      <4>3. F(u) \in Fingerprints /\ (entry[F(u)] = {} => entry'[F(u)] = {})
        BY <3>1, <3>2, ValidationAssumption DEF F
      <4>4. CASE F(u) = f
        <5>1. Linked(u) => u \in disturbed'  BY <3>1, <4>4 DEF Linked, Uses
        <5>2. F(u) \in torn'  BY <3>1, <4>4
        <5> QED  BY <1>1, <1>2, <4>1, <4>2, <4>3, <5>1, <5>2 DEF OnEntry, Linked
      <4>5. CASE F(u) # f
        <5>1. /\ entry'[F(u)] = entry[F(u)] /\ (F(u) \in torn') = (F(u) \in torn)
              /\ disturbed \subseteq disturbed'
          BY <3>1, <3>2, <4>3, <4>5
        <5> QED  BY <1>1, <1>2, <4>1, <4>2, <5>1 DEF OnEntry, Linked
      <4> QED  BY <4>4, <4>5
    <3> QED  BY <3>3, <3>4 DEF FairInv
  <2> QED  BY <2>1, <2>2
<1> QED  BY <1>4, <1>5

LEMMA NextFair == Typed /\ TidyInv /\ FairInv /\ [Next]_vars => FairInv'
<1> SUFFICES ASSUME Typed, TidyInv, FairInv, [Next]_vars PROVE FairInv'  OBVIOUS
<1>1. CASE UNCHANGED vars
  <2>1. ASSUME NEW u \in Validations PROVE OnEntry(u)' /\ OnProject(u)'
    <3>1. OnEntry(u) /\ OnProject(u)  BY DEF FairInv
    <3> QED  BY <1>1, <3>1, ProjectUnchanged DEF vars, OnEntry, Linked, F
  <2>2. EntryInv'  BY <1>1 DEF vars, FairInv, EntryInv
  <2> QED  BY <2>1, <2>2 DEF FairInv
<1>2. ASSUME NEW v \in Validations, Structure(v) \/ Step(v) \/ Abort(v) \/ Die(v)
      PROVE  FairInv'
  <2>1. Tidy(v) /\ OnEntry(v) /\ OnProject(v) /\ EntryInv  BY DEF TidyInv, FairInv
  <2>2. OnProject(v)'  BY <1>2, <2>1, StepProject
  <2>3. /\ flaw' = flaw /\ disturbed \subseteq disturbed'
        /\ EntryInv' /\ \A u \in Validations : OnEntry(u)'
    <3>1. CASE Mark(v) \/ Publish(v) \/ Rename(v)
      <4>1. UNCHANGED <<flaw, disturbed>>
        BY <3>1 DEF Mark, Publish, Rename, history
      <4> QED  BY <3>1, <4>1, WriteEntry DEF FairInv
    <3>2. CASE ~(Mark(v) \/ Publish(v) \/ Rename(v))
      <4>1. UNCHANGED <<flaw, entry, torn>> /\ disturbed \subseteq disturbed' /\ OnEntry(v)'
        BY <1>2, <2>1, <3>2, StepEntry
      <4>2. ASSUME NEW u \in Validations \ {v} PROVE OnEntry(u)'
        <5>1. OnEntry(u)  BY DEF FairInv
        <5>2. val'[u] = val[u]  BY <1>2, <2>1, OthersKeep
        <5> QED  BY <4>1, <5>1, <5>2, EntryUnchanged
      <4>3. EntryInv'  BY <2>1, <4>1 DEF EntryInv
      <4> QED  BY <4>1, <4>2, <4>3
    <3> QED  BY <3>1, <3>2
  <2>4. ASSUME NEW u \in Validations \ {v} PROVE OnProject(u)'
    <3>1. OnProject(u)  BY DEF FairInv
    <3>2. val'[u] = val[u] /\ commands'[u] = commands[u]  BY <1>2, <2>1, OthersKeep
    <3> QED  BY <2>3, <3>1, <3>2, ProjectUnchanged
  <2> QED  BY <2>2, <2>3, <2>4 DEF FairInv
<1>3. CASE Scan \/ Pick \/ Reread \/ Relock \/ Remove  BY <1>3, CleanerFair
<1> QED  BY <1>1, <1>2, <1>3 DEF Next

\* Validations that share installed dependencies, wait for each other's and retry
\* never pass or fail for what another did: a verdict is what the project itself
\* deserves. What the cleanup takes apart under a validation, and commands the
\* system kills, are excepted.
THEOREM FairVerdicts == Spec => []VerdictIsFair
<1>1. Init => Typed /\ TidyInv /\ FairInv  BY InitTyped, InitTidy, InitFair
<1>2. Typed /\ TidyInv /\ FairInv /\ [Next]_vars => (Typed /\ TidyInv /\ FairInv)'
  BY NextTyped, NextTidy, NextFair
<1>3. FairInv => VerdictIsFair  BY VerdictFollows DEF FairInv
<1> QED  BY <1>1, <1>2, <1>3, PTL DEF Spec
=============================================================================
