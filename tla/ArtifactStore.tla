----------------------------- MODULE ArtifactStore -----------------------------
(***************************************************************************)
(* Source bundles and preview builds: their manifests in MongoDB           *)
(* (models/ArtifactManifest.ts), the blobs on the shared filesystem        *)
(* (artifacts/SharedFilesystemArtifactStore.ts), the writers that publish  *)
(* an artifact and then refer to it (artifacts/artifactService.ts, called  *)
(* by the orchestrator and the sandbox validator) and the one-shot         *)
(* reconciler beside them (artifacts/reconciler.ts).                       *)
(*                                                                         *)
(* A writer is a job attempt that stores one bundle under an idempotency   *)
(* key. What it does with the artifact depends on the key: a snapshot or a *)
(* validation candidate refers to it, or a sandbox lease does until the    *)
(* sandbox has been used and terminated. One action is one round trip to   *)
(* MongoDB or one system call whose effect others can see.                 *)
(***************************************************************************)
EXTENDS Naturals, FiniteSets

CONSTANTS
  Writers,     \* attempts that write an artifact
  Keys,        \* idempotency keys
  KeySets,     \* the keys the writers may have
  KindOf,      \* "snapshot", "candidate" or "lease": who refers to a key
  ContentOf,   \* the content of the bundle of each writer
  Ids,         \* bound: the artifact ids randomUUID ever returns
  None,        \* no artifact
  MaxFaults    \* bound: crashes, I/O errors, power losses, damaged blobs

ASSUME ArtifactAssumption ==
  /\ KeySets \subseteq [Writers -> Keys]
  /\ KindOf \in [Keys -> {"snapshot", "candidate", "lease"}]
  /\ None \notin Ids /\ MaxFaults \in Nat

VARIABLES
  manifest,  \* ArtifactManifest documents
  file,      \* blobs as processes see them
  disk,      \* blobs as they are after a power loss
  ref,       \* the artifact each key's snapshot, candidate or lease names
  writer,    \* what each writer is doing, its key and its artifact
  rec,       \* what the reconciler is doing
  overran,   \* did an attempt meet an artifact older than the retention?
  faults     \* counter bounded by MaxFaults

vars == <<manifest, file, disk, ref, writer, rec, overran, faults>>

-----------------------------------------------------------------------------

Absent == [state |-> "absent"]
\* by is a history field: who made the manifest ready.
Manifest == [state: {"writing", "ready", "corrupt", "delete_pending"},
             key: Keys, content: {ContentOf[w] : w \in Writers},
             age: {"fresh", "stale", "old"},
             by: {"nobody", "writer", "reconciler"}]
Deleted == [state |-> "deleted"]
Exists(id) == manifest[id].state \notin {"absent", "deleted"}
State(id) == manifest[id].state

\* findOneAndUpdate on a state; the timestamps option renews updatedAt.
Becomes(id, s) == manifest' = [manifest EXCEPT ![id].state = s,
                                               ![id].age = "fresh"]
Ready(id, by) == manifest' = [manifest EXCEPT ![id].state = "ready",
                                ![id].age = "fresh", ![id].by = by]

Steps == {"idle", "link", "sync", "exists", "verify", "check", "mark",
          "publish", "refer", "hydrate", "terminate", "done", "failed"}
KeyOf(w) == writer[w].key
At(w, s) == writer[w].at = s
To(w, s) == writer' = [writer EXCEPT ![w].at = s]
Active(w) == writer[w].at \notin {"idle", "done", "failed"}

Off == [phase |-> "writing", todo |-> {}, at |-> "next", id |-> None]
Phases == {"writing", "pending", "ready"}

\* Shape of the state; a busy attempt and a busy pass are about an artifact.
TypeOK ==
  /\ manifest \in [Ids -> Manifest \cup {Absent, Deleted}]
  /\ file \in [Ids -> {"none", "good", "bad"}]
  /\ disk \in [Ids -> {"none", "good", "bad"}]
  /\ ref \in [Keys -> Ids \cup {None}]
  /\ writer \in [Writers -> [at: Steps, id: Ids \cup {None}, key: Keys]]
  /\ rec \in [phase: Phases, todo: SUBSET Ids, id: Ids \cup {None},
              at: {"next", "examine", "promote", "corrupt", "look", "claim", "check",
                   "restore", "unlink", "sync", "remove"}]
  /\ overran \in BOOLEAN /\ faults \in 0 .. MaxFaults
  /\ \A w \in Writers : Active(w) => writer[w].id \in Ids
  /\ rec.at # "next" => rec.id \in Ids

Init ==
  /\ manifest = [id \in Ids |-> Absent]
  /\ file = [id \in Ids |-> "none"] /\ disk = file
  /\ ref = [k \in Keys |-> None]
  /\ \E keys \in KeySets :
       writer = [w \in Writers |-> [at |-> "idle", id |-> None, key |-> keys[w]]]
  /\ rec = Off /\ overran = FALSE /\ faults = 0

\* store.get and the checks of the bytes against the manifest.
get(id) == IF file[id] = "none" THEN "ARTIFACT_NOT_FOUND" ELSE file[id]
verifyStored(id) == IF get(id) = "bad" THEN "ARTIFACT_CORRUPT" ELSE get(id)

Fault == faults < MaxFaults /\ faults' = faults + 1

-----------------------------------------------------------------------------
(* ArtifactService.writeEncoded.                                           *)

NewManifest(w) == [state |-> "writing", key |-> KeyOf(w),
                   content |-> ContentOf[w], age |-> "fresh", by |-> "nobody"]

\* The manifest of the key is created, or loaded when there is one: other
\* content, corrupt and delete_pending are errors; a ready artifact is only
\* verified; a writing one is written again. The temporary file is written.
CreateOrLoadManifest(w) ==
  /\ At(w, "idle")
  /\ \/ /\ \A id \in Ids : ~(Exists(id) /\ manifest[id].key = KeyOf(w))
        /\ \E id \in Ids :
             /\ State(id) = "absent"
             /\ manifest' = [manifest EXCEPT ![id] = NewManifest(w)]
             /\ writer' = [writer EXCEPT ![w].at = "link", ![w].id = id]
        /\ UNCHANGED overran
     \/ \E id \in Ids :
          /\ Exists(id) /\ manifest[id].key = KeyOf(w)
          /\ writer' = [writer EXCEPT ![w].id = id,
               ![w].at = IF manifest[id].content # ContentOf[w] THEN "failed"
                         ELSE CASE State(id) = "ready" -> "check"
                                [] State(id) = "writing" -> "link"
                                [] OTHER -> "failed"]
          /\ overran' = (overran \/ manifest[id].age = "old"
                                 \/ State(id) = "delete_pending")
          /\ UNCHANGED manifest
  /\ UNCHANGED <<file, disk, ref, rec, faults>>

\* link(2) publishes the synced temporary file and never replaces a blob.
Link(w) ==
  /\ At(w, "link")
  /\ LET id == writer[w].id IN
     IF file[id] = "none"
     THEN file' = [file EXCEPT ![id] = "good"] /\ To(w, "sync")
     ELSE To(w, "exists") /\ UNCHANGED file
  /\ UNCHANGED <<manifest, disk, ref, rec, overran, faults>>

\* Mutant: a put that meets an existing blob returns without syncing.
SyncOwnLinkOnly(w) ==
  /\ writer[w].at \in {"sync", "exists"}
  /\ disk' = IF At(w, "sync") THEN [disk EXCEPT ![writer[w].id] = file[writer[w].id]]
                              ELSE disk
  /\ To(w, "verify")
  /\ UNCHANGED <<manifest, file, ref, rec, overran, faults>>

\* The directory is synced after the link, and also when the blob was there:
\* its writer may have died in between. EEXIST is then recovered from.
SyncDirectory(w) ==
  /\ writer[w].at \in {"sync", "exists"}
  /\ disk' = [disk EXCEPT ![writer[w].id] = file[writer[w].id]]
  /\ To(w, "verify")
  /\ UNCHANGED <<manifest, file, ref, rec, overran, faults>>

\* The blob is read back and decoded against the manifest: before publication,
\* and ("check") when a ready artifact is reused.
Verify(w) ==
  /\ writer[w].at \in {"verify", "check"}
  /\ To(w, CASE verifyStored(writer[w].id) = "good" ->
                  IF At(w, "verify") THEN "publish" ELSE "refer"
             [] verifyStored(writer[w].id) = "ARTIFACT_CORRUPT"
                /\ At(w, "verify") -> "mark"
             [] OTHER -> "failed")
  /\ UNCHANGED <<manifest, file, disk, ref, rec, overran, faults>>

MarkCorrupt(w) ==
  /\ At(w, "mark")
  /\ IF State(writer[w].id) = "writing" THEN Becomes(writer[w].id, "corrupt")
                                        ELSE UNCHANGED manifest
  /\ To(w, "failed")
  /\ UNCHANGED <<file, disk, ref, rec, overran, faults>>

\* writing becomes ready; a manifest that is no longer writing must be ready
\* with this content by another hand.
Publish(w) ==
  /\ At(w, "publish")
  /\ LET id == writer[w].id IN
     CASE State(id) = "writing" -> Ready(id, "writer") /\ To(w, "refer")
       [] State(id) = "ready" -> To(w, "refer") /\ UNCHANGED manifest
       [] OTHER -> To(w, "failed") /\ UNCHANGED manifest
  /\ UNCHANGED <<file, disk, ref, rec, overran, faults>>

\* An error of the store other than a content error; writeBundle throws.
StoreFails(w) ==
  /\ writer[w].at \in {"link", "sync", "exists", "verify", "check"}
  /\ Fault /\ To(w, "failed")
  /\ UNCHANGED <<manifest, file, disk, ref, rec, overran>>

-----------------------------------------------------------------------------
(* What the callers do with the artifact.                                  *)

\* createRunSnapshot and createRunCandidate insert their document or find the
\* one of an earlier attempt, which must name the same artifact.
Refer(w) ==
  /\ At(w, "refer") /\ KindOf[KeyOf(w)] # "lease"
  /\ LET k == KeyOf(w) IN
     /\ ref' = [ref EXCEPT ![k] = IF @ = None THEN writer[w].id ELSE @]
     /\ To(w, IF ref[k] \in {None, writer[w].id} THEN "done" ELSE "failed")
  /\ UNCHANGED <<manifest, file, disk, rec, overran, faults>>

\* The validator creates the lease of its sandbox, whose source it is.
CreateLease(w) ==
  /\ At(w, "refer") /\ KindOf[KeyOf(w)] = "lease"
  /\ ref' = [ref EXCEPT ![KeyOf(w)] = writer[w].id] /\ To(w, "hydrate")
  /\ UNCHANGED <<manifest, file, disk, rec, overran, faults>>

\* SandboxService.hydrate reads the lease's bundle; damaged content marks a
\* ready manifest corrupt. The sandbox is terminated either way.
Hydrate(w) ==
  /\ At(w, "hydrate")
  /\ IF /\ State(writer[w].id) = "ready"
        /\ verifyStored(writer[w].id) = "ARTIFACT_CORRUPT"
     THEN Becomes(writer[w].id, "corrupt") ELSE UNCHANGED manifest
  /\ To(w, "terminate")
  /\ UNCHANGED <<file, disk, ref, rec, overran, faults>>

Terminate(w) ==
  /\ At(w, "terminate")
  /\ ref' = [ref EXCEPT ![KeyOf(w)] = None] /\ To(w, "done")
  /\ UNCHANGED <<manifest, file, disk, rec, overran, faults>>

\* The sandbox reconciler terminates the lease of an attempt that died.
TerminateAbandoned(k) ==
  /\ KindOf[k] = "lease" /\ ref[k] # None
  /\ \A w \in Writers : KeyOf(w) = k => writer[w].at \notin {"hydrate", "terminate"}
  /\ ref' = [ref EXCEPT ![k] = None]
  /\ UNCHANGED <<manifest, file, disk, writer, rec, overran, faults>>

\* The TTL index removes a candidate at expiresAt.
CandidateExpires(k) ==
  /\ KindOf[k] = "candidate" /\ ref[k] # None
  /\ ref' = [ref EXCEPT ![k] = None]
  /\ UNCHANGED <<manifest, file, disk, writer, rec, overran, faults>>

\* A later run or a page reads the bundle of a snapshot or a candidate.
ReadDamaged(k) ==
  /\ KindOf[k] # "lease" /\ ref[k] # None
  /\ State(ref[k]) = "ready" /\ verifyStored(ref[k]) = "ARTIFACT_CORRUPT"
  /\ Becomes(ref[k], "corrupt")
  /\ UNCHANGED <<file, disk, ref, writer, rec, overran, faults>>

-----------------------------------------------------------------------------
(* reconcileArtifacts: three scans, one after the other. Nothing is carried *)
(* from one scan to the next and an empty scan does nothing, so whichever  *)
(* scan finds something may come next. The batches are larger than Ids.    *)

Continue == rec' = IF rec.todo = {} THEN Off
                   ELSE [rec EXCEPT !.at = "next", !.id = None]
RecAt(s) == rec.at = s
RecTo(s) == rec' = [rec EXCEPT !.at = s]

Scan(phase, ids) ==
  /\ rec.todo = {} /\ RecAt("next") /\ ids # {}
  /\ rec' = [Off EXCEPT !.phase = phase, !.todo = ids]
  /\ UNCHANGED <<manifest, file, disk, ref, writer, overran, faults>>

reconcileWriting == Scan("writing", {id \in Ids : /\ State(id) = "writing"
                                                  /\ manifest[id].age # "fresh"})
reconcileDeletePending ==
  Scan("pending", {id \in Ids : State(id) = "delete_pending"})
reconcileReady == Scan("ready", {id \in Ids : /\ State(id) = "ready"
                                              /\ manifest[id].age = "old"})

\* The cursor hands out the manifests as the scan found them.
NextManifest ==
  /\ RecAt("next")
  /\ \E id \in rec.todo :
       rec' = [rec EXCEPT !.todo = @ \ {id}, !.id = id,
                 !.at = CASE rec.phase = "writing" -> "examine"
                          [] rec.phase = "pending" -> "check"
                          [] OTHER -> "look"]
  /\ UNCHANGED <<manifest, file, disk, ref, writer, overran, faults>>

\* Mutant: a missing blob is taken for an unavailable store.
ExamineLater ==
  /\ RecAt("examine")
  /\ CASE verifyStored(rec.id) = "good" -> RecTo("promote")
       [] verifyStored(rec.id) = "ARTIFACT_CORRUPT" -> RecTo("corrupt")
       [] OTHER -> Continue
  /\ UNCHANGED <<manifest, file, disk, ref, writer, overran, faults>>

\* stat and verification of a blob whose manifest stayed writing.
Examine ==
  /\ RecAt("examine")
  /\ RecTo(IF verifyStored(rec.id) = "good" THEN "promote" ELSE "corrupt")
  /\ UNCHANGED <<manifest, file, disk, ref, writer, overran, faults>>

Settle ==
  /\ rec.at \in {"promote", "corrupt"}
  /\ IF State(rec.id) # "writing" THEN UNCHANGED manifest
     ELSE IF rec.at = "promote" THEN Ready(rec.id, "reconciler")
                                ELSE Becomes(rec.id, "corrupt")
  /\ Continue
  /\ UNCHANGED <<file, disk, ref, writer, overran, faults>>

\* Mutant: leases do not count.
HasDocument(id) == \E k \in Keys : KindOf[k] # "lease" /\ ref[k] = id
hasReference(id) == \E k \in Keys : ref[k] = id

\* A ready artifact past the retention is preserved if it is referenced. Of the
\* three collections asked at once only the one for its key can know its id.
Look ==
  /\ RecAt("look")
  /\ IF hasReference(rec.id) THEN Continue ELSE RecTo("claim")
  /\ UNCHANGED <<manifest, file, disk, ref, writer, overran, faults>>

\* The claim takes it if its manifest is still ready.
Claim ==
  /\ RecAt("claim")
  /\ IF State(rec.id) = "ready"
     THEN Becomes(rec.id, "delete_pending") /\ RecTo("check")
     ELSE Continue /\ UNCHANGED manifest
  /\ UNCHANGED <<file, disk, ref, writer, overran, faults>>

\* References are looked up again before anything is deleted.
Recheck ==
  /\ RecAt("check")
  /\ RecTo(IF hasReference(rec.id) THEN "restore" ELSE "unlink")
  /\ UNCHANGED <<manifest, file, disk, ref, writer, overran, faults>>

Restore ==
  /\ RecAt("restore")
  /\ IF State(rec.id) = "delete_pending" THEN Becomes(rec.id, "ready")
                                         ELSE UNCHANGED manifest
  /\ Continue
  /\ UNCHANGED <<file, disk, ref, writer, overran, faults>>

\* store.delete; a blob that is gone already is a success.
Unlink ==
  /\ RecAt("unlink")
  /\ file' = [file EXCEPT ![rec.id] = "none"]
  /\ RecTo("sync")
  /\ UNCHANGED <<manifest, disk, ref, writer, overran, faults>>

\* Mutant: a blob that is gone already is not synced again.
DeletionUnsynced ==
  /\ RecAt("sync") /\ RecTo("remove")
  /\ UNCHANGED <<manifest, file, disk, ref, writer, overran, faults>>

SyncDeletion ==
  /\ RecAt("sync")
  /\ disk' = [disk EXCEPT ![rec.id] = file[rec.id]]
  /\ RecTo("remove")
  /\ UNCHANGED <<manifest, file, ref, writer, overran, faults>>

RemoveManifest ==
  /\ RecAt("remove")
  /\ manifest' = IF State(rec.id) = "delete_pending"
                 THEN [manifest EXCEPT ![rec.id] = Deleted] ELSE manifest
  /\ Continue
  /\ UNCHANGED <<file, disk, ref, writer, overran, faults>>

\* The store is unavailable: the manifest is left for the next pass.
StoreUnavailable ==
  /\ RecAt("examine") \/ RecAt("unlink") \/ RecAt("sync")
  /\ Fault /\ Continue
  /\ UNCHANGED <<manifest, file, disk, ref, writer, overran>>

\* The pass dies with its process.
PassDies ==
  /\ ~RecAt("next") /\ Fault /\ rec' = Off
  /\ UNCHANGED <<manifest, file, disk, ref, writer, overran>>

-----------------------------------------------------------------------------
(* Time and faults.                                                        *)

\* updatedAt passes the writing timeout, then the retention.
Ages(id) ==
  /\ State(id) \in {"writing", "ready"} /\ manifest[id].age # "old"
  /\ manifest' = [manifest EXCEPT ![id].age =
                    IF @ = "fresh" THEN "stale" ELSE "old"]
  /\ overran' = (overran \/ /\ manifest[id].age = "stale"
                            /\ \E w \in Writers : Active(w) /\ writer[w].id = id)
  /\ UNCHANGED <<file, disk, ref, writer, rec, faults>>

\* The process of an attempt dies; the attempt is delivered again.
Crash(w) ==
  /\ Active(w) /\ Fault
  /\ writer' = [writer EXCEPT ![w].at = "idle", ![w].id = None]
  /\ UNCHANGED <<manifest, file, disk, ref, rec, overran>>

\* The host loses power: directory entries that were not synced are lost.
PowerLoss ==
  /\ Fault /\ file' = disk /\ rec' = Off
  /\ writer' = [w \in Writers |->
                   IF Active(w) THEN [writer[w] EXCEPT !.at = "idle", !.id = None]
                                ELSE writer[w]]
  /\ UNCHANGED <<manifest, disk, ref, overran>>

\* A stored blob is damaged.
Damage(id) ==
  /\ file[id] = "good" /\ disk[id] = "good" /\ Fault
  /\ file' = [file EXCEPT ![id] = "bad"] /\ disk' = [disk EXCEPT ![id] = "bad"]
  /\ UNCHANGED <<manifest, ref, writer, rec, overran>>

-----------------------------------------------------------------------------

Write(w) ==
  \/ CreateOrLoadManifest(w) \/ Link(w) \/ SyncDirectory(w) \/ Verify(w)
  \/ MarkCorrupt(w) \/ Publish(w) \/ Refer(w) \/ CreateLease(w) \/ Hydrate(w)
  \/ Terminate(w)

reconcileArtifacts ==
  \/ reconcileWriting \/ reconcileDeletePending \/ reconcileReady
  \/ NextManifest \/ Examine \/ Settle \/ Look \/ Claim \/ Recheck
  \/ Restore \/ Unlink \/ SyncDeletion \/ RemoveManifest

Environment ==
  \/ \E w \in Writers : StoreFails(w) \/ Crash(w)
  \/ \E id \in Ids : Damage(id)
  \/ \E k \in Keys : ReadDamaged(k)
  \/ StoreUnavailable \/ PassDies \/ PowerLoss

Expiry ==
  \/ \E id \in Ids : Ages(id)
  \/ \E k \in Keys : TerminateAbandoned(k) \/ CandidateExpires(k)

Next ==
  \/ \E w \in Writers : Write(w)
  \/ reconcileArtifacts
  \/ Expiry
  \/ Environment

Spec == Init /\ [][Next]_vars

\* Attempts run to their end, time passes and maintenance is run again and
\* again (README: docker compose run artifact-reconciler).
FairSpec ==
  /\ Spec
  /\ \A w \in Writers : WF_vars(Write(w))
  /\ WF_vars(reconcileArtifacts)
  /\ \A id \in Ids : WF_vars(Ages(id))
  /\ \A k \in Keys : WF_vars(TerminateAbandoned(k)) /\ WF_vars(CandidateExpires(k))

-----------------------------------------------------------------------------
(* Properties.                                                             *)

\* An artifact that a snapshot, a candidate or a live lease names can be read:
\* its manifest is ready (or was found damaged) and its blob is there. Two
\* exceptions: an attempt that met an artifact past the retention (see
\* ReferencesSurvive), and a manifest the reconciler made ready, because its
\* promotion does not sync the directory of a blob whose writer died.
ReferencedIsReadable ==
  ~overran => \A k \in Keys : ref[k] # None =>
    /\ State(ref[k]) \in {"ready", "corrupt"}
    /\ State(ref[k]) = "ready" => file[ref[k]] # "none" \/ manifest[ref[k]].by = "reconciler"

\* What docs/superpowers/specs/2026-07-26-sandbox-core-design.md:766 and the
\* checklist of plans/2026-07-26-artifact-store.md:1019 promise: what a live
\* lease, a snapshot or a candidate names is not collected.
ReferencesSurvive ==
  \A k \in Keys : ref[k] # None => State(ref[k]) # "deleted"

\* An artifact that a writer published is on disk, so that a power loss does
\* not take it back: the writer, or the one before it, synced the directory.
PublishedIsDurable ==
  ~overran => \A id \in Ids :
    State(id) = "ready" /\ manifest[id].by = "writer" => disk[id] # "none"

\* A manifest is removed only after its blob is gone for good, unless an
\* attempt outlived the retention: no blob is left that nothing knows about.
CollectedIsGone ==
  ~overran => \A id \in Ids : State(id) = "deleted" => disk[id] = "none"

\* Once the attempts are over every artifact is referenced, found corrupt or
\* deleted: no manifest stays writing or delete_pending, no orphan stays ready.
ArtifactsSettle ==
  <>[](\A id \in Ids : \/ State(id) \in {"absent", "deleted", "corrupt"}
                       \/ State(id) = "ready" /\ hasReference(id))

-----------------------------------------------------------------------------
(* The inductive invariant behind ReferencedIsReadable, PublishedIsDurable *)
(* and CollectedIsGone: as long as no attempt met the retention, what an   *)
(* attempt or a reference needs is out of the reach of the collection.     *)

\* An attempt works on an artifact that is neither old nor being deleted. It
\* has seen the blob linked, then synced its directory, then published it.
Protected(w) ==
  LET id == writer[w].id
      at == writer[w].at
  IN /\ State(id) \in {"writing", "ready", "corrupt"} /\ manifest[id].age # "old"
     /\ at \in {"sync", "exists"} => file[id] # "none"
     /\ at \in {"verify", "mark", "publish"} => disk[id] # "none"
     /\ at \in {"check", "refer", "hydrate", "terminate"} => State(id) # "writing"

\* Blob and manifest agree: a blob is only missing for processes that is still
\* on disk while its artifact is deleted.
Stored(id) ==
  /\ State(id) = "ready" => manifest[id].by # "nobody"
  /\ State(id) = "ready" /\ manifest[id].by = "writer" => disk[id] # "none"
  /\ disk[id] # "none" /\ file[id] = "none" => State(id) = "delete_pending"
  /\ State(id) = "deleted" => disk[id] = "none"

\* What a scan for old artifacts has found stays collectable or is damaged.
Expired(id) ==
  \/ State(id) = "corrupt"
  \/ State(id) = "ready" /\ manifest[id].age = "old"

\* The pass holds artifacts nobody needs, and never one that it must restore.
CollectsUnneeded ==
  /\ rec.id \notin rec.todo
  /\ rec.phase = "ready" => \A id \in rec.todo : Expired(id)
  /\ rec.phase = "pending" => \A id \in rec.todo : State(id) = "delete_pending"
  /\ rec.at \in {"look", "claim"} => Expired(rec.id)
  /\ rec.at \in {"check", "unlink", "sync", "remove"} =>
       State(rec.id) = "delete_pending"
  /\ rec.at \in {"sync", "remove"} => file[rec.id] = "none"
  /\ rec.at = "remove" => disk[rec.id] = "none"
  /\ rec.at # "restore"

\* Nobody has come to need it since the pass looked.
ClaimsUnneeded ==
  rec.at = "claim" /\ State(rec.id) = "ready" => ~hasReference(rec.id)

StoreInv ==
  ~overran => /\ \A w \in Writers : Active(w) => Protected(w)
              /\ \A k \in Keys : ref[k] # None => State(ref[k]) \in {"ready", "corrupt"}
              /\ \A id \in Ids : Stored(id)
              /\ CollectsUnneeded /\ ClaimsUnneeded
=============================================================================
