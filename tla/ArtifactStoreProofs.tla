------------------------ MODULE ArtifactStoreProofs ------------------------
(***************************************************************************)
(* Theorems about ArtifactStore, for any sets of attempts, keys and        *)
(* artifacts and any number of faults: as long as no attempt meets an      *)
(* artifact past the retention, references can be read, what is published  *)
(* survives a power loss, and what is collected is gone for good.          *)
(***************************************************************************)
EXTENDS ArtifactStore, TLAPS

States == {"writing", "ready", "corrupt", "delete_pending", "absent", "deleted"}

-----------------------------------------------------------------------------
(* What the helpers do *)

LEMMA StatesOfManifests ==
  ASSUME TypeOK, NEW id \in Ids
  PROVE  /\ State(id) \in States
         /\ Exists(id) => manifest[id] \in Manifest
BY DEF TypeOK, State, Exists, States, Manifest, Absent, Deleted

\* A manifest is given a state, and is fresh again.
LEMMA BecomesStep ==
  ASSUME TypeOK, NEW id \in Ids, Exists(id),
         NEW s \in {"writing", "ready", "corrupt", "delete_pending"}, Becomes(id, s)
  PROVE  /\ manifest' \in [Ids -> Manifest \cup {Absent, Deleted}]
         /\ manifest'[id].state = s /\ manifest'[id].age = "fresh"
         /\ manifest'[id].by = manifest[id].by
         /\ \A j \in Ids \ {id} : manifest'[j] = manifest[j]
<1>1. manifest[id] \in Manifest
  BY StatesOfManifests
<1> DEFINE m == [manifest[id] EXCEPT !.state = s, !.age = "fresh"]
<1>2. /\ m \in Manifest /\ m.state = s /\ m.age = "fresh"
      /\ m.by = manifest[id].by
  BY <1>1 DEF Manifest
<1>3. manifest' = [manifest EXCEPT ![id] = m]
  BY DEF Becomes
<1> HIDE DEF m
<1> QED BY <1>2, <1>3 DEF TypeOK

LEMMA ReadyStep ==
  ASSUME TypeOK, NEW id \in Ids, Exists(id),
         NEW by \in {"writer", "reconciler"}, Ready(id, by)
  PROVE  /\ manifest' \in [Ids -> Manifest \cup {Absent, Deleted}]
         /\ manifest'[id].state = "ready" /\ manifest'[id].age = "fresh"
         /\ manifest'[id].by = by
         /\ \A j \in Ids \ {id} : manifest'[j] = manifest[j]
<1>1. manifest[id] \in Manifest
  BY StatesOfManifests
<1> DEFINE m == [manifest[id] EXCEPT !.state = "ready", !.age = "fresh", !.by = by]
<1>2. /\ m \in Manifest /\ m.state = "ready" /\ m.age = "fresh" /\ m.by = by
  BY <1>1 DEF Manifest
<1>3. manifest' = [manifest EXCEPT ![id] = m]
  BY DEF Ready
<1> HIDE DEF m
<1> QED BY <1>2, <1>3 DEF TypeOK

WriterRecord == [at: Steps, id: Ids \cup {None}, key: Keys]

\* Slot w has become t.
LEMMA WriterStep ==
  ASSUME TypeOK, NEW w \in Writers, NEW t \in WriterRecord,
         t.at \notin {"idle", "done", "failed"} => t.id \in Ids,
         writer' = [writer EXCEPT ![w] = t]
  PROVE  /\ writer' \in [Writers -> WriterRecord]
         /\ \A v \in Writers : Active(v)' => writer'[v].id \in Ids
         /\ writer'[w] = t
         /\ \A v \in Writers \ {w} : writer'[v] = writer[v]
BY DEF TypeOK, WriterRecord, Active

LEMMA ToStep ==
  ASSUME TypeOK, NEW w \in Writers, NEW s \in Steps, To(w, s),
         Active(w) \/ s \in {"idle", "done", "failed"}
  PROVE  /\ writer' \in [Writers -> WriterRecord]
         /\ \A v \in Writers : Active(v)' => writer'[v].id \in Ids
         /\ writer'[w].at = s /\ writer'[w].id = writer[w].id
         /\ writer'[w].key = writer[w].key
         /\ \A v \in Writers \ {w} : writer'[v] = writer[v]
<1> DEFINE t == [writer[w] EXCEPT !.at = s]
<1>1. writer[w] \in WriterRecord
  BY DEF TypeOK, WriterRecord
<1>2. /\ t \in WriterRecord /\ t.at = s /\ t.id = writer[w].id /\ t.key = writer[w].key
  BY <1>1 DEF WriterRecord
<1>3. writer' = [writer EXCEPT ![w] = t]
  BY DEF To
<1>4. t.at \notin {"idle", "done", "failed"} => t.id \in Ids
  BY <1>2 DEF TypeOK
<1> HIDE DEF t
<1> QED BY <1>2, <1>3, <1>4, WriterStep

RecRecord == [phase: Phases, todo: SUBSET Ids, id: Ids \cup {None},
              at: {"next", "examine", "promote", "corrupt", "look", "claim", "check",
                   "restore", "unlink", "sync", "remove"}]
RecOK == rec \in RecRecord /\ (rec.at # "next" => rec.id \in Ids)

LEMMA RecTyped == TypeOK => RecOK
BY DEF TypeOK, RecOK, RecRecord

LEMMA OffTyped == Off \in RecRecord
BY DEF Off, RecRecord, Phases

\* The pass goes on with the next artifact of its scan, or the scan is over.
LEMMA ContinueStep ==
  ASSUME TypeOK, Continue
  PROVE  /\ RecOK' /\ rec'.at = "next" /\ rec'.id = None
         /\ \/ rec'.todo = {}
            \/ rec'.todo = rec.todo /\ rec'.phase = rec.phase
<1>1. CASE rec' = Off
  BY <1>1, OffTyped DEF RecOK, Off
<1>2. CASE rec' = [rec EXCEPT !.at = "next", !.id = None]
  BY <1>2, RecTyped DEF RecOK, RecRecord
<1> QED BY <1>1, <1>2 DEF Continue

LEMMA RecToStep ==
  ASSUME TypeOK, rec.at # "next",
         NEW s \in {"promote", "corrupt", "claim", "check", "restore", "unlink", "sync", "remove"},
         RecTo(s)
  PROVE  /\ RecOK' /\ rec'.at = s /\ rec'.id = rec.id /\ rec.id \in Ids
         /\ rec'.todo = rec.todo /\ rec'.phase = rec.phase
BY RecTyped DEF RecTo, RecOK, RecRecord

-----------------------------------------------------------------------------
(* The state keeps its shape *)

ManifestsOK == manifest \in [Ids -> Manifest \cup {Absent, Deleted}]
BlobsOK == /\ file \in [Ids -> {"none", "good", "bad"}]
           /\ disk \in [Ids -> {"none", "good", "bad"}]
RefsOK == ref \in [Keys -> Ids \cup {None}]
WritersOK == /\ writer \in [Writers -> WriterRecord]
             /\ \A w \in Writers : Active(w) => writer[w].id \in Ids

LEMMA TypeParts ==
  TypeOK <=> /\ ManifestsOK /\ BlobsOK /\ RefsOK /\ WritersOK /\ RecOK
             /\ overran \in BOOLEAN /\ faults \in 0 .. MaxFaults
BY DEF TypeOK, ManifestsOK, BlobsOK, RefsOK, WritersOK, RecOK, RecRecord, WriterRecord

LEMMA TypePartsNext ==
  TypeOK' <=> /\ ManifestsOK' /\ BlobsOK' /\ RefsOK' /\ WritersOK' /\ RecOK'
              /\ overran' \in BOOLEAN /\ faults' \in 0 .. MaxFaults
BY DEF TypeOK, ManifestsOK, BlobsOK, RefsOK, WritersOK, RecOK, RecRecord, WriterRecord

LEMMA InitTypeOK == Init => TypeOK
<1> SUFFICES ASSUME Init PROVE TypeOK
  OBVIOUS
<1>1. ManifestsOK /\ BlobsOK /\ RefsOK
  BY DEF Init, ManifestsOK, BlobsOK, RefsOK
<1>2. WritersOK
  BY ArtifactAssumption DEF Init, WritersOK, WriterRecord, Steps, Active
<1>3. RecOK
  BY OffTyped DEF Init, RecOK, Off
<1>4. overran \in BOOLEAN
  BY DEF Init
<1>5. faults \in 0 .. MaxFaults
  BY ArtifactAssumption DEF Init
<1> QED BY <1>1, <1>2, <1>3, <1>4, <1>5, TypeParts

LEMMA FaultType ==
  ASSUME TypeOK, Fault
  PROVE  faults' \in 0 .. MaxFaults
BY ArtifactAssumption DEF TypeOK, Fault

\* One action at a time, by what it touches.
LEMMA NextTypeOK == TypeOK /\ [Next]_vars => TypeOK'
<1> SUFFICES ASSUME TypeOK, [Next]_vars PROVE TypeOK'
  OBVIOUS
<1>0. /\ ManifestsOK /\ BlobsOK /\ RefsOK /\ WritersOK /\ RecOK
      /\ overran \in BOOLEAN /\ faults \in 0 .. MaxFaults
  BY TypeParts
<1>a. ASSUME NEW w \in Writers, writer[w].at \notin {"idle", "done", "failed"}
      PROVE  Active(w) /\ writer[w].id \in Ids
  BY <1>0, <1>a DEF WritersOK, Active
<1>m. UNCHANGED manifest => ManifestsOK'
  BY <1>0 DEF ManifestsOK
<1>b. UNCHANGED <<file, disk>> => BlobsOK'
  BY <1>0 DEF BlobsOK
<1>r. UNCHANGED ref => RefsOK'
  BY <1>0 DEF RefsOK
<1>w. UNCHANGED writer => WritersOK'
  BY <1>0 DEF WritersOK, Active
<1>c. UNCHANGED rec => RecOK'
  BY <1>0 DEF RecOK
<1>1. ASSUME NEW w \in Writers, CreateOrLoadManifest(w) PROVE TypeOK'
  <2>1. writer[w] \in WriterRecord /\ KeyOf(w) \in Keys
    BY <1>0 DEF WritersOK, WriterRecord, KeyOf
  <2>2. ASSUME NEW id \in Ids, NEW s \in Steps,
               writer' = [writer EXCEPT ![w].at = s, ![w].id = id]
        PROVE  WritersOK'
    <3> DEFINE t == [writer[w] EXCEPT !.at = s, !.id = id]
    <3>1. t \in WriterRecord /\ t.id \in Ids /\ writer' = [writer EXCEPT ![w] = t]
      BY <2>1, <2>2 DEF WriterRecord
    <3> HIDE DEF t
    <3> QED BY <3>1, WriterStep DEF WritersOK
  <2>3. ASSUME NEW id \in Ids, State(id) = "absent",
               manifest' = [manifest EXCEPT ![id] = NewManifest(w)]
        PROVE  ManifestsOK'
    <3>1. NewManifest(w) \in Manifest
      BY <2>1 DEF NewManifest, Manifest
    <3> QED BY <1>0, <2>3, <3>1 DEF ManifestsOK
  <2>4. BlobsOK' /\ RefsOK' /\ RecOK' /\ faults' \in 0 .. MaxFaults
    BY <1>0, <1>1, <1>b, <1>r, <1>c DEF CreateOrLoadManifest
  <2>5. CASE \E id \in Ids : /\ State(id) = "absent"
                             /\ manifest' = [manifest EXCEPT ![id] = NewManifest(w)]
                             /\ writer' = [writer EXCEPT ![w].at = "link", ![w].id = id]
                             /\ UNCHANGED overran
    BY <1>0, <2>2, <2>3, <2>4, <2>5, TypePartsNext DEF Steps
  <2>6. CASE \E id \in Ids, s \in Steps :
               /\ writer' = [writer EXCEPT ![w].at = s, ![w].id = id]
               /\ UNCHANGED manifest /\ overran' \in BOOLEAN
    BY <1>m, <2>2, <2>4, <2>6, TypePartsNext
  <2>7. ASSUME NEW id \in Ids, Exists(id), manifest[id].key = KeyOf(w),
               writer' = [writer EXCEPT ![w].id = id,
                 ![w].at = IF manifest[id].content # ContentOf[w] THEN "failed"
                           ELSE CASE State(id) = "ready" -> "check"
                                  [] State(id) = "writing" -> "link"
                                  [] OTHER -> "failed"],
               overran' = (overran \/ manifest[id].age = "old"
                                   \/ State(id) = "delete_pending"),
               UNCHANGED manifest
        PROVE  TypeOK'
    <3> DEFINE s == IF manifest[id].content # ContentOf[w] THEN "failed"
                    ELSE CASE State(id) = "ready" -> "check"
                           [] State(id) = "writing" -> "link"
                           [] OTHER -> "failed"
    <3>1. s \in Steps
      BY DEF Steps
    <3>2. writer' = [writer EXCEPT ![w].at = s, ![w].id = id]
      BY <1>0, <2>7, <2>1 DEF WritersOK, WriterRecord
    <3> QED BY <2>6, <2>7, <3>1, <3>2
  <2> QED BY <1>1, <2>5, <2>7 DEF CreateOrLoadManifest
<1>2. ASSUME NEW w \in Writers, Link(w) \/ SyncDirectory(w) PROVE TypeOK'
  <2>1. Active(w) /\ writer[w].id \in Ids
    BY <1>2, <1>a DEF Link, SyncDirectory, At
  <2>2. BlobsOK'
    BY <1>0, <1>2, <2>1 DEF Link, SyncDirectory, BlobsOK
  <2>3. WritersOK'
    BY <1>2, <2>1, ToStep DEF Link, SyncDirectory, WritersOK, Steps
  <2> QED BY <1>0, <1>2, <1>m, <1>r, <1>c, <2>2, <2>3, TypePartsNext DEF Link, SyncDirectory
<1>3. ASSUME NEW w \in Writers, Verify(w) \/ StoreFails(w) PROVE TypeOK'
  <2>1. Active(w)
    BY <1>3, <1>a DEF Verify, StoreFails, At
  <2>2. WritersOK'
    BY <1>3, <2>1, ToStep DEF Verify, StoreFails, WritersOK, Steps
  <2> QED BY <1>0, <1>3, <1>m, <1>b, <1>r, <1>c, <2>2, FaultType, TypePartsNext DEF Verify, StoreFails
<1>4. ASSUME NEW w \in Writers, MarkCorrupt(w) \/ Publish(w) \/ Hydrate(w) PROVE TypeOK'
  <2>1. Active(w) /\ writer[w].id \in Ids
    BY <1>4, <1>a DEF MarkCorrupt, Publish, Hydrate, At
  <2>2. WritersOK'
    BY <1>4, <2>1, ToStep DEF MarkCorrupt, Publish, Hydrate, WritersOK, Steps
  <2>3. ManifestsOK'
    BY <1>0, <1>4, <1>m, <2>1, BecomesStep, ReadyStep
    DEF MarkCorrupt, Publish, Hydrate, ManifestsOK, State, Exists
  <2> QED BY <1>0, <1>4, <1>b, <1>r, <1>c, <2>2, <2>3, TypePartsNext DEF MarkCorrupt, Publish, Hydrate
<1>5. ASSUME NEW w \in Writers, Refer(w) \/ CreateLease(w) \/ Terminate(w) PROVE TypeOK'
  <2>1. Active(w) /\ writer[w].id \in Ids
    BY <1>5, <1>a DEF Refer, CreateLease, Terminate, At
  <2>2. WritersOK'
    BY <1>5, <2>1, ToStep DEF Refer, CreateLease, Terminate, WritersOK, Steps
  <2>3. RefsOK'
    BY <1>0, <1>5, <2>1 DEF Refer, CreateLease, Terminate, RefsOK
  <2> QED BY <1>0, <1>5, <1>m, <1>b, <1>c, <2>2, <2>3, TypePartsNext DEF Refer, CreateLease, Terminate
<1>6. ASSUME NEW k \in Keys, TerminateAbandoned(k) \/ CandidateExpires(k) PROVE TypeOK'
  <2>1. RefsOK'
    BY <1>0, <1>6 DEF TerminateAbandoned, CandidateExpires, RefsOK
  <2> QED BY <1>0, <1>6, <1>m, <1>b, <1>w, <1>c, <2>1, TypePartsNext DEF TerminateAbandoned, CandidateExpires
<1>7. ASSUME NEW k \in Keys, ReadDamaged(k) PROVE TypeOK'
  <2>1. ref[k] \in Ids
    BY <1>0, <1>7 DEF ReadDamaged, RefsOK
  <2>2. ManifestsOK'
    BY <1>7, <2>1, BecomesStep DEF ReadDamaged, ManifestsOK, State, Exists
  <2> QED BY <1>0, <1>7, <1>b, <1>r, <1>w, <1>c, <2>2, TypePartsNext DEF ReadDamaged
<1>8. ASSUME reconcileWriting \/ reconcileDeletePending \/ reconcileReady PROVE TypeOK'
  <2>1. PICK phase \in Phases, ids \in SUBSET Ids : Scan(phase, ids)
    BY <1>8 DEF reconcileWriting, reconcileDeletePending, reconcileReady, Phases
  <2>2. RecOK'
    BY <2>1, OffTyped DEF Scan, RecOK, RecRecord, Off
  <2> QED BY <1>0, <1>m, <1>b, <1>r, <1>w, <2>1, <2>2, TypePartsNext DEF Scan
<1>9. ASSUME NextManifest PROVE TypeOK'
  <2>1. PICK id \in rec.todo, s \in {"examine", "check", "look"} :
          rec' = [rec EXCEPT !.todo = @ \ {id}, !.id = id, !.at = s]
    BY <1>9 DEF NextManifest
  <2>2. RecOK'
    BY <1>0, <2>1 DEF RecOK, RecRecord
  <2> QED BY <1>0, <1>9, <1>m, <1>b, <1>r, <1>w, <2>2, TypePartsNext DEF NextManifest
<1>10. ASSUME Examine \/ Look \/ Recheck PROVE TypeOK'
  <2>1. RecOK'
    BY <1>10, RecToStep, ContinueStep DEF Examine, Look, Recheck, RecAt
  <2> QED BY <1>0, <1>10, <1>m, <1>b, <1>r, <1>w, <2>1, TypePartsNext DEF Examine, Look, Recheck
<1>11. ASSUME Unlink \/ SyncDeletion PROVE TypeOK'
  <2>1. RecOK' /\ rec.id \in Ids
    BY <1>11, RecToStep DEF Unlink, SyncDeletion, RecAt
  <2>2. BlobsOK'
    BY <1>0, <1>11, <2>1 DEF Unlink, SyncDeletion, BlobsOK
  <2> QED BY <1>0, <1>11, <1>m, <1>r, <1>w, <2>1, <2>2, TypePartsNext DEF Unlink, SyncDeletion
<1>12. ASSUME Settle \/ Claim \/ Restore \/ RemoveManifest PROVE TypeOK'
  <2>1. rec.id \in Ids /\ rec.at # "next"
    BY <1>0, <1>12 DEF Settle, Claim, Restore, RemoveManifest, RecAt, RecOK
  <2>2. RecOK'
    BY <1>12, <2>1, ContinueStep, RecToStep DEF Settle, Claim, Restore, RemoveManifest
  <2>3. ManifestsOK'
    <3>1. CASE Settle
      BY <1>m, <2>1, <3>1, BecomesStep, ReadyStep DEF Settle, ManifestsOK, State, Exists
    <3>2. CASE Claim \/ Restore
      BY <1>m, <2>1, <3>2, BecomesStep DEF Claim, Restore, ManifestsOK, State, Exists
    <3>3. CASE RemoveManifest
      BY <1>0, <3>3 DEF RemoveManifest, ManifestsOK
    <3> QED BY <1>12, <3>1, <3>2, <3>3
  <2> QED BY <1>0, <1>12, <1>b, <1>r, <1>w, <2>2, <2>3, TypePartsNext
      DEF Settle, Claim, Restore, RemoveManifest
<1>13. ASSUME StoreUnavailable \/ PassDies PROVE TypeOK'
  <2>1. RecOK'
    BY <1>13, ContinueStep, OffTyped DEF StoreUnavailable, PassDies, RecOK, Off
  <2> QED BY <1>0, <1>13, <1>m, <1>b, <1>r, <1>w, <2>1, FaultType, TypePartsNext
      DEF StoreUnavailable, PassDies
<1>14. ASSUME NEW id \in Ids, Ages(id) PROVE TypeOK'
  <2> DEFINE m == [manifest[id] EXCEPT
                     !.age = IF manifest[id].age = "fresh" THEN "stale" ELSE "old"]
  <2>1. manifest[id] \in Manifest
    BY <1>14, StatesOfManifests DEF Ages, State, Exists
  <2>2. m \in Manifest
    BY <2>1 DEF Manifest
  <2>3. manifest' = [manifest EXCEPT ![id] = m]
    BY <1>0, <1>14 DEF Ages, ManifestsOK
  <2>4. ManifestsOK'
    BY <1>0, <2>2, <2>3 DEF ManifestsOK
  <2> QED BY <1>0, <1>14, <1>b, <1>r, <1>w, <1>c, <2>4, TypePartsNext DEF Ages
<1>15. ASSUME NEW w \in Writers, Crash(w) PROVE TypeOK'
  <2> DEFINE t == [writer[w] EXCEPT !.at = "idle", !.id = None]
  <2>1. t \in WriterRecord /\ t.at = "idle"
    BY <1>0 DEF WritersOK, WriterRecord, Steps
  <2>2. writer' = [writer EXCEPT ![w] = t]
    BY <1>0, <1>15 DEF Crash, WritersOK
  <2> HIDE DEF t
  <2>3. WritersOK'
    BY <2>1, <2>2, WriterStep DEF WritersOK
  <2> QED BY <1>0, <1>15, <1>m, <1>b, <1>r, <1>c, <2>3, FaultType, TypePartsNext DEF Crash
<1>16. ASSUME PowerLoss PROVE TypeOK'
  <2>1. WritersOK'
    <3> DEFINE t(w) == IF Active(w) THEN [writer[w] EXCEPT !.at = "idle", !.id = None]
                                    ELSE writer[w]
    <3>1. ASSUME NEW w \in Writers
          PROVE  /\ t(w) \in WriterRecord
                 /\ t(w).at \in {"idle", "done", "failed"}
      BY <1>0 DEF WritersOK, WriterRecord, Steps, Active
    <3>2. writer' = [w \in Writers |-> t(w)]
      BY <1>16 DEF PowerLoss
    <3> HIDE DEF t
    <3> QED
      BY <3>1, <3>2 DEF WritersOK, Active
  <2>2. BlobsOK' /\ RecOK'
    BY <1>0, <1>16, OffTyped DEF PowerLoss, BlobsOK, RecOK, Off
  <2> QED BY <1>0, <1>16, <1>m, <1>r, <2>1, <2>2, FaultType, TypePartsNext DEF PowerLoss
<1>17. ASSUME NEW id \in Ids, Damage(id) PROVE TypeOK'
  <2>1. BlobsOK'
    BY <1>0, <1>17 DEF Damage, BlobsOK
  <2> QED BY <1>0, <1>17, <1>m, <1>r, <1>w, <1>c, <2>1, FaultType, TypePartsNext DEF Damage
<1>18. CASE UNCHANGED vars
  BY <1>0, <1>18, <1>m, <1>b, <1>r, <1>w, <1>c, TypePartsNext DEF vars
<1> QED
  BY <1>1, <1>2, <1>3, <1>4, <1>5, <1>6, <1>7, <1>8, <1>9, <1>10, <1>11, <1>12,
     <1>13, <1>14, <1>15, <1>16, <1>17, <1>18
  DEF Next, Write, reconcileArtifacts, Environment, Expiry

\* The state always has its shape.
THEOREM TypeCorrect == Spec => []TypeOK
BY InitTypeOK, NextTypeOK, PTL DEF Spec

-----------------------------------------------------------------------------
(* StoreInv is inductive *)

WritersSafe == \A w \in Writers : Active(w) => Protected(w)
RefsSafe == \A k \in Keys : ref[k] # None => State(ref[k]) \in {"ready", "corrupt"}
BlobsSafe == \A id \in Ids : Stored(id)
Safe == WritersSafe /\ RefsSafe /\ BlobsSafe /\ CollectsUnneeded

LEMMA SafeInv == StoreInv <=> (~overran => Safe /\ ClaimsUnneeded)
BY DEF StoreInv, Safe, WritersSafe, RefsSafe, BlobsSafe

LEMMA SafeInvNext == StoreInv' <=> (~overran' => Safe' /\ ClaimsUnneeded')
BY DEF StoreInv, Safe, WritersSafe, RefsSafe, BlobsSafe

LEMMA StoreInvInit == Init => StoreInv
<1> SUFFICES ASSUME Init PROVE Safe /\ ClaimsUnneeded
  BY SafeInv
<1>1. WritersSafe
  BY ArtifactAssumption DEF Init, WritersSafe, Active
<1>2. RefsSafe /\ BlobsSafe
  BY DEF Init, RefsSafe, BlobsSafe, Stored, State, Absent
<1>3. CollectsUnneeded
  BY DEF Init, Off, CollectsUnneeded
<1>4. ClaimsUnneeded
  BY DEF Init, Off, ClaimsUnneeded
<1> QED BY <1>1, <1>2, <1>3, <1>4 DEF Safe

\* An attempt that has met an old artifact stays known to have done so.
LEMMA OverranStays == ASSUME TypeOK, [Next]_vars, ~overran' PROVE ~overran
BY DEF TypeOK, Next, Write, reconcileArtifacts, Environment, Expiry, vars,
   CreateOrLoadManifest, Link, SyncDirectory, Verify, MarkCorrupt, Publish,
   StoreFails, Refer, CreateLease, Hydrate, Terminate, TerminateAbandoned,
   CandidateExpires, ReadDamaged, Scan, reconcileWriting,
   reconcileDeletePending, reconcileReady, NextManifest, Examine, Settle,
   Look, Claim, Recheck, Restore, Unlink, SyncDeletion, RemoveManifest,
   StoreUnavailable, PassDies, Ages, Crash, PowerLoss, Damage

\* The artifacts stay as they are for everybody.
ArtifactsKept == UNCHANGED <<manifest, file, disk>>

LEMMA WritersFrame ==
  ASSUME TypeOK, Safe, ArtifactsKept, NEW w \in Writers,
         \A v \in Writers \ {w} : writer'[v] = writer[v],
         Active(w)' => Protected(w)'
  PROVE  WritersSafe'
BY DEF Safe, WritersSafe, ArtifactsKept, Active, Protected, State

LEMMA WritersKept ==
  ASSUME Safe, ArtifactsKept, UNCHANGED writer
  PROVE  WritersSafe'
BY DEF Safe, WritersSafe, ArtifactsKept, Active, Protected, State

LEMMA BlobsFrame ==
  ASSUME Safe, ArtifactsKept
  PROVE  BlobsSafe'
BY DEF Safe, BlobsSafe, ArtifactsKept, Stored, State

LEMMA RefsFrame ==
  ASSUME Safe, ArtifactsKept, UNCHANGED ref
  PROVE  RefsSafe'
BY DEF Safe, RefsSafe, ArtifactsKept, State

\* What the pass has found out stays true.
FindingsKept(id) ==
  /\ Expired(id) => Expired(id)'
  /\ State(id) = "delete_pending" =>
       /\ State(id)' = "delete_pending"
       /\ file[id] = "none" => file'[id] = "none"
       /\ disk[id] = "none" => disk'[id] = "none"

LEMMA CollectSame ==
  ASSUME TypeOK, Safe, UNCHANGED rec, \A id \in Ids : FindingsKept(id)
  PROVE  CollectsUnneeded'
<1>1. RecOK
  BY RecTyped
<1>2. rec.todo \subseteq Ids
  BY <1>1 DEF RecOK, RecRecord
<1>3. \A id \in rec.todo : FindingsKept(id)
  BY <1>2
<1>4. rec.at # "next" => FindingsKept(rec.id)
  BY <1>1 DEF RecOK
<1> QED BY <1>3, <1>4 DEF Safe, CollectsUnneeded, FindingsKept, State, Expired

LEMMA CollectKept ==
  ASSUME TypeOK, Safe, UNCHANGED rec, ArtifactsKept
  PROVE  CollectsUnneeded'
BY CollectSame DEF FindingsKept, ArtifactsKept, State, Expired

\* The pass moves on or starts over.
LEMMA CollectNext ==
  ASSUME TypeOK, Safe, rec'.at = "next", rec'.id = None,
         \/ rec'.todo = {}
         \/ /\ rec'.todo = rec.todo /\ rec'.phase = rec.phase
            /\ \A id \in rec.todo : FindingsKept(id)
  PROVE  CollectsUnneeded'
<1>1. None \notin rec.todo
  BY RecTyped, ArtifactAssumption DEF RecOK, RecRecord
<1> QED BY <1>1 DEF Safe, CollectsUnneeded, FindingsKept, State, Expired

\* An artifact is settled: it is published by somebody who saw its blob, or it
\* is found corrupt.
Settles(id) ==
  /\ \A j \in Ids \ {id} : manifest'[j] = manifest[j]
  /\ State(id) \in {"writing", "ready"}
  /\ manifest'[id].state \in {"ready", "corrupt"} /\ manifest'[id].age = "fresh"
  /\ manifest'[id].state = "ready" =>
       /\ State(id) = "writing" /\ manifest'[id].by # "nobody"
       /\ manifest'[id].by = "writer" => disk[id] # "none"
  /\ UNCHANGED <<file, disk>>

LEMMA FoundCorrupt ==
  ASSUME TypeOK, NEW id \in Ids, State(id) \in {"writing", "ready"},
         Becomes(id, "corrupt"), UNCHANGED <<file, disk>>
  PROVE  Settles(id)
<1>1. Exists(id)
  BY DEF Exists, State
<1>2. /\ manifest'[id].state = "corrupt" /\ manifest'[id].age = "fresh"
      /\ \A j \in Ids \ {id} : manifest'[j] = manifest[j]
  BY <1>1, BecomesStep
<1> QED BY <1>2 DEF Settles

LEMMA Published ==
  ASSUME TypeOK, NEW id \in Ids, State(id) = "writing",
         NEW by \in {"writer", "reconciler"}, Ready(id, by),
         by = "writer" => disk[id] # "none", UNCHANGED <<file, disk>>
  PROVE  Settles(id)
<1>1. Exists(id)
  BY DEF Exists, State
<1>2. /\ manifest'[id].state = "ready" /\ manifest'[id].age = "fresh"
      /\ manifest'[id].by = by
      /\ \A j \in Ids \ {id} : manifest'[j] = manifest[j]
  BY <1>1, ReadyStep
<1> QED BY <1>2 DEF Settles

LEMMA SettleFrame ==
  ASSUME TypeOK, Safe, NEW id \in Ids, Settles(id)
  PROVE  /\ \A v \in Writers : Active(v) /\ writer'[v] = writer[v] => Protected(v)'
         /\ BlobsSafe' /\ (UNCHANGED ref => RefsSafe')
         /\ \A j \in Ids : FindingsKept(j)
<1>1. ASSUME NEW v \in Writers, Active(v), writer'[v] = writer[v] PROVE Protected(v)'
  <2>1. Protected(v) /\ writer[v].id \in Ids
    BY <1>1 DEF Safe, WritersSafe, TypeOK
  <2> QED BY <1>1, <2>1 DEF Protected, State, Settles
<1>2. ASSUME NEW j \in Ids PROVE Stored(j)' /\ FindingsKept(j)
  BY DEF Safe, BlobsSafe, Stored, State, Settles, FindingsKept, Expired
<1>3. ASSUME UNCHANGED ref PROVE RefsSafe'
  BY <1>3 DEF Safe, RefsSafe, State, Settles, TypeOK
<1> QED BY <1>1, <1>2, <1>3 DEF BlobsSafe

\* An attempt starts: on a new artifact, or on one that is not old.
LEMMA CreateOrLoadSafe ==
  ASSUME TypeOK, Safe, NEW w \in Writers, CreateOrLoadManifest(w), ~overran'
  PROVE  Safe'
<1>1. writer[w] \in WriterRecord
  BY DEF TypeOK, WriterRecord
<1>2. UNCHANGED <<file, disk, ref, rec>>
  BY DEF CreateOrLoadManifest
<1>3. ASSUME NEW id \in Ids, State(id) = "absent",
             manifest' = [manifest EXCEPT ![id] = NewManifest(w)],
             writer' = [writer EXCEPT ![w].at = "link", ![w].id = id]
      PROVE  Safe'
  <2>1. /\ manifest'[id].state = "writing" /\ manifest'[id].age = "fresh"
        /\ \A j \in Ids \ {id} : manifest'[j] = manifest[j]
    BY <1>3 DEF NewManifest, TypeOK
  <2>2. /\ writer'[w].at = "link" /\ writer'[w].id = id
        /\ \A v \in Writers \ {w} : writer'[v] = writer[v]
    BY <1>1, <1>3 DEF TypeOK, WriterRecord
  <2>3. Protected(w)'
    BY <2>1, <2>2 DEF Protected, State
  <2>4. ASSUME NEW v \in Writers \ {w}, Active(v)' PROVE Protected(v)'
    <3>1. Active(v) /\ Protected(v) /\ writer[v].id \in Ids
      BY <2>2, <2>4 DEF Safe, WritersSafe, TypeOK, Active
    <3>2. writer[v].id # id
      BY <1>3, <3>1 DEF Protected
    <3> QED BY <1>2, <2>1, <2>2, <3>1, <3>2 DEF Protected, State
  <2>5. RefsSafe'
    BY <1>2, <1>3, <2>1 DEF Safe, RefsSafe, State, TypeOK
  <2>6. ASSUME NEW j \in Ids PROVE Stored(j)' /\ FindingsKept(j)
    BY <1>2, <1>3, <2>1 DEF Safe, BlobsSafe, Stored, State, FindingsKept, Expired
  <2> QED BY <1>2, <2>3, <2>4, <2>5, <2>6, CollectSame DEF Safe, WritersSafe, BlobsSafe
<1>4. ASSUME NEW id \in Ids, Exists(id), manifest[id].key = KeyOf(w), NEW s,
             writer' = [writer EXCEPT ![w].id = id, ![w].at = s],
             s = "check" => State(id) = "ready",
             s \in {"check", "link", "failed"},
             overran' = (overran \/ manifest[id].age = "old"
                                 \/ State(id) = "delete_pending"),
             UNCHANGED manifest
      PROVE  Safe'
  <2>1. /\ writer'[w].at = s /\ writer'[w].id = id
        /\ \A v \in Writers \ {w} : writer'[v] = writer[v]
    BY <1>1, <1>4 DEF TypeOK, WriterRecord
  <2>2. State(id) \in {"writing", "ready", "corrupt"} /\ manifest[id].age # "old"
    BY <1>4, StatesOfManifests DEF Exists, State, States
  <2>3. Active(w)' => Protected(w)'
    BY <1>4, <2>1, <2>2 DEF Protected, State
  <2>4. ArtifactsKept
    BY <1>2, <1>4 DEF ArtifactsKept
  <2> QED BY <1>2, <2>1, <2>3, <2>4, WritersFrame, BlobsFrame, RefsFrame, CollectKept DEF Safe
<1>5. CASE \E id \in Ids :
             /\ State(id) = "absent"
             /\ manifest' = [manifest EXCEPT ![id] = NewManifest(w)]
             /\ writer' = [writer EXCEPT ![w].at = "link", ![w].id = id]
  BY <1>3, <1>5
<1>6. ASSUME NEW id \in Ids, Exists(id), manifest[id].key = KeyOf(w),
             writer' = [writer EXCEPT ![w].id = id,
               ![w].at = IF manifest[id].content # ContentOf[w] THEN "failed"
                         ELSE CASE State(id) = "ready" -> "check"
                                [] State(id) = "writing" -> "link"
                                [] OTHER -> "failed"],
             overran' = (overran \/ manifest[id].age = "old"
                                 \/ State(id) = "delete_pending"),
             UNCHANGED manifest
      PROVE  Safe'
  BY <1>4, <1>6
<1> QED BY <1>5, <1>6 DEF CreateOrLoadManifest

\* References appear only for the artifact an attempt works on.
LEMMA RefsAppear ==
  ASSUME TypeOK, [Next]_vars, NEW k \in Keys, ref'[k] # None, ref'[k] # ref[k]
  PROVE  \E w \in Writers : Active(w) /\ writer[w].at = "refer" /\ ref'[k] = writer[w].id
<1>1. \E w \in Writers : Refer(w) \/ CreateLease(w)
  BY DEF TypeOK, Next, Write, reconcileArtifacts, Environment, Expiry, vars,
     CreateOrLoadManifest, Link, SyncDirectory, Verify, MarkCorrupt, Publish,
     StoreFails, Hydrate, Terminate, TerminateAbandoned,
     CandidateExpires, ReadDamaged, Scan, reconcileWriting,
     reconcileDeletePending, reconcileReady, NextManifest, Examine, Settle,
     Look, Claim, Recheck, Restore, Unlink, SyncDeletion, RemoveManifest,
     StoreUnavailable, PassDies, Ages, Crash, PowerLoss, Damage
<1> QED BY <1>1 DEF Refer, CreateLease, At, Active, TypeOK

\* While the pass is at a claim it changes nothing, and damage is for good.
LEMMA ClaimWaits ==
  ASSUME TypeOK, [Next]_vars, rec'.at = "claim", ~Look
  PROVE  /\ UNCHANGED rec
         /\ State(rec.id) = "corrupt" => State(rec.id)' # "ready"
<1>0. RecOK
  BY RecTyped
<1>1. UNCHANGED rec /\ ~reconcileArtifacts
  <2>1. ASSUME reconcileArtifacts PROVE rec'.at # "claim"
    <3>1. CASE reconcileWriting \/ reconcileDeletePending \/ reconcileReady
      BY <3>1 DEF reconcileWriting, reconcileDeletePending, reconcileReady, Scan, Off
    <3>2. CASE NextManifest
      <4>1. PICK id \in rec.todo, s \in {"examine", "check", "look"} :
              rec' = [rec EXCEPT !.todo = @ \ {id}, !.id = id, !.at = s]
        BY <3>2 DEF NextManifest
      <4> QED BY <1>0, <4>1 DEF RecOK, RecRecord
    <3>3. CASE Examine \/ Settle \/ Claim \/ Recheck \/ Restore \/ Unlink
               \/ SyncDeletion \/ RemoveManifest
      BY <3>3, ContinueStep, RecToStep
      DEF Examine, Settle, Claim, Recheck, Restore, Unlink, SyncDeletion,
          RemoveManifest, RecAt
    <3> QED BY <2>1, <3>1, <3>2, <3>3 DEF reconcileArtifacts
  <2>2. ASSUME StoreUnavailable \/ PassDies \/ PowerLoss PROVE rec'.at # "claim"
    <3>1. Continue \/ rec' = Off
      BY <2>2 DEF StoreUnavailable, PassDies, PowerLoss
    <3>2. Off.at = "next"
      BY DEF Off
    <3> QED BY <3>1, <3>2, ContinueStep
  <2> QED
    BY <2>1, <2>2 DEF Next, Write, Environment, Expiry, vars,
       CreateOrLoadManifest, Link, SyncDirectory, Verify, MarkCorrupt, Publish,
       StoreFails, Refer, CreateLease, Hydrate, Terminate, TerminateAbandoned,
       CandidateExpires, ReadDamaged, Ages, Crash, Damage
<1>2. ASSUME State(rec.id) = "corrupt" PROVE State(rec.id)' # "ready"
  <2>1. rec.id \in Ids
    BY <1>0, <1>1 DEF RecOK
  <2>2. CASE UNCHANGED manifest
    BY <1>1, <1>2, <2>2 DEF State
  <2>3. ASSUME NEW id \in Ids, State(id) # "corrupt",
               \A j \in Ids \ {id} : manifest'[j] = manifest[j]
        PROVE  State(rec.id)' # "ready"
    BY <1>1, <1>2, <2>1, <2>3 DEF State
  <2>4. ASSUME NEW w \in Writers,
               CreateOrLoadManifest(w) \/ MarkCorrupt(w) \/ Publish(w) \/ Hydrate(w)
        PROVE  State(rec.id)' # "ready"
    <3>1. writer[w].at \notin {"idle", "done", "failed"} => writer[w].id \in Ids
      BY DEF TypeOK, Active
    <3> QED BY <2>2, <2>3, <2>4, <3>1 DEF CreateOrLoadManifest, MarkCorrupt,
               Publish, Hydrate, Becomes, Ready, At, TypeOK
  <2>5. ASSUME NEW k \in Keys, ReadDamaged(k) PROVE State(rec.id)' # "ready"
    BY <2>3, <2>5 DEF ReadDamaged, Becomes, TypeOK
  <2>6. ASSUME NEW id \in Ids, Ages(id) PROVE State(rec.id)' # "ready"
    BY <2>3, <2>6 DEF Ages, TypeOK
  <2> QED
    BY <1>1, <2>2, <2>4, <2>5, <2>6 DEF Next, Write, Environment, Expiry, vars,
       Link, SyncDirectory, Verify, StoreFails, Refer, CreateLease, Terminate,
       TerminateAbandoned, CandidateExpires, StoreUnavailable, PassDies, Crash,
       PowerLoss, Damage
<1> QED BY <1>1, <1>2

\* No attempt comes to need what the pass is about to claim.
LEMMA ClaimsNext ==
  ASSUME TypeOK, Safe, ClaimsUnneeded, [Next]_vars
  PROVE  ClaimsUnneeded'
<1> SUFFICES ASSUME rec'.at = "claim", State(rec.id)' = "ready",
                    NEW k \in Keys, ref'[k] = rec'.id
             PROVE  FALSE
  BY DEF ClaimsUnneeded, hasReference
<1>1. CASE Look
  <2>1. rec.at = "look" /\ RecTo("claim") /\ ~hasReference(rec.id) /\ UNCHANGED ref
    BY <1>1, ContinueStep DEF Look, RecAt
  <2>2. rec'.id = rec.id
    BY <2>1, RecToStep
  <2> QED BY <2>1, <2>2 DEF hasReference
<1>2. CASE ~Look
  <2>1. UNCHANGED rec /\ rec.at = "claim" /\ State(rec.id) # "corrupt" /\ rec.id \in Ids
    BY <1>2, ClaimWaits, RecTyped DEF RecOK
  <2>2. State(rec.id) = "ready" /\ manifest[rec.id].age = "old"
    BY <2>1 DEF Safe, CollectsUnneeded, Expired
  <2>3. ref[k] # rec.id
    BY <2>1, <2>2 DEF ClaimsUnneeded, hasReference
  <2>4. PICK w \in Writers : Active(w) /\ writer[w].id = rec.id
    BY <2>1, <2>3, RefsAppear, ArtifactAssumption
  <2> QED BY <2>2, <2>4 DEF Safe, WritersSafe, Protected
<1> QED BY <1>1, <1>2

LEMMA StoreInvNext == TypeOK /\ StoreInv /\ [Next]_vars => StoreInv'
<1> SUFFICES ASSUME TypeOK, StoreInv, [Next]_vars, ~overran' PROVE Safe'
  BY SafeInvNext, SafeInv, OverranStays, ClaimsNext
<1>0. Safe
  BY OverranStays, SafeInv
<1>a. ASSUME NEW w \in Writers, writer[w].at \notin {"idle", "done", "failed"}
      PROVE  Active(w) /\ writer[w].id \in Ids /\ Protected(w)
  BY <1>0, <1>a DEF Safe, WritersSafe, TypeOK, Active
<1>1. ASSUME NEW w \in Writers, CreateOrLoadManifest(w) PROVE Safe'
  BY <1>0, <1>1, CreateOrLoadSafe
\* The blob appears and is synced before it is verified.
<1>2. ASSUME NEW w \in Writers, Link(w) \/ SyncDirectory(w) PROVE Safe'
  <2> DEFINE id == writer[w].id
  <2>1. Active(w) /\ id \in Ids /\ Protected(w)
    BY <1>2, <1>a DEF Link, SyncDirectory, At
  <2>2. /\ writer'[w].id = id /\ \A v \in Writers \ {w} : writer'[v] = writer[v]
        /\ writer'[w].at \in {"sync", "exists", "verify"}
        /\ UNCHANGED <<manifest, ref, rec>>
    BY <1>2, <2>1, ToStep DEF Link, SyncDirectory, Steps
  <2>3. /\ \A j \in Ids \ {id} : file'[j] = file[j] /\ disk'[j] = disk[j]
        /\ file[id] # "none" => file'[id] = file[id]
        /\ file'[id] # "none" /\ (disk[id] # "none" => disk'[id] # "none")
        /\ writer'[w].at = "verify" => disk'[id] # "none"
    <3>1. CASE Link(w)
      BY <2>1, <3>1, ToStep DEF Link, Steps, TypeOK
    <3>2. CASE SyncDirectory(w)
      BY <2>1, <3>2, ToStep DEF SyncDirectory, Protected, TypeOK
    <3> QED BY <1>2, <3>1, <3>2
  <2>4. ASSUME NEW v \in Writers, Active(v)' PROVE Protected(v)'
    <3>1. CASE v = w
      BY <2>1, <2>2, <2>3, <3>1 DEF Protected, State
    <3>2. CASE v # w
      <4>1. Protected(v) /\ writer[v].id \in Ids
        BY <1>0, <2>2, <2>4, <3>2 DEF Safe, WritersSafe, TypeOK, Active
      <4> QED BY <2>2, <2>3, <3>2, <4>1 DEF Protected, State
    <3> QED BY <3>1, <3>2
  <2>5. ASSUME NEW j \in Ids PROVE Stored(j)' /\ FindingsKept(j)
    <3>1. Stored(j)
      BY <1>0 DEF Safe, BlobsSafe
    <3>2. State(id) \in {"writing", "ready", "corrupt"}
      BY <2>1 DEF Protected
    <3> QED BY <2>2, <2>3, <3>1, <3>2 DEF Stored, State, FindingsKept, Expired
  <2>6. RefsSafe'
    BY <1>0, <2>2 DEF Safe, RefsSafe, State
  <2> QED BY <1>0, <2>2, <2>4, <2>5, <2>6, CollectSame DEF Safe, WritersSafe, BlobsSafe
<1>3. ASSUME NEW w \in Writers, Verify(w) \/ StoreFails(w) PROVE Safe'
  <2>1. Active(w) /\ Protected(w) /\ writer[w].id \in Ids
    BY <1>3, <1>a DEF Verify, StoreFails, At
  <2>2. /\ writer'[w].id = writer[w].id /\ UNCHANGED <<ref, rec>> /\ ArtifactsKept
        /\ \A v \in Writers \ {w} : writer'[v] = writer[v]
        /\ \/ writer'[w].at = "failed"
           \/ writer[w].at = "verify" /\ writer'[w].at \in {"publish", "mark"}
           \/ writer[w].at = "check" /\ writer'[w].at = "refer"
    <3>1. CASE StoreFails(w)
      BY <2>1, <3>1, ToStep DEF StoreFails, Steps, ArtifactsKept
    <3>2. CASE Verify(w)
      BY <2>1, <3>2, ToStep DEF Verify, At, Steps, ArtifactsKept
    <3> QED BY <1>3, <3>1, <3>2
  <2>3. Active(w)' => Protected(w)'
    BY <2>1, <2>2 DEF Protected, Active, State, ArtifactsKept
  <2> QED BY <1>0, <2>2, <2>3, WritersFrame, BlobsFrame, RefsFrame, CollectKept DEF Safe
\* Publication, or the discovery of damaged content.
<1>4. ASSUME NEW w \in Writers, MarkCorrupt(w) \/ Publish(w) \/ Hydrate(w) PROVE Safe'
  <2> DEFINE id == writer[w].id
  <2>1. Active(w) /\ Protected(w) /\ id \in Ids
    BY <1>4, <1>a DEF MarkCorrupt, Publish, Hydrate, At
  <2>2. /\ writer'[w].id = id /\ UNCHANGED <<ref, rec, file, disk>>
        /\ \A v \in Writers \ {w} : writer'[v] = writer[v]
        /\ writer'[w].at \in {"failed", "refer", "terminate"}
    BY <1>4, <2>1, ToStep DEF MarkCorrupt, Publish, Hydrate, Steps
  <2>3. CASE UNCHANGED manifest /\ (Active(w)' => State(id) # "writing")
    <3>1. ArtifactsKept
      BY <2>2, <2>3 DEF ArtifactsKept
    <3>2. Active(w)' => Protected(w)'
      BY <2>1, <2>2, <2>3 DEF Protected, State
    <3> QED BY <1>0, <2>2, <3>1, <3>2, WritersFrame, BlobsFrame, RefsFrame, CollectKept DEF Safe
  <2>4. CASE Settles(id)
    <3>1. Protected(w)'
      BY <2>1, <2>2, <2>4 DEF Protected, Settles, State
    <3>2. WritersSafe'
      BY <1>0, <2>1, <2>2, <2>4, <3>1, SettleFrame DEF WritersSafe, Active
    <3> QED BY <1>0, <2>1, <2>2, <2>4, <3>2, SettleFrame, CollectSame DEF Safe
  <2>5. CASE MarkCorrupt(w)
    <3>1. CASE State(id) = "writing"
      BY <2>1, <2>2, <2>4, <2>5, <3>1, FoundCorrupt DEF MarkCorrupt
    <3>2. CASE State(id) # "writing"
      BY <2>3, <2>5, <3>2 DEF MarkCorrupt
    <3> QED BY <3>1, <3>2
  <2>6. CASE Hydrate(w)
    <3>1. CASE Becomes(id, "corrupt") /\ State(id) = "ready"
      BY <2>1, <2>2, <2>4, <3>1, FoundCorrupt
    <3>2. CASE UNCHANGED manifest
      <4>1. State(id) # "writing"
        BY <2>1, <2>6 DEF Hydrate, At, Protected
      <4> QED BY <2>3, <3>2, <4>1
    <3> QED BY <2>6, <3>1, <3>2 DEF Hydrate
  <2>7. CASE Publish(w)
    <3>1. CASE State(id) = "writing"
      <4>1. Ready(id, "writer") /\ disk[id] # "none"
        BY <2>1, <2>7, <3>1 DEF Publish, At, Protected
      <4> QED BY <2>1, <2>2, <2>4, <3>1, <4>1, Published
    <3>2. CASE State(id) # "writing"
      BY <2>3, <2>7, <3>2 DEF Publish
    <3> QED BY <3>1, <3>2
  <2> QED BY <1>4, <2>5, <2>6, <2>7
\* References only ever appear for the artifact an attempt still works on.
<1>5. ASSUME NEW w \in Writers, Refer(w) \/ CreateLease(w) \/ Terminate(w) PROVE Safe'
  <2>1. Active(w) /\ Protected(w) /\ writer[w].id \in Ids /\ KeyOf(w) \in Keys
    BY <1>5, <1>a DEF Refer, CreateLease, Terminate, At, TypeOK, KeyOf
  <2>2. /\ writer'[w].id = writer[w].id /\ UNCHANGED rec /\ ArtifactsKept
        /\ \A v \in Writers \ {w} : writer'[v] = writer[v]
        /\ \/ writer'[w].at \in {"done", "failed"}
           \/ writer[w].at = "refer" /\ writer'[w].at = "hydrate"
    BY <1>5, <2>1, ToStep DEF Refer, CreateLease, Terminate, At, Steps, ArtifactsKept
  <2>3. Active(w)' => Protected(w)'
    BY <2>1, <2>2 DEF Protected, Active, State, ArtifactsKept
  <2>4. ASSUME NEW k \in Keys, ref'[k] # None
        PROVE  \/ ref'[k] = ref[k]
               \/ ref'[k] = writer[w].id /\ writer[w].at = "refer"
    BY <1>5, <2>1, <2>4 DEF Refer, CreateLease, Terminate, At, TypeOK
  <2>5. RefsSafe'
    BY <1>0, <2>1, <2>2, <2>4 DEF Safe, RefsSafe, Protected, State, ArtifactsKept
  <2> QED BY <1>0, <2>2, <2>3, <2>5, WritersFrame, BlobsFrame, CollectKept DEF Safe
<1>6. ASSUME NEW k \in Keys, TerminateAbandoned(k) \/ CandidateExpires(k) PROVE Safe'
  <2>1. ArtifactsKept /\ UNCHANGED <<writer, rec>> /\ ref' = [ref EXCEPT ![k] = None]
    BY <1>6 DEF TerminateAbandoned, CandidateExpires, ArtifactsKept
  <2>2. RefsSafe'
    BY <1>0, <2>1 DEF Safe, RefsSafe, State, ArtifactsKept, TypeOK
  <2> QED BY <1>0, <2>1, <2>2, WritersKept, BlobsFrame, CollectKept DEF Safe
<1>7. ASSUME NEW k \in Keys, ReadDamaged(k) PROVE Safe'
  <2>1. ref[k] \in Ids /\ UNCHANGED <<writer, rec, ref>>
    BY <1>7 DEF ReadDamaged, TypeOK
  <2>2. Settles(ref[k])
    BY <1>7, <2>1, FoundCorrupt DEF ReadDamaged
  <2>3. WritersSafe'
    BY <1>0, <2>1, <2>2, SettleFrame DEF WritersSafe, Active
  <2> QED BY <1>0, <2>1, <2>2, <2>3, SettleFrame, CollectSame DEF Safe
\* What the pass alone does to itself.
<1>b. ASSUME UNCHANGED <<manifest, file, disk, ref, writer>>, CollectsUnneeded' PROVE Safe'
  BY <1>0, <1>b, WritersKept, BlobsFrame, RefsFrame DEF Safe, ArtifactsKept
<1>8. ASSUME reconcileWriting \/ reconcileDeletePending \/ reconcileReady PROVE Safe'
  <2>1. PICK phase \in Phases, ids \in SUBSET Ids :
          /\ Scan(phase, ids)
          /\ phase = "ready" => \A id \in ids : Expired(id)
          /\ phase = "pending" => \A id \in ids : State(id) = "delete_pending"
    BY <1>8 DEF reconcileWriting, reconcileDeletePending, reconcileReady, Phases, Expired
  <2>2. /\ rec'.phase = phase /\ rec'.todo = ids /\ rec'.at = "next" /\ rec'.id = None
        /\ UNCHANGED <<manifest, file, disk, ref, writer>>
    BY <2>1 DEF Scan, Off
  <2>3. CollectsUnneeded'
    BY <2>1, <2>2, ArtifactAssumption DEF CollectsUnneeded, Expired, State
  <2> QED BY <1>b, <2>2, <2>3
<1>9. ASSUME NextManifest PROVE Safe'
  <2>1. PICK id \in rec.todo, s \in {"examine", "check", "look"} :
          /\ rec' = [rec EXCEPT !.todo = @ \ {id}, !.id = id, !.at = s]
          /\ s = "check" => rec.phase = "pending"
          /\ s = "look" => rec.phase = "ready"
    BY <1>9, RecTyped DEF NextManifest, RecOK, RecRecord, Phases
  <2>2. /\ rec'.todo = rec.todo \ {id} /\ rec'.id = id /\ rec'.at = s
        /\ rec'.phase = rec.phase
    BY <2>1, RecTyped DEF RecOK, RecRecord
  <2>3. UNCHANGED <<manifest, file, disk, ref, writer>>
    BY <1>9 DEF NextManifest
  <2>4. CollectsUnneeded'
    BY <1>0, <2>1, <2>2, <2>3 DEF Safe, CollectsUnneeded, Expired, State
  <2> QED BY <1>b, <2>3, <2>4
<1>10. ASSUME Examine \/ Recheck PROVE Safe'
  <2>1. /\ rec.at # "next" /\ UNCHANGED <<manifest, file, disk, ref, writer>>
        /\ rec.at = "check" => State(rec.id) = "delete_pending"
    BY <1>0, <1>10 DEF Examine, Recheck, RecAt, Safe, CollectsUnneeded
  <2>2. ~(rec.at = "check" /\ hasReference(rec.id))
    BY <1>0, <2>1, RecTyped, ArtifactAssumption DEF Safe, RefsSafe, hasReference, RecOK
  <2>3. /\ rec'.id = rec.id /\ rec'.todo = rec.todo /\ rec'.phase = rec.phase
        /\ \/ rec'.at \in {"promote", "corrupt"}
           \/ rec'.at = "unlink" /\ rec.at = "check"
    BY <1>10, <2>1, <2>2, RecToStep DEF Examine, Recheck, RecAt
  <2>4. CollectsUnneeded'
    BY <1>0, <2>1, <2>3 DEF Safe, CollectsUnneeded, Expired, State
  <2> QED BY <1>b, <2>1, <2>4
<1>11. ASSUME Settle PROVE Safe'
  <2>1. rec.id \in Ids /\ Continue /\ UNCHANGED <<file, disk, ref, writer>>
    BY <1>11, RecTyped DEF Settle, RecOK
  <2>2. CASE UNCHANGED manifest
    <3>1. CollectsUnneeded'
      BY <1>0, <2>1, <2>2, ContinueStep, CollectNext DEF FindingsKept, State, Expired
    <3> QED BY <1>b, <2>1, <2>2, <3>1
  <2>3. CASE Settles(rec.id)
    <3>1. WritersSafe'
      BY <1>0, <2>1, <2>3, SettleFrame DEF WritersSafe, Active
    <3>2. rec.todo \subseteq Ids
      BY RecTyped DEF RecOK, RecRecord
    <3>3. CollectsUnneeded'
      BY <1>0, <2>1, <2>3, <3>2, SettleFrame, ContinueStep, CollectNext
    <3> QED BY <1>0, <2>1, <2>3, <3>1, <3>3, SettleFrame DEF Safe
  <2>4. CASE State(rec.id) = "writing"
    BY <1>11, <2>1, <2>3, <2>4, FoundCorrupt, Published DEF Settle
  <2> QED BY <1>11, <2>2, <2>4 DEF Settle
\* A claim takes an artifact that nobody holds or names.
<1>c. ASSUME Look PROVE Safe'
  <2>1. UNCHANGED <<manifest, file, disk, ref, writer>>
    BY <1>c DEF Look
  <2>2. CASE Continue
    <3>1. \A j \in rec.todo : FindingsKept(j)
      BY <2>1 DEF FindingsKept, Expired, State
    <3>2. CollectsUnneeded'
      BY <1>0, <2>2, <3>1, ContinueStep, CollectNext
    <3> QED BY <1>b, <2>1, <3>2
  <2>3. CASE RecTo("claim")
    <3>1. /\ rec.at = "look" /\ rec'.at = "claim" /\ rec'.id = rec.id
          /\ rec'.todo = rec.todo /\ rec'.phase = rec.phase
      BY <1>c, <2>3, RecToStep DEF Look, RecAt
    <3>2. CollectsUnneeded'
      BY <1>0, <2>1, <3>1 DEF Safe, CollectsUnneeded, Expired, State
    <3> QED BY <1>b, <2>1, <3>2
  <2> QED BY <1>c, <2>2, <2>3 DEF Look
<1>12. ASSUME Claim PROVE Safe'
  <2> DEFINE id == rec.id
  <2>1. /\ id \in Ids /\ rec.at = "claim" /\ Expired(id) /\ id \notin rec.todo
        /\ UNCHANGED <<file, disk, ref, writer>>
    BY <1>0, <1>12, RecTyped DEF Claim, RecAt, RecOK, Safe, CollectsUnneeded
  <2>4. State(id) = "ready" => ~hasReference(id)
    BY <2>1, SafeInv, OverranStays DEF ClaimsUnneeded
  <2>2. CASE Continue /\ UNCHANGED manifest
    <3>1. CollectsUnneeded'
      BY <1>0, <2>1, <2>2, ContinueStep, CollectNext DEF FindingsKept, State, Expired
    <3> QED BY <1>b, <2>1, <2>2, <3>1
  <2>3. CASE /\ State(id) = "ready"
             /\ Becomes(id, "delete_pending") /\ RecTo("check")
    <3>0. Exists(id)
      BY <2>3 DEF Exists, State
    <3>1. /\ manifest'[id].state = "delete_pending"
          /\ \A j \in Ids \ {id} : manifest'[j] = manifest[j]
      BY <2>1, <2>3, <3>0, BecomesStep
    <3>2. /\ rec'.at = "check" /\ rec'.id = id /\ rec'.todo = rec.todo
          /\ rec'.phase = rec.phase
      BY <2>1, <2>3, RecToStep
    <3>3. WritersSafe'
      <4> SUFFICES ASSUME NEW v \in Writers, Active(v) PROVE Protected(v)'
        BY <2>1 DEF WritersSafe, Active
      <4>1. Protected(v) /\ writer[v].id \in Ids
        BY <1>0 DEF Safe, WritersSafe, TypeOK
      <4>2. writer[v].id # id
        BY <2>1, <2>3, <4>1 DEF Protected, Expired
      <4> QED BY <2>1, <3>1, <4>1, <4>2 DEF Protected, State
    <3>4. RefsSafe'
      BY <1>0, <2>1, <2>3, <2>4, <3>1 DEF Safe, RefsSafe, hasReference, State, TypeOK
    <3>5. BlobsSafe'
      BY <1>0, <2>1, <3>1 DEF Safe, BlobsSafe, Stored, State
    <3>6. rec.todo \subseteq Ids \ {id}
      BY <2>1, RecTyped DEF RecOK, RecRecord
    <3>7. CollectsUnneeded'
      BY <1>0, <2>1, <3>1, <3>2, <3>6 DEF Safe, CollectsUnneeded, Expired, State
    <3> QED BY <3>3, <3>4, <3>5, <3>7 DEF Safe
  <2> QED BY <1>12, <2>2, <2>3 DEF Claim
<1>13. ~Restore
  BY <1>0 DEF Restore, RecAt, Safe, CollectsUnneeded
\* Deletion: the blob, the directory, the manifest.
<1>14. ASSUME Unlink \/ SyncDeletion PROVE Safe'
  <2> DEFINE id == rec.id
  <2>1. /\ id \in Ids /\ State(id) = "delete_pending" /\ id \notin rec.todo
        /\ UNCHANGED <<manifest, ref, writer>>
        /\ rec'.id = id /\ rec'.todo = rec.todo /\ rec'.phase = rec.phase
        /\ \A j \in Ids \ {id} : file'[j] = file[j] /\ disk'[j] = disk[j]
    BY <1>0, <1>14, RecToStep DEF Unlink, SyncDeletion, RecAt, Safe, CollectsUnneeded, TypeOK
  <2>2. /\ file'[id] = "none"
        /\ \/ rec'.at = "sync"
           \/ rec'.at = "remove" /\ disk'[id] = "none"
    BY <1>0, <1>14, RecToStep DEF Unlink, SyncDeletion, RecAt, Safe, CollectsUnneeded, TypeOK
  <2>3. WritersSafe'
    <3> SUFFICES ASSUME NEW v \in Writers, Active(v) PROVE Protected(v)'
      BY <2>1 DEF WritersSafe, Active
    <3>1. Protected(v) /\ writer[v].id \in Ids \ {id}
      BY <1>0, <2>1 DEF Safe, WritersSafe, TypeOK, Protected
    <3> QED BY <2>1, <3>1 DEF Protected, State
  <2>4. RefsSafe'
    BY <1>0, <2>1 DEF Safe, RefsSafe, State
  <2>5. BlobsSafe'
    BY <1>0, <2>1 DEF Safe, BlobsSafe, Stored, State
  <2>6. CollectsUnneeded'
    BY <1>0, <2>1, <2>2 DEF Safe, CollectsUnneeded, Expired, State
  <2> QED BY <2>3, <2>4, <2>5, <2>6 DEF Safe
<1>15. ASSUME RemoveManifest PROVE Safe'
  <2> DEFINE id == rec.id
  <2>1. /\ id \in Ids /\ State(id) = "delete_pending" /\ disk[id] = "none"
        /\ id \notin rec.todo /\ Continue /\ UNCHANGED <<file, disk, ref, writer>>
    BY <1>0, <1>15, RecTyped DEF RemoveManifest, RecAt, RecOK, Safe, CollectsUnneeded
  <2>2. /\ manifest'[id].state = "deleted"
        /\ \A j \in Ids \ {id} : manifest'[j] = manifest[j]
    BY <1>15, <2>1 DEF RemoveManifest, Deleted, TypeOK
  <2>3. WritersSafe'
    <3> SUFFICES ASSUME NEW v \in Writers, Active(v) PROVE Protected(v)'
      BY <2>1 DEF WritersSafe, Active
    <3>1. Protected(v) /\ writer[v].id \in Ids \ {id}
      BY <1>0, <2>1 DEF Safe, WritersSafe, TypeOK, Protected
    <3> QED BY <2>1, <2>2, <3>1 DEF Protected, State
  <2>4. RefsSafe'
    BY <1>0, <2>1, <2>2 DEF Safe, RefsSafe, State, TypeOK
  <2>5. BlobsSafe'
    BY <1>0, <2>1, <2>2 DEF Safe, BlobsSafe, Stored, State
  <2>6. \A j \in rec.todo : FindingsKept(j)
    BY <2>1, <2>2, RecTyped DEF FindingsKept, Expired, State, RecOK, RecRecord
  <2>7. CollectsUnneeded'
    BY <1>0, <2>1, <2>6, ContinueStep, CollectNext
  <2> QED BY <2>3, <2>4, <2>5, <2>7 DEF Safe
<1>16. ASSUME StoreUnavailable \/ PassDies PROVE Safe'
  <2>1. UNCHANGED <<manifest, file, disk, ref, writer>> /\ (Continue \/ rec' = Off)
    BY <1>16 DEF StoreUnavailable, PassDies
  <2>2. \A j \in rec.todo : FindingsKept(j)
    BY <2>1 DEF FindingsKept, Expired, State
  <2>3. CollectsUnneeded'
    BY <1>0, <2>1, <2>2, ContinueStep, CollectNext DEF Off
  <2> QED BY <1>b, <2>1, <2>3
\* Nothing an attempt holds grows old.
<1>17. ASSUME NEW id \in Ids, Ages(id) PROVE Safe'
  <2>1. /\ \A j \in Ids \ {id} : manifest'[j] = manifest[j]
        /\ State(id) \in {"writing", "ready"} /\ manifest[id].age # "old"
        /\ manifest'[id].state = State(id) /\ manifest'[id].by = manifest[id].by
        /\ manifest'[id].age = IF manifest[id].age = "fresh" THEN "stale" ELSE "old"
        /\ UNCHANGED <<file, disk, ref, writer, rec>>
    <3>1. manifest[id] \in Manifest
      BY <1>17, StatesOfManifests DEF Ages, State, Exists
    <3> QED BY <1>17, <3>1 DEF Ages, State, Manifest, TypeOK
  <2>2. WritersSafe'
    <3> SUFFICES ASSUME NEW v \in Writers, Active(v) PROVE Protected(v)'
      BY <2>1 DEF WritersSafe, Active
    <3>1. Protected(v) /\ writer[v].id \in Ids
      BY <1>0 DEF Safe, WritersSafe, TypeOK
    <3>2. CASE writer[v].id = id
      <4>1. manifest[id].age # "stale"
        BY <1>17, <3>2 DEF Ages
      <4>2. manifest[id].age = "fresh"
        BY <1>17, <2>1, <4>1, StatesOfManifests DEF State, Exists, Manifest
      <4> QED BY <2>1, <3>1, <3>2, <4>2 DEF Protected, State
    <3>3. CASE writer[v].id # id
      BY <2>1, <3>1, <3>3 DEF Protected, State
    <3> QED BY <3>2, <3>3
  <2>3. RefsSafe'
    BY <1>0, <2>1 DEF Safe, RefsSafe, State, TypeOK
  <2>4. ASSUME NEW j \in Ids PROVE Stored(j)' /\ FindingsKept(j)
    BY <1>0, <2>1 DEF Safe, BlobsSafe, Stored, State, FindingsKept, Expired
  <2> QED BY <1>0, <2>1, <2>2, <2>3, <2>4, CollectSame DEF Safe, BlobsSafe
<1>18. ASSUME NEW w \in Writers, Crash(w) PROVE Safe'
  <2>1. /\ writer'[w].at = "idle" /\ \A v \in Writers \ {w} : writer'[v] = writer[v]
        /\ ArtifactsKept /\ UNCHANGED <<ref, rec>>
    BY <1>18 DEF Crash, TypeOK, ArtifactsKept
  <2>2. ~Active(w)'
    BY <2>1 DEF Active
  <2> QED BY <1>0, <2>1, <2>2, WritersFrame, BlobsFrame, RefsFrame, CollectKept DEF Safe
\* After a power loss nobody is active, and only synced blobs are left.
<1>19. ASSUME PowerLoss PROVE Safe'
  <2>1. file' = disk /\ UNCHANGED <<manifest, disk, ref>> /\ rec' = Off
    BY <1>19 DEF PowerLoss
  <2>2. ASSUME NEW v \in Writers PROVE ~Active(v)'
    <3>1. writer[v] \in WriterRecord
      BY DEF TypeOK, WriterRecord
    <3>2. [writer[v] EXCEPT !.at = "idle", !.id = None].at = "idle"
      BY <3>1 DEF WriterRecord
    <3> QED BY <1>19, <3>2 DEF PowerLoss, Active
  <2>3. RefsSafe' /\ BlobsSafe'
    BY <1>0, <2>1 DEF Safe, RefsSafe, BlobsSafe, Stored, State
  <2>4. CollectsUnneeded'
    BY <1>0, <2>1, CollectNext DEF Off
  <2> QED BY <2>2, <2>3, <2>4 DEF Safe, WritersSafe
<1>20. ASSUME NEW id \in Ids, Damage(id) PROVE Safe'
  <2>1. /\ UNCHANGED <<manifest, ref, writer, rec>>
        /\ \A j \in Ids : /\ file'[j] = "none" <=> file[j] = "none"
                          /\ disk'[j] = "none" <=> disk[j] = "none"
    BY <1>20 DEF Damage, TypeOK
  <2>2. WritersSafe'
    BY <1>0, <2>1 DEF Safe, WritersSafe, Active, Protected, State, TypeOK
  <2>3. RefsSafe'
    BY <1>0, <2>1 DEF Safe, RefsSafe, State
  <2>4. ASSUME NEW j \in Ids PROVE Stored(j)' /\ FindingsKept(j)
    BY <1>0, <2>1 DEF Safe, BlobsSafe, Stored, State, FindingsKept, Expired
  <2> QED BY <1>0, <2>1, <2>2, <2>3, <2>4, CollectSame DEF Safe, BlobsSafe
<1>21. CASE UNCHANGED vars
  BY <1>0, <1>21, WritersKept, BlobsFrame, RefsFrame, CollectKept DEF vars, ArtifactsKept, Safe
<1> QED
  BY <1>1, <1>2, <1>3, <1>4, <1>5, <1>6, <1>7, <1>8, <1>9, <1>10, <1>11, <1>12,
     <1>13, <1>14, <1>15, <1>16, <1>17, <1>18, <1>19, <1>20, <1>21, <1>c
  DEF Next, Write, reconcileArtifacts, Environment, Expiry

\* Unless an attempt has met an artifact past the retention: what an attempt
\* still works on, or what a document refers to, is not collected.
THEOREM StoreInvariant == Spec => []StoreInv
<1>1. Init => TypeOK /\ StoreInv
  BY InitTypeOK, StoreInvInit
<1>2. TypeOK /\ StoreInv /\ [Next]_vars => (TypeOK /\ StoreInv)'
  BY NextTypeOK, StoreInvNext
<1> QED BY <1>1, <1>2, PTL DEF Spec

\* The artifact a snapshot, a candidate or a live lease names is ready with a
\* blob that was seen (or damaged since), never deleted (Look and Recheck
\* look for references, Ages renews the timestamps).
THEOREM ReferencesCanBeRead == Spec => []ReferencedIsReadable
<1>1. TypeOK /\ StoreInv => ReferencedIsReadable
  <2> SUFFICES ASSUME TypeOK, Safe, NEW k \in Keys, ref[k] # None
               PROVE  /\ State(ref[k]) \in {"ready", "corrupt"}
                      /\ State(ref[k]) = "ready" => \/ file[ref[k]] # "none"
                                                    \/ manifest[ref[k]].by = "reconciler"
    BY SafeInv DEF ReferencedIsReadable
  <2>1. ref[k] \in Ids /\ State(ref[k]) \in {"ready", "corrupt"} /\ Stored(ref[k])
    BY DEF Safe, RefsSafe, BlobsSafe, TypeOK
  <2>2. State(ref[k]) = "ready" => manifest[ref[k]].by \in {"nobody", "writer", "reconciler"}
    BY <2>1, StatesOfManifests DEF Exists, State, Manifest
  <2> QED BY <2>1, <2>2 DEF Stored
<1> QED BY <1>1, TypeCorrect, StoreInvariant, PTL

\* A power loss does not take back what a writer has published: whoever put
\* the blob there, its directory was synced before (SyncDirectory).
THEOREM PublishedSurvives == Spec => []PublishedIsDurable
<1>1. StoreInv => PublishedIsDurable
  BY SafeInv DEF PublishedIsDurable, Safe, BlobsSafe, Stored
<1> QED BY <1>1, StoreInvariant, PTL

\* No blob outlives its manifest (Unlink, SyncDeletion, RemoveManifest).
THEOREM DeletedForGood == Spec => []CollectedIsGone
<1>1. StoreInv => CollectedIsGone
  BY SafeInv DEF CollectedIsGone, Safe, BlobsSafe, Stored
<1> QED BY <1>1, StoreInvariant, PTL
=============================================================================
