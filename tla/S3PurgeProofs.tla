---------------------------- MODULE S3PurgeProofs ----------------------------
(***************************************************************************)
(* Proofs about S3Purge for any number of jobs, goroutines, kills and      *)
(* failures: the purge removes an object only when no URL for it is valid  *)
(* any more, and a row only when its object is gone.                       *)
(***************************************************************************)
EXTENDS S3Purge, JobDurabilityProofs

-----------------------------------------------------------------------------
(* The inductive invariant.                                                *)

\* The rows that the current round has listed and is not done with.
Claimed == candidates \cup (IF ppc = "idle" THEN {} ELSE {purging})

\* Between the query and the last step of a row nothing brings its job back:
\* the deadline is long past, the job is done or gone, and no run of it can
\* begin while this process lives.
ClaimedSettled ==
    \A i \in Claimed : i \in Ids /\ age[i] = "purgeable" /\ keyOf[i] \in Keys /\ Settled(i)

\* The three steps of a row in their order.
RowInHand ==
    /\ ppc # "idle" => ~Present(purging)
    /\ ppc = "row" => purging \notin artifacts

\* What the purge is done with is out of the table, out of memory and out of
\* everybody's hands, so it is not uploaded again.
PurgedIsGone ==
    \A i \in purged :
        /\ db[i] = NoJob /\ i \notin artifacts
        /\ keyOf[i] \in Keys /\ ~Present(i) /\ ~Carried(i)

PurgeInv == PurgeTypeOK /\ ClaimedSettled /\ RowInHand /\ PurgedIsGone /\ UrlsWork

PInv == DInv /\ PurgeInv

-----------------------------------------------------------------------------
(* Around the purge.                                                       *)

\* No step of the living process brings a job back that is done or gone.
LEMMA SettledThrough ==
    ASSUME DInv, DStep, NEW i \in Ids, keyOf[i] \in Keys, Settled(i)
    PROVE  /\ Settled(i)' /\ keyOf'[i] \in Keys
           /\ ~Present(i) => ~Present(i)'
           /\ age[i] = "purgeable" => age'[i] = "purgeable"
           /\ i \in artifacts' => i \in artifacts
<1> USE DEF DInv
<1>0. ~Carried(i)
  BY DEF Settled
<1>1. CASE [Next]_svcVars
  <2>1. ServiceTypeOK'
    BY <1>1, CoreInvStep
  <2>2. age[i] = "purgeable" => age'[i] = "purgeable"
    <3>1. ASSUME NEW w \in Workers, Complete(w) PROVE wjob[w] # i
      BY <1>0, <3>1 DEF Complete, Carried, HeldBy, Busy
    <3> QED
      BY <1>1, <3>1, PurgeableStays
  <2>3. i \in artifacts' => i \in artifacts
    BY <1>0, <1>1, ArtifactsGrow DEF Carried
  <2> QED
    BY <1>1, <2>1, <2>2, <2>3, SettledStays
<1>2. ASSUME NEW j \in Ids, BootEnqueue(j)
      PROVE  /\ Settled(i)' /\ UNCHANGED <<keyOf, age, artifacts>>
             /\ ~Present(i) => ~Present(i)'
  <2>1. UNCHANGED <<jobs, keyOf, age, artifacts>>
    BY <1>2 DEF BootEnqueue, storeVars, envVars
  <2>2. HasStatus(j, "queued") /\ (Carried(i)' => Carried(i) \/ i = j)
    BY <1>2, BootCarrier
  <2>3. i # j
    BY <2>2 DEF Settled, HasStatus
  <2> QED
    BY <1>0, <2>1, <2>2, <2>3 DEF Settled, HasStatus, Present
<1> QED
  BY <1>1, <1>2, ServicePart

\* A URL that holds keeps its object: only a DELETE unlinks it, and a run that
\* renews the deadline renews the object.
LEMMA UrlsThrough ==
    ASSUME DInv, PurgeTypeOK, UrlsWork, DStep, urls' = urls PROVE UrlsWork'
<1> USE DEF DInv
<1> SUFFICES ASSUME NEW i \in urls, i \notin deleted', age'[i] # "purgeable"
             PROVE  i \in artifacts'
  BY DEF UrlsWork
<1>1. i \in Ids /\ i \notin deleted
  BY DeletedGrows DEF PurgeTypeOK
<1>2. CASE [Next]_svcVars
  <2>1. i \in artifacts => i \in artifacts'
    BY <1>1, <1>2, ArtifactsMove DEF CoreInv, CarrierInv, KeepInv, UnlinkAfterDelete
  <2>2. ASSUME NEW w \in Workers, Complete(w), wjob[w] = i PROVE i \in artifacts
    BY <2>2 DEF Complete, CoreInv, ArtifactInv, SavedHasArtifact
  <2> QED
    BY <1>1, <1>2, <2>1, <2>2, PurgeableStays DEF UrlsWork
<1>3. CASE \E j \in Ids : BootEnqueue(j)
  BY <1>1, <1>3 DEF BootEnqueue, storeVars, envVars, UrlsWork
<1> QED
  BY <1>2, <1>3, ServicePart

\* The invariant while handlers, workers and the writer go on.
LEMMA LiveStep == ASSUME PInv, Live PROVE PurgeInv'
<1> USE DEF PInv, PurgeInv
<1>1. /\ DStep /\ purged' = {i \in purged : db'[i] = NoJob}
      /\ UNCHANGED <<candidates, purging, ppc, urls>>
  BY DEF Live
<1>2. PurgeTypeOK'
  BY <1>1 DEF PurgeTypeOK
<1>3. ClaimedSettled'
  BY <1>1, SettledThrough DEF ClaimedSettled, Claimed
<1>4. RowInHand'
  <2> SUFFICES ASSUME ppc # "idle"
               PROVE  ~Present(purging)' /\ (ppc = "row" => purging \notin artifacts')
    BY <1>1 DEF RowInHand, Present
  <2>1. purging \in Claimed
    BY DEF Claimed
  <2> PICK i \in Ids : i = purging
    BY <2>1 DEF ClaimedSettled
  <2>2. Settled(i) /\ keyOf[i] \in Keys /\ ~Present(i) /\ (ppc = "row" => i \notin artifacts)
    BY <2>1 DEF ClaimedSettled, RowInHand
  <2>3. ~Present(i)' /\ (i \in artifacts' => i \in artifacts)
    BY <1>1, <2>2, SettledThrough
  <2> QED
    BY <1>1, <2>2, <2>3 DEF Present
<1>5. PurgedIsGone'
  <2> SUFFICES ASSUME NEW i \in purged, db'[i] = NoJob
               PROVE  /\ i \notin artifacts' /\ keyOf'[i] \in Keys
                      /\ ~Present(i)' /\ ~Carried(i)'
    BY <1>1 DEF PurgedIsGone
  <2>1. i \in Ids /\ Settled(i) /\ keyOf[i] \in Keys /\ ~Present(i) /\ i \notin artifacts
    BY DEF PurgedIsGone, PurgeTypeOK, Settled
  <2> QED
    BY <1>1, <2>1, SettledThrough DEF Settled
<1>6. UrlsWork'
  BY <1>1, UrlsThrough
<1> QED
  BY <1>2, <1>3, <1>4, <1>5, <1>6

\* The round dies with the process; what it was done with stays gone.
LEMMA CrashStep == ASSUME PInv, Crash PROVE PurgeInv'
<1> USE DEF PInv, PurgeInv
<1>1. /\ ProcessRestart /\ UNCHANGED <<urls, purged>>
      /\ candidates' = {} /\ purging' = NoId /\ ppc' = "idle"
  BY DEF Crash
<1>2. UNCHANGED <<artifacts, db, deleted, age, keyOf>>
  BY <1>1 DEF ProcessRestart, Reload
<1>3. PurgeTypeOK' /\ ClaimedSettled' /\ RowInHand'
  BY <1>1 DEF PurgeTypeOK, ClaimedSettled, Claimed, RowInHand
<1>4. PurgedIsGone'
  <2> SUFFICES ASSUME NEW i \in purged PROVE ~Present(i)' /\ ~Carried(i)'
    BY <1>1, <1>2 DEF PurgedIsGone
  <2>1. i \in Ids /\ i \notin DoneRows /\ i \notin RunnableRows
    BY DEF PurgedIsGone, PurgeTypeOK, DoneRows, RunnableRows
  <2>2. jobs'[i] = NoJob
    BY <1>1, <2>1 DEF ProcessRestart, Reload
  <2>3. ~Carried(i)'
    BY <1>1, EmptySeq DEF ProcessRestart, Carried, InQueue, HeldBy, Busy, Bringing
  <2> QED
    BY <2>2, <2>3 DEF Present
<1>5. UrlsWork'
  BY <1>1, <1>2 DEF UrlsWork
<1> QED
  BY <1>3, <1>4, <1>5

-----------------------------------------------------------------------------
(* The round and the clock.                                                *)

\* A step that takes done jobs out of memory, rows of jobs that are gone out of
\* the table and objects without a job out of the store, or moves the clock,
\* keeps the invariant of the service and its table.
LEMMA PurgeKeeps ==
    ASSUME DInv, StoreInv',
           UNCHANGED <<keyOf, restored, queue, wpc, wjob, clientVars, cancelled, stopping,
                       note, wq, missed, procVars, deleted>>,
           \A i \in Ids : jobs'[i] = jobs[i] \/ (HasStatus(i, "done") /\ ~Present(i)'),
           \A i \in Ids : age'[i] = age[i] \/ age[i] # "purgeable",
           artifacts' \subseteq artifacts,
           \A i \in Ids : i \in artifacts /\ i \notin artifacts' =>
               age[i] = "purgeable" /\ ~Present(i) /\ ~Carried(i),
           db' \in [Ids -> JobRecord \cup {NoJob}],
           \A i \in Ids : db'[i] = db[i] \/ (db'[i] = NoJob /\ ~Present(i))
    PROVE  DInv'
<1> USE DEF DInv, CoreInv, CarrierInv
<1>0. UNCHANGED <<queue, wpc, wjob, cpc, cjob, known, boot, restarts>>
  BY DEF clientVars, procVars
<1>1. /\ \A i \in Ids : Present(i)' => Present(i) /\ jobs'[i] = jobs[i]
      /\ \A i \in Ids : Present(i) /\ ~Present(i)' => HasStatus(i, "done")
      /\ \A i \in Ids : \A s : HasStatus(i, s)' => HasStatus(i, s)
  BY DEF Present, HasStatus
<1>2. /\ \A i \in Ids : Carried(i)' <=> Carried(i)
      /\ \A i \in Ids : Waiting(i)' <=> Waiting(i)
      /\ \A i \in Ids : RunningOn(i)' <=> RunningOn(i)
  BY <1>0 DEF Carried, Waiting, RunningOn, InQueue, HeldBy
<1>3. CarrierInv'
  <2>1. ServiceTypeOK'
    BY <1>0 DEF ServiceTypeOK, StoreInv
  <2>2. OneCarrier'
    BY <1>0 DEF OneCarrier, InQueue, HeldBy
  <2> QED
    BY <1>2, <2>1, <2>2 DEF CarriedIssued
<1>4. StatusInv'
  <2>1. \A i \in Ids : StatusOf(i)
    BY StatusByJob
  <2> SUFFICES ASSUME NEW i \in Ids PROVE StatusOf(i)'
    BY StatusByJob
  <2> QED
    BY <1>1, <1>2, <2>1 DEF StatusOf, HasStatus
<1>5. ArtifactInv'
  <2>1. StoredMeansDone'
    BY <1>1 DEF ArtifactInv, StoredMeansDone
  <2>2. SavedHasArtifact'
    <3> SUFFICES ASSUME NEW w \in Workers, wpc[w] = "saved" PROVE wjob[w] \in artifacts'
      BY <1>0 DEF SavedHasArtifact
    <3>1. wjob[w] \in Ids /\ wjob[w] \in artifacts /\ HeldBy(w, wjob[w])
      BY DEF ArtifactInv, SavedHasArtifact, ServiceTypeOK, Busy, HeldBy
    <3> QED
      BY <3>1 DEF Carried
  <2>3. UnlinkedIsGone'
    <3> SUFFICES ASSUME NEW c \in Clients, cpc[c] = "unlink", NEW i \in Ids, i = cjob[c]
                 PROVE  ~Present(i)' /\ ~Carried(i)' /\ keyOf[i] \in Keys
      BY <1>0 DEF UnlinkedIsGone, ServiceTypeOK, Present, Carried, InQueue, HeldBy
    <3> QED
      BY <1>1, <1>2 DEF ArtifactInv, UnlinkedIsGone
  <2> QED
    BY <2>1, <2>2, <2>3 DEF ArtifactInv
<1>6. DurabilityTypeOK'
  BY <1>0 DEF DurabilityTypeOK
<1>7. BootInv' /\ StrandedAtBoot'
  <2>1. \A i \in boot : HasStatus(i, "queued")'
    BY <1>1 DEF BootInv, HasStatus, DurabilityTypeOK
  <2> QED
    BY <1>0, <1>1, <1>2, <2>1 DEF BootInv, StrandedAtBoot, Stranded, DurabilityTypeOK
<1>8. KeepInv'
  <2>1. RecordsSound'
    BY <1>1, <1>2 DEF KeepInv, RecordsSound, Sound
  <2>2. SnapshotsSound'
    <3> SUFFICES ASSUME NEW i \in Ids, NEW r \in JobRecord, Snapshot(i, r)' PROVE SoundOf(i, r)'
      BY DEF SnapshotsSound
    <3>1. SoundOf(i, r)
      BY StoreAssumption DEF Snapshot, Told, KeepInv, SnapshotsSound
    <3>2. Settled(i) => Settled(i)'
      BY <1>1, <1>2 DEF Settled, HasStatus
    <3>3. Kept(i) => Kept(i)'
      BY <1>1 DEF Kept
    <3> QED
      BY <3>1, <3>2, <3>3 DEF SoundOf, Sound
  <2>3. UnlinkAfterDelete'
    BY <1>0 DEF KeepInv, UnlinkAfterDelete
  <2>4. RestoredDoneHasArtifact'
    BY <1>1 DEF KeepInv, RestoredDoneHasArtifact, HasStatus
  <2> QED
    BY <2>1, <2>2, <2>3, <2>4 DEF KeepInv
<1>9. CatchingUp'
  <2> SUFFICES ASSUME NEW i \in Ids, i \notin missed, Present(i)', ~NotesOn(i)'
               PROVE  Caught(i)'
    BY DEF CatchingUp
  <2>1. Present(i) /\ jobs'[i] = jobs[i] /\ db'[i] = db[i] /\ ~NotesOn(i)
    BY <1>1 DEF NotesOn, Told
  <2> QED
    BY <2>1, CaughtKept DEF CatchingUp
<1> QED
  BY <1>3, <1>4, <1>5, <1>6, <1>7, <1>8, <1>9

\* A listed row is of a job that is done or gone, with a deadline long past.
LEMMA ListedSettled ==
    ASSUME DInv, NEW i \in PurgeableRows
    PROVE  i \in Ids /\ age[i] = "purgeable" /\ keyOf[i] \in Keys /\ Settled(i)
  BY RowSound DEF DInv, PurgeableRows, StoredRow, SoundOf

\* The row in hand is one the round has listed.
LEMMA InHand ==
    ASSUME PInv, ppc # "idle"
    PROVE  /\ purging \in Ids /\ age[purging] = "purgeable" /\ keyOf[purging] \in Keys
           /\ Settled(purging) /\ ~Present(purging)
           /\ ppc = "row" => purging \notin artifacts
  BY DEF PInv, PurgeInv, ClaimedSettled, Claimed, RowInHand

\* Store.RemoveExpiredArtifact finds the job done, or gone already
\* (store_expiry.go).
LEMMA PurgeMemoryStep ==
    ASSUME PInv, NEW i \in Ids, PurgeMemory(i) PROVE PInv' /\ [StoreNext]_storeVars
<1> USE DEF PInv, PurgeInv
<1>1. /\ ppc = "idle" /\ i \in candidates
      /\ candidates' = candidates \ {i} /\ purging' = i /\ ppc' = "object"
      /\ UNCHANGED <<runVars, clientVars, envVars, sinkVars, procVars, deleted, urls, purged>>
  BY DEF PurgeMemory
<1>2. age[i] = "purgeable" /\ keyOf[i] \in Keys /\ Settled(i)
  BY <1>1 DEF ClaimedSettled, Claimed
<1>3. IF Present(i) THEN RemoveExpiredArtifact(i) ELSE UNCHANGED storeVars
  <2>1. Present(i) => HasStatus(i, "done") /\ jobs[i].storage = "s3"
    BY <1>2, PurgeAssumption DEF Settled, DInv, KeepInv, RecordsSound, Sound, HasStatus
  <2> QED
    BY <1>2, <2>1 DEF PurgeMemory, HasStatus
<1>4. [StoreNext]_storeVars /\ StoreInv'
  <2>1. [StoreNext]_storeVars
    BY <1>3 DEF StoreNext
  <2> QED
    BY <2>1, StoreInvStep DEF DInv, CoreInv
<1>5. /\ UNCHANGED <<age, keyOf, restored>>
      /\ ~Present(i)' /\ \A j \in Ids : j # i => jobs'[j] = jobs[j]
      /\ jobs'[i] = jobs[i] \/ HasStatus(i, "done")
  BY <1>3 DEF RemoveExpiredArtifact, Forget, storeVars, Present, DInv, CoreInv, StoreInv, StoreTypeOK
<1>6. UNCHANGED <<queue, wpc, wjob, cpc, cjob, cancelled, artifacts, stopping, note, wq, db, missed>>
  BY <1>1 DEF runVars, clientVars, envVars, sinkVars
<1>7. DInv'
  BY <1>1, <1>4, <1>5, <1>6, PurgeKeeps DEF DInv, DurabilityTypeOK
<1>8. \A j \in Ids : /\ Carried(j)' <=> Carried(j)
                     /\ Settled(j) => Settled(j)'
  BY <1>5, <1>6 DEF Carried, InQueue, HeldBy, Settled, HasStatus, Present
<1>9. PurgeTypeOK' /\ RowInHand'
  BY <1>1, <1>5 DEF PurgeTypeOK, RowInHand, Present
<1>10. ClaimedSettled'
  BY <1>1, <1>5, <1>8 DEF ClaimedSettled, Claimed
<1>11. PurgedIsGone'
  BY <1>1, <1>5, <1>6, <1>8 DEF PurgedIsGone, Present, PurgeTypeOK
<1>12. UrlsWork'
  BY <1>1, <1>5, <1>6 DEF UrlsWork
<1> QED
  BY <1>4, <1>7, <1>9, <1>10, <1>11, <1>12

\* The other steps touch no job: the list, the object, the row, a URL.
LEMMA RoundStep ==
    ASSUME PInv, UNCHANGED <<storeVars, runVars, clientVars, cancelled, stopping, note, wq, missed,
                             procVars, deleted>>,
           artifacts' \in {artifacts, artifacts \ {purging}}, ppc = "object" \/ UNCHANGED artifacts,
           db' = db \/ (ppc = "row" /\ db' = [db EXCEPT ![purging] = NoJob])
    PROVE  /\ DInv' /\ [StoreNext]_storeVars
           /\ \A i \in Ids : (Carried(i)' <=> Carried(i)) /\ (Settled(i)' <=> Settled(i))
<1> USE DEF PInv, PurgeInv
<1>1. UNCHANGED <<jobs, age, keyOf, restored, queue, wpc, wjob, cpc, cjob>> /\ StoreInv'
  BY StoreInvStep DEF storeVars, runVars, clientVars, DInv, CoreInv
<1>2. \A i \in Ids : (Carried(i)' <=> Carried(i)) /\ (Settled(i)' <=> Settled(i))
  BY <1>1 DEF Carried, InQueue, HeldBy, Settled, HasStatus, Present
<1>3. \A i \in Ids : i \in artifacts /\ i \notin artifacts' =>
        age[i] = "purgeable" /\ ~Present(i) /\ ~Carried(i)
  BY InHand DEF Settled
<1>4. /\ db' \in [Ids -> JobRecord \cup {NoJob}]
      /\ \A i \in Ids : db'[i] = db[i] \/ (db'[i] = NoJob /\ ~Present(i))
  BY InHand DEF DInv, DurabilityTypeOK
<1>5. DInv'
  BY <1>1, <1>3, <1>4, PurgeKeeps
<1> QED
  BY <1>1, <1>2, <1>5

\* A round, with the failures that it may meet at every step
\* (s3_artifacts.go:60-110).
LEMMA PurgeStep == ASSUME PInv, Purge PROVE PInv' /\ [StoreNext]_storeVars
<1> USE DEF PInv, PurgeInv
<1>0. /\ UNCHANGED storeVars => UNCHANGED <<jobs, age, keyOf>>
      /\ \A i \in Ids : jobs' = jobs => (Present(i)' <=> Present(i))
  BY DEF storeVars, Present
<1>1. CASE BeginRound
  <2>1. /\ candidates' = PurgeableRows /\ PurgeIdle
        /\ UNCHANGED <<durVars, artifacts, db, deleted, purging, ppc, urls, purged>>
    BY <1>1 DEF BeginRound, durVars, svcVars, envVars, sinkVars
  <2>2. /\ DInv' /\ [StoreNext]_storeVars /\ UNCHANGED storeVars
        /\ \A i \in Ids : (Carried(i)' <=> Carried(i)) /\ (Settled(i)' <=> Settled(i))
    BY <2>1, RoundStep DEF durVars, svcVars, envVars, sinkVars
  <2>3. ClaimedSettled'
    BY <1>0, <2>1, <2>2, ListedSettled DEF ClaimedSettled, Claimed, PurgeIdle
  <2>4. PurgeTypeOK' /\ RowInHand'
    BY <2>1, ListedSettled DEF PurgeTypeOK, RowInHand, PurgeIdle
  <2>5. PurgedIsGone' /\ UrlsWork'
    BY <1>0, <2>1, <2>2 DEF PurgedIsGone, UrlsWork, PurgeTypeOK
  <2> QED
    BY <2>2, <2>3, <2>4, <2>5
<1>2. CASE PurgeObject \/ PurgeObjectFails
  <2>1. /\ ppc = "object" /\ artifacts' \in {artifacts, artifacts \ {purging}}
        /\ UNCHANGED <<storeVars, runVars, clientVars, cancelled, stopping, sinkVars, procVars,
                       deleted, candidates, urls, purged>>
        /\ \/ ppc' = "row" /\ purging' = purging /\ purging \notin artifacts'
           \/ ppc' = "idle" /\ purging' = NoId
    BY <1>2 DEF PurgeObject, PurgeObjectFails, NextCandidate
  <2>2. UNCHANGED <<note, wq, db, missed>>
    BY <2>1 DEF sinkVars
  <2>3. /\ DInv' /\ [StoreNext]_storeVars
        /\ \A i \in Ids : (Carried(i)' <=> Carried(i)) /\ (Settled(i)' <=> Settled(i))
    BY <2>1, <2>2, RoundStep
  <2>4. ClaimedSettled'
    BY <1>0, <2>1, <2>3 DEF ClaimedSettled, Claimed
  <2>5. PurgeTypeOK' /\ RowInHand'
    BY <1>0, <2>1, InHand DEF PurgeTypeOK, RowInHand, Present
  <2>6. PurgedIsGone'
    BY <1>0, <2>1, <2>2, <2>3 DEF PurgedIsGone, PurgeTypeOK
  <2>7. UrlsWork'
    BY <1>0, <2>1, InHand DEF UrlsWork
  <2> QED
    BY <2>3, <2>4, <2>5, <2>6, <2>7
<1>3. CASE PurgeRow \/ PurgeRowFails
  <2>1. /\ ppc = "row" /\ ppc' = "idle" /\ purging' = NoId
        /\ UNCHANGED <<svcVars, note, wq, missed, procVars, deleted, candidates, urls>>
        /\ \/ db' = [db EXCEPT ![purging] = NoJob] /\ purged' = purged \cup {purging}
           \/ UNCHANGED <<db, purged>>
    BY <1>3 DEF PurgeRow, PurgeRowFails, NextCandidate, durVars, sinkVars
  <2>2. UNCHANGED <<storeVars, runVars, clientVars, cancelled, artifacts, stopping>>
    BY <2>1 DEF svcVars, envVars
  <2>3. /\ DInv' /\ [StoreNext]_storeVars
        /\ \A i \in Ids : (Carried(i)' <=> Carried(i)) /\ (Settled(i)' <=> Settled(i))
    BY <2>1, <2>2, RoundStep
  <2>4. ClaimedSettled'
    BY <1>0, <2>1, <2>2, <2>3 DEF ClaimedSettled, Claimed
  <2>5. PurgeTypeOK' /\ RowInHand'
    BY <2>1, InHand DEF PurgeTypeOK, RowInHand
  <2>6. PurgedIsGone'
    <3> SUFFICES ASSUME NEW i \in purged', i \in Ids
                 PROVE  /\ db'[i] = NoJob /\ i \notin artifacts
                        /\ keyOf[i] \in Keys /\ ~Present(i) /\ ~Carried(i)
      BY <1>0, <2>2, <2>3, <2>5 DEF PurgedIsGone, PurgeTypeOK
    <3>1. CASE i = purging /\ purged' # purged
      BY <2>1, <3>1, InHand DEF Settled, DInv, DurabilityTypeOK
    <3>2. CASE i \in purged
      BY <2>1, <3>2 DEF PurgedIsGone, DInv, DurabilityTypeOK
    <3> QED
      BY <2>1, <3>1, <3>2
  <2>7. UrlsWork'
    BY <1>0, <2>1, <2>2 DEF UrlsWork
  <2> QED
    BY <2>3, <2>4, <2>5, <2>6, <2>7
<1> QED
  BY <1>1, <1>2, <1>3, PurgeMemoryStep DEF Purge

\* The deadline of an artifact passes, in memory or in the table only.
LEMMA TickStep ==
    ASSUME PInv, NEW i \in Ids, JobTick(i) \/ RowTick(i) PROVE PInv' /\ [StoreNext]_storeVars
<1> USE DEF PInv, PurgeInv
<1>1. /\ Elapse(i)
      /\ UNCHANGED <<runVars, clientVars, envVars, sinkVars, procVars, deleted, purgeVars>>
  BY DEF JobTick, RowTick, Tick, TellsNothing
<1>2. /\ UNCHANGED <<jobs, keyOf, restored, queue, wpc, wjob, clientVars, cancelled, artifacts,
                     stopping, note, wq, db, missed, procVars, deleted>>
      /\ UNCHANGED <<candidates, purging, ppc, urls, purged>>
      /\ \A j \in Ids : age'[j] = age[j] \/ age[j] # "purgeable"
  BY <1>1 DEF Elapse, runVars, envVars, sinkVars, purgeVars, DInv, CoreInv, StoreInv, StoreTypeOK
<1>3. [StoreNext]_storeVars
  <2>1. Present(i) => keyOf[i] \in Keys
    BY DEF DInv, CoreInv, StoreInv, PresentIssued
  <2>2. db[i] # NoJob => keyOf[i] \in Keys
    BY RowSound DEF DInv, SoundOf
  <2>3. i \in Issued
    BY <2>1, <2>2, StoreAssumption DEF JobTick, RowTick, Tick, HasStatus, Issued
  <2> QED
    BY <1>1, <2>3, PurgeAssumption DEF StoreNext
<1>4. StoreInv'
  BY <1>3, StoreInvStep DEF DInv, CoreInv
<1>5. DInv'
  BY <1>2, <1>4, PurgeKeeps DEF DInv, DurabilityTypeOK
<1>6. \A j \in Ids : /\ Carried(j)' <=> Carried(j)
                     /\ Settled(j)' <=> Settled(j)
                     /\ Present(j)' <=> Present(j)
  BY <1>2 DEF Carried, InQueue, HeldBy, Settled, HasStatus, Present, clientVars
<1>7. PurgeTypeOK' /\ ClaimedSettled' /\ RowInHand'
  BY <1>2, <1>6 DEF PurgeTypeOK, ClaimedSettled, Claimed, RowInHand, Present
<1>8. PurgedIsGone' /\ UrlsWork'
  BY <1>2, <1>6 DEF PurgedIsGone, UrlsWork, PurgeTypeOK
<1> QED
  BY <1>3, <1>5, <1>7, <1>8

\* A URL is signed only for an artifact that is there (internal/api/artifact.go).
LEMMA UrlStep ==
    ASSUME PInv, NEW i \in Ids, GetArtifact(i) PROVE PInv' /\ UNCHANGED storeVars
<1> USE DEF PInv, PurgeInv
<1>1. /\ HasStatus(i, "done") /\ urls' = urls \cup {i}
      /\ UNCHANGED <<durVars, candidates, purging, ppc, purged>>
  BY DEF GetArtifact
<1>2. DInv' /\ UNCHANGED <<storeVars, jobs, age, keyOf, artifacts, db, deleted>>
  BY <1>1, DInvStutter DEF durVars, svcVars, storeVars, envVars, sinkVars
<1>3. \A j \in Ids : /\ Carried(j)' <=> Carried(j)
                     /\ Settled(j)' <=> Settled(j)
                     /\ Present(j)' <=> Present(j)
  BY <1>1 DEF durVars, svcVars, storeVars, runVars, clientVars, Carried, InQueue, HeldBy, Settled,
              HasStatus, Present
<1>4. PurgeTypeOK' /\ ClaimedSettled' /\ RowInHand'
  BY <1>1, <1>2, <1>3 DEF PurgeTypeOK, ClaimedSettled, Claimed, RowInHand, Present
<1>5. PurgedIsGone'
  BY <1>1, <1>2, <1>3 DEF PurgedIsGone, PurgeTypeOK
<1>6. UrlsWork'
  BY <1>1, <1>2 DEF UrlsWork, DInv, KeepInv, RestoredDoneHasArtifact
<1> QED
  BY <1>2, <1>4, <1>5, <1>6

LEMMA PInvStutter == PInv /\ UNCHANGED allVars => PInv'
<1> SUFFICES ASSUME PInv, UNCHANGED allVars PROVE PInv'
  OBVIOUS
<1> USE DEF PInv, PurgeInv
<1>1. UNCHANGED <<durVars, candidates, purging, ppc, urls, purged>>
  BY DEF allVars, purgeVars
<1>2. DInv' /\ UNCHANGED <<jobs, age, keyOf, artifacts, db, deleted>>
  BY <1>1, DInvStutter DEF durVars, svcVars, storeVars, envVars, sinkVars
<1>3. \A j \in Ids : /\ Carried(j)' <=> Carried(j)
                     /\ Settled(j)' <=> Settled(j)
                     /\ Present(j)' <=> Present(j)
  BY <1>1 DEF durVars, svcVars, storeVars, runVars, clientVars, Carried, InQueue, HeldBy, Settled,
              HasStatus, Present
<1>4. PurgeTypeOK' /\ ClaimedSettled' /\ RowInHand'
  BY <1>1, <1>2, <1>3 DEF PurgeTypeOK, ClaimedSettled, Claimed, RowInHand, Present
<1>5. PurgedIsGone' /\ UrlsWork'
  BY <1>1, <1>2, <1>3 DEF PurgedIsGone, PurgeTypeOK, UrlsWork
<1> QED
  BY <1>2, <1>4, <1>5

LEMMA PInvInit == PInit => PInv
  BY DInvInit DEF PInit, PurgeIdle, PInv, PurgeInv, PurgeTypeOK, ClaimedSettled, Claimed, RowInHand,
                  PurgedIsGone, UrlsWork

\* Every step beside the table and the purge, and of the purge.
LEMMA PInvStep == PInv /\ [PNext]_allVars => PInv' /\ [StoreNext]_storeVars
<1> SUFFICES ASSUME PInv, [PNext]_allVars PROVE PInv' /\ [StoreNext]_storeVars
  OBVIOUS
<1>1. CASE Live
  <2>1. DStep
    BY <1>1 DEF Live
  <2> QED
    BY <1>1, <2>1, LiveStep, LifeKeeps, DurableStoreStep DEF PInv
<1>2. CASE Crash
  <2>1. ProcessRestart
    BY <1>2 DEF Crash
  <2> QED
    BY <1>2, <2>1, CrashStep, RestartStep, DurableStoreStep DEF PInv
<1>3. CASE Purge
  BY <1>3, PurgeStep
<1>4. CASE \E i \in Ids : GetArtifact(i) \/ JobTick(i) \/ RowTick(i)
  BY <1>4, UrlStep, TickStep
<1>5. CASE UNCHANGED allVars
  BY <1>5, PInvStutter DEF allVars, durVars, svcVars
<1> QED
  BY <1>1, <1>2, <1>3, <1>4, <1>5 DEF PNext

-----------------------------------------------------------------------------
\* The inductive invariant of the purge beside everything else.
THEOREM PurgeInvariant == PSpec => []PInv
  BY PInvInit, PInvStep, PTL DEF PSpec

\* A download URL leads to its object as long as it is valid, unless a client
\* deleted the job (s3_artifacts.go:77-81).
THEOREM UrlsWorkAlways == PSpec => []UrlsWork
<1>1. PInv => UrlsWork
  BY DEF PInv, PurgeInv
<1> QED
  BY <1>1, PurgeInvariant, PTL

\* The purge removes a row only when its object is gone, and nothing uploads
\* that object again (s3_artifacts.go:85-110).
THEOREM NoOrphanedObjectAlways == PSpec => []NoOrphanedObject
<1>1. PInv => NoOrphanedObject
  BY DEF PInv, PurgeInv, PurgedIsGone, NoOrphanedObject
<1> QED
  BY <1>1, PurgeInvariant, PTL

\* Beside the purge, too, a job that shows as done has its artifact
\* (store_expiry.go, s3_artifacts.go:85-96): the memory goes first.
THEOREM DoneHasArtifactBesidePurge == PSpec => []RestoredDoneHasArtifact
<1>1. PInv => RestoredDoneHasArtifact
  BY DEF PInv, DInv, KeepInv
<1> QED
  BY <1>1, PurgeInvariant, PTL

\* With deadlines and the purge the store is still the abstract one.
THEOREM PurgeImplementsStore == PSpec => StoreSpec
<1>1. PInit => StoreInit
  BY DEF PInit, DInit, Init
<1> QED
  BY <1>1, PInvStep, PurgeInvariant, PTL DEF PSpec, StoreSpec
=============================================================================
