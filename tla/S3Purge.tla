------------------------------- MODULE S3Purge -------------------------------
(***************************************************************************)
(* Expired S3 artifacts: the goroutine that removes them for good          *)
(* (internal/cleanup/s3_artifacts.go, internal/db/expired_artifacts.go),   *)
(* beside the handlers, the workers, the job table and its writer.         *)
(*                                                                         *)
(* A round lists the rows that are past their deadline by one URL TTL and  *)
(* takes each in three steps that nothing makes atomic: out of memory, the *)
(* object, the row.  Any of them may fail, and the process may be killed   *)
(* between them.                                                           *)
(***************************************************************************)
EXTENDS JobDurability

VARIABLES
    candidates,   \* rows of the current round that are still to be taken
    purging,      \* the row in hand, or NoId
    ppc,          \* "idle", or the step that the row in hand is to take next
    urls,         \* jobs with a download URL signed before their deadline
    purged        \* history: jobs whose row a round removed, not written since

purgeVars == <<candidates, purging, ppc, urls, purged>>
allVars   == <<durVars, purgeVars>>

ASSUME PurgeAssumption == Backend = "s3"

PurgeTypeOK ==
    /\ candidates \subseteq Ids
    /\ purging \in Ids \cup {NoId}
    /\ ppc \in {"idle", "object", "row"}
    /\ urls \subseteq Ids /\ purged \subseteq Ids

PurgeIdle == candidates = {} /\ purging = NoId /\ ppc = "idle"

PInit == DInit /\ PurgeIdle /\ urls = {} /\ purged = {}

-----------------------------------------------------------------------------
(* The round.                                                              *)

StoredRow(i) == db[i] # NoJob /\ db[i].status = "done" /\ db[i].storage = "s3"

\* Mutant: the cutoff is now, not one URL TTL ago.
PurgeableRows_NoGrace == {i \in Ids : StoredRow(i) /\ age[i] # "fresh"}

\* Both queries of expired_artifacts.go ask for these rows.
PurgeableRows == {i \in Ids : StoredRow(i) /\ age[i] = "purgeable"}

\* Runs at start and every half an hour, until the workers' context ends.
BeginRound ==
    /\ PurgeIdle /\ ~stopping
    /\ PurgeableRows # {}
    /\ candidates' = PurgeableRows
    /\ UNCHANGED <<durVars, purging, ppc, urls, purged>>

\* Mutant: the store is not asked (jobs is nil).
PurgeMemory_Skipped(i) ==
    /\ ppc = "idle" /\ i \in candidates
    /\ candidates' = candidates \ {i} /\ purging' = i /\ ppc' = "object"
    /\ UNCHANGED <<durVars, urls, purged>>

\* Store.RemoveExpiredArtifact, whatever it returns.
PurgeMemory(i) ==
    /\ ppc = "idle" /\ i \in candidates
    /\ candidates' = candidates \ {i} /\ purging' = i /\ ppc' = "object"
    /\ IF HasStatus(i, "done") /\ jobs[i].storage = "s3" /\ age[i] = "purgeable"
       THEN RemoveExpiredArtifact(i)
       ELSE UNCHANGED storeVars
    /\ UNCHANGED <<runVars, clientVars, envVars, sinkVars, procVars, deleted, urls, purged>>

PurgeObject ==
    /\ ppc = "object"
    /\ artifacts' = artifacts \ {purging}
    /\ ppc' = "row"
    /\ UNCHANGED <<storeVars, runVars, clientVars, cancelled, stopping, sinkVars,
                   procVars, deleted, candidates, purging, urls, purged>>

NextCandidate == purging' = NoId /\ ppc' = "idle"

\* Mutant: the row goes although the object could not be removed.
PurgeObjectFails_GoesOn ==
    /\ ppc = "object" /\ StorageFaults
    /\ ppc' = "row"
    /\ UNCHANGED <<durVars, candidates, purging, urls, purged>>

\* The row stays for the next round.  A removal that is reported as failed
\* may have happened.
PurgeObjectFails ==
    /\ ppc = "object"
    /\ StorageFaults \/ stopping
    /\ artifacts' \in {artifacts, artifacts \ {purging}}
    /\ NextCandidate
    /\ UNCHANGED <<storeVars, runVars, clientVars, cancelled, stopping, sinkVars,
                   procVars, deleted, candidates, urls, purged>>

\* Mutant: only the row of a job that was still in memory is removed.
PurgeRow_KnownOnly ==
    /\ ppc = "row"
    /\ db' = [db EXCEPT ![purging] = IF Present(purging) THEN NoJob ELSE @]
    /\ NextCandidate
    /\ UNCHANGED <<svcVars, note, wq, missed, procVars, deleted, candidates, urls, purged>>

\* The statement looks at the row again: a snapshot may have replaced it.
PurgeRow ==
    /\ ppc = "row"
    /\ IF purging \in PurgeableRows
       THEN db' = [db EXCEPT ![purging] = NoJob] /\ purged' = purged \cup {purging}
       ELSE UNCHANGED <<db, purged>>
    /\ NextCandidate
    /\ UNCHANGED <<svcVars, note, wq, missed, procVars, deleted, candidates, urls>>

\* The error is logged; the next round finds the row again.
PurgeRowFails ==
    /\ ppc = "row"
    /\ DbFaults \/ stopping
    /\ NextCandidate
    /\ UNCHANGED <<durVars, candidates, urls, purged>>

Purge ==
    \/ BeginRound \/ PurgeObject \/ PurgeObjectFails \/ PurgeRow \/ PurgeRowFails
    \/ \E i \in Ids : PurgeMemory(i)

-----------------------------------------------------------------------------
(* Around it.                                                              *)

\* GET /jobs/{id}/artifact: a URL that holds for one URL TTL from now.  The
\* check of the deadline and the signing are one step here.
GetArtifact(i) ==
    /\ boot = {} /\ i \in known
    /\ HasStatus(i, "done") /\ ~ArtifactExpired(i)
    /\ urls' = urls \cup {i}
    /\ UNCHANGED <<durVars, candidates, purging, ppc, purged>>

\* A snapshot that is written late brings a removed row back.
Live ==
    /\ DStep
    /\ purged' = {i \in purged : db'[i] = NoJob}
    /\ UNCHANGED <<candidates, purging, ppc, urls>>

\* The deadline of an artifact passes while its job is in memory.
JobTick(i) ==
    /\ Tick(i) /\ TellsNothing
    /\ UNCHANGED purgeVars

\* The deadline of an artifact passes while only the table knows it.
RowTick(i) ==
    /\ ~Present(i) /\ db[i] # NoJob /\ db[i].status = "done"
    /\ Elapse(i)
    /\ UNCHANGED <<runVars, clientVars, envVars, sinkVars, procVars, deleted, purgeVars>>

\* The round dies with the process.
Crash ==
    /\ ProcessRestart
    /\ candidates' = {} /\ purging' = NoId /\ ppc' = "idle"
    /\ UNCHANGED <<urls, purged>>

PNext == Live \/ Crash \/ Purge \/ \E i \in Ids : GetArtifact(i) \/ JobTick(i) \/ RowTick(i)

PSpec == PInit /\ [][PNext]_allVars

\* An outage of S3 or of the database ends some time; the rest is as before.
PFairness ==
    /\ DFairness
    /\ WF_allVars(Purge)
    /\ SF_allVars(PurgeObject) /\ SF_allVars(PurgeRow)

PFairSpec == PSpec /\ PFairness

-----------------------------------------------------------------------------
(* What the purge promises.                                                *)

\* "A URL can be minted until ExpiresAt and remains valid for one more URL
\* TTL" (s3_artifacts.go:78): as long as a client's URL holds, it leads to the
\* object, unless a client deleted the job.
UrlsWork ==
    \A i \in urls \ deleted : age[i] # "purgeable" => i \in artifacts

\* A row is what leads to an object; the purge removes it only once the
\* object is gone, whatever failed (s3_artifacts.go:101-104).
NoOrphanedObject == \A i \in purged : i \notin artifacts

\* No expired row stays for ever: failures, kills and snapshots that bring a
\* row back only put it off to another round.
ExpiredRowsGo ==
    \A i \in Ids : i \in PurgeableRows ~> (i \notin PurgeableRows \/ stopping)
=============================================================================
