------------------------------ MODULE JobStore ------------------------------
(***************************************************************************)
(* The in-memory job store (internal/job: store.go, store_expiry.go).      *)
(*                                                                         *)
(* Every operation below is the critical section the Go code executes      *)
(* while it holds Store.mu, so each is one atomic action on the two maps   *)
(* `jobs` and `cache`.  What follows the critical section outside the lock *)
(* (broadcast, notify, the CancelFunc call) belongs to the modules that    *)
(* compose this one.  StoreNext lets callers issue the operations in every *)
(* order that the callers in this program can.                             *)
(***************************************************************************)
EXTENDS Naturals, FiniteSets

CONSTANTS
    Ids,      \* job identifiers; newID draws a fresh random one every time
    Keys,     \* cache keys (digests of URL, normalised options, authorization)
    NoId,     \* the empty identifier: what a missing map entry yields
    NoKey,    \* no key: the identifier has not been drawn
    NoJob,    \* the nil *Record
    Backend   \* artifact store in use: "local" or "s3"

Statuses == {"queued", "running", "done", "failed"}

\* "error" stands for every code but "cancelled": queue_full,
\* insufficient_storage and download_failed.
ErrorCodes == {"none", "cancelled", "error"}

\* The fields of Record that the store's control flow depends on.  `storage`
\* stands for Storage, Artifact and ExpiresAt: Done sets the three together,
\* and only the s3 backend sets an expiry.  Record.Cancel is set exactly
\* while the status is running, so it needs no field of its own.  CacheKey
\* never changes after Create; the function keyOf holds it.
JobRecord == [status: Statuses, errorCode: ErrorCodes,
              storage: {"none", "local", "s3"}]

ASSUME StoreAssumption ==
    /\ NoId \notin Ids
    /\ NoKey \notin Keys
    /\ NoJob \notin JobRecord
    /\ Backend \in {"local", "s3"}

VARIABLES
    jobs,      \* Store.jobs
    cache,     \* Store.cache
    age,       \* how far the clock is past the artifact's ExpiresAt
    keyOf,     \* Record.CacheKey; NoKey while the identifier is not drawn
    restored   \* history: jobs the last restart put back

storeVars == <<jobs, cache, age, keyOf, restored>>

\* "fresh": before ExpiresAt.  "expired": past it.  "purgeable": past it by
\* the URL TTL, the cutoff of the S3 purge.
Ages == {"fresh", "expired", "purgeable"}

StoreTypeOK ==
    /\ jobs \in [Ids -> JobRecord \cup {NoJob}]
    /\ cache \in [Keys -> Ids \cup {NoId}]
    /\ age \in [Ids -> Ages]
    /\ keyOf \in [Ids -> Keys \cup {NoKey}]
    /\ restored \subseteq Ids

StoreInit ==
    /\ jobs = [i \in Ids |-> NoJob]
    /\ cache = [k \in Keys |-> NoId]
    /\ age = [i \in Ids |-> "fresh"]
    /\ keyOf = [i \in Ids |-> NoKey]
    /\ restored = {}

-----------------------------------------------------------------------------
Present(i) == jobs[i] # NoJob
HasStatus(i, s) == Present(i) /\ jobs[i].status = s

Issued == {i \in Ids : keyOf[i] # NoKey}

QueuedRecord ==
    [status |-> "queued", errorCode |-> "none", storage |-> "none"]

ArtifactExpired(i) == jobs[i].storage = "s3" /\ age[i] # "fresh"

\* Mutant: only a finished job answers a duplicate request.
CachedJob_DoneOnly(k) == cache[k] # NoId /\ HasStatus(cache[k], "done")

\* The job a cache lookup in Create finds and does not reject as failed.
CachedJob(k) ==
    /\ cache[k] # NoId
    /\ Present(cache[k])
    /\ jobs[cache[k]].status # "failed"

\* Create answers with the existing job and changes nothing.
Hit(k) == CachedJob(k) /\ ~ArtifactExpired(cache[k])

\* The job that Create removes because its artifact has expired.
Stale(k) == IF CachedJob(k) /\ ArtifactExpired(cache[k]) THEN {cache[k]} ELSE {}

Create(i, k) ==
    /\ i \notin Issued
    /\ ~Hit(k)
    /\ jobs' = [j \in Ids |-> IF j = i THEN QueuedRecord
                              ELSE IF j \in Stale(k) THEN NoJob ELSE jobs[j]]
    /\ cache' = [cache EXCEPT ![k] = i]
    /\ keyOf' = [keyOf EXCEPT ![i] = k]
    /\ UNCHANGED <<age, restored>>

\* Store.update: mutate the record when it is there, else do nothing.
Update(i, new) ==
    /\ jobs' = IF Present(i) THEN [jobs EXCEPT ![i] = new] ELSE jobs
    /\ UNCHANGED <<cache, keyOf, restored>>

\* Start looks neither at the status nor at an earlier error.
Start(i) == Update(i, [jobs[i] EXCEPT !.status = "running"]) /\ UNCHANGED age

\* The artifact of a job that ran again has a deadline of its own.
Done(i) ==
    /\ Update(i, [jobs[i] EXCEPT !.status = "done", !.storage = Backend])
    /\ age' = IF Present(i) THEN [age EXCEPT ![i] = "fresh"] ELSE age

Fail(i, code) ==
    Update(i, [jobs[i] EXCEPT !.status = "failed", !.errorCode = code]) /\ UNCHANGED age

\* Cancel of a queued job.  For a running one the record is left alone and
\* the caller invokes the CancelFunc; for the others nothing happens.
CancelQueued(i) ==
    /\ HasStatus(i, "queued")
    /\ Fail(i, "cancelled")

\* Mutant: the cache entry stays.
Forget_KeepsEntry(i) ==
    /\ jobs' = [jobs EXCEPT ![i] = NoJob]
    /\ UNCHANGED <<cache, age, keyOf, restored>>

\* Drop the job, and its cache entry when that still points to it.
Forget(i) ==
    /\ jobs' = [jobs EXCEPT ![i] = NoJob]
    /\ cache' = [k \in Keys |-> IF k = keyOf[i] /\ cache[k] = i
                                THEN NoId ELSE cache[k]]
    /\ UNCHANGED <<age, keyOf, restored>>

Delete(i) ==
    /\ Present(i)
    /\ jobs[i].status # "running"
    /\ Forget(i)

RemoveExpiredArtifact(i) ==
    /\ HasStatus(i, "done")
    /\ jobs[i].storage = "s3" /\ age[i] = "purgeable"
    /\ Forget(i)

\* NewStore, Restore(done) and RestorePending(pending) at server start, the
\* records coming from persisted `rows`.  Only Restore fills the cache; when
\* two done rows share a key, the one listed last wins, and the query orders
\* by data this module does not have, so any of them may be that one.
Reload(rows, done, pending) ==
    /\ jobs' = [i \in Ids |-> IF i \in done THEN rows[i]
                              ELSE IF i \in pending THEN QueuedRecord
                              ELSE NoJob]
    /\ cache' \in [Keys -> done \cup {NoId}]
    /\ \A k \in Keys :
         LET same == {i \in done : keyOf[i] = k}
         IN  IF same = {} THEN cache'[k] = NoId ELSE cache'[k] \in same
    /\ restored' = done \cup pending
    /\ UNCHANGED <<age, keyOf>>

\* The clock moves past ExpiresAt, then past ExpiresAt plus the URL TTL.
Elapse(i) ==
    /\ age[i] # "purgeable"
    /\ age' = [age EXCEPT ![i] = IF @ = "fresh" THEN "expired" ELSE "purgeable"]
    /\ UNCHANGED <<jobs, cache, keyOf, restored>>

-----------------------------------------------------------------------------
\* A restart finds some done rows whose artifact has not expired (a job that
\* ran in spite of a cancel keeps its error code) and some unfinished ones.
DoneRow(i, spoilt) ==
    [status |-> "done", errorCode |-> IF i \in spoilt THEN "cancelled" ELSE "none",
     storage |-> Backend]

Restart ==
    \E done, pending \in SUBSET Issued : \E spoilt \in SUBSET done :
        /\ done \cap pending = {}
        /\ \A i \in done : age[i] = "fresh"
        /\ Reload([i \in done |-> DoneRow(i, spoilt)], done, pending)

\* The order in which the runner and the handlers may call: Done after Start,
\* Start and Fail never after Done.  Time passes whether the job is still in
\* memory or only in the table.
StoreNext ==
    \/ \E i \in Ids, k \in Keys : Create(i, k)
    \/ \E i \in Ids :
         \/ ~HasStatus(i, "done") /\ Start(i)
         \/ HasStatus(i, "running") /\ Done(i)
         \/ ~HasStatus(i, "done") /\ \E code \in {"cancelled", "error"} : Fail(i, code)
         \/ CancelQueued(i)
         \/ Delete(i)
         \/ RemoveExpiredArtifact(i)
         \/ i \in Issued /\ Backend = "s3" /\ Elapse(i)
    \/ Restart

StoreSpec == StoreInit /\ [][StoreNext]_storeVars

-----------------------------------------------------------------------------
\* The cache never leads Create to a job that is gone or that was made for
\* another request (store.go:81-82 silently treats such an entry as a miss,
\* and a wrong key would hand one caller another caller's file).
CacheConsistent ==
    \A k \in Keys : cache[k] # NoId =>
        Present(cache[k]) /\ keyOf[cache[k]] = k

\* Every job that has not failed since this process created it is the one its
\* key leads to, whatever was deleted, expired or created in between.
LiveJobsCached ==
    \A i \in Ids \ restored :
        /\ Present(i)
        /\ jobs[i].status # "failed"
        /\ jobs[i].errorCode = "none"
        => cache[keyOf[i]] = i

\* Single flight (store_test.go:34): two jobs that are not failed, were not
\* resurrected after a failure and were not reloaded never share a key.
OneLiveJobPerKey ==
    \A i, j \in Ids \ restored :
        /\ Present(i) /\ Present(j)
        /\ jobs[i].status # "failed" /\ jobs[j].status # "failed"
        /\ jobs[i].errorCode = "none" /\ jobs[j].errorCode = "none"
        /\ keyOf[i] = keyOf[j]
        => i = j
=============================================================================
