-------------------------- MODULE JobServiceProofs --------------------------
(***************************************************************************)
(* Proofs about JobStore and JobService for every set of identifiers and   *)
(* keys and any number of workers, handlers and queue slots.  Of the       *)
(* store: its types, the cache and the job map agree, and single flight.   *)
(* Of the service: no job is ever with two carriers, running jobs and      *)
(* running workers correspond, no accepted job is forgotten, a done job    *)
(* has its artifact and stays done, and the service uses the store only    *)
(* as JobStore's specification allows.                                     *)
(***************************************************************************)
EXTENDS JobService, SequenceTheorems, TLAPS

-----------------------------------------------------------------------------
(* The job store on its own: JobStore.                                     *)

\* Only identifiers that newID has drawn, with a key, name jobs.
PresentIssued == \A i \in Ids : Present(i) => keyOf[i] \in Keys

\* A failed job carries an error code, so Start cannot make it pass for one
\* that never failed.
FailedHasCode == \A i \in Ids : HasStatus(i, "failed") => jobs[i].errorCode # "none"

\* The inductive invariant.  LiveJobsCached is what lets Create's lookup by
\* key find every job it must not duplicate; the other parts keep it going.
StoreInv ==
    /\ StoreTypeOK
    /\ PresentIssued
    /\ FailedHasCode
    /\ CacheConsistent
    /\ LiveJobsCached

-----------------------------------------------------------------------------
\* An update (store_events.go:32-46) that keeps the error code, or sets one,
\* keeps the invariant.
LEMMA UpdateInv ==
    ASSUME StoreInv, NEW i \in Ids, NEW r,
           Present(i) => /\ r \in JobRecord
                         /\ r.status = "failed" => r.errorCode # "none"
                         /\ r.errorCode = "none" => jobs[i].errorCode = "none",
           Update(i, r), age' \in [Ids -> Ages]
    PROVE  StoreInv'
<1>1. StoreTypeOK'
  BY DEF StoreInv, StoreTypeOK, Update, Present
<1>2. UNCHANGED <<cache, keyOf, restored>>
  BY DEF Update
<1>3. \A j \in Ids : Present(j)' <=> Present(j)
  BY StoreAssumption DEF Update, Present, StoreInv, StoreTypeOK
<1>4. \A j \in Ids : j # i \/ ~Present(i) => jobs'[j] = jobs[j]
  BY DEF Update, StoreInv, StoreTypeOK
<1>5. Present(i) => jobs'[i] = r
  BY DEF Update, StoreInv, StoreTypeOK
<1>6. PresentIssued' /\ CacheConsistent'
  <2>1. PresentIssued'
    BY <1>2, <1>3 DEF StoreInv, PresentIssued
  <2>2. ASSUME NEW k \in Keys, cache'[k] # NoId
        PROVE  Present(cache[k])' /\ keyOf'[cache'[k]] = k
    <3>1. cache[k] \in Ids
      BY <1>2, <2>2 DEF StoreInv, StoreTypeOK
    <3> QED
      BY <1>2, <1>3, <2>2, <3>1 DEF StoreInv, CacheConsistent
  <2> QED
    BY <2>1, <2>2 DEF CacheConsistent
<1>7. FailedHasCode'
  BY <1>3, <1>4, <1>5 DEF StoreInv, FailedHasCode, HasStatus
<1>8. LiveJobsCached'
  BY <1>2, <1>3, <1>4, <1>5 DEF StoreInv, LiveJobsCached, FailedHasCode, HasStatus
<1> QED
  BY <1>1, <1>6, <1>7, <1>8 DEF StoreInv

\* Start, Done and Fail are such updates.
LEMMA StartInv == ASSUME StoreInv, NEW i \in Ids, Start(i) PROVE StoreInv'
<1> DEFINE r == [jobs[i] EXCEPT !.status = "running"]
<1>1. Present(i) => jobs[i] \in JobRecord
  BY DEF StoreInv, StoreTypeOK, Present
<1>2. Present(i) => /\ r \in JobRecord
                    /\ r.status = "running"
                    /\ r.errorCode = jobs[i].errorCode
  BY <1>1 DEF JobRecord, Statuses
<1>3. Update(i, r) /\ age' \in [Ids -> Ages]
  BY DEF Start, StoreInv, StoreTypeOK
<1> HIDE DEF r
<1> QED
  BY <1>2, <1>3, UpdateInv

\* Store.Done keeps the cache and the job map consistent.
LEMMA DoneInv == ASSUME StoreInv, NEW i \in Ids, Done(i) PROVE StoreInv'
<1> DEFINE r == [jobs[i] EXCEPT !.status = "done", !.storage = Backend]
<1>1. Present(i) => jobs[i] \in JobRecord
  BY DEF StoreInv, StoreTypeOK, Present
<1>2. Present(i) => /\ r \in JobRecord
                    /\ r.status = "done"
                    /\ r.errorCode = jobs[i].errorCode
  BY <1>1, StoreAssumption DEF JobRecord, Statuses
<1>3. Update(i, r) /\ age' \in [Ids -> Ages]
  BY DEF Done, StoreInv, StoreTypeOK, Ages
<1> HIDE DEF r
<1> QED
  BY <1>2, <1>3, UpdateInv

\* Store.Fail keeps the cache and the job map consistent.
LEMMA FailInv ==
    ASSUME StoreInv, NEW i \in Ids, NEW code \in {"cancelled", "error"}, Fail(i, code)
    PROVE  StoreInv'
<1> DEFINE r == [jobs[i] EXCEPT !.status = "failed", !.errorCode = code]
<1>1. Present(i) => jobs[i] \in JobRecord
  BY DEF StoreInv, StoreTypeOK, Present
<1>2. Present(i) => r \in JobRecord /\ r.errorCode = code
  BY <1>1 DEF JobRecord, Statuses, ErrorCodes
<1>3. code # "none"
  OBVIOUS
<1>4. Update(i, r) /\ age' \in [Ids -> Ages]
  BY DEF Fail, StoreInv, StoreTypeOK
<1> HIDE DEF r
<1> QED
  BY <1>2, <1>3, <1>4, UpdateInv

\* Removing a job together with the cache entry that names it, and no other
\* entry (store.go:203-206), keeps the invariant.
LEMMA ForgetInv == ASSUME StoreInv, NEW i \in Ids, Present(i), Forget(i) PROVE StoreInv'
<1>1. StoreTypeOK'
  BY DEF StoreInv, StoreTypeOK, Forget
<1>2. \A j \in Ids : IF j = i THEN ~Present(j)' ELSE jobs'[j] = jobs[j]
  BY DEF StoreInv, StoreTypeOK, Forget, Present
<1>3. \A k \in Keys : cache'[k] = IF k = keyOf[i] /\ cache[k] = i THEN NoId ELSE cache[k]
  BY DEF Forget
<1>4. UNCHANGED <<age, keyOf, restored>>
  BY DEF Forget
<1>5. CacheConsistent'
  <2> SUFFICES ASSUME NEW k \in Keys, cache'[k] # NoId
               PROVE  Present(cache[k])' /\ keyOf'[cache'[k]] = k
    BY DEF CacheConsistent
  <2>1. cache'[k] = cache[k] /\ cache[k] \in Ids
    BY <1>3 DEF StoreInv, StoreTypeOK
  <2>2. Present(cache[k]) /\ keyOf[cache[k]] = k
    BY <2>1 DEF StoreInv, CacheConsistent
  <2>3. cache[k] # i
    BY <1>3, <2>1, <2>2, StoreAssumption
  <2> QED
    BY <1>2, <1>4, <2>1, <2>2, <2>3 DEF Present
<1>6. PresentIssued' /\ FailedHasCode'
  BY <1>2, <1>4 DEF StoreInv, PresentIssued, FailedHasCode, HasStatus, Present
<1>7. LiveJobsCached'
  <2> SUFFICES ASSUME NEW j \in Ids \ restored', Present(j)',
                      jobs'[j].status # "failed", jobs'[j].errorCode = "none"
               PROVE  cache'[keyOf'[j]] = j
    BY DEF LiveJobsCached
  <2>1. j # i /\ jobs'[j] = jobs[j]
    BY <1>2
  <2>2. Present(j) /\ cache[keyOf[j]] = j /\ keyOf[j] \in Keys
    BY <1>4, <2>1 DEF StoreInv, LiveJobsCached, PresentIssued, Present
  <2> QED
    BY <1>3, <1>4, <2>1, <2>2
<1> QED
  BY <1>1, <1>5, <1>6, <1>7 DEF StoreInv

\* Create (store.go:69-103) finds by key any live job it must not duplicate;
\* what it replaces in the cache has failed or has just been removed.
LEMMA CreateInv ==
    ASSUME StoreInv, NEW i \in Ids, NEW k \in Keys, Create(i, k)
    PROVE  StoreInv'
<1> USE DEF StoreInv
<1>1. QueuedRecord \in JobRecord
  BY DEF QueuedRecord, JobRecord, Statuses, ErrorCodes
<1>2. StoreTypeOK'
  BY <1>1 DEF StoreTypeOK, Create
<1>3. jobs'[i] = QueuedRecord /\ keyOf'[i] = k /\ cache'[k] = i
  BY DEF Create, StoreTypeOK
<1>4. \A j \in Ids : j # i => /\ jobs'[j] = IF j \in Stale(k) THEN NoJob ELSE jobs[j]
                              /\ keyOf'[j] = keyOf[j]
  BY DEF Create, StoreTypeOK
<1>5. \A h \in Keys : h # k => cache'[h] = cache[h]
  BY DEF Create, StoreTypeOK
<1>6. restored' = restored /\ keyOf[i] = NoKey /\ ~Present(i) /\ ~Hit(k)
  BY StoreAssumption DEF Create, Issued, PresentIssued
<1>7. Present(i)'
  BY <1>1, <1>3, StoreAssumption DEF Present
<1>8. \A j \in Stale(k) : j \in Ids /\ keyOf[j] = k /\ j = cache[k]
  BY DEF Stale, CachedJob, CacheConsistent, StoreTypeOK
<1>9. CacheConsistent'
  <2> SUFFICES ASSUME NEW h \in Keys, cache'[h] # NoId
               PROVE  Present(cache[h])' /\ keyOf'[cache'[h]] = h
    BY DEF CacheConsistent
  <2>1. CASE h = k
    BY <1>3, <1>7, <2>1 DEF Present
  <2>2. CASE h # k
    <3>1. cache'[h] = cache[h] /\ cache[h] \in Ids
      BY <1>5, <2>2 DEF StoreTypeOK
    <3>2. Present(cache[h]) /\ keyOf[cache[h]] = h
      BY <3>1 DEF CacheConsistent
    <3>3. cache[h] # i /\ cache[h] \notin Stale(k)
      BY <1>6, <1>8, <2>2, <3>1, <3>2
    <3> QED
      BY <1>4, <3>1, <3>2, <3>3 DEF Present
  <2> QED
    BY <2>1, <2>2
<1>10. PresentIssued'
  BY <1>3, <1>4 DEF PresentIssued, Present
<1>11. FailedHasCode'
  <2>1. QueuedRecord.status # "failed"
    BY DEF QueuedRecord
  <2> QED
    BY <1>3, <1>4, <2>1 DEF FailedHasCode, HasStatus, Present
<1>12. LiveJobsCached'
  <2> SUFFICES ASSUME NEW j \in Ids \ restored', Present(j)',
                      jobs'[j].status # "failed", jobs'[j].errorCode = "none"
               PROVE  cache'[keyOf'[j]] = j
    BY DEF LiveJobsCached
  <2>1. CASE j = i
    BY <1>3, <2>1
  <2>2. CASE j # i
    <3>1. j \notin Stale(k) /\ jobs'[j] = jobs[j] /\ keyOf'[j] = keyOf[j]
      BY <1>4, <2>2 DEF Present
    <3>2. Present(j) /\ cache[keyOf[j]] = j /\ keyOf[j] \in Keys
      BY <1>6, <3>1 DEF LiveJobsCached, PresentIssued, Present
    <3>3. keyOf[j] # k
      <4> SUFFICES ASSUME keyOf[j] = k PROVE FALSE
        OBVIOUS
      <4>1. CachedJob(k) /\ cache[k] = j
        BY <3>1, <3>2, StoreAssumption DEF CachedJob
      <4> QED
        BY <1>6, <3>1, <4>1 DEF Hit, Stale
    <3> QED
      BY <1>5, <3>1, <3>2, <3>3
  <2> QED
    BY <2>1, <2>2
<1> QED
  BY <1>2, <1>9, <1>10, <1>11, <1>12

\* A restart rebuilds jobs and cache from rows; nothing survives from before.
LEMMA RestartInv == ASSUME StoreInv, Restart PROVE StoreInv'
<1> USE DEF StoreInv
<1> PICK done \in SUBSET Issued, pending \in SUBSET Issued :
      \E spoilt \in SUBSET done :
         Reload([i \in done |-> DoneRow(i, spoilt)], done, pending)
  BY DEF Restart
<1> PICK spoilt \in SUBSET done :
      Reload([i \in done |-> DoneRow(i, spoilt)], done, pending)
  OBVIOUS
<1>1. QueuedRecord \in JobRecord /\ QueuedRecord.status # "failed"
  BY DEF QueuedRecord, JobRecord, Statuses, ErrorCodes
<1>2. \A i \in done : DoneRow(i, spoilt) \in JobRecord /\ DoneRow(i, spoilt).status # "failed"
  BY StoreAssumption DEF DoneRow, JobRecord, Statuses, ErrorCodes
<1>3. \A i \in Ids : /\ i \in done => jobs'[i] = DoneRow(i, spoilt)
                     /\ i \notin done /\ i \in pending => jobs'[i] = QueuedRecord
                     /\ i \notin done /\ i \notin pending => jobs'[i] = NoJob
  BY DEF Reload
<1>4. UNCHANGED <<age, keyOf>> /\ restored' = done \cup pending
  BY DEF Reload
<1>5. \A i \in done \cup pending : i \in Ids /\ keyOf[i] \in Keys
  BY DEF Issued, StoreTypeOK
<1>6. \A k \in Keys : cache'[k] \in done \cup {NoId} /\ (cache'[k] \in done => keyOf[cache'[k]] = k)
  BY StoreAssumption, <1>5 DEF Reload
<1>7. StoreTypeOK'
  <2>1. jobs' \in [Ids -> JobRecord \cup {NoJob}]
    BY <1>1, <1>2 DEF Reload
  <2>2. cache' \in [Keys -> Ids \cup {NoId}]
    BY <1>5 DEF Reload
  <2> QED
    BY <1>4, <1>5, <2>1, <2>2 DEF StoreTypeOK
<1>8. CacheConsistent'
  BY <1>2, <1>3, <1>4, <1>5, <1>6, StoreAssumption DEF CacheConsistent, Present
<1>9. PresentIssued'
  BY <1>3, <1>4, <1>5 DEF PresentIssued, Present
<1>10. FailedHasCode'
  BY <1>1, <1>2, <1>3, <1>4 DEF FailedHasCode, HasStatus, Present
<1>11. LiveJobsCached'
  BY <1>3, <1>4 DEF LiveJobsCached, Present
<1> QED
  BY <1>7, <1>8, <1>9, <1>10, <1>11

-----------------------------------------------------------------------------
\* NewStore establishes the invariant.
LEMMA StoreInvInit == StoreInit => StoreInv
  BY StoreAssumption
  DEF StoreInit, StoreInv, StoreTypeOK, PresentIssued, FailedHasCode,
      CacheConsistent, LiveJobsCached, Present, HasStatus, Ages

\* Every critical section of the store keeps its invariant.
LEMMA StoreInvStep == StoreInv /\ [StoreNext]_storeVars => StoreInv'
<1> SUFFICES ASSUME StoreInv, [StoreNext]_storeVars PROVE StoreInv'
  OBVIOUS
<1>1. CASE UNCHANGED storeVars
  BY <1>1 DEF storeVars, StoreInv, StoreTypeOK, PresentIssued, FailedHasCode,
              CacheConsistent, LiveJobsCached, Present, HasStatus
<1>2. ASSUME NEW i \in Ids, NEW k \in Keys, Create(i, k) PROVE StoreInv'
  BY <1>2, CreateInv
<1>3. ASSUME NEW i \in Ids, Start(i) PROVE StoreInv'
  BY <1>3, StartInv
<1>4. ASSUME NEW i \in Ids, Done(i) PROVE StoreInv'
  BY <1>4, DoneInv
<1>5. ASSUME NEW i \in Ids, NEW code \in {"cancelled", "error"}, Fail(i, code) PROVE StoreInv'
  BY <1>5, FailInv
<1>6. ASSUME NEW i \in Ids, CancelQueued(i) PROVE StoreInv'
  BY <1>6, FailInv DEF CancelQueued
<1>7. ASSUME NEW i \in Ids, Delete(i) PROVE StoreInv'
  BY <1>7, ForgetInv DEF Delete
<1>8. ASSUME NEW i \in Ids, RemoveExpiredArtifact(i) PROVE StoreInv'
  BY <1>8, ForgetInv DEF RemoveExpiredArtifact, HasStatus
<1>9. ASSUME NEW i \in Ids, Elapse(i) PROVE StoreInv'
  BY <1>9 DEF Elapse, StoreInv, StoreTypeOK, Ages, PresentIssued, FailedHasCode,
              CacheConsistent, LiveJobsCached, Present, HasStatus
<1>10. CASE Restart
  BY <1>10, RestartInv
<1> QED
  BY <1>1, <1>2, <1>3, <1>4, <1>5, <1>6, <1>7, <1>8, <1>9, <1>10 DEF StoreNext

\* The store keeps its types, its cache consistent with its jobs, and every
\* live job reachable by its key, under every interleaving of its operations
\* (store.go) and across restarts.
THEOREM StoreInvariant == StoreSpec => []StoreInv
  BY StoreInvInit, StoreInvStep, PTL DEF StoreSpec

\* Two live jobs of one key would both be that key's cache entry.
LEMMA SingleFlight == StoreInv => OneLiveJobPerKey
  BY DEF StoreInv, LiveJobsCached, OneLiveJobPerKey

\* Single flight (store.go:81-95, store_test.go:34).
THEOREM OneLiveJobPerKeyAlways == StoreSpec => []OneLiveJobPerKey
  BY StoreInvariant, SingleFlight, PTL

\* The cache never names a job that is gone or has another key (store.go:81).
THEOREM CacheConsistentAlways == StoreSpec => []CacheConsistent
<1>1. StoreInv => CacheConsistent
  BY DEF StoreInv
<1> QED
  BY <1>1, StoreInvariant, PTL

-----------------------------------------------------------------------------
(* The run queue as a set of distinct jobs.                                *)

Elems(q) == {q[n] : n \in 1..Len(q)}
Distinct(q) == \A m, n \in 1..Len(q) : q[m] = q[n] => m = n

\* What is appended joins the elements.
LEMMA AppendElems ==
    ASSUME NEW S, NEW q \in Seq(S), NEW i \in S, i \notin Elems(q), Distinct(q)
    PROVE  /\ Append(q, i) \in Seq(S)
           /\ Len(Append(q, i)) = Len(q) + 1
           /\ Elems(Append(q, i)) = Elems(q) \cup {i}
           /\ Distinct(Append(q, i))
<1>1. /\ Append(q, i) \in Seq(S) /\ Len(Append(q, i)) = Len(q) + 1
      /\ \A n \in 1..Len(q) : Append(q, i)[n] = q[n]
      /\ Append(q, i)[Len(q) + 1] = i /\ Len(q) \in Nat
  BY AppendProperties, LenProperties
<1>2. Elems(Append(q, i)) = Elems(q) \cup {i}
  BY <1>1 DEF Elems
<1>3. Distinct(Append(q, i))
  BY <1>1 DEF Elems, Distinct
<1> QED
  BY <1>1, <1>2, <1>3

\* What is taken from the front leaves them.
LEMMA TailElems ==
    ASSUME NEW S, NEW q \in Seq(S), q # <<>>, Distinct(q)
    PROVE  /\ Tail(q) \in Seq(S) /\ Len(Tail(q)) <= Len(q)
           /\ Head(q) \in S
           /\ Head(q) \in Elems(q)
           /\ Elems(Tail(q)) = Elems(q) \ {Head(q)}
           /\ Distinct(Tail(q))
<1>1. /\ Head(q) = q[1] /\ Tail(q) \in Seq(S) /\ Len(Tail(q)) = Len(q) - 1
      /\ \A n \in 1..Len(Tail(q)) : Tail(q)[n] = q[n + 1]
      /\ Len(q) \in Nat \ {0}
  BY HeadTailProperties, LenProperties, EmptySeq
<1>2. 1 \in 1..Len(q) /\ q[1] \in S
  BY <1>1, ElementOfSeq
<1>3. Elems(Tail(q)) = Elems(q) \ {Head(q)}
  <2>1. \A n \in 1..Len(Tail(q)) : n + 1 \in 1..Len(q) /\ n + 1 # 1
    BY <1>1
  <2>2. \A n \in 1..Len(q) : n # 1 => n - 1 \in 1..Len(Tail(q)) /\ Tail(q)[n - 1] = q[n]
    BY <1>1
  <2>3. Elems(Tail(q)) \subseteq Elems(q) \ {Head(q)}
    BY <1>1, <1>2, <2>1 DEF Elems, Distinct
  <2>4. Elems(q) \ {Head(q)} \subseteq Elems(Tail(q))
    BY <1>1, <2>2 DEF Elems
  <2> QED
    BY <2>3, <2>4
<1>4. Distinct(Tail(q))
  BY <1>1 DEF Distinct
<1> QED
  BY <1>1, <1>2, <1>3, <1>4 DEF Elems

\* Runner.queue read as a set: the jobs a worker can still receive.
LEMMA InQueueElems == ASSUME NEW i PROVE InQueue(i) <=> i \in Elems(queue)
  BY DEF InQueue, Elems

-----------------------------------------------------------------------------
(* The inductive invariant.                                                *)

\* Some goroutine or queue slot has the job in its hands.
Carried(i) ==
    \/ InQueue(i)
    \/ \E c \in Clients : cpc[c] \in Bringing /\ cjob[c] = i
    \/ \E w \in Workers : HeldBy(w, i)

\* A job in flight was created, hence Create never draws its identifier.
CarriedIssued == \A i \in Ids : Carried(i) => keyOf[i] \in Keys

\* Who carries what: the part that speaks of no record.
CarrierInv == ServiceTypeOK /\ OneCarrier /\ CarriedIssued

\* Before its run a carried job is queued, cancelled or gone; a running one
\* has a worker past Start and conversely.
WaitingStatus ==
    \A i \in Ids :
        /\ \/ InQueue(i)
           \/ \E c \in Clients : cpc[c] \in Bringing /\ cjob[c] = i
           \/ \E w \in Workers : wpc[w] \in {"got", "start"} /\ wjob[w] = i
        => ~HasStatus(i, "running") /\ ~HasStatus(i, "done")

\* Only Done records a stored artifact, and nothing happens to a done job.
StoredMeansDone == \A i \in Ids : Present(i) /\ jobs[i].storage # "none" => jobs[i].status = "done"

\* An upload that was reported as a success has left its artifact there, and
\* only a job that is gone for good is being unlinked.
SavedHasArtifact == \A w \in Workers : wpc[w] = "saved" => wjob[w] \in artifacts
UnlinkedIsGone ==
    \A c \in Clients : cpc[c] = "unlink" =>
        ~Present(cjob[c]) /\ ~Carried(cjob[c]) /\ keyOf[cjob[c]] \in Keys

StatusInv == WaitingStatus /\ RunningMatchesWorkers
ArtifactInv == StoredMeansDone /\ SavedHasArtifact /\ UnlinkedIsGone

\* What a restart from the job table keeps as well.
CoreInv == StoreInv /\ CarrierInv /\ StatusInv /\ ArtifactInv

\* What holds as long as the process lives: after a restart the jobs that
\* run() has yet to enqueue have no carrier, and deleted ones may be back.
ServiceInv == CoreInv /\ QueuedJobHasCarrier /\ DoneHasArtifact

-----------------------------------------------------------------------------
(* What an update of one record does, pointwise.                           *)

\* Store.update replaces one record and leaves the cache and the keys alone.
LEMMA UpdateFacts ==
    ASSUME StoreInv, NEW i \in Ids, NEW r, Present(i) => r \in JobRecord, Update(i, r)
    PROVE  /\ \A j \in Ids : Present(j)' <=> Present(j)
           /\ \A j \in Ids : j # i => jobs'[j] = jobs[j]
           /\ Present(i) => jobs'[i] = r
           /\ UNCHANGED <<cache, keyOf, restored>>
  BY StoreAssumption DEF Update, Present, StoreInv, StoreTypeOK

\* What Store.Start does to the record of the job that a worker takes up.
LEMMA StartFacts ==
    ASSUME StoreInv, NEW i \in Ids, Start(i)
    PROVE  /\ \A j \in Ids : Present(j)' <=> Present(j)
           /\ \A j \in Ids : j # i => jobs'[j] = jobs[j]
           /\ Present(i) => /\ jobs'[i].status = "running" /\ jobs'[i].storage = jobs[i].storage
                            /\ jobs'[i].errorCode = jobs[i].errorCode
           /\ UNCHANGED <<cache, keyOf, restored>>
<1> DEFINE r == [jobs[i] EXCEPT !.status = "running"]
<1>1. Present(i) => /\ r \in JobRecord
                    /\ r.status = "running" /\ r.storage = jobs[i].storage
                    /\ r.errorCode = jobs[i].errorCode
  BY DEF StoreInv, StoreTypeOK, Present, JobRecord, Statuses
<1>2. Update(i, r)
  BY DEF Start
<1> HIDE DEF r
<1> QED
  BY <1>1, <1>2, UpdateFacts

\* What Store.Done does: the record is done and names its artifact.
LEMMA DoneFacts ==
    ASSUME StoreInv, NEW i \in Ids, Done(i)
    PROVE  /\ \A j \in Ids : Present(j)' <=> Present(j)
           /\ \A j \in Ids : j # i => jobs'[j] = jobs[j]
           /\ Present(i) => /\ jobs'[i].status = "done" /\ jobs'[i].storage = Backend
                            /\ jobs'[i].errorCode = jobs[i].errorCode
           /\ UNCHANGED <<cache, keyOf, restored>>
<1> DEFINE r == [jobs[i] EXCEPT !.status = "done", !.storage = Backend]
<1>1. Present(i) => /\ r \in JobRecord
                    /\ r.status = "done" /\ r.storage = Backend
                    /\ r.errorCode = jobs[i].errorCode
  BY StoreAssumption DEF StoreInv, StoreTypeOK, Present, JobRecord, Statuses
<1>2. Update(i, r)
  BY DEF Done
<1> HIDE DEF r
<1> QED
  BY <1>1, <1>2, UpdateFacts

\* What Store.Fail does: the record is failed, unless the job is gone.
LEMMA FailFacts ==
    ASSUME StoreInv, NEW i \in Ids, NEW code \in {"cancelled", "error"}, Fail(i, code)
    PROVE  /\ \A j \in Ids : Present(j)' <=> Present(j)
           /\ \A j \in Ids : j # i => jobs'[j] = jobs[j]
           /\ Present(i) => /\ jobs'[i].status = "failed" /\ jobs'[i].storage = jobs[i].storage
                            /\ jobs'[i].errorCode = code
           /\ UNCHANGED <<cache, keyOf, restored>>
<1> DEFINE r == [jobs[i] EXCEPT !.status = "failed", !.errorCode = code]
<1>1. Present(i) => /\ r \in JobRecord
                    /\ r.status = "failed" /\ r.storage = jobs[i].storage
                    /\ r.errorCode = code
  BY DEF StoreInv, StoreTypeOK, Present, JobRecord, Statuses, ErrorCodes
<1>2. Update(i, r)
  BY DEF Fail
<1> HIDE DEF r
<1> QED
  BY <1>1, <1>2, UpdateFacts

-----------------------------------------------------------------------------
(* The service calls the store only as JobStore's StoreNext allows.        *)

\* Store.update of a job that has been deleted changes nothing.
LEMMA AbsentUpdate == ASSUME NEW i, NEW r, ~Present(i), Update(i, r), UNCHANGED age
                       PROVE  UNCHANGED storeVars
  BY DEF Update, storeVars

\* Every step of a handler or a worker is a critical section of the store, as
\* JobStore specifies it, or leaves the store alone.
LEMMA StoreStep == CoreInv /\ [Next]_svcVars => [StoreNext]_storeVars
<1> SUFFICES ASSUME CoreInv, [Next]_svcVars PROVE [StoreNext]_storeVars
  OBVIOUS
<1> USE DEF CoreInv, CarrierInv, StatusInv
<1>1. CASE UNCHANGED svcVars
  BY <1>1 DEF svcVars
<1>2. ASSUME NEW c \in Clients, Handle(c) PROVE [StoreNext]_storeVars
  BY <1>2 DEF Handle, PostHit, PostCreate, PostCancelQueued, PostCancelRunning,
              DeleteJob, StoreNext
<1>3. ASSUME NEW c \in Clients, Finish(c) PROVE [StoreNext]_storeVars
  <2>1. CASE RejectFull(c)
    <3>1. cjob[c] \in Ids /\ ~HasStatus(cjob[c], "done")
      BY <2>1 DEF RejectFull, ServiceTypeOK, WaitingStatus, Bringing
    <3> QED
      BY <2>1, <3>1 DEF RejectFull, StoreNext
  <2>2. CASE Enqueue(c) \/ EnqueueFull(c) \/ Signal(c) \/ Unlink(c)
    BY <2>2 DEF Enqueue, EnqueueFull, Signal, Unlink
  <2> QED
    BY <1>3, <2>1, <2>2 DEF Finish
<1>4. ASSUME NEW w \in Workers, Work(w) PROVE [StoreNext]_storeVars
  <2>1. CASE Begin(w)
    <3>1. wjob[w] \in Ids /\ ~HasStatus(wjob[w], "done")
      BY <2>1 DEF Begin, ServiceTypeOK, WaitingStatus, Busy
    <3> QED
      BY <2>1, <3>1 DEF Begin, StoreNext
  <2>2. CASE Complete(w)
    <3>1. wjob[w] \in Ids /\ wpc[w] \in Running
      BY <2>2 DEF Complete, ServiceTypeOK, Running, Busy
    <3>2. ~Present(wjob[w]) \/ HasStatus(wjob[w], "running")
      BY <3>1 DEF RunningMatchesWorkers, HasStatus
    <3>3. CASE ~Present(wjob[w])
      BY <2>2, <3>3, AbsentUpdate DEF Complete, Done
    <3> QED
      BY <2>2, <3>1, <3>2, <3>3 DEF Complete, StoreNext
  <2>3. CASE RecordFailure(w)
    <3>1. wjob[w] \in Ids /\ wpc[w] \in Running
      BY <2>3 DEF RecordFailure, ServiceTypeOK, Running, Busy
    <3>2. ~HasStatus(wjob[w], "done")
      BY <3>1 DEF RunningMatchesWorkers, HasStatus
    <3> QED
      BY <2>3, <3>1, <3>2 DEF RecordFailure, StoreNext
  <2>4. CASE Take(w) \/ Exit(w) \/ Look(w) \/ BeginSave(w) \/ Save(w) \/ RunFails(w) \/ SaveFails(w)
    BY <2>4 DEF Take, Exit, Look, BeginSave, Save, RunFails, SaveFails
  <2> QED
    BY <1>4, <2>1, <2>2, <2>3, <2>4 DEF Work
<1>5. CASE Shutdown
  BY <1>5 DEF Shutdown
<1>6. ASSUME NEW i \in Ids, Tick(i) PROVE [StoreNext]_storeVars
  <2>1. i \in Issued
    BY <1>6, StoreAssumption DEF Tick, HasStatus, StoreInv, PresentIssued, Issued
  <2> QED
    BY <1>6, <2>1 DEF Tick, StoreNext
<1> QED
  BY <1>1, <1>2, <1>3, <1>4, <1>5, <1>6 DEF Next

-----------------------------------------------------------------------------
(* Types and carriers.                                                     *)

\* Steps of the service keep the types and the capacity of Runner.queue.
LEMMA TypeStep == CoreInv /\ StoreInv' /\ [Next]_svcVars => ServiceTypeOK'
<1> SUFFICES ASSUME CoreInv, StoreInv', [Next]_svcVars PROVE ServiceTypeOK'
  OBVIOUS
<1> USE DEF ServiceTypeOK, WorkerPC, ClientPC, Busy
<1>1. ServiceTypeOK /\ StoreTypeOK' /\ OneCarrier /\ StoreInv
  BY DEF CoreInv, CarrierInv, StoreInv
<1>2. CASE UNCHANGED svcVars
  BY <1>1, <1>2 DEF svcVars, runVars, clientVars, envVars
<1>3. ASSUME NEW c \in Clients, Handle(c) PROVE ServiceTypeOK'
  <2>1. ASSUME NEW k \in Keys, PostHit(c, k) PROVE ServiceTypeOK'
    <3>1. cache[k] \in Ids
      BY <2>1, <1>1 DEF PostHit, Hit, CachedJob, StoreTypeOK
    <3> QED
      BY <1>1, <2>1, <3>1 DEF PostHit, runVars, envVars
  <2>2. ASSUME NEW i \in Ids, NEW k \in Keys, PostCreate(c, i, k) PROVE ServiceTypeOK'
    BY <1>1, <2>2 DEF PostCreate, ClientGoes, runVars, envVars
  <2>3. ASSUME NEW i \in Ids, PostCancelQueued(c, i) \/ PostCancelRunning(c, i) PROVE ServiceTypeOK'
    BY <1>1, <2>3 DEF PostCancelQueued, PostCancelRunning, ClientGoes, runVars, clientVars, envVars
  <2>4. ASSUME NEW i \in Ids, DeleteJob(c, i) PROVE ServiceTypeOK'
    BY <1>1, <2>4 DEF DeleteJob, ClientGoes, runVars, envVars
  <2> QED
    BY <1>3, <2>1, <2>2, <2>3, <2>4 DEF Handle
<1>4. ASSUME NEW c \in Clients, Finish(c) PROVE ServiceTypeOK'
  <2>1. CASE Enqueue(c)
    <3>1. cjob[c] \in Ids /\ cjob[c] \notin Elems(queue) /\ Distinct(queue)
      BY <1>1, <2>1, InQueueElems DEF Enqueue, OneCarrier, Bringing, Distinct
    <3>2. queue' \in Seq(Ids) /\ Len(queue') = Len(queue) + 1
      BY <1>1, <2>1, <3>1, AppendElems DEF Enqueue
    <3>3. Len(queue') <= MaxQueueSize
      BY <1>1, <2>1, <3>2, LenProperties, ServiceAssumption DEF Enqueue
    <3> QED
      BY <1>1, <2>1, <3>1, <3>2, <3>3 DEF Enqueue, ClientDone, ClientGoes, envVars
  <2>2. CASE EnqueueFull(c) \/ RejectFull(c)
    BY <1>1, <2>2 DEF EnqueueFull, RejectFull, ClientDone, ClientGoes, runVars, envVars
  <2>3. CASE Signal(c) \/ Unlink(c)
    BY <1>1, <2>3 DEF Signal, Unlink, ClientDone, ClientGoes, runVars
  <2> QED
    BY <1>4, <2>1, <2>2, <2>3 DEF Finish
<1>5. ASSUME NEW w \in Workers, Work(w) PROVE ServiceTypeOK'
  <2>1. CASE Take(w)
    <3>1. /\ queue' \in Seq(Ids) /\ Len(queue') <= Len(queue) /\ Head(queue) \in Ids
      BY <1>1, <2>1, TailElems DEF Take, OneCarrier, Distinct
    <3>2. Len(queue') <= MaxQueueSize
      BY <1>1, <3>1, LenProperties, ServiceAssumption
    <3> QED
      BY <1>1, <2>1, <3>1, <3>2 DEF Take, WorkerGoes, clientVars, envVars
  <2>2. CASE Exit(w)
    <3>1. queue' \in Seq(Ids) /\ Len(queue') <= Len(queue)
      <4>1. CASE queue' = queue
        BY <1>1, <4>1, LenProperties
      <4>2. CASE queue # <<>> /\ queue' = Tail(queue)
        BY <1>1, <4>2, TailElems DEF OneCarrier, Distinct
      <4> QED
        BY <2>2, <4>1, <4>2 DEF Exit
    <3>2. Len(queue') <= MaxQueueSize
      BY <1>1, <3>1, LenProperties, ServiceAssumption
    <3> QED
      BY <1>1, <2>2, <3>1, <3>2 DEF Exit, WorkerGoes, clientVars, envVars
  <2>3. CASE Look(w) \/ Begin(w) \/ BeginSave(w) \/ Complete(w)
    BY <1>1, <2>3 DEF Look, Begin, BeginSave, Complete, WorkerGoes, clientVars, envVars
  <2>4. CASE Save(w) \/ SaveFails(w)
    BY <1>1, <2>4 DEF Save, SaveFails, ErrorPC, WorkerGoes, clientVars
  <2>5. CASE RunFails(w) \/ RecordFailure(w)
    BY <1>1, <2>5 DEF RunFails, RecordFailure, ErrorPC, WorkerGoes, clientVars, envVars
  <2> QED
    BY <1>5, <2>1, <2>2, <2>3, <2>4, <2>5 DEF Work
<1>6. CASE Shutdown
  BY <1>1, <1>6 DEF Shutdown, runVars, clientVars
<1>7. ASSUME NEW i \in Ids, Tick(i) PROVE ServiceTypeOK'
  BY <1>1, <1>7 DEF Tick, runVars, clientVars, envVars
<1> QED
  BY <1>2, <1>3, <1>4, <1>5, <1>6, <1>7 DEF Next

\* What a step guarantees about carriers when it creates no job.
Handover ==
    OneCarrier' /\ CarriedIssued' /\ \A i \in Ids : Carried(i)' => Carried(i)

\* A step that moves no job between queue, handlers and workers keeps
\* CarrierInv.
LEMMA CarriersUnchanged ==
    ASSUME OneCarrier, CarriedIssued, UNCHANGED <<queue, wpc, wjob, cpc, cjob, keyOf>>
    PROVE  Handover
  BY DEF Handover, OneCarrier, CarriedIssued, Carried, InQueue, HeldBy

\* A worker that has a job goes on with it, or lets go of it.
LEMMA WorkerMoves ==
    ASSUME OneCarrier, CarriedIssued, ServiceTypeOK, NEW w \in Workers, NEW pc,
           wpc[w] \in Busy, WorkerGoes(w, pc), UNCHANGED <<queue, wjob, cpc, cjob, keyOf>>
    PROVE  Handover
<1>1. \A v \in Workers : wpc'[v] \in Busy => wpc[v] \in Busy
  BY DEF WorkerGoes, ServiceTypeOK
<1>2. \A i : InQueue(i)' <=> InQueue(i)
  BY DEF InQueue
<1>3. \A i \in Ids : Carried(i)' => Carried(i)
  BY <1>1, <1>2 DEF Carried, HeldBy
<1>4. OneCarrier'
  BY <1>1, <1>2 DEF OneCarrier, HeldBy
<1> QED
  BY <1>3, <1>4 DEF Handover, CarriedIssued

\* A handler turns to something else than bringing a job to the queue.
LEMMA ClientMoves ==
    ASSUME OneCarrier, CarriedIssued, ServiceTypeOK, NEW c \in Clients, NEW pc, NEW j,
           pc \notin Bringing, ClientGoes(c, pc, j), UNCHANGED <<queue, wpc, wjob, keyOf>>
    PROVE  Handover
<1>1. \A d \in Clients : cpc'[d] \in Bringing => cpc[d] \in Bringing /\ cjob'[d] = cjob[d]
  BY DEF ClientGoes, ServiceTypeOK
<1>2. \A i : InQueue(i)' <=> InQueue(i)
  BY DEF InQueue
<1>3. \A i \in Ids : Carried(i)' => Carried(i)
  BY <1>1, <1>2 DEF Carried, HeldBy
<1>4. OneCarrier'
  BY <1>1, <1>2 DEF OneCarrier, HeldBy
<1> QED
  BY <1>3, <1>4 DEF Handover, CarriedIssued

\* Runner.Enqueue with room: the job passes from the handler to the queue.
LEMMA EnqueueCarrier ==
    ASSUME CoreInv, NEW c \in Clients, Enqueue(c)
    PROVE  /\ Handover
           /\ \A i : InQueue(i)' <=> InQueue(i) \/ i = cjob[c]
<1> USE DEF CoreInv, CarrierInv
<1>1. cpc[c] \in Bringing /\ cjob[c] \in Ids /\ ~InQueue(cjob[c]) /\ Distinct(queue)
  BY DEF Enqueue, ServiceTypeOK, OneCarrier, Bringing, Distinct
<1>2. queue' = Append(queue, cjob[c]) /\ queue \in Seq(Ids)
  BY DEF Enqueue, ServiceTypeOK
<1>3. Distinct(queue') /\ \A i : InQueue(i)' <=> InQueue(i) \/ i = cjob[c]
  BY <1>1, <1>2, AppendElems DEF InQueue, Elems
<1>4. /\ \A d \in Clients : cpc'[d] \in Bringing => d # c /\ cpc[d] \in Bringing /\ cjob'[d] = cjob[d]
      /\ UNCHANGED <<wpc, wjob, keyOf>>
  BY DEF Enqueue, ClientDone, ClientGoes, ServiceTypeOK, Bringing, storeVars
<1>5. \A i \in Ids : Carried(i)' => Carried(i)
  BY <1>1, <1>3, <1>4 DEF Carried, HeldBy
<1>6. OneCarrier'
  BY <1>1, <1>3, <1>4 DEF OneCarrier, HeldBy, Distinct
<1> QED
  BY <1>3, <1>4, <1>5, <1>6 DEF Handover, CarriedIssued

\* Runner.Enqueue without room: the handler keeps the job, to fail it.
LEMMA EnqueueFullCarrier ==
    ASSUME CoreInv, NEW c \in Clients, EnqueueFull(c) PROVE Handover
<1> USE DEF CoreInv, CarrierInv
<1>1. /\ \A d \in Clients : cpc'[d] \in Bringing => cpc[d] \in Bringing
      /\ \A d \in Clients : cjob'[d] = cjob[d]
      /\ UNCHANGED <<queue, wpc, wjob, keyOf>>
  BY DEF EnqueueFull, ClientGoes, ServiceTypeOK, Bringing, storeVars, runVars
<1>2. \A i : InQueue(i)' <=> InQueue(i)
  BY <1>1 DEF InQueue
<1>3. \A i \in Ids : Carried(i)' => Carried(i)
  BY <1>1, <1>2 DEF Carried, HeldBy
<1>4. OneCarrier'
  BY <1>1, <1>2 DEF OneCarrier, HeldBy
<1> QED
  BY <1>1, <1>3, <1>4 DEF Handover, CarriedIssued

\* Runner.worker receives: the job passes from the queue to the worker.
LEMMA TakeCarrier ==
    ASSUME CoreInv, NEW w \in Workers, Take(w)
    PROVE  /\ Handover
           /\ \A i : InQueue(i)' <=> InQueue(i) /\ i # wjob'[w]
           /\ InQueue(wjob'[w]) /\ wjob'[w] \in Ids
           /\ \A v \in Workers : v # w => wpc'[v] = wpc[v] /\ wjob'[v] = wjob[v]
           /\ wpc'[w] = "got"
<1> USE DEF CoreInv, CarrierInv
<1>1. queue \in Seq(Ids) /\ queue # <<>> /\ Distinct(queue) /\ queue' = Tail(queue)
  BY DEF Take, ServiceTypeOK, OneCarrier, Distinct
<1>2. wjob'[w] = Head(queue) /\ wpc'[w] = "got"
  BY DEF Take, WorkerGoes, ServiceTypeOK
<1>3. /\ Distinct(queue') /\ wjob'[w] \in Ids /\ InQueue(wjob'[w])
      /\ \A i : InQueue(i)' <=> InQueue(i) /\ i # wjob'[w]
  <2>1. /\ Distinct(Tail(queue)) /\ Head(queue) \in Ids /\ Head(queue) \in Elems(queue)
        /\ Elems(Tail(queue)) = Elems(queue) \ {Head(queue)}
    BY <1>1, TailElems
  <2>2. \A i : InQueue(i) <=> i \in Elems(queue)
    BY DEF InQueue, Elems
  <2>3. \A i : InQueue(i)' <=> i \in Elems(queue')
    BY DEF InQueue, Elems
  <2> QED
    BY <1>1, <1>2, <2>1, <2>2, <2>3
<1>4. /\ \A v \in Workers : v # w => wpc'[v] = wpc[v] /\ wjob'[v] = wjob[v]
      /\ UNCHANGED <<cpc, cjob, keyOf>>
  BY DEF Take, WorkerGoes, ServiceTypeOK, clientVars, storeVars
<1>5. \A i \in Ids : Carried(i)' => Carried(i)
  BY <1>3, <1>4 DEF Carried, HeldBy
<1>6. OneCarrier'
  <2>1. \A u, v \in Workers :
          wpc'[u] \in Busy /\ wpc'[v] \in Busy /\ wjob'[u] = wjob'[v] => u = v
    BY <1>3, <1>4 DEF OneCarrier
  <2>2. \A c \in Clients : cpc'[c] \in Bringing =>
          ~InQueue(cjob[c])' /\ \A v \in Workers : ~HeldBy(v, cjob[c])'
    BY <1>3, <1>4 DEF OneCarrier, HeldBy
  <2>3. \A v \in Workers : wpc'[v] \in Busy => ~InQueue(wjob[v])'
    BY <1>3, <1>4 DEF OneCarrier
  <2>4. \A c, d \in Clients :
          cpc'[c] \in Bringing /\ cpc'[d] \in Bringing /\ cjob'[c] = cjob'[d] => c = d
    BY <1>4 DEF OneCarrier
  <2> QED
    BY <1>3, <2>1, <2>2, <2>3, <2>4 DEF OneCarrier, Distinct
<1> QED
  BY <1>2, <1>3, <1>4, <1>5, <1>6 DEF Handover, CarriedIssued

\* A worker that leaves at shutdown carries nothing.
LEMMA ExitCarrier ==
    ASSUME CoreInv, NEW w \in Workers, Exit(w) PROVE Handover
<1> USE DEF CoreInv, CarrierInv
<1>1. /\ \A v \in Workers : wpc'[v] \in Busy => wpc[v] \in Busy
      /\ UNCHANGED <<wjob, cpc, cjob, keyOf>>
  BY DEF Exit, WorkerGoes, ServiceTypeOK, Busy, clientVars, storeVars
<1>2. Distinct(queue) /\ queue \in Seq(Ids)
  BY DEF OneCarrier, Distinct, ServiceTypeOK
<1>3. Distinct(queue') /\ \A i : InQueue(i)' => InQueue(i)
  <2>1. CASE queue' = queue
    BY <1>2, <2>1 DEF InQueue
  <2>2. CASE queue # <<>> /\ queue' = Tail(queue)
    BY <1>2, <2>2, TailElems DEF InQueue, Elems
  <2> QED
    BY <2>1, <2>2 DEF Exit
<1>4. \A i \in Ids : Carried(i)' => Carried(i)
  BY <1>1, <1>3 DEF Carried, HeldBy
<1>5. OneCarrier'
  BY <1>1, <1>3 DEF OneCarrier, HeldBy, Distinct
<1> QED
  BY <1>1, <1>4, <1>5 DEF Handover, CarriedIssued

\* Store.Create hands a job nobody carries to the handler.
LEMMA PostCreateCarrier ==
    ASSUME CoreInv, ServiceTypeOK', NEW c \in Clients, NEW i \in Ids, NEW k \in Keys,
           PostCreate(c, i, k)
    PROVE  /\ OneCarrier' /\ CarriedIssued'
           /\ ~Carried(i) /\ keyOf[i] \notin Keys
           /\ \A j \in Ids : j # i => (Carried(j)' => Carried(j)) /\ keyOf'[j] = keyOf[j]
<1> USE DEF CoreInv, CarrierInv
<1>1. /\ keyOf[i] \notin Keys /\ keyOf'[i] = k
      /\ \A j \in Ids : j # i => keyOf'[j] = keyOf[j]
  BY StoreAssumption DEF PostCreate, Create, Issued, StoreInv, StoreTypeOK
<1>2. ~Carried(i)
  BY <1>1 DEF CarriedIssued
<1>3. /\ cpc[c] = "idle" /\ cpc'[c] = "enqueue" /\ cjob'[c] = i
      /\ \A d \in Clients : d # c => cpc'[d] = cpc[d] /\ cjob'[d] = cjob[d]
      /\ UNCHANGED <<queue, wpc, wjob>>
  BY DEF PostCreate, ClientGoes, ServiceTypeOK, runVars
<1>4. \A j : InQueue(j)' <=> InQueue(j)
  BY <1>3 DEF InQueue
<1>5. \A j \in Ids : j # i => (Carried(j)' => Carried(j))
  BY <1>3, <1>4 DEF Carried, HeldBy
<1>6. OneCarrier'
  BY <1>2, <1>3, <1>4 DEF OneCarrier, Carried, HeldBy
<1>7. CarriedIssued'
  BY <1>1, <1>5 DEF CarriedIssued
<1> QED
  BY <1>1, <1>2, <1>5, <1>6, <1>7

\* Every step but a creation only hands jobs on or lets go of them.
LEMMA HandoverStep ==
    ASSUME CoreInv, [Next]_svcVars,
           ~ \E c \in Clients, i \in Ids, k \in Keys : PostCreate(c, i, k)
    PROVE  Handover /\ UNCHANGED keyOf
<1> USE DEF CoreInv, CarrierInv
<1>1. CASE UNCHANGED svcVars
  BY <1>1, CarriersUnchanged DEF svcVars, storeVars, runVars, clientVars
<1>2. ASSUME NEW c \in Clients, Handle(c) PROVE Handover /\ UNCHANGED keyOf
  <2>1. ASSUME NEW k \in Keys, PostHit(c, k) PROVE Handover /\ UNCHANGED keyOf
    BY <2>1, CarriersUnchanged DEF PostHit, storeVars, runVars
  <2>2. ASSUME NEW i \in Ids, PostCancelQueued(c, i) PROVE Handover /\ UNCHANGED keyOf
    BY <2>2, CarriersUnchanged DEF PostCancelQueued, CancelQueued, Fail, Update, runVars, clientVars
  <2>3. ASSUME NEW i \in Ids, PostCancelRunning(c, i) PROVE Handover /\ UNCHANGED keyOf
    BY <2>3, ClientMoves DEF PostCancelRunning, Bringing, storeVars, runVars
  <2>4. ASSUME NEW i \in Ids, DeleteJob(c, i) PROVE Handover /\ UNCHANGED keyOf
    <3>1. UNCHANGED <<queue, wpc, wjob, keyOf>>
      BY <2>4 DEF DeleteJob, Delete, Forget, runVars
    <3>2. CASE ClientGoes(c, "unlink", i)
      BY <3>1, <3>2, ClientMoves DEF Bringing
    <3>3. CASE UNCHANGED <<cpc, cjob>>
      BY <3>1, <3>3, CarriersUnchanged
    <3> QED
      BY <2>4, <3>1, <3>2, <3>3 DEF DeleteJob
  <2> QED
    BY <1>2, <2>1, <2>2, <2>3, <2>4 DEF Handle
<1>3. ASSUME NEW c \in Clients, Finish(c) PROVE Handover /\ UNCHANGED keyOf
  <2>1. CASE Enqueue(c)
    BY <2>1, EnqueueCarrier DEF Enqueue, storeVars
  <2>2. CASE EnqueueFull(c)
    BY <2>2, EnqueueFullCarrier DEF EnqueueFull, storeVars
  <2>3. CASE RejectFull(c)
    BY <2>3, ClientMoves DEF RejectFull, ClientDone, Bringing, Fail, Update, runVars
  <2>4. CASE Signal(c) \/ Unlink(c)
    BY <2>4, ClientMoves DEF Signal, Unlink, ClientDone, Bringing, storeVars, runVars
  <2> QED
    BY <1>3, <2>1, <2>2, <2>3, <2>4 DEF Finish
<1>4. ASSUME NEW w \in Workers, Work(w) PROVE Handover /\ UNCHANGED keyOf
  <2>1. CASE Take(w)
    BY <2>1, TakeCarrier DEF Take, storeVars
  <2>2. CASE Exit(w)
    BY <2>2, ExitCarrier DEF Exit, storeVars
  <2>3. CASE Look(w) \/ BeginSave(w) \/ RunFails(w) \/ Save(w) \/ SaveFails(w)
    <3>1. wpc[w] \in Busy /\ UNCHANGED <<queue, wjob, cpc, cjob, keyOf>>
      BY <2>3 DEF Look, BeginSave, RunFails, Save, SaveFails, Busy, clientVars, storeVars
    <3>2. \E pc : WorkerGoes(w, pc)
      BY <2>3 DEF Look, BeginSave, RunFails, Save, SaveFails
    <3> QED
      BY <3>1, <3>2, WorkerMoves
  <2>4. CASE Begin(w) \/ Complete(w) \/ RecordFailure(w)
    <3>1. wpc[w] \in Busy /\ UNCHANGED <<queue, wjob, cpc, cjob, keyOf>>
      BY <2>4 DEF Begin, Complete, RecordFailure, Busy, clientVars, Start, Done, Fail, Update
    <3>2. \E pc : WorkerGoes(w, pc)
      BY <2>4 DEF Begin, Complete, RecordFailure
    <3> QED
      BY <3>1, <3>2, WorkerMoves
  <2> QED
    BY <1>4, <2>1, <2>2, <2>3, <2>4 DEF Work
<1>5. CASE Shutdown
  BY <1>5, CarriersUnchanged DEF Shutdown, storeVars, runVars, clientVars
<1>6. ASSUME NEW i \in Ids, Tick(i) PROVE Handover /\ UNCHANGED keyOf
  BY <1>6, CarriersUnchanged DEF Tick, Elapse, runVars, clientVars
<1> QED
  BY <1>1, <1>2, <1>3, <1>4, <1>5, <1>6 DEF Next

\* Every step of the service keeps a job with one carrier at most.
LEMMA CarrierStep ==
    ASSUME CoreInv, ServiceTypeOK', [Next]_svcVars PROVE CarrierInv'
<1>1. CASE \E c \in Clients, i \in Ids, k \in Keys : PostCreate(c, i, k)
  BY <1>1, PostCreateCarrier DEF CarrierInv
<1>2. CASE ~ \E c \in Clients, i \in Ids, k \in Keys : PostCreate(c, i, k)
  BY <1>2, HandoverStep DEF CarrierInv, Handover
<1> QED
  BY <1>1, <1>2

\* A job that exists or has existed keeps its key, and comes into nobody's
\* hands again once it is out of them.
LEMMA CarriedGrows ==
    ASSUME CoreInv, ServiceTypeOK', [Next]_svcVars, NEW i \in Ids, keyOf[i] \in Keys
    PROVE  keyOf'[i] = keyOf[i] /\ (Carried(i)' => Carried(i))
<1>1. CASE \E c \in Clients, j \in Ids, k \in Keys : PostCreate(c, j, k)
  BY <1>1, PostCreateCarrier
<1>2. CASE ~ \E c \in Clients, j \in Ids, k \in Keys : PostCreate(c, j, k)
  BY <1>2, HandoverStep DEF Handover
<1> QED
  BY <1>1, <1>2

\* A worker changes the record of no job but the one it has.
LEMMA UncarriedKept ==
    ASSUME CoreInv, NEW w \in Workers, Work(w), NEW i \in Ids, i # wjob[w] \/ ~Carried(i)
    PROVE  jobs'[i] = jobs[i]
<1>1. CASE Begin(w) \/ Complete(w) \/ RecordFailure(w)
  <2>1. /\ wjob[w] \in Ids /\ Carried(wjob[w])
        /\ \/ Start(wjob[w]) \/ Done(wjob[w])
           \/ \E code \in {"cancelled", "error"} : Fail(wjob[w], code)
    BY <1>1 DEF Begin, Complete, RecordFailure, CoreInv, CarrierInv, ServiceTypeOK,
                Carried, HeldBy, Busy
  <2> QED
    BY <2>1, StartFacts, DoneFacts, FailFacts DEF CoreInv
<1>2. CASE Take(w) \/ Exit(w) \/ Look(w) \/ BeginSave(w) \/ Save(w) \/ RunFails(w) \/ SaveFails(w)
  BY <1>2 DEF Take, Exit, Look, BeginSave, Save, RunFails, SaveFails, storeVars
<1> QED
  BY <1>1, <1>2 DEF Work

-----------------------------------------------------------------------------
(* Statuses and carriers.                                                  *)

\* A job that has been created or taken but not started; a job that is run.
Waiting(i) ==
    \/ InQueue(i)
    \/ \E c \in Clients : cpc[c] \in Bringing /\ cjob[c] = i
    \/ \E w \in Workers : wpc[w] \in {"got", "start"} /\ wjob[w] = i
RunningOn(i) == \E w \in Workers : wpc[w] \in Running /\ wjob[w] = i

\* StatusInv, one job at a time.
StatusOf(i) ==
    /\ Waiting(i) => ~HasStatus(i, "running") /\ ~HasStatus(i, "done")
    /\ HasStatus(i, "running") => RunningOn(i)
    /\ Present(i) /\ RunningOn(i) => jobs[i].status = "running"

\* A queued job that nobody brings to a worker any more.
Stranded(i) == HasStatus(i, "queued") /\ ~stopping /\ ~Waiting(i)

\* A step keeps a job's status in agreement, and does not strand the job.
StatusGoes(i) == StatusOf(i)' /\ (Stranded(i)' => Stranded(i))

\* StatusInv of a step that concerns one job follows from StatusInv of that
\* job.
LEMMA StatusByJob ==
    /\ StatusInv <=> \A i \in Ids : StatusOf(i)
    /\ StatusInv' <=> \A i \in Ids : StatusOf(i)'
  BY DEF StatusInv, StatusOf, WaitingStatus, RunningMatchesWorkers, Waiting, RunningOn

\* No accepted job is forgotten: none is stranded.
LEMMA NobodyStranded ==
    /\ QueuedJobHasCarrier <=> \A i \in Ids : ~Stranded(i)
    /\ QueuedJobHasCarrier' <=> \A i \in Ids : ~Stranded(i)'
  BY DEF QueuedJobHasCarrier, Stranded, Waiting

\* A job whose record, carriers and worker are as before.
LEMMA StatusKept ==
    ASSUME NEW i \in Ids, StatusOf(i), jobs'[i] = jobs[i], stopping => stopping',
           Waiting(i)' => Waiting(i),
           HasStatus(i, "queued") /\ Waiting(i) /\ ~stopping' => Waiting(i)',
           RunningOn(i)' <=> RunningOn(i)
    PROVE  StatusGoes(i)
  BY DEF StatusGoes, Stranded, StatusOf, HasStatus, Present

\* How a worker's step moves jobs between waiting and running.
LEMMA WorkerWaits ==
    ASSUME ServiceTypeOK, NEW w \in Workers, NEW pc, WorkerGoes(w, pc),
           UNCHANGED <<queue, wjob, cpc, cjob>>
    PROVE  /\ \A i \in Ids : i # wjob[w] => /\ Waiting(i)' <=> Waiting(i)
                                            /\ RunningOn(i)' <=> RunningOn(i)
           /\ wpc'[w] = pc
           /\ \A v \in Workers : v # w => wpc'[v] = wpc[v]
           /\ \A i : InQueue(i)' <=> InQueue(i)
<1>1. wpc'[w] = pc /\ \A v \in Workers : v # w => wpc'[v] = wpc[v]
  BY DEF WorkerGoes, ServiceTypeOK
<1>2. \A i : InQueue(i)' <=> InQueue(i)
  BY DEF InQueue
<1> QED
  BY <1>1, <1>2 DEF Waiting, RunningOn

\* Workers keep statuses and carriers in agreement: Look, Start, Done, Fail.
LEMMA StatusWorker ==
    ASSUME CoreInv, NEW w \in Workers, Work(w) PROVE \A i \in Ids : StatusGoes(i)
<1> USE DEF CoreInv, CarrierInv
<1>0. \A i \in Ids : StatusOf(i)
  BY StatusByJob
<1> SUFFICES ASSUME NEW i \in Ids PROVE StatusGoes(i)
  OBVIOUS
<1> DEFINE j == wjob[w]
<1>1. CASE Take(w)
  <2>1. /\ \A h : InQueue(h)' <=> InQueue(h) /\ h # wjob'[w]
        /\ InQueue(wjob'[w]) /\ wpc'[w] = "got"
        /\ \A v \in Workers : v # w => wpc'[v] = wpc[v] /\ wjob'[v] = wjob[v]
    BY <1>1, TakeCarrier
  <2>2. wpc[w] = "idle" /\ UNCHANGED <<jobs, cpc, cjob, stopping>>
    BY <1>1 DEF Take, storeVars, clientVars, envVars
  <2>3. Waiting(i)' <=> Waiting(i)
    BY <2>1, <2>2 DEF Waiting
  <2>4. RunningOn(i)' <=> RunningOn(i)
    BY <2>1, <2>2 DEF RunningOn, Running, Busy
  <2> QED
    BY <1>0, <2>2, <2>3, <2>4, StatusKept
<1>2. CASE Exit(w)
  <2>1. stopping /\ UNCHANGED <<jobs, wjob, cpc, cjob, stopping>>
    BY <1>2 DEF Exit, storeVars, clientVars, envVars
  <2>2. \A v \in Workers : wpc'[v] = wpc[v] \/ (wpc[v] = "idle" /\ wpc'[v] = "exited")
    BY <1>2 DEF Exit, WorkerGoes, ServiceTypeOK
  <2>3. InQueue(i)' => InQueue(i)
    <3>1. CASE queue' = queue
      BY <3>1 DEF InQueue
    <3>2. CASE queue # <<>> /\ queue' = Tail(queue)
      BY <3>2, TailElems DEF InQueue, Elems, OneCarrier, Distinct, ServiceTypeOK
    <3> QED
      BY <1>2, <3>1, <3>2 DEF Exit
  <2>4. Waiting(i)' => Waiting(i)
    BY <2>1, <2>2, <2>3 DEF Waiting
  <2>5. RunningOn(i)' <=> RunningOn(i)
    BY <2>1, <2>2 DEF RunningOn, Running, Busy
  <2> QED
    BY <1>0, <2>1, <2>4, <2>5, StatusKept
<1>3. CASE Look(w)
  <2>1. /\ wpc[w] = "got" /\ UNCHANGED <<jobs, queue, wjob, cpc, cjob, stopping>>
        /\ WorkerGoes(w, IF HasStatus(j, "queued") THEN "start" ELSE "idle")
    BY <1>3 DEF Look, storeVars, clientVars, envVars
  <2>2. /\ \A v \in Workers : v # w => wpc'[v] = wpc[v]
        /\ wpc'[w] = IF HasStatus(j, "queued") THEN "start" ELSE "idle"
        /\ \A h : InQueue(h)' <=> InQueue(h)
    BY <2>1, WorkerWaits
  <2>3. Waiting(i)' => Waiting(i)
    BY <2>1, <2>2 DEF Waiting
  <2>4. HasStatus(i, "queued") /\ Waiting(i) => Waiting(i)'
    BY <2>1, <2>2 DEF Waiting
  <2>5. RunningOn(i)' <=> RunningOn(i)
    BY <2>1, <2>2 DEF RunningOn, Running, Busy
  <2> QED
    BY <1>0, <2>1, <2>3, <2>4, <2>5, StatusKept
<1>4. CASE BeginSave(w) \/ Save(w) \/ RunFails(w) \/ SaveFails(w)
  <2>1. PICK pc \in Running : WorkerGoes(w, pc)
    BY <1>4 DEF BeginSave, Save, RunFails, SaveFails, ErrorPC, Running, Busy
  <2>2. wpc[w] \in Running /\ UNCHANGED <<jobs, queue, wjob, cpc, cjob, stopping>>
    BY <1>4 DEF BeginSave, Save, RunFails, SaveFails, Running, Busy, storeVars, clientVars, envVars
  <2>3. /\ \A v \in Workers : v # w => wpc'[v] = wpc[v]
        /\ wpc'[w] = pc
        /\ \A h : InQueue(h)' <=> InQueue(h)
    BY <2>1, <2>2, WorkerWaits
  <2>4. Waiting(i)' <=> Waiting(i)
    BY <2>1, <2>2, <2>3 DEF Waiting, Running, Busy
  <2>5. RunningOn(i)' <=> RunningOn(i)
    BY <2>1, <2>2, <2>3 DEF RunningOn
  <2> QED
    BY <1>0, <2>2, <2>4, <2>5, StatusKept
<1>5. CASE Begin(w)
  <2>1. /\ wpc[w] = "start" /\ j \in Ids /\ Start(j) /\ WorkerGoes(w, "run")
        /\ UNCHANGED <<queue, wjob, cpc, cjob, stopping>>
    BY <1>5 DEF Begin, clientVars, envVars, ServiceTypeOK, Busy
  <2>2. /\ wpc'[w] = "run" /\ \A v \in Workers : v # w => wpc'[v] = wpc[v]
        /\ \A h : InQueue(h)' <=> InQueue(h)
        /\ i # j => (Waiting(i)' <=> Waiting(i)) /\ (RunningOn(i)' <=> RunningOn(i))
    BY <2>1, WorkerWaits
  <2>3. /\ Present(i)' <=> Present(i)
        /\ i # j => jobs'[i] = jobs[i]
        /\ Present(j) => jobs'[j].status = "running"
    BY <2>1, StartFacts
  <2>4. CASE i # j
    BY <1>0, <2>1, <2>2, <2>3, <2>4, StatusKept
  <2>5. CASE i = j
    <3>1. ~Waiting(i)'
      BY <2>1, <2>2, <2>5 DEF Waiting, OneCarrier, HeldBy, Busy
    <3>2. RunningOn(i)'
      BY <2>1, <2>2, <2>5 DEF RunningOn, Running, Busy
    <3> QED
      BY <2>3, <2>5, <3>1, <3>2 DEF StatusGoes, Stranded, StatusOf, HasStatus
  <2> QED
    BY <2>4, <2>5
<1>6. CASE Complete(w) \/ RecordFailure(w)
  <2>1. /\ wpc[w] \in Running /\ wpc[w] \in Busy /\ j \in Ids /\ WorkerGoes(w, "idle")
        /\ UNCHANGED <<queue, wjob, cpc, cjob, stopping>>
    BY <1>6 DEF Complete, RecordFailure, clientVars, envVars, ServiceTypeOK, Running, Busy
  <2>2. /\ wpc'[w] = "idle" /\ \A v \in Workers : v # w => wpc'[v] = wpc[v]
        /\ \A h : InQueue(h)' <=> InQueue(h)
        /\ i # j => (Waiting(i)' <=> Waiting(i)) /\ (RunningOn(i)' <=> RunningOn(i))
    BY <2>1, WorkerWaits
  <2>3. /\ Present(i)' <=> Present(i)
        /\ i # j => jobs'[i] = jobs[i]
        /\ Present(j) => jobs'[j].status \in {"done", "failed"}
    <3>1. CASE Complete(w)
      BY <2>1, <3>1, DoneFacts DEF Complete
    <3>2. CASE RecordFailure(w)
      <4>1. \E code \in {"cancelled", "error"} : Fail(j, code)
        BY <3>2 DEF RecordFailure
      <4> QED
        BY <2>1, <4>1, FailFacts
    <3> QED
      BY <1>6, <3>1, <3>2
  <2>4. CASE i # j
    BY <1>0, <2>1, <2>2, <2>3, <2>4, StatusKept
  <2>5. CASE i = j
    <3>1. ~Waiting(i)'
      BY <2>1, <2>2, <2>5 DEF Waiting, OneCarrier, HeldBy, Busy
    <3>2. ~RunningOn(i)'
      BY <2>1, <2>2, <2>5 DEF RunningOn, OneCarrier, Running, Busy
    <3> QED
      BY <2>3, <2>5, <3>1, <3>2 DEF StatusGoes, Stranded, StatusOf, HasStatus
  <2> QED
    BY <2>4, <2>5
<1> QED
  BY <1>1, <1>2, <1>3, <1>4, <1>5, <1>6 DEF Work

\* Handlers keep statuses and carriers in agreement: create, cancel, delete.
LEMMA StatusClient ==
    ASSUME CoreInv, ServiceTypeOK', NEW c \in Clients, Handle(c) \/ Finish(c)
    PROVE  \A i \in Ids : StatusGoes(i)
<1> USE DEF CoreInv, CarrierInv
<1>0. \A i \in Ids : StatusOf(i)
  BY StatusByJob
<1> SUFFICES ASSUME NEW i \in Ids PROVE StatusGoes(i)
  OBVIOUS
<1>1. ASSUME NEW k \in Keys, PostHit(c, k) PROVE StatusGoes(i)
  <2>1. UNCHANGED <<jobs, queue, wpc, wjob, cpc, cjob, stopping>>
    BY <1>1 DEF PostHit, storeVars, runVars, envVars
  <2>2. (Waiting(i)' <=> Waiting(i)) /\ (RunningOn(i)' <=> RunningOn(i))
    BY <2>1 DEF Waiting, RunningOn, InQueue
  <2> QED
    BY <1>0, <2>1, <2>2, StatusKept
<1>2. ASSUME NEW j \in Ids, NEW k \in Keys, PostCreate(c, j, k) PROVE StatusGoes(i)
  <2>1. ~Carried(j)
    BY <1>2, PostCreateCarrier
  <2>2. /\ cpc[c] = "idle" /\ cpc'[c] = "enqueue" /\ cjob'[c] = j
        /\ \A d \in Clients : d # c => cpc'[d] = cpc[d] /\ cjob'[d] = cjob[d]
        /\ UNCHANGED <<queue, wpc, wjob, stopping>>
    BY <1>2 DEF PostCreate, ClientGoes, ServiceTypeOK, runVars, envVars
  <2>3. /\ RunningOn(i)' <=> RunningOn(i)
        /\ i # j => (Waiting(i)' <=> Waiting(i))
        /\ Waiting(j)'
    BY <2>2 DEF Waiting, RunningOn, InQueue, Bringing
  <2>4. CASE i = j
    <3>1. ~RunningOn(j)
      BY <2>1 DEF Carried, HeldBy, RunningOn, Running
    <3>2. jobs'[j] = QueuedRecord
      BY <1>2 DEF PostCreate, Create
    <3> QED
      BY <2>3, <2>4, <3>1, <3>2 DEF StatusGoes, Stranded, StatusOf, HasStatus, QueuedRecord
  <2>5. CASE i # j /\ i \in Stale(k)
    <3>1. ~Present(i)'
      BY <1>2, <2>5 DEF PostCreate, Create, Present
    <3> QED
      BY <3>1 DEF StatusGoes, Stranded, StatusOf, HasStatus
  <2>6. CASE i # j /\ i \notin Stale(k)
    <3>1. jobs'[i] = jobs[i]
      BY <1>2, <2>6 DEF PostCreate, Create
    <3> QED
      BY <1>0, <2>2, <2>3, <2>6, <3>1, StatusKept
  <2> QED
    BY <2>4, <2>5, <2>6
<1>3. ASSUME NEW j \in Ids, PostCancelQueued(c, j) PROVE StatusGoes(i)
  <2>1. /\ HasStatus(j, "queued") /\ Fail(j, "cancelled")
        /\ UNCHANGED <<queue, wpc, wjob, cpc, cjob, stopping>>
    BY <1>3 DEF PostCancelQueued, CancelQueued, runVars, clientVars, envVars
  <2>2. (Waiting(i)' <=> Waiting(i)) /\ (RunningOn(i)' <=> RunningOn(i))
    BY <2>1 DEF Waiting, RunningOn, InQueue
  <2>3. (i # j => jobs'[i] = jobs[i]) /\ jobs'[j].status = "failed"
    BY <2>1, FailFacts DEF HasStatus
  <2>4. CASE i = j
    <3>1. ~RunningOn(j)
      BY <1>0, <2>1 DEF StatusGoes, Stranded, StatusOf, HasStatus
    <3> QED
      BY <2>2, <2>3, <2>4, <3>1 DEF StatusGoes, Stranded, StatusOf, HasStatus
  <2>5. CASE i # j
    BY <1>0, <2>1, <2>2, <2>3, <2>5, StatusKept
  <2> QED
    BY <2>4, <2>5
<1>4. ASSUME NEW j \in Ids, PostCancelRunning(c, j) PROVE StatusGoes(i)
  <2>1. /\ cpc[c] = "idle" /\ cpc'[c] = "signal"
        /\ \A d \in Clients : d # c => cpc'[d] = cpc[d] /\ cjob'[d] = cjob[d]
        /\ UNCHANGED <<jobs, queue, wpc, wjob, stopping>>
    BY <1>4 DEF PostCancelRunning, ClientGoes, ServiceTypeOK, storeVars, runVars, envVars
  <2>2. (Waiting(i)' <=> Waiting(i)) /\ (RunningOn(i)' <=> RunningOn(i))
    BY <2>1 DEF Waiting, RunningOn, InQueue, Bringing
  <2> QED
    BY <1>0, <2>1, <2>2, StatusKept
<1>5. ASSUME NEW j \in Ids, DeleteJob(c, j) PROVE StatusGoes(i)
  <2>1. /\ cpc[c] = "idle" /\ cpc'[c] \in {"idle", "unlink"}
        /\ \A d \in Clients : d # c => cpc'[d] = cpc[d] /\ cjob'[d] = cjob[d]
        /\ UNCHANGED <<queue, wpc, wjob, stopping>>
    BY <1>5 DEF DeleteJob, ClientGoes, ServiceTypeOK, runVars, envVars
  <2>2. (Waiting(i)' <=> Waiting(i)) /\ (RunningOn(i)' <=> RunningOn(i))
    BY <2>1 DEF Waiting, RunningOn, InQueue, Bringing
  <2>3. IF i = j THEN ~Present(i)' ELSE jobs'[i] = jobs[i]
    BY <1>5 DEF DeleteJob, Delete, Forget, StoreInv, StoreTypeOK, Present
  <2>4. CASE i = j
    BY <2>3, <2>4 DEF StatusGoes, Stranded, StatusOf, HasStatus
  <2>5. CASE i # j
    BY <1>0, <2>1, <2>2, <2>3, <2>5, StatusKept
  <2> QED
    BY <2>4, <2>5
<1>6. CASE Enqueue(c)
  <2>1. \A h : InQueue(h)' <=> InQueue(h) \/ h = cjob[c]
    BY <1>6, EnqueueCarrier
  <2>2. /\ cpc[c] = "enqueue" /\ cpc'[c] = "idle"
        /\ \A d \in Clients : d # c => cpc'[d] = cpc[d] /\ cjob'[d] = cjob[d]
        /\ UNCHANGED <<jobs, wpc, wjob, stopping>>
    BY <1>6 DEF Enqueue, ClientDone, ClientGoes, ServiceTypeOK, storeVars, envVars
  <2>3. (Waiting(i)' <=> Waiting(i)) /\ (RunningOn(i)' <=> RunningOn(i))
    BY <2>1, <2>2 DEF Waiting, RunningOn, Bringing
  <2> QED
    BY <1>0, <2>2, <2>3, StatusKept
<1>7. CASE EnqueueFull(c) \/ Signal(c) \/ Unlink(c)
  <2>1. /\ \A d \in Clients : /\ cpc'[d] \in Bringing <=> cpc[d] \in Bringing
                              /\ cpc[d] \in Bringing => cjob'[d] = cjob[d]
        /\ UNCHANGED <<jobs, queue, wpc, wjob, stopping>>
    BY <1>7 DEF EnqueueFull, Signal, Unlink, ClientDone, ClientGoes, ServiceTypeOK,
                Bringing, storeVars, runVars, envVars
  <2>2. (Waiting(i)' <=> Waiting(i)) /\ (RunningOn(i)' <=> RunningOn(i))
    BY <2>1 DEF Waiting, RunningOn, InQueue
  <2> QED
    BY <1>0, <2>1, <2>2, StatusKept
<1>8. CASE RejectFull(c)
  <2> DEFINE j == cjob[c]
  <2>1. /\ cpc[c] = "reject" /\ cpc[c] \in Bringing /\ cpc'[c] = "idle"
        /\ \A d \in Clients : d # c => cpc'[d] = cpc[d] /\ cjob'[d] = cjob[d]
        /\ UNCHANGED <<queue, wpc, wjob, stopping>>
        /\ j \in Ids /\ Fail(j, "error")
    BY <1>8 DEF RejectFull, ClientDone, ClientGoes, ServiceTypeOK, Bringing, runVars, envVars
  <2>2. /\ Present(i)' <=> Present(i)
        /\ i # j => jobs'[i] = jobs[i]
        /\ Present(j) => jobs'[j].status = "failed"
    BY <2>1, FailFacts
  <2>3. /\ RunningOn(i)' <=> RunningOn(i)
        /\ i # j => (Waiting(i)' <=> Waiting(i))
    BY <2>1 DEF Waiting, RunningOn, InQueue, Bringing
  <2>4. CASE i = j
    <3>1. ~RunningOn(j)
      BY <2>1 DEF OneCarrier, HeldBy, RunningOn, Running
    <3> QED
      BY <2>2, <2>3, <2>4, <3>1 DEF StatusGoes, Stranded, StatusOf, HasStatus
  <2>5. CASE i # j
    BY <1>0, <2>1, <2>2, <2>3, <2>5, StatusKept
  <2> QED
    BY <2>4, <2>5
<1> QED
  BY <1>1, <1>2, <1>3, <1>4, <1>5, <1>6, <1>7, <1>8 DEF Handle, Finish

\* Every step of the service keeps statuses and carriers in agreement.
LEMMA StatusStep ==
    ASSUME CoreInv, ServiceTypeOK', [Next]_svcVars PROVE \A i \in Ids : StatusGoes(i)
<1>1. CASE UNCHANGED svcVars \/ Shutdown \/ \E i \in Ids : Tick(i)
  <2>1. UNCHANGED <<jobs, queue, wpc, wjob, cpc, cjob>> /\ (stopping => stopping')
    BY <1>1 DEF svcVars, Shutdown, Tick, Elapse, storeVars, runVars, clientVars, envVars
  <2> SUFFICES ASSUME NEW i \in Ids PROVE StatusGoes(i)
    OBVIOUS
  <2>2. StatusOf(i)
    BY StatusByJob DEF CoreInv
  <2>3. (Waiting(i)' <=> Waiting(i)) /\ (RunningOn(i)' <=> RunningOn(i))
    BY <2>1 DEF Waiting, RunningOn, InQueue
  <2> QED
    BY <2>1, <2>2, <2>3, StatusKept
<1> QED
  BY <1>1, StatusWorker, StatusClient DEF Next

-----------------------------------------------------------------------------
(* Artifacts and finished jobs.                                            *)

\* A job that some goroutine or the queue carries has not been recorded done.
LEMMA CarriedNotDone ==
    ASSUME CoreInv, NEW i \in Ids, Carried(i) PROVE ~HasStatus(i, "done")
<1>1. StatusOf(i)
  BY StatusByJob DEF CoreInv
<1>2. Waiting(i) \/ RunningOn(i)
  BY DEF Carried, Waiting, RunningOn, HeldBy, Busy, Running
<1> QED
  BY <1>1, <1>2 DEF StatusOf, HasStatus

\* What each step does to a job that exists or has existed, if nobody carries
\* it: it stays as it is, it is cancelled while queued, or it is removed.
FateOf(i) ==
    \/ jobs'[i] = jobs[i]
    \/ ~Present(i)'
    \/ Present(i) /\ Present(i)' /\ jobs[i].status # "done"
         /\ (jobs'[i].status = "done" \/ jobs'[i].storage = jobs[i].storage)

\* What a step may do to a job that is done: nothing, or its removal.
LEMMA Fates ==
    ASSUME CoreInv, [Next]_svcVars, NEW i \in Ids, keyOf[i] \in Keys
    PROVE  /\ FateOf(i)
           /\ HasStatus(i, "done")' /\ ~HasStatus(i, "done") =>
                \E w \in Workers : Complete(w) /\ wjob[w] = i
<1> USE DEF CoreInv, CarrierInv
<1> DEFINE Goal == /\ FateOf(i)
                   /\ HasStatus(i, "done")' /\ ~HasStatus(i, "done") =>
                        \E w \in Workers : Complete(w) /\ wjob[w] = i
<1>0. ASSUME jobs'[i] = jobs[i] PROVE Goal
  BY <1>0 DEF FateOf, HasStatus, Present
<1>00. ASSUME NEW j \in Ids, ~HasStatus(j, "done"), Present(j)' <=> Present(j),
              i # j => jobs'[i] = jobs[i],
              Present(j) => \/ jobs'[j].status # "done" /\ jobs'[j].storage = jobs[j].storage
                            \/ \E w \in Workers : Complete(w) /\ wjob[w] = j /\ jobs'[j].status = "done"
       PROVE  Goal
  <2>1. CASE i # j
    BY <1>0, <1>00, <2>1
  <2>2. CASE i = j /\ ~Present(j)
    BY <1>00, <2>2 DEF FateOf, HasStatus
  <2>3. CASE i = j /\ Present(j)
    <3>1. jobs[j].status # "done" /\ Present(j)'
      BY <1>00, <2>3 DEF HasStatus
    <3>2. CASE jobs'[j].status # "done" /\ jobs'[j].storage = jobs[j].storage
      BY <2>3, <3>1, <3>2 DEF FateOf, HasStatus
    <3>3. CASE \E w \in Workers : Complete(w) /\ wjob[w] = j /\ jobs'[j].status = "done"
      BY <2>3, <3>1, <3>3 DEF FateOf, HasStatus
    <3> QED
      BY <1>00, <2>3, <3>2, <3>3
  <2> QED
    BY <2>1, <2>2, <2>3
<1>1. CASE UNCHANGED svcVars
  BY <1>0, <1>1 DEF svcVars, storeVars
<1>2. ASSUME NEW c \in Clients, Handle(c) PROVE Goal
  <2>1. ASSUME NEW k \in Keys, PostHit(c, k) PROVE Goal
    BY <1>0, <2>1 DEF PostHit, storeVars
  <2>2. ASSUME NEW j \in Ids, NEW k \in Keys, PostCreate(c, j, k) PROVE Goal
    <3>1. i # j
      BY <2>2, StoreAssumption DEF PostCreate, Create, Issued
    <3>2. jobs'[i] = jobs[i] \/ jobs'[i] = NoJob
      BY <2>2, <3>1 DEF PostCreate, Create
    <3> QED
      BY <1>0, <3>2 DEF FateOf, Present, HasStatus
  <2>3. ASSUME NEW j \in Ids, PostCancelQueued(c, j) PROVE Goal
    <3>1. HasStatus(j, "queued") /\ Fail(j, "cancelled")
      BY <2>3 DEF PostCancelQueued, CancelQueued
    <3>2. /\ Present(j)' /\ (i # j => jobs'[i] = jobs[i])
          /\ jobs'[j].status = "failed" /\ jobs'[j].storage = jobs[j].storage
      BY <3>1, FailFacts DEF HasStatus
    <3> QED
      BY <1>0, <3>1, <3>2 DEF FateOf, HasStatus
  <2>4. ASSUME NEW j \in Ids, PostCancelRunning(c, j) PROVE Goal
    BY <1>0, <2>4 DEF PostCancelRunning, storeVars
  <2>5. ASSUME NEW j \in Ids, DeleteJob(c, j) PROVE Goal
    <3>1. IF i = j THEN ~Present(i)' ELSE jobs'[i] = jobs[i]
      BY <2>5 DEF DeleteJob, Delete, Forget, StoreInv, StoreTypeOK, Present
    <3> QED
      BY <1>0, <3>1 DEF FateOf, HasStatus
  <2> QED
    BY <1>2, <2>1, <2>2, <2>3, <2>4, <2>5 DEF Handle
<1>3. ASSUME NEW c \in Clients, Finish(c) PROVE Goal
  <2>1. CASE RejectFull(c)
    <3> PICK j \in Ids : j = cjob[c]
      BY <2>1 DEF RejectFull, ServiceTypeOK
    <3>1. Fail(j, "error") /\ Carried(j)
      BY <2>1 DEF RejectFull, Carried, Bringing
    <3>2. ~HasStatus(j, "done")
      BY <3>1, CarriedNotDone
    <3>3. /\ Present(j)' <=> Present(j)
          /\ i # j => jobs'[i] = jobs[i]
          /\ Present(j) => jobs'[j].status = "failed" /\ jobs'[j].storage = jobs[j].storage
      BY <3>1, FailFacts
    <3> QED
      BY <1>00, <3>2, <3>3
  <2>2. CASE Enqueue(c) \/ EnqueueFull(c) \/ Signal(c) \/ Unlink(c)
    BY <1>0, <2>2 DEF Enqueue, EnqueueFull, Signal, Unlink, storeVars
  <2> QED
    BY <1>3, <2>1, <2>2 DEF Finish
<1>4. ASSUME NEW w \in Workers, Work(w) PROVE Goal
  <2>1. CASE Begin(w) \/ Complete(w) \/ RecordFailure(w)
    <3> PICK j \in Ids : j = wjob[w]
      BY <2>1 DEF Begin, Complete, RecordFailure, ServiceTypeOK, Busy
    <3>1. Carried(j)
      BY <2>1 DEF Begin, Complete, RecordFailure, Carried, HeldBy, Busy
    <3>2. ~HasStatus(j, "done")
      BY <3>1, CarriedNotDone
    <3>3. CASE Begin(w)
      <4>1. /\ Present(j)' <=> Present(j)
            /\ i # j => jobs'[i] = jobs[i]
            /\ Present(j) => jobs'[j].status = "running" /\ jobs'[j].storage = jobs[j].storage
        BY <3>3, StartFacts DEF Begin
      <4> QED
        BY <1>00, <3>2, <4>1
    <3>4. CASE Complete(w)
      <4>1. /\ Present(j)' <=> Present(j)
            /\ i # j => jobs'[i] = jobs[i]
            /\ Present(j) => jobs'[j].status = "done"
        BY <3>4, DoneFacts DEF Complete
      <4> QED
        BY <1>00, <3>2, <3>4, <4>1
    <3>5. CASE RecordFailure(w)
      <4>1. PICK code \in {"cancelled", "error"} : Fail(j, code)
        BY <3>5 DEF RecordFailure
      <4>2. /\ Present(j)' <=> Present(j)
            /\ i # j => jobs'[i] = jobs[i]
            /\ Present(j) => jobs'[j].status = "failed" /\ jobs'[j].storage = jobs[j].storage
        BY <4>1, FailFacts
      <4> QED
        BY <1>00, <3>2, <4>2
    <3> QED
      BY <2>1, <3>3, <3>4, <3>5
  <2>2. CASE Take(w) \/ Exit(w) \/ Look(w) \/ BeginSave(w) \/ Save(w) \/ RunFails(w) \/ SaveFails(w)
    BY <1>0, <2>2 DEF Take, Exit, Look, BeginSave, Save, RunFails, SaveFails, storeVars
  <2> QED
    BY <1>4, <2>1, <2>2 DEF Work
<1>5. CASE Shutdown \/ \E j \in Ids : Tick(j)
  BY <1>0, <1>5 DEF Shutdown, Tick, Elapse, storeVars
<1> QED
  BY <1>1, <1>2, <1>3, <1>4, <1>5 DEF Next

\* A job appears only by PostCreate, as a queued one.
LEMMA Appears ==
    ASSUME CoreInv, StoreInv', ServiceTypeOK', [Next]_svcVars,
           NEW i \in Ids, keyOf[i] \notin Keys, Present(i)'
    PROVE  jobs'[i] = QueuedRecord
<1>1. CASE \E c \in Clients, j \in Ids, k \in Keys : PostCreate(c, j, k)
  <2> PICK c \in Clients, j \in Ids, k \in Keys : PostCreate(c, j, k)
    BY <1>1
  <2>1. i # j => keyOf'[i] = keyOf[i]
    BY PostCreateCarrier
  <2>2. i = j
    BY <2>1 DEF StoreInv, PresentIssued
  <2> QED
    BY <2>2 DEF PostCreate, Create
<1>2. CASE ~ \E c \in Clients, j \in Ids, k \in Keys : PostCreate(c, j, k)
  BY <1>2, HandoverStep DEF StoreInv, PresentIssued
<1> QED
  BY <1>1, <1>2

\* Which artifacts a step adds and removes: an upload, an unlink.
LEMMA ArtifactsMove ==
    ASSUME [Next]_svcVars, ServiceTypeOK
    PROVE  /\ \A i \in artifacts : \/ i \in artifacts'
                                  \/ \E c \in Clients : cpc[c] = "unlink" /\ cjob[c] = i
           /\ \A w \in Workers : wpc'[w] = "saved" =>
                \/ wpc[w] = "saved" /\ wjob'[w] = wjob[w]
                \/ wjob'[w] \in artifacts'
           /\ \A c \in Clients : cpc'[c] = "unlink" =>
                \/ cpc[c] = "unlink" /\ cjob'[c] = cjob[c]
                \/ \E i \in Ids : DeleteJob(c, i) /\ jobs[i].storage # "none" /\ cjob'[c] = i
<1> USE DEF ServiceTypeOK
<1>1. CASE UNCHANGED svcVars
  BY <1>1 DEF svcVars, runVars, clientVars, envVars
<1>2. ASSUME NEW c \in Clients, Handle(c)
      PROVE  /\ UNCHANGED <<artifacts, wpc, wjob>>
             /\ \A d \in Clients : cpc'[d] = "unlink" =>
                  \/ cpc[d] = "unlink" /\ cjob'[d] = cjob[d]
                  \/ \E i \in Ids : DeleteJob(d, i) /\ jobs[i].storage # "none" /\ cjob'[d] = i
  <2>1. ASSUME NEW i \in Ids, DeleteJob(c, i), NEW d \in Clients, cpc'[d] = "unlink"
        PROVE  \/ cpc[d] = "unlink" /\ cjob'[d] = cjob[d]
               \/ DeleteJob(d, i) /\ jobs[i].storage # "none" /\ cjob'[d] = i
    BY <2>1 DEF DeleteJob, ClientGoes
  <2>2. ASSUME NEW i \in Ids, DeleteJob(c, i) PROVE UNCHANGED <<artifacts, wpc, wjob>>
    BY <2>2 DEF DeleteJob, runVars, envVars
  <2>3. ASSUME NEW i \in Ids, NEW k \in Keys,
               PostHit(c, k) \/ PostCreate(c, i, k) \/ PostCancelQueued(c, i) \/ PostCancelRunning(c, i)
        PROVE  /\ UNCHANGED <<artifacts, wpc, wjob>>
               /\ \A d \in Clients : cpc'[d] = "unlink" => cpc[d] = "unlink" /\ cjob'[d] = cjob[d]
    BY <2>3 DEF PostHit, PostCreate, PostCancelQueued, PostCancelRunning, ClientGoes,
                runVars, clientVars, envVars
  <2>4. CASE \E i \in Ids : DeleteJob(c, i)
    BY <2>1, <2>2, <2>4
  <2>5. CASE \E k \in Keys : PostHit(c, k)
    BY <2>5 DEF PostHit, runVars, envVars
  <2>6. CASE \E i \in Ids, k \in Keys : PostCreate(c, i, k)
    BY <2>3, <2>6
  <2>7. CASE \E i \in Ids : PostCancelQueued(c, i) \/ PostCancelRunning(c, i)
    BY <2>7 DEF PostCancelQueued, PostCancelRunning, ClientGoes, runVars, clientVars, envVars
  <2> QED
    BY <1>2, <2>4, <2>5, <2>6, <2>7 DEF Handle
<1>3. ASSUME NEW c \in Clients, Finish(c)
      PROVE  /\ \A i \in artifacts : i \in artifacts' \/ (cpc[c] = "unlink" /\ cjob[c] = i)
             /\ UNCHANGED <<wpc, wjob>>
             /\ \A d \in Clients : cpc'[d] = "unlink" => cpc[d] = "unlink" /\ cjob'[d] = cjob[d]
  <2>1. CASE Unlink(c)
    BY <2>1 DEF Unlink, ClientDone, ClientGoes, runVars
  <2>2. CASE Enqueue(c) \/ EnqueueFull(c) \/ RejectFull(c) \/ Signal(c)
    BY <2>2 DEF Enqueue, EnqueueFull, RejectFull, Signal, ClientDone, ClientGoes, runVars, envVars
  <2> QED
    BY <1>3, <2>1, <2>2 DEF Finish
<1>4. ASSUME NEW w \in Workers, Work(w)
      PROVE  /\ artifacts \subseteq artifacts' /\ UNCHANGED <<cpc, cjob>>
             /\ \A v \in Workers : wpc'[v] = "saved" =>
                  \/ wpc[v] = "saved" /\ wjob'[v] = wjob[v]
                  \/ wjob'[v] \in artifacts'
  <2>1. CASE Take(w) \/ Exit(w) \/ Look(w) \/ Begin(w) \/ BeginSave(w)
    BY <2>1 DEF Take, Exit, Look, Begin, BeginSave, WorkerGoes, clientVars, envVars
  <2>2. CASE Save(w)
    BY <2>2 DEF Save, WorkerGoes, clientVars
  <2>3. CASE Complete(w) \/ RunFails(w) \/ SaveFails(w) \/ RecordFailure(w)
    BY <2>3 DEF Complete, RunFails, SaveFails, RecordFailure, ErrorPC, WorkerGoes, clientVars, envVars
  <2> QED
    BY <1>4, <2>1, <2>2, <2>3 DEF Work
<1>5. CASE Shutdown \/ \E i \in Ids : Tick(i)
  BY <1>5 DEF Shutdown, Tick, runVars, clientVars, envVars
<1> QED
  BY <1>1, <1>2, <1>3, <1>4, <1>5 DEF Next

\* Only the worker that has the job uploads its artifact (runner.go:105-117).
LEMMA ArtifactsGrow ==
    ASSUME [Next]_svcVars, NEW i, i \in artifacts', i \notin artifacts
    PROVE  \E w \in Workers : HeldBy(w, i)
<1>1. ASSUME NEW w \in Workers, Work(w) PROVE HeldBy(w, i)
  <2>1. CASE Save(w) \/ SaveFails(w)
    BY <2>1 DEF Save, SaveFails, HeldBy, Busy
  <2>2. CASE UNCHANGED artifacts
    BY <2>2
  <2> QED
    BY <1>1, <2>1, <2>2 DEF Work, Take, Exit, Look, Begin, BeginSave, Complete, RunFails,
                            RecordFailure, envVars
<1>2. ASSUME NEW c \in Clients, Handle(c) \/ Finish(c) PROVE artifacts' \subseteq artifacts
  BY <1>2 DEF Handle, Finish, PostHit, PostCreate, PostCancelQueued, PostCancelRunning, DeleteJob,
              Enqueue, EnqueueFull, RejectFull, Signal, Unlink, envVars
<1>3. CASE UNCHANGED svcVars \/ Shutdown \/ \E j \in Ids : Tick(j)
  BY <1>3 DEF svcVars, Shutdown, Tick, envVars
<1> QED
  BY <1>1, <1>2, <1>3 DEF Next

\* Every step of the service keeps the artifact of a done job in place.
LEMMA ArtifactStep ==
    ASSUME CoreInv, StoreInv', ServiceTypeOK', [Next]_svcVars PROVE ArtifactInv'
<1> USE DEF CoreInv, CarrierInv, ArtifactInv
<1>1. StoredMeansDone'
  <2> SUFFICES ASSUME NEW i \in Ids, Present(i)', jobs'[i].storage # "none"
               PROVE  jobs'[i].status = "done"
    BY DEF StoredMeansDone
  <2>1. CASE keyOf[i] \notin Keys
    BY <2>1, Appears DEF QueuedRecord
  <2>2. CASE keyOf[i] \in Keys
    BY <2>2, Fates DEF FateOf, StoredMeansDone, Present
  <2> QED
    BY <2>1, <2>2
<1>2. SavedHasArtifact'
  <2> SUFFICES ASSUME NEW w \in Workers, wpc'[w] = "saved" PROVE wjob'[w] \in artifacts'
    BY DEF SavedHasArtifact
  <2>1. CASE wpc[w] = "saved" /\ wjob'[w] = wjob[w]
    <3>1. wjob[w] \in artifacts /\ wjob[w] \in Ids /\ Carried(wjob[w])
      BY <2>1 DEF SavedHasArtifact, ServiceTypeOK, Carried, HeldBy, Busy
    <3>2. ~ \E c \in Clients : cpc[c] = "unlink" /\ cjob[c] = wjob[w]
      BY <3>1 DEF UnlinkedIsGone
    <3> QED
      BY <2>1, <3>1, <3>2, ArtifactsMove
  <2> QED
    BY <2>1, ArtifactsMove
<1>3. UnlinkedIsGone'
  <2> SUFFICES ASSUME NEW c \in Clients, cpc'[c] = "unlink"
               PROVE  ~Present(cjob[c])' /\ ~Carried(cjob[c])' /\ keyOf'[cjob'[c]] \in Keys
    BY DEF UnlinkedIsGone
  <2> PICK i \in Ids : i = cjob'[c]
    BY DEF ServiceTypeOK
  <2>1. ~Present(i)' /\ ~Carried(i) /\ keyOf[i] \in Keys
    <3>1. CASE cpc[c] = "unlink" /\ cjob'[c] = cjob[c]
      <4>1. ~Present(i) /\ ~Carried(i) /\ keyOf[i] \in Keys
        BY <3>1 DEF UnlinkedIsGone
      <4> QED
        BY <4>1, Fates DEF FateOf, Present
    <3>2. CASE DeleteJob(c, i) /\ jobs[i].storage # "none"
      <4>1. HasStatus(i, "done") /\ keyOf[i] \in Keys
        BY <3>2 DEF DeleteJob, Delete, StoredMeansDone, HasStatus, StoreInv, PresentIssued
      <4>2. ~Carried(i)
        BY <4>1, CarriedNotDone
      <4>3. ~Present(i)'
        BY <3>2 DEF DeleteJob, Delete, Forget, Present, StoreInv, StoreTypeOK
      <4> QED
        BY <4>1, <4>2, <4>3
    <3> QED
      BY <3>1, <3>2, ArtifactsMove
  <2>2. ~Carried(i)' /\ keyOf'[i] \in Keys
    BY <2>1, CarriedGrows
  <2> QED
    BY <2>1, <2>2 DEF Present, Carried, InQueue, HeldBy
<1> QED
  BY <1>1, <1>2, <1>3

\* A job becomes done only with its artifact, and keeps it.
LEMMA DoneKept ==
    ASSUME CoreInv, StoreInv', ServiceTypeOK', [Next]_svcVars,
           NEW i \in Ids, HasStatus(i, "done")'
    PROVE  i \in artifacts' \/ (HasStatus(i, "done") /\ i \notin artifacts)
<1> USE DEF CoreInv, CarrierInv, ArtifactInv
<1>1. CASE HasStatus(i, "done") /\ i \in artifacts
  <2>1. ~ \E c \in Clients : cpc[c] = "unlink" /\ cjob[c] = i
    BY <1>1 DEF UnlinkedIsGone, HasStatus
  <2> QED
    BY <1>1, <2>1, ArtifactsMove
<1>2. CASE ~HasStatus(i, "done")
  <2>1. keyOf[i] \in Keys
    BY <1>2, Appears DEF HasStatus, QueuedRecord
  <2>2. PICK w \in Workers : Complete(w) /\ wjob[w] = i
    BY <1>2, <2>1, Fates
  <2> QED
    BY <2>2 DEF Complete, SavedHasArtifact, envVars
<1> QED
  BY <1>1, <1>2

-----------------------------------------------------------------------------
(* The theorems.                                                           *)

\* The service starts in its invariant.
LEMMA ServiceInvInit == Init => ServiceInv
<1> SUFFICES ASSUME Init PROVE ServiceInv
  OBVIOUS
<1>1. StoreInv
  BY StoreInvInit DEF Init
<1>2. \A i \in Ids : ~Present(i)
  BY DEF Init, StoreInit, Present
<1>3. queue \in Seq(Ids) /\ Len(queue) = 0
  BY EmptySeq DEF Init
<1>4. /\ \A w \in Workers : wpc[w] = "idle"
      /\ \A c \in Clients : cpc[c] = "idle"
      /\ \A i : ~InQueue(i)
  BY <1>3 DEF Init, InQueue
<1>5. ServiceTypeOK
  <2>1. StoreTypeOK
    BY <1>1 DEF StoreInv
  <2>2. queue \in Seq(Ids) /\ Len(queue) <= MaxQueueSize
    BY <1>3, ServiceAssumption
  <2>3. wpc \in [Workers -> WorkerPC] /\ wjob \in [Workers -> Ids \cup {NoId}]
    BY DEF Init, WorkerPC
  <2>4. cpc \in [Clients -> ClientPC] /\ cjob \in [Clients -> Ids \cup {NoId}]
    BY DEF Init, ClientPC
  <2>5. \A w \in Workers : wpc[w] \in Busy => wjob[w] \in Ids
    BY <1>4 DEF Busy
  <2>6. \A c \in Clients : cpc[c] # "idle" => cjob[c] \in Ids
    BY <1>4
  <2>7. known \subseteq Ids /\ cancelled \subseteq Ids /\ artifacts \subseteq Ids
    BY DEF Init
  <2>8. stopping \in BOOLEAN
    BY DEF Init
  <2> QED
    BY <2>1, <2>2, <2>3, <2>4, <2>5, <2>6, <2>7, <2>8 DEF ServiceTypeOK
<1>6. OneCarrier /\ CarriedIssued
  BY <1>3, <1>4 DEF OneCarrier, CarriedIssued, Carried, HeldBy, Busy, Bringing
<1>7. StatusInv /\ QueuedJobHasCarrier
  BY <1>2, <1>4 DEF StatusInv, WaitingStatus, RunningMatchesWorkers, QueuedJobHasCarrier,
                    HasStatus, Bringing
<1>8. ArtifactInv /\ DoneHasArtifact
  BY <1>2, <1>4 DEF ArtifactInv, StoredMeansDone, SavedHasArtifact, UnlinkedIsGone,
                    DoneHasArtifact, HasStatus
<1> QED
  BY <1>1, <1>5, <1>6, <1>7, <1>8 DEF ServiceInv, CoreInv, CarrierInv

\* Every step of the service keeps its core invariant.
LEMMA CoreInvStep == CoreInv /\ [Next]_svcVars => CoreInv' /\ StoreInv' /\ ServiceTypeOK'
<1> SUFFICES ASSUME CoreInv, [Next]_svcVars PROVE CoreInv' /\ StoreInv' /\ ServiceTypeOK'
  OBVIOUS
<1>1. StoreInv'
  BY StoreStep, StoreInvStep DEF CoreInv
<1>2. ServiceTypeOK'
  BY <1>1, TypeStep
<1>3. StatusInv'
  BY <1>2, StatusStep, StatusByJob DEF StatusGoes
<1> QED
  BY <1>1, <1>2, <1>3, CarrierStep, ArtifactStep DEF CoreInv

\* Every step of the service keeps its invariant.
LEMMA ServiceInvStep == ServiceInv /\ [Next]_svcVars => ServiceInv'
<1> SUFFICES ASSUME ServiceInv, [Next]_svcVars PROVE ServiceInv'
  OBVIOUS
<1>1. CoreInv /\ CoreInv' /\ StoreInv' /\ ServiceTypeOK'
  BY CoreInvStep DEF ServiceInv
<1>2. QueuedJobHasCarrier'
  BY <1>1, StatusStep, NobodyStranded DEF ServiceInv, StatusGoes
<1>3. DoneHasArtifact'
  BY <1>1, DoneKept DEF ServiceInv, DoneHasArtifact
<1> QED
  BY <1>1, <1>2, <1>3 DEF ServiceInv

\* The inductive invariant of the service: carriers, statuses, artifacts.
THEOREM ServiceInvariant == Spec => []ServiceInv
  BY ServiceInvInit, ServiceInvStep, PTL DEF Spec

\* Every variable keeps its type, the run queue its capacity.
THEOREM TypeCorrect == Spec => []ServiceTypeOK
<1>1. ServiceInv => ServiceTypeOK
  BY DEF ServiceInv, CoreInv, CarrierInv
<1> QED
  BY <1>1, ServiceInvariant, PTL

\* No job is ever enqueued twice or processed by two workers (jobs.go:48-49,
\* lifecycle.go:43-70).
THEOREM OneCarrierAlways == Spec => []OneCarrier
<1>1. ServiceInv => OneCarrier
  BY DEF ServiceInv, CoreInv, CarrierInv
<1> QED
  BY <1>1, ServiceInvariant, PTL

\* A queued job is never forgotten (jobs.go:48-53, lifecycle.go:25-70).
THEOREM QueuedJobsAreCarried == Spec => []QueuedJobHasCarrier
<1>1. ServiceInv => QueuedJobHasCarrier
  BY DEF ServiceInv
<1> QED
  BY <1>1, ServiceInvariant, PTL

\* Running jobs are exactly the ones that workers run (lifecycle.go:43-70).
THEOREM JobsAccountedFor == Spec => []RunningMatchesWorkers
<1>1. ServiceInv => RunningMatchesWorkers
  BY DEF ServiceInv, CoreInv, StatusInv
<1> QED
  BY <1>1, ServiceInvariant, PTL

\* A done job's artifact is there (runner.go:105-117, jobs.go:79-93).
THEOREM DoneHasArtifactAlways == Spec => []DoneHasArtifact
<1>1. ServiceInv => DoneHasArtifact
  BY DEF ServiceInv
<1> QED
  BY <1>1, ServiceInvariant, PTL

\* A completed job is never failed, restarted or altered, only removed
\* (store.go:140-197).
THEOREM DoneIsFinalAlways == Spec => DoneIsFinal
<1>1. ServiceInv /\ [Next]_svcVars =>
        [\A i \in Ids : HasStatus(i, "done") => ~Present(i)' \/ jobs'[i] = jobs[i]]_svcVars
  <2> SUFFICES ASSUME ServiceInv, [Next]_svcVars, NEW i \in Ids, HasStatus(i, "done")
               PROVE  ~Present(i)' \/ jobs'[i] = jobs[i]
    OBVIOUS
  <2>1. keyOf[i] \in Keys
    BY DEF ServiceInv, CoreInv, StoreInv, PresentIssued, HasStatus
  <2> QED
    BY <2>1, Fates DEF ServiceInv, FateOf, HasStatus
<1> QED
  BY <1>1, ServiceInvariant, PTL DEF Spec, DoneIsFinal

\* The runner and the handlers use the store only as JobStore assumes its
\* callers do, so all that holds of StoreSpec holds of the service.
THEOREM ImplementsStore == Spec => StoreSpec
<1>1. Init => StoreInit
  BY DEF Init
<1>2. ServiceInv => CoreInv
  BY DEF ServiceInv
<1> QED
  BY <1>1, <1>2, StoreStep, ServiceInvariant, PTL DEF Spec, StoreSpec
=============================================================================
