------------------------- MODULE JobDurabilityProofs -------------------------
(***************************************************************************)
(* Proofs about JobDurability for any number of jobs, goroutines, restarts *)
(* and queue slots: across kills and restarts every queued job has one     *)
(* party that brings it to a worker, a job that shows as done has its      *)
(* artifact, and the table catches up with the memory.                     *)
(***************************************************************************)
EXTENDS JobDurability, JobServiceProofs

-----------------------------------------------------------------------------
(* The inductive invariant.                                                *)

\* Run() has it in its hands: restored as queued, and with nobody else.
BootInv == \A i \in boot : HasStatus(i, "queued") /\ ~Carried(i) /\ keyOf[i] \in Keys

\* The only queued jobs without a carrier are those.
StrandedAtBoot == \A i \in Ids : Stranded(i) => i \in boot

\* What Restart may find in a row: only Done names an artifact, and a job that
\* failed for another reason than a cancel does not run again.
Sound(r) ==
    /\ r \in JobRecord
    /\ r.errorCode = "error" => r.status = "failed"
    /\ r.status = "done" => r.storage = Backend

RecordsSound ==
    \A i \in Ids : Present(i) =>
        Sound(jobs[i]) /\ (Carried(i) => jobs[i].errorCode # "error")

\* A row of job i that is on its way to the table, or there.
Snapshot(i, r) ==
    \/ db[i] # NoJob /\ db[i] = r
    \/ \E n \in 1..Len(wq) : wq[n].job = i /\ wq[n].row = r
    \/ \E g \in Goroutines : ~Told(g) /\ note[g].job = i /\ note[g].row = r

\* No run of the job can begin any more in this life of the process.
Settled(i) == ~Carried(i) /\ (Present(i) => HasStatus(i, "done"))

\* The artifact is there, unless the job and then the object were removed
\* after the last deadline.
Kept(i) == i \in artifacts \/ (age[i] = "purgeable" /\ ~Present(i))

\* A snapshot that says done is of a job that is done or gone, and its
\* artifact is there.
SoundOf(i, r) ==
    /\ Sound(r) /\ keyOf[i] \in Keys
    /\ r.status = "done" => Settled(i) /\ (i \notin deleted => Kept(i))

SnapshotsSound == \A i \in Ids, r \in JobRecord : Snapshot(i, r) => SoundOf(i, r)

UnlinkAfterDelete == \A c \in Clients : cpc[c] = "unlink" => cjob[c] \in deleted

KeepInv ==
    /\ RecordsSound /\ SnapshotsSound
    /\ UnlinkAfterDelete /\ RestoredDoneHasArtifact

\* The row in the table says what the memory says.
RowAgrees(i) ==
    /\ db[i] # NoJob
    /\ \/ db[i].status = jobs[i].status
       \/ i \in restored /\ jobs[i].status = "queued" /\ i \in RunnableRows

\* The last snapshot of the job in the write-behind queue says so.
LastAgrees(i, n) ==
    /\ wq[n].job = i /\ wq[n].row.status = jobs[i].status
    /\ \A m \in n + 1..Len(wq) : wq[m].job # i

NotesOn(i) == \E g \in Goroutines : ~Told(g) /\ note[g].job = i

\* What is underway to the table, or already there, is its latest state.
Caught(i) ==
    \/ \E n \in 1..Len(wq) : LastAgrees(i, n)
    \/ (\A n \in 1..Len(wq) : wq[n].job # i) /\ RowAgrees(i)

\* So it is once no goroutine has a snapshot of the job to deliver any more.
CatchingUp == \A i \in Ids \ missed : Present(i) /\ ~NotesOn(i) => Caught(i)

DInv ==
    /\ CoreInv /\ DurabilityTypeOK
    /\ BootInv /\ StrandedAtBoot
    /\ KeepInv /\ CatchingUp

-----------------------------------------------------------------------------
(* Records and their snapshots.                                            *)

\* An error other than a cancel ends a job in this life of the process; only
\* Done names an artifact (store.go:110-197).
LEMMA RecordStep ==
    ASSUME CoreInv, StoreInv', ServiceTypeOK', [Next]_svcVars, RecordsSound
    PROVE  RecordsSound'
<1> USE DEF CoreInv, CarrierInv
<1> SUFFICES ASSUME NEW i \in Ids, Present(i)'
             PROVE  Sound(jobs'[i]) /\ (Carried(i)' => jobs'[i].errorCode # "error")
  BY DEF RecordsSound, Sound
<1>1. jobs'[i] \in JobRecord
  BY DEF StoreInv, StoreTypeOK, Present
<1>2. CASE keyOf[i] \notin Keys
  BY <1>1, <1>2, Appears DEF QueuedRecord, Sound
<1>3. ASSUME keyOf[i] \in Keys, jobs'[i] = jobs[i]
      PROVE  Sound(jobs'[i]) /\ (Carried(i)' => jobs'[i].errorCode # "error")
  BY <1>3, CarriedGrows DEF RecordsSound, Present
<1>4. ASSUME NEW c \in Clients, Handle(c), keyOf[i] \in Keys
      PROVE  Sound(jobs'[i]) /\ (Carried(i)' => jobs'[i].errorCode # "error")
  <2>1. CASE \E k \in Keys : PostHit(c, k)
    BY <1>3, <1>4, <2>1 DEF PostHit, storeVars
  <2>2. ASSUME NEW j \in Ids, NEW k \in Keys, PostCreate(c, j, k) PROVE jobs'[i] = jobs[i]
    BY <1>4, <2>2, StoreAssumption DEF PostCreate, Create, Issued, Present
  <2>3. ASSUME NEW j \in Ids, PostCancelQueued(c, j)
        PROVE  jobs'[i] = jobs[i] \/ (jobs'[i].status = "failed" /\ jobs'[i].errorCode = "cancelled")
    BY <2>3, FailFacts DEF PostCancelQueued, CancelQueued, HasStatus
  <2>4. ASSUME NEW j \in Ids, PostCancelRunning(c, j) \/ DeleteJob(c, j)
        PROVE  jobs'[i] = jobs[i]
    BY <2>4 DEF PostCancelRunning, DeleteJob, Delete, Forget, Present, storeVars,
                StoreInv, StoreTypeOK
  <2> QED
    BY <1>1, <1>3, <1>4, <2>1, <2>2, <2>3, <2>4 DEF Handle, Sound
<1>5. ASSUME NEW c \in Clients, Finish(c), keyOf[i] \in Keys
      PROVE  Sound(jobs'[i]) /\ (Carried(i)' => jobs'[i].errorCode # "error")
  <2>1. CASE RejectFull(c) /\ i = cjob[c]
    <3>1. Fail(i, "error") /\ cpc[c] \in Bringing
      BY <2>1 DEF RejectFull, Bringing
    <3>2. jobs'[i].status = "failed"
      BY <3>1, FailFacts
    <3>3. /\ cpc'[c] = "idle"
          /\ \A d \in Clients : d # c => cpc'[d] = cpc[d] /\ cjob'[d] = cjob[d]
          /\ UNCHANGED <<queue, wpc, wjob>>
      BY <2>1 DEF RejectFull, ClientDone, ClientGoes, ServiceTypeOK, runVars
    <3>4. ~Carried(i)'
      BY <2>1, <3>1, <3>3 DEF Carried, OneCarrier, InQueue, HeldBy, Bringing
    <3> QED
      BY <1>1, <3>2, <3>4 DEF Sound
  <2>2. CASE RejectFull(c) /\ i # cjob[c]
    <3>1. cjob[c] \in Ids /\ Fail(cjob[c], "error")
      BY <2>2 DEF RejectFull, ServiceTypeOK
    <3> QED
      BY <1>3, <1>5, <2>2, <3>1, FailFacts
  <2>3. CASE Enqueue(c) \/ EnqueueFull(c) \/ Signal(c) \/ Unlink(c)
    BY <1>3, <1>5, <2>3 DEF Enqueue, EnqueueFull, Signal, Unlink, storeVars
  <2> QED
    BY <1>5, <2>1, <2>2, <2>3 DEF Finish
<1>6. ASSUME NEW w \in Workers, Work(w), keyOf[i] \in Keys
      PROVE  Sound(jobs'[i]) /\ (Carried(i)' => jobs'[i].errorCode # "error")
  <2>1. CASE (Begin(w) \/ Complete(w)) /\ i = wjob[w]
    <3>1. Carried(i) /\ (Start(i) \/ Done(i))
      BY <2>1 DEF Begin, Complete, Carried, HeldBy, Busy
    <3>2. /\ Present(i) /\ jobs'[i].errorCode = jobs[i].errorCode
          /\ \/ jobs'[i].status = "running"
             \/ jobs'[i].status = "done" /\ jobs'[i].storage = Backend
      BY <3>1, StartFacts, DoneFacts
    <3> QED
      BY <1>1, <3>1, <3>2 DEF RecordsSound, Sound
  <2>2. CASE RecordFailure(w) /\ i = wjob[w]
    <3>1. wpc[w] \in Busy /\ \E code \in {"cancelled", "error"} : Fail(i, code)
      BY <2>2 DEF RecordFailure, Busy
    <3>2. jobs'[i].status = "failed"
      BY <3>1, FailFacts
    <3>3. /\ wpc'[w] = "idle" /\ \A v \in Workers : v # w => wpc'[v] = wpc[v]
          /\ UNCHANGED <<queue, wjob, cpc, cjob>>
      BY <2>2 DEF RecordFailure, WorkerGoes, ServiceTypeOK, clientVars
    <3>4. ~Carried(i)'
      BY <2>2, <3>1, <3>3 DEF Carried, OneCarrier, InQueue, HeldBy, Busy
    <3> QED
      BY <1>1, <3>2, <3>4 DEF Sound
  <2>3. CASE i # wjob[w] \/ ~(Begin(w) \/ Complete(w) \/ RecordFailure(w))
    <3>1. jobs'[i] = jobs[i]
      BY <1>6, <2>3, UncarriedKept DEF Work, Take, Exit, Look, BeginSave, Save, RunFails,
                                       SaveFails, storeVars
    <3> QED
      BY <1>3, <1>6, <3>1
  <2> QED
    BY <2>1, <2>2, <2>3
<1>7. CASE keyOf[i] \in Keys /\ (UNCHANGED svcVars \/ Shutdown \/ \E j \in Ids : Tick(j))
  BY <1>3, <1>7 DEF svcVars, storeVars, Shutdown, Tick, Elapse
<1> QED
  BY <1>2, <1>4, <1>5, <1>6, <1>7 DEF Next

\* The record of a job is a sound snapshot of it.
LEMMA RecordSound ==
    ASSUME CoreInv, RecordsSound, RestoredDoneHasArtifact,
           NEW i \in Ids, Present(i)
    PROVE  SoundOf(i, jobs[i])
<1>1. Sound(jobs[i]) /\ keyOf[i] \in Keys
  BY DEF RecordsSound, CoreInv, StoreInv, PresentIssued
<1>2. CASE jobs[i].status = "done"
  <2>1. HasStatus(i, "done") /\ ~Carried(i)
    BY <1>2, CarriedNotDone DEF HasStatus
  <2> QED
    BY <1>1, <2>1 DEF SoundOf, Settled, Kept, RestoredDoneHasArtifact
<1> QED
  BY <1>1, <1>2 DEF SoundOf

-----------------------------------------------------------------------------
(* The kinds of step, by what they have to do with the table.              *)

\* Goroutine g, done with job j, takes its snapshot along.
Takes(g, j) ==
    /\ Told(g)
    /\ \/ ~Present(j)' /\ UNCHANGED note
       \/ /\ jobs'[j] \in JobRecord
          /\ \E l \in BOOLEAN :
               note' = [note EXCEPT ![g] = [job |-> j, row |-> jobs'[j], live |-> l]]

Telling(g, j) ==
    /\ [Next]_svcVars
    /\ Takes(g, j)
    /\ \A i \in Ids : i # j => jobs'[i] = jobs[i] \/ ~Present(i)'
    /\ UNCHANGED <<restored, wq, db, missed, procVars, deleted>>

Quiet == [Next]_svcVars /\ UNCHANGED storeVars /\ TellsNothing

\* A step changes no record, or it changes one and takes a snapshot along, or
\* it removes one, or it moves snapshots, or run() goes on with a restored job.
LEMMA StepKinds ==
    ASSUME CoreInv, DStep
    PROVE  \/ Quiet
           \/ \E g \in Goroutines, j \in Ids : Telling(g, j)
           \/ \E c \in Clients, j \in Ids : boot = {} /\ DeleteTellsNothing(c, j)
           \/ \E g \in Goroutines : Notify(g)
           \/ Write
           \/ \E j \in Ids : BootEnqueue(j) \/ BootGivesUp(j)
<1> USE DEF CoreInv, CarrierInv
<1>1. ASSUME NEW g \in Goroutines, NEW j \in Ids, NEW r, Told(g), [Next]_svcVars,
             Present(j) => r \in JobRecord, Update(j, r), Tells(g, j)
      PROVE  Telling(g, j)
  <2>1. /\ \A i \in Ids : Present(i)' <=> Present(i)
        /\ \A i \in Ids : i # j => jobs'[i] = jobs[i]
        /\ UNCHANGED restored
    BY <1>1, UpdateFacts
  <2>2. jobs'[j] \in JobRecord \/ ~Present(j)'
    BY <1>1, <2>1, UpdateFacts
  <2>3. Takes(g, j)
    BY <1>1, <2>1, <2>2 DEF Tells, Takes
  <2> QED
    BY <1>1, <2>1, <2>3 DEF Telling, Tells
<1>2. ASSUME NEW g \in Goroutines, NEW j \in Ids, Told(g), UNCHANGED svcVars, Tells(g, j)
      PROVE  Telling(g, j)
  <2>1. jobs' = jobs /\ restored' = restored
    BY <1>2 DEF svcVars, storeVars
  <2>2. jobs'[j] \in JobRecord \/ ~Present(j)'
    BY <2>1 DEF Present, StoreInv, StoreTypeOK
  <2>3. Takes(g, j)
    BY <1>2, <2>1, <2>2 DEF Tells, Takes, Present
  <2> QED
    BY <1>2, <2>1, <2>3 DEF Telling, Tells
<1>3. ASSUME NEW j \in Ids, NEW s \in Statuses, NEW e \in ErrorCodes, NEW b \in {"none", "local", "s3"}
      PROVE  /\ Present(j) => [jobs[j] EXCEPT !.status = s] \in JobRecord
             /\ Present(j) => [jobs[j] EXCEPT !.status = s, !.errorCode = e] \in JobRecord
             /\ Present(j) => [jobs[j] EXCEPT !.status = s, !.storage = b] \in JobRecord
  BY DEF StoreInv, StoreTypeOK, Present, JobRecord
<1>4. /\ \A j \in Ids : Start(j) => \E r : (Present(j) => r \in JobRecord) /\ Update(j, r)
      /\ \A j \in Ids : Done(j) => \E r : (Present(j) => r \in JobRecord) /\ Update(j, r)
      /\ \A j \in Ids, code \in {"cancelled", "error"} :
           Fail(j, code) => \E r : (Present(j) => r \in JobRecord) /\ Update(j, r)
  BY <1>3, StoreAssumption DEF Start, Done, Fail, Statuses, ErrorCodes
<1>5. ASSUME NEW c \in Clients, ClientStep(c)
      PROVE  \/ Quiet
             \/ \E j \in Ids : Telling(c, j)
             \/ \E j \in Ids : boot = {} /\ DeleteTellsNothing(c, j)
  <2>0. c \in Goroutines /\ Told(c) /\ boot = {}
    BY <1>5 DEF Goroutines, ClientStep
  <2>1. CASE TellsNothing /\ (Enqueue(c) \/ EnqueueFull(c) \/ Signal(c) \/ Unlink(c))
    BY <2>1 DEF Quiet, Next, Finish, Enqueue, EnqueueFull, Signal, Unlink
  <2>2. ASSUME NEW k \in Keys, TellsNothing, PostHit(c, k) PROVE Quiet
    BY <2>2 DEF Quiet, Next, Handle, PostHit
  <2>3. CASE RejectFull(c) /\ Tells(c, cjob[c])
    <3> PICK j \in Ids : j = cjob[c]
      BY <2>3 DEF RejectFull, ServiceTypeOK
    <3>1. Fail(j, "error") /\ [Next]_svcVars
      BY <2>3 DEF RejectFull, Next, Finish
    <3> QED
      BY <1>1, <1>4, <2>0, <2>3, <3>1
  <2>4. ASSUME NEW j \in Ids, PostCancelQueued(c, j), Tells(c, j) PROVE Telling(c, j)
    <3>1. Fail(j, "cancelled") /\ [Next]_svcVars
      BY <2>4 DEF PostCancelQueued, CancelQueued, Next, Handle
    <3> QED
      BY <1>1, <1>4, <2>0, <2>4, <3>1
  <2>5. ASSUME NEW j \in Ids, PostCancelRunning(c, j), Tells(c, j) PROVE Telling(c, j)
    <3>1. jobs' = jobs /\ restored' = restored /\ [Next]_svcVars
      BY <2>5 DEF PostCancelRunning, Next, Handle, storeVars
    <3>2. jobs'[j] \in JobRecord \/ ~Present(j)'
      BY <3>1 DEF Present, StoreInv, StoreTypeOK
    <3>3. Takes(c, j)
      BY <2>0, <2>5, <3>1, <3>2 DEF Tells, Takes, Present
    <3> QED
      BY <2>5, <3>1, <3>3 DEF Telling, Tells
  <2>6. ASSUME NEW j \in Ids, CancelRefused(c, j) PROVE Telling(c, j)
    BY <1>2, <2>0, <2>6 DEF CancelRefused
  <2>7. ASSUME NEW j \in Ids, NEW k \in Keys, CreateTells(c, j, k) PROVE Telling(c, j)
    <3>1. [Next]_svcVars /\ Create(j, k)
      BY <2>7 DEF CreateTells, PostCreate, Next, Handle
    <3>2. jobs'[j] = QueuedRecord /\ QueuedRecord \in JobRecord
      BY <3>1 DEF Create, QueuedRecord, JobRecord, Statuses, ErrorCodes
    <3>3. \A i \in Ids : i # j => jobs'[i] = jobs[i] \/ ~Present(i)'
      BY <3>1 DEF Create, Present
    <3>4. Takes(c, j)
      BY <2>0, <2>7, <3>2 DEF CreateTells, Takes
    <3> QED
      BY <2>7, <3>1, <3>3, <3>4 DEF Telling, CreateTells, Create
  <2> QED
    BY <1>5, <2>0, <2>1, <2>2, <2>3, <2>4, <2>5, <2>6, <2>7 DEF ClientStep
<1>6. ASSUME NEW w \in Workers, WorkerStep(w)
      PROVE  Quiet \/ \E j \in Ids : Telling(w, j)
  <2>0. w \in Goroutines /\ Told(w)
    BY <1>6 DEF Goroutines, WorkerStep, WorkerActs
  <2>1. CASE TellsNothing /\ (Take(w) \/ Exit(w) \/ Look(w) \/ BeginSave(w) \/ Save(w)
                              \/ RunFails(w) \/ SaveFails(w))
    <3>1. [Next]_svcVars
      BY <2>1 DEF Next, Work
    <3>2. UNCHANGED storeVars
      BY <2>1 DEF Take, Exit, Look, BeginSave, Save, RunFails, SaveFails
    <3> QED
      BY <2>1, <3>1, <3>2 DEF Quiet
  <2>2. CASE Tells(w, wjob[w]) /\ (Begin(w) \/ RecordFailure(w) \/ Complete(w))
    <3> PICK j \in Ids : j = wjob[w]
      BY <2>2 DEF Begin, RecordFailure, Complete, ServiceTypeOK, Busy
    <3>1. [Next]_svcVars
      BY <2>2 DEF Next, Work
    <3>2. Start(j) \/ Done(j) \/ \E code \in {"cancelled", "error"} : Fail(j, code)
      BY <2>2 DEF Begin, RecordFailure, Complete
    <3>3. \E r : (Present(j) => r \in JobRecord) /\ Update(j, r)
      BY <1>4, <3>2
    <3> QED
      BY <1>1, <2>0, <2>2, <3>1, <3>3
  <2>3. CASE Progress(w)
    <3> PICK j \in Ids : j = wjob[w]
      BY <2>3 DEF Progress, ServiceTypeOK, Busy
    <3> QED
      BY <1>2, <2>0, <2>3 DEF Progress
  <2> QED
    BY <1>6, <2>1, <2>2, <2>3 DEF WorkerStep, WorkerActs, CompleteTells
<1>7. CASE Shutdown /\ TellsNothing
  BY <1>7 DEF Quiet, Next, Shutdown
<1> QED
  BY <1>5, <1>6, <1>7 DEF DStep, Goroutines

-----------------------------------------------------------------------------
(* What SaveJob and the writer do, pointwise.                              *)

\* What notify makes of a goroutine's note.
Delivered(g) ==
    LET n == note[g]
    IN  [job |-> n.job, row |-> IF n.live /\ Present(n.job) THEN jobs[n.job] ELSE n.row]

\* SaveJob queues the snapshot or counts it as rejected (job_writer.go:41-61).
LEMMA NotifyFacts ==
    ASSUME CoreInv, DurabilityTypeOK, NEW g \in Goroutines, Notify(g)
    PROVE  /\ note[g] \in Note /\ note'[g] = NoNote
           /\ \A h \in Goroutines : h # g => note'[h] = note[h]
           /\ wq' \in Seq(Snapshots) /\ Len(wq') <= SinkQueueSize
           /\ missed \subseteq missed' /\ missed' \subseteq missed \cup {note[g].job}
           /\ \/ UNCHANGED wq /\ note[g].job \in missed'
              \/ /\ Len(wq) \in Nat /\ Len(wq') = Len(wq) + 1
                 /\ \A n \in 1..Len(wq) : wq'[n] = wq[n]
                 /\ wq'[Len(wq) + 1] = Delivered(g)
                 /\ \/ note[g].job \in missed' \/ ~Present(note[g].job)
                    \/ Delivered(g).row = jobs[note[g].job]
<1> DEFINE d == Delivered(g)
<1>1. note[g] \in Note /\ note'[g] = NoNote /\ \A h \in Goroutines : h # g => note'[h] = note[h]
  BY DEF Notify, Told, DurabilityTypeOK
<1>2. d \in Snapshots /\ d.job = note[g].job
  BY <1>1 DEF Note, Snapshots, Delivered, Present, CoreInv, StoreInv, StoreTypeOK
<1>3. /\ wq' = IF Len(wq) < SinkQueueSize THEN Append(wq, d) ELSE wq
      /\ missed' = IF /\ Len(wq) < SinkQueueSize
                      /\ Present(note[g].job) => d.row = jobs[note[g].job]
                   THEN missed ELSE missed \cup {note[g].job}
  BY DEF Notify, Delivered
<1>4. wq \in Seq(Snapshots) /\ Len(wq) <= SinkQueueSize
  BY DEF DurabilityTypeOK
<1> HIDE DEF d
<1>5. CASE Len(wq) < SinkQueueSize
  <2>1. wq' = Append(wq, d)
    BY <1>3, <1>5
  <2>2. /\ wq' \in Seq(Snapshots) /\ Len(wq') = Len(wq) + 1 /\ Len(wq) \in Nat
        /\ \A n \in 1..Len(wq) : wq'[n] = wq[n]
        /\ wq'[Len(wq) + 1] = d
    BY <1>2, <1>4, <2>1, AppendProperties, LenProperties
  <2>3. Len(wq') <= SinkQueueSize
    BY <1>5, <2>2, DurabilityAssumption
  <2> QED
    BY <1>1, <1>2, <1>3, <1>5, <2>2, <2>3 DEF d
<1>6. CASE ~(Len(wq) < SinkQueueSize)
  BY <1>1, <1>3, <1>4, <1>6
<1> QED
  BY <1>5, <1>6

\* The writer takes the oldest snapshot; its upsert takes effect, or may not.
LEMMA WriteFacts ==
    ASSUME DurabilityTypeOK, Write
    PROVE  /\ wq[1] \in Snapshots /\ wq' \in Seq(Snapshots) /\ Len(wq') <= SinkQueueSize
           /\ Len(wq) \in Nat \ {0} /\ Len(wq') = Len(wq) - 1
           /\ \A n \in 1..Len(wq') : wq'[n] = wq[n + 1]
           /\ db' \in [Ids -> JobRecord \cup {NoJob}]
           /\ \A i \in Ids : i # wq[1].job => db'[i] = db[i]
           /\ \/ db'[wq[1].job] = wq[1].row
              \/ db'[wq[1].job] = db[wq[1].job] /\ wq[1].job \in missed'
           /\ missed \subseteq missed' /\ missed' \subseteq missed \cup {wq[1].job}
<1>1. wq \in Seq(Snapshots) /\ wq # <<>> /\ wq' = Tail(wq) /\ Len(wq) <= SinkQueueSize
  BY DEF Write, DurabilityTypeOK
<1>2. /\ Head(wq) = wq[1] /\ wq' \in Seq(Snapshots) /\ Len(wq') = Len(wq) - 1
      /\ \A n \in 1..Len(wq') : wq'[n] = wq[n + 1]
      /\ Len(wq) \in Nat \ {0}
  BY <1>1, HeadTailProperties, LenProperties, EmptySeq
<1>3. wq[1] \in Snapshots
  BY <1>1, <1>2, ElementOfSeq
<1>4. Len(wq') <= SinkQueueSize
  BY <1>1, <1>2, DurabilityAssumption
<1>5. /\ wq[1].job \in Ids /\ wq[1].row \in JobRecord
      /\ \/ db' = [db EXCEPT ![wq[1].job] = wq[1].row] /\ missed' = missed
         \/ /\ db' \in {db, [db EXCEPT ![wq[1].job] = wq[1].row]}
            /\ missed' = missed \cup {wq[1].job}
  BY <1>2, <1>3 DEF Write, Snapshots
<1>6. db \in [Ids -> JobRecord \cup {NoJob}]
  BY DEF DurabilityTypeOK
<1> QED
  BY <1>2, <1>3, <1>4, <1>5, <1>6

\* Steps of the living process keep the types and the capacity of the
\* write-behind queue.
LEMMA DurabilityTypeStep ==
    ASSUME CoreInv, DurabilityTypeOK, DStep PROVE DurabilityTypeOK'
<1>1. CASE Quiet
  BY <1>1 DEF Quiet, TellsNothing, sinkVars, procVars, DurabilityTypeOK
<1>2. ASSUME NEW g \in Goroutines, NEW j \in Ids, Telling(g, j) PROVE DurabilityTypeOK'
  <2>1. note' \in [Goroutines -> Note \cup {NoNote}]
    BY <1>2 DEF Telling, Takes, DurabilityTypeOK, Note
  <2> QED
    BY <1>2, <2>1 DEF Telling, procVars, DurabilityTypeOK
<1>3. ASSUME NEW c \in Clients, NEW j \in Ids, DeleteTellsNothing(c, j)
      PROVE  DurabilityTypeOK'
  <2>1. jobs[j] \in JobRecord
    BY <1>3 DEF DeleteTellsNothing, DeleteJob, Delete, Present, CoreInv, StoreInv, StoreTypeOK
  <2>2. \A g \in Goroutines : ~Told(g) => note[g] \in Note
    BY DEF Told, DurabilityTypeOK
  <2>3. note' \in [Goroutines -> Note \cup {NoNote}]
    BY <1>3, <2>1, <2>2 DEF DeleteTellsNothing, Told, DurabilityTypeOK, Note
  <2> QED
    BY <1>3, <2>3 DEF DeleteTellsNothing, procVars, DurabilityTypeOK
<1>4. ASSUME NEW g \in Goroutines, Notify(g) PROVE DurabilityTypeOK'
  <2>1. note[g].job \in Ids
    BY <1>4, NotifyFacts DEF Note
  <2>2. note' \in [Goroutines -> Note \cup {NoNote}] /\ UNCHANGED <<db, procVars, deleted>>
    BY <1>4 DEF Notify, DurabilityTypeOK
  <2> QED
    BY <1>4, <2>1, <2>2, NotifyFacts DEF procVars, DurabilityTypeOK
<1>5. CASE Write
  <2>1. wq[1].job \in Ids
    BY <1>5, WriteFacts DEF Snapshots
  <2> QED
    BY <1>5, <2>1, WriteFacts DEF Write, procVars, DurabilityTypeOK
<1>6. ASSUME NEW j \in Ids, BootEnqueue(j) \/ BootGivesUp(j) PROVE DurabilityTypeOK'
  BY <1>6 DEF BootEnqueue, BootGivesUp, sinkVars, DurabilityTypeOK
<1> QED
  BY <1>1, <1>2, <1>3, <1>4, <1>5, <1>6, StepKinds

\* A snapshot is the record of the job before or after the step that took it.
LEMMA SnapshotMoves ==
    ASSUME CoreInv, DurabilityTypeOK, DStep, NEW i \in Ids, NEW r \in JobRecord, Snapshot(i, r)'
    PROVE  \/ Snapshot(i, r)
           \/ Present(i) /\ jobs[i] = r
           \/ Present(i)' /\ jobs'[i] = r
<1>1. CASE Quiet \/ \E j \in Ids : BootEnqueue(j) \/ BootGivesUp(j)
  BY <1>1 DEF Quiet, TellsNothing, BootEnqueue, BootGivesUp, sinkVars, Snapshot, Told
<1>2. ASSUME NEW g \in Goroutines, NEW j \in Ids, Telling(g, j), ~Snapshot(i, r)
      PROVE  Present(i)' /\ jobs'[i] = r
  <2>1. UNCHANGED <<wq, db>>
    BY <1>2 DEF Telling
  <2>2. PICK h \in Goroutines : ~Told(h)' /\ note'[h].job = i /\ note'[h].row = r
    BY <1>2, <2>1 DEF Snapshot
  <2>3. h = g /\ j = i /\ jobs'[j] = r
    BY <1>2, <2>2 DEF Telling, Takes, Told, DurabilityTypeOK, Snapshot
  <2> QED
    BY <2>3, StoreAssumption DEF Present
<1>3. ASSUME NEW c \in Clients, NEW j \in Ids, DeleteTellsNothing(c, j), ~Snapshot(i, r)
      PROVE  Present(i) /\ jobs[i] = r
  <2>1. UNCHANGED <<wq, db>> /\ Present(j)
    BY <1>3 DEF DeleteTellsNothing, DeleteJob, Delete
  <2>2. PICK h \in Goroutines : ~Told(h)' /\ note'[h].job = i /\ note'[h].row = r
    BY <1>3, <2>1 DEF Snapshot
  <2>3. CASE ~Told(h) /\ note[h].live /\ note[h].job = j
    <3>1. note[h] \in Note /\ note'[h] = [note[h] EXCEPT !.row = jobs[j]]
      BY <1>3, <2>3 DEF DeleteTellsNothing, Told, DurabilityTypeOK
    <3> QED
      BY <2>1, <2>2, <2>3, <3>1 DEF Note
  <2>4. CASE ~(~Told(h) /\ note[h].live /\ note[h].job = j)
    <3>1. note'[h] = note[h]
      BY <1>3, <2>4 DEF DeleteTellsNothing
    <3> QED
      BY <1>3, <2>2, <3>1 DEF Snapshot, Told
  <2> QED
    BY <2>3, <2>4
<1>4. ASSUME NEW g \in Goroutines, Notify(g), ~Snapshot(i, r)
      PROVE  Present(i) /\ jobs[i] = r
  <2>1. UNCHANGED db /\ ~Told(g)
    BY <1>4 DEF Notify
  <2>2. \A h \in Goroutines : ~Told(h)' => ~Told(h) /\ note'[h] = note[h]
    BY <1>4, NotifyFacts DEF Told
  <2>3. PICK n \in 1..Len(wq') : wq'[n].job = i /\ wq'[n].row = r
    BY <1>4, <2>1, <2>2 DEF Snapshot
  <2>4. wq'[n] = Delivered(g)
    BY <1>4, <2>3, NotifyFacts DEF Snapshot
  <2> QED
    BY <1>4, <2>1, <2>3, <2>4 DEF Delivered, Snapshot
<1>5. CASE Write
  <2>1. UNCHANGED note
    BY <1>5 DEF Write
  <2>2. ASSUME db'[i] # NoJob, db'[i] = r PROVE Snapshot(i, r)
    <3>1. 1 \in 1..Len(wq)
      BY <1>5, WriteFacts
    <3>2. db'[i] = db[i] \/ (i = wq[1].job /\ db'[i] = wq[1].row)
      BY <1>5, WriteFacts
    <3> QED
      BY <2>2, <3>1, <3>2 DEF Snapshot
  <2>3. ASSUME NEW n \in 1..Len(wq'), wq'[n].job = i, wq'[n].row = r PROVE Snapshot(i, r)
    <3>1. n + 1 \in 1..Len(wq) /\ wq'[n] = wq[n + 1]
      BY <1>5, WriteFacts
    <3> QED
      BY <2>3, <3>1 DEF Snapshot
  <2> QED
    BY <2>1, <2>2, <2>3 DEF Snapshot, Told
<1> QED
  BY <1>1, <1>2, <1>3, <1>4, <1>5, StepKinds

-----------------------------------------------------------------------------
(* Artifacts and what the table says of them.                              *)

\* A deadline that is long past stays so until the job runs again.
LEMMA PurgeableStays ==
    ASSUME CoreInv, [Next]_svcVars, NEW i \in Ids, age[i] = "purgeable"
    PROVE  \/ age'[i] = "purgeable"
           \/ \E w \in Workers : Complete(w) /\ wjob[w] = i /\ Present(i)
<1> USE DEF CoreInv, CarrierInv, StoreInv, StoreTypeOK
<1>1. CASE UNCHANGED svcVars \/ Shutdown
  BY <1>1 DEF svcVars, storeVars, Shutdown
<1>2. ASSUME NEW c \in Clients, Handle(c) \/ Finish(c) PROVE UNCHANGED age
  BY <1>2 DEF Handle, Finish, PostHit, PostCreate, Create, PostCancelQueued, CancelQueued, Fail,
              PostCancelRunning, DeleteJob, Delete, Forget, Enqueue, EnqueueFull, RejectFull,
              Signal, Unlink, storeVars
<1>3. ASSUME NEW w \in Workers, Work(w) PROVE UNCHANGED age \/ Complete(w)
  BY <1>3 DEF Work, Take, Exit, Look, Begin, Start, BeginSave, Save, RunFails, SaveFails,
              RecordFailure, Fail, storeVars
<1>4. ASSUME NEW w \in Workers, Complete(w), age'[i] # age[i] PROVE wjob[w] = i /\ Present(i)
  BY <1>4 DEF Complete, Done
<1>5. ASSUME NEW j \in Ids, Tick(j) PROVE age'[i] = "purgeable"
  BY <1>5 DEF Tick, Elapse
<1> QED
  BY <1>1, <1>2, <1>3, <1>4, <1>5 DEF Next

\* What is gone or done is no more to be run, and stays so (store.go:140-197).
LEMMA SettledStays ==
    ASSUME CoreInv, ServiceTypeOK', [Next]_svcVars, NEW i \in Ids, keyOf[i] \in Keys, Settled(i)
    PROVE  /\ Settled(i)' /\ keyOf'[i] \in Keys
           /\ ~Present(i) => ~Present(i)'
<1>1. ~Carried(i)' /\ keyOf'[i] \in Keys
  BY CarriedGrows DEF Settled
<1>2. ~Present(i) => ~Present(i)'
  BY Fates DEF FateOf, Present
<1>3. HasStatus(i, "done") => ~Present(i)' \/ HasStatus(i, "done")'
  BY Fates DEF FateOf, HasStatus, Present
<1> QED
  BY <1>1, <1>2, <1>3 DEF Settled, HasStatus

\* What a snapshot says that is on its way stays true of the job.
LEMMA SoundKept ==
    ASSUME CoreInv, ServiceTypeOK', [Next]_svcVars, UnlinkAfterDelete, deleted \subseteq deleted',
           NEW i \in Ids, NEW r, SoundOf(i, r)
    PROVE  SoundOf(i, r)'
<1>1. Sound(r)' /\ keyOf'[i] \in Keys
  BY CarriedGrows DEF SoundOf, Sound
<1>2. ASSUME r.status = "done" PROVE Settled(i)' /\ (i \notin deleted' => Kept(i)')
  <2>1. /\ Settled(i)' /\ (~Present(i) => ~Present(i)')
        /\ ~Carried(i) /\ (i \notin deleted => Kept(i))
    BY <1>2, SettledStays DEF SoundOf, Settled
  <2>2. CASE i \in deleted
    BY <2>1, <2>2
  <2>3. CASE i \notin deleted /\ i \in artifacts
    <3>1. ~ \E c \in Clients : cpc[c] = "unlink" /\ cjob[c] = i
      BY <2>3 DEF UnlinkAfterDelete
    <3> QED
      BY <2>1, <2>3, <3>1, ArtifactsMove DEF Kept, CoreInv, CarrierInv
  <2>4. CASE i \notin deleted /\ i \notin artifacts
    BY <2>1, <2>4, PurgeableStays DEF Kept
  <2> QED
    BY <2>1, <2>2, <2>3, <2>4
<1> QED
  BY <1>1, <1>2 DEF SoundOf

\* An object is unlinked only once DELETE was carried out (jobs.go:79-93).
LEMMA UnlinkMoves ==
    ASSUME ServiceTypeOK, DStep, NEW c \in Clients, cpc'[c] = "unlink"
    PROVE  \/ cpc[c] = "unlink" /\ cjob'[c] = cjob[c]
           \/ cjob'[c] \in deleted'
<1> USE DEF ServiceTypeOK
<1>1. ASSUME NEW d \in Clients, ClientStep(d)
      PROVE  (cpc[c] = "unlink" /\ cjob'[c] = cjob[c]) \/ cjob'[c] \in deleted'
  <2>1. CASE Enqueue(d) \/ EnqueueFull(d) \/ Signal(d) \/ Unlink(d) \/ RejectFull(d)
    BY <2>1 DEF Enqueue, EnqueueFull, Signal, Unlink, RejectFull, ClientDone, ClientGoes
  <2>2. CASE \E k \in Keys : PostHit(d, k)
    BY <2>2 DEF PostHit
  <2>3. ASSUME NEW j \in Ids, PostCancelQueued(d, j) \/ CancelRefused(d, j)
        PROVE  UNCHANGED <<cpc, cjob>>
    BY <2>3 DEF PostCancelQueued, CancelRefused, clientVars, svcVars
  <2>4. ASSUME NEW j \in Ids, PostCancelRunning(d, j) \/ \E k \in Keys : CreateTells(d, j, k)
        PROVE  cpc[c] = "unlink" /\ cjob'[c] = cjob[c]
    BY <2>4 DEF PostCancelRunning, CreateTells, PostCreate, ClientGoes
  <2>5. ASSUME NEW j \in Ids, DeleteTellsNothing(d, j)
        PROVE  (cpc[c] = "unlink" /\ cjob'[c] = cjob[c]) \/ cjob'[c] \in deleted'
    BY <2>5 DEF DeleteTellsNothing, DeleteJob, ClientGoes
  <2> QED
    BY <1>1, <2>1, <2>2, <2>3, <2>4, <2>5 DEF ClientStep
<1>2. ASSUME NEW w \in Workers, WorkerStep(w) PROVE UNCHANGED <<cpc, cjob>>
  BY <1>2 DEF WorkerStep, WorkerActs, CompleteTells, Progress, Take, Exit, Look, BeginSave, Save,
              RunFails, SaveFails, Begin, RecordFailure, Complete, clientVars, svcVars
<1>3. CASE \/ \E g \in Goroutines : Notify(g)
           \/ Write \/ Shutdown \/ \E j \in Ids : BootEnqueue(j) \/ BootGivesUp(j)
  BY <1>3 DEF Notify, Write, Shutdown, BootEnqueue, BootGivesUp, clientVars, svcVars
<1> QED
  BY <1>1, <1>2, <1>3 DEF DStep

\* The same for the state after a step.
LEMMA RecordSoundNext ==
    /\ CoreInv' /\ RecordsSound' /\ RestoredDoneHasArtifact'
    => \A i \in Ids : Present(i)' => SoundOf(i, jobs[i])'
<1> DEFINE S == \A i \in Ids : Present(i) => SoundOf(i, jobs[i])
<1>1. CoreInv /\ RecordsSound /\ RestoredDoneHasArtifact => S
  BY RecordSound
<1> HIDE DEF S
<1>2. CoreInv' /\ RecordsSound' /\ RestoredDoneHasArtifact' => S'
  BY <1>1, PTL
<1> QED
  BY <1>2 DEF S

\* What was deleted is on the record as such.
LEMMA DeletedGrows == ASSUME CoreInv, DStep PROVE deleted \subseteq deleted'
  BY StepKinds DEF Quiet, TellsNothing, Telling, DeleteTellsNothing, Notify, Write,
                   BootEnqueue, BootGivesUp

\* A service step of the living process keeps artifacts, records and
\* snapshots in agreement.
LEMMA KeepStep ==
    ASSUME CoreInv, StoreInv', ServiceTypeOK', CoreInv', DurabilityTypeOK, KeepInv,
           DStep, [Next]_svcVars
    PROVE  KeepInv'
<1> USE DEF KeepInv
<1>1. deleted \subseteq deleted'
  BY DeletedGrows
<1>2. RecordsSound'
  BY RecordStep
<1>3. UnlinkAfterDelete'
  BY <1>1, UnlinkMoves DEF UnlinkAfterDelete, CoreInv, CarrierInv
<1>4. RestoredDoneHasArtifact'
  <2> SUFFICES ASSUME NEW i \in Ids, i \notin deleted', HasStatus(i, "done")'
               PROVE  i \in artifacts'
    BY DEF RestoredDoneHasArtifact
  <2>1. i \notin deleted
    BY <1>1
  <2> QED
    BY <2>1, DoneKept DEF RestoredDoneHasArtifact
<1>5. SnapshotsSound'
  <2> SUFFICES ASSUME NEW i \in Ids, NEW r \in JobRecord, Snapshot(i, r)'
               PROVE  SoundOf(i, r)'
    BY DEF SnapshotsSound
  <2>1. CASE Snapshot(i, r) \/ (Present(i) /\ jobs[i] = r)
    <3>1. SoundOf(i, r)
      BY <2>1, RecordSound DEF SnapshotsSound
    <3> QED
      BY <1>1, <3>1, SoundKept
  <2>2. CASE Present(i)' /\ jobs'[i] = r
    BY <1>2, <1>4, <2>2, RecordSoundNext
  <2> QED
    BY <2>1, <2>2, SnapshotMoves
<1> QED
  BY <1>2, <1>3, <1>4, <1>5

-----------------------------------------------------------------------------
(* Restored jobs.                                                          *)

\* Run() hands a restored job to the queue (main.go:65-69): it becomes the
\* queue's and nobody else's.
LEMMA BootCarrier ==
    ASSUME CoreInv, DurabilityTypeOK, BootInv, NEW j \in Ids, BootEnqueue(j)
    PROVE  /\ CarrierInv'
           /\ \A i : InQueue(i)' <=> InQueue(i) \/ i = j
           /\ \A i \in Ids : Carried(i)' <=> Carried(i) \/ i = j
           /\ ~Carried(j) /\ HasStatus(j, "queued")
<1> USE DEF CoreInv, CarrierInv
<1>1. j \in boot /\ ~Carried(j) /\ HasStatus(j, "queued") /\ keyOf[j] \in Keys
  BY DEF BootEnqueue, BootInv
<1>2. /\ queue \in Seq(Ids) /\ queue' = Append(queue, j) /\ Len(queue) < MaxQueueSize
      /\ UNCHANGED <<wpc, wjob, cpc, cjob, known, keyOf, cancelled, artifacts, stopping>>
  BY DEF BootEnqueue, ServiceTypeOK, clientVars, envVars, storeVars
<1>3. Distinct(queue) /\ j \notin Elems(queue)
  BY <1>1 DEF OneCarrier, Distinct, Carried, InQueue, Elems
<1>4. /\ queue' \in Seq(Ids) /\ Len(queue') = Len(queue) + 1 /\ Distinct(queue')
      /\ \A i : InQueue(i)' <=> InQueue(i) \/ i = j
  BY <1>2, <1>3, AppendElems DEF InQueue, Elems
<1>5. Len(queue') <= MaxQueueSize
  BY <1>2, <1>4, LenProperties, ServiceAssumption
<1>6. \A i \in Ids : Carried(i)' <=> Carried(i) \/ i = j
  BY <1>2, <1>4 DEF Carried, HeldBy
<1>7. OneCarrier'
  <2>1. /\ \A c \in Clients : cpc[c] \in Bringing => cjob[c] # j
        /\ \A w \in Workers : wpc[w] \in Busy => wjob[w] # j
    BY <1>1 DEF Carried, HeldBy
  <2> QED
    BY <1>2, <1>4, <2>1 DEF OneCarrier, HeldBy, Distinct
<1>8. ServiceTypeOK'
  <2>1. StoreTypeOK'
    BY DEF BootEnqueue, storeVars, StoreTypeOK, ServiceTypeOK
  <2> QED
    BY <1>2, <1>4, <1>5, <2>1 DEF ServiceTypeOK
<1> QED
  BY <1>1, <1>2, <1>4, <1>6, <1>7, <1>8 DEF CarriedIssued

\* The rest of the invariant across that step.
LEMMA BootEnqueueStep ==
    ASSUME CoreInv, DurabilityTypeOK, BootInv, KeepInv, NEW j \in Ids, BootEnqueue(j)
    PROVE  /\ CoreInv' /\ KeepInv'
           /\ \A i \in Ids : Stranded(i)' => Stranded(i) /\ i # j
<1> USE DEF CoreInv, CarrierInv
<1>1. /\ CarrierInv'
      /\ \A i : InQueue(i)' <=> InQueue(i) \/ i = j
      /\ \A i \in Ids : Carried(i)' <=> Carried(i) \/ i = j
      /\ ~Carried(j) /\ HasStatus(j, "queued")
  BY BootCarrier
<1>2. UNCHANGED <<storeVars, jobs, cache, age, keyOf, restored, wpc, wjob, cpc, cjob, artifacts,
                  stopping, note, wq, db, missed, deleted>>
  BY DEF BootEnqueue, storeVars, clientVars, envVars, sinkVars
<1>3. StoreInv'
  BY <1>2, StoreInvStep
<1>4. \A i \in Ids : (Present(i)' <=> Present(i)) /\ \A s : HasStatus(i, s)' <=> HasStatus(i, s)
  BY <1>2 DEF Present, HasStatus
<1>5. /\ \A i \in Ids : Waiting(i)' <=> Waiting(i) \/ i = j
      /\ \A i \in Ids : RunningOn(i)' <=> RunningOn(i)
  BY <1>1, <1>2 DEF Waiting, RunningOn
<1>6. StatusInv'
  BY <1>1, <1>2, <1>4, <1>5, StatusByJob DEF StatusOf, HasStatus
<1>7. ArtifactInv'
  <2>1. StoredMeansDone'
    BY <1>2, <1>4 DEF ArtifactInv, StoredMeansDone
  <2>2. SavedHasArtifact'
    BY <1>2 DEF ArtifactInv, SavedHasArtifact
  <2>3. ASSUME NEW c \in Clients, cpc[c] = "unlink"
        PROVE  ~Present(cjob[c])' /\ ~Carried(cjob[c])' /\ keyOf'[cjob'[c]] \in Keys
    <3>1. ~Present(cjob[c]) /\ ~Carried(cjob[c]) /\ keyOf[cjob[c]] \in Keys /\ cjob[c] \in Ids
      BY <2>3 DEF ArtifactInv, UnlinkedIsGone, ServiceTypeOK
    <3>2. cjob[c] # j /\ cjob'[c] = cjob[c]
      BY <1>1, <1>2, <3>1 DEF HasStatus
    <3>3. PICK i \in Ids : i = cjob[c]
      BY <3>1
    <3>4. ~Present(i)' /\ ~Carried(i)' /\ keyOf'[i] \in Keys
      BY <1>1, <1>2, <1>4, <3>1, <3>2, <3>3
    <3> QED
      BY <3>2, <3>3, <3>4 DEF Present, Carried, InQueue, HeldBy
  <2> QED
    BY <1>2, <2>1, <2>2, <2>3 DEF ArtifactInv, UnlinkedIsGone
<1>8. RecordsSound'
  BY <1>1, <1>2, <1>4 DEF KeepInv, RecordsSound, Sound, HasStatus
<1>9. SnapshotsSound'
  <2> SUFFICES ASSUME NEW i \in Ids, NEW r \in JobRecord, Snapshot(i, r)'
               PROVE  SoundOf(i, r)'
    BY DEF SnapshotsSound
  <2>1. SoundOf(i, r)
    BY <1>2 DEF Snapshot, Told, KeepInv, SnapshotsSound
  <2>2. Settled(i) => Settled(i)'
    BY <1>1, <1>4 DEF Settled, HasStatus
  <2> QED
    BY <1>2, <1>4, <2>1, <2>2 DEF SoundOf, Sound, Kept
<1>10. UnlinkAfterDelete' /\ RestoredDoneHasArtifact'
  BY <1>2, <1>4 DEF KeepInv, UnlinkAfterDelete, RestoredDoneHasArtifact
<1>11. \A i \in Ids : Stranded(i)' => Stranded(i) /\ i # j
  BY <1>2, <1>4, <1>5 DEF Stranded
<1> QED
  BY <1>1, <1>3, <1>6, <1>7, <1>8, <1>9, <1>10, <1>11 DEF KeepInv

\* What a step of the living process is to the service.
LEMMA ServicePart ==
    ASSUME CoreInv, DStep PROVE [Next]_svcVars \/ \E j \in Ids : BootEnqueue(j)
BY StepKinds DEF Quiet, Telling, DeleteTellsNothing, Next, Handle, Notify, Write, BootGivesUp

\* A step of the living process leaves alone the jobs that run() has yet to
\* enqueue: handlers wait for it, workers have other jobs.
LEMMA BootKept ==
    ASSUME CoreInv, ServiceTypeOK', DurabilityTypeOK, BootInv, DStep, [Next]_svcVars
    PROVE  BootInv' /\ (boot' = boot \/ stopping)
<1>1. boot' \subseteq boot /\ (boot' = boot \/ stopping)
  <2>1. ASSUME NEW j \in Ids, BootEnqueue(j) PROVE FALSE
    <3>1. j \in boot /\ queue' = Append(queue, j) /\ queue \in Seq(Ids) /\ ~Carried(j)
      BY <2>1 DEF BootEnqueue, BootInv, CoreInv, CarrierInv, ServiceTypeOK
    <3>2. /\ Len(queue') = Len(queue) + 1 /\ queue'[Len(queue) + 1] = j
          /\ Len(queue) \in Nat
      BY <3>1, AppendProperties, LenProperties
    <3>3. Carried(j)' /\ keyOf[j] \in Keys
      BY <2>1, <3>1, <3>2 DEF Carried, InQueue, BootInv
    <3> QED
      BY <3>1, <3>3, CarriedGrows
  <2> QED
    BY <2>1, StepKinds DEF Quiet, TellsNothing, Telling, DeleteTellsNothing, Notify, Write,
                           BootGivesUp, procVars
<1> SUFFICES ASSUME NEW i \in boot, i \in Ids
             PROVE  HasStatus(i, "queued")' /\ ~Carried(i)' /\ keyOf'[i] \in Keys
  BY <1>1 DEF BootInv, DurabilityTypeOK
<1>2. HasStatus(i, "queued") /\ ~Carried(i) /\ keyOf[i] \in Keys
  BY DEF BootInv
<1>3. ~Carried(i)' /\ keyOf'[i] \in Keys
  BY <1>2, CarriedGrows
<1>4. jobs'[i] = jobs[i]
  <2>1. ASSUME NEW c \in Clients, ClientStep(c) PROVE FALSE
    BY <2>1 DEF ClientStep
  <2>2. ASSUME NEW w \in Workers, WorkerStep(w) PROVE jobs'[i] = jobs[i]
    <3>1. Work(w) \/ UNCHANGED svcVars
      BY <2>2 DEF WorkerStep, WorkerActs, CompleteTells, Progress, Work
    <3> QED
      BY <1>2, <3>1, UncarriedKept DEF svcVars, storeVars
  <2>3. CASE \/ \E g \in Goroutines : Notify(g)
             \/ Write \/ Shutdown \/ \E j \in Ids : BootEnqueue(j) \/ BootGivesUp(j)
    BY <2>3 DEF Notify, Write, Shutdown, BootEnqueue, BootGivesUp, svcVars, storeVars
  <2> QED
    BY <2>1, <2>2, <2>3 DEF DStep
<1> QED
  BY <1>2, <1>3, <1>4 DEF HasStatus, Present

\* Every step of the living process keeps all but CatchingUp.
LEMMA LifeStep ==
    ASSUME DInv, DStep
    PROVE  /\ CoreInv' /\ DurabilityTypeOK'
           /\ BootInv' /\ StrandedAtBoot' /\ KeepInv'
<1> USE DEF DInv
<1>1. DurabilityTypeOK'
  BY DurabilityTypeStep
<1>2. CASE [Next]_svcVars
  <2>1. CoreInv' /\ StoreInv' /\ ServiceTypeOK'
    BY <1>2, CoreInvStep
  <2>2. KeepInv'
    BY <1>2, <2>1, KeepStep
  <2>3. BootInv' /\ (boot' = boot \/ stopping)
    BY <1>2, <2>1, BootKept
  <2>4. \A i \in Ids : Stranded(i)' => Stranded(i)
    BY <1>2, <2>1, StatusStep DEF StatusGoes
  <2> QED
    BY <1>1, <2>1, <2>2, <2>3, <2>4 DEF StrandedAtBoot, Stranded
<1>3. ASSUME NEW j \in Ids, BootEnqueue(j)
      PROVE  CoreInv' /\ KeepInv' /\ BootInv' /\ StrandedAtBoot'
  <2>1. /\ CoreInv' /\ KeepInv'
        /\ \A i \in Ids : Stranded(i)' => Stranded(i) /\ i # j
        /\ \A i \in Ids : Carried(i)' <=> Carried(i) \/ i = j
    BY <1>3, BootEnqueueStep, BootCarrier
  <2>2. boot' = boot \ {j} /\ boot \subseteq Ids /\ UNCHANGED <<jobs, keyOf>>
    BY <1>3 DEF BootEnqueue, storeVars, DurabilityTypeOK
  <2>3. BootInv'
    BY <2>1, <2>2 DEF BootInv, HasStatus, Present
  <2>4. StrandedAtBoot'
    BY <2>1, <2>2 DEF StrandedAtBoot
  <2> QED
    BY <2>1, <2>3, <2>4
<1> QED
  BY <1>1, <1>2, <1>3, ServicePart

-----------------------------------------------------------------------------
(* The table catches up.                                                   *)

\* A step that concerns other jobs.
LEMMA CaughtKept ==
    ASSUME NEW i \in Ids, Caught(i), jobs'[i] = jobs[i], db'[i] = db[i],
           UNCHANGED <<restored, wq>>
    PROVE  Caught(i)'
  BY DEF Caught, LastAgrees, RowAgrees, RunnableRows

\* SaveJob puts the snapshot behind the others of its job.
LEMMA NotifyCatches ==
    ASSUME CoreInv, DurabilityTypeOK, NEW g \in Goroutines, Notify(g),
           NEW i \in Ids, i \notin missed', Present(i), ~NotesOn(i) => Caught(i)
    PROVE  ~NotesOn(i)' => Caught(i)'
<1> SUFFICES ASSUME ~NotesOn(i)' PROVE Caught(i)'
  OBVIOUS
<1>1. UNCHANGED <<jobs, restored, db>>
  BY DEF Notify, svcVars, storeVars
<1>2. \A h \in Goroutines : h # g => (Told(h)' <=> Told(h)) /\ note'[h] = note[h]
  BY NotifyFacts DEF Told
<1>3. CASE note[g].job = i
  <2>1. /\ Len(wq) \in Nat /\ Len(wq') = Len(wq) + 1
        /\ wq'[Len(wq) + 1] = Delivered(g) /\ Delivered(g).row = jobs[i]
    BY <1>3, NotifyFacts
  <2>2. PICK k \in Nat : k = Len(wq')
    BY <2>1
  <2>3. k \in 1..Len(wq') /\ wq'[k].job = i /\ wq'[k].row.status = jobs'[i].status
    BY <1>1, <1>3, <2>1, <2>2 DEF Delivered
  <2>4. LastAgrees(i, k)'
    BY <2>2, <2>3 DEF LastAgrees
  <2> QED
    BY <2>3, <2>4 DEF Caught
<1>4. CASE note[g].job # i
  <2>1. ~NotesOn(i)
    BY <1>2, <1>4 DEF NotesOn
  <2>2. Caught(i)
    BY <2>1
  <2>3. CASE UNCHANGED wq
    BY <1>1, <2>2, <2>3, CaughtKept
  <2>4. CASE /\ Len(wq) \in Nat /\ Len(wq') = Len(wq) + 1
             /\ \A n \in 1..Len(wq) : wq'[n] = wq[n]
             /\ wq'[Len(wq) + 1].job # i
    <3>1. ASSUME NEW n \in 1..Len(wq), LastAgrees(i, n) PROVE LastAgrees(i, n)' /\ n \in 1..Len(wq')
      BY <1>1, <2>4, <3>1 DEF LastAgrees
    <3>2. ASSUME \A n \in 1..Len(wq) : wq[n].job # i PROVE \A n \in 1..Len(wq') : wq'[n].job # i
      BY <2>4, <3>2
    <3>3. RowAgrees(i) => RowAgrees(i)'
      BY <1>1 DEF RowAgrees, RunnableRows
    <3> QED
      BY <2>2, <3>1, <3>2, <3>3 DEF Caught
  <2>5. Delivered(g).job # i
    BY <1>4 DEF Delivered
  <2> QED
    BY <2>3, <2>4, <2>5, NotifyFacts
<1> QED
  BY <1>3, <1>4

\* The writer moves the oldest snapshot from the queue to the table.
LEMMA WriteCatches ==
    ASSUME DurabilityTypeOK, Write, NEW i \in Ids, i \notin missed', Caught(i)
    PROVE  Caught(i)'
<1>1. UNCHANGED <<jobs, restored>>
  BY DEF Write, svcVars, storeVars
<1>2. /\ Len(wq) \in Nat \ {0} /\ Len(wq') = Len(wq) - 1
      /\ \A n \in 1..Len(wq') : wq'[n] = wq[n + 1]
      /\ wq[1] \in Snapshots
  BY WriteFacts
<1>3. ASSUME NEW n \in 1..Len(wq), LastAgrees(i, n), n # 1 PROVE Caught(i)'
  <2>1. n - 1 \in 1..Len(wq') /\ wq'[n - 1] = wq[n]
    BY <1>2, <1>3
  <2>2. \A m \in (n - 1) + 1..Len(wq') : m \in 1..Len(wq') /\ m + 1 \in n + 1..Len(wq)
    BY <1>2, <1>3
  <2>3. \A m \in (n - 1) + 1..Len(wq') : wq'[m].job # i
    BY <1>2, <1>3, <2>2 DEF LastAgrees
  <2> QED
    BY <1>1, <1>3, <2>1, <2>3 DEF LastAgrees, Caught
<1>4. CASE LastAgrees(i, 1)
  <2>1. \A m \in 1..Len(wq') : m + 1 \in 1 + 1..Len(wq)
    BY <1>2
  <2>2. \A m \in 1..Len(wq') : wq'[m].job # i
    BY <1>2, <1>4, <2>1 DEF LastAgrees
  <2>3. wq[1].job = i /\ wq[1].row \in JobRecord /\ wq[1].row.status = jobs[i].status
    BY <1>2, <1>4 DEF LastAgrees, Snapshots
  <2>4. db'[i] = wq[1].row
    BY <2>3, WriteFacts
  <2> QED
    BY <1>1, <2>2, <2>3, <2>4, StoreAssumption DEF RowAgrees, Caught
<1>5. CASE (\A n \in 1..Len(wq) : wq[n].job # i) /\ RowAgrees(i)
  <2>1. \A m \in 1..Len(wq') : m + 1 \in 1..Len(wq)
    BY <1>2
  <2>2. \A m \in 1..Len(wq') : wq'[m].job # i
    BY <1>2, <1>5, <2>1
  <2>3. db'[i] = db[i]
    BY <1>2, <1>5, WriteFacts
  <2>4. RowAgrees(i)'
    BY <1>1, <1>5, <2>3 DEF RowAgrees, RunnableRows
  <2> QED
    BY <2>2, <2>4 DEF Caught
<1> QED
  BY <1>3, <1>4, <1>5 DEF Caught

\* Every step of the living process keeps the table on its way.
LEMMA CatchingUpStep == ASSUME DInv, DStep PROVE CatchingUp'
<1> USE DEF DInv
<1> SUFFICES ASSUME NEW i \in Ids, i \notin missed', Present(i)', ~NotesOn(i)'
             PROVE  Caught(i)'
  BY DEF CatchingUp
<1>0. i \notin missed => (Present(i) /\ ~NotesOn(i) => Caught(i))
  BY DEF CatchingUp
<1>1. CASE Quiet \/ \E j \in Ids : BootEnqueue(j) \/ BootGivesUp(j)
  <2>1. UNCHANGED <<jobs, restored, note, wq, db, missed>>
    BY <1>1 DEF Quiet, TellsNothing, BootEnqueue, BootGivesUp, svcVars, storeVars, sinkVars
  <2>2. Present(i) /\ ~NotesOn(i)
    BY <2>1 DEF Present, NotesOn, Told
  <2> QED
    BY <1>0, <2>1, <2>2, CaughtKept
<1>2. ASSUME NEW g \in Goroutines, NEW j \in Ids, Telling(g, j) PROVE Caught(i)'
  <2>1. i # j
    <3>1. CASE ~Present(j)'
      BY <3>1
    <3>2. CASE /\ jobs'[j] \in JobRecord
               /\ \E l \in BOOLEAN :
                    note' = [note EXCEPT ![g] = [job |-> j, row |-> jobs'[j], live |-> l]]
      <4>1. note'[g] \in [job: Ids, row: JobRecord, live: BOOLEAN] /\ note'[g].job = j
        BY <3>2 DEF DurabilityTypeOK
      <4>2. NotesOn(j)'
        BY <4>1, DurabilityAssumption DEF NotesOn, Told
      <4> QED
        BY <4>2
    <3> QED
      BY <1>2, <3>1, <3>2 DEF Telling, Takes
  <2>2. jobs'[i] = jobs[i] /\ UNCHANGED <<restored, wq, db, missed>>
    BY <1>2, <2>1 DEF Telling
  <2>3. ~NotesOn(i)
    BY <1>2, <2>1 DEF Telling, Takes, NotesOn, Told, DurabilityTypeOK
  <2>4. Present(i)
    BY <2>2 DEF Present
  <2> QED
    BY <1>0, <2>2, <2>3, <2>4, CaughtKept
<1>3. ASSUME NEW c \in Clients, NEW j \in Ids, DeleteTellsNothing(c, j) PROVE Caught(i)'
  <2>1. i # j
    BY <1>3 DEF DeleteTellsNothing, DeleteJob, Delete, Forget, Present, CoreInv, StoreInv, StoreTypeOK
  <2>2. jobs'[i] = jobs[i] /\ UNCHANGED <<restored, wq, db, missed>>
    BY <1>3, <2>1 DEF DeleteTellsNothing, DeleteJob, Delete, Forget
  <2>3. ~NotesOn(i)
    <3> SUFFICES ASSUME NEW g \in Goroutines, ~Told(g), note[g].job = i PROVE FALSE
      BY DEF NotesOn
    <3>1. note'[g] = note[g]
      BY <1>3, <2>1 DEF DeleteTellsNothing
    <3> QED
      BY <3>1 DEF NotesOn, Told
  <2>4. Present(i)
    BY <2>2 DEF Present
  <2> QED
    BY <1>0, <2>2, <2>3, <2>4, CaughtKept
<1>4. ASSUME NEW g \in Goroutines, Notify(g) PROVE Caught(i)'
  <2>1. Present(i) /\ i \notin missed
    BY <1>4, NotifyFacts DEF Notify, svcVars, storeVars, Present
  <2> QED
    BY <1>0, <1>4, <2>1, NotifyCatches
<1>5. CASE Write
  <2>1. Present(i) /\ i \notin missed /\ ~NotesOn(i)
    BY <1>5, WriteFacts DEF Write, svcVars, storeVars, Present, NotesOn, Told
  <2> QED
    BY <1>0, <1>5, <2>1, WriteCatches
<1> QED
  BY <1>1, <1>2, <1>3, <1>4, <1>5, StepKinds

-----------------------------------------------------------------------------
(* The restart.                                                            *)

\* What is in the table is a snapshot, so what is said of those holds of it.
LEMMA RowSound ==
    ASSUME DurabilityTypeOK, KeepInv, NEW i \in Ids, db[i] # NoJob
    PROVE  db[i] \in JobRecord /\ SoundOf(i, db[i])
<1>1. db[i] \in JobRecord
  BY DEF DurabilityTypeOK
<1>2. PICK r \in JobRecord : r = db[i]
  BY <1>1
<1>3. Snapshot(i, r)
  BY <1>2 DEF Snapshot
<1>4. SoundOf(i, r)
  BY <1>3 DEF KeepInv, SnapshotsSound
<1> QED
  BY <1>2, <1>4 DEF SoundOf

\* The rows that NewStore, Restore and RestorePending read are those that
\* JobStore's Restart allows for.
LEMMA RestartIsRestart ==
    ASSUME CoreInv, DurabilityTypeOK, KeepInv, ProcessRestart PROVE Restart
<1> DEFINE spoilt == {i \in DoneRows : db[i].errorCode = "cancelled"}
<1>1. \A i \in DoneRows \cup RunnableRows :
        i \in Ids /\ db[i] \in JobRecord /\ Sound(db[i]) /\ keyOf[i] \in Keys
  BY RowSound DEF DoneRows, RunnableRows, SoundOf
<1>2. DoneRows \in SUBSET Issued /\ RunnableRows \in SUBSET Issued
  BY <1>1, StoreAssumption DEF Issued
<1>3. DoneRows \cap RunnableRows = {} /\ \A i \in DoneRows : age[i] = "fresh"
  BY DEF DoneRows, RunnableRows
<1>4. \A i \in DoneRows : db[i] = DoneRow(i, spoilt)
  <2> SUFFICES ASSUME NEW i \in DoneRows PROVE db[i] = DoneRow(i, spoilt)
    OBVIOUS
  <2>1. /\ db[i] \in JobRecord /\ db[i].status = "done" /\ db[i].storage = Backend
        /\ db[i].errorCode # "error"
    BY <1>1 DEF DoneRows, Sound
  <2>2. db[i].errorCode = IF i \in spoilt THEN "cancelled" ELSE "none"
    BY <2>1 DEF JobRecord, ErrorCodes
  <2> QED
    BY <2>1, <2>2 DEF DoneRow, JobRecord
<1>5. Reload([i \in DoneRows |-> DoneRow(i, spoilt)], DoneRows, RunnableRows)
  BY <1>4 DEF ProcessRestart, Reload
<1> HIDE DEF spoilt
<1>6. spoilt \in SUBSET DoneRows
  BY DEF spoilt
<1> QED
  BY <1>2, <1>3, <1>5, <1>6 DEF Restart

\* A restart, after a kill at any point, re-establishes the invariant.
LEMMA RestartStep == ASSUME DInv, ProcessRestart PROVE DInv'
<1> USE DEF DInv
<1>1. StoreInv' /\ StoreTypeOK'
  BY RestartIsRestart, RestartInv DEF CoreInv, StoreInv
<1>2. /\ \A i \in Ids : jobs'[i] = IF i \in DoneRows THEN db[i]
                                 ELSE IF i \in RunnableRows THEN QueuedRecord ELSE NoJob
      /\ restored' = DoneRows \cup RunnableRows
      /\ UNCHANGED <<age, keyOf, artifacts, known, db, deleted>>
  BY DEF ProcessRestart, Reload
<1>3. /\ queue' = <<>> /\ wq' = <<>> /\ Len(queue') = 0 /\ Len(wq') = 0
      /\ \A w \in Workers : wpc'[w] = "idle"
      /\ \A c \in Clients : cpc'[c] = "idle"
      /\ \A g \in Goroutines : note'[g] = NoNote
      /\ boot' = RunnableRows /\ stopping' = FALSE /\ cancelled' = {}
  BY EmptySeq DEF ProcessRestart
<1>4. /\ RunnableRows \subseteq Ids /\ DoneRows \subseteq Ids
      /\ RunnableRows \cap DoneRows = {}
      /\ QueuedRecord \in JobRecord
      /\ \A i \in DoneRows \cup RunnableRows : db[i] \in JobRecord /\ SoundOf(i, db[i])
      /\ \A i \in DoneRows : db[i].status = "done" /\ age[i] = "fresh"
  BY RowSound DEF RunnableRows, DoneRows, QueuedRecord, JobRecord, Statuses, ErrorCodes
<1>5. /\ \A i \in Ids : Present(i)' <=> i \in DoneRows \cup RunnableRows
      /\ \A i \in DoneRows : jobs'[i] = db[i]
      /\ \A i \in RunnableRows : jobs'[i] = QueuedRecord
  BY <1>2, <1>4, StoreAssumption DEF Present
<1>6. \A i \in Ids : ~Carried(i)' /\ ~Waiting(i)' /\ ~RunningOn(i)'
  BY <1>3 DEF Carried, Waiting, RunningOn, InQueue, HeldBy, Busy, Running, Bringing
<1>7. ServiceTypeOK'
  <2>1. wpc' \in [Workers -> WorkerPC] /\ wjob' \in [Workers -> Ids \cup {NoId}]
    BY DEF ProcessRestart, WorkerPC
  <2>2. cpc' \in [Clients -> ClientPC] /\ cjob' \in [Clients -> Ids \cup {NoId}]
    BY DEF ProcessRestart, ClientPC
  <2>3. queue' \in Seq(Ids) /\ Len(queue') <= MaxQueueSize
    BY <1>3, EmptySeq, ServiceAssumption
  <2> QED
    BY <1>1, <1>2, <1>3, <2>1, <2>2, <2>3 DEF ServiceTypeOK, Busy, CoreInv, CarrierInv
<1>8. CarrierInv'
  BY <1>3, <1>6, <1>7 DEF CarrierInv, OneCarrier, CarriedIssued, Busy, Bringing
<1>9. StatusInv'
  BY <1>4, <1>5, <1>6, StatusByJob DEF StatusOf, HasStatus, QueuedRecord
<1>10. ArtifactInv'
  BY <1>3, <1>4, <1>5 DEF ArtifactInv, StoredMeansDone, SavedHasArtifact, UnlinkedIsGone, QueuedRecord
<1>11. DurabilityTypeOK'
  <2>1. note' \in [Goroutines -> Note \cup {NoNote}]
    BY DEF ProcessRestart
  <2>2. wq' \in Seq(Snapshots) /\ Len(wq') <= SinkQueueSize
    BY <1>3, EmptySeq, DurabilityAssumption
  <2>3. restarts' \in 0..MaxRestarts
    BY DurabilityAssumption DEF ProcessRestart, DurabilityTypeOK
  <2>4. missed' \subseteq Ids
    <3>1. \A g \in Goroutines : ~Told(g) => note[g].job \in Ids
      BY DEF Told, DurabilityTypeOK, Note
    <3>2. \A n \in 1..Len(wq) : wq[n].job \in Ids
      <4> SUFFICES ASSUME NEW n \in 1..Len(wq) PROVE wq[n].job \in Ids
        OBVIOUS
      <4>1. wq[n] \in Snapshots
        BY ElementOfSeq DEF DurabilityTypeOK
      <4> QED
        BY <4>1 DEF Snapshots
    <3> QED
      BY <3>1, <3>2 DEF ProcessRestart, Undelivered, DurabilityTypeOK
  <2> QED
    BY <1>2, <1>3, <1>4, <2>1, <2>2, <2>3, <2>4 DEF DurabilityTypeOK
<1>12. BootInv' /\ StrandedAtBoot'
  <2>1. \A i \in RunnableRows : keyOf'[i] \in Keys /\ HasStatus(i, "queued")'
    BY <1>2, <1>4, <1>5 DEF SoundOf, HasStatus, QueuedRecord
  <2>2. \A i \in Ids : HasStatus(i, "queued")' => i \in RunnableRows
    BY <1>4, <1>5 DEF HasStatus
  <2> QED
    BY <1>3, <1>4, <1>6, <2>1, <2>2 DEF BootInv, StrandedAtBoot, Stranded
<1>13. KeepInv'
  <2>1. RecordsSound'
    BY <1>4, <1>5, <1>6 DEF RecordsSound, SoundOf, Sound, QueuedRecord
  <2>2. SnapshotsSound'
    <3> SUFFICES ASSUME NEW i \in Ids, NEW r \in JobRecord, Snapshot(i, r)' PROVE SoundOf(i, r)'
      BY DEF SnapshotsSound
    <3>1. db[i] = r /\ db[i] # NoJob
      BY <1>2, <1>3 DEF Snapshot, Told
    <3>2. SoundOf(i, r)
      BY <3>1, RowSound DEF SoundOf
    <3>3. ASSUME r.status = "done" PROVE Settled(i)' /\ (i \notin deleted' => Kept(i)')
      <4>1. i \notin RunnableRows
        BY <3>1, <3>3 DEF RunnableRows
      <4>2. Settled(i)'
        BY <1>4, <1>5, <1>6, <4>1 DEF Settled, HasStatus
      <4>3. i \notin deleted => i \in artifacts \/ age[i] = "purgeable"
        BY <3>2, <3>3 DEF SoundOf, Kept
      <4>4. age[i] = "purgeable" => ~Present(i)'
        BY <1>4, <1>5, <4>1
      <4> QED
        BY <1>2, <4>2, <4>3, <4>4 DEF Kept
    <3> QED
      BY <1>2, <3>2, <3>3 DEF SoundOf, Sound
  <2>3. UnlinkAfterDelete'
    BY <1>3 DEF UnlinkAfterDelete
  <2>4. RestoredDoneHasArtifact'
    <3> SUFFICES ASSUME NEW i \in Ids, i \notin deleted, HasStatus(i, "done")' PROVE i \in artifacts
      BY <1>2 DEF RestoredDoneHasArtifact
    <3>1. i \in DoneRows
      BY <1>5 DEF HasStatus, QueuedRecord
    <3> QED
      BY <1>4, <3>1 DEF SoundOf, Kept
  <2> QED
    BY <2>1, <2>2, <2>3, <2>4 DEF KeepInv
<1>14. CatchingUp'
  <2> SUFFICES ASSUME NEW i \in Ids, Present(i)' PROVE RowAgrees(i)'
    BY <1>3 DEF CatchingUp, Caught
  <2> QED
    BY <1>2, <1>4, <1>5, StoreAssumption DEF RowAgrees, RunnableRows, QueuedRecord
<1> QED
  BY <1>1, <1>8, <1>9, <1>10, <1>11, <1>12, <1>13, <1>14 DEF CoreInv

-----------------------------------------------------------------------------
(* The theorems.                                                           *)

\* The service with an empty table starts in the invariant.
LEMMA DInvInit == DInit => DInv
<1> SUFFICES ASSUME DInit PROVE DInv
  OBVIOUS
<1>1. CoreInv /\ QueuedJobHasCarrier /\ DoneHasArtifact
  BY ServiceInvInit DEF DInit, ServiceInv
<1>2. \A i \in Ids : ~Present(i)
  BY DEF DInit, Init, StoreInit, Present
<1>3. /\ wq \in Seq(Snapshots) /\ Len(wq) = 0
      /\ \A g \in Goroutines : Told(g)
      /\ \A c \in Clients : cpc[c] = "idle"
      /\ \A i \in Ids : db[i] = NoJob
  BY EmptySeq DEF DInit, Init, Told
<1>4. DurabilityTypeOK
  BY <1>3, DurabilityAssumption DEF DInit, DurabilityTypeOK
<1>5. BootInv /\ StrandedAtBoot
  BY <1>2 DEF DInit, BootInv, StrandedAtBoot, Stranded, HasStatus
<1>6. KeepInv
  BY <1>1, <1>2, <1>3 DEF KeepInv, RecordsSound, SnapshotsSound, Snapshot, UnlinkAfterDelete,
                          RestoredDoneHasArtifact, HasStatus
<1>7. CatchingUp
  BY <1>2 DEF CatchingUp
<1> QED
  BY <1>1, <1>4, <1>5, <1>6, <1>7 DEF DInv

\* A step that changes nothing keeps it.
LEMMA DInvStutter == DInv /\ UNCHANGED durVars => DInv'
<1> SUFFICES ASSUME DInv, UNCHANGED durVars PROVE DInv'
  OBVIOUS
<1>1. UNCHANGED svcVars
  BY DEF durVars
<1>2. CoreInv' /\ StoreInv' /\ ServiceTypeOK'
  BY <1>1, CoreInvStep DEF DInv
<1>3. /\ UNCHANGED <<jobs, cache, age, keyOf, restored, queue, wpc, wjob, cpc, cjob, known>>
      /\ UNCHANGED <<cancelled, artifacts, stopping, note, wq, db, boot, restarts, deleted, missed>>
  BY DEF durVars, svcVars, storeVars, runVars, clientVars, envVars, sinkVars, procVars
<1>4. DurabilityTypeOK'
  BY <1>3 DEF DInv, DurabilityTypeOK
<1>5. BootInv' /\ StrandedAtBoot'
  BY <1>3 DEF DInv, BootInv, StrandedAtBoot, Stranded, Waiting, Carried, InQueue, HeldBy,
              HasStatus, Present
<1>6. KeepInv'
  BY <1>3 DEF DInv, KeepInv, RecordsSound, SnapshotsSound, Snapshot, UnlinkAfterDelete,
              RestoredDoneHasArtifact, SoundOf, Sound, Settled, Kept, Carried, InQueue, HeldBy,
              HasStatus, Present, Told
<1>7. CatchingUp'
  BY <1>3 DEF DInv, CatchingUp, Caught, LastAgrees, RowAgrees, RunnableRows, NotesOn, Told, Present
<1> QED
  BY <1>2, <1>4, <1>5, <1>6, <1>7 DEF DInv

\* Every step of the living process keeps the invariant.
LEMMA LifeKeeps == DInv /\ DStep => DInv'
  BY LifeStep, CatchingUpStep DEF DInv

\* The inductive invariant, across any number of kills and restarts.
THEOREM DurabilityInvariant == DSpec => []DInv
<1>1. DInv /\ [DNext]_durVars => DInv'
  BY LifeKeeps, RestartStep, DInvStutter DEF DNext
<1> QED
  BY <1>1, DInvInit, PTL DEF DSpec

\* Run() and its workers have what the invariant says of carriers.
LEMMA CarriedOnceHolds == DInv => CarriedOnce
<1> SUFFICES ASSUME DInv PROVE CarriedOnce
  OBVIOUS
<1>1. OneCarrier
  BY DEF DInv, CoreInv, CarrierInv
<1>2. \A i \in boot : ~Carried(i)
  BY DEF DInv, BootInv
<1>3. \A i \in Ids : HasStatus(i, "queued") /\ ~stopping => Waiting(i) \/ i \in boot
  BY DEF DInv, StrandedAtBoot, Stranded
<1> QED
  BY <1>1, <1>2, <1>3 DEF CarriedOnce, Carried, Waiting

\* Every queued job, restored ones included, is with exactly one party that
\* brings it to a worker (main.go:65-69, lifecycle.go:25-70).
THEOREM RestoredJobsCarriedOnce == DSpec => []CarriedOnce
  BY CarriedOnceHolds, DurabilityInvariant, PTL

\* The row of a job whose snapshots were delivered says what the memory says
\* (store_events.go:48-58, job_writer.go:41-113).
THEOREM RowsCatchUpAlways == DSpec => []RowsCatchUp
<1>1. DInv => RowsCatchUp
  <2> SUFFICES ASSUME DInv, NEW i \in Ids, i \notin missed \cup Undelivered, Present(i)
               PROVE  RowAgrees(i)
    BY DEF RowsCatchUp, RowAgrees
  <2>1. ~NotesOn(i) /\ \A n \in 1..Len(wq) : wq[n].job # i
    BY DEF NotesOn, Undelivered
  <2>2. Caught(i)
    BY <2>1 DEF DInv, CatchingUp
  <2> QED
    BY <2>1, <2>2 DEF Caught, LastAgrees
<1> QED
  BY <1>1, DurabilityInvariant, PTL

\* A job that shows as done after any kill has its artifact
\* (runner.go:105-117, store.go:45-75).
THEOREM RestoredDoneHasArtifactAlways == DSpec => []RestoredDoneHasArtifact
<1>1. DInv => RestoredDoneHasArtifact
  BY DEF DInv, KeepInv
<1> QED
  BY <1>1, DurabilityInvariant, PTL

\* Each step of the service with a table, and a restart from it, is one that
\* JobStore allows.
LEMMA DurableStoreStep ==
    DInv /\ (DStep \/ ProcessRestart) => [StoreNext]_storeVars
<1>1. ASSUME NEW j, BootEnqueue(j) PROVE UNCHANGED storeVars
  BY <1>1 DEF BootEnqueue
<1> QED
  BY <1>1, ServicePart, StoreStep, RestartIsRestart DEF DInv, StoreNext

\* The service with persistence implements the store too: what is proved of
\* StoreSpec, restarts included, holds of it (store.go:45-108).
THEOREM DurableImplementsStore == DSpec => StoreSpec
<1>1. DInit => StoreInit
  BY DEF DInit, Init
<1>2. DInv /\ [DNext]_durVars => [StoreNext]_storeVars
  BY DurableStoreStep DEF DNext, durVars, svcVars
<1> QED
  BY <1>1, <1>2, DurabilityInvariant, PTL DEF DSpec, StoreSpec
=============================================================================
