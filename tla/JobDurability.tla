---------------------------- MODULE JobDurability ----------------------------
(***************************************************************************)
(* The service with PostgreSQL attached (internal/db, cmd/server/main.go): *)
(* what the job table says of the jobs in memory, across crashes and       *)
(* restarts.                                                               *)
(*                                                                         *)
(* Store.update and Create release the lock before they call notify, which *)
(* hands a snapshot to the write-behind queue.  A goroutine that changed a *)
(* job therefore still has a `note` to deliver, and others may run before  *)
(* it does.  The queue and its single writer are abstracted to a bounded   *)
(* sequence `wq`; JobWriter has their details.                             *)
(***************************************************************************)
EXTENDS JobService

CONSTANTS
    NoNote,         \* nothing to deliver
    SinkQueueSize,  \* capacity of the write-behind queue (2048)
    DbFaults,       \* whether a write may fail
    MaxRestarts     \* bound: crashes and restarts in a behaviour

ASSUME DurabilityAssumption ==
    /\ SinkQueueSize \in Nat \ {0}
    /\ DbFaults \in BOOLEAN
    /\ MaxRestarts \in Nat
    /\ Workers \cap Clients = {}
    /\ NoNote \notin [job: Ids, row: JobRecord, live: BOOLEAN]

VARIABLES
    note,      \* per goroutine: the snapshot it is about to pass to SaveJob
    wq,        \* snapshots in the write-behind queue
    db,        \* the table downloader_jobs: one row per job, or NoJob
    boot,      \* pending jobs that run() has yet to enqueue before it serves
    restarts,  \* restarts so far
    deleted,   \* history: jobs whose DELETE was carried out
    missed     \* history: jobs with a snapshot that never reached the table,
               \* or was not the latest any more when it was delivered

sinkVars == <<note, wq, db, missed>>
procVars == <<boot, restarts>>
durVars  == <<svcVars, sinkVars, procVars, deleted>>

Goroutines == Workers \cup Clients

\* `live`: Create passes the record itself, not a copy, so what is saved is
\* its state when notify copies it.
Note == [job: Ids, row: JobRecord, live: BOOLEAN]

Snapshots == [job: Ids, row: JobRecord]

DurabilityTypeOK ==
    /\ note \in [Goroutines -> Note \cup {NoNote}]
    /\ wq \in Seq(Snapshots) /\ Len(wq) <= SinkQueueSize
    /\ db \in [Ids -> JobRecord \cup {NoJob}]
    /\ boot \subseteq Ids
    /\ restarts \in 0..MaxRestarts
    /\ deleted \subseteq Ids /\ missed \subseteq Ids

DInit ==
    /\ Init
    /\ note = [g \in Goroutines |-> NoNote]
    /\ wq = <<>>
    /\ db = [i \in Ids |-> NoJob]
    /\ boot = {} /\ restarts = 0
    /\ deleted = {} /\ missed = {}

-----------------------------------------------------------------------------
(* Telling the sink.                                                       *)

Told(g) == note[g] = NoNote

\* Store.update ends in a snapshot to deliver if it found the record.
Tells(g, i) ==
    /\ note' = IF Present(i)
               THEN [note EXCEPT ![g] = [job |-> i, row |-> jobs'[i], live |-> FALSE]]
               ELSE note
    /\ UNCHANGED <<wq, db, missed, procVars, deleted>>

TellsNothing == UNCHANGED <<sinkVars, procVars, deleted>>

\* SaveJob: enqueue the snapshot, or count it as rejected.
Notify(g) ==
    /\ ~Told(g)
    /\ LET n == note[g]
           row == IF n.live /\ Present(n.job) THEN jobs[n.job] ELSE n.row
           fits == Len(wq) < SinkQueueSize
           latest == Present(n.job) => row = jobs[n.job]
       IN  /\ wq' = IF fits THEN Append(wq, [job |-> n.job, row |-> row]) ELSE wq
           /\ missed' = IF fits /\ latest THEN missed ELSE missed \cup {n.job}
    /\ note' = [note EXCEPT ![g] = NoNote]
    /\ UNCHANGED <<svcVars, db, procVars, deleted>>

\* One upsert.  A failed one may have taken effect; it is not repeated.
Write ==
    /\ wq # <<>>
    /\ LET s == Head(wq)
           upserted == [db EXCEPT ![s.job] = s.row]
       IN  \/ db' = upserted /\ UNCHANGED missed
           \/ /\ DbFaults
              /\ db' \in {db, upserted}
              /\ missed' = missed \cup {s.job}
    /\ wq' = Tail(wq)
    /\ UNCHANGED <<svcVars, note, procVars, deleted>>

-----------------------------------------------------------------------------
(* The handlers and the workers, each step followed by what it has to tell.*)

\* Cancel of a finished job is refused, and still notifies.
CancelRefused(c, i) ==
    /\ cpc[c] = "idle" /\ i \in known
    /\ HasStatus(i, "done") \/ HasStatus(i, "failed")
    /\ UNCHANGED svcVars
    /\ Tells(c, i)

CreateTells(c, i, k) ==
    /\ PostCreate(c, i, k)
    /\ note' = [note EXCEPT ![c] = [job |-> i, row |-> QueuedRecord, live |-> TRUE]]
    /\ UNCHANGED <<wq, db, missed, procVars, deleted>>

\* The table is not told.  A creator that has not delivered the record yet
\* now holds its last state.
DeleteTellsNothing(c, i) ==
    /\ DeleteJob(c, i)
    /\ deleted' = deleted \cup {i}
    /\ note' = [g \in Goroutines |->
                  IF ~Told(g) /\ note[g].live /\ note[g].job = i
                  THEN [note[g] EXCEPT !.row = jobs[i]] ELSE note[g]]
    /\ UNCHANGED <<wq, db, missed, procVars>>

\* HTTP is served once every restored job is enqueued.
ClientStep(c) ==
    /\ Told(c) /\ boot = {}
    /\ \/ /\ Enqueue(c) \/ EnqueueFull(c) \/ Signal(c) \/ Unlink(c)
             \/ \E k \in Keys : PostHit(c, k)
          /\ TellsNothing
       \/ RejectFull(c) /\ Tells(c, cjob[c])
       \/ \E i \in Ids :
            \/ PostCancelQueued(c, i) /\ Tells(c, i)
            \/ PostCancelRunning(c, i) /\ Tells(c, i)
            \/ CancelRefused(c, i)
            \/ DeleteTellsNothing(c, i)
            \/ \E k \in Keys : CreateTells(c, i, k)

\* Resolve and Progress during the run.
Progress(w) ==
    /\ wpc[w] = "run"
    /\ UNCHANGED svcVars
    /\ Tells(w, wjob[w])

\* Mutant: Done does not notify.
CompleteTells_Nothing(w) == Complete(w) /\ TellsNothing

CompleteTells(w) == Complete(w) /\ Tells(w, wjob[w])

\* What a worker does towards the end of a job.
WorkerActs(w) ==
    /\ Told(w)
    /\ \/ /\ Take(w) \/ Exit(w) \/ Look(w) \/ BeginSave(w) \/ Save(w)
             \/ RunFails(w) \/ SaveFails(w)
          /\ TellsNothing
       \/ (Begin(w) \/ RecordFailure(w)) /\ Tells(w, wjob[w])
       \/ CompleteTells(w)

WorkerStep(w) == WorkerActs(w) \/ (Told(w) /\ Progress(w))

-----------------------------------------------------------------------------
(* The process.                                                            *)

\* Mutants: a restored job is only kept in memory; it is not enqueued when the
\* queue is full.
BootEnqueue_Skips(i) ==
    /\ i \in boot
    /\ boot' = boot \ {i}
    /\ UNCHANGED <<svcVars, sinkVars, restarts, deleted>>

BootEnqueue_SkipsFull(i) ==
    /\ i \in boot
    /\ queue' = IF Len(queue) < MaxQueueSize THEN Append(queue, i) ELSE queue
    /\ boot' = boot \ {i}
    /\ UNCHANGED <<storeVars, wpc, wjob, clientVars, envVars, sinkVars, restarts, deleted>>

\* run() enqueues the restored jobs one by one, waiting for room.
BootEnqueue(i) ==
    /\ i \in boot
    /\ Len(queue) < MaxQueueSize
    /\ queue' = Append(queue, i)
    /\ boot' = boot \ {i}
    /\ UNCHANGED <<storeVars, wpc, wjob, clientVars, envVars, sinkVars, restarts, deleted>>

\* EnqueueBlocking returns the context's error and run() goes on.
BootGivesUp(i) ==
    /\ i \in boot /\ stopping
    /\ boot' = boot \ {i}
    /\ UNCHANGED <<svcVars, sinkVars, restarts, deleted>>

DoneRows == {i \in Ids : db[i] # NoJob /\ db[i].status = "done" /\ age[i] = "fresh"}

RunnableRows == {i \in Ids : db[i] # NoJob /\ db[i].status \in {"queued", "running"}}

Undelivered == {note[g].job : g \in {h \in Goroutines : ~Told(h)}}
               \cup {wq[n].job : n \in 1..Len(wq)}

\* The process ends, killed at any point or after a shutdown whose timeouts
\* may have cut off anything, and starts again from the table.
ProcessRestart ==
    /\ restarts < MaxRestarts
    /\ restarts' = restarts + 1
    /\ missed' = missed \cup Undelivered
    /\ Reload(db, DoneRows, RunnableRows)
    /\ boot' = RunnableRows
    /\ queue' = <<>> /\ wq' = <<>>
    /\ wpc' = [w \in Workers |-> "idle"] /\ wjob' = [w \in Workers |-> NoId]
    /\ cpc' = [c \in Clients |-> "idle"] /\ cjob' = [c \in Clients |-> NoId]
    /\ note' = [g \in Goroutines |-> NoNote]
    /\ cancelled' = {} /\ stopping' = FALSE
    /\ UNCHANGED <<known, artifacts, db, deleted>>

\* What happens while the process lives.  S3Purge, where the artifacts are in
\* S3 and have deadlines, adds the passing of time.
DStep ==
    \/ \E c \in Clients : ClientStep(c)
    \/ \E w \in Workers : WorkerStep(w)
    \/ \E g \in Goroutines : Notify(g)
    \/ Write
    \/ Shutdown /\ TellsNothing
    \/ \E i \in Ids : BootEnqueue(i) \/ BootGivesUp(i)

DNext == DStep \/ ProcessRestart

DSpec == DInit /\ [][DNext]_durVars

\* As in JobService.  A run reports progress only so often, hence strong
\* fairness for the other steps; a goroutine delivers its snapshot, the writer
\* writes, and run() enqueues what it restored.
DFairness ==
    /\ \A c \in Clients : WF_durVars(cpc[c] # "idle" /\ ClientStep(c))
    /\ \A w \in Workers : SF_durVars(WorkerActs(w))
    /\ \A g \in Goroutines : WF_durVars(Notify(g))
    /\ WF_durVars(Write)
    /\ \A i \in Ids : WF_durVars(BootEnqueue(i))

DFairSpec == DSpec /\ DFairness

-----------------------------------------------------------------------------
(* What survives.                                                          *)

\* Every queued job is with exactly one party that brings it to a worker,
\* restored ones included: run() has it until there is room in the queue, and
\* neither drops what does not fit nor enqueues it twice (main.go:65-69).
CarriedOnce ==
    /\ OneCarrier
    /\ \A i \in boot :
         /\ ~InQueue(i)
         /\ \A w \in Workers : ~HeldBy(w, i)
         /\ \A c \in Clients : ~(cpc[c] \in Bringing /\ cjob[c] = i)
    /\ \A i \in Ids : HasStatus(i, "queued") /\ ~stopping =>
         \/ InQueue(i) \/ i \in boot
         \/ \E c \in Clients : cpc[c] \in Bringing /\ cjob[c] = i
         \/ \E w \in Workers : wpc[w] \in {"got", "start"} /\ wjob[w] = i

\* A job that shows as done, restored from the table or not, has its
\* artifact, whenever the process was killed: the row follows Done, which
\* follows Save.
RestoredDoneHasArtifact ==
    \A i \in Ids \ deleted : HasStatus(i, "done") => i \in artifacts

\* Once its snapshots are delivered, the row of a job says what the memory
\* says; a restored job counts as queued whatever its row still says.
\* Excepted are jobs with a lost snapshot or one that was outdated when it
\* was delivered (see RowsNeverRegress).
RowsCatchUp ==
    \A i \in Ids \ (missed \cup Undelivered) :
        Present(i) =>
            /\ db[i] # NoJob
            /\ \/ db[i].status = jobs[i].status
               \/ i \in restored /\ jobs[i].status = "queued" /\ i \in RunnableRows

\* "Persistent asynchronous download jobs" (README.md:15), records are saved
\* in order (job_writer_test.go:15-43): the row of a finished job does not
\* go back to running, or the next start would run the job again.
RowsNeverRegress ==
    [][\A i \in Ids : db[i] # NoJob /\ db[i].status = "done" =>
           i \notin RunnableRows']_durVars

\* "Delete a non-running job and its artifact" (README.md:34): a deleted job
\* does not come back.
DeletedStaysDeleted ==
    [][\A i \in deleted : ~Present(i) => ~Present(i)']_durVars
=============================================================================
