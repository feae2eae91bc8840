----------------------------- MODULE JobService -----------------------------
(***************************************************************************)
(* The service around the job store: the HTTP handlers that create, cancel *)
(* and delete jobs (internal/api/jobs.go), the bounded run queue and the   *)
(* workers that drain it (internal/pipeline/lifecycle.go), and the         *)
(* artifacts a run leaves in the artifact store.                           *)
(*                                                                         *)
(* A handler or a worker is a goroutine.  Between two critical sections of *)
(* the store it holds no lock, so each of its steps is one action and any  *)
(* other goroutine may run in between; cpc and wpc say which step is next. *)
(* This is the deployment without DATABASE_URL: no sink is attached and a  *)
(* stopped process loses everything.  JobDurability adds the sink.         *)
(***************************************************************************)
EXTENDS JobStore, Sequences

CONSTANTS
    Workers,        \* goroutines started by Runner.Start (MAX_CONCURRENT_WORKERS)
    Clients,        \* HTTP requests that can be in progress at once
    MaxQueueSize,   \* capacity of Runner.queue (MAX_QUEUE_SIZE)
    StorageFaults   \* whether calls to the artifact store may fail

ASSUME ServiceAssumption ==
    /\ MaxQueueSize \in Nat \ {0}
    /\ StorageFaults \in BOOLEAN

VARIABLES
    queue,      \* Runner.queue
    wpc,        \* per worker: where it is in worker/process/run
    wjob,       \* per worker: the job it took from the queue
    cpc,        \* per handler: the step it takes next
    cjob,       \* per handler: the job it works on
    known,      \* jobs whose identifier some client has received
    cancelled,  \* jobs whose context's CancelFunc has been called
    artifacts,  \* jobs whose file or object exists in the artifact store
    stopping    \* the context passed to Runner.Start is cancelled

runVars    == <<queue, wpc, wjob>>
clientVars == <<cpc, cjob, known>>
envVars    == <<cancelled, artifacts, stopping>>
svcVars    == <<storeVars, runVars, clientVars, envVars>>

\* A worker in "got" is before store.Get, in "start" between Get and Start,
\* in "run" inside Runner.run, in "saving" past the context check of the
\* upload's retry, in "saved" before store.Done; "failed" and "aborted" have
\* an error to report and differ in what failureCode made of the context.
Busy       == {"got", "start", "run", "saving", "saved", "failed", "aborted"}
Running    == Busy \ {"got", "start"}
WorkerPC   == Busy \cup {"idle", "exited"}
ClientPC   == {"idle", "enqueue", "reject", "signal", "unlink"}

ServiceTypeOK ==
    /\ StoreTypeOK
    /\ queue \in Seq(Ids) /\ Len(queue) <= MaxQueueSize
    /\ wpc \in [Workers -> WorkerPC]
    /\ wjob \in [Workers -> Ids \cup {NoId}]
    /\ \A w \in Workers : wpc[w] \in Busy => wjob[w] \in Ids
    /\ cpc \in [Clients -> ClientPC]
    /\ cjob \in [Clients -> Ids \cup {NoId}]
    /\ \A c \in Clients : cpc[c] # "idle" => cjob[c] \in Ids
    /\ known \subseteq Ids
    /\ cancelled \subseteq Ids
    /\ artifacts \subseteq Ids
    /\ stopping \in BOOLEAN

Init ==
    /\ StoreInit
    /\ queue = <<>>
    /\ wpc = [w \in Workers |-> "idle"]
    /\ wjob = [w \in Workers |-> NoId]
    /\ cpc = [c \in Clients |-> "idle"]
    /\ cjob = [c \in Clients |-> NoId]
    /\ known = {} /\ cancelled = {} /\ artifacts = {}
    /\ stopping = FALSE

-----------------------------------------------------------------------------
(* The handlers.                                                           *)

ClientGoes(c, pc, i) ==
    /\ cpc' = [cpc EXCEPT ![c] = pc]
    /\ cjob' = [cjob EXCEPT ![c] = i]

ClientDone(c) == ClientGoes(c, "idle", NoId)

\* Mutant: the handler enqueues whatever Create returned.
PostHit_Enqueues(c, k) ==
    /\ cpc[c] = "idle"
    /\ Hit(k)
    /\ ClientGoes(c, "enqueue", cache[k])
    /\ UNCHANGED <<storeVars, runVars, known, envVars>>

\* POST /jobs for a key whose job is queued, running or done: the answer is
\* that job's identifier.
PostHit(c, k) ==
    /\ cpc[c] = "idle"
    /\ Hit(k)
    /\ known' = known \cup {cache[k]}
    /\ UNCHANGED <<storeVars, runVars, cpc, cjob, envVars>>

PostCreate(c, i, k) ==
    /\ cpc[c] = "idle"
    /\ Create(i, k)
    /\ ClientGoes(c, "enqueue", i)
    /\ UNCHANGED <<runVars, known, envVars>>

Enqueue(c) ==
    /\ cpc[c] = "enqueue"
    /\ Len(queue) < MaxQueueSize
    /\ queue' = Append(queue, cjob[c])
    /\ known' = known \cup {cjob[c]}
    /\ ClientDone(c)
    /\ UNCHANGED <<storeVars, wpc, wjob, envVars>>

\* Mutant: the 429 is sent, the job stays queued.
EnqueueFull_Forgets(c) ==
    /\ cpc[c] = "enqueue"
    /\ Len(queue) = MaxQueueSize
    /\ ClientDone(c)
    /\ UNCHANGED <<storeVars, runVars, known, envVars>>

EnqueueFull(c) ==
    /\ cpc[c] = "enqueue"
    /\ Len(queue) = MaxQueueSize
    /\ ClientGoes(c, "reject", cjob[c])
    /\ UNCHANGED <<storeVars, runVars, known, envVars>>

RejectFull(c) ==
    /\ cpc[c] = "reject"
    /\ Fail(cjob[c], "error")
    /\ ClientDone(c)
    /\ UNCHANGED <<runVars, known, envVars>>

PostCancelQueued(c, i) ==
    /\ cpc[c] = "idle" /\ i \in known
    /\ CancelQueued(i)
    /\ UNCHANGED <<runVars, clientVars, envVars>>

\* The record is not touched; its CancelFunc is called after the lock is
\* released.
PostCancelRunning(c, i) ==
    /\ cpc[c] = "idle" /\ i \in known
    /\ HasStatus(i, "running")
    /\ ClientGoes(c, "signal", i)
    /\ UNCHANGED <<storeVars, runVars, known, envVars>>

\* Mutant: cancelling a running job also fails it on the spot.
Signal_Fails(c) ==
    /\ cpc[c] = "signal"
    /\ Fail(cjob[c], "cancelled")
    /\ cancelled' = cancelled \cup {cjob[c]}
    /\ ClientDone(c)
    /\ UNCHANGED <<runVars, known, artifacts, stopping>>

Signal(c) ==
    /\ cpc[c] = "signal"
    /\ cancelled' = cancelled \cup {cjob[c]}
    /\ ClientDone(c)
    /\ UNCHANGED <<storeVars, runVars, known, artifacts, stopping>>

DeleteJob(c, i) ==
    /\ cpc[c] = "idle" /\ i \in known
    /\ Delete(i)
    /\ IF jobs[i].storage = "none" THEN UNCHANGED <<cpc, cjob>>
                                   ELSE ClientGoes(c, "unlink", i)
    /\ UNCHANGED <<runVars, known, envVars>>

\* The error of files.Delete is dropped.
Unlink(c) ==
    /\ cpc[c] = "unlink"
    /\ \/ artifacts' = artifacts \ {cjob[c]}
       \/ StorageFaults /\ UNCHANGED artifacts
    /\ ClientDone(c)
    /\ UNCHANGED <<storeVars, runVars, known, cancelled, stopping>>

Handle(c) ==
    \/ \E k \in Keys : PostHit(c, k)
    \/ \E i \in Ids, k \in Keys : PostCreate(c, i, k)
    \/ \E i \in Ids : \/ PostCancelQueued(c, i)
                      \/ PostCancelRunning(c, i)
                      \/ DeleteJob(c, i)

\* What a handler still has to do once it has begun.
Finish(c) == Enqueue(c) \/ EnqueueFull(c) \/ RejectFull(c) \/ Signal(c) \/ Unlink(c)

-----------------------------------------------------------------------------
(* The workers.                                                            *)

WorkerGoes(w, pc) == wpc' = [wpc EXCEPT ![w] = pc]

\* The context of the job's run: its own CancelFunc or the runner's context.
CtxDone(i) == i \in cancelled \/ stopping

Take(w) ==
    /\ wpc[w] = "idle" /\ ~stopping
    /\ queue # <<>>
    /\ wjob' = [wjob EXCEPT ![w] = Head(queue)]
    /\ queue' = Tail(queue)
    /\ WorkerGoes(w, "got")
    /\ UNCHANGED <<storeVars, clientVars, envVars>>

\* Mutant: a worker leaves only when nothing is queued.
Exit_WhenEmpty(w) ==
    /\ wpc[w] = "idle" /\ stopping
    /\ queue = <<>>
    /\ WorkerGoes(w, "exited")
    /\ UNCHANGED <<storeVars, queue, wjob, clientVars, envVars>>

\* Once stopping, select may still pick the queue; the job is then dropped.
Exit(w) ==
    /\ wpc[w] = "idle" /\ stopping
    /\ \/ UNCHANGED queue
       \/ queue # <<>> /\ queue' = Tail(queue)
    /\ WorkerGoes(w, "exited")
    /\ UNCHANGED <<storeVars, wjob, clientVars, envVars>>

\* store.Get: only a job that is still there and queued goes on.
Look(w) ==
    /\ wpc[w] = "got"
    /\ WorkerGoes(w, IF HasStatus(wjob[w], "queued") THEN "start" ELSE "idle")
    /\ UNCHANGED <<storeVars, queue, wjob, clientVars, envVars>>

\* store.Start; what it returns is ignored.
Begin(w) ==
    /\ wpc[w] = "start"
    /\ Start(wjob[w])
    /\ WorkerGoes(w, "run")
    /\ UNCHANGED <<queue, wjob, clientVars, envVars>>

\* The media is ready and the upload's retry finds the context alive.
BeginSave(w) ==
    /\ wpc[w] = "run"
    /\ ~CtxDone(wjob[w])
    /\ WorkerGoes(w, "saving")
    /\ UNCHANGED <<storeVars, queue, wjob, clientVars, envVars>>

Save(w) ==
    /\ wpc[w] = "saving"
    /\ artifacts' = artifacts \cup {wjob[w]}
    /\ WorkerGoes(w, "saved")
    /\ UNCHANGED <<storeVars, queue, wjob, clientVars, cancelled, stopping>>

Complete(w) ==
    /\ wpc[w] = "saved"
    /\ Done(wjob[w])
    /\ WorkerGoes(w, "idle")
    /\ UNCHANGED <<queue, wjob, clientVars, envVars>>

\* Mutant: only the error is classified, not the context.
ErrorPC_ByError(i) == "failed"

\* run returns an error and failureCode looks at the context.
ErrorPC(i) == IF CtxDone(i) THEN "aborted" ELSE "failed"

RunFails(w) ==
    /\ wpc[w] = "run"
    /\ WorkerGoes(w, ErrorPC(wjob[w]))
    /\ UNCHANGED <<storeVars, queue, wjob, clientVars, envVars>>

\* Mutant: the error of the upload is lost.
SaveFails_Ignored(w) ==
    /\ wpc[w] = "saving" /\ Backend = "s3"
    /\ StorageFaults \/ CtxDone(wjob[w])
    /\ WorkerGoes(w, "saved")
    /\ UNCHANGED <<storeVars, queue, wjob, clientVars, envVars>>

\* Every attempt to upload fails, or the context ends meanwhile.  An object
\* whose upload was reported as failed may be there all the same.
SaveFails(w) ==
    /\ wpc[w] = "saving" /\ Backend = "s3"
    /\ StorageFaults \/ CtxDone(wjob[w])
    /\ \/ UNCHANGED artifacts
       \/ StorageFaults /\ artifacts' = artifacts \cup {wjob[w]}
    /\ WorkerGoes(w, ErrorPC(wjob[w]))
    /\ UNCHANGED <<storeVars, queue, wjob, clientVars, cancelled, stopping>>

\* Mutant: a cancelled run is not reported to the store.
RecordFailure_SkipsCancelled(w) ==
    /\ wpc[w] \in {"failed", "aborted"}
    /\ IF wpc[w] = "aborted" THEN UNCHANGED storeVars ELSE Fail(wjob[w], "error")
    /\ WorkerGoes(w, "idle")
    /\ UNCHANGED <<queue, wjob, clientVars, envVars>>

RecordFailure(w) ==
    /\ wpc[w] \in {"failed", "aborted"}
    /\ Fail(wjob[w], IF wpc[w] = "aborted" THEN "cancelled" ELSE "error")
    /\ WorkerGoes(w, "idle")
    /\ UNCHANGED <<queue, wjob, clientVars, envVars>>

Work(w) ==
    \/ Take(w) \/ Exit(w) \/ Look(w) \/ Begin(w) \/ BeginSave(w) \/ Save(w)
    \/ Complete(w) \/ RunFails(w) \/ SaveFails(w) \/ RecordFailure(w)

-----------------------------------------------------------------------------
\* SIGTERM: the workers' context derives from the signal context.
Shutdown ==
    /\ ~stopping
    /\ stopping' = TRUE
    /\ UNCHANGED <<storeVars, runVars, clientVars, cancelled, artifacts>>

\* Time passes for a done job with an expiring artifact.
Tick(i) ==
    /\ HasStatus(i, "done") /\ Backend = "s3"
    /\ Elapse(i)
    /\ UNCHANGED <<runVars, clientVars, envVars>>

Next ==
    \/ \E c \in Clients : Handle(c) \/ Finish(c)
    \/ \E w \in Workers : Work(w)
    \/ Shutdown
    \/ \E i \in Ids : Tick(i)

Spec == Init /\ [][Next]_svcVars

\* net/http runs every handler to its end, the Go scheduler runs every
\* worker, and a run ends: it fails, or its download and upload succeed.
Fairness ==
    /\ \A c \in Clients : WF_svcVars(Finish(c))
    /\ \A w \in Workers : WF_svcVars(Work(w))

FairSpec == Spec /\ Fairness

-----------------------------------------------------------------------------
(* What the service promises.                                              *)

InQueue(i) == \E n \in 1..Len(queue) : queue[n] = i
Bringing == {"enqueue", "reject"}
HeldBy(w, i) == wpc[w] \in Busy /\ wjob[w] = i

\* At most one of the creating handler, a queue slot or a worker has a job in
\* its hands, so process never runs twice for one job (two runs would write
\* the same work directory, and the later outcome would overwrite the other).
OneCarrier ==
    /\ \A c, d \in Clients :
         cpc[c] \in Bringing /\ cpc[d] \in Bringing /\ cjob[c] = cjob[d] => c = d
    /\ \A m, n \in 1..Len(queue) : queue[m] = queue[n] => m = n
    /\ \A v, w \in Workers :
         wpc[v] \in Busy /\ wpc[w] \in Busy /\ wjob[v] = wjob[w] => v = w
    /\ \A c \in Clients : cpc[c] \in Bringing =>
         ~InQueue(cjob[c]) /\ \A w \in Workers : ~HeldBy(w, cjob[c])
    /\ \A w \in Workers : wpc[w] \in Busy => ~InQueue(wjob[w])

\* No accepted job is forgotten: until shutdown, a queued job is in the queue,
\* on its way there, about to be rejected, or with a worker about to start it.
QueuedJobHasCarrier ==
    \A i \in Ids : HasStatus(i, "queued") /\ ~stopping =>
        \/ InQueue(i)
        \/ \E c \in Clients : cpc[c] \in Bringing /\ cjob[c] = i
        \/ \E w \in Workers : wpc[w] \in {"got", "start"} /\ wjob[w] = i

\* A job shows as running exactly as long as a worker runs it, unless it was
\* deleted under the worker between Get and Start (lifecycle.go:58-63).
RunningMatchesWorkers ==
    \A i \in Ids :
        /\ HasStatus(i, "running") =>
             \E w \in Workers : wpc[w] \in Running /\ wjob[w] = i
        /\ Present(i) /\ (\E w \in Workers : wpc[w] \in Running /\ wjob[w] = i)
             => jobs[i].status = "running"

\* A done job's file or object is there to be served: it is stored before
\* Done, and deleteJob removes the record before it removes the artifact.
DoneHasArtifact == \A i \in Ids : HasStatus(i, "done") => i \in artifacts

\* No late failure, cancel or restart of a job undoes its completion; the
\* only way on is to be removed.
DoneIsFinal ==
    [][\A i \in Ids : HasStatus(i, "done") =>
           ~Present(i)' \/ jobs'[i] = jobs[i]]_svcVars

\* "Cancel a queued or running job" (README.md:33), store_test.go:98: a job
\* that was cancelled while queued has failed, and stays so.
FailedIsFinal ==
    [][\A i \in Ids : HasStatus(i, "failed") =>
           ~Present(i)' \/ HasStatus(i, "failed")']_svcVars

\* Every job reaches an outcome or is removed, unless the service stops.
JobsSettle ==
    \A i \in Ids : HasStatus(i, "queued") \/ HasStatus(i, "running")
        ~> ~Present(i) \/ jobs[i].status \in {"done", "failed"} \/ stopping

\* A cancel that reaches a run before its upload ends in the failure
\* "cancelled", which is what the client was told.
CancelIsReported ==
    \A w \in Workers, i \in Ids :
        wpc[w] = "run" /\ wjob[w] = i /\ i \in cancelled /\ HasStatus(i, "running")
        ~> HasStatus(i, "failed") /\ jobs[i].errorCode = "cancelled"

\* Runner.Wait returns after a shutdown, and no job is left as running.
ShutdownDrains ==
    stopping ~> (\A w \in Workers : wpc[w] = "exited")
                /\ \A i \in Ids : ~HasStatus(i, "running")
=============================================================================
