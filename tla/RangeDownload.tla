---------------------------- MODULE RangeDownload ----------------------------
(***************************************************************************)
(* The parallel range downloader (internal/downloader): DownloadFile       *)
(* fetches one source in chunks through a pool of goroutines into a .part  *)
(* file and renames it when every chunk has arrived.                       *)
(*                                                                         *)
(* Chunks are numbered in file order.  The channel `jobs` carries them in  *)
(* that order, so two counters stand for it: it holds the chunks           *)
(* taken+1..queued.  A chunk's bytes are a hole, torn (some written) or    *)
(* whole.  Progress is counted in chunks.                                  *)
(***************************************************************************)
EXTENDS Naturals, FiniteSets

CONSTANTS
    Workers,    \* goroutines of the pool, min(Options.Workers, chunkCount)
    ChunkCount, \* chunks of the source
    Retries,    \* Options.Retries
    Interval    \* Options.ProgressBytes, in chunks

ASSUME DownloadAssumption ==
    /\ ChunkCount \in Nat \ {0} /\ Retries \in Nat \ {0} /\ Interval \in Nat
    /\ IsFiniteSet(Workers) /\ Cardinality(Workers) \in 1..ChunkCount

VARIABLES
    dpc,        \* the calling goroutine: where it is in DownloadFile
    ctx,        \* the caller's context is cancelled
    stopped,    \* downloadCtx has been cancelled by a worker
    queued,     \* chunks sent to jobs
    taken,      \* chunks received from jobs
    data,       \* per chunk: the bytes of the .part file
    errs,       \* the channel errs, of capacity one: its error, or "none"
    downloaded, \* progressTracker.downloaded
    reported,   \* progressTracker.reported, the last value passed to progress
    wpc,        \* per worker: where it is in its loop
    part,       \* per worker: the chunk it has received
    attempt,    \* per worker: attempts of that chunk that have failed
    lastErr,    \* per worker: the error of the last failed attempt
    current,    \* per worker: the counter as its own add left it
    result      \* the error DownloadFile returns, "none" before and for nil

callVars   == <<dpc, result>>
poolVars   == <<queued, taken, errs, stopped>>
countVars  == <<downloaded, reported>>
workerVars == <<wpc, part, attempt, lastErr, current>>
vars       == <<callVars, ctx, poolVars, data, countVars, workerVars>>

Chunks   == 1..ChunkCount
Capacity == Cardinality(Workers)

\* Errors, by whether errors.Is(err, context.Canceled) holds of them, which is
\* what the job's failureCode asks.
Errors == {"io", "canceled"}

RangeTypeOK ==
    /\ dpc \in {"open", "queue", "wait", "commit", "done", "failed"}
    /\ ctx \in BOOLEAN /\ stopped \in BOOLEAN
    /\ queued \in 0..ChunkCount /\ taken \in 0..queued
    /\ queued - taken <= Capacity
    /\ data \in [Chunks -> {"hole", "torn", "whole"}]
    /\ errs \in Errors \cup {"none"} /\ result \in Errors \cup {"none"}
    /\ downloaded \in 0..ChunkCount /\ reported \in 0..ChunkCount
    /\ wpc \in [Workers -> {"recv", "request", "body", "backoff", "add",
                            "report", "failing", "cancel", "exit"}]
    /\ part \in [Workers -> 0..ChunkCount]
    /\ attempt \in [Workers -> 0..Retries]
    /\ lastErr \in [Workers -> Errors \cup {"none"}]
    /\ current \in [Workers -> 0..ChunkCount]

Init ==
    /\ dpc = "open" /\ result = "none"
    /\ ctx = FALSE /\ stopped = FALSE
    /\ queued = 0 /\ taken = 0 /\ errs = "none"
    /\ data = [c \in Chunks |-> "hole"]
    /\ downloaded = 0 /\ reported = 0
    /\ wpc = [w \in Workers |-> "recv"] /\ part = [w \in Workers |-> 0]
    /\ attempt = [w \in Workers |-> 0] /\ current = [w \in Workers |-> 0]
    /\ lastErr = [w \in Workers |-> "none"]

\* downloadCtx is derived from the caller's context.
Cancelled == ctx \/ stopped

-----------------------------------------------------------------------------
(* The calling goroutine.                                                  *)

Returns(err) ==
    /\ dpc' = "failed" /\ result' = err
    /\ UNCHANGED <<ctx, poolVars, data, countVars, workerVars>>

CallerGoes(pc) == dpc' = pc /\ UNCHANGED result

\* The size is known or probed and the .part file is created anew.
Open ==
    /\ dpc = "open"
    /\ CallerGoes("queue")
    /\ UNCHANGED <<ctx, poolVars, data, countVars, workerVars>>

OpenFails == dpc = "open" /\ \E err \in Errors : (err = "canceled" => ctx) /\ Returns(err)

\* queueChunks, its select: with both cases ready either may be taken.
QueueChunk ==
    /\ dpc = "queue" /\ queued < ChunkCount
    /\ queued - taken < Capacity
    /\ queued' = queued + 1
    /\ UNCHANGED <<callVars, ctx, taken, errs, stopped, data, countVars, workerVars>>

CloseJobs ==
    /\ CallerGoes("wait")
    /\ UNCHANGED <<ctx, poolVars, data, countVars, workerVars>>

QueueEnds == dpc = "queue" /\ queued = ChunkCount /\ CloseJobs

\* Mutant: queueChunks waits for room and for nothing else.
QueueStops_Never == FALSE /\ CloseJobs

QueueStops == dpc = "queue" /\ queued < ChunkCount /\ Cancelled /\ CloseJobs

\* Mutant: the workers are not waited for once there is an error.
Joined_AtError == dpc = "wait" /\ (errs # "none" \/ \A w \in Workers : wpc[w] = "exit")

\* wg.Wait has returned.
Joined == dpc = "wait" /\ \A w \in Workers : wpc[w] = "exit"

\* The first error that was offered wins over the caller's cancellation, and
\* both over a count that falls short.
JoinFails ==
    /\ Joined
    /\ errs # "none" \/ ctx \/ downloaded # ChunkCount
    /\ Returns(IF errs # "none" THEN errs ELSE IF ctx THEN "canceled" ELSE "io")

\* Every chunk is accounted for: tracker.finish reports the rest.
JoinSucceeds ==
    /\ Joined
    /\ errs = "none" /\ ~ctx /\ downloaded = ChunkCount
    /\ reported' = IF downloaded > reported THEN downloaded ELSE reported
    /\ CallerGoes("commit")
    /\ UNCHANGED <<ctx, poolVars, data, downloaded, workerVars>>

\* The .part file is closed and renamed.
Commit ==
    /\ dpc = "commit"
    /\ CallerGoes("done")
    /\ UNCHANGED <<ctx, poolVars, data, countVars, workerVars>>

CommitFails == dpc = "commit" /\ Returns("io")

-----------------------------------------------------------------------------
(* A worker.                                                               *)

WorkerGoes(w, pc) == wpc' = [wpc EXCEPT ![w] = pc]

Receive(w) ==
    /\ wpc[w] = "recv" /\ taken < queued
    /\ taken' = taken + 1
    /\ part' = [part EXCEPT ![w] = taken + 1]
    /\ attempt' = [attempt EXCEPT ![w] = 0]
    /\ lastErr' = [lastErr EXCEPT ![w] = "none"]
    /\ WorkerGoes(w, "request")
    /\ UNCHANGED <<callVars, ctx, queued, errs, stopped, data, countVars, current>>

\* The range over jobs ends when the channel is closed and drained.
Leave(w) ==
    /\ wpc[w] = "recv" /\ taken = queued /\ dpc = "wait"
    /\ WorkerGoes(w, "exit")
    /\ UNCHANGED <<callVars, ctx, poolVars, data, countVars, part, attempt, lastErr, current>>

AttemptFails(w, err) ==
    /\ attempt' = [attempt EXCEPT ![w] = @ + 1]
    /\ lastErr' = [lastErr EXCEPT ![w] = err]
    /\ WorkerGoes(w, IF attempt[w] + 1 < Retries THEN "backoff" ELSE "failing")
    /\ UNCHANGED <<callVars, ctx, poolVars, countVars, part, current>>

\* An answer whose status, Content-Range and length validateRangeResponse
\* accepts; client.Do answers nothing else once the context is cancelled.
Respond(w) ==
    /\ wpc[w] = "request" /\ ~Cancelled
    /\ WorkerGoes(w, "body")
    /\ UNCHANGED <<callVars, ctx, poolVars, data, countVars, part, attempt, lastErr, current>>

RequestFails(w) ==
    /\ wpc[w] = "request"
    /\ AttemptFails(w, "io")
    /\ UNCHANGED data

\* Mutant: a body that ends early counts as the chunk.
CopyChunk_Short(w) ==
    /\ wpc[w] = "body"
    /\ \E bytes \in {"torn", "whole"} : data' = [data EXCEPT ![part[w]] = bytes]
    /\ WorkerGoes(w, "add")
    /\ UNCHANGED <<callVars, ctx, poolVars, countVars, part, attempt, lastErr, current>>

\* The body may have been in the buffer when the context was cancelled.
CopyChunk(w) ==
    /\ wpc[w] = "body"
    /\ data' = [data EXCEPT ![part[w]] = "whole"]
    /\ WorkerGoes(w, "add")
    /\ UNCHANGED <<callVars, ctx, poolVars, countVars, part, attempt, lastErr, current>>

\* A failed read or write, a short body, or one that is too long: the bytes
\* that came before it are in the file.
CopyBreaks(w, err) ==
    /\ wpc[w] = "body"
    /\ \E bytes \in {data[part[w]], "torn", "whole"} :
           data' = [data EXCEPT ![part[w]] = bytes]
    /\ AttemptFails(w, err)

CopyFails(w) == CopyBreaks(w, "io")

\* A cancelled context ends the request and the reading of its body.
Abort(w) ==
    /\ Cancelled
    /\ \/ wpc[w] = "request" /\ AttemptFails(w, "canceled") /\ UNCHANGED data
       \/ CopyBreaks(w, "canceled")

RetryTimer(w) ==
    /\ wpc[w] = "backoff"
    /\ WorkerGoes(w, "request")
    /\ UNCHANGED <<callVars, ctx, poolVars, data, countVars, part, attempt, lastErr, current>>

RetryCancelled(w) ==
    /\ wpc[w] = "backoff" /\ Cancelled
    /\ WorkerGoes(w, "failing")
    /\ lastErr' = [lastErr EXCEPT ![w] = "canceled"]
    /\ UNCHANGED <<callVars, ctx, poolVars, data, countVars, part, attempt, current>>

\* progressTracker.add: the atomic addition ...
Add(w) ==
    /\ wpc[w] = "add"
    /\ downloaded' = downloaded + 1
    /\ current' = [current EXCEPT ![w] = downloaded + 1]
    /\ WorkerGoes(w, IF downloaded + 1 < ChunkCount THEN "report" ELSE "recv")
    /\ UNCHANGED <<callVars, ctx, poolVars, data, reported, part, attempt, lastErr>>

\* Mutant: a report is due whenever the distance is the interval.
Due_EitherWay(w) == current[w] + Interval <= reported \/ current[w] >= reported + Interval

Due(w) == current[w] > reported /\ current[w] >= reported + Interval

\* ... and the report under reportMu, in whatever order workers get the lock.
Report(w) ==
    /\ wpc[w] = "report"
    /\ reported' = IF Due(w) THEN current[w] ELSE reported
    /\ WorkerGoes(w, "recv")
    /\ UNCHANGED <<callVars, ctx, poolVars, data, downloaded, part, attempt, lastErr, current>>

\* Mutant: the last error wins.
OfferError_Overwrites(w) ==
    /\ wpc[w] = "failing"
    /\ errs' = lastErr[w]
    /\ WorkerGoes(w, "cancel")
    /\ UNCHANGED <<callVars, ctx, queued, taken, stopped, data, countVars, part, attempt, lastErr, current>>

\* The error is offered to errs, and dropped if there is one.
OfferError(w) ==
    /\ wpc[w] = "failing"
    /\ errs' = IF errs = "none" THEN lastErr[w] ELSE errs
    /\ WorkerGoes(w, "cancel")
    /\ UNCHANGED <<callVars, ctx, queued, taken, stopped, data, countVars, part, attempt, lastErr, current>>

CancelAll(w) ==
    /\ wpc[w] = "cancel"
    /\ stopped' = TRUE
    /\ WorkerGoes(w, "exit")
    /\ UNCHANGED <<callVars, ctx, queued, taken, errs, data, countVars, part, attempt, lastErr, current>>

-----------------------------------------------------------------------------
\* The job is cancelled or the service stops.
CancelCaller ==
    /\ ~ctx
    /\ ctx' = TRUE
    /\ UNCHANGED <<callVars, poolVars, data, countVars, workerVars>>

Caller == QueueChunk \/ QueueEnds \/ QueueStops \/ JoinFails \/ JoinSucceeds \/ Commit

\* What a worker does without waiting for the peer.
Local(w) ==
    \/ Receive(w) \/ Leave(w) \/ Abort(w) \/ RetryTimer(w) \/ RetryCancelled(w)
    \/ Add(w) \/ Report(w) \/ OfferError(w) \/ CancelAll(w)

Peer(w) == Respond(w) \/ RequestFails(w) \/ CopyChunk(w) \/ CopyFails(w)

Next ==
    \/ Open \/ OpenFails \/ Caller \/ CommitFails \/ CancelCaller
    \/ \E w \in Workers : Local(w) \/ Peer(w)

Spec == Init /\ [][Next]_vars

\* Goroutines run and timers fire; a peer may never answer (no timeout is set).
Fairness == WF_vars(Caller) /\ \A w \in Workers : WF_vars(Local(w))

FairSpec == Spec /\ Fairness

-----------------------------------------------------------------------------
\* A file that is renamed into place is complete, whatever was retried, cut
\* short or cancelled on the way.
CommittedIsWhole == dpc \in {"commit", "done"} => \A c \in Chunks : data[c] = "whole"

\* "Cancelled" is reported of a download only if its caller was: the errors
\* that a failing chunk causes its siblings never hide its own.
CanceledMeansCaller == result = "canceled" => ctx

\* The file is not written to once the caller has stopped waiting: it is
\* about to be closed, renamed or removed.
NoWriteAfterJoin == [][dpc \notin {"queue", "wait"} => data' = data]_vars

\* Progress never goes back and never runs ahead of the bytes, and a complete
\* download has reported all of them.
ReportsForward ==
    [][/\ reported <= reported' /\ reported' <= downloaded'
       /\ dpc' = "commit" => reported' = ChunkCount]_vars

\* A cancelled download returns, though no peer ever answers; so does one
\* with a chunk that has failed for good.
CancelEndsDownload ==
    dpc \in {"queue", "wait"} /\ (Cancelled \/ errs # "none") ~> dpc \in {"commit", "done", "failed"}
=============================================================================
