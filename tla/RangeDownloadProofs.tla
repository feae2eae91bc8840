------------------------- MODULE RangeDownloadProofs -------------------------
(***************************************************************************)
(* Proofs about RangeDownload: what is published is whole, causes are not  *)
(* masked, nobody writes after the join and progress goes forward, for     *)
(* any number of goroutines, chunks and attempts.                          *)
(***************************************************************************)
EXTENDS RangeDownload, FiniteSetTheorems, TLAPS

\* Types, without the bounds that would need the counters to be related to
\* the chunks.
Types ==
    /\ dpc \in {"open", "queue", "wait", "commit", "done", "failed"}
    /\ ctx \in BOOLEAN /\ stopped \in BOOLEAN
    /\ queued \in 0..ChunkCount /\ taken \in 0..queued
    /\ data \in [Chunks -> {"hole", "torn", "whole"}]
    /\ errs \in Errors \cup {"none"} /\ result \in Errors \cup {"none"}
    /\ wpc \in [Workers -> {"recv", "request", "body", "backoff", "add",
                            "report", "failing", "cancel", "exit"}]
    /\ part \in [Workers -> 0..ChunkCount]
    /\ lastErr \in [Workers -> Errors \cup {"none"}]
    /\ downloaded \in Nat /\ reported \in Nat
    /\ current \in [Workers -> Nat]

\* A worker that may still write its chunk.
Holds(w) == wpc[w] \in {"request", "body", "backoff"}

\* Chunks in hand were received, each by one worker.
HeldApart ==
    /\ \A w \in Workers : Holds(w) => part[w] \in 1..taken
    /\ \A v, w \in Workers : Holds(v) /\ Holds(w) /\ part[v] = part[w] => v = w

\* A chunk has been given up: its error is in errs or about to be offered.
Trouble == errs # "none" \/ \E w \in Workers : wpc[w] = "failing"

\* A received chunk is whole, in hand, or somebody has given up.
Settled ==
    \A c \in 1..taken :
        data[c] = "whole" \/ (\E w \in Workers : Holds(w) /\ part[w] = c) \/ Trouble

\* Nobody stops the pool without having offered an error.
StopsForError ==
    /\ stopped => errs # "none"
    /\ \A w \in Workers : wpc[w] = "failing" => lastErr[w] # "none"
    /\ \A w \in Workers : wpc[w] = "cancel" => errs # "none"

\* The producer stops early, and a worker leaves with chunks to come, only for
\* a cancel or an error.
EndsForReason ==
    /\ dpc = "open" => queued = 0
    /\ dpc = "wait" => queued = ChunkCount \/ ctx \/ errs # "none"
    /\ \A w \in Workers : wpc[w] = "exit" =>
         errs # "none" \/ (taken = queued /\ dpc \notin {"open", "queue"})

\* Outside the download proper no worker is at work.
Quiet ==
    dpc \notin {"queue", "wait"} =>
        \A w \in Workers : wpc[w] = "exit" \/ (wpc[w] = "recv" /\ queued = 0)

\* Where a cancellation that surfaces comes from.
Causes ==
    /\ errs = "canceled" => ctx
    /\ \A w \in Workers : lastErr[w] = "canceled" => ctx \/ errs # "none"
    /\ CanceledMeansCaller

\* Reports and the values to report never exceed the counter.
Counters ==
    /\ reported <= downloaded
    /\ \A w \in Workers : current[w] <= downloaded
    /\ dpc = "commit" => reported = ChunkCount

\* The inductive invariant.
RangeInv ==
    /\ Types /\ HeldApart /\ Settled /\ StopsForError /\ EndsForReason
    /\ Quiet /\ Causes /\ Counters /\ CommittedIsWhole

-----------------------------------------------------------------------------
\* Every step keeps the types.
LEMMA TypesStep == RangeInv /\ [Next]_vars => Types'
<1> SUFFICES ASSUME RangeInv, [Next]_vars PROVE Types'
  OBVIOUS
<1> USE DownloadAssumption DEF RangeInv, Types, Errors
<1>1. CASE UNCHANGED vars
  BY <1>1 DEF vars, callVars, poolVars, countVars, workerVars
<1>2. CASE Open \/ OpenFails \/ QueueChunk \/ QueueEnds \/ QueueStops
  BY <1>2 DEF Open, CallerGoes, OpenFails, Returns, QueueChunk, QueueEnds,
     CloseJobs, QueueStops, Cancelled, callVars, poolVars, countVars,
     workerVars
<1>3. CASE JoinFails \/ JoinSucceeds
  BY <1>3 DEF JoinFails, Joined, Returns, JoinSucceeds, CallerGoes, callVars,
     poolVars, countVars, workerVars
<1>4. CASE Commit \/ CommitFails \/ CancelCaller
  BY <1>4 DEF Commit, CallerGoes, CommitFails, Returns, CancelCaller,
     callVars, poolVars, countVars, workerVars
<1>5. ASSUME NEW w \in Workers, Receive(w) \/ Leave(w)
      PROVE  Types'
  BY <1>5 DEF Receive, WorkerGoes, Leave, callVars, poolVars, countVars,
     workerVars
<1>6. ASSUME NEW w \in Workers, Respond(w) \/ RetryTimer(w) \/ RetryCancelled(w)
      PROVE  Types'
  BY <1>6 DEF Respond, Cancelled, WorkerGoes, RetryTimer, RetryCancelled,
     callVars, poolVars, countVars, workerVars
<1>7. ASSUME NEW w \in Workers, CopyChunk(w)
      PROVE  Types'
  BY <1>7 DEF CopyChunk, WorkerGoes, callVars, poolVars, countVars, workerVars
<1>8. ASSUME NEW w \in Workers, RequestFails(w) \/ CopyFails(w)
      PROVE  Types'
  BY <1>8 DEF RequestFails, AttemptFails, WorkerGoes, CopyFails, CopyBreaks,
     callVars, poolVars, countVars, workerVars
<1>9. ASSUME NEW w \in Workers, Abort(w)
      PROVE  Types'
  BY <1>9 DEF Abort, CopyBreaks, AttemptFails, Cancelled, WorkerGoes,
     callVars, poolVars, countVars, workerVars
<1>10. ASSUME NEW w \in Workers, Add(w) \/ Report(w)
      PROVE  Types'
  BY <1>10 DEF Add, WorkerGoes, Report, Due, callVars, poolVars, countVars,
     workerVars
<1>11. ASSUME NEW w \in Workers, OfferError(w) \/ CancelAll(w)
      PROVE  Types'
  BY <1>11 DEF OfferError, WorkerGoes, CancelAll, callVars, poolVars,
     countVars, workerVars
<1> QED
  BY <1>1, <1>2, <1>3, <1>4, <1>5, <1>6, <1>7, <1>8, <1>9, <1>10, <1>11 DEF
     Next, Caller, Local, Peer

\* A worker receives the next chunk of the channel, which nobody has.
LEMMA HeldApartStep == RangeInv /\ [Next]_vars => HeldApart'
<1> SUFFICES ASSUME RangeInv, [Next]_vars PROVE HeldApart'
  OBVIOUS
<1> USE DownloadAssumption DEF RangeInv, HeldApart, Types, Holds
<1>1. CASE UNCHANGED vars
  BY <1>1 DEF vars, callVars, poolVars, countVars, workerVars
<1>2. CASE Open \/ OpenFails \/ QueueChunk \/ QueueEnds \/ QueueStops
  BY <1>2 DEF Open, CallerGoes, OpenFails, Returns, QueueChunk, QueueEnds,
     CloseJobs, QueueStops, Cancelled, callVars, poolVars, countVars,
     workerVars
<1>3. CASE JoinFails \/ JoinSucceeds
  BY <1>3 DEF JoinFails, Joined, Returns, JoinSucceeds, CallerGoes, callVars,
     poolVars, countVars, workerVars
<1>4. CASE Commit \/ CommitFails \/ CancelCaller
  BY <1>4 DEF Commit, CallerGoes, CommitFails, Returns, CancelCaller,
     callVars, poolVars, countVars, workerVars
<1>5. ASSUME NEW w \in Workers, Receive(w) \/ Leave(w)
      PROVE  HeldApart'
  BY <1>5 DEF Receive, WorkerGoes, Leave, callVars, poolVars, countVars,
     workerVars
<1>6. ASSUME NEW w \in Workers, Respond(w) \/ RetryTimer(w) \/ RetryCancelled(w)
      PROVE  HeldApart'
  BY <1>6 DEF Respond, Cancelled, WorkerGoes, RetryTimer, RetryCancelled,
     callVars, poolVars, countVars, workerVars
<1>7. ASSUME NEW w \in Workers, CopyChunk(w)
      PROVE  HeldApart'
  BY <1>7 DEF CopyChunk, WorkerGoes, callVars, poolVars, countVars, workerVars
<1>8. ASSUME NEW w \in Workers, RequestFails(w) \/ CopyFails(w)
      PROVE  HeldApart'
  BY <1>8 DEF RequestFails, AttemptFails, WorkerGoes, CopyFails, CopyBreaks,
     callVars, poolVars, countVars, workerVars
<1>9. ASSUME NEW w \in Workers, Abort(w)
      PROVE  HeldApart'
  BY <1>9 DEF Abort, CopyBreaks, AttemptFails, Cancelled, WorkerGoes,
     callVars, poolVars, countVars, workerVars
<1>10. ASSUME NEW w \in Workers, Add(w) \/ Report(w)
      PROVE  HeldApart'
  BY <1>10 DEF Add, WorkerGoes, Report, Due, callVars, poolVars, countVars,
     workerVars
<1>11. ASSUME NEW w \in Workers, OfferError(w) \/ CancelAll(w)
      PROVE  HeldApart'
  BY <1>11 DEF OfferError, WorkerGoes, CancelAll, callVars, poolVars,
     countVars, workerVars
<1> QED
  BY <1>1, <1>2, <1>3, <1>4, <1>5, <1>6, <1>7, <1>8, <1>9, <1>10, <1>11 DEF
     Next, Caller, Local, Peer

\* A worker that has a chunk in hand and completes it, keeps it or gives up
\* leaves everything settled.
LEMMA LetsGo ==
    ASSUME RangeInv, NEW w \in Workers, Holds(w),
           NEW pc, wpc' = [wpc EXCEPT ![w] = pc],
           UNCHANGED <<taken, errs, part>>,
           \A c \in Chunks \ {part[w]} : data'[c] = data[c],
           \/ data'[part[w]] = "whole"
           \/ pc \in {"request", "body", "backoff", "failing"}
    PROVE  Settled'
<1> USE DEF RangeInv, Types, HeldApart, Holds
<1> SUFFICES ASSUME NEW c \in 1..taken, data'[c] # "whole", ~Trouble'
             PROVE  \E v \in Workers : Holds(v)' /\ part'[v] = c
  BY DEF Settled, Trouble
<1>1. c \in Chunks
  BY DownloadAssumption DEF Chunks
<1>2. \A v \in Workers : v # w => wpc'[v] = wpc[v]
  OBVIOUS
<1>3. wpc'[w] = pc /\ pc # "failing" /\ ~Trouble
  BY <1>2 DEF Trouble
<1>4. CASE c = part[w]
  BY <1>3, <1>4
<1>5. CASE c # part[w]
  <2>1. data[c] # "whole"
    BY <1>1, <1>5
  <2>2. PICK v \in Workers : Holds(v) /\ part[v] = c
    BY <1>3, <2>1 DEF Settled
  <2> QED
    BY <1>2, <1>5, <2>2
<1> QED
  BY <1>4, <1>5

\* A worker lets go of a chunk when it is whole, or gives it up.
LEMMA SettledStep == RangeInv /\ [Next]_vars => Settled'
<1> SUFFICES ASSUME RangeInv, [Next]_vars PROVE Settled'
  OBVIOUS
<1> USE DownloadAssumption DEF RangeInv, Settled, Types, HeldApart, StopsForError, Holds, Trouble
<1>1. CASE UNCHANGED vars
  BY <1>1 DEF vars, callVars, poolVars, countVars, workerVars
<1>2. CASE Open \/ OpenFails \/ QueueChunk \/ QueueEnds \/ QueueStops
  BY <1>2 DEF Open, CallerGoes, OpenFails, Returns, QueueChunk, QueueEnds,
     CloseJobs, QueueStops, Cancelled, callVars, poolVars, countVars,
     workerVars
<1>3. CASE JoinFails \/ JoinSucceeds
  BY <1>3 DEF JoinFails, Joined, Returns, JoinSucceeds, CallerGoes, callVars,
     poolVars, countVars, workerVars
<1>4. CASE Commit \/ CommitFails \/ CancelCaller
  BY <1>4 DEF Commit, CallerGoes, CommitFails, Returns, CancelCaller,
     callVars, poolVars, countVars, workerVars
<1>5. ASSUME NEW w \in Workers, Receive(w) \/ Leave(w)
      PROVE  Settled'
  BY <1>5 DEF Receive, WorkerGoes, Leave, callVars, poolVars, countVars,
     workerVars
<1>6. ASSUME NEW w \in Workers, Respond(w) \/ RetryTimer(w) \/ RetryCancelled(w)
      PROVE  Settled'
  BY <1>6 DEF Respond, Cancelled, WorkerGoes, RetryTimer, RetryCancelled,
     callVars, poolVars, countVars, workerVars
<1>7. ASSUME NEW w \in Workers, CopyChunk(w)
      PROVE  Settled'
  <2>1. data'[part[w]] = "whole"
    BY <1>7 DEF CopyChunk, Chunks
  <2> QED
    BY <1>7, <2>1, LetsGo DEF CopyChunk, WorkerGoes, poolVars
<1>8. ASSUME NEW w \in Workers, RequestFails(w)
      PROVE  Settled'
  <2>1. Holds(w) /\ Chunks = 1..ChunkCount
    BY <1>8 DEF RequestFails, Chunks
  <2>2. \A c \in Chunks \ {part[w]} : data'[c] = data[c]
    BY <1>8 DEF RequestFails
  <2>3. PICK pc \in {"backoff", "failing"} : wpc' = [wpc EXCEPT ![w] = pc]
    BY <1>8 DEF RequestFails, AttemptFails, WorkerGoes
  <2>4. UNCHANGED <<taken, errs, part>>
    BY <1>8 DEF RequestFails, AttemptFails, poolVars
  <2> QED
    BY <2>1, <2>2, <2>3, <2>4, LetsGo
<1>9. ASSUME NEW w \in Workers, CopyFails(w)
      PROVE  Settled'
  <2>1. Holds(w) /\ Chunks = 1..ChunkCount
    BY <1>9 DEF CopyFails, CopyBreaks, Chunks
  <2>2. \A c \in Chunks \ {part[w]} : data'[c] = data[c]
    BY <1>9 DEF CopyFails, CopyBreaks
  <2>3. PICK pc \in {"backoff", "failing"} : wpc' = [wpc EXCEPT ![w] = pc]
    BY <1>9 DEF CopyFails, CopyBreaks, AttemptFails, WorkerGoes
  <2>4. UNCHANGED <<taken, errs, part>>
    BY <1>9 DEF CopyFails, CopyBreaks, AttemptFails, poolVars
  <2> QED
    BY <2>1, <2>2, <2>3, <2>4, LetsGo
<1>10. ASSUME NEW w \in Workers, Abort(w)
      PROVE  Settled'
  <2>1. Holds(w) /\ Chunks = 1..ChunkCount
    BY <1>10 DEF Abort, CopyBreaks, Chunks
  <2>2. \A c \in Chunks \ {part[w]} : data'[c] = data[c]
    BY <1>10 DEF Abort, CopyBreaks
  <2>3. PICK pc \in {"backoff", "failing"} : wpc' = [wpc EXCEPT ![w] = pc]
    BY <1>10 DEF Abort, CopyBreaks, AttemptFails, WorkerGoes
  <2>4. UNCHANGED <<taken, errs, part>>
    BY <1>10 DEF Abort, CopyBreaks, AttemptFails, poolVars
  <2> QED
    BY <2>1, <2>2, <2>3, <2>4, LetsGo
<1>11. ASSUME NEW w \in Workers, Add(w) \/ Report(w)
      PROVE  Settled'
  BY <1>11 DEF Add, WorkerGoes, Report, Due, callVars, poolVars, countVars,
     workerVars
<1>12. ASSUME NEW w \in Workers, OfferError(w) \/ CancelAll(w)
      PROVE  Settled'
  BY <1>12 DEF OfferError, WorkerGoes, CancelAll, callVars, poolVars,
     countVars, workerVars
<1> QED
  BY <1>1, <1>2, <1>3, <1>4, <1>5, <1>6, <1>7, <1>8, <1>9, <1>10, <1>11, <1>12
     DEF Next, Caller, Local, Peer

\* The error is offered before the others are cancelled.
LEMMA StopsForErrorStep == RangeInv /\ [Next]_vars => StopsForError'
<1> SUFFICES ASSUME RangeInv, [Next]_vars PROVE StopsForError'
  OBVIOUS
<1> USE DownloadAssumption DEF RangeInv, StopsForError, Types, Errors
<1>1. CASE UNCHANGED vars
  BY <1>1 DEF vars, callVars, poolVars, countVars, workerVars
<1>2. CASE Open \/ OpenFails \/ QueueChunk \/ QueueEnds \/ QueueStops
  BY <1>2 DEF Open, CallerGoes, OpenFails, Returns, QueueChunk, QueueEnds,
     CloseJobs, QueueStops, Cancelled, callVars, poolVars, countVars,
     workerVars
<1>3. CASE JoinFails \/ JoinSucceeds
  BY <1>3 DEF JoinFails, Joined, Returns, JoinSucceeds, CallerGoes, callVars,
     poolVars, countVars, workerVars
<1>4. CASE Commit \/ CommitFails \/ CancelCaller
  BY <1>4 DEF Commit, CallerGoes, CommitFails, Returns, CancelCaller,
     callVars, poolVars, countVars, workerVars
<1>5. ASSUME NEW w \in Workers, Receive(w) \/ Leave(w)
      PROVE  StopsForError'
  BY <1>5 DEF Receive, WorkerGoes, Leave, callVars, poolVars, countVars,
     workerVars
<1>6. ASSUME NEW w \in Workers, Respond(w) \/ RetryTimer(w) \/ RetryCancelled(w)
      PROVE  StopsForError'
  BY <1>6 DEF Respond, Cancelled, WorkerGoes, RetryTimer, RetryCancelled,
     callVars, poolVars, countVars, workerVars
<1>7. ASSUME NEW w \in Workers, CopyChunk(w)
      PROVE  StopsForError'
  BY <1>7 DEF CopyChunk, WorkerGoes, callVars, poolVars, countVars, workerVars
<1>8. ASSUME NEW w \in Workers, RequestFails(w) \/ CopyFails(w)
      PROVE  StopsForError'
  BY <1>8 DEF RequestFails, AttemptFails, WorkerGoes, CopyFails, CopyBreaks,
     callVars, poolVars, countVars, workerVars
<1>9. ASSUME NEW w \in Workers, Abort(w)
      PROVE  StopsForError'
  BY <1>9 DEF Abort, CopyBreaks, AttemptFails, Cancelled, WorkerGoes,
     callVars, poolVars, countVars, workerVars
<1>10. ASSUME NEW w \in Workers, Add(w) \/ Report(w)
      PROVE  StopsForError'
  BY <1>10 DEF Add, WorkerGoes, Report, Due, callVars, poolVars, countVars,
     workerVars
<1>11. ASSUME NEW w \in Workers, OfferError(w) \/ CancelAll(w)
      PROVE  StopsForError'
  BY <1>11 DEF OfferError, WorkerGoes, CancelAll, callVars, poolVars,
     countVars, workerVars
<1> QED
  BY <1>1, <1>2, <1>3, <1>4, <1>5, <1>6, <1>7, <1>8, <1>9, <1>10, <1>11 DEF
     Next, Caller, Local, Peer

\* Chunks are left unqueued or unfetched for a cancel or an error only.
LEMMA EndsForReasonStep == RangeInv /\ [Next]_vars => EndsForReason'
<1> SUFFICES ASSUME RangeInv, [Next]_vars PROVE EndsForReason'
  OBVIOUS
<1> USE DownloadAssumption DEF RangeInv, EndsForReason, Types, StopsForError
<1>1. CASE UNCHANGED vars
  BY <1>1 DEF vars, callVars, poolVars, countVars, workerVars
<1>2. CASE Open \/ OpenFails \/ QueueChunk \/ QueueEnds \/ QueueStops
  BY <1>2 DEF Open, CallerGoes, OpenFails, Returns, QueueChunk, QueueEnds,
     CloseJobs, QueueStops, Cancelled, callVars, poolVars, countVars,
     workerVars
<1>3. CASE JoinFails \/ JoinSucceeds
  BY <1>3 DEF JoinFails, Joined, Returns, JoinSucceeds, CallerGoes, callVars,
     poolVars, countVars, workerVars
<1>4. CASE Commit \/ CommitFails \/ CancelCaller
  BY <1>4 DEF Commit, CallerGoes, CommitFails, Returns, CancelCaller,
     callVars, poolVars, countVars, workerVars
<1>5. ASSUME NEW w \in Workers, Receive(w) \/ Leave(w)
      PROVE  EndsForReason'
  BY <1>5 DEF Receive, WorkerGoes, Leave, callVars, poolVars, countVars,
     workerVars
<1>6. ASSUME NEW w \in Workers, Respond(w) \/ RetryTimer(w) \/ RetryCancelled(w)
      PROVE  EndsForReason'
  BY <1>6 DEF Respond, Cancelled, WorkerGoes, RetryTimer, RetryCancelled,
     callVars, poolVars, countVars, workerVars
<1>7. ASSUME NEW w \in Workers, CopyChunk(w)
      PROVE  EndsForReason'
  BY <1>7 DEF CopyChunk, WorkerGoes, callVars, poolVars, countVars, workerVars
<1>8. ASSUME NEW w \in Workers, RequestFails(w) \/ CopyFails(w)
      PROVE  EndsForReason'
  BY <1>8 DEF RequestFails, AttemptFails, WorkerGoes, CopyFails, CopyBreaks,
     callVars, poolVars, countVars, workerVars
<1>9. ASSUME NEW w \in Workers, Abort(w)
      PROVE  EndsForReason'
  BY <1>9 DEF Abort, CopyBreaks, AttemptFails, Cancelled, WorkerGoes,
     callVars, poolVars, countVars, workerVars
<1>10. ASSUME NEW w \in Workers, Add(w) \/ Report(w)
      PROVE  EndsForReason'
  BY <1>10 DEF Add, WorkerGoes, Report, Due, callVars, poolVars, countVars,
     workerVars
<1>11. ASSUME NEW w \in Workers, OfferError(w) \/ CancelAll(w)
      PROVE  EndsForReason'
  BY <1>11 DEF OfferError, WorkerGoes, CancelAll, callVars, poolVars,
     countVars, workerVars
<1> QED
  BY <1>1, <1>2, <1>3, <1>4, <1>5, <1>6, <1>7, <1>8, <1>9, <1>10, <1>11 DEF
     Next, Caller, Local, Peer

\* wg.Wait comes before whatever follows the download.
LEMMA QuietStep == RangeInv /\ [Next]_vars => Quiet'
<1> SUFFICES ASSUME RangeInv, [Next]_vars PROVE Quiet'
  OBVIOUS
<1> USE DownloadAssumption DEF RangeInv, Quiet, Types
<1>1. CASE UNCHANGED vars
  BY <1>1 DEF vars, callVars, poolVars, countVars, workerVars
<1>2. CASE Open \/ OpenFails \/ QueueChunk \/ QueueEnds \/ QueueStops
  BY <1>2 DEF Open, CallerGoes, OpenFails, Returns, QueueChunk, QueueEnds,
     CloseJobs, QueueStops, Cancelled, callVars, poolVars, countVars,
     workerVars
<1>3. CASE JoinFails \/ JoinSucceeds
  BY <1>3 DEF JoinFails, Joined, Returns, JoinSucceeds, CallerGoes, callVars,
     poolVars, countVars, workerVars
<1>4. CASE Commit \/ CommitFails \/ CancelCaller
  BY <1>4 DEF Commit, CallerGoes, CommitFails, Returns, CancelCaller,
     callVars, poolVars, countVars, workerVars
<1>5. ASSUME NEW w \in Workers, Receive(w) \/ Leave(w)
      PROVE  Quiet'
  BY <1>5 DEF Receive, WorkerGoes, Leave, callVars, poolVars, countVars,
     workerVars
<1>6. ASSUME NEW w \in Workers, Respond(w) \/ RetryTimer(w) \/ RetryCancelled(w)
      PROVE  Quiet'
  BY <1>6 DEF Respond, Cancelled, WorkerGoes, RetryTimer, RetryCancelled,
     callVars, poolVars, countVars, workerVars
<1>7. ASSUME NEW w \in Workers, CopyChunk(w)
      PROVE  Quiet'
  BY <1>7 DEF CopyChunk, WorkerGoes, callVars, poolVars, countVars, workerVars
<1>8. ASSUME NEW w \in Workers, RequestFails(w) \/ CopyFails(w)
      PROVE  Quiet'
  BY <1>8 DEF RequestFails, AttemptFails, WorkerGoes, CopyFails, CopyBreaks,
     callVars, poolVars, countVars, workerVars
<1>9. ASSUME NEW w \in Workers, Abort(w)
      PROVE  Quiet'
  BY <1>9 DEF Abort, CopyBreaks, AttemptFails, Cancelled, WorkerGoes,
     callVars, poolVars, countVars, workerVars
<1>10. ASSUME NEW w \in Workers, Add(w) \/ Report(w)
      PROVE  Quiet'
  BY <1>10 DEF Add, WorkerGoes, Report, Due, callVars, poolVars, countVars,
     workerVars
<1>11. ASSUME NEW w \in Workers, OfferError(w) \/ CancelAll(w)
      PROVE  Quiet'
  BY <1>11 DEF OfferError, WorkerGoes, CancelAll, callVars, poolVars,
     countVars, workerVars
<1> QED
  BY <1>1, <1>2, <1>3, <1>4, <1>5, <1>6, <1>7, <1>8, <1>9, <1>10, <1>11 DEF
     Next, Caller, Local, Peer

\* A worker's cancellation is its caller's, or the echo of an error.
LEMMA CausesStep == RangeInv /\ [Next]_vars => Causes'
<1> SUFFICES ASSUME RangeInv, [Next]_vars PROVE Causes'
  OBVIOUS
<1> USE DownloadAssumption DEF RangeInv, Causes, Types, StopsForError, CanceledMeansCaller
<1>1. CASE UNCHANGED vars
  BY <1>1 DEF vars, callVars, poolVars, countVars, workerVars
<1>2. CASE Open \/ OpenFails \/ QueueChunk \/ QueueEnds \/ QueueStops
  BY <1>2 DEF Open, CallerGoes, OpenFails, Returns, QueueChunk, QueueEnds,
     CloseJobs, QueueStops, Cancelled, callVars, poolVars, countVars,
     workerVars
<1>3. CASE JoinFails \/ JoinSucceeds
  BY <1>3 DEF JoinFails, Joined, Returns, JoinSucceeds, CallerGoes, callVars,
     poolVars, countVars, workerVars
<1>4. CASE Commit \/ CommitFails \/ CancelCaller
  BY <1>4 DEF Commit, CallerGoes, CommitFails, Returns, CancelCaller,
     callVars, poolVars, countVars, workerVars
<1>5. ASSUME NEW w \in Workers, Receive(w) \/ Leave(w)
      PROVE  Causes'
  BY <1>5 DEF Receive, WorkerGoes, Leave, callVars, poolVars, countVars,
     workerVars
<1>6. ASSUME NEW w \in Workers, Respond(w) \/ RetryTimer(w) \/ RetryCancelled(w)
      PROVE  Causes'
  BY <1>6 DEF Respond, Cancelled, WorkerGoes, RetryTimer, RetryCancelled,
     callVars, poolVars, countVars, workerVars
<1>7. ASSUME NEW w \in Workers, CopyChunk(w)
      PROVE  Causes'
  BY <1>7 DEF CopyChunk, WorkerGoes, callVars, poolVars, countVars, workerVars
<1>8. ASSUME NEW w \in Workers, RequestFails(w) \/ CopyFails(w)
      PROVE  Causes'
  BY <1>8 DEF RequestFails, AttemptFails, WorkerGoes, CopyFails, CopyBreaks,
     callVars, poolVars, countVars, workerVars
<1>9. ASSUME NEW w \in Workers, Abort(w)
      PROVE  Causes'
  BY <1>9 DEF Abort, CopyBreaks, AttemptFails, Cancelled, WorkerGoes,
     callVars, poolVars, countVars, workerVars
<1>10. ASSUME NEW w \in Workers, Add(w) \/ Report(w)
      PROVE  Causes'
  BY <1>10 DEF Add, WorkerGoes, Report, Due, callVars, poolVars, countVars,
     workerVars
<1>11. ASSUME NEW w \in Workers, OfferError(w) \/ CancelAll(w)
      PROVE  Causes'
  BY <1>11 DEF OfferError, WorkerGoes, CancelAll, callVars, poolVars,
     countVars, workerVars
<1> QED
  BY <1>1, <1>2, <1>3, <1>4, <1>5, <1>6, <1>7, <1>8, <1>9, <1>10, <1>11 DEF
     Next, Caller, Local, Peer

\* What is reported was counted.
LEMMA CountersStep == RangeInv /\ [Next]_vars => Counters'
<1> SUFFICES ASSUME RangeInv, [Next]_vars PROVE Counters'
  OBVIOUS
<1> USE DownloadAssumption DEF RangeInv, Counters, Types
<1>1. CASE UNCHANGED vars
  BY <1>1 DEF vars, callVars, poolVars, countVars, workerVars
<1>2. CASE Open \/ OpenFails \/ QueueChunk \/ QueueEnds \/ QueueStops
  BY <1>2 DEF Open, CallerGoes, OpenFails, Returns, QueueChunk, QueueEnds,
     CloseJobs, QueueStops, Cancelled, callVars, poolVars, countVars,
     workerVars
<1>3. CASE JoinFails \/ JoinSucceeds
  BY <1>3 DEF JoinFails, Joined, Returns, JoinSucceeds, CallerGoes, callVars,
     poolVars, countVars, workerVars
<1>4. CASE Commit \/ CommitFails \/ CancelCaller
  BY <1>4 DEF Commit, CallerGoes, CommitFails, Returns, CancelCaller,
     callVars, poolVars, countVars, workerVars
<1>5. ASSUME NEW w \in Workers, Receive(w) \/ Leave(w)
      PROVE  Counters'
  BY <1>5 DEF Receive, WorkerGoes, Leave, callVars, poolVars, countVars,
     workerVars
<1>6. ASSUME NEW w \in Workers, Respond(w) \/ RetryTimer(w) \/ RetryCancelled(w)
      PROVE  Counters'
  BY <1>6 DEF Respond, Cancelled, WorkerGoes, RetryTimer, RetryCancelled,
     callVars, poolVars, countVars, workerVars
<1>7. ASSUME NEW w \in Workers, CopyChunk(w)
      PROVE  Counters'
  BY <1>7 DEF CopyChunk, WorkerGoes, callVars, poolVars, countVars, workerVars
<1>8. ASSUME NEW w \in Workers, RequestFails(w) \/ CopyFails(w)
      PROVE  Counters'
  BY <1>8 DEF RequestFails, AttemptFails, WorkerGoes, CopyFails, CopyBreaks,
     callVars, poolVars, countVars, workerVars
<1>9. ASSUME NEW w \in Workers, Abort(w)
      PROVE  Counters'
  BY <1>9 DEF Abort, CopyBreaks, AttemptFails, Cancelled, WorkerGoes,
     callVars, poolVars, countVars, workerVars
<1>10. ASSUME NEW w \in Workers, Add(w)
      PROVE  Counters'
  BY <1>10 DEF Add, WorkerGoes, callVars, poolVars, countVars, workerVars
<1>11. ASSUME NEW w \in Workers, Report(w)
      PROVE  Counters'
  <2>1. UNCHANGED <<dpc, downloaded, current>> /\ reported' \in {reported, current[w]}
    BY <1>11 DEF Report, callVars
  <2>2. dpc # "commit"
    BY <1>11 DEF Report, Quiet
  <2> QED
    BY <2>1, <2>2
<1>12. ASSUME NEW w \in Workers, OfferError(w) \/ CancelAll(w)
      PROVE  Counters'
  BY <1>12 DEF OfferError, WorkerGoes, CancelAll, callVars, poolVars,
     countVars, workerVars
<1> QED
  BY <1>1, <1>2, <1>3, <1>4, <1>5, <1>6, <1>7, <1>8, <1>9, <1>10, <1>11, <1>12
     DEF Next, Caller, Local, Peer

\* A join that succeeds finds every chunk received and whole.
LEMMA WholeStep == RangeInv /\ [Next]_vars => CommittedIsWhole'
<1> SUFFICES ASSUME RangeInv, [Next]_vars PROVE CommittedIsWhole'
  OBVIOUS
<1> USE DownloadAssumption DEF RangeInv, CommittedIsWhole, Types, Settled, EndsForReason, Quiet, Holds, Trouble, Chunks
<1>1. CASE UNCHANGED vars
  BY <1>1 DEF vars, callVars, poolVars, countVars, workerVars
<1>2. CASE Open \/ OpenFails \/ QueueChunk \/ QueueEnds \/ QueueStops
  BY <1>2 DEF Open, CallerGoes, OpenFails, Returns, QueueChunk, QueueEnds,
     CloseJobs, QueueStops, Cancelled, callVars, poolVars, countVars,
     workerVars
<1>3. CASE JoinFails
  BY <1>3 DEF JoinFails, Joined, Returns, callVars, poolVars, countVars,
     workerVars
<1>4. CASE JoinSucceeds
  <2>1. \A w \in Workers : wpc[w] = "exit"
    BY <1>4 DEF JoinSucceeds, Joined
  <2>2. ~Trouble
    BY <1>4, <2>1 DEF JoinSucceeds
  <2>3. queued = ChunkCount
    BY <1>4 DEF JoinSucceeds, Joined
  <2>4. taken = ChunkCount
    <3>1. Workers # {}
      BY DownloadAssumption, FS_EmptySet
    <3> QED
      BY <1>4, <2>1, <2>3, <3>1 DEF JoinSucceeds
  <2>5. \A c \in Chunks : data[c] = "whole"
    BY <2>1, <2>2, <2>4
  <2> QED
    BY <1>4, <2>5 DEF JoinSucceeds
<1>5. CASE Commit \/ CommitFails \/ CancelCaller
  BY <1>5 DEF Commit, CallerGoes, CommitFails, Returns, CancelCaller,
     callVars, poolVars, countVars, workerVars
<1>6. ASSUME NEW w \in Workers, Receive(w) \/ Leave(w)
      PROVE  CommittedIsWhole'
  BY <1>6 DEF Receive, WorkerGoes, Leave, callVars, poolVars, countVars,
     workerVars
<1>7. ASSUME NEW w \in Workers, Respond(w) \/ RetryTimer(w) \/ RetryCancelled(w)
      PROVE  CommittedIsWhole'
  BY <1>7 DEF Respond, Cancelled, WorkerGoes, RetryTimer, RetryCancelled,
     callVars, poolVars, countVars, workerVars
<1>8. ASSUME NEW w \in Workers, CopyChunk(w)
      PROVE  CommittedIsWhole'
  BY <1>8 DEF CopyChunk, WorkerGoes, callVars, poolVars, countVars, workerVars
<1>9. ASSUME NEW w \in Workers, RequestFails(w) \/ CopyFails(w)
      PROVE  CommittedIsWhole'
  BY <1>9 DEF RequestFails, AttemptFails, WorkerGoes, CopyFails, CopyBreaks,
     callVars, poolVars, countVars, workerVars
<1>10. ASSUME NEW w \in Workers, Abort(w)
      PROVE  CommittedIsWhole'
  BY <1>10 DEF Abort, CopyBreaks, AttemptFails, Cancelled, WorkerGoes,
     callVars, poolVars, countVars, workerVars
<1>11. ASSUME NEW w \in Workers, Add(w) \/ Report(w)
      PROVE  CommittedIsWhole'
  BY <1>11 DEF Add, WorkerGoes, Report, Due, callVars, poolVars, countVars,
     workerVars
<1>12. ASSUME NEW w \in Workers, OfferError(w) \/ CancelAll(w)
      PROVE  CommittedIsWhole'
  BY <1>12 DEF OfferError, WorkerGoes, CancelAll, callVars, poolVars,
     countVars, workerVars
<1> QED
  BY <1>1, <1>2, <1>3, <1>4, <1>5, <1>6, <1>7, <1>8, <1>9, <1>10, <1>11, <1>12
     DEF Next, Caller, Local, Peer

\* A download that is about to begin satisfies the invariant.
LEMMA RangeInvInit == Init => RangeInv
<1> SUFFICES ASSUME Init PROVE RangeInv
  OBVIOUS
<1>1. Types
  <2>1. queued = 0 /\ taken = 0 /\ 0 \in 0..ChunkCount /\ 0 \in 0..queued
    BY DownloadAssumption DEF Init
  <2>2. /\ wpc \in [Workers -> {"recv", "request", "body", "backoff", "add",
                               "report", "failing", "cancel", "exit"}]
        /\ part \in [Workers -> 0..ChunkCount] /\ current \in [Workers -> Nat]
        /\ lastErr \in [Workers -> Errors \cup {"none"}]
        /\ data \in [Chunks -> {"hole", "torn", "whole"}]
    BY <2>1 DEF Init
  <2> QED
    BY <2>1, <2>2 DEF Init, Types
<1>2. HeldApart /\ Settled /\ StopsForError
  BY DEF Init, HeldApart, Holds, Settled, StopsForError
<1>3. EndsForReason /\ Quiet
  BY DEF Init, EndsForReason, Quiet
<1>4. Causes /\ Counters /\ CommittedIsWhole
  BY DEF Init, Causes, CanceledMeansCaller, Counters, CommittedIsWhole
<1> QED
  BY <1>1, <1>2, <1>3, <1>4 DEF RangeInv

\* Every step keeps the invariant.
LEMMA RangeInvStep == RangeInv /\ [Next]_vars => RangeInv'
  BY TypesStep, HeldApartStep, SettledStep, StopsForErrorStep, EndsForReasonStep,
     QuietStep, CausesStep, CountersStep, WholeStep DEF RangeInv

\* The invariant of the download (range_downloader.go:111-164).
THEOREM RangeInvariant == Spec => []RangeInv
  BY RangeInvInit, RangeInvStep, PTL DEF Spec

\* A file that is renamed into place is complete, for any number of chunks,
\* goroutines and attempts (range_downloader.go:77-85).
THEOREM CommittedIsWholeAlways == Spec => []CommittedIsWhole
<1>1. RangeInv => CommittedIsWhole
  BY DEF RangeInv
<1> QED
  BY <1>1, RangeInvariant, PTL

\* The error of a download that nobody cancelled is never a cancellation
\* (range_downloader.go:136-142, 151-158).
THEOREM CanceledMeansCallerAlways == Spec => []CanceledMeansCaller
<1>1. RangeInv => CanceledMeansCaller
  BY DEF RangeInv, Causes
<1> QED
  BY <1>1, RangeInvariant, PTL

\* After wg.Wait nothing is written to the file (range_downloader.go:150).
THEOREM NoWriteAfterJoinAlways == Spec => NoWriteAfterJoin
<1>1. ASSUME RangeInv, [Next]_vars, dpc \notin {"queue", "wait"} PROVE data' = data
  <2>1. \A w \in Workers : wpc[w] \in {"exit", "recv"}
    BY <1>1 DEF RangeInv, Quiet
  <2>2. CASE UNCHANGED vars
    BY <2>2 DEF vars
  <2>3. CASE Open \/ OpenFails \/ Caller \/ CommitFails \/ CancelCaller
    BY <2>3 DEF Open, OpenFails, Caller, CommitFails, CancelCaller, Returns, QueueChunk,
         QueueEnds, QueueStops, CloseJobs, JoinFails, JoinSucceeds, Commit
  <2>4. ASSUME NEW w \in Workers, Local(w) PROVE data' = data
    BY <2>1, <2>4 DEF Local, Receive, Leave, Abort, CopyBreaks, RetryTimer, RetryCancelled,
         Add, Report, OfferError, CancelAll
  <2>5. ASSUME NEW w \in Workers, Peer(w) PROVE data' = data
    BY <2>1, <2>5 DEF Peer, Respond, RequestFails, CopyChunk, CopyFails, CopyBreaks
  <2> QED
    BY <1>1, <2>2, <2>3, <2>4, <2>5 DEF Next
<1>2. RangeInv /\ [Next]_vars => [dpc \notin {"queue", "wait"} => data' = data]_vars
  BY <1>1
<1> QED
  BY <1>2, RangeInvariant, PTL DEF Spec, NoWriteAfterJoin

\* Progress goes forward, stays within what has arrived and is complete at
\* the end (range_worker.go:46-72), in whatever order workers report.
THEOREM ReportsForwardAlways == Spec => ReportsForward
<1> DEFINE Forward == /\ reported <= reported' /\ reported' <= downloaded'
                      /\ dpc' = "commit" => reported' = ChunkCount
<1>1. ASSUME RangeInv, Counters', [Next]_vars PROVE Forward
  <2>1. reported' <= downloaded' /\ (dpc' = "commit" => reported' = ChunkCount)
    BY <1>1 DEF Counters
  <2>2. reported \in Nat /\ downloaded \in Nat
    BY <1>1 DEF RangeInv, Types
  <2>3. CASE JoinSucceeds
    BY <2>1, <2>2, <2>3 DEF JoinSucceeds
  <2>4. ASSUME NEW w \in Workers, Report(w) PROVE Forward
    <3>1. current[w] \in Nat
      BY <1>1 DEF RangeInv, Types
    <3> QED
      BY <2>1, <2>2, <2>4, <3>1 DEF Report, Due
  <2>5. CASE UNCHANGED reported
    BY <2>1, <2>2, <2>5
  <2>6. JoinSucceeds \/ (\E w \in Workers : Report(w)) \/ UNCHANGED reported
    BY <1>1 DEF Next, Caller, Local, Peer, Open, OpenFails, QueueChunk, QueueEnds, QueueStops,
         CloseJobs, Returns, JoinFails, Commit, CommitFails, CancelCaller, Receive, Leave,
         Abort, CopyBreaks, AttemptFails, RetryTimer, RetryCancelled, Add, OfferError,
         CancelAll, Respond, RequestFails, CopyChunk, CopyFails, vars, countVars
  <2> QED
    BY <2>3, <2>4, <2>5, <2>6
<1>2. RangeInv /\ RangeInv' /\ [Next]_vars => [Forward]_vars
  BY <1>1 DEF RangeInv
<1> QED
  BY <1>2, RangeInvariant, PTL DEF Spec, ReportsForward
=============================================================================
