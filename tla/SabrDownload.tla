---------------------------- MODULE SabrDownload ----------------------------
(***************************************************************************)
(* The SABR downloader (internal/sabr): Download fetches an audio and a    *)
(* video track as a number of parts, each one stream that interleaves the  *)
(* two, assembles the tracks from the part files and renames them into     *)
(* place.  When a plan of several parts fails, a plan of one part follows. *)
(*                                                                         *)
(* A part carries one frame per frame of the plan's share; progress counts *)
(* frames.  The audio and the video file of a part are written by the same *)
(* stream and stand as one value: none, torn or whole.                     *)
(***************************************************************************)
EXTENDS Integers, FiniteSets

CONSTANTS
    Workers,      \* goroutines of the pool (maxConcurrentPartDownloads)
    Parts,        \* downloadPartCount: parts, and frames, of the first plan
    PartAttempts  \* attempts of a part (partAttempts)

ASSUME SabrAssumption ==
    /\ Parts \in Nat \ {0} /\ PartAttempts \in Nat \ {0}
    /\ IsFiniteSet(Workers) /\ Workers # {}

VARIABLES
    dpc,        \* the calling goroutine: where it is in Download
    plan,       \* index of the plan in use
    err,        \* the error of the plan in use, or "none"
    ctx,        \* the caller's context is cancelled
    stopped,    \* the plan's context has been cancelled by a worker
    next,       \* parts received from partJobs
    failures,   \* the errors in the channel failures
    file,       \* per part: its part files
    assembled,  \* per track: its .download file
    target,     \* per track: the file under its final name
    downloaded, \* reporter.downloaded
    wpc,        \* per worker: where it is in its loop
    part,       \* per worker: the part it has received
    tries,      \* per worker: failed attempts of that part
    counted,    \* per worker: partProgress.bytes of the current attempt
    lastErr     \* per worker: the error of the last failed attempt

callVars   == <<dpc, plan, err>>
poolVars   == <<stopped, next, failures>>
fileVars   == <<file, assembled, target>>
workerVars == <<wpc, part, tries, counted, lastErr>>
vars       == <<callVars, ctx, poolVars, fileVars, downloaded, workerVars>>

Tracks    == {"audio", "video"}
Content   == {"none", "torn", "whole"}
PlanParts == IF plan = 1 THEN Parts ELSE 1
Size      == IF plan = 1 THEN 1 ELSE Parts
Errors    == {"io", "canceled"}

SabrTypeOK ==
    /\ dpc \in {"begin", "parts", "audio", "video", "renameAudio",
                "renameVideo", "cleanup", "delay", "done", "failed"}
    /\ plan \in 1..2 /\ err \in Errors \cup {"none"}
    /\ ctx \in BOOLEAN /\ stopped \in BOOLEAN
    /\ next \in 0..Parts /\ failures \subseteq Errors
    /\ file \in [0..Parts - 1 -> Content]
    /\ assembled \in [Tracks -> Content] /\ target \in [Tracks -> Content]
    /\ downloaded \in 0..Parts
    /\ wpc \in [Workers -> {"next", "request", "stream", "rollback",
                            "delay", "failing", "cancel", "exit"}]
    /\ part \in [Workers -> 0..Parts - 1]
    /\ tries \in [Workers -> 0..PartAttempts]
    /\ counted \in [Workers -> 0..Parts]
    /\ lastErr \in [Workers -> Errors \cup {"none"}]

Init ==
    /\ dpc = "begin" /\ plan = 1 /\ err = "none"
    /\ ctx = FALSE /\ stopped = FALSE
    /\ next = 0 /\ failures = {}
    /\ file = [p \in 0..Parts - 1 |-> "none"]
    /\ assembled = [t \in Tracks |-> "none"] /\ target = [t \in Tracks |-> "none"]
    /\ downloaded = 0
    /\ wpc = [w \in Workers |-> "exit"] /\ part = [w \in Workers |-> 0]
    /\ tries = [w \in Workers |-> 0] /\ counted = [w \in Workers |-> 0]
    /\ lastErr = [w \in Workers |-> "none"]

Cancelled == ctx \/ stopped

-----------------------------------------------------------------------------
(* The calling goroutine.                                                  *)

CallerGoes(pc, e) == dpc' = pc /\ err' = e /\ UNCHANGED plan

\* A plan starts: reporter.beginAttempt resets the counter, the parts are in
\* the closed channel and one worker per part starts, up to the bound.
Begin ==
    /\ dpc = "begin"
    /\ CallerGoes("parts", "none")
    /\ downloaded' = 0
    /\ stopped' = FALSE /\ next' = 0 /\ failures' = {}
    /\ \E started \in SUBSET Workers :
          /\ started = Workers \/ Cardinality(started) = PlanParts
          /\ Cardinality(started) <= PlanParts
          /\ wpc' = [w \in Workers |-> IF w \in started THEN "next" ELSE "exit"]
    /\ UNCHANGED <<ctx, fileVars, part, tries, counted, lastErr>>

\* Mutant: whatever error comes first in the channel.
FirstFailure_Any == IF "canceled" \in failures THEN "canceled" ELSE "io"

\* An error of a part's own, and a sibling's cancellation only without one.
FirstFailure == IF "io" \in failures THEN "io" ELSE "canceled"

Join ==
    /\ dpc = "parts" /\ \A w \in Workers : wpc[w] = "exit"
    /\ IF failures # {} \/ Cancelled
       THEN CallerGoes("cleanup", FirstFailure)
       ELSE CallerGoes("audio", "none")
    /\ UNCHANGED <<ctx, poolVars, fileVars, downloaded, workerVars>>

\* The concatenation of the plan's parts, in order.
Assembled == IF \A p \in 0..PlanParts - 1 : file[p] = "whole" THEN "whole" ELSE "torn"

Assemble(t, pc) ==
    /\ dpc = t
    /\ assembled' = [assembled EXCEPT ![t] = Assembled]
    /\ CallerGoes(pc, "none")
    /\ UNCHANGED <<ctx, poolVars, file, target, downloaded, workerVars>>

RenameTrack(t, here, pc) ==
    /\ dpc = here
    /\ target' = [target EXCEPT ![t] = assembled[t]]
    /\ assembled' = [assembled EXCEPT ![t] = "none"]
    /\ CallerGoes(pc, "none")
    /\ UNCHANGED <<ctx, poolVars, file, downloaded, workerVars>>

\* A failed assembly or rename; what is renamed already stays.
FinishFails ==
    /\ dpc \in {"audio", "video", "renameAudio", "renameVideo"}
    /\ CallerGoes("cleanup", "io")
    /\ UNCHANGED <<ctx, poolVars, fileVars, downloaded, workerVars>>

\* Mutant: the last part file is forgotten.
RemoveParts_OneShort == [p \in 0..Parts - 1 |-> IF p < PlanParts - 1 THEN "none" ELSE file[p]]

RemoveParts == [p \in 0..Parts - 1 |-> IF p < PlanParts THEN "none" ELSE file[p]]

\* The deferred cleanup, then what Download makes of the plan's outcome.
Cleanup ==
    /\ dpc = "cleanup"
    /\ file' = RemoveParts
    /\ assembled' = [t \in Tracks |-> "none"]
    /\ \/ err = "none" /\ CallerGoes("done", "none")
       \/ err # "none" /\ ctx /\ CallerGoes("failed", "canceled")
       \/ err # "none" /\ ~ctx /\ plan = 1 /\ Parts > 1 /\ CallerGoes("delay", err)
       \/ err # "none" /\ ~ctx /\ (plan = 2 \/ Parts = 1) /\ CallerGoes("failed", err)
    /\ UNCHANGED <<ctx, poolVars, target, downloaded, workerVars>>

FallBack ==
    /\ dpc = "delay"
    /\ dpc' = "begin" /\ plan' = 2 /\ UNCHANGED err
    /\ UNCHANGED <<ctx, poolVars, fileVars, downloaded, workerVars>>

GiveUp ==
    /\ dpc = "delay" /\ ctx
    /\ CallerGoes("failed", "canceled")
    /\ UNCHANGED <<ctx, poolVars, fileVars, downloaded, workerVars>>

-----------------------------------------------------------------------------
(* A worker.                                                               *)

WorkerGoes(w, pc) == wpc' = [wpc EXCEPT ![w] = pc]

\* The part is received before the context is looked at, and then dropped.
TakePart(w) ==
    /\ wpc[w] = "next" /\ next < PlanParts
    /\ next' = next + 1
    /\ part' = [part EXCEPT ![w] = next]
    /\ tries' = [tries EXCEPT ![w] = 0]
    /\ WorkerGoes(w, IF Cancelled THEN "exit" ELSE "request")
    /\ UNCHANGED <<callVars, ctx, stopped, failures, fileVars, downloaded, counted, lastErr>>

NoPart(w) ==
    /\ wpc[w] = "next" /\ next = PlanParts
    /\ WorkerGoes(w, "exit")
    /\ UNCHANGED <<callVars, ctx, poolVars, fileVars, downloaded, part, tries, counted, lastErr>>

\* An attempt ends in an error.  A cancelled context is the cause of most of
\* them; an idle timeout and a broken stream are errors of their own.
AttemptFails(w) ==
    /\ \E e \in Errors : (e = "canceled" => Cancelled) /\ lastErr' = [lastErr EXCEPT ![w] = e]
    /\ tries' = [tries EXCEPT ![w] = @ + 1]
    /\ WorkerGoes(w, "rollback")
    /\ UNCHANGED <<callVars, ctx, poolVars, assembled, target, downloaded, part, counted>>

\* The answer is accepted and the part files are created, empty.
Respond(w) ==
    /\ wpc[w] = "request" /\ ~Cancelled
    /\ file' = [file EXCEPT ![part[w]] = "torn"]
    /\ WorkerGoes(w, "stream")
    /\ UNCHANGED <<callVars, ctx, poolVars, assembled, target, downloaded, part, tries, counted, lastErr>>

\* A refused request, or an answer whose part files cannot be created.
RequestFails(w) ==
    /\ wpc[w] = "request"
    /\ \E left \in {file[part[w]], "torn"} : file' = [file EXCEPT ![part[w]] = left]
    /\ AttemptFails(w)

\* consumeFrame, and the atomic addition of reporter.add.  What add reports to
\* the client is left out; RangeDownload has the same reports.
Frame(w) ==
    /\ wpc[w] = "stream" /\ counted[w] < Size
    /\ counted' = [counted EXCEPT ![w] = @ + 1]
    /\ downloaded' = downloaded + 1
    /\ UNCHANGED <<callVars, ctx, poolVars, fileVars, wpc, part, tries, lastErr>>

\* Mutant: a stream that ends without its completion frame is complete.
Complete_Early(w) ==
    /\ wpc[w] = "stream"
    /\ file' = [file EXCEPT ![part[w]] = IF counted[w] = Size THEN "whole" ELSE "torn"]
    /\ counted' = [counted EXCEPT ![w] = 0]
    /\ WorkerGoes(w, "next")
    /\ UNCHANGED <<callVars, ctx, poolVars, assembled, target, downloaded, part, tries, lastErr>>

\* The completion frame, the end of the stream and the close of the files.
Complete(w) ==
    /\ wpc[w] = "stream" /\ counted[w] = Size
    /\ file' = [file EXCEPT ![part[w]] = "whole"]
    /\ counted' = [counted EXCEPT ![w] = 0]
    /\ WorkerGoes(w, "next")
    /\ UNCHANGED <<callVars, ctx, poolVars, assembled, target, downloaded, part, tries, lastErr>>

StreamBreaks(w) == wpc[w] = "stream" /\ AttemptFails(w) /\ UNCHANGED file

\* Mutant: no watchdog, a cancelled context alone ends a stalled stream.
Unblock_NoWatchdog(w) == Cancelled /\ (RequestFails(w) \/ StreamBreaks(w))

\* The watchdog's timer, or a cancelled context, ends a request or a stream
\* that nothing arrives on.
Unblock(w) == RequestFails(w) \/ StreamBreaks(w)

\* Mutant: the bytes of the failed attempt stay counted.
Rollback_Missing(w) ==
    /\ wpc[w] = "rollback"
    /\ counted' = [counted EXCEPT ![w] = 0]
    /\ WorkerGoes(w, IF Cancelled \/ tries[w] = PartAttempts THEN "failing" ELSE "delay")
    /\ UNCHANGED <<callVars, ctx, poolVars, fileVars, downloaded, part, tries, lastErr>>

\* partProgress.rollback goes through reporter.add.
Rollback(w) ==
    /\ wpc[w] = "rollback"
    /\ downloaded' = downloaded - counted[w]
    /\ counted' = [counted EXCEPT ![w] = 0]
    /\ WorkerGoes(w, IF Cancelled \/ tries[w] = PartAttempts THEN "failing" ELSE "delay")
    /\ UNCHANGED <<callVars, ctx, poolVars, fileVars, part, tries, lastErr>>

RetryTimer(w) ==
    /\ wpc[w] = "delay"
    /\ WorkerGoes(w, "request")
    /\ UNCHANGED <<callVars, ctx, poolVars, fileVars, downloaded, part, tries, counted, lastErr>>

RetryCancelled(w) ==
    /\ wpc[w] = "delay" /\ Cancelled
    /\ lastErr' = [lastErr EXCEPT ![w] = "canceled"]
    /\ WorkerGoes(w, "failing")
    /\ UNCHANGED <<callVars, ctx, poolVars, fileVars, downloaded, part, tries, counted>>

\* The channel failures has room for every part's error.
Offer(w) ==
    /\ wpc[w] = "failing"
    /\ failures' = failures \cup {lastErr[w]}
    /\ WorkerGoes(w, "cancel")
    /\ UNCHANGED <<callVars, ctx, stopped, next, fileVars, downloaded, part, tries, counted, lastErr>>

CancelAll(w) ==
    /\ wpc[w] = "cancel"
    /\ stopped' = TRUE
    /\ WorkerGoes(w, "exit")
    /\ UNCHANGED <<callVars, ctx, next, failures, fileVars, downloaded, part, tries, counted, lastErr>>

-----------------------------------------------------------------------------
CancelCaller ==
    /\ ~ctx
    /\ ctx' = TRUE
    /\ UNCHANGED <<callVars, poolVars, fileVars, downloaded, workerVars>>

Caller ==
    \/ Begin \/ Join \/ Assemble("audio", "video") \/ Assemble("video", "renameAudio")
    \/ RenameTrack("audio", "renameAudio", "renameVideo")
    \/ RenameTrack("video", "renameVideo", "cleanup")
    \/ Cleanup \/ FallBack \/ GiveUp

Local(w) ==
    \/ TakePart(w) \/ NoPart(w) \/ Unblock(w) \/ Rollback(w)
    \/ RetryTimer(w) \/ RetryCancelled(w) \/ Offer(w) \/ CancelAll(w)

Peer(w) == Respond(w) \/ Frame(w) \/ Complete(w)

Next ==
    \/ Caller \/ FinishFails \/ CancelCaller
    \/ \E w \in Workers : Local(w) \/ Peer(w)

Spec == Init /\ [][Next]_vars

\* Goroutines run and timers fire, the idle watchdog's among them; a peer may
\* never answer, or stop in the middle of a stream.
Fairness == WF_vars(Caller) /\ \A w \in Workers : WF_vars(Local(w))

FairSpec == Spec /\ Fairness

-----------------------------------------------------------------------------
\* A track gets its final name only when it is complete, and a download that
\* succeeds has placed both, whichever plan and however many retries it took.
TargetsWhole ==
    /\ \A t \in Tracks : target[t] # "torn"
    /\ dpc = "done" => \A t \in Tracks : target[t] = "whole"

\* Cancellation is reported only of a caller that was cancelled: a failed part
\* cancels its siblings, and their errors never hide its own.
CanceledMeansCaller == err = "canceled" => ctx

PartsComplete == {p \in 0..Parts - 1 : file[p] = "whole"}

\* The frames that the attempts in progress have counted, by worker.
Frames(c) == {f \in Workers \X (1..Parts) : f[2] <= c[f[1]]}

\* While parts come in the counter is exact, whatever was rolled back: the
\* frames of the attempts in progress and of the parts that are complete.
CounterExact ==
    dpc = "parts" =>
        downloaded = Cardinality(Frames(counted)) + Size * Cardinality(PartsComplete)

\* No part file and no .download file outlives the call.
NoTemporaries ==
    dpc \in {"done", "failed"} =>
        /\ \A p \in 0..Parts - 1 : file[p] = "none"
        /\ \A t \in Tracks : assembled[t] = "none"

\* Download returns although peers stop answering, cancelled or not.
DownloadReturns == dpc = "begin" ~> dpc \in {"done", "failed"}
=============================================================================
