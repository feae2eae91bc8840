------------------------------- MODULE JobRun -------------------------------
(***************************************************************************)
(* What a worker does between Start and Done or Fail (Runner.run and what  *)
(* it calls in internal/pipeline), for several jobs at once: the tracks    *)
(* are picked, disk space is reserved, the tracks are downloaded, muxed    *)
(* and saved, the work files are removed and the reservation is dropped.   *)
(* The runs share one disk, which the reservations of internal/storage     *)
(* divide among them and the hourly cleaner of internal/cleanup sweeps.    *)
(*                                                                         *)
(* JobService has a run in three steps, RangeDownload and SabrDownload     *)
(* have one transfer in detail; here a transfer is a file that grows.      *)
(***************************************************************************)
EXTENDS Selector, Functions, FiniteSets

CONSTANTS
    Jobs,
    Options,      \* the options of each job's request
    Responses,    \* what TypeType-API may answer about the media of each job
    NoStream,     \* no response yet
    DiskBytes,    \* size of the file system that holds DATA_DIR
    MinFree,      \* what must stay free: max(minFreeBytes, total*percent/100)
    MaxBytes,     \* 2^64 - 1
    Backends,     \* artifact stores to choose from: "local", "s3"
    Muxer,        \* "avformat" or "ffmpeg"
    MaxCrashes    \* bound: kills of the process in a behaviour

ASSUME RunAssumption ==
    /\ IsFiniteSet(Jobs) /\ Options \in [Jobs -> RequestOptions]
    /\ NoItem \notin VideoItem \cup AudioItem
    /\ \A j \in Jobs : NoStream \notin Responses[j]
    /\ \A j \in Jobs : \A r \in Responses[j] :
         /\ r.videos \in Seq(VideoItem) /\ r.audios \in Seq(AudioItem)
         /\ r.duration \in Nat
    /\ DiskBytes \in Nat /\ MinFree \in 0..MaxBytes
    /\ MaxBytes \in Nat /\ DiskBytes < MaxBytes
    /\ Backends \subseteq {"local", "s3"} /\ Muxer \in {"avformat", "ffmpeg"}
    /\ MaxCrashes \in Nat

VARIABLES
    backend,       \* the artifact store in use; it never changes
    pc,            \* per job: where its run is
    stream,        \* per job: the response its tracks were picked from
    selection,     \* per job: the tracks picked
    task,          \* per job: state of the direct download of each track
    tries,         \* per job: failed attempts of the current retry
    disk,          \* per job: its files and the bytes each occupies
    unlinked,      \* per job: open files whose name the cleaner removed
    reservations,  \* Monitor.reservations; 0 is no entry
    outcome,       \* per job: "none", or the status the run ended in
    object,        \* per job: bytes of the object its run has stored in S3
    cancelled,     \* jobs whose context is done
    left,          \* history: per job, files that a kill left behind
    crashes        \* kills so far

runVars == <<backend, pc, stream, selection, task, tries, disk, unlinked,
             reservations, outcome, object, cancelled, left, crashes>>

\* In "picked" the run asks for space; then "tracks" (range downloads),
\* "sabr", "parts" and "join" (SABR), "make" and "making" (an attempt to produce the
\* output file), "save" and "saving", "saved", "tidy" (the deferred calls).
Active == {"picked", "tracks", "sabr", "parts", "join", "make", "making", "save",
           "saving", "saved", "tidy"}

Tracks == {"video", "audio", "output"}
PartOf == [video |-> "video.part", audio |-> "audio.part", output |-> "output.part"]

\* `parts` and `join` stand for the .download.part-NN files of a SABR
\* download and for the .download files they are assembled into.
Names == Tracks \cup {PartOf[t] : t \in Tracks} \cup {"parts", "join"}

NoFiles == [f \in {} |-> 0]
NoSelection == [video |-> NoItem, audio |-> NoItem]

Init ==
    /\ backend \in Backends
    /\ pc = [j \in Jobs |-> "idle"]
    /\ stream = [j \in Jobs |-> NoStream]
    /\ selection = [j \in Jobs |-> NoSelection]
    /\ task = [j \in Jobs |-> [t \in Tracks |-> "new"]]
    /\ tries = [j \in Jobs |-> 0]
    /\ disk = [j \in Jobs |-> NoFiles]
    /\ unlinked = [j \in Jobs |-> {}]
    /\ reservations = [j \in Jobs |-> 0]
    /\ outcome = [j \in Jobs |-> "none"]
    /\ object = [j \in Jobs |-> 0]
    /\ cancelled = {}
    /\ left = [j \in Jobs |-> {}]
    /\ crashes = 0

-----------------------------------------------------------------------------
(* The run's plan.                                                         *)

AudioOnly(j) == Options[j].mode = "audio"
Items(j) == IF AudioOnly(j) THEN {selection[j].audio} ELSE {selection[j].video, selection[j].audio}

\* The track a run downloads is a work file, or the output itself.
Downloads(j) == IF AudioOnly(j) THEN {"output"} ELSE {"video", "audio"}

MainItem(j) == IF AudioOnly(j) THEN selection[j].audio ELSE selection[j].video

Route(j) ==
    IF MainItem(j).delivery = "sabr" THEN "sabr"
    ELSE IF ~AudioOnly(j) /\ \E s \in Items(j) : s.url = "hls" THEN "remoteMux"
    ELSE IF \E s \in Items(j) : s.length = 0 THEN "remote"
    ELSE "direct"

Remote(j) == Route(j) \in {"remote", "remoteMux"}

\* The bytes a file has when it is whole.
Item(j, t) == IF t = "video" THEN selection[j].video ELSE selection[j].audio
MediaSize(j) == IF AudioOnly(j) THEN selection[j].audio.size
                ELSE selection[j].video.size + selection[j].audio.size
Whole(j, f) ==
    IF f \in {"output", "parts", "join"} THEN MediaSize(j)
    ELSE Item(j, IF f \in {"video", "video.part"} THEN "video" ELSE "audio").size

-----------------------------------------------------------------------------
(* The disk and the reservations.                                          *)

Sum(f) == FoldFunction(+, 0, f)
Free == DiskBytes - Sum([j \in Jobs |-> Sum(disk[j])])

saturatedAdd(a, b) == IF MaxBytes - a < b THEN MaxBytes ELSE a + b

mediaBytes(s, duration) ==
    IF s.length > 0 THEN s.length
    ELSE IF s.bitrate = 0 \/ duration = 0 THEN 0
    ELSE IF s.bitrate > MaxBytes \div duration THEN MaxBytes
    ELSE (s.bitrate * duration) \div 8

scaledBytes(bytes, tenths) ==
    IF bytes > MaxBytes \div tenths THEN MaxBytes ELSE (bytes * tenths) \div 10

\* The downloaded tracks and the output exist side by side on these routes.
peakTenths(j) ==
    IF \/ MainItem(j).delivery = "sabr"
       \/ ~AudioOnly(j) /\ Route(j) = "direct"
    THEN 21 ELSE 11

ReservationBytes(j) ==
    LET estimate(s) == mediaBytes(s, stream[j].duration)
        audio == estimate(selection[j].audio)
    IN  scaledBytes(IF AudioOnly(j) THEN audio
                    ELSE saturatedAdd(estimate(selection[j].video), audio),
                    peakTenths(j))

RequiredBytes ==
    saturatedAdd(MinFree, FoldFunction(saturatedAdd, 0, reservations))

-----------------------------------------------------------------------------
(* Files.                                                                  *)

Without(d, F) == Restrict(d, DOMAIN d \ F)

\* d with the files of e, in place of those of the same name.
Placed(d, e) == [f \in DOMAIN d \cup DOMAIN e |-> IF f \in DOMAIN e THEN e[f] ELSE d[f]]

\* Run j closes the files F, in a directory that now holds d: the ones the
\* cleaner has unlinked are gone for good.
Close(j, d, F) ==
    /\ disk' = [disk EXCEPT ![j] = Without(d, F \cap unlinked[j])]
    /\ unlinked' = [unlinked EXCEPT ![j] = @ \ F]
    /\ left' = [left EXCEPT ![j] = @ \cap DOMAIN disk'[j]]

\* O_TRUNC, or a removal first; space is taken as the bytes arrive.
Open(j, f) ==
    /\ disk' = [disk EXCEPT ![j] = Placed(@, [g \in {f} |-> 0])]
    /\ left' = [left EXCEPT ![j] = @ \ {f}]

\* Whole files take the names F; the temporary ones, T, go.
Commit(j, F, T) ==
    /\ disk' = [disk EXCEPT ![j] = Placed(Without(@, T), [f \in F |-> Whole(j, f)])]
    /\ unlinked' = [unlinked EXCEPT ![j] = @ \ T]
    /\ left' = [left EXCEPT ![j] = @ \ (F \cup T)]

Growing(j) ==
    CASE pc[j] = "tracks" -> {PartOf[t] : t \in {u \in Downloads(j) : task[j][u] = "open"}}
      [] pc[j] = "parts"  -> {"parts"}
      [] pc[j] = "join"   -> {"join"}
      [] pc[j] = "making" -> {"output"}
      [] OTHER -> {}

Reading(j) ==
    CASE pc[j] = "join" -> {"parts"}
      [] pc[j] = "making" /\ ~Remote(j) -> {"video", "audio"}
      [] pc[j] = "saving" -> {"output"}
      [] OTHER -> {}

Complete(j, f) == f \in DOMAIN disk[j] /\ disk[j][f] = Whole(j, f)

RunGoes(j, to) == pc' = [pc EXCEPT ![j] = to] /\ tries' = [tries EXCEPT ![j] = 0]

\* run returns an error; its deferred calls are next.
Fails(j) == RunGoes(j, "tidy")

\* retry: another attempt from state `again`, or the error is returned.
RetryOrFail(j, again, attempts) ==
    IF tries[j] + 1 < attempts
    THEN /\ pc' = [pc EXCEPT ![j] = again]
         /\ tries' = [tries EXCEPT ![j] = @ + 1]
    ELSE Fails(j)

envVars  == <<backend, object, cancelled, crashes>>
planVars == <<stream, selection, reservations, outcome>>
fileVars == <<disk, unlinked, left>>

\* One more byte arrives.
Write(j, f) ==
    /\ f \in Growing(j)
    /\ disk[j][f] < Whole(j, f) /\ Free > 0
    /\ disk' = [disk EXCEPT ![j][f] = @ + 1]
    /\ UNCHANGED <<pc, task, tries, unlinked, left, planVars, envVars>>

-----------------------------------------------------------------------------
(* Plan and reserve.                                                       *)

\* run returns before it has deferred anything.
Refused(j) ==
    /\ outcome' = [outcome EXCEPT ![j] = "failed"]
    /\ stream' = [stream EXCEPT ![j] = NoStream]
    /\ selection' = [selection EXCEPT ![j] = NoSelection]
    /\ RunGoes(j, "ended")

\* No answer after three attempts, or none of its tracks will do, is a refusal.
Select(j) ==
    /\ pc[j] = "idle"
    /\ \E r \in Responses[j] :
         \/ /\ Found(Pick(r, Options[j]))
            /\ stream' = [stream EXCEPT ![j] = r]
            /\ selection' = [selection EXCEPT ![j] = Pick(r, Options[j])]
            /\ RunGoes(j, "picked") /\ UNCHANGED outcome
         \/ Refused(j)
    /\ UNCHANGED <<task, reservations, fileVars, envVars>>

Granted(j, bytes) ==
    /\ reservations' = [reservations EXCEPT ![j] = bytes]
    /\ RunGoes(j, IF Route(j) = "sabr" THEN "sabr"
                  ELSE IF Remote(j) THEN "make" ELSE "tracks")
    /\ UNCHANGED <<stream, selection, outcome>>

\* Mutant: the reservations of the other runs are not counted.
Reserve_Alone(j) ==
    /\ pc[j] = "picked"
    /\ LET bytes == ReservationBytes(j)
       IN  IF bytes = 0 \/ Free >= saturatedAdd(MinFree, bytes)
           THEN Granted(j, bytes)
           ELSE Refused(j) /\ UNCHANGED reservations
    /\ UNCHANGED <<task, fileVars, envVars>>

\* Monitor.Reserve, when there is an estimate to reserve for.
Reserve(j) ==
    /\ pc[j] = "picked"
    /\ LET bytes == ReservationBytes(j)
       IN  IF bytes = 0 \/ Free >= saturatedAdd(RequiredBytes - reservations[j], bytes)
           THEN Granted(j, bytes)
           ELSE Refused(j) /\ UNCHANGED reservations
    /\ UNCHANGED <<task, fileVars, envVars>>

-----------------------------------------------------------------------------
(* Direct: DownloadFile for each track, in parallel.                       *)

TaskGoes(j, t, to) == task' = [task EXCEPT ![j][t] = to]

OpenPart(j, t) ==
    /\ pc[j] = "tracks" /\ t \in Downloads(j) /\ task[j][t] = "new"
    /\ IF Item(j, t).url = ""
       THEN TaskGoes(j, t, "failed") /\ UNCHANGED <<disk, left>>
       ELSE TaskGoes(j, t, "open") /\ Open(j, PartOf[t])
    /\ UNCHANGED <<pc, tries, unlinked, planVars, envVars>>

CommitPart(j, t) ==
    /\ pc[j] = "tracks" /\ task[j][t] = "open"
    /\ Complete(j, PartOf[t]) /\ PartOf[t] \notin unlinked[j]
    /\ TaskGoes(j, t, "ok")
    /\ Commit(j, {t}, {PartOf[t]})
    /\ UNCHANGED <<pc, tries, planVars, envVars>>

\* An error of the transfer, a full disk, a context that is done, a rename
\* without a file: the temporary file is removed.
FailPart(j, t) ==
    /\ pc[j] = "tracks" /\ t \in Downloads(j) /\ task[j][t] \in {"new", "open"}
    /\ TaskGoes(j, t, "failed")
    /\ Close(j, IF task[j][t] = "open" THEN Without(disk[j], {PartOf[t]}) ELSE disk[j],
             {PartOf[t]})
    /\ UNCHANGED <<pc, tries, planVars, envVars>>

\* Mutant: runParallel returns with the first error.
JoinTracks_FirstError(j) ==
    /\ pc[j] = "tracks"
    /\ \/ \E t \in Downloads(j) : task[j][t] = "failed" /\ Fails(j)
       \/ /\ \A t \in Downloads(j) : task[j][t] = "ok"
          /\ RunGoes(j, IF AudioOnly(j) THEN "save" ELSE "make")
    /\ UNCHANGED <<task, fileVars, planVars, envVars>>

\* runParallel waits for every task; one that failed cancels no other.
JoinTracks(j) ==
    /\ pc[j] = "tracks"
    /\ \A t \in Downloads(j) : task[j][t] \in {"ok", "failed"}
    /\ IF \E t \in Downloads(j) : task[j][t] = "failed" THEN Fails(j)
       ELSE RunGoes(j, IF AudioOnly(j) THEN "save" ELSE "make")
    /\ UNCHANGED <<task, fileVars, planVars, envVars>>

-----------------------------------------------------------------------------
(* SABR: the parts, then the tracks assembled from them.                   *)

OpenParts(j) ==
    /\ pc[j] = "sabr"
    /\ Open(j, "parts")
    /\ pc' = [pc EXCEPT ![j] = "parts"]
    /\ UNCHANGED <<task, tries, unlinked, planVars, envVars>>

OpenJoin(j) ==
    /\ pc[j] = "parts" /\ Complete(j, "parts") /\ "parts" \notin unlinked[j]
    /\ Open(j, "join")
    /\ pc' = [pc EXCEPT ![j] = "join"]
    /\ UNCHANGED <<task, tries, unlinked, planVars, envVars>>

CommitJoin(j) ==
    /\ pc[j] = "join" /\ Complete(j, "join") /\ "join" \notin unlinked[j]
    /\ Commit(j, Downloads(j), {"parts", "join"})
    /\ RunGoes(j, IF AudioOnly(j) THEN "save" ELSE "make")
    /\ UNCHANGED <<task, planVars, envVars>>

\* A download of more than one part is tried again as one part; a known
\* length stands for one of at least 4 MiB.
sabrAttempts(j) ==
    IF j \notin cancelled /\ \E s \in Items(j) : s.length > 0 THEN 2 ELSE 1

FailSabr(j) ==
    /\ pc[j] \in {"sabr", "parts", "join"}
    /\ Close(j, Without(disk[j], {"parts", "join"}), {"parts", "join"})
    /\ RetryOrFail(j, "sabr", sabrAttempts(j))
    /\ UNCHANGED <<task, planVars, envVars>>

-----------------------------------------------------------------------------
(* The output: muxed from the tracks, or fetched and muxed by ffmpeg or by *)
(* libavformat from remote ones.                                           *)

makeAttempts(j) == IF Route(j) = "remote" THEN 1 ELSE 2

\* retry looks at the context before an attempt.  The last output goes first.
BeginMake(j) ==
    /\ pc[j] = "make" /\ j \notin cancelled
    /\ IF Remote(j) THEN \A s \in Items(j) : s.url # ""
       ELSE {"video", "audio"} \subseteq DOMAIN disk[j]
    /\ Route(j) = "remoteMux" => Muxer = "avformat"
    /\ Open(j, "output")
    /\ pc' = [pc EXCEPT ![j] = "making"]
    /\ UNCHANGED <<task, tries, unlinked, planVars, envVars>>

Made(j) ==
    /\ pc[j] = "making" /\ Complete(j, "output")
    /\ j \notin cancelled
    /\ Close(j, disk[j], Names)
    /\ RunGoes(j, "save")
    /\ UNCHANGED <<task, planVars, envVars>>

\* Mutant: the error of the second attempt is not returned.
FailMake_Ignored(j) ==
    /\ pc[j] \in {"make", "making"}
    /\ Close(j, IF pc[j] = "make" THEN Without(disk[j], {"output"}) ELSE disk[j], Names)
    /\ IF tries[j] + 1 < makeAttempts(j) THEN RetryOrFail(j, "make", makeAttempts(j))
                                         ELSE RunGoes(j, "save")
    /\ UNCHANGED <<task, planVars, envVars>>

\* An attempt fails, at its start or later; what it wrote stays until the
\* next one.  A context that is done ends the retry.
FailMake(j) ==
    /\ pc[j] \in {"make", "making"}
    /\ Close(j, IF pc[j] = "make" THEN Without(disk[j], {"output"}) ELSE disk[j], Names)
    /\ RetryOrFail(j, "make", IF j \in cancelled THEN 1 ELSE makeAttempts(j))
    /\ UNCHANGED <<task, planVars, envVars>>

-----------------------------------------------------------------------------
(* Save, Done and the deferred calls.                                      *)

saveAttempts == 3

\* LocalStore.Save takes the file where it is, without looking at it.
SaveLocal(j) ==
    /\ pc[j] = "save" /\ j \notin cancelled /\ backend = "local"
    /\ RunGoes(j, "saved")
    /\ UNCHANGED <<task, fileVars, planVars, envVars>>

BeginUpload(j) ==
    /\ pc[j] = "save" /\ j \notin cancelled /\ backend = "s3"
    /\ "output" \in DOMAIN disk[j]
    /\ pc' = [pc EXCEPT ![j] = "saving"]
    /\ UNCHANGED <<task, tries, fileVars, planVars, envVars>>

Uploaded(j) ==
    /\ pc[j] = "saving"
    /\ object' = [object EXCEPT ![j] = disk[j]["output"]]
    /\ Close(j, disk[j], Names)
    /\ RunGoes(j, "saved")
    /\ UNCHANGED <<backend, task, planVars, cancelled, crashes>>

\* (An upload reported as failed may have stored an object; the next attempt
\* replaces it, or nothing refers to it.)
FailSave(j) ==
    /\ \/ pc[j] = "save" /\ j \in cancelled
       \/ pc[j] = "save" /\ backend = "s3" /\ "output" \notin DOMAIN disk[j]
       \/ pc[j] = "saving"
    /\ Close(j, disk[j], Names)
    /\ RetryOrFail(j, "save", IF j \in cancelled THEN 1 ELSE saveAttempts)
    /\ UNCHANGED <<task, planVars, envVars>>

\* store.Done: from here on clients may fetch the artifact.
Publish(j) ==
    /\ pc[j] = "saved"
    /\ outcome' = [outcome EXCEPT ![j] = "done"]
    /\ RunGoes(j, "tidy")
    /\ UNCHANGED <<stream, selection, reservations, task, fileVars, envVars>>

\* Work files go, and the output unless it is the artifact of a local store.
CleanupWork(j) ==
    Close(j, Without(disk[j], {"video", "audio"} \cup
             (IF outcome[j] = "done" /\ backend = "local" THEN {} ELSE {"output"})), {})

RunEnds(j) ==
    /\ RunGoes(j, "ended")
    /\ task' = [task EXCEPT ![j] = [t \in Tracks |-> "new"]]
    /\ cancelled' = cancelled \ {j}
    /\ IF outcome[j] = "done" THEN UNCHANGED <<stream, selection, outcome>>
       ELSE /\ stream' = [stream EXCEPT ![j] = NoStream]
            /\ selection' = [selection EXCEPT ![j] = NoSelection]
            /\ outcome' = [outcome EXCEPT ![j] = "failed"]

\* Mutant: the reservation is dropped only when the run succeeds.
Tidy_Keeps(j) ==
    /\ pc[j] = "tidy"
    /\ CleanupWork(j)
    /\ reservations' = IF outcome[j] = "done" THEN [reservations EXCEPT ![j] = 0]
                                              ELSE reservations
    /\ RunEnds(j)
    /\ UNCHANGED <<backend, object, crashes>>

\* The deferred cleanupWork and release, in that order; then process reports
\* the failure, if it was one, and the context of the job is dropped.
Tidy(j) ==
    /\ pc[j] = "tidy"
    /\ CleanupWork(j)
    /\ reservations' = [reservations EXCEPT ![j] = 0]
    /\ RunEnds(j)
    /\ UNCHANGED <<backend, object, crashes>>

-----------------------------------------------------------------------------
(* Around the runs.                                                        *)

\* The CancelFunc of a job, or a shutdown.
Cancel(j) ==
    /\ pc[j] \in Active /\ j \notin cancelled
    /\ cancelled' = cancelled \cup {j}
    /\ UNCHANGED <<backend, pc, task, tries, planVars, fileVars, object, crashes>>

\* The process is killed.  A job that had no outcome is queued again if there
\* is a database, or never heard of again.
Kill ==
    /\ crashes < MaxCrashes
    /\ crashes' = crashes + 1
    /\ pc' = [j \in Jobs |-> IF outcome[j] = "none" THEN "idle" ELSE "ended"]
    /\ stream' = [j \in Jobs |-> IF outcome[j] = "none" THEN NoStream ELSE stream[j]]
    /\ selection' = [j \in Jobs |-> IF outcome[j] = "none" THEN NoSelection ELSE selection[j]]
    /\ task' = [j \in Jobs |-> [t \in Tracks |-> "new"]]
    /\ tries' = [j \in Jobs |-> 0]
    /\ disk' = [j \in Jobs |-> Without(disk[j], unlinked[j])]
    /\ unlinked' = [j \in Jobs |-> {}]
    /\ left' = [j \in Jobs |-> DOMAIN disk'[j] \
                  (IF outcome[j] = "done" /\ backend = "local" THEN {"output"} ELSE {})]
    /\ reservations' = [j \in Jobs |-> 0]
    /\ cancelled' = {}
    /\ object' = [j \in Jobs |-> IF outcome[j] = "done" THEN object[j] ELSE 0]
    /\ UNCHANGED <<backend, outcome>>

\* Files the cleaner looks for: by name under jobs/, every one under
\* artifacts/ if that directory only holds outputs on their way to S3.
Swept(j) ==
    LET work == {"video", "audio", "video.part", "audio.part"}
                \cup (IF AudioOnly(j) THEN {} ELSE {"parts", "join"})
    IN  IF backend = "s3" THEN Names ELSE work

\* Any file may be an hour old: one being read, or one that waits for a peer.
Clean(j, f) ==
    /\ f \in Swept(j) /\ f \in DOMAIN disk[j] \ unlinked[j]
    /\ IF f \in Growing(j) \cup Reading(j)
       THEN unlinked' = [unlinked EXCEPT ![j] = @ \cup {f}] /\ UNCHANGED disk
       ELSE disk' = [disk EXCEPT ![j] = Without(@, {f})] /\ UNCHANGED unlinked
    /\ left' = [left EXCEPT ![j] = @ \ {f}]
    /\ UNCHANGED <<pc, task, tries, planVars, envVars>>

-----------------------------------------------------------------------------
\* Steps a run takes by itself.
Advance(j) ==
    \/ Reserve(j) \/ JoinTracks(j) \/ OpenParts(j) \/ OpenJoin(j) \/ CommitJoin(j)
    \/ \E t \in Tracks : OpenPart(j, t) \/ CommitPart(j, t)
    \/ BeginMake(j) \/ Made(j) \/ SaveLocal(j) \/ BeginUpload(j)
    \/ Publish(j) \/ Tidy(j)

\* Errors.
Breaks(j) ==
    \/ \E t \in Tracks : FailPart(j, t)
    \/ FailSabr(j) \/ FailMake(j) \/ FailSave(j)

Next ==
    \/ \E j \in Jobs :
         \/ Select(j) \/ Advance(j) \/ Uploaded(j) \/ Breaks(j) \/ Cancel(j)
         \/ \E f \in Names : Write(j, f) \/ Clean(j, f)
    \/ Kill

Spec == Init /\ [][Next]_runVars

\* libavformat is given no interrupt callback: a remux from remote inputs
\* that stall does not notice that its context is done.
Uninterruptible(j) == pc[j] = "making" /\ Route(j) = "remoteMux"

\* A run goes on when it can; a transfer may stall for good, but not past
\* the end of its context, which net/http, minio and ffmpeg obey.
Fairness ==
    \A j \in Jobs :
        /\ WF_runVars(Advance(j))
        /\ WF_runVars(j \in cancelled /\ ~Uninterruptible(j) /\ Breaks(j))

FairSpec == Spec /\ Fairness

-----------------------------------------------------------------------------
(* What the runs promise.                                                  *)

RunTypeOK ==
    /\ pc \in [Jobs -> Active \cup {"idle", "ended"}]
    /\ backend \in Backends
    /\ \A j \in Jobs : stream[j] \in Responses[j] \cup {NoStream}
    /\ task \in [Jobs -> [Tracks -> {"new", "open", "ok", "failed"}]]
    /\ tries \in [Jobs -> 0..2]
    /\ \A j \in Jobs :
         /\ DOMAIN disk[j] \subseteq Names
         /\ \A f \in DOMAIN disk[j] : disk[j][f] \in Nat
         /\ unlinked[j] \subseteq DOMAIN disk[j] /\ left[j] \subseteq DOMAIN disk[j]
    /\ reservations \in [Jobs -> 0..MaxBytes]
    /\ outcome \in [Jobs -> {"none", "done", "failed"}]
    /\ object \in [Jobs -> Nat]
    /\ cancelled \subseteq Jobs /\ crashes \in 0..MaxCrashes

Planned(j) == stream[j] # NoStream

\* The run knows how much it will write.
Sized(j) == \A s \in Items(j) : mediaBytes(s, stream[j].duration) > 0

\* Bytes that the run of j has on disk itself.
Written(j) == FoldFunctionOnSet(+, 0, disk[j], DOMAIN disk[j] \ left[j])

\* What it may still write under its reservation.
Outstanding(j) ==
    IF reservations[j] > Written(j) THEN reservations[j] - Written(j) ELSE 0

\* What it wrote without one, for want of an estimate.
Unaccounted(j) ==
    IF Planned(j) /\ ~Sized(j) /\ Sum(disk[j]) > reservations[j]
    THEN Sum(disk[j]) - reservations[j] ELSE 0

\* What two of the properties take for granted of the responses.  A peer sends
\* no more than the length, or the rate and the duration, of an item let expect:
EstimatesHold ==
    \A j \in Jobs : \A r \in Responses[j] : \A s \in Range(r.videos) \cup Range(r.audios) :
        mediaBytes(s, r.duration) > 0 => s.size <= mediaBytes(s, r.duration)

\* Bit rates stay below the weights of audioRank:
BitratesBelowWeights ==
    \A j \in Jobs : \A r \in Responses[j] : \A a \in Range(r.audios) : a.bitrate < 500000

\* Space that was granted is there when it is needed: whatever the other runs
\* write, keep and remove meanwhile, a run that stays within its reservation
\* never meets a full disk and never eats into the minimum that has to stay
\* free (monitor.go:50-75, capacity.go:30-55).  Only bytes of a run with no
\* estimate can be missing.
GrantedSpaceIsThere ==
    LET granted == Sum([j \in Jobs |-> Outstanding(j)])
    IN  granted > 0 =>
          Free + Sum([j \in Jobs |-> Unaccounted(j)]) >= MinFree + granted

\* A run that is over leaves nothing on disk but the artifact of a local
\* store, whichever step failed and whatever ran in parallel to it; only a
\* kill leaves more (work_cleanup_test.go:36, range_downloader.go:77-82).
NothingLeftBehind ==
    \A j \in Jobs : pc[j] \in {"idle", "ended"} =>
        DOMAIN disk[j] \subseteq
            left[j] \cup (IF outcome[j] = "done" /\ backend = "local" THEN {"output"} ELSE {})

\* What a client is served once a job is done has every byte of its tracks,
\* and keeps them: no error, retry, left-over file or sweep of the cleaner
\* yields a truncated or missing artifact.
DoneIsWhole ==
    \A j \in Jobs : outcome[j] = "done" =>
        IF backend = "s3" THEN object[j] = Whole(j, "output") ELSE Complete(j, "output")

Preferred(a, r) == a.track = r.preferred /\ a.track # NoTrack

\* The order audioRank stands for: track a is a better choice than b.
BetterAudio(a, b, r) ==
    \/ Preferred(a, r) /\ ~Preferred(b, r)
    \/ Preferred(a, r) = Preferred(b, r) /\ a.original /\ ~b.original
    \/ Preferred(a, r) = Preferred(b, r) /\ a.original = b.original /\ a.bitrate > b.bitrate

\* What the audio track of j has to fit.
AudioRequest(j) ==
    IF AudioOnly(j) THEN AudioOnlyRequest(Options[j])
    ELSE AudioOf(selection[j].video, VideoRequest(Options[j]))

BestAudio(j) ==
    LET r == stream[j]
        best == selection[j].audio
    IN  /\ AudioFits(best, AudioRequest(j))
        /\ \A n \in DOMAIN r.audios :
             AudioFits(r.audios[n], AudioRequest(j)) => ~BetterAudio(r.audios[n], best, r)

BestVideo(j) ==
    LET videos == stream[j].videos
        best == selection[j].video
    IN  /\ VideoFits(best, VideoRequest(Options[j]))
        /\ \A n \in DOMAIN videos :
             VideoFits(videos[n], VideoRequest(Options[j])) => ~HigherVideo(videos[n], best)

\* The choice among the tracks that a request admits: the highest video, then
\* the best bitrate; the preferred audio track before the original one before
\* any other, then the best bitrate, as long as bitrates stay below the
\* weights of audioRank (ranking.go:17-26).
SelectionIsBest ==
    \A j \in Jobs : pc[j] = "picked" => BestAudio(j) /\ (~AudioOnly(j) => BestVideo(j))

\* A cancel or a shutdown ends the run and frees its reservation, unless it
\* is in a remux that cannot be interrupted.
CancelFreesSpace ==
    \A j \in Jobs :
        (pc[j] \in Active /\ j \in cancelled) ~>
            ((pc[j] \notin Active /\ reservations[j] = 0) \/ Uninterruptible(j))
=============================================================================
