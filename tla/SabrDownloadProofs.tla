------------------------- MODULE SabrDownloadProofs -------------------------
(***************************************************************************)
(* Proofs about SabrDownload for any number of parts, goroutines, frames   *)
(* and attempts: only complete tracks are placed, a failed part's own      *)
(* error is the one reported, the counter is exact through rollbacks, and  *)
(* no temporary file is left.                                              *)
(***************************************************************************)
EXTENDS SabrDownload, FiniteSetTheorems, TLAPS

-----------------------------------------------------------------------------
(* The inductive invariant.                                                *)

\* Types, without the bounds that would relate the counters to the parts.
CallTypes ==
    /\ dpc \in {"begin", "parts", "audio", "video", "renameAudio",
                "renameVideo", "cleanup", "delay", "done", "failed"}
    /\ plan \in 1..2 /\ err \in Errors \cup {"none"} /\ ctx \in BOOLEAN

PoolTypes ==
    /\ stopped \in BOOLEAN /\ next \in 0..Parts
    /\ failures \subseteq Errors /\ downloaded \in Int

FileTypes ==
    /\ file \in [0..Parts - 1 -> Content]
    /\ assembled \in [Tracks -> Content] /\ target \in [Tracks -> Content]

WorkerTypes ==
    /\ wpc \in [Workers -> {"next", "request", "stream", "rollback",
                            "delay", "failing", "cancel", "exit"}]
    /\ part \in [Workers -> 0..Parts - 1] /\ tries \in [Workers -> Nat]
    /\ counted \in [Workers -> 0..Parts]
    /\ lastErr \in [Workers -> Errors \cup {"none"}]

Types == CallTypes /\ PoolTypes /\ FileTypes /\ WorkerTypes

\* A worker that may still write its part.
Holds(w) == wpc[w] \in {"request", "stream", "rollback", "delay"}

\* Only while parts come in is a worker at work, and only then and until the
\* next plan begins is `next` about this plan.
Quiet ==
    /\ dpc # "parts" => \A w \in Workers : wpc[w] = "exit"
    /\ dpc # "begin" => next <= PlanParts

\* A part in hand was received by one worker and is not complete.
HeldApart ==
    /\ \A w \in Workers : Holds(w) => part[w] < next /\ file[part[w]] # "whole"
    /\ \A v, w \in Workers : Holds(v) /\ Holds(w) /\ part[v] = part[w] => v = w

\* Nothing is left of an earlier plan, nor written ahead of `next`.
Untouched ==
    /\ \A p \in 0..Parts - 1 : p >= next => file[p] = "none"
    /\ dpc \in {"begin", "delay", "done", "failed"} => \A p \in 0..Parts - 1 : file[p] = "none"
    /\ dpc \in {"delay", "done", "failed"} => \A t \in Tracks : assembled[t] = "none"

\* A part has been given up, or all are.
Trouble == failures # {} \/ Cancelled \/ \E w \in Workers : wpc[w] = "failing"

\* A received part is complete or in hand, and the workers do not all leave
\* before they have received every part, unless there is trouble.
Settled ==
    dpc = "parts" =>
        /\ \A p \in 0..Parts - 1 : p < next =>
             file[p] = "whole" \/ (\E w \in Workers : Holds(w) /\ part[w] = p) \/ Trouble
        /\ (\A w \in Workers : wpc[w] = "exit") => next = PlanParts \/ Trouble

\* A cancellation is the caller's, or a consequence of an error of a part's own.
OwnError == ctx \/ "io" \in failures

Causes ==
    /\ stopped \/ failures # {} => OwnError
    /\ \A w \in Workers :
         /\ wpc[w] \in {"rollback", "failing"} =>
              lastErr[w] \in Errors /\ (lastErr[w] = "canceled" => OwnError)
         /\ wpc[w] = "cancel" => OwnError
    /\ CanceledMeansCaller

\* The tracks on their way from the part files to their names.
Tracking ==
    /\ \A t \in Tracks : target[t] # "torn"
    /\ dpc \in {"audio", "video"} =>
         \A p \in 0..Parts - 1 : p < PlanParts => file[p] = "whole"
    /\ dpc \in {"video", "renameAudio"} => assembled["audio"] = "whole"
    /\ dpc \in {"renameAudio", "renameVideo"} => assembled["video"] = "whole"
    /\ dpc = "renameVideo" => target["audio"] = "whole"
    /\ dpc = "done" \/ (dpc = "cleanup" /\ err = "none") =>
         \A t \in Tracks : target[t] = "whole"

\* A worker counts the frames of its stream only until that is settled.
Counting ==
    /\ \A w \in Workers : counted[w] <= Size \/ dpc = "begin"
    /\ \A w \in Workers : wpc[w] \notin {"stream", "rollback"} => counted[w] = 0
    /\ CounterExact

SabrInv ==
    /\ Types /\ Quiet /\ HeldApart /\ Untouched /\ Settled /\ Causes
    /\ Tracking /\ Counting

-----------------------------------------------------------------------------
\* Both plans have parts, and parts have frames.
LEMMA PlanFacts == ASSUME SabrInv PROVE PlanParts \in 1..Parts /\ Size \in 1..Parts
  BY SabrAssumption DEF SabrInv, Types, CallTypes, PlanParts, Size

\* What the calling goroutine does between Begin and the return leaves the
\* workers' variables alone; so does the caller of Download.
CallerActs ==
    \/ Join \/ Assemble("audio", "video") \/ Assemble("video", "renameAudio")
    \/ RenameTrack("audio", "renameAudio", "renameVideo")
    \/ RenameTrack("video", "renameVideo", "cleanup")
    \/ Cleanup \/ FallBack \/ GiveUp \/ FinishFails \/ CancelCaller

LEMMA Steps ==
    ASSUME [Next]_vars
    PROVE  \/ UNCHANGED vars \/ Begin \/ CallerActs
           \/ \E w \in Workers : Local(w) \/ Peer(w)
  BY DEF Next, Caller, CallerActs

\* A worker acts only while parts come in, and on its own part.
LEMMA WorkerFacts ==
    ASSUME SabrInv, NEW w \in Workers, Local(w) \/ Peer(w)
    PROVE  /\ dpc = "parts" /\ wpc[w] # "exit"
           /\ UNCHANGED <<dpc, plan, err, ctx, assembled, target>>
           /\ WorkerTypes'
           /\ \A v \in Workers : v # w =>
                /\ wpc'[v] = wpc[v] /\ part'[v] = part[v]
                /\ counted'[v] = counted[v] /\ lastErr'[v] = lastErr[v]
<1>0. PlanParts \in 1..Parts /\ Size \in 1..Parts
  BY PlanFacts
<1> USE DEF SabrInv, Types, WorkerTypes, WorkerGoes, callVars, poolVars, fileVars, workerVars
<1>1. CASE TakePart(w)
  BY <1>0, <1>1, SabrAssumption DEF TakePart, Quiet, PoolTypes
<1>6. CASE NoPart(w) \/ Rollback(w)
  BY <1>6, SabrAssumption DEF NoPart, Rollback, Quiet
<1>2. CASE RequestFails(w) \/ StreamBreaks(w)
  BY <1>2 DEF RequestFails, StreamBreaks, AttemptFails, Quiet
<1>3. CASE RetryTimer(w) \/ RetryCancelled(w) \/ Offer(w) \/ CancelAll(w)
  BY <1>3 DEF RetryTimer, RetryCancelled, Offer, CancelAll, Quiet, Errors
<1>4. CASE Respond(w)
  BY <1>4 DEF Respond, Quiet
<1>5. CASE Frame(w) \/ Complete(w)
  BY <1>0, <1>5, SabrAssumption DEF Frame, Complete, Quiet
<1> QED
  BY <1>1, <1>2, <1>3, <1>4, <1>5, <1>6 DEF Local, Unblock, Peer

\* What the workers do to the part files and the pool.
LEMMA WorkerTypesKept ==
    ASSUME SabrInv, NEW w \in Workers, Local(w) \/ Peer(w) PROVE Types'
<1>1. CallTypes' /\ WorkerTypes'
  BY WorkerFacts DEF SabrInv, Types, CallTypes
<1>2. FileTypes'
  <2>1. /\ UNCHANGED <<assembled, target>>
        /\ file' = file \/ \E c \in Content : file' = [file EXCEPT ![part[w]] = c]
    <3> USE DEF fileVars, Content
    <3>1. CASE RequestFails(w)
      <4>1. file[part[w]] \in Content
        BY DEF SabrInv, Types, FileTypes, WorkerTypes
      <4> QED
        BY <3>1, <4>1 DEF RequestFails, AttemptFails
    <3>2. CASE Peer(w)
      BY <3>2 DEF Peer, Respond, Frame, Complete
    <3>3. CASE Local(w) /\ ~RequestFails(w)
      BY <3>3, WorkerFacts DEF Local, Unblock, StreamBreaks, TakePart, NoPart, Rollback, RetryTimer,
                               RetryCancelled, Offer, CancelAll
    <3> QED
      BY <3>1, <3>2, <3>3
  <2> QED
    BY <2>1 DEF SabrInv, Types, FileTypes
<1>3. PoolTypes'
  <2>0. PlanParts \in 1..Parts
    BY PlanFacts
  <2> USE DEF SabrInv, Types, PoolTypes, poolVars
  <2>1. CASE TakePart(w)
    BY <2>0, <2>1, SabrAssumption DEF TakePart
  <2>2. CASE Offer(w) \/ CancelAll(w)
    BY <2>2 DEF Offer, CancelAll, Causes
  <2>3. CASE Rollback(w) \/ NoPart(w) \/ RetryTimer(w) \/ RetryCancelled(w)
    BY <2>3 DEF Rollback, NoPart, RetryTimer, RetryCancelled, WorkerTypes
  <2>4. CASE Unblock(w) \/ Peer(w)
    BY <2>4 DEF Unblock, RequestFails, StreamBreaks, AttemptFails, Peer, Respond, Frame, Complete
  <2> QED
    BY <2>1, <2>2, <2>3, <2>4 DEF Local
<1> QED
  BY <1>1, <1>2, <1>3 DEF Types

\* Every step keeps the types.
LEMMA TypesStep == ASSUME SabrInv, [Next]_vars PROVE Types'
<1>1. CASE UNCHANGED vars
  BY <1>1 DEF vars, callVars, poolVars, fileVars, workerVars, SabrInv, Types, CallTypes, PoolTypes,
              FileTypes, WorkerTypes
<1>2. CASE Begin
  <2>1. /\ dpc' = "parts" /\ err' = "none" /\ UNCHANGED <<plan, ctx, fileVars>>
        /\ stopped' = FALSE /\ next' = 0 /\ failures' = {} /\ downloaded' = 0
        /\ UNCHANGED <<part, tries, counted, lastErr>>
        /\ \E started : wpc' = [w \in Workers |-> IF w \in started THEN "next" ELSE "exit"]
    BY <1>2 DEF Begin, CallerGoes
  <2>2. CallTypes' /\ FileTypes'
    BY <2>1 DEF CallTypes, FileTypes, fileVars, SabrInv, Types
  <2>3. PoolTypes'
    <3>1. stopped' \in BOOLEAN
      BY <2>1
    <3>2. next' \in 0..Parts /\ downloaded' \in Int
      BY <2>1, SabrAssumption
    <3>3. failures' \subseteq Errors
      BY <2>1
    <3> QED
      BY <3>1, <3>2, <3>3 DEF PoolTypes
  <2>4. WorkerTypes'
    BY <2>1 DEF WorkerTypes, SabrInv, Types
  <2> QED
    BY <2>2, <2>3, <2>4 DEF Types
<1>3. CASE CallerActs
  <2> USE <1>3 DEF SabrInv, Types
  <2>1. CallTypes'
    <3>1. FirstFailure \in Errors /\ "io" \in Errors /\ "canceled" \in Errors
      BY DEF FirstFailure, Errors
    <3> USE DEF CallTypes, CallerGoes, callVars
    <3>2. CASE Join \/ GiveUp \/ FinishFails
      BY <3>1, <3>2 DEF Join, GiveUp, FinishFails
    <3>3. CASE FallBack \/ CancelCaller
      <4>1. /\ dpc' \in {"begin", dpc} /\ plan' \in {2, plan} /\ err' = err
            /\ ctx' = TRUE \/ ctx' = ctx
        BY <3>3 DEF FallBack, CancelCaller
      <4>2. ctx' \in BOOLEAN
        BY <4>1
      <4> QED
        BY <4>1, <4>2
    <3>4. CASE Cleanup
      <4>1. /\ UNCHANGED <<plan, ctx>> /\ dpc' \in {"done", "failed", "delay"}
            /\ err' \in {"none", "canceled", err}
        BY <3>4 DEF Cleanup
      <4> QED
        BY <3>1, <4>1
    <3>5. ASSUME NEW t, NEW here, NEW pc, pc \in {"video", "renameAudio", "renameVideo", "cleanup"},
                 Assemble(t, pc) \/ RenameTrack(t, here, pc)
          PROVE  CallTypes'
      <4>1. dpc' = pc /\ err' = "none" /\ UNCHANGED <<plan, ctx>>
        BY <3>5 DEF Assemble, RenameTrack
      <4> QED
        BY <3>5, <4>1
    <3> QED
      BY <1>3, <3>2, <3>3, <3>4, <3>5 DEF CallerActs
  <2>2. UNCHANGED <<poolVars, downloaded, workerVars>>
    BY DEF CallerActs, Join, Assemble, RenameTrack, Cleanup, FallBack, GiveUp, FinishFails, CancelCaller
  <2>3. PoolTypes' /\ WorkerTypes'
    BY <2>2 DEF PoolTypes, WorkerTypes, poolVars, workerVars
  <2>4. FileTypes'
    BY DEF CallerActs, FileTypes, Join, Assemble, Assembled, RenameTrack, Cleanup, RemoveParts, FallBack, GiveUp,
           FinishFails, CancelCaller, fileVars, Content, Tracks
  <2> QED
    BY <2>1, <2>3, <2>4
<1> QED
  BY <1>1, <1>2, <1>3, Steps, WorkerTypesKept

\* What the calling goroutine and its caller leave alone.
LEMMA CallerFacts ==
    ASSUME SabrInv, CallerActs
    PROVE  /\ UNCHANGED <<stopped, next, failures, downloaded>>
           /\ UNCHANGED <<wpc, part, tries, counted, lastErr>>
           /\ ctx => ctx'
           /\ dpc = "begin" => dpc' = "begin"
           /\ dpc' = "parts" => dpc = "parts" /\ UNCHANGED file
           /\ dpc = "parts" => dpc' = "parts" \/ Join
           /\ plan' = plan \/ dpc' = "begin"
<1>1. UNCHANGED <<poolVars, downloaded, workerVars>>
  BY DEF CallerActs, Join, Assemble, RenameTrack, Cleanup, FallBack, GiveUp, FinishFails, CancelCaller
<1>2. ctx => ctx'
  BY DEF CallerActs, Join, Assemble, RenameTrack, Cleanup, FallBack, GiveUp, FinishFails, CancelCaller
<1>3. dpc' = "parts" => dpc = "parts" /\ UNCHANGED file
  BY DEF CallerActs, Join, Assemble, RenameTrack, Cleanup, FallBack, GiveUp, FinishFails, CancelCaller,
         CallerGoes, callVars, fileVars
<1>4. /\ dpc = "parts" => dpc' = "parts" \/ Join
      /\ dpc = "begin" => dpc' = "begin"
  BY DEF CallerActs, Assemble, Join, RenameTrack, Cleanup, FallBack, GiveUp, FinishFails, CancelCaller,
         CallerGoes, callVars
<1>5. plan' = plan \/ dpc' = "begin"
  BY DEF CallerActs, Join, Assemble, RenameTrack, Cleanup, FallBack, GiveUp, FinishFails, CancelCaller,
         CallerGoes, callVars
<1> QED
  BY <1>1, <1>2, <1>3, <1>4, <1>5 DEF poolVars, workerVars

LEMMA BeginFacts ==
    ASSUME SabrInv, Begin
    PROVE  /\ dpc = "begin" /\ dpc' = "parts" /\ err' = "none"
           /\ UNCHANGED <<plan, ctx, file, assembled, target, counted, lastErr>>
           /\ stopped' = FALSE /\ next' = 0 /\ failures' = {} /\ downloaded' = 0
           /\ \A w \in Workers : wpc'[w] \in {"next", "exit"}
           /\ \E w \in Workers : wpc'[w] = "next"
<1>1. /\ dpc = "begin" /\ dpc' = "parts" /\ err' = "none"
      /\ UNCHANGED <<plan, ctx, file, assembled, target, counted, lastErr>>
      /\ stopped' = FALSE /\ next' = 0 /\ failures' = {} /\ downloaded' = 0
  BY DEF Begin, CallerGoes, fileVars
<1>2. PICK started \in SUBSET Workers :
        /\ started = Workers \/ Cardinality(started) = PlanParts
        /\ wpc' = [w \in Workers |-> IF w \in started THEN "next" ELSE "exit"]
  BY DEF Begin
<1>3. started # {}
  BY <1>2, PlanFacts, FS_EmptySet, SabrAssumption
<1> QED
  BY <1>1, <1>2, <1>3

\* A worker receives the next part, or is on the one it has.
LEMMA TakeFacts ==
    ASSUME SabrInv, NEW w \in Workers, TakePart(w)
    PROVE  /\ next < PlanParts /\ next' = next + 1
           /\ part' = [part EXCEPT ![w] = next]
           /\ wpc[w] = "next" /\ wpc'[w] = IF Cancelled THEN "exit" ELSE "request"
           /\ UNCHANGED <<stopped, failures, file, downloaded, counted, lastErr>>
  BY DEF TakePart, WorkerGoes, fileVars, SabrInv, Types, WorkerTypes

LEMMA PartFacts ==
    ASSUME SabrInv, NEW w \in Workers, Local(w) \/ Peer(w), ~TakePart(w)
    PROVE  /\ UNCHANGED <<next, part>>
           /\ Holds(w)' => Holds(w)
           /\ \/ file' = file
              \/ /\ Holds(w)
                 /\ \E c \in {"none", "torn"} : file' = [file EXCEPT ![part[w]] = c]
              \/ /\ Holds(w) /\ ~Holds(w)'
                 /\ file' = [file EXCEPT ![part[w]] = "whole"]
           /\ Holds(w) /\ ~Holds(w)' => file'[part[w]] = "whole" \/ wpc'[w] = "failing"
           /\ wpc'[w] = "exit" => NoPart(w) \/ CancelAll(w)
<1>0. /\ w \in DOMAIN wpc /\ part[w] \in DOMAIN file /\ file[part[w]] \in Content
      /\ Holds(w) => file[part[w]] # "whole"
  BY DEF SabrInv, Types, WorkerTypes, FileTypes, HeldApart
<1> USE DEF WorkerGoes, Holds, fileVars
<1>1. CASE NoPart(w) \/ Rollback(w)
  BY <1>0, <1>1 DEF NoPart, Rollback, poolVars
<1>2. CASE RequestFails(w)
  BY <1>0, <1>2 DEF RequestFails, AttemptFails, poolVars, Content
<1>3. CASE StreamBreaks(w)
  BY <1>0, <1>3 DEF StreamBreaks, AttemptFails, poolVars
<1>4. CASE RetryTimer(w) \/ RetryCancelled(w) \/ Offer(w) \/ CancelAll(w)
  BY <1>0, <1>4 DEF RetryTimer, RetryCancelled, Offer, CancelAll, poolVars
<1>5. CASE Respond(w) \/ Frame(w)
  BY <1>0, <1>5 DEF Respond, Frame, poolVars
<1>6. CASE Complete(w)
  BY <1>0, <1>6 DEF Complete, poolVars
<1> QED
  BY <1>1, <1>2, <1>3, <1>4, <1>5, <1>6 DEF Local, Unblock, Peer

\* Types of what the following steps use.
LEMMA Ranges ==
    ASSUME SabrInv
    PROVE  /\ next \in Nat /\ file \in [0..Parts - 1 -> Content]
           /\ \A w \in Workers : part[w] \in 0..Parts - 1 /\ counted[w] \in 0..Parts
           /\ PlanParts \in 1..Parts /\ Size \in 1..Parts /\ Parts \in Nat
  BY PlanFacts, SabrAssumption DEF SabrInv, Types, PoolTypes, FileTypes, WorkerTypes

\* The pool is at work only between Begin and Join (multipart.go:27-46).
LEMMA QuietStep == ASSUME SabrInv, [Next]_vars PROVE Quiet'
<1> USE DEF SabrInv, Quiet
<1>1. CASE UNCHANGED vars
  BY <1>1 DEF vars, callVars, poolVars, workerVars, PlanParts
<1>2. CASE Begin
  <2>1. PlanParts' = PlanParts
    BY <1>2, BeginFacts DEF PlanParts
  <2>2. dpc' = "parts" /\ next' = 0
    BY <1>2, BeginFacts
  <2>3. 0 <= PlanParts
    BY Ranges
  <2> QED
    BY <2>1, <2>2, <2>3
<1>3. CASE CallerActs
  <2>1. dpc' # "parts" => \A w \in Workers : wpc[w] = "exit"
    BY <1>3, CallerFacts DEF Join
  <2>2. dpc' # "begin" => PlanParts' = PlanParts /\ dpc # "begin"
    BY <1>3, CallerFacts DEF PlanParts
  <2> QED
    BY <1>3, <2>1, <2>2, CallerFacts
<1>4. ASSUME NEW w \in Workers, Local(w) \/ Peer(w) PROVE Quiet'
  <2>1. dpc' = "parts" /\ dpc = "parts" /\ PlanParts' = PlanParts
    BY <1>4, WorkerFacts DEF PlanParts
  <2>2. next' <= PlanParts
    BY <1>4, <2>1, TakeFacts, PartFacts, Ranges
  <2> QED
    BY <2>1, <2>2
<1> QED
  BY <1>1, <1>2, <1>3, <1>4, Steps

\* A part is received once, and what is in hand is not complete
\* (multipart.go:31-34).
LEMMA HeldApartStep == ASSUME SabrInv, [Next]_vars PROVE HeldApart'
<1> USE DEF SabrInv, HeldApart
<1>1. CASE UNCHANGED vars
  BY <1>1 DEF vars, poolVars, fileVars, workerVars, Holds
<1>2. CASE Begin
  BY <1>2, BeginFacts DEF Holds
<1>3. CASE CallerActs
  <2>1. CASE dpc' = "parts"
    BY <1>3, <2>1, CallerFacts DEF Holds
  <2>2. CASE dpc' # "parts"
    BY <1>3, <2>2, CallerFacts DEF Holds, Join, Quiet
  <2> QED
    BY <2>1, <2>2
<1>4. ASSUME NEW w \in Workers, TakePart(w) PROVE HeldApart'
  <2>1. file[next] # "whole"
    BY <1>4, TakeFacts, Ranges DEF Untouched
  <2>2. \A v \in Workers : Holds(v)' =>
           (v = w /\ part'[v] = next) \/ (v # w /\ Holds(v) /\ part'[v] = part[v] /\ part[v] < next)
    <3>1. /\ part' = [part EXCEPT ![w] = next] /\ part \in [Workers -> 0..Parts - 1]
          /\ \A v \in Workers : v # w => wpc'[v] = wpc[v]
      BY <1>4, TakeFacts, WorkerFacts DEF Local, Types, WorkerTypes
    <3> QED
      BY <3>1 DEF Holds
  <2> QED
    BY <1>4, <2>1, <2>2, TakeFacts, Ranges
<1>5. ASSUME NEW w \in Workers, Local(w) \/ Peer(w), ~TakePart(w) PROVE HeldApart'
  <2>1. \A v \in Workers : Holds(v)' => Holds(v)
    BY <1>5, PartFacts, WorkerFacts DEF Holds
  <2>2. \A v \in Workers : Holds(v)' => file'[part[v]] # "whole"
    BY <1>5, <2>1, PartFacts, Ranges
  <2> QED
    BY <1>5, <2>1, <2>2, PartFacts
<1> QED
  BY <1>1, <1>2, <1>3, <1>4, <1>5, Steps

\* The deferred cleanup removes what the plan may have created
\* (part_files.go:78-85).
LEMMA UntouchedStep == ASSUME SabrInv, [Next]_vars PROVE Untouched'
<1> USE DEF SabrInv, Untouched
<1>1. CASE UNCHANGED vars
  BY <1>1 DEF vars, callVars, poolVars, fileVars
<1>2. CASE Begin
  BY <1>2, BeginFacts
<1>3. CASE Cleanup
  <2>1. /\ UNCHANGED next /\ dpc = "cleanup" /\ file' = RemoveParts
        /\ \A t \in Tracks : assembled'[t] = "none"
    BY <1>3, CallerFacts DEF Cleanup, CallerActs
  <2>2. \A p \in 0..Parts - 1 : file'[p] = "none"
    BY <2>1, Ranges DEF RemoveParts, Quiet
  <2> QED
    BY <2>1, <2>2
<1>4. CASE CallerActs /\ ~Cleanup
  <2>1. UNCHANGED <<next, file>>
    BY <1>4, CallerFacts DEF CallerActs, Join, Assemble, RenameTrack, FallBack, GiveUp, FinishFails,
                             CancelCaller, fileVars
  <2>2. /\ dpc' \in {"begin", "delay", "done", "failed"} => dpc \in {"begin", "delay", "done", "failed"}
        /\ dpc' \in {"delay", "done", "failed"} =>
             dpc \in {"delay", "done", "failed"} /\ UNCHANGED assembled
    BY <1>4 DEF CallerActs, Join, Assemble, RenameTrack, FallBack, GiveUp, FinishFails, CancelCaller,
                CallerGoes, callVars, fileVars
  <2> QED
    BY <2>1, <2>2
<1>5. ASSUME NEW w \in Workers, Local(w) \/ Peer(w) PROVE Untouched'
  <2>1. dpc' = "parts"
    BY <1>5, WorkerFacts
  <2>2. \A p \in 0..Parts - 1 : p >= next' => p >= next /\ file'[p] = file[p]
    BY <1>5, TakeFacts, PartFacts, Ranges DEF HeldApart
  <2> QED
    BY <2>1, <2>2
<1> QED
  BY <1>1, <1>2, <1>3, <1>4, <1>5, Steps

\* No part is lost without somebody having given up (multipart.go:27-53).
LEMMA SettledStep == ASSUME SabrInv, [Next]_vars PROVE Settled'
<1> USE DEF SabrInv
<1>1. CASE UNCHANGED vars
  BY <1>1 DEF vars, callVars, poolVars, fileVars, workerVars, Settled, Trouble, Cancelled, Holds,
              PlanParts
<1>2. CASE Begin
  <2>1. next' = 0 /\ \E w \in Workers : wpc'[w] = "next"
    BY <1>2, BeginFacts
  <2>2. \A p \in 0..Parts - 1 : ~(p < next')
    BY <2>1, Ranges
  <2> QED
    BY <2>1, <2>2 DEF Settled
<1>3. CASE CallerActs
  <2> SUFFICES ASSUME dpc' = "parts" PROVE Settled'
    BY DEF Settled
  <2>1. CASE CancelCaller
    BY <2>1 DEF CancelCaller, Settled, Trouble, Cancelled
  <2>2. CASE ~CancelCaller
    BY <1>3, <2>2 DEF CallerActs, Join, Assemble, RenameTrack, Cleanup, FallBack, GiveUp, FinishFails,
                      CallerGoes
  <2> QED
    BY <2>1, <2>2
<1>4. ASSUME NEW w \in Workers, Local(w) \/ Peer(w) PROVE Settled'
  <2>0. /\ dpc = "parts" /\ UNCHANGED <<plan, ctx>> /\ PlanParts' = PlanParts
        /\ \A v \in Workers : v # w =>
             wpc'[v] = wpc[v] /\ part'[v] = part[v] /\ (Holds(v)' <=> Holds(v))
    BY <1>4, WorkerFacts DEF PlanParts, Holds
  <2>1. Trouble => Trouble'
    <3>1. failures # {} => failures' # {}
      BY <1>4 DEF Local, Peer, TakePart, NoPart, Unblock, RequestFails, StreamBreaks, AttemptFails,
                  Rollback, RetryTimer, RetryCancelled, Offer, CancelAll, Respond, Frame, Complete,
                  poolVars
    <3>2. Cancelled => Cancelled'
      BY <1>4, <2>0 DEF Local, Peer, TakePart, NoPart, Unblock, RequestFails, StreamBreaks, AttemptFails,
                  Rollback, RetryTimer, RetryCancelled, Offer, CancelAll, Respond, Frame, Complete,
                  poolVars, Cancelled
    <3>3. wpc[w] = "failing" => failures' # {}
      BY <1>4 DEF Local, Peer, TakePart, NoPart, Unblock, RequestFails, StreamBreaks, AttemptFails,
                  Rollback, RetryTimer, RetryCancelled, Offer, CancelAll, Respond, Frame, Complete
    <3> QED
      BY <2>0, <3>1, <3>2, <3>3 DEF Trouble
  <2>2. CASE TakePart(w)
    <3>1. CASE Cancelled
      BY <2>1, <3>1 DEF Settled, Trouble
    <3>2. CASE ~Cancelled
      <4>1. Holds(w)' /\ part'[w] = next /\ wpc'[w] # "exit" /\ next' = next + 1 /\ UNCHANGED file
        BY <2>2, <3>2, TakeFacts, WorkerFacts DEF Local, Holds, Types, WorkerTypes
      <4>2. ~Holds(w)
        BY <2>2, TakeFacts DEF Holds
      <4>3. \A p \in 0..Parts - 1 : p < next' => p < next \/ p = next
        BY <4>1, Ranges
      <4> QED
        BY <2>0, <2>1, <4>1, <4>2, <4>3 DEF Settled
    <3> QED
      BY <3>1, <3>2
  <2>3. CASE ~TakePart(w)
    <3>1. \A p \in 0..Parts - 1 : file[p] = "whole" => file'[p] = "whole"
      BY <1>4, <2>3, PartFacts, Ranges DEF HeldApart
    <3>2. \A p \in 0..Parts - 1, v \in Workers : Holds(v) /\ part[v] = p =>
            \/ Holds(v)' /\ part'[v] = p
            \/ file'[p] = "whole" \/ Trouble'
      BY <1>4, <2>0, <2>3, PartFacts DEF Trouble
    <3>3. (\A v \in Workers : wpc'[v] = "exit") => next = PlanParts \/ Trouble'
      <4>1. NoPart(w) => next = PlanParts
        BY DEF NoPart
      <4>2. CancelAll(w) => Trouble'
        BY DEF CancelAll, Trouble, Cancelled
      <4> QED
        BY <1>4, <2>3, <4>1, <4>2, PartFacts
    <3> QED
      BY <1>4, <2>0, <2>1, <2>3, <3>1, <3>2, <3>3, PartFacts DEF Settled
  <2> QED
    BY <2>2, <2>3
<1> QED
  BY <1>1, <1>2, <1>3, <1>4, Steps

\* An error of a part's own is never hidden behind the cancellations that it
\* causes (multipart.go:35-53, download.go:22-36).
LEMMA CausesStep == ASSUME SabrInv, [Next]_vars PROVE Causes'
<1>0. Causes /\ CanceledMeansCaller /\ failures \subseteq Errors /\ err \in Errors \cup {"none"}
  BY DEF SabrInv, Causes, Types, PoolTypes, CallTypes
<1>1. CASE UNCHANGED vars
  BY <1>0, <1>1 DEF vars, callVars, poolVars, workerVars, Causes, OwnError, CanceledMeansCaller
<1>2. CASE Begin
  BY <1>2, BeginFacts DEF Causes, CanceledMeansCaller
<1>3. CASE CallerActs
  <2>1. OwnError => OwnError'
    BY <1>3, CallerFacts DEF OwnError
  <2>2. CanceledMeansCaller'
    <3>1. CASE Join
      <4>1. err' \in {"none", FirstFailure} /\ UNCHANGED ctx
        BY <3>1 DEF Join, CallerGoes
      <4>2. err' = FirstFailure => failures # {} \/ ctx \/ stopped
        BY <3>1 DEF Join, CallerGoes, Cancelled, FirstFailure
      <4> QED
        BY <1>0, <4>1, <4>2 DEF FirstFailure, Causes, OwnError, CanceledMeansCaller
    <3>2. CASE ~Join
      <4>1. err' \in {"none", "io", err} \/ ctx
        BY <1>3, <3>2 DEF CallerActs, Assemble, RenameTrack, Cleanup, FallBack, GiveUp, FinishFails,
                          CancelCaller, CallerGoes, callVars
      <4> QED
        BY <1>0, <1>3, <4>1, CallerFacts DEF CanceledMeansCaller
    <3> QED
      BY <3>1, <3>2
  <2> QED
    BY <1>0, <1>3, <2>1, <2>2, CallerFacts DEF Causes
<1>4. ASSUME NEW w \in Workers, Local(w) \/ Peer(w) PROVE Causes'
  <2>0. /\ UNCHANGED <<err, ctx>> /\ wpc \in [Workers -> {"next", "request", "stream", "rollback",
                            "delay", "failing", "cancel", "exit"}]
        /\ w \in DOMAIN lastErr
        /\ \A v \in Workers : v # w => wpc'[v] = wpc[v] /\ lastErr'[v] = lastErr[v]
    BY <1>4, WorkerFacts DEF SabrInv, Types, WorkerTypes
  <2> SUFFICES /\ OwnError => OwnError'
               /\ stopped' \/ failures' # {} => OwnError'
               /\ wpc'[w] \in {"rollback", "failing"} =>
                    lastErr'[w] \in Errors /\ (lastErr'[w] = "canceled" => OwnError')
               /\ wpc'[w] = "cancel" => OwnError'
    BY <1>0, <2>0 DEF Causes, CanceledMeansCaller
  <2> USE DEF WorkerGoes, poolVars, OwnError, Errors
  <2>1. CASE TakePart(w) \/ NoPart(w)
    BY <1>0, <2>0, <2>1 DEF TakePart, NoPart, Causes
  <2>2. CASE Rollback(w)
    BY <1>0, <2>0, <2>2 DEF Rollback, Causes
  <2>3. CASE AttemptFails(w)
    BY <1>0, <2>0, <2>3 DEF AttemptFails, Causes, Cancelled
  <2>4. CASE RetryTimer(w) \/ RetryCancelled(w)
    BY <1>0, <2>0, <2>4 DEF RetryTimer, RetryCancelled, Causes, Cancelled
  <2>5. CASE Offer(w)
    BY <1>0, <2>0, <2>5 DEF Offer, Causes
  <2>6. CASE CancelAll(w)
    BY <1>0, <2>0, <2>6 DEF CancelAll, Causes
  <2>7. CASE Peer(w)
    BY <1>0, <2>0, <2>7 DEF Peer, Respond, Frame, Complete, Causes
  <2> QED
    BY <1>4, <2>1, <2>2, <2>3, <2>4, <2>5, <2>6, <2>7 DEF Local, Unblock, RequestFails, StreamBreaks
<1> QED
  BY <1>1, <1>2, <1>3, <1>4, Steps

\* From whole parts to whole tracks under their names (part_files.go:30-76).
LEMMA TrackingStep == ASSUME SabrInv, [Next]_vars PROVE Tracking'
<1>0. /\ Tracking /\ assembled \in [Tracks -> Content] /\ target \in [Tracks -> Content]
      /\ err \in Errors \cup {"none"}
  BY DEF SabrInv, Types, FileTypes, CallTypes
<1>1. CASE UNCHANGED vars
  BY <1>0, <1>1 DEF vars, callVars, fileVars, Tracking, PlanParts
<1>2. CASE Begin
  BY <1>0, <1>2, BeginFacts DEF Tracking
<1>3. CASE Join
  <2>1. /\ \/ dpc' = "cleanup" /\ err' \in {"io", "canceled"}
           \/ dpc' = "audio" /\ failures = {} /\ ~Cancelled
        /\ UNCHANGED <<plan, file, assembled, target>>
    <3>1. UNCHANGED <<plan, file, assembled, target>> /\ FirstFailure \in {"io", "canceled"}
      BY <1>3 DEF Join, CallerGoes, FirstFailure, fileVars
    <3>2. CASE failures # {} \/ Cancelled
      BY <1>3, <3>1, <3>2 DEF Join, CallerGoes
    <3>3. CASE ~(failures # {} \/ Cancelled)
      BY <1>3, <3>1, <3>3 DEF Join, CallerGoes
    <3> QED
      BY <3>1, <3>2, <3>3
  <2>2. dpc = "parts" /\ \A w \in Workers : wpc[w] = "exit"
    BY <1>3 DEF Join
  <2>3. dpc' = "audio" => \A p \in 0..Parts - 1 : p < PlanParts => file[p] = "whole"
    <3>1. dpc' = "audio" => ~Trouble
      BY <2>1, <2>2 DEF Trouble
    <3>2. \A w \in Workers : ~Holds(w)
      BY <2>2 DEF Holds
    <3> QED
      BY <2>2, <3>1, <3>2 DEF SabrInv, Settled
  <2> QED
    BY <1>0, <2>1, <2>3 DEF Tracking, PlanParts
<1>4. CASE Assemble("audio", "video") \/ Assemble("video", "renameAudio")
  <2>1. /\ dpc \in {"audio", "video"} /\ assembled' = [assembled EXCEPT ![dpc] = Assembled]
        /\ dpc' = IF dpc = "audio" THEN "video" ELSE "renameAudio"
        /\ UNCHANGED <<plan, file, target>>
    BY <1>4 DEF Assemble, CallerGoes
  <2>2. Assembled = "whole"
    BY <1>0, <2>1, Ranges DEF Assembled, Tracking
  <2>3. PlanParts' = PlanParts
    BY <2>1 DEF PlanParts
  <2> QED
    BY <1>0, <2>1, <2>2, <2>3 DEF Tracking, Tracks
<1>5. CASE RenameTrack("audio", "renameAudio", "renameVideo")
           \/ RenameTrack("video", "renameVideo", "cleanup")
  <2>1. \/ /\ dpc = "renameAudio" /\ dpc' = "renameVideo"
           /\ target' = [target EXCEPT !["audio"] = assembled["audio"]]
           /\ assembled' = [assembled EXCEPT !["audio"] = "none"]
        \/ /\ dpc = "renameVideo" /\ dpc' = "cleanup"
           /\ target' = [target EXCEPT !["video"] = assembled["video"]]
    BY <1>5 DEF RenameTrack, CallerGoes
  <2> QED
    BY <1>0, <2>1 DEF Tracking, Tracks
<1>6. CASE Cleanup
  <2>1. /\ dpc = "cleanup" /\ UNCHANGED target /\ dpc' \in {"done", "failed", "delay"}
        /\ dpc' = "done" => err = "none"
    BY <1>6 DEF Cleanup, CallerGoes
  <2> QED
    BY <1>0, <2>1 DEF Tracking
<1>7. CASE FallBack \/ GiveUp
  <2>1. UNCHANGED target /\ dpc' \in {"begin", "failed"}
    BY <1>7 DEF FallBack, GiveUp, CallerGoes, fileVars
  <2> QED
    BY <1>0, <2>1 DEF Tracking
<1>8. CASE FinishFails
  <2>1. UNCHANGED target /\ dpc' = "cleanup" /\ err' = "io"
    BY <1>8 DEF FinishFails, CallerGoes, fileVars
  <2> QED
    BY <1>0, <2>1 DEF Tracking
<1>9. CASE CancelCaller
  BY <1>0, <1>9 DEF CancelCaller, callVars, fileVars, Tracking, PlanParts
<1>10. ASSUME NEW w \in Workers, Local(w) \/ Peer(w) PROVE Tracking'
  BY <1>0, <1>10, WorkerFacts DEF Tracking
<1> QED
  BY <1>1, <1>2, <1>3, <1>4, <1>5, <1>6, <1>7, <1>8, <1>9, <1>10, Steps DEF CallerActs

-----------------------------------------------------------------------------
(* The counter.                                                            *)

\* The frames of one worker apart from those of the others.
LEMMA FramesSplit ==
    ASSUME NEW c \in [Workers -> 0..Parts], NEW w \in Workers
    PROVE  LET Others == {f \in Workers \X (1..Parts) : f[1] # w /\ f[2] <= c[f[1]]}
           IN  /\ IsFiniteSet(Others) /\ Cardinality(Others) \in Nat
               /\ Cardinality(Frames(c)) = Cardinality(Others) + c[w]
<1> DEFINE All == Workers \X (1..Parts)
           Others == {f \in All : f[1] # w /\ f[2] <= c[f[1]]}
           Own == {w} \X (1..c[w])
<1>1. IsFiniteSet(All)
  <2>1. IsFiniteSet(Workers) /\ IsFiniteSet(1..Parts)
    BY FS_Interval, SabrAssumption
  <2> HIDE DEF Others, Own
  <2> QED
    BY <2>1, FS_Product
<1>2. IsFiniteSet(Others) /\ Cardinality(Others) \in Nat
  BY <1>1, FS_Subset, FS_CardinalityType
<1>3. c[w] \in 0..Parts /\ Parts \in Nat
  BY SabrAssumption
<1>4. IsFiniteSet(Own) /\ Cardinality(Own) = c[w]
  <2>1. IsFiniteSet({w}) /\ Cardinality({w}) = 1
    BY FS_Singleton
  <2>2. IsFiniteSet(1..c[w]) /\ Cardinality(1..c[w]) = c[w]
    BY <1>3, FS_Interval
  <2>3. IsFiniteSet(Own) /\ Cardinality(Own) = Cardinality({w}) * Cardinality(1..c[w])
    <3> HIDE DEF All, Others
    <3> QED
      BY <2>1, <2>2, FS_Product
  <2> HIDE DEF Own
  <2> QED
    BY <1>3, <2>1, <2>2, <2>3
<1>5. Frames(c) = Others \cup Own
  <2>1. ASSUME NEW f \in Frames(c) PROVE f \in Others \cup Own
    <3>1. f \in All /\ f = <<f[1], f[2]>> /\ f[2] \in 1..Parts /\ f[2] <= c[f[1]]
      BY <2>1 DEF Frames
    <3> QED
      BY <1>3, <3>1
  <2>2. ASSUME NEW f \in Own PROVE f \in Frames(c)
    BY <1>3, <2>2 DEF Frames
  <2>3. Others \subseteq Frames(c)
    BY DEF Frames
  <2> QED
    BY <2>1, <2>2, <2>3
<1>6. Others \cap Own = {}
  OBVIOUS
<1>7. Cardinality(Others \cup Own) = Cardinality(Others) + Cardinality(Own) - Cardinality(Others \cap Own)
  BY <1>2, <1>4, FS_Union
<1>8. Cardinality(Others \cap Own) = 0
  BY <1>6, FS_EmptySet
<1> QED
  BY <1>2, <1>3, <1>4, <1>5, <1>7, <1>8

\* A worker's count moves the number of frames underway by as much.
LEMMA FramesMove ==
    ASSUME NEW c \in [Workers -> 0..Parts], NEW w \in Workers, NEW n \in 0..Parts
    PROVE  /\ Cardinality(Frames(c)) \in Nat
           /\ Cardinality(Frames([c EXCEPT ![w] = n])) = Cardinality(Frames(c)) - c[w] + n
<1> DEFINE d == [c EXCEPT ![w] = n]
           Others(e) == {f \in Workers \X (1..Parts) : f[1] # w /\ f[2] <= e[f[1]]}
<1>1. d \in [Workers -> 0..Parts] /\ d[w] = n /\ \A v \in Workers : v # w => d[v] = c[v]
  OBVIOUS
<1>2. Others(d) = Others(c)
  BY <1>1
<1>3. Cardinality(Others(c)) \in Nat /\ Cardinality(Frames(c)) = Cardinality(Others(c)) + c[w]
  BY FramesSplit
<1>4. Cardinality(Frames(d)) = Cardinality(Others(d)) + d[w]
  BY <1>1, FramesSplit
<1> HIDE DEF d, Others
<1>5. c[w] \in Nat /\ n \in Nat
  BY SabrAssumption
<1> QED
  BY <1>1, <1>2, <1>3, <1>4, <1>5 DEF d

\* A step that moves the count of one worker, and completes its part or not.
LEMMA CounterMove ==
    ASSUME SabrInv, dpc = "parts", UNCHANGED plan,
           NEW w \in Workers, NEW n \in 0..Parts, counted' = [counted EXCEPT ![w] = n],
           \/ /\ PartsComplete' = PartsComplete
              /\ downloaded' = downloaded + n - counted[w]
           \/ /\ part[w] \in 0..Parts - 1 /\ part[w] \notin PartsComplete
              /\ PartsComplete' = PartsComplete \cup {part[w]}
              /\ counted[w] = Size /\ n = 0 /\ UNCHANGED downloaded
    PROVE  CounterExact'
<1>1. /\ counted \in [Workers -> 0..Parts] /\ counted[w] \in Nat /\ n \in Nat
      /\ downloaded \in Int /\ Size \in Nat /\ Parts \in Nat
  BY Ranges DEF SabrInv, Types, WorkerTypes, PoolTypes
<1>2. downloaded = Cardinality(Frames(counted)) + Size * Cardinality(PartsComplete)
  BY DEF SabrInv, Counting, CounterExact
<1>3. /\ Cardinality(Frames(counted)) \in Nat
      /\ Cardinality(Frames(counted')) = Cardinality(Frames(counted)) - counted[w] + n
  BY <1>1, FramesMove
<1>4. IsFiniteSet(PartsComplete) /\ Cardinality(PartsComplete) \in Nat
  <2>1. IsFiniteSet(0..Parts - 1)
    BY <1>1, FS_Interval
  <2> QED
    BY <2>1, FS_Subset, FS_CardinalityType DEF PartsComplete
<1>5. Size' = Size
  BY DEF Size
<1>6. Frames(counted)' = Frames(counted')
  BY DEF Frames
<1> SUFFICES downloaded' = Cardinality(Frames(counted')) + Size * Cardinality(PartsComplete')
  BY <1>5, <1>6 DEF CounterExact
<1>7. CASE PartsComplete' = PartsComplete /\ downloaded' = downloaded + n - counted[w]
  <2>1. Size * Cardinality(PartsComplete) \in Int
    BY <1>1, <1>4
  <2> QED
    BY <1>1, <1>2, <1>3, <1>7, <2>1
<1>8. CASE /\ part[w] \notin PartsComplete /\ PartsComplete' = PartsComplete \cup {part[w]}
           /\ counted[w] = Size /\ n = 0 /\ UNCHANGED downloaded
  <2>1. Cardinality(PartsComplete') = Cardinality(PartsComplete) + 1
    BY <1>4, <1>8, FS_AddElement
  <2>2. Size * (Cardinality(PartsComplete) + 1) = Size * Cardinality(PartsComplete) + Size
    BY <1>1, <1>4
  <2>3. Size * Cardinality(PartsComplete) \in Int
    BY <1>1, <1>4
  <2> QED
    BY <1>1, <1>2, <1>3, <1>8, <2>1, <2>2, <2>3
<1> QED
  BY <1>7, <1>8

\* Rolling back takes off what the attempt had added, nothing else
\* (progress.go:9-26).
LEMMA CountingStep == ASSUME SabrInv, [Next]_vars PROVE Counting'
<1>0. /\ Counting /\ counted \in [Workers -> 0..Parts] /\ downloaded \in Int
  BY DEF SabrInv, Types, WorkerTypes, PoolTypes
<1>1. CASE UNCHANGED vars
  BY <1>0, <1>1 DEF vars, callVars, fileVars, workerVars, Counting, CounterExact, PartsComplete, Frames,
                    Size
<1>2. CASE Begin
  <2>1. \A w \in Workers : counted'[w] = 0
    BY <1>2, BeginFacts DEF SabrInv, Quiet, Counting
  <2>2. Frames(counted') = {}
    BY <1>0, <1>2, <2>1, Ranges, BeginFacts DEF Frames
  <2>3. PartsComplete' = {}
    BY <1>2, BeginFacts DEF SabrInv, Untouched, PartsComplete
  <2>4. Size' \in Nat
    BY <1>2, BeginFacts, Ranges DEF Size
  <2>5. CounterExact'
    <3>1. Frames(counted)' = {} /\ downloaded' = 0
      BY <1>2, <2>2, BeginFacts DEF Frames
    <3>2. Cardinality({}) = 0
      BY FS_EmptySet
    <3> QED
      BY <2>3, <2>4, <3>1, <3>2 DEF CounterExact
  <2> QED
    BY <2>1, <2>4, <2>5 DEF Counting
<1>3. CASE CallerActs
  <2>1. /\ UNCHANGED <<counted, wpc, downloaded>>
        /\ dpc' # "begin" => dpc # "begin" /\ Size' = Size
    BY <1>3, CallerFacts DEF Size
  <2>2. CounterExact'
    BY <1>0, <1>3, <2>1, CallerFacts DEF Counting, CounterExact, PartsComplete, Frames
  <2> QED
    BY <1>0, <2>1, <2>2 DEF Counting
<1>4. ASSUME NEW w \in Workers, Local(w) \/ Peer(w) PROVE Counting'
  <2>1. /\ dpc = "parts" /\ dpc' = "parts" /\ UNCHANGED plan /\ Size' = Size
        /\ \A v \in Workers : v # w => counted'[v] = counted[v] /\ wpc'[v] = wpc[v]
        /\ counted' \in [Workers -> 0..Parts]
        /\ wpc \in [Workers -> {"next", "request", "stream", "rollback",
                            "delay", "failing", "cancel", "exit"}]
    BY <1>4, WorkerFacts DEF Size, WorkerTypes, SabrInv, Types
  <2>2. /\ counted'[w] <= Size
        /\ wpc'[w] \notin {"stream", "rollback"} => counted'[w] = 0
        /\ CounterExact'
    <3>0. /\ counted[w] <= Size /\ counted[w] \in 0..Parts /\ part[w] \in 0..Parts - 1
          /\ wpc[w] \notin {"stream", "rollback"} => counted[w] = 0
          /\ Size \in 1..Parts /\ Parts \in Nat
      BY <1>0, <2>1, Ranges DEF Counting
    <3>1. CASE Frame(w)
      <4>1. /\ counted' = [counted EXCEPT ![w] = counted[w] + 1] /\ counted[w] < Size
            /\ downloaded' = downloaded + 1 /\ UNCHANGED <<wpc, file>> /\ wpc[w] = "stream"
        BY <3>1 DEF Frame, fileVars
      <4>2. counted[w] + 1 \in 0..Parts /\ downloaded' = downloaded + (counted[w] + 1) - counted[w]
        BY <1>0, <3>0, <4>1
      <4>3. CounterExact'
        BY <2>1, <4>1, <4>2, CounterMove DEF PartsComplete
      <4> QED
        BY <1>0, <3>0, <4>1, <4>3
    <3>2. CASE Complete(w)
      <4>1. /\ counted' = [counted EXCEPT ![w] = 0] /\ counted[w] = Size /\ UNCHANGED downloaded
            /\ file' = [file EXCEPT ![part[w]] = "whole"] /\ wpc[w] = "stream"
        BY <3>2 DEF Complete
      <4>2. file[part[w]] # "whole" /\ file \in [0..Parts - 1 -> Content]
        BY <4>1, Ranges DEF SabrInv, HeldApart, Holds
      <4>3. part[w] \notin PartsComplete /\ PartsComplete' = PartsComplete \cup {part[w]}
        BY <3>0, <4>1, <4>2 DEF PartsComplete
      <4>4. CounterExact'
        BY <2>1, <3>0, <4>1, <4>3, CounterMove
      <4> QED
        BY <1>0, <3>0, <4>1, <4>4
    <3>3. CASE Rollback(w)
      <4>1. /\ counted' = [counted EXCEPT ![w] = 0] /\ downloaded' = downloaded - counted[w]
            /\ UNCHANGED file
        BY <3>3 DEF Rollback, fileVars
      <4>2. downloaded' = downloaded + 0 - counted[w]
        BY <1>0, <3>0, <4>1
      <4>3. CounterExact'
        BY <2>1, <3>0, <4>1, <4>2, CounterMove DEF PartsComplete
      <4> QED
        BY <1>0, <3>0, <4>1, <4>3
    <3>4. CASE ~Frame(w) /\ ~Complete(w) /\ ~Rollback(w)
      <4>1. UNCHANGED <<counted, downloaded>>
        BY <1>4, <3>4 DEF Local, Peer, TakePart, NoPart, Unblock, RequestFails, StreamBreaks, AttemptFails,
                          RetryTimer, RetryCancelled, Offer, CancelAll, Respond
      <4>2. wpc[w] \in {"stream", "rollback"} => wpc'[w] \in {"stream", "rollback"}
        BY <1>4, <2>1, <3>4 DEF Local, Peer, TakePart, NoPart, Unblock, RequestFails, StreamBreaks,
                          AttemptFails, RetryTimer, RetryCancelled, Offer, CancelAll, Respond, WorkerGoes
      <4>3. PartsComplete' = PartsComplete
        <5>1. CASE TakePart(w)
          BY <5>1, TakeFacts DEF PartsComplete
        <5>2. CASE ~TakePart(w)
          <6>1. file' # [file EXCEPT ![part[w]] = "whole"] \/ file' = file
            BY <1>4, <3>0, <3>4, Ranges DEF Local, Peer, TakePart, NoPart, Unblock, RequestFails, StreamBreaks,
                          AttemptFails, RetryTimer, RetryCancelled, Offer, CancelAll, Respond, fileVars
          <6> QED
            BY <1>4, <3>0, <5>2, <6>1, PartFacts, Ranges DEF PartsComplete, SabrInv, HeldApart
        <5> QED
          BY <5>1, <5>2
      <4>4. counted' = [counted EXCEPT ![w] = counted[w]]
        BY <1>0, <4>1
      <4>5. downloaded' = downloaded + counted[w] - counted[w]
        BY <1>0, <3>0, <4>1
      <4>6. CounterExact'
        BY <2>1, <3>0, <4>3, <4>4, <4>5, CounterMove
      <4> QED
        BY <3>0, <4>1, <4>2, <4>6
    <3> QED
      BY <3>1, <3>2, <3>3, <3>4
  <2> QED
    BY <1>0, <2>1, <2>2 DEF Counting
<1> QED
  BY <1>1, <1>2, <1>3, <1>4, Steps

-----------------------------------------------------------------------------
LEMMA SabrInvInit == Init => SabrInv
<1> SUFFICES ASSUME Init PROVE SabrInv
  OBVIOUS
<1>1. CallTypes
  <2>1. dpc = "begin" /\ plan = 1 /\ err = "none" /\ ctx = FALSE
    BY DEF Init
  <2>2. ctx \in BOOLEAN
    BY <2>1
  <2> QED
    BY <2>1, <2>2 DEF CallTypes
<1>2. PoolTypes
  <2>1. stopped = FALSE /\ next = 0 /\ failures = {} /\ downloaded = 0
    BY DEF Init
  <2>2. stopped \in BOOLEAN
    BY <2>1
  <2> QED
    BY <2>1, <2>2, SabrAssumption DEF PoolTypes
<1> USE SabrAssumption DEF Init
<1>3. FileTypes
  BY DEF FileTypes, Content
<1>4. WorkerTypes
  BY DEF WorkerTypes
<1>5. Quiet /\ HeldApart /\ Untouched /\ Settled
  BY DEF Quiet, HeldApart, Untouched, Settled, Holds
<1>6. Causes /\ Tracking
  BY DEF Causes, CanceledMeansCaller, Tracking
<1>7. Counting
  BY DEF Counting, CounterExact
<1> QED
  BY <1>1, <1>2, <1>3, <1>4, <1>5, <1>6, <1>7 DEF SabrInv, Types

LEMMA SabrInvStep == SabrInv /\ [Next]_vars => SabrInv'
  BY TypesStep, QuietStep, HeldApartStep, UntouchedStep, SettledStep, CausesStep, TrackingStep,
     CountingStep DEF SabrInv

\* The inductive invariant.
THEOREM SabrInvariant == Spec => []SabrInv
  BY SabrInvInit, SabrInvStep, PTL DEF Spec

\* Only a complete track gets its final name, and Download succeeds only with
\* both, whichever plan placed them (part_files.go:30-44).
THEOREM TargetsWholeAlways == Spec => []TargetsWhole
<1>1. SabrInv => TargetsWhole
  BY DEF SabrInv, Tracking, TargetsWhole
<1> QED
  BY <1>1, SabrInvariant, PTL

\* Download reports a cancellation only of a caller that was cancelled
\* (multipart.go:46-53, download.go:22-36).
THEOREM SabrCanceledMeansCaller == Spec => []CanceledMeansCaller
<1>1. SabrInv => CanceledMeansCaller
  BY DEF SabrInv, Causes
<1> QED
  BY <1>1, SabrInvariant, PTL

\* While parts come in the progress counter is exact (progress.go:9-26).
THEOREM CounterExactAlways == Spec => []CounterExact
<1>1. SabrInv => CounterExact
  BY DEF SabrInv, Counting
<1> QED
  BY <1>1, SabrInvariant, PTL

\* Neither a part file nor a .download file outlives the call
\* (part_files.go:78-85).
THEOREM NoTemporariesAlways == Spec => []NoTemporaries
<1>1. SabrInv => NoTemporaries
  BY DEF SabrInv, Untouched, NoTemporaries
<1> QED
  BY <1>1, SabrInvariant, PTL
=============================================================================
