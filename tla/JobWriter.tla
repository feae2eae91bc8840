------------------------------ MODULE JobWriter ------------------------------
(***************************************************************************)
(* The write-behind queue between the job store and a database             *)
(* (internal/db/job_writer.go; PostgresSink and DragonflySink own one      *)
(* each).  Any goroutine that changed a job calls enqueue with a snapshot; *)
(* one goroutine, run, saves the snapshots; close stops accepting, drains  *)
(* the queue for at most the shutdown timeout and reports what was lost.   *)
(***************************************************************************)
EXTENDS Naturals, FiniteSets, Sequences

CONSTANTS
    Enqueuers,   \* goroutines calling enqueue
    Closers,     \* goroutines calling close
    Writes,      \* the snapshots offered; each enqueue gets a fresh clone
    NoWrite,     \* no snapshot in hand
    QueueSize    \* capacity of jobWriter.queue (2048)

ASSUME WriterAssumption ==
    /\ NoWrite \notin Writes
    /\ IsFiniteSet(Writes)
    /\ QueueSize \in Nat \ {0}

VARIABLES
    queue,        \* jobWriter.queue
    queueClosed,  \* close(w.queue) was called
    closed,       \* jobWriter.closed
    epc, ewrite,  \* per enqueuer: past the check of `closed`, with a snapshot
    cpc,          \* per closer
    once,         \* jobWriter.closeOnce
    ctxDone,      \* w.ctx is cancelled: the shutdown timer, or close at its end
    rpc, hand,    \* run: in its receive, saving `hand`, or ended (w.done)
    rejected,     \* jobWriter.rejected
    failures,     \* jobWriter.failures
    saved,        \* what the database has stored, in order
    offered,      \* history: snapshots passed to enqueue
    ignored,      \* history: those passed after the writer was closed
    lost          \* history: those counted as rejected or failed

sendVars  == <<epc, ewrite, rejected, offered, ignored>>
closeVars == <<cpc, once, closed, queueClosed>>
runVars   == <<rpc, hand, failures, saved>>
vars      == <<queue, ctxDone, lost, sendVars, closeVars, runVars>>

Returned == {"ok", "error"}

WriterTypeOK ==
    /\ queue \in Seq(Writes) /\ Len(queue) <= QueueSize
    /\ closed \in BOOLEAN /\ queueClosed \in BOOLEAN /\ ctxDone \in BOOLEAN
    /\ epc \in [Enqueuers -> {"idle", "send"}]
    /\ ewrite \in [Enqueuers -> Writes \cup {NoWrite}]
    /\ \A e \in Enqueuers : epc[e] = "send" => ewrite[e] \in Writes
    /\ cpc \in [Closers -> {"idle", "lock", "wait", "once"} \cup Returned]
    /\ once \in {"free", "taken", "done"}
    /\ rpc \in {"receive", "save", "exited"}
    /\ hand \in Writes \cup {NoWrite}
    /\ rpc = "save" => hand \in Writes
    /\ rejected \in Nat /\ failures \in Nat
    /\ saved \in Seq(Writes)
    /\ offered \subseteq Writes /\ ignored \subseteq Writes /\ lost \subseteq Writes

Init ==
    /\ queue = <<>> /\ queueClosed = FALSE /\ closed = FALSE /\ ctxDone = FALSE
    /\ epc = [e \in Enqueuers |-> "idle"]
    /\ ewrite = [e \in Enqueuers |-> NoWrite]
    /\ cpc = [c \in Closers |-> "idle"] /\ once = "free"
    /\ rpc = "receive" /\ hand = NoWrite
    /\ rejected = 0 /\ failures = 0
    /\ saved = <<>> /\ offered = {} /\ ignored = {} /\ lost = {}

-----------------------------------------------------------------------------
(* enqueue, which holds the read lock from Offer to Send.                  *)

Offer(e, r) ==
    /\ epc[e] = "idle" /\ r \notin offered
    /\ offered' = offered \cup {r}
    /\ IF closed
       THEN ignored' = ignored \cup {r} /\ UNCHANGED <<epc, ewrite>>
       ELSE /\ epc' = [epc EXCEPT ![e] = "send"]
            /\ ewrite' = [ewrite EXCEPT ![e] = r]
            /\ UNCHANGED ignored
    /\ UNCHANGED <<queue, ctxDone, lost, rejected, closeVars, runVars>>

SendEnds(e) ==
    /\ epc' = [epc EXCEPT ![e] = "idle"]
    /\ ewrite' = [ewrite EXCEPT ![e] = NoWrite]

Send(e) ==
    /\ epc[e] = "send"
    /\ Len(queue) < QueueSize
    /\ queue' = Append(queue, ewrite[e])
    /\ SendEnds(e)
    /\ UNCHANGED <<ctxDone, lost, rejected, offered, ignored, closeVars, runVars>>

Reject(e) ==
    /\ epc[e] = "send"
    /\ Len(queue) = QueueSize
    /\ rejected' = rejected + 1
    /\ lost' = lost \cup {ewrite[e]}
    /\ SendEnds(e)
    /\ UNCHANGED <<queue, ctxDone, offered, ignored, closeVars, runVars>>

-----------------------------------------------------------------------------
(* run.                                                                    *)

\* Mutant: the newest snapshot first.
Receive_Newest ==
    /\ rpc = "receive" /\ queue # <<>> /\ ~ctxDone
    /\ rpc' = "save" /\ hand' = queue[Len(queue)]
    /\ queue' = SubSeq(queue, 1, Len(queue) - 1)
    /\ UNCHANGED <<ctxDone, lost, failures, saved, sendVars, closeVars>>

Receive ==
    /\ rpc = "receive" /\ queue # <<>> /\ ~ctxDone
    /\ rpc' = "save" /\ hand' = Head(queue)
    /\ queue' = Tail(queue)
    /\ UNCHANGED <<ctxDone, lost, failures, saved, sendVars, closeVars>>

\* Mutant: what the shutdown timeout cuts off is not counted.
Discard_Uncounted ==
    /\ rpc = "receive" /\ queue # <<>> /\ ctxDone
    /\ lost' = lost \cup {Head(queue)}
    /\ queue' = Tail(queue)
    /\ UNCHANGED <<ctxDone, runVars, sendVars, closeVars>>

\* After the timeout the rest of the queue is counted, not saved.
Discard ==
    /\ rpc = "receive" /\ queue # <<>> /\ ctxDone
    /\ failures' = failures + 1
    /\ lost' = lost \cup {Head(queue)}
    /\ queue' = Tail(queue)
    /\ UNCHANGED <<ctxDone, rpc, hand, saved, sendVars, closeVars>>

SaveEnds == rpc' = "receive" /\ hand' = NoWrite

Save ==
    /\ rpc = "save"
    /\ saved' = Append(saved, hand)
    /\ SaveEnds
    /\ UNCHANGED <<queue, ctxDone, lost, failures, sendVars, closeVars>>

\* The database refuses, or the write or shutdown timeout ends the call; the
\* statement may have been committed all the same.  There is no retry.
SaveFails ==
    /\ rpc = "save"
    /\ saved' \in {saved, Append(saved, hand)}
    /\ failures' = failures + 1
    /\ lost' = lost \cup {hand}
    /\ SaveEnds
    /\ UNCHANGED <<queue, ctxDone, sendVars, closeVars>>

RunExits ==
    /\ rpc = "receive" /\ queueClosed /\ queue = <<>>
    /\ rpc' = "exited"
    /\ UNCHANGED <<queue, ctxDone, lost, hand, failures, saved, sendVars, closeVars>>

Run == Receive \/ Discard \/ Save \/ SaveFails \/ RunExits

-----------------------------------------------------------------------------
(* close.                                                                  *)

\* sync.Once: the first caller runs the body, the others wait for its end.
Close(c) ==
    /\ cpc[c] = "idle"
    /\ IF once = "free"
       THEN once' = "taken" /\ cpc' = [cpc EXCEPT ![c] = "lock"]
       ELSE UNCHANGED once /\ cpc' = [cpc EXCEPT ![c] = "once"]
    /\ UNCHANGED <<queue, ctxDone, lost, closed, queueClosed, sendVars, runVars>>

\* Mutants: the queue is closed without the lock; it is not closed at all.
CloseQueue_Unlocked(c) ==
    /\ cpc[c] = "lock"
    /\ closed' = TRUE /\ queueClosed' = TRUE
    /\ cpc' = [cpc EXCEPT ![c] = "wait"]
    /\ UNCHANGED <<queue, ctxDone, lost, once, sendVars, runVars>>

CloseQueue_LeavesOpen(c) ==
    /\ cpc[c] = "lock"
    /\ \A e \in Enqueuers : epc[e] # "send"
    /\ closed' = TRUE
    /\ cpc' = [cpc EXCEPT ![c] = "wait"]
    /\ UNCHANGED <<queue, ctxDone, lost, once, queueClosed, sendVars, runVars>>

\* The write lock is granted when no enqueue holds the read lock.
CloseQueue(c) ==
    /\ cpc[c] = "lock"
    /\ \A e \in Enqueuers : epc[e] # "send"
    /\ closed' = TRUE /\ queueClosed' = TRUE
    /\ cpc' = [cpc EXCEPT ![c] = "wait"]
    /\ UNCHANGED <<queue, ctxDone, lost, once, sendVars, runVars>>

\* The shutdown timer fires while close waits for run.
Timeout ==
    /\ \E c \in Closers : cpc[c] = "wait"
    /\ ~ctxDone
    /\ ctxDone' = TRUE
    /\ UNCHANGED <<queue, lost, sendVars, closeVars, runVars>>

Report == IF failures > 0 \/ rejected > 0 THEN "error" ELSE "ok"

\* Mutant: close gives up at the timeout instead of waiting for run.
Joined_AtTimeout(c) ==
    /\ cpc[c] = "wait" /\ (rpc = "exited" \/ ctxDone)
    /\ ctxDone' = TRUE
    /\ once' = "done"
    /\ cpc' = [cpc EXCEPT ![c] = Report]
    /\ UNCHANGED <<queue, lost, closed, queueClosed, sendVars, runVars>>

Joined(c) ==
    /\ cpc[c] = "wait" /\ rpc = "exited"
    /\ ctxDone' = TRUE
    /\ once' = "done"
    /\ cpc' = [cpc EXCEPT ![c] = Report]
    /\ UNCHANGED <<queue, lost, closed, queueClosed, sendVars, runVars>>

AlreadyClosed(c) ==
    /\ cpc[c] = "once" /\ once = "done"
    /\ cpc' = [cpc EXCEPT ![c] = Report]
    /\ UNCHANGED <<queue, ctxDone, lost, once, closed, queueClosed, sendVars, runVars>>

-----------------------------------------------------------------------------
Next ==
    \/ \E e \in Enqueuers : (\E r \in Writes : Offer(e, r)) \/ Send(e) \/ Reject(e)
    \/ Run
    \/ \E c \in Closers : Close(c) \/ CloseQueue(c) \/ Joined(c) \/ AlreadyClosed(c)
    \/ Timeout

Spec == Init /\ [][Next]_vars

\* Goroutines run; a save ends, at the latest at its write timeout.  Neither
\* a caller of close nor the timer is assumed to act.
Fairness ==
    /\ \A e \in Enqueuers : WF_vars(Send(e) \/ Reject(e))
    /\ WF_vars(Run)
    /\ \A c \in Closers : WF_vars(CloseQueue(c) \/ Joined(c) \/ AlreadyClosed(c))

FairSpec == Spec /\ Fairness

-----------------------------------------------------------------------------
Elements(s) == {s[n] : n \in 1..Len(s)}

\* No enqueue that passed the check of `closed` meets a closed channel (the
\* send would panic): the lock orders the two (job_writer.go:43-49, 75-78).
NeverSendsOnClosed == \A e \in Enqueuers : epc[e] = "send" => ~queueClosed

\* The queue between the store and the database, as a whole: what is in it is
\* the channel and the snapshot that run has in hand.
Promise == INSTANCE SinkQueue WITH
               open <- ~queueClosed,
               pending <- (IF rpc = "save" THEN <<hand>> ELSE <<>>) \o queue,
               stored <- saved

\* Whatever the senders, the closers, the timer and the database do, snapshots
\* are stored in the order in which they were enqueued, so the last one of a
\* job wins (job_writer_test.go:37, "record order changed"), and one is lost
\* only at the full queue or at the head of it.
QueueSpec == Promise!QueueSpec

\* close returns nil only if every snapshot that any goroutine passed to
\* enqueue before the queue was closed is in the database.
CloseIsHonest ==
    \A c \in Closers : cpc[c] = "ok" => offered \ ignored \subseteq Elements(saved)

\* Once close has returned, to any caller, nothing is written any more: the
\* caller closes the connection pool next (postgres.go:34-39).
NoWriteAfterClose ==
    [][(\E c \in Closers : cpc[c] \in Returned) => UNCHANGED saved]_vars

\* Every call of close returns, whoever else enqueues or closes meanwhile.
CloseReturns == \A c \in Closers : cpc[c] # "idle" ~> cpc[c] \in Returned
=============================================================================
