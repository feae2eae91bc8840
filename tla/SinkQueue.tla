------------------------------ MODULE SinkQueue ------------------------------
(***************************************************************************)
(* What the write-behind queue of a sink promises to the job store: a      *)
(* bounded queue that stores snapshots in the order in which it took them, *)
(* and that may lose some, but only as said here: a new one when the queue *)
(* is full, the oldest one when storing it fails or time is up.  JobWriter *)
(* implements it; JobDurability relies on it.                              *)
(***************************************************************************)
EXTENDS Naturals, Sequences

CONSTANTS
    Writes,     \* snapshots
    QueueSize   \* how many wait at least before one is refused

VARIABLES
    open,       \* snapshots are taken
    pending,    \* taken and neither stored nor lost, in order
    stored,     \* what the database holds, in the order it was written
    lost        \* snapshots reported as lost

queueVars == <<open, pending, stored, lost>>

QueueInit == open = TRUE /\ pending = <<>> /\ stored = <<>> /\ lost = {}

\* One more than the queue holds is in the hands of the goroutine that saves.
Take(r) ==
    /\ open /\ Len(pending) <= QueueSize
    /\ pending' = Append(pending, r)
    /\ UNCHANGED <<open, stored, lost>>

Refuse(r) ==
    /\ open /\ Len(pending) >= QueueSize
    /\ lost' = lost \cup {r}
    /\ UNCHANGED <<open, pending, stored>>

Store ==
    /\ pending # <<>>
    /\ stored' = Append(stored, Head(pending))
    /\ pending' = Tail(pending)
    /\ UNCHANGED <<open, lost>>

\* Storing may have succeeded although it is reported as failed.
Lose ==
    /\ pending # <<>>
    /\ stored' \in {stored, Append(stored, Head(pending))}
    /\ lost' = lost \cup {Head(pending)}
    /\ pending' = Tail(pending)
    /\ UNCHANGED open

Shut == open /\ open' = FALSE /\ UNCHANGED <<pending, stored, lost>>

QueueNext == (\E r \in Writes : Take(r) \/ Refuse(r)) \/ Store \/ Lose \/ Shut

QueueSpec == QueueInit /\ [][QueueNext]_queueVars
=============================================================================
