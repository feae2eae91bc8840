------------------------------ MODULE JobEvents ------------------------------
(***************************************************************************)
(* Live updates of one job (internal/job/store_events.go and the SSE       *)
(* handler internal/api/events.go).                                        *)
(*                                                                         *)
(* The state of the job is a version number that every update increments;  *)
(* what an update does to the record is JobStore's subject.  An update     *)
(* releases the lock before it broadcasts, and broadcast sends, without    *)
(* blocking and under the read lock, the state it then finds.  Subscribe   *)
(* registers the channel and reads the initial state under the lock, and   *)
(* sends that state after it has released the lock.                        *)
(***************************************************************************)
EXTENDS Naturals, FiniteSets, Sequences

CONSTANTS
    Updaters,     \* goroutines that change the job: its worker, handlers
    Subscribers,  \* SSE requests for the job
    BufferSize,   \* capacity of a subscriber's channel (16)
    MaxVersion    \* bound: updates of the job in a behaviour

ASSUME EventsAssumption ==
    /\ BufferSize \in Nat \ {0}
    /\ MaxVersion \in Nat

VARIABLES
    version,    \* the record, by the number of updates it has seen
    present,    \* the job is in Store.jobs
    upc,        \* per updater: done, or before its broadcast
    snapshot,   \* per updater: the state its own update left (for the sinks)
    spc,        \* per subscriber
    initial,    \* per subscriber: the state Subscribe read under the lock
    listeners,  \* Store.listeners[id]
    channel,    \* per subscriber: its channel, a sequence of events
    chClosed,   \* subscribers whose channel is closed
    seen,       \* per subscriber: the last event written to the client
    late        \* history: subscribers of which an event was dropped or was
                \* sent ahead of the initial one

updVars == <<version, present, upc, snapshot>>
subVars == <<spc, initial, listeners, channel, chClosed, seen>>
vars    == <<updVars, subVars, late>>

Versions == 0..MaxVersion

\* The first event of a stream is Subscribe's, the others are broadcasts.
Event == [state: Versions, first: BOOLEAN]

EventsTypeOK ==
    /\ version \in Versions /\ present \in BOOLEAN
    /\ upc \in [Updaters -> {"idle", "broadcast"}]
    /\ snapshot \in [Updaters -> Versions]
    /\ spc \in [Subscribers -> {"idle", "send", "stream", "gone"}]
    /\ initial \in [Subscribers -> Versions]
    /\ listeners \subseteq Subscribers /\ chClosed \subseteq Subscribers
    /\ channel \in [Subscribers -> Seq(Event)]
    /\ \A s \in Subscribers : Len(channel[s]) <= BufferSize
    /\ seen \in [Subscribers -> Event]
    /\ late \subseteq Subscribers

Init ==
    /\ version = 0 /\ present = TRUE
    /\ upc = [u \in Updaters |-> "idle"] /\ snapshot = [u \in Updaters |-> 0]
    /\ spc = [s \in Subscribers |-> "idle"]
    /\ initial = [s \in Subscribers |-> 0]
    /\ listeners = {} /\ chClosed = {} /\ late = {}
    /\ channel = [s \in Subscribers |-> <<>>]
    /\ seen = [s \in Subscribers |-> [state |-> 0, first |-> TRUE]]

-----------------------------------------------------------------------------
(* The store's side.                                                       *)

Changed(u) ==
    /\ upc[u] = "idle" /\ present
    /\ version < MaxVersion
    /\ version' = version + 1
    /\ upc' = [upc EXCEPT ![u] = "broadcast"]
    /\ snapshot' = [snapshot EXCEPT ![u] = version + 1]
    /\ UNCHANGED <<subVars, late>>

Update(u) == Changed(u) /\ UNCHANGED present

\* Mutant: a removal is not broadcast.
Remove_Silent(u) ==
    /\ upc[u] = "idle" /\ present
    /\ version < MaxVersion
    /\ version' = version + 1
    /\ present' = FALSE
    /\ UNCHANGED <<upc, snapshot, subVars, late>>

\* Delete, an expiry: from now on the job's response is a failed one.
Remove(u) == Changed(u) /\ present' = FALSE

\* One event to every listener whose channel has room.
Send(u, v) ==
    /\ upc[u] = "broadcast"
    /\ upc' = [upc EXCEPT ![u] = "idle"]
    /\ LET room == {s \in listeners : Len(channel[s]) < BufferSize}
       IN  /\ channel' = [s \in Subscribers |->
                            IF s \in room
                            THEN Append(channel[s], [state |-> v, first |-> FALSE])
                            ELSE channel[s]]
           /\ late' = late \cup (listeners \ room)
                      \cup {s \in room : spc[s] = "send"}
    /\ UNCHANGED <<version, present, snapshot, spc, initial, listeners, chClosed, seen>>

\* Mutant: the event is the snapshot the updater took, as for the sinks.
Broadcast_Snapshot(u) == Send(u, snapshot[u])

Broadcast(u) == Send(u, version)

-----------------------------------------------------------------------------
(* The subscriber's side.                                                  *)

Subscribe(s) ==
    /\ spc[s] = "idle" /\ present
    /\ listeners' = listeners \cup {s}
    /\ initial' = [initial EXCEPT ![s] = version]
    /\ spc' = [spc EXCEPT ![s] = "send"]
    /\ UNCHANGED <<updVars, channel, chClosed, seen, late>>

\* A blocking send; nobody receives before Subscribe has returned.
SendInitial(s) ==
    /\ spc[s] = "send"
    /\ Len(channel[s]) < BufferSize
    /\ channel' = [channel EXCEPT ![s] =
                     Append(@, [state |-> initial[s], first |-> TRUE])]
    /\ spc' = [spc EXCEPT ![s] = "stream"]
    /\ UNCHANGED <<updVars, initial, listeners, chClosed, seen, late>>

\* The handler writes an event to the client.
Receive(s) ==
    /\ spc[s] = "stream" /\ channel[s] # <<>>
    /\ seen' = [seen EXCEPT ![s] = Head(channel[s])]
    /\ channel' = [channel EXCEPT ![s] = Tail(@)]
    /\ UNCHANGED <<updVars, spc, initial, listeners, chClosed, late>>

\* Mutant: the channel is closed and stays registered.
Disconnect_StaysListed(s) ==
    /\ spc[s] = "stream"
    /\ chClosed' = chClosed \cup {s}
    /\ spc' = [spc EXCEPT ![s] = "gone"]
    /\ UNCHANGED <<updVars, initial, listeners, channel, seen, late>>

\* The client goes away: unsubscribe, under the lock.
Disconnect(s) ==
    /\ spc[s] = "stream"
    /\ listeners' = listeners \ {s}
    /\ chClosed' = chClosed \cup {s}
    /\ spc' = [spc EXCEPT ![s] = "gone"]
    /\ UNCHANGED <<updVars, initial, channel, seen, late>>

Next ==
    \/ \E u \in Updaters : Update(u) \/ Remove(u) \/ Broadcast(u)
    \/ \E s \in Subscribers : Subscribe(s) \/ SendInitial(s) \/ Receive(s) \/ Disconnect(s)

Spec == Init /\ [][Next]_vars

-----------------------------------------------------------------------------
\* What a subscriber will have been sent, in order.
Stream(s) == <<seen[s]>> \o channel[s]

\* Whatever the interleaving of the updaters, a subscriber's broadcasts never
\* go back to an older state: each carries the state at its own time, and the
\* read lock keeps updates out until it is in every channel.
BroadcastsInOrder ==
    \A s \in Subscribers : \A m, n \in 1..Len(Stream(s)) :
        m < n /\ ~Stream(s)[m].first /\ ~Stream(s)[n].first
        => Stream(s)[m].state <= Stream(s)[n].state

\* Nothing is ever sent on a closed channel (it would panic): a listener's
\* channel is open, also while its initial event is still to be sent.
ListenersOpen ==
    \A s \in Subscribers : s \in listeners \/ spc[s] = "send" => s \notin chClosed

\* All is delivered: no broadcast is due and the client has every event.
Quiet(s) ==
    /\ \A u \in Updaters : upc[u] = "idle"
    /\ spc[s] = "stream" /\ channel[s] = <<>>

\* Then a client whose events were neither dropped nor overtaken by others
\* has seen the state that polling returns, the job's removal included.
CurrentUnlessLate ==
    \A s \in Subscribers \ late : Quiet(s) => seen[s].state = version

\* "SSE job updates with polling-compatible state" (README.md:19): every
\* client has.
StreamIsCurrent == \A s \in Subscribers : Quiet(s) => seen[s].state = version
=============================================================================
