--------------------------- MODULE JobEventsProofs ---------------------------
(***************************************************************************)
(* Proofs about JobEvents for any number of updaters and subscribers, any  *)
(* buffer and any number of updates: nothing is sent on a closed channel,  *)
(* broadcasts reach a client in order, and a client whose events were all  *)
(* delivered in time has the state that polling returns.                   *)
(***************************************************************************)
EXTENDS JobEvents, SequenceTheorems, TLAPS

-----------------------------------------------------------------------------
(* The inductive invariant.                                                *)

\* A subscription is registered from Subscribe to unsubscribe, and its channel
\* closed from then on.
Registered ==
    \A s \in Subscribers :
        /\ s \in listeners <=> spc[s] \in {"send", "stream"}
        /\ s \in chClosed <=> spc[s] = "gone"

\* Nobody tells of a state that the job has not had yet.
NotAhead ==
    \A s \in Subscribers :
        /\ initial[s] <= version /\ seen[s].state <= version
        /\ \A n \in 1..Len(channel[s]) : channel[s][n].state <= version

\* What BroadcastsInOrder says, for the channel and for what was read from it.
ChannelInOrder ==
    \A s \in Subscribers :
        /\ \A m, n \in 1..Len(channel[s]) :
             m < n /\ ~channel[s][m].first /\ ~channel[s][n].first
             => channel[s][m].state <= channel[s][n].state
        /\ \A n \in 1..Len(channel[s]) :
             ~seen[s].first /\ ~channel[s][n].first
             => seen[s].state <= channel[s][n].state

\* The last state that a subscriber has been told, or is about to be.
Latest(s) ==
    IF spc[s] = "send" THEN initial[s]
    ELSE IF channel[s] = <<>> THEN seen[s].state
    ELSE channel[s][Len(channel[s])].state

\* A broadcast is still to come.
Due == \E u \in Updaters : upc[u] = "broadcast"

\* A subscriber that missed nothing is told the current state, or will be.
UpToDate ==
    \A s \in Subscribers \ late :
        spc[s] \in {"send", "stream"} => Latest(s) = version \/ Due

EventsInv ==
    /\ EventsTypeOK /\ Registered /\ NotAhead /\ ChannelInOrder /\ UpToDate

-----------------------------------------------------------------------------
\* Event and state ranges, used throughout.
LEMMA Ranges ==
    ASSUME EventsInv
    PROVE  /\ version \in Nat /\ version <= MaxVersion /\ MaxVersion \in Nat /\ BufferSize \in Nat \ {0}
           /\ \A s \in Subscribers :
                /\ channel[s] \in Seq(Event) /\ Len(channel[s]) \in Nat
                /\ initial[s] \in Versions /\ seen[s] \in Event /\ seen[s].state \in Nat
                /\ \A n \in 1..Len(channel[s]) : channel[s][n] \in Event /\ channel[s][n].state \in Nat
<1> USE EventsAssumption DEF EventsInv, EventsTypeOK
<1>1. version \in Nat /\ version <= MaxVersion /\ MaxVersion \in Nat /\ BufferSize \in Nat \ {0}
  BY DEF Versions
<1>2. \A e \in Event : e.state \in Nat
  BY DEF Event, Versions
<1>3. \A s \in Subscribers : channel[s] \in Seq(Event) /\ initial[s] \in Versions /\ seen[s] \in Event
  OBVIOUS
<1>4. \A q \in Seq(Event) : Len(q) \in Nat /\ \A n \in 1..Len(q) : q[n] \in Event
  OBVIOUS
<1> QED
  BY <1>1, <1>2, <1>3, <1>4

\* What can happen to the events of one subscriber in a step: one is put at
\* the end, the first is read, or nothing.
Puts(s, e) == channel'[s] = Append(channel[s], e) /\ seen'[s] = seen[s]

Reads(s) ==
    channel[s] # <<>> /\ seen'[s] = Head(channel[s]) /\ channel'[s] = Tail(channel[s])

LEMMA ChannelMoves ==
    ASSUME EventsInv, [Next]_vars, NEW s \in Subscribers
    PROVE  \/ UNCHANGED <<channel[s], seen[s]>>
           \/ Puts(s, [state |-> version, first |-> FALSE])
           \/ Puts(s, [state |-> initial[s], first |-> TRUE])
           \/ Reads(s)
<1> USE DEF EventsInv, EventsTypeOK, Puts, Reads
<1>1. CASE UNCHANGED vars
  BY <1>1 DEF vars, subVars
<1>2. ASSUME NEW u \in Updaters, Update(u) \/ Remove(u) PROVE UNCHANGED <<channel, seen>>
  BY <1>2 DEF Update, Remove, Changed, subVars
<1>3. ASSUME NEW u \in Updaters, Broadcast(u)
      PROVE  \/ UNCHANGED <<channel[s], seen[s]>>
             \/ Puts(s, [state |-> version, first |-> FALSE])
  BY <1>3 DEF Broadcast, Send
<1>4. ASSUME NEW t \in Subscribers, Subscribe(t) \/ Disconnect(t) PROVE UNCHANGED <<channel, seen>>
  BY <1>4 DEF Subscribe, Disconnect
<1>5. ASSUME NEW t \in Subscribers, SendInitial(t)
      PROVE  \/ UNCHANGED <<channel[s], seen[s]>>
             \/ Puts(s, [state |-> initial[s], first |-> TRUE])
  BY <1>5 DEF SendInitial
<1>6. ASSUME NEW t \in Subscribers, Receive(t)
      PROVE  UNCHANGED <<channel[s], seen[s]>> \/ Reads(s)
  BY <1>6 DEF Receive
<1> QED
  BY <1>1, <1>2, <1>3, <1>4, <1>5, <1>6 DEF Next

\* Versions only grow, and Subscribe reads the current one.
LEMMA VersionMoves ==
    ASSUME EventsInv, [Next]_vars
    PROVE  /\ version' \in Versions /\ version <= version'
           /\ \A s \in Subscribers : initial'[s] \in {initial[s], version}
           /\ version' = version \/ UNCHANGED <<channel, seen, initial>>
<1>1. CASE \E u \in Updaters : Changed(u)
  <2>1. version < MaxVersion /\ version' = version + 1 /\ UNCHANGED <<channel, seen, initial>>
    BY <1>1 DEF Changed, subVars
  <2> QED
    BY <2>1, Ranges DEF Versions
<1>2. CASE ~\E u \in Updaters : Changed(u)
  <2>1. version' = version
    BY <1>2 DEF Next, Update, Remove, Broadcast, Send, Subscribe, SendInitial, Receive, Disconnect,
                vars, updVars
  <2>2. \A s \in Subscribers : initial'[s] \in {initial[s], version}
    BY <1>2 DEF Next, Update, Remove, Broadcast, Send, Subscribe, SendInitial, Receive, Disconnect,
                vars, subVars, EventsInv, EventsTypeOK
  <2> QED
    BY <2>1, <2>2, Ranges DEF EventsInv, EventsTypeOK
<1> QED
  BY <1>1, <1>2

\* Every step keeps the types; a channel never holds more than its capacity.
LEMMA EventsTypeStep == ASSUME EventsInv, [Next]_vars PROVE EventsTypeOK'
<1> USE DEF EventsInv, EventsTypeOK
<1>1. /\ version' \in Versions
      /\ initial' \in [Subscribers -> Versions]
  <2>1. initial' \in [Subscribers -> Versions]
    BY DEF Next, Update, Remove, Changed, Broadcast, Send, Subscribe, SendInitial, Receive, Disconnect,
           vars, subVars
  <2> QED
    BY <2>1, VersionMoves
<1>2. present' \in BOOLEAN
  BY DEF Next, Update, Remove, Changed, Broadcast, Send, Subscribe, SendInitial, Receive, Disconnect,
         vars, updVars
<1>3. upc' \in [Updaters -> {"idle", "broadcast"}]
  BY DEF Next, Update, Remove, Changed, Broadcast, Send, Subscribe, SendInitial, Receive, Disconnect,
         vars, updVars
<1>4. snapshot' \in [Updaters -> Versions]
  <2>1. ASSUME NEW u \in Updaters, Changed(u) PROVE snapshot' \in [Updaters -> Versions]
    <3>1. snapshot' = [snapshot EXCEPT ![u] = version'] /\ version' \in Versions
      BY <2>1, VersionMoves DEF Changed
    <3> QED
      BY <3>1
  <2>2. CASE ~\E u \in Updaters : Changed(u)
    BY <2>2 DEF Next, Update, Remove, Broadcast, Send, Subscribe, SendInitial, Receive, Disconnect,
           vars, updVars
  <2> QED
    BY <2>1, <2>2
<1>5. spc' \in [Subscribers -> {"idle", "send", "stream", "gone"}]
  BY DEF Next, Update, Remove, Changed, Broadcast, Send, Subscribe, SendInitial, Receive, Disconnect,
         vars, subVars
<1>6. listeners' \subseteq Subscribers /\ chClosed' \subseteq Subscribers
  BY DEF Next, Update, Remove, Changed, Broadcast, Send, Subscribe, SendInitial, Receive, Disconnect,
         vars, subVars
<1>7. late' \subseteq Subscribers
  BY DEF Next, Update, Remove, Changed, Broadcast, Send, Subscribe, SendInitial, Receive, Disconnect,
         vars
<1>8. /\ DOMAIN channel' = Subscribers /\ channel' = [s \in Subscribers |-> channel'[s]]
      /\ seen' = [s \in Subscribers |-> seen'[s]]
  BY DEF Next, Update, Remove, Changed, Broadcast, Send, Subscribe, SendInitial, Receive, Disconnect,
         vars, subVars
<1>9. ASSUME NEW s \in Subscribers PROVE channel'[s] \in Seq(Event) /\ seen'[s] \in Event
  <2>1. \A v \in Versions, b \in BOOLEAN : [state |-> v, first |-> b] \in Event
    BY DEF Event
  <2>2. /\ channel[s] \in Seq(Event) /\ seen[s] \in Event
        /\ [state |-> version, first |-> FALSE] \in Event
        /\ [state |-> initial[s], first |-> TRUE] \in Event
    BY <2>1
  <2>3. CASE Reads(s)
    BY <2>2, <2>3 DEF Reads
  <2>4. ASSUME NEW e \in Event, Puts(s, e) PROVE channel'[s] \in Seq(Event) /\ seen'[s] \in Event
    BY <2>2, <2>4 DEF Puts
  <2> QED
    BY <2>2, <2>3, <2>4, ChannelMoves
<1>10. ASSUME NEW s \in Subscribers PROVE Len(channel'[s]) <= BufferSize
  <2>1. /\ channel[s] \in Seq(Event) /\ Len(channel[s]) <= BufferSize /\ Len(channel[s]) \in Nat
        /\ BufferSize \in Nat
    BY Ranges
  <2>2. ASSUME NEW e, Puts(s, e), Len(channel[s]) < BufferSize PROVE Len(channel'[s]) <= BufferSize
    <3>1. Len(Append(channel[s], e)) = Len(channel[s]) + 1
      BY <2>1
    <3> QED
      BY <2>1, <2>2, <3>1 DEF Puts
  <2>3. Reads(s) => Len(channel'[s]) <= BufferSize
    BY <2>1 DEF Reads
  <2>4. \/ channel'[s] = channel[s] \/ Reads(s)
        \/ Len(channel[s]) < BufferSize /\ \E e : Puts(s, e)
    <3>1. ASSUME NEW u \in Updaters, Broadcast(u)
          PROVE  channel'[s] = channel[s] \/ (Len(channel[s]) < BufferSize /\ \E e : Puts(s, e))
      BY <3>1 DEF Broadcast, Send, Puts
    <3>2. ASSUME NEW t \in Subscribers, SendInitial(t)
          PROVE  channel'[s] = channel[s] \/ (Len(channel[s]) < BufferSize /\ \E e : Puts(s, e))
      BY <3>2 DEF SendInitial, Puts
    <3>3. ASSUME NEW t \in Subscribers, Receive(t) PROVE channel'[s] = channel[s] \/ Reads(s)
      BY <3>3 DEF Receive, Reads
    <3> QED
      BY <3>1, <3>2, <3>3 DEF Next, Update, Remove, Changed, Subscribe, Disconnect, vars, subVars
  <2> QED
    BY <2>1, <2>2, <2>3, <2>4
<1> QED
  BY <1>1, <1>2, <1>3, <1>4, <1>5, <1>6, <1>7, <1>8, <1>9, <1>10

\* Subscribe and unsubscribe register and close under one lock
\* (store_events.go:3-30).
LEMMA RegisteredStep == ASSUME EventsInv, [Next]_vars PROVE Registered'
<1> USE DEF EventsInv, EventsTypeOK, Registered
<1>1. ASSUME NEW t \in Subscribers, Subscribe(t) \/ SendInitial(t) \/ Disconnect(t) PROVE Registered'
  BY <1>1 DEF Subscribe, SendInitial, Disconnect
<1>2. CASE ~\E t \in Subscribers : Subscribe(t) \/ SendInitial(t) \/ Disconnect(t)
  <2>1. UNCHANGED <<spc, listeners, chClosed>>
    BY <1>2 DEF Next, Update, Remove, Changed, Broadcast, Send, Receive, vars, subVars
  <2> QED
    BY <2>1
<1> QED
  BY <1>1, <1>2

\* The events of the channel after a put and after a read.
LEMMA PutEvents ==
    ASSUME EventsInv, NEW s \in Subscribers, NEW e, Puts(s, e)
    PROVE  /\ Len(channel'[s]) = Len(channel[s]) + 1
           /\ \A n \in 1..Len(channel[s]) : channel'[s][n] = channel[s][n]
           /\ channel'[s][Len(channel[s]) + 1] = e
  BY Ranges DEF Puts

LEMMA ReadEvents ==
    ASSUME EventsInv, NEW s \in Subscribers, Reads(s)
    PROVE  /\ 1 \in 1..Len(channel[s]) /\ seen'[s] = channel[s][1]
           /\ Len(channel'[s]) = Len(channel[s]) - 1
           /\ \A n \in 1..Len(channel'[s]) :
                n + 1 \in 1..Len(channel[s]) /\ channel'[s][n] = channel[s][n + 1]
  BY Ranges DEF Reads

\* A broadcast is of the state at its time (store_events.go:48-52).
LEMMA NotAheadStep == ASSUME EventsInv, [Next]_vars PROVE NotAhead'
<1> SUFFICES ASSUME NEW s \in Subscribers
             PROVE  /\ initial'[s] <= version' /\ seen'[s].state <= version'
                    /\ \A n \in 1..Len(channel'[s]) : channel'[s][n].state <= version'
  BY DEF NotAhead
<1>0. /\ initial[s] <= version /\ seen[s].state <= version
      /\ \A n \in 1..Len(channel[s]) : channel[s][n].state <= version
      /\ version \in Nat /\ version' \in Nat /\ version <= version'
      /\ initial[s] \in Nat /\ seen[s].state \in Nat /\ Len(channel[s]) \in Nat
      /\ \A n \in 1..Len(channel[s]) : channel[s][n].state \in Nat
  BY VersionMoves, Ranges DEF EventsInv, NotAhead, Versions
<1>1. initial'[s] <= version'
  BY <1>0, VersionMoves
<1>2. CASE UNCHANGED <<channel[s], seen[s]>>
  BY <1>0, <1>1, <1>2
<1>3. ASSUME NEW e, Puts(s, e), e.state \in {version, initial[s]}
      PROVE  seen'[s].state <= version' /\ \A n \in 1..Len(channel'[s]) : channel'[s][n].state <= version'
  <2>1. \A n \in 1..Len(channel'[s]) : n \in 1..Len(channel[s]) \/ n = Len(channel[s]) + 1
    BY <1>0, <1>3, PutEvents
  <2>2. e.state <= version'
    BY <1>0, <1>3
  <2>3. \A n \in 1..Len(channel'[s]) : channel'[s][n].state <= version'
    BY <1>0, <1>3, <2>1, <2>2, PutEvents
  <2> QED
    BY <1>0, <1>3, <2>3 DEF Puts
<1>4. ASSUME Reads(s)
      PROVE  seen'[s].state <= version' /\ \A n \in 1..Len(channel'[s]) : channel'[s][n].state <= version'
  <2>1. \A n \in 1..Len(channel[s]) : channel[s][n].state <= version'
    BY <1>0
  <2> QED
    BY <1>4, <2>1, ReadEvents
<1> QED
  BY <1>1, <1>2, <1>3, <1>4, ChannelMoves

\* An older broadcast never follows a newer one.
LEMMA ChannelInOrderStep == ASSUME EventsInv, [Next]_vars PROVE ChannelInOrder'
<1> SUFFICES ASSUME NEW s \in Subscribers
             PROVE  /\ \A m, n \in 1..Len(channel'[s]) :
                         m < n /\ ~channel'[s][m].first /\ ~channel'[s][n].first
                         => channel'[s][m].state <= channel'[s][n].state
                    /\ \A n \in 1..Len(channel'[s]) :
                         ~seen'[s].first /\ ~channel'[s][n].first
                         => seen'[s].state <= channel'[s][n].state
  BY DEF ChannelInOrder
<1>0. /\ \A m, n \in 1..Len(channel[s]) :
           m < n /\ ~channel[s][m].first /\ ~channel[s][n].first
           => channel[s][m].state <= channel[s][n].state
      /\ \A n \in 1..Len(channel[s]) :
           ~seen[s].first /\ ~channel[s][n].first => seen[s].state <= channel[s][n].state
      /\ \A n \in 1..Len(channel[s]) : channel[s][n].state <= version
      /\ seen[s].state <= version /\ Len(channel[s]) \in Nat
  BY Ranges DEF EventsInv, ChannelInOrder, NotAhead
<1>1. CASE UNCHANGED <<channel[s], seen[s]>>
  BY <1>0, <1>1
<1>2. ASSUME NEW e, Puts(s, e), e.first \/ e.state = version
      PROVE  /\ \A m, n \in 1..Len(channel'[s]) :
                  m < n /\ ~channel'[s][m].first /\ ~channel'[s][n].first
                  => channel'[s][m].state <= channel'[s][n].state
             /\ \A n \in 1..Len(channel'[s]) :
                  ~seen'[s].first /\ ~channel'[s][n].first
                  => seen'[s].state <= channel'[s][n].state
  <2>1. /\ \A n \in 1..Len(channel'[s]) :
             \/ n \in 1..Len(channel[s]) /\ channel'[s][n] = channel[s][n]
             \/ n = Len(channel[s]) + 1 /\ channel'[s][n] = e
        /\ seen'[s] = seen[s]
    BY <1>0, <1>2, PutEvents DEF Puts
  <2>2. ASSUME NEW m \in 1..Len(channel'[s]), NEW n \in 1..Len(channel'[s]),
               m < n, ~channel'[s][m].first, ~channel'[s][n].first
        PROVE  channel'[s][m].state <= channel'[s][n].state
    <3>1. m \in 1..Len(channel[s]) /\ channel'[s][m] = channel[s][m]
      BY <1>0, <1>2, <2>1, <2>2, PutEvents
    <3> QED
      BY <1>0, <1>2, <2>1, <2>2, <3>1
  <2>3. ASSUME NEW n \in 1..Len(channel'[s]), ~seen'[s].first, ~channel'[s][n].first
        PROVE  seen'[s].state <= channel'[s][n].state
    BY <1>0, <1>2, <2>1, <2>3
  <2> QED
    BY <2>2, <2>3
<1>3. CASE Reads(s)
  <2>1. ASSUME NEW m \in 1..Len(channel'[s]), NEW n \in 1..Len(channel'[s]),
               m < n, ~channel'[s][m].first, ~channel'[s][n].first
        PROVE  channel'[s][m].state <= channel'[s][n].state
    <3>1. /\ m + 1 \in 1..Len(channel[s]) /\ channel'[s][m] = channel[s][m + 1]
          /\ n + 1 \in 1..Len(channel[s]) /\ channel'[s][n] = channel[s][n + 1]
      BY <1>3, ReadEvents
    <3>2. m + 1 < n + 1
      BY <2>1, <3>1
    <3> QED
      BY <1>0, <2>1, <3>1, <3>2
  <2>2. ASSUME NEW n \in 1..Len(channel'[s]), ~seen'[s].first, ~channel'[s][n].first
        PROVE  seen'[s].state <= channel'[s][n].state
    <3>1. /\ 1 \in 1..Len(channel[s]) /\ seen'[s] = channel[s][1]
          /\ n + 1 \in 1..Len(channel[s]) /\ channel'[s][n] = channel[s][n + 1]
      BY <1>3, ReadEvents
    <3>2. 1 < n + 1
      BY <3>1
    <3> QED
      BY <1>0, <2>2, <3>1, <3>2
  <2> QED
    BY <2>1, <2>2
<1> QED
  BY <1>1, <1>2, <1>3, ChannelMoves

\* What a subscriber is told last follows the state of the job
\* (store_events.go:32-58).
LEMMA UpToDateStep == ASSUME EventsInv, [Next]_vars PROVE UpToDate'
<1> SUFFICES ASSUME NEW s \in Subscribers, s \notin late', spc'[s] \in {"send", "stream"}, ~Due'
             PROVE  Latest(s)' = version'
  BY DEF UpToDate
<1> USE DEF EventsInv, EventsTypeOK
<1>0. /\ s \notin late /\ (spc[s] \in {"send", "stream"} => Latest(s) = version \/ Due)
      /\ s \in listeners <=> spc[s] \in {"send", "stream"}
      /\ Len(channel[s]) \in Nat /\ (channel[s] = <<>> <=> Len(channel[s]) = 0)
  <2>1. s \notin late
    BY DEF Next, Update, Remove, Changed, Broadcast, Send, Subscribe, SendInitial, Receive, Disconnect,
           vars
  <2> QED
    BY <2>1, Ranges DEF UpToDate, Registered
<1>1. CASE UNCHANGED vars
  BY <1>0, <1>1 DEF vars, updVars, subVars, Latest, Due
<1>2. ASSUME NEW u \in Updaters, Update(u) \/ Remove(u) PROVE Due'
  BY <1>2 DEF Update, Remove, Changed, Due
<1>3. ASSUME NEW u \in Updaters, Broadcast(u) PROVE Latest(s)' = version'
  <2>1. /\ UNCHANGED <<spc, version>> /\ s \in listeners
        /\ Puts(s, [state |-> version, first |-> FALSE]) /\ spc[s] # "send"
    BY <1>0, <1>3 DEF Broadcast, Send, Puts
  <2>2. /\ Len(channel'[s]) = Len(channel[s]) + 1
        /\ channel'[s][Len(channel[s]) + 1].state = version
    BY <2>1, PutEvents
  <2>3. channel'[s] # <<>>
    BY <1>0, <2>2
  <2> QED
    BY <2>1, <2>2, <2>3 DEF Latest
<1>4. ASSUME NEW t \in Subscribers, Subscribe(t) PROVE Latest(s)' = version'
  <2>1. CASE t = s
    BY <1>4, <2>1 DEF Subscribe, updVars, Latest
  <2>2. CASE t # s
    BY <1>0, <1>4, <2>2 DEF Subscribe, updVars, Latest, Due
  <2> QED
    BY <2>1, <2>2
<1>5. ASSUME NEW t \in Subscribers, SendInitial(t) PROVE Latest(s)' = version'
  <2>0. UNCHANGED <<version, upc, seen, initial>>
    BY <1>5 DEF SendInitial, updVars
  <2>1. CASE t = s
    <3>1. /\ spc[s] = "send" /\ spc'[s] = "stream"
          /\ Puts(s, [state |-> initial[s], first |-> TRUE])
      BY <1>5, <2>1 DEF SendInitial, Puts
    <3>2. /\ Len(channel'[s]) = Len(channel[s]) + 1
          /\ channel'[s][Len(channel[s]) + 1].state = initial[s]
      BY <3>1, PutEvents
    <3>3. channel'[s] # <<>>
      BY <1>0, <3>2
    <3>4. initial[s] = version
      BY <1>0, <2>0, <3>1 DEF Latest, Due
    <3> QED
      BY <2>0, <3>1, <3>2, <3>3, <3>4 DEF Latest
  <2>2. CASE t # s
    <3>1. spc'[s] = spc[s] /\ channel'[s] = channel[s]
      BY <1>5, <2>2 DEF SendInitial
    <3> QED
      BY <1>0, <2>0, <3>1 DEF Latest, Due
  <2> QED
    BY <2>1, <2>2
<1>6. ASSUME NEW t \in Subscribers, Receive(t) PROVE Latest(s)' = version'
  <2>0. UNCHANGED <<version, upc, initial, spc>>
    BY <1>6 DEF Receive, updVars
  <2>1. CASE t = s
    <3>1. Reads(s) /\ spc[s] = "stream"
      BY <1>6, <2>1 DEF Receive, Reads
    <3>2. channel[s][Len(channel[s])].state = version
      BY <1>0, <2>0, <3>1 DEF Latest, Due, Reads
    <3>3. CASE Len(channel[s]) = 1
      <4>1. channel'[s] = <<>> /\ seen'[s] = channel[s][1]
        <5>1. channel[s] \in Seq(Event) /\ channel[s] # <<>>
          BY <3>1, Ranges DEF Reads
        <5>2. Len(Tail(channel[s])) = 0 /\ Tail(channel[s]) \in Seq(Event)
          BY <3>3, <5>1
        <5>3. Tail(channel[s]) = <<>>
          BY <5>2, EmptySeq
        <5> QED
          BY <3>1, <5>3, ReadEvents DEF Reads
      <4> QED
        BY <2>0, <3>1, <3>2, <3>3, <4>1 DEF Latest
    <3>4. CASE Len(channel[s]) # 1
      <4>1. /\ Len(channel'[s]) = Len(channel[s]) - 1 /\ channel'[s] # <<>>
            /\ channel'[s][Len(channel'[s])] = channel[s][Len(channel[s])]
        <5>1. /\ Len(channel'[s]) = Len(channel[s]) - 1 /\ Len(channel[s]) \in Nat
              /\ 1 \in 1..Len(channel[s])
              /\ \A n \in 1..Len(channel'[s]) : channel'[s][n] = channel[s][n + 1]
          BY <1>0, <3>1, ReadEvents
        <5>2. PICK k \in Nat : k = Len(channel[s]) - 1
          BY <5>1
        <5>3. k = Len(channel'[s]) /\ k \in 1..k /\ k + 1 = Len(channel[s])
          BY <3>4, <5>1, <5>2
        <5>4. channel'[s][k] = channel[s][k + 1]
          BY <5>1, <5>3
        <5>5. channel'[s] # <<>>
          BY <5>3
        <5> QED
          BY <5>1, <5>3, <5>4, <5>5
      <4> QED
        BY <2>0, <3>1, <3>2, <4>1 DEF Latest
    <3> QED
      BY <3>3, <3>4
  <2>2. CASE t # s
    <3>1. seen'[s] = seen[s] /\ channel'[s] = channel[s]
      BY <1>6, <2>2 DEF Receive
    <3> QED
      BY <1>0, <2>0, <3>1 DEF Latest, Due
  <2> QED
    BY <2>1, <2>2
<1>7. ASSUME NEW t \in Subscribers, Disconnect(t) PROVE Latest(s)' = version'
  BY <1>0, <1>7 DEF Disconnect, updVars, Latest, Due
<1> QED
  BY <1>1, <1>2, <1>3, <1>4, <1>5, <1>6, <1>7 DEF Next

LEMMA EventsInvInit == Init => EventsInv
<1> SUFFICES ASSUME Init PROVE EventsInv
  OBVIOUS
<1> USE EventsAssumption DEF Init, Versions
<1>1. EventsTypeOK
  BY DEF EventsTypeOK, Event
<1>2. Registered /\ NotAhead /\ ChannelInOrder
  BY DEF Registered, NotAhead, ChannelInOrder
<1>3. UpToDate
  BY DEF UpToDate
<1> QED
  BY <1>1, <1>2, <1>3 DEF EventsInv

LEMMA EventsInvStep == EventsInv /\ [Next]_vars => EventsInv'
  BY EventsTypeStep, RegisteredStep, NotAheadStep, ChannelInOrderStep, UpToDateStep DEF EventsInv

-----------------------------------------------------------------------------
\* The inductive invariant.
THEOREM EventsInvariant == Spec => []EventsInv
  BY EventsInvInit, EventsInvStep, PTL DEF Spec

\* Nothing is ever sent on a closed channel (store_events.go:20-30).
THEOREM ListenersOpenAlways == Spec => []ListenersOpen
<1>1. EventsInv => ListenersOpen
  BY DEF EventsInv, EventsTypeOK, Registered, ListenersOpen
<1> QED
  BY <1>1, EventsInvariant, PTL

\* A subscriber's broadcasts never go back to an older state, whoever sends
\* them (store_events.go:48-58).
THEOREM BroadcastsInOrderAlways == Spec => []BroadcastsInOrder
<1>1. EventsInv => BroadcastsInOrder
  <2> SUFFICES ASSUME EventsInv, NEW s \in Subscribers,
                      NEW m \in 1..Len(Stream(s)), NEW n \in 1..Len(Stream(s)),
                      m < n, ~Stream(s)[m].first, ~Stream(s)[n].first
               PROVE  Stream(s)[m].state <= Stream(s)[n].state
    BY DEF BroadcastsInOrder
  <2>1. /\ Len(Stream(s)) = Len(channel[s]) + 1 /\ Len(channel[s]) \in Nat
        /\ \A k \in 1..Len(Stream(s)) :
             Stream(s)[k] = IF k = 1 THEN seen[s] ELSE channel[s][k - 1]
    BY Ranges DEF Stream
  <2>2. n - 1 \in 1..Len(channel[s]) /\ Stream(s)[n] = channel[s][n - 1]
    BY <2>1
  <2>3. CASE m = 1
    BY <2>1, <2>2, <2>3 DEF EventsInv, ChannelInOrder
  <2>4. CASE m # 1
    <3>1. m - 1 \in 1..Len(channel[s]) /\ Stream(s)[m] = channel[s][m - 1] /\ m - 1 < n - 1
      BY <2>1, <2>4
    <3> QED
      BY <2>2, <3>1 DEF EventsInv, ChannelInOrder
  <2> QED
    BY <2>3, <2>4
<1> QED
  BY <1>1, EventsInvariant, PTL

\* A client whose events were neither dropped nor overtaken ends up with the
\* state that polling returns (store_events.go, internal/api/events.go).
THEOREM CurrentUnlessLateAlways == Spec => []CurrentUnlessLate
<1>1. EventsInv => CurrentUnlessLate
  BY DEF EventsInv, UpToDate, CurrentUnlessLate, Quiet, Latest, Due
<1> QED
  BY <1>1, EventsInvariant, PTL
==============================================================================
