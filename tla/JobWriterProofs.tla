--------------------------- MODULE JobWriterProofs ---------------------------
(***************************************************************************)
(* Proofs about JobWriter for any number of enqueuers and closers and any  *)
(* queue size: no send on the closed channel, a close that returns nil has *)
(* lost nothing, and the writer implements SinkQueue.                      *)
(***************************************************************************)
EXTENDS JobWriter, SequenceTheorems, TLAPS

-----------------------------------------------------------------------------
(* The queue as a set, and as the rest of what is pending.                 *)

Elems(q) == {q[n] : n \in 1..Len(q)}

\* What is appended to a queue joins its elements.
LEMMA AppendMember ==
    ASSUME NEW S, NEW q \in Seq(S), NEW i \in S
    PROVE  /\ Append(q, i) \in Seq(S)
           /\ Len(Append(q, i)) = Len(q) + 1
           /\ Elems(Append(q, i)) = Elems(q) \cup {i}
<1>1. /\ Append(q, i) \in Seq(S) /\ Len(Append(q, i)) = Len(q) + 1
      /\ \A n \in 1..Len(q) : Append(q, i)[n] = q[n]
      /\ Append(q, i)[Len(q) + 1] = i /\ Len(q) \in Nat
  BY AppendProperties, LenProperties
<1> QED
  BY <1>1 DEF Elems

\* What is left of a queue after its head is received was in the queue.
LEMMA TailMember ==
    ASSUME NEW S, NEW q \in Seq(S), q # <<>>
    PROVE  /\ Tail(q) \in Seq(S) /\ Len(Tail(q)) = Len(q) - 1 /\ Len(q) \in Nat \ {0}
           /\ Head(q) \in S
           /\ Elems(q) = Elems(Tail(q)) \cup {Head(q)}
<1>1. /\ Head(q) = q[1] /\ Tail(q) \in Seq(S) /\ Len(Tail(q)) = Len(q) - 1
      /\ \A n \in 1..Len(Tail(q)) : Tail(q)[n] = q[n + 1]
      /\ Len(q) \in Nat \ {0}
  BY HeadTailProperties, LenProperties, EmptySeq
<1>2. 1 \in 1..Len(q) /\ q[1] \in S
  BY <1>1, ElementOfSeq
<1>3. \A n \in 1..Len(Tail(q)) : n + 1 \in 1..Len(q)
  BY <1>1
<1>4. \A n \in 1..Len(q) : n # 1 => n - 1 \in 1..Len(Tail(q)) /\ Tail(q)[n - 1] = q[n]
  BY <1>1
<1>5. Elems(Tail(q)) \cup {Head(q)} \subseteq Elems(q)
  BY <1>1, <1>2, <1>3 DEF Elems
<1>6. Elems(q) \subseteq Elems(Tail(q)) \cup {Head(q)}
  BY <1>1, <1>4 DEF Elems
<1> QED
  BY <1>1, <1>2, <1>5, <1>6

\* A snapshot in hand is the head of what is pending.
LEMMA InHand ==
    ASSUME NEW S, NEW h \in S, NEW q \in Seq(S)
    PROVE  /\ <<h>> \o q \in Seq(S) /\ <<h>> \o q # <<>>
           /\ Len(<<h>> \o q) = Len(q) + 1 /\ Len(q) \in Nat
           /\ Head(<<h>> \o q) = h
           /\ Tail(<<h>> \o q) = q
           /\ \A r \in S : <<h>> \o Append(q, r) = Append(<<h>> \o q, r)
<1>1. <<h>> \in Seq(S) /\ Len(<<h>>) = 1 /\ <<h>>[1] = h /\ Len(q) \in Nat
  BY LenProperties
<1> DEFINE s == <<h>> \o q
<1>2. /\ s \in Seq(S) /\ Len(s) = Len(q) + 1
      /\ \A i \in 1..Len(q) + 1 : s[i] = IF i <= 1 THEN h ELSE q[i - 1]
  BY <1>1, ConcatProperties
<1>3. s # <<>>
  BY <1>1, <1>2, EmptySeq
<1> HIDE DEF s
<1>4. Head(s) = h
  BY <1>1, <1>2, <1>3
<1>5. Tail(s) = q
  <2>1. /\ Tail(s) \in Seq(S) /\ Len(Tail(s)) = Len(q)
        /\ \A i \in 1..Len(Tail(s)) : Tail(s)[i] = s[i + 1]
    BY <1>1, <1>2, <1>3, HeadTailProperties
  <2>2. \A i \in 1..Len(Tail(s)) : Tail(s)[i] = q[i]
    BY <1>1, <1>2, <2>1
  <2> QED
    BY <2>1, <2>2, SeqEqual
<1>6. ASSUME NEW r \in S PROVE <<h>> \o Append(q, r) = Append(s, r)
  <2>1. /\ Append(q, r) \in Seq(S) /\ Len(Append(q, r)) = Len(q) + 1
        /\ \A i \in 1..Len(q) : Append(q, r)[i] = q[i]
        /\ Append(q, r)[Len(q) + 1] = r
    BY <1>1, AppendProperties
  <2>2. /\ <<h>> \o Append(q, r) \in Seq(S) /\ Len(<<h>> \o Append(q, r)) = Len(q) + 2
        /\ \A i \in 1..Len(q) + 2 :
             (<<h>> \o Append(q, r))[i] = IF i <= 1 THEN h ELSE Append(q, r)[i - 1]
    BY <1>1, <2>1, ConcatProperties
  <2>3. /\ Append(s, r) \in Seq(S) /\ Len(Append(s, r)) = Len(q) + 2
        /\ \A i \in 1..Len(q) + 1 : Append(s, r)[i] = s[i]
        /\ Append(s, r)[Len(q) + 2] = r
    BY <1>1, <1>2, AppendProperties
  <2>4. \A i \in 1..Len(q) + 2 : (<<h>> \o Append(q, r))[i] = Append(s, r)[i]
    BY <1>1, <1>2, <2>1, <2>2, <2>3
  <2> QED
    BY <2>2, <2>3, <2>4, SeqEqual
<1> QED
  BY <1>1, <1>2, <1>3, <1>4, <1>5, <1>6 DEF s

\* Receiving the head of a queue into the hand leaves what is pending as it is.
LEMMA HeadOntoTail ==
    ASSUME NEW S, NEW q \in Seq(S), q # <<>>
    PROVE  <<Head(q)>> \o Tail(q) = q
<1>1. /\ Len(q) \in Nat \ {0} /\ Head(q) = q[1] /\ Head(q) \in S
      /\ Tail(q) \in Seq(S) /\ Len(Tail(q)) = Len(q) - 1
      /\ \A i \in 1..Len(q) - 1 : Tail(q)[i] = q[i + 1]
  BY HeadTailProperties, LenProperties, EmptySeq
<1>2. <<Head(q)>> \in Seq(S) /\ Len(<<Head(q)>>) = 1 /\ <<Head(q)>>[1] = Head(q)
  BY <1>1
<1>3. /\ <<Head(q)>> \o Tail(q) \in Seq(S) /\ Len(<<Head(q)>> \o Tail(q)) = Len(q)
      /\ \A i \in 1..Len(q) :
           (<<Head(q)>> \o Tail(q))[i] = IF i <= 1 THEN Head(q) ELSE Tail(q)[i - 1]
  BY <1>1, <1>2, ConcatProperties
<1>4. \A i \in 1..Len(q) : (<<Head(q)>> \o Tail(q))[i] = q[i]
  BY <1>1, <1>3
<1> QED
  BY <1>3, <1>4, SeqEqual

-----------------------------------------------------------------------------
(* The inductive invariant.                                                *)

\* Where a snapshot that was offered in time can be.
Accounted(r) ==
    \/ \E e \in Enqueuers : epc[e] = "send" /\ ewrite[e] = r
    \/ r \in Elems(queue)
    \/ rpc = "save" /\ hand = r
    \/ r \in Elems(saved)
    \/ r \in lost

AllAccounted == \A r \in offered \ ignored : Accounted(r)

\* Nothing is lost without being counted.
LossCounted == lost # {} => failures > 0 \/ rejected > 0

\* The order of the shutdown: no sender past the lock, then the queue drained,
\* then run ended, then close returned.
Ordered ==
    /\ NeverSendsOnClosed
    /\ queueClosed = closed
    /\ rpc = "exited" => queueClosed /\ queue = <<>>
    /\ \A c \in Closers : cpc[c] = "wait" => queueClosed
    /\ once = "done" => rpc = "exited"
    /\ \A c \in Closers : cpc[c] \in Returned => rpc = "exited"
    /\ \A c \in Closers : cpc[c] = "ok" => failures = 0 /\ rejected = 0

\* The inductive invariant.
WriterInv == WriterTypeOK /\ AllAccounted /\ LossCounted /\ Ordered

-----------------------------------------------------------------------------
\* newJobWriter establishes the invariant.
LEMMA WriterInvInit == Init => WriterInv
<1> SUFFICES ASSUME Init PROVE WriterInv
  OBVIOUS
<1>1. <<>> \in Seq(Writes) /\ Len(<<>>) = 0
  BY EmptySeq
<1>2. WriterTypeOK
  <2>1. Len(queue) <= QueueSize /\ queue \in Seq(Writes)
    BY <1>1, WriterAssumption DEF Init
  <2>2. saved \in Seq(Writes)
    BY <1>1 DEF Init
  <2>3. /\ epc \in [Enqueuers -> {"idle", "send"}]
        /\ ewrite \in [Enqueuers -> Writes \cup {NoWrite}]
        /\ \A e \in Enqueuers : epc[e] = "send" => ewrite[e] \in Writes
        /\ cpc \in [Closers -> {"idle", "lock", "wait", "once"} \cup Returned]
    BY DEF Init
  <2> QED
    BY <2>1, <2>2, <2>3 DEF Init, WriterTypeOK
<1>3. AllAccounted /\ LossCounted
  BY DEF Init, AllAccounted, LossCounted
<1>4. Ordered
  BY DEF Init, Ordered, NeverSendsOnClosed, Returned
<1> QED
  BY <1>2, <1>3, <1>4 DEF WriterInv

\* enqueue, run and close keep the types and the capacity of the queue.
LEMMA WriterTypeStep == WriterInv /\ [Next]_vars => WriterTypeOK'
<1> SUFFICES ASSUME WriterInv, [Next]_vars PROVE WriterTypeOK'
  OBVIOUS
<1> USE DEF WriterInv
<1>1. CASE UNCHANGED vars
  BY <1>1 DEF vars, sendVars, closeVars, runVars, WriterTypeOK
<1>2. ASSUME NEW e \in Enqueuers, NEW r \in Writes, Offer(e, r) PROVE WriterTypeOK'
  BY <1>2 DEF Offer, closeVars, runVars, WriterTypeOK
<1>3. ASSUME NEW e \in Enqueuers, Send(e) PROVE WriterTypeOK'
  <2>1. queue' \in Seq(Writes) /\ Len(queue') = Len(queue) + 1
    BY <1>3, AppendMember DEF Send, WriterTypeOK
  <2>2. Len(queue) \in Nat
    BY LenProperties DEF WriterTypeOK
  <2> QED
    BY <1>3, <2>1, <2>2, WriterAssumption DEF Send, SendEnds, closeVars, runVars, WriterTypeOK
<1>4. ASSUME NEW e \in Enqueuers, Reject(e) PROVE WriterTypeOK'
  BY <1>4 DEF Reject, SendEnds, closeVars, runVars, WriterTypeOK
<1>5. CASE Receive \/ Discard
  <2>1. queue' = Tail(queue) /\ queue # <<>> /\ queue \in Seq(Writes) /\ Len(queue) <= QueueSize
    BY <1>5 DEF Receive, Discard, WriterTypeOK
  <2>2. /\ Tail(queue) \in Seq(Writes) /\ Len(Tail(queue)) = Len(queue) - 1
        /\ Len(queue) \in Nat /\ Head(queue) \in Writes
    BY <2>1, TailMember
  <2>3. queue' \in Seq(Writes) /\ Len(queue') <= QueueSize
    BY <2>1, <2>2, WriterAssumption
  <2> QED
    BY <1>5, <2>2, <2>3 DEF Receive, Discard, closeVars, sendVars, runVars, WriterTypeOK
<1>6. CASE Save \/ SaveFails
  <2>1. saved \in Seq(Writes) /\ hand \in Writes
    BY <1>6 DEF Save, SaveFails, WriterTypeOK
  <2>2. Append(saved, hand) \in Seq(Writes)
    BY <2>1, AppendMember
  <2>3. saved' \in Seq(Writes)
    BY <1>6, <2>1, <2>2 DEF Save, SaveFails
  <2> QED
    BY <1>6, <2>1, <2>3 DEF Save, SaveFails, SaveEnds, closeVars, sendVars, WriterTypeOK
<1>7. CASE RunExits
  BY <1>7 DEF RunExits, closeVars, sendVars, WriterTypeOK
<1>8. ASSUME NEW c \in Closers, Close(c) \/ CloseQueue(c) \/ Joined(c) \/ AlreadyClosed(c)
      PROVE  WriterTypeOK'
  BY <1>8 DEF Close, CloseQueue, Joined, AlreadyClosed, Report, Returned,
              sendVars, runVars, WriterTypeOK
<1>9. CASE Timeout
  BY <1>9 DEF Timeout, sendVars, closeVars, runVars, WriterTypeOK
<1> QED
  BY <1>1, <1>2, <1>3, <1>4, <1>5, <1>6, <1>7, <1>8, <1>9 DEF Next, Run

\* A snapshot moves from the sender to the queue, to run's hand, to the
\* database or to the lost ones, and is never dropped in between.
LEMMA AccountStep == WriterInv /\ [Next]_vars => AllAccounted'
<1> SUFFICES ASSUME WriterInv, [Next]_vars, NEW r \in Writes,
                    r \in offered' \ ignored', r \in offered \ ignored => Accounted(r)
             PROVE  Accounted(r)'
  BY WriterTypeStep DEF AllAccounted, WriterInv, WriterTypeOK
<1> USE DEF Accounted, WriterInv
<1>1. CASE UNCHANGED vars
  BY <1>1 DEF vars, sendVars, closeVars, runVars
<1>2. ASSUME NEW e \in Enqueuers, NEW s \in Writes, Offer(e, s) PROVE Accounted(r)'
  BY <1>2 DEF Offer, closeVars, runVars, WriterTypeOK
<1>3. ASSUME NEW e \in Enqueuers, Send(e) PROVE Accounted(r)'
  <2>1. Elems(queue') = Elems(queue) \cup {ewrite[e]}
    BY <1>3, AppendMember DEF Send, WriterTypeOK
  <2> QED
    BY <1>3, <2>1 DEF Send, SendEnds, closeVars, runVars, WriterTypeOK
<1>4. ASSUME NEW e \in Enqueuers, Reject(e) PROVE Accounted(r)'
  BY <1>4 DEF Reject, SendEnds, closeVars, runVars, WriterTypeOK
<1>5. CASE Receive \/ Discard
  <2>1. Elems(queue) = Elems(queue') \cup {Head(queue)}
    BY <1>5, TailMember DEF Receive, Discard, WriterTypeOK
  <2> QED
    BY <1>5, <2>1 DEF Receive, Discard, closeVars, sendVars, runVars
<1>6. CASE Save \/ SaveFails
  <2>1. Elems(Append(saved, hand)) = Elems(saved) \cup {hand}
    BY <1>6, AppendMember DEF Save, SaveFails, WriterTypeOK
  <2> QED
    BY <1>6, <2>1 DEF Save, SaveFails, SaveEnds, closeVars, sendVars
<1>7. CASE RunExits
  BY <1>7 DEF RunExits, closeVars, sendVars
<1>8. ASSUME NEW c \in Closers, Close(c) \/ CloseQueue(c) \/ Joined(c) \/ AlreadyClosed(c)
      PROVE  Accounted(r)'
  BY <1>8 DEF Close, CloseQueue, Joined, AlreadyClosed, sendVars, runVars
<1>9. CASE Timeout
  BY <1>9 DEF Timeout, sendVars, closeVars, runVars
<1> QED
  BY <1>1, <1>2, <1>3, <1>4, <1>5, <1>6, <1>7, <1>8, <1>9 DEF Next, Run

\* A loss shows in the failures or in the rejections that close looks at,
\* whichever step loses the snapshot.
LEMMA LossStep == WriterInv /\ [Next]_vars => LossCounted'
<1> SUFFICES ASSUME WriterInv, [Next]_vars PROVE LossCounted'
  OBVIOUS
<1> USE DEF WriterInv, LossCounted, WriterTypeOK
<1>1. CASE UNCHANGED <<lost, failures, rejected>>
  BY <1>1
<1>2. ASSUME NEW e \in Enqueuers, Reject(e) PROVE LossCounted'
  BY <1>2 DEF Reject, runVars
<1>3. CASE Discard \/ SaveFails
  BY <1>3 DEF Discard, SaveFails
<1> QED
  BY <1>1, <1>2, <1>3 DEF Next, Run, vars, sendVars, closeVars, runVars, Offer, Send, Receive,
     Save, RunExits, Close, CloseQueue, Joined, AlreadyClosed, Timeout

\* Each stage of the shutdown waits for the one before.
LEMMA OrderStep == WriterInv /\ [Next]_vars => Ordered'
<1> SUFFICES ASSUME WriterInv, [Next]_vars PROVE Ordered'
  OBVIOUS
<1> USE DEF WriterInv, Ordered, NeverSendsOnClosed
<1>1. CASE UNCHANGED vars
  BY <1>1 DEF vars, sendVars, closeVars, runVars, Returned
<1>2. ASSUME NEW e \in Enqueuers, NEW r \in Writes, Offer(e, r) PROVE Ordered'
  BY <1>2 DEF Offer, closeVars, runVars, WriterTypeOK
<1>3. ASSUME NEW e \in Enqueuers, Send(e) PROVE Ordered'
  BY <1>3 DEF Send, SendEnds, closeVars, runVars, WriterTypeOK, Returned
<1>4. ASSUME NEW e \in Enqueuers, Reject(e) PROVE Ordered'
  BY <1>4 DEF Reject, SendEnds, closeVars, runVars, WriterTypeOK, Returned
<1>5. CASE Run
  <2>1. rpc # "exited"
    BY <1>5 DEF Run, Receive, Discard, Save, SaveFails, RunExits
  <2>2. \A c \in Closers : cpc[c] \notin Returned
    BY <2>1
  <2>3. UNCHANGED sendVars /\ UNCHANGED closeVars
    BY <1>5 DEF Run, Receive, Discard, Save, SaveFails, RunExits
  <2>4. rpc' = "exited" => queueClosed /\ queue' = <<>>
    BY <1>5, <2>1 DEF Run, Receive, Discard, Save, SaveFails, SaveEnds, RunExits
  <2> QED
    BY <2>1, <2>2, <2>3, <2>4 DEF sendVars, closeVars, Returned
<1>6. ASSUME NEW c \in Closers, Close(c) \/ CloseQueue(c) PROVE Ordered'
  <2>1. cpc[c] \in {"idle", "lock"} /\ \A d \in Closers \ {c} : cpc'[d] = cpc[d]
    BY <1>6 DEF Close, CloseQueue, WriterTypeOK
  <2>2. cpc'[c] \in {"lock", "once", "wait"} /\ (cpc'[c] = "wait" => CloseQueue(c))
    BY <1>6 DEF Close, CloseQueue, WriterTypeOK
  <2>3. once' = "done" => once = "done"
    BY <1>6 DEF Close, CloseQueue
  <2>4. UNCHANGED <<epc, queue, rpc, failures, rejected>>
    BY <1>6 DEF Close, CloseQueue, sendVars, runVars
  <2>5. \/ UNCHANGED <<closed, queueClosed>>
        \/ closed' /\ queueClosed' /\ closed' = queueClosed' /\ \A e \in Enqueuers : epc[e] # "send"
    BY <1>6 DEF Close, CloseQueue
  <2>6. CloseQueue(c) => queueClosed'
    BY DEF CloseQueue
  <2> QED
    BY <2>1, <2>2, <2>3, <2>4, <2>5, <2>6 DEF Returned
<1>7. ASSUME NEW c \in Closers, Joined(c) \/ AlreadyClosed(c) PROVE Ordered'
  <2>1. rpc = "exited" /\ queueClosed
    BY <1>7 DEF Joined, AlreadyClosed
  <2>2. Report = "ok" => failures = 0 /\ rejected = 0
    BY DEF Report, WriterTypeOK
  <2>3. Report \in Returned
    BY DEF Report, Returned
  <2> QED
    BY <1>7, <2>1, <2>2, <2>3
    DEF Joined, AlreadyClosed, sendVars, runVars, WriterTypeOK, Returned
<1>8. CASE Timeout
  BY <1>8 DEF Timeout, sendVars, closeVars, runVars, Returned
<1> QED
  BY <1>1, <1>2, <1>3, <1>4, <1>5, <1>6, <1>7, <1>8 DEF Next

\* The inductive invariant of the writer.
THEOREM WriterInvariant == Spec => []WriterInv
<1>1. WriterInv /\ [Next]_vars => WriterInv'
  BY WriterTypeStep, AccountStep, LossStep, OrderStep DEF WriterInv
<1> QED
  BY <1>1, WriterInvInit, PTL DEF Spec

\* enqueue never sends on the closed channel (job_writer.go:43-49, 75-78).
THEOREM NeverSendsOnClosedAlways == Spec => []NeverSendsOnClosed
<1>1. WriterInv => NeverSendsOnClosed
  BY DEF WriterInv, Ordered
<1> QED
  BY <1>1, WriterInvariant, PTL

\* close returns nil only when everything offered in time is stored
\* (job_writer.go:84-90).
THEOREM CloseIsHonestAlways == Spec => []CloseIsHonest
<1>1. WriterInv => CloseIsHonest
  <2> SUFFICES ASSUME WriterInv, NEW c \in Closers, cpc[c] = "ok", NEW r \in offered \ ignored
               PROVE  r \in Elements(saved)
    BY DEF CloseIsHonest
  <2>1. rpc = "exited" /\ queueClosed /\ queue = <<>> /\ lost = {}
    BY DEF WriterInv, Ordered, LossCounted, Returned
  <2>2. Accounted(r) /\ \A e \in Enqueuers : epc[e] # "send"
    BY <2>1 DEF WriterInv, AllAccounted, Ordered, NeverSendsOnClosed
  <2>3. Elems(queue) = {}
    BY <2>1 DEF Elems
  <2> QED
    BY <2>1, <2>2, <2>3 DEF Accounted, Elems, Elements
<1> QED
  BY <1>1, WriterInvariant, PTL

\* After close has returned nothing is written (job_writer.go:79-83).
THEOREM NoWriteAfterCloseAlways == Spec => NoWriteAfterClose
<1>1. WriterInv /\ [Next]_vars
        => [(\E c \in Closers : cpc[c] \in Returned) => UNCHANGED saved]_vars
  <2> SUFFICES ASSUME WriterInv, [Next]_vars, NEW c \in Closers, cpc[c] \in Returned
               PROVE  UNCHANGED saved
    OBVIOUS
  <2>1. rpc = "exited"
    BY DEF WriterInv, Ordered
  <2> QED
    BY <2>1 DEF Next, Run, vars, runVars, Offer, Send, Reject, Receive, Discard, Save, SaveFails,
       RunExits, Close, CloseQueue, Joined, AlreadyClosed, Timeout
<1> QED
  BY <1>1, WriterInvariant, PTL DEF Spec, NoWriteAfterClose

-----------------------------------------------------------------------------
(* The refinement of SinkQueue.                                            *)

Pending == (IF rpc = "save" THEN <<hand>> ELSE <<>>) \o queue

\* The queue as run finds it, with and without a snapshot in hand.
LEMMA PendingIs ==
    ASSUME WriterTypeOK
    PROVE  /\ rpc # "save" => Pending = queue
           /\ rpc = "save" => /\ Pending = <<hand>> \o queue /\ Pending # <<>>
                              /\ Head(Pending) = hand /\ Tail(Pending) = queue
                              /\ Len(Pending) = Len(queue) + 1
           /\ Len(queue) \in Nat
  BY InHand, ConcatEmptySeq, LenProperties DEF Pending, WriterTypeOK

\* Every step of the writer is a step of the queue or leaves it alone.
LEMMA QueueStep ==
    WriterInv /\ WriterTypeOK' /\ [Next]_vars => [Promise!QueueNext]_(Promise!queueVars)
<1> SUFFICES ASSUME WriterTypeOK, Ordered, WriterTypeOK', [Next]_vars
             PROVE  [Promise!QueueNext]_(Promise!queueVars)
  BY DEF WriterInv
<1> DEFINE Same == UNCHANGED <<queueClosed, Pending, saved, lost>>
<1>1. Same => UNCHANGED Promise!queueVars
  BY DEF Promise!queueVars, Pending
<1>2. CASE UNCHANGED vars
  BY <1>1, <1>2 DEF vars, closeVars, runVars, Pending
<1>3. ASSUME NEW e \in Enqueuers, NEW r \in Writes, Offer(e, r) PROVE Same
  BY <1>3 DEF Offer, closeVars, runVars, Pending
<1>4. ASSUME NEW e \in Enqueuers, Send(e) PROVE Promise!QueueNext
  <2>1. ewrite[e] \in Writes /\ ~queueClosed /\ queue \in Seq(Writes) /\ Len(queue) < QueueSize
    BY <1>4 DEF Send, WriterTypeOK, Ordered, NeverSendsOnClosed
  <2>2. Pending' = Append(Pending, ewrite[e]) /\ Len(Pending) <= QueueSize
    <3>1. CASE rpc = "save"
      <4>1. hand \in Writes /\ queue' = Append(queue, ewrite[e]) /\ rpc' = rpc /\ hand' = hand
        BY <1>4, <3>1 DEF Send, runVars, WriterTypeOK
      <4>2. <<hand>> \o Append(queue, ewrite[e]) = Append(<<hand>> \o queue, ewrite[e])
        BY <2>1, <4>1, InHand
      <4> QED
        BY <2>1, <3>1, <4>1, <4>2, PendingIs, WriterAssumption DEF Pending
    <3>2. CASE rpc # "save"
      <4>1. queue' = Append(queue, ewrite[e]) /\ rpc' = rpc /\ hand' = hand
        BY <1>4 DEF Send, runVars
      <4>2. queue' \in Seq(Writes)
        BY DEF WriterTypeOK
      <4>3. Pending' = queue'
        BY <3>2, <4>1, <4>2, ConcatEmptySeq DEF Pending
      <4> QED
        BY <2>1, <3>2, <4>1, <4>3, PendingIs, WriterAssumption
    <3> QED
      BY <3>1, <3>2
  <2>3. Promise!Take(ewrite[e])
    BY <1>4, <2>1, <2>2 DEF Promise!Take, Pending, Send, closeVars, runVars
  <2> QED
    BY <2>1, <2>3 DEF Promise!QueueNext
<1>5. ASSUME NEW e \in Enqueuers, Reject(e) PROVE Promise!QueueNext
  <2>1. ewrite[e] \in Writes /\ ~queueClosed
    BY <1>5 DEF Reject, WriterTypeOK, Ordered, NeverSendsOnClosed
  <2>2. Len(Pending) >= QueueSize
    BY <1>5, PendingIs, WriterAssumption DEF Reject
  <2>3. Promise!Refuse(ewrite[e])
    BY <1>5, <2>1, <2>2 DEF Promise!Refuse, Pending, Reject, closeVars, runVars
  <2> QED
    BY <2>1, <2>3 DEF Promise!QueueNext
<1>6. CASE Receive
  <2>1. queue \in Seq(Writes) /\ queue # <<>> /\ rpc = "receive" /\ rpc' = "save"
        /\ hand' = Head(queue) /\ queue' = Tail(queue)
    BY <1>6 DEF Receive, WriterTypeOK
  <2>2. <<Head(queue)>> \o Tail(queue) = queue
    BY <2>1, HeadOntoTail
  <2> QED
    BY <1>6, <1>1, <2>1, <2>2, PendingIs DEF Receive, closeVars, Pending
<1>7. CASE Discard
  <2>1. Pending = queue /\ Pending' = queue' /\ queue # <<>>
    <3>1. queue' \in Seq(Writes) /\ rpc' # "save"
      BY <1>7 DEF Discard, WriterTypeOK
    <3> QED
      BY <1>7, <3>1, PendingIs, ConcatEmptySeq DEF Discard, Pending
  <2>2. Promise!Lose
    BY <1>7, <2>1 DEF Promise!Lose, Discard, closeVars, Pending
  <2> QED
    BY <2>2 DEF Promise!QueueNext
<1>8. CASE Save \/ SaveFails
  <2>1. /\ Head(Pending) = hand /\ Pending # <<>>
        /\ Pending' = Tail(Pending)
    <3>1. queue' = queue /\ queue \in Seq(Writes) /\ rpc = "save" /\ rpc' # "save"
      BY <1>8 DEF Save, SaveFails, SaveEnds, WriterTypeOK
    <3>2. Pending' = queue
      BY <3>1, ConcatEmptySeq DEF Pending
    <3> QED
      BY <3>1, <3>2, PendingIs
  <2>2. Promise!Store \/ Promise!Lose
    BY <1>8, <2>1 DEF Promise!Store, Promise!Lose, Save, SaveFails, closeVars, Pending
  <2> QED
    BY <2>2 DEF Promise!QueueNext
<1>9. CASE RunExits
  BY <1>1, <1>9 DEF RunExits, closeVars, Pending
<1>10. ASSUME NEW c \in Closers, CloseQueue(c) PROVE [Promise!QueueNext]_(Promise!queueVars)
  BY <1>1, <1>10 DEF CloseQueue, Promise!QueueNext, Promise!Shut, runVars, Pending
<1>11. ASSUME NEW c \in Closers, Close(c) \/ Joined(c) \/ AlreadyClosed(c) PROVE Same
  BY <1>11 DEF Close, Joined, AlreadyClosed, runVars, Pending
<1>12. CASE Timeout
  BY <1>1, <1>12 DEF Timeout, closeVars, runVars, Pending
<1> QED
  BY <1>1, <1>2, <1>3, <1>4, <1>5, <1>6, <1>7, <1>8, <1>9, <1>10, <1>11, <1>12 DEF Next, Run

\* The writer keeps the promise of a sink's queue: snapshots are stored in the
\* order of enqueue and lost only at a full queue or at its head
\* (job_writer.go:42-71).
THEOREM ImplementsQueue == Spec => QueueSpec
<1>1. Init => Promise!QueueInit
  <2>1. <<>> \o <<>> = <<>>
    BY EmptySeq, ConcatEmptySeq
  <2> QED
    BY <2>1 DEF Init, Promise!QueueInit
<1>2. WriterInv /\ WriterInv' /\ [Next]_vars => [Promise!QueueNext]_(Promise!queueVars)
  BY QueueStep DEF WriterInv
<1> QED
  BY <1>1, <1>2, WriterInvariant, PTL DEF Spec, QueueSpec, Promise!QueueSpec
=============================================================================
