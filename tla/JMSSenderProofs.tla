--------------------------- MODULE JMSSenderProofs ---------------------------
(***************************************************************************)
(* Proofs about JMSSender, for any buffer size, any number of threads,     *)
(* connections, failures and sessions, in both sender modes.               *)
(***************************************************************************)
EXTENDS JMSSender, TLAPS, FiniteSetTheorems, WellFoundedInduction

\* The head of a queue that is not empty is in it.
LEMMA HeadInQueue ==
    ASSUME NEW S \in SUBSET Nat, S # {}
    PROVE  Min(S) \in S
<1> DEFINE R == {p \in Nat \X Nat : p[1] < p[2]}
<1>1. IsWellFoundedOn(R, Nat)
  BY NatLessThanWellFounded DEF OpToRel
<1>2. \A x, y \in Nat : x < y => <<x, y>> \in R
  OBVIOUS
<1> HIDE DEF R
<1>3. PICK x \in S : \A y \in S : ~ (<<y, x>> \in R)
  BY <1>1, WFMin
<1>4. \A y \in S : x <= y
  <2> SUFFICES ASSUME NEW y \in S PROVE x <= y
    OBVIOUS
  <2>1. x \in Nat /\ y \in Nat
    OBVIOUS
  <2>2. ~ (y < x)
    BY <1>2, <1>3, <2>1
  <2> QED BY <2>1, <2>2
<1> QED BY <1>4 DEF Min

-----------------------------------------------------------------------------
(* The inductive invariant *)

\* What the capture thread has in hand: a session on its way into the queue
\* (count, poll, add) or something to send now.
CaptureInv ==
    /\ cpc # "idle" => item > 0
    /\ cpc \in {"count", "poll", "add"} => item \in accepted

\* The room that the test of the size, or the poll, made is still there when
\* the session is added.
RoomInv ==
    /\ Cardinality(sessions) <= BufferSize + 1
    /\ cpc = "add" => Cardinality(sessions) <= BufferSize

\* A DelayedSender removes only what the broker got.
RemoveInv ==
    \A d \in DelayedSenders :
        dpc[d] \in Body.remove /\ ditem[d] # null => delivered[ditem[d]] > 0

\* The counter is incremented before the poll.
DiscardInv ==
    /\ Cardinality(polled) <= discardedSessions
    /\ cpc = "poll" => Cardinality(polled) + 1 <= discardedSessions

IInv ==
    /\ TypeOK
    /\ CaptureInv
    /\ RoomInv
    /\ RemoveInv
    /\ NothingLost
    /\ DiscardInv

-----------------------------------------------------------------------------
(* The capture thread's steps and the removal of a sent session change     *)
(* what the invariant is about; every other step is quiet.                 *)

\* A step that leaves the queues, the capture thread and the overflow branch
\* alone, and marks no session for removal that the broker did not get.
Quiet ==
    /\ UNCHANGED <<isDelayed, sessions, messages, discardedSessions, polled, cpc,
                   item, accepted>>
    /\ capturing' \in BOOLEAN
    /\ delivered' \in [1..MaxItems -> Nat]
    /\ \A i \in 1..MaxItems : delivered'[i] >= delivered[i]
    /\ \A d \in DelayedSenders :
          dpc'[d] \in Body.remove =>
              \/ dpc[d] \in Body.remove /\ ditem'[d] = ditem[d]
              \/ ditem'[d] # null => delivered'[ditem'[d]] > 0

\* Sessions are among the items numbered so far.
LEMMA AcceptedItems ==
    ASSUME QueueType
    PROVE  accepted \subseteq 1..MaxItems /\ item \in Nat
<1>1. item \in Nat /\ item <= MaxItems /\ MaxItems \in Nat
  BY SenderAssumption DEF QueueType
<1> QED BY <1>1 DEF QueueType

\* Quiet steps keep the invariant if they keep the types of the other threads.
LEMMA QuietKeeps ==
    ASSUME IInv, Quiet, FieldType', DelayedType', StarterType', BrokerType'
    PROVE  IInv'
<1>1. CaptureInv'
  BY DEF IInv, Quiet, CaptureInv
<1>2. RoomInv'
  BY DEF IInv, Quiet, RoomInv
<1>3. \A i \in accepted : i \in 1..MaxItems
  BY AcceptedItems DEF IInv, TypeOK
<1>4. RemoveInv'
  <2> SUFFICES ASSUME NEW d \in DelayedSenders,
                      dpc'[d] \in Body.remove, ditem'[d] # null
               PROVE  delivered'[ditem'[d]] > 0
    BY DEF RemoveInv
  <2>1. CASE dpc[d] \in Body.remove /\ ditem'[d] = ditem[d]
    <3>1. delivered[ditem[d]] > 0 /\ ditem[d] \in 1..MaxItems
      BY <1>3, <2>1 DEF IInv, RemoveInv, TypeOK, DelayedType
    <3>2. /\ delivered[ditem[d]] \in Nat /\ delivered'[ditem[d]] \in Nat
          /\ delivered'[ditem[d]] >= delivered[ditem[d]]
      BY <3>1 DEF Quiet, IInv, TypeOK, QueueType
    <3> QED BY <2>1, <3>1, <3>2
  <2>2. CASE ditem'[d] # null => delivered'[ditem'[d]] > 0
    BY <2>2
  <2> QED BY <2>1, <2>2 DEF Quiet
<1>5. NothingLost'
  <2> SUFFICES ASSUME isDelayed, NEW i \in accepted, i \notin sessions, i \notin polled,
                      ~ (i = item /\ cpc \in {"count", "poll", "add"})
               PROVE  delivered'[i] > 0
    BY DEF Quiet, NothingLost
  <2>1. delivered[i] > 0
    BY DEF IInv, NothingLost
  <2>2. delivered[i] \in Nat /\ delivered'[i] \in Nat /\ delivered'[i] >= delivered[i]
    BY <1>3 DEF Quiet, IInv, TypeOK, QueueType
  <2> QED BY <2>1, <2>2
<1>6. DiscardInv'
  BY DEF IInv, Quiet, DiscardInv
<1>7. QueueType'
  BY DEF IInv, TypeOK, QueueType, Quiet
<1> QED BY <1>1, <1>2, <1>4, <1>5, <1>6, <1>7 DEF IInv, TypeOK

\* What a step does that is not about sending: a part of the state may move on.
LEMMA UnchangedQuiet ==
    ASSUME IInv, UNCHANGED <<isDelayed, queueVars, cpc, item, accepted, delivered>>,
           capturing' \in BOOLEAN,
           \A d \in DelayedSenders : dpc'[d] \in Body.remove =>
              dpc[d] \in Body.remove /\ ditem'[d] = ditem[d]
    PROVE  Quiet
<1>1. delivered' = delivered /\ delivered \in [1..MaxItems -> Nat]
  BY DEF IInv, TypeOK, QueueType
<1>2. \A i \in 1..MaxItems : delivered'[i] >= delivered[i]
  BY <1>1
<1> QED BY <1>1, <1>2 DEF Quiet, queueVars

-----------------------------------------------------------------------------
(* The quiet steps: every thread but the capture thread, and the broker *)

\* start() touches neither the queue nor the DelayedSenders at work.
LEMMA StartKeeps ==
    ASSUME IInv, NEW s \in Starters, start(s)
    PROVE  IInv'
<1>1. /\ UNCHANGED <<isDelayed, queueVars, captureVars, drunning, ditem, rrunning,
                     stopc, delivered>>
      /\ UNCHANGED <<broker, failures, lpc>>
  BY DEF start, createConnection, createSession, createProducer, setRunning,
         startDelayedSender, setFailed, retryIfNobodyDoes, delayedVars, brokerVars
<1>2. FieldType'
  BY DEF start, createConnection, createSession, createProducer, setRunning,
         startDelayedSender, setFailed, retryIfNobodyDoes, startSenderReconnector, fieldVars,
         IInv, TypeOK, FieldType
<1>3. DelayedType'
  BY <1>1
     DEF start, createConnection, createSession, createProducer, setRunning,
         startDelayedSender, setFailed, retryIfNobodyDoes, delayedVars, captureVars,
         IInv, TypeOK, DelayedType, DelayedPlaces
<1>4. StarterType'
  BY <1>1
     DEF start, createConnection, createSession, createProducer, setRunning,
         startDelayedSender, setFailed, retryIfNobodyDoes, startSenderReconnector, returned,
         IInv, TypeOK, StarterType, StarterPlaces, Starters
<1>5. BrokerType'
  BY <1>1
     DEF start, createConnection, createSession, createProducer, setRunning,
         startDelayedSender, setFailed, retryIfNobodyDoes, brokerVars, IInv, TypeOK, BrokerType
<1>6. \A d \in DelayedSenders : dpc'[d] \in Body.remove => dpc[d] \in Body.remove
  BY DEF start, createConnection, createSession, createProducer, setRunning,
         startDelayedSender, setFailed, retryIfNobodyDoes, delayedVars, Body, IInv, TypeOK, DelayedType
<1>7. capturing' \in BOOLEAN
  BY <1>1 DEF captureVars, IInv, TypeOK, QueueType
<1>8. Quiet
  BY <1>1, <1>6, <1>7, UnchangedQuiet DEF captureVars
<1> QED BY <1>2, <1>3, <1>4, <1>5, <1>8, QuietKeeps

\* Nor does a reconnector.
LEMMA ReconnectKeeps ==
    ASSUME IInv, NEW r \in Reconnectors, reconnect(r)
    PROVE  IInv'
<1>1. UNCHANGED <<isDelayed, state, queueVars, delayedVars, captureVars, fieldVars,
                  brokerVars, delivered>>
  BY DEF reconnect
<1>2. FieldType' /\ DelayedType' /\ BrokerType'
  BY <1>1 DEF IInv, TypeOK, FieldType, DelayedType, BrokerType, delayedVars,
              captureVars, fieldVars, brokerVars
<1>3. StarterType'
  BY DEF reconnect, IInv, TypeOK, StarterType, StarterPlaces, Starters
<1>4. Quiet
  BY <1>1, UnchangedQuiet
     DEF captureVars, delayedVars, IInv, TypeOK, QueueType
<1> QED BY <1>2, <1>3, <1>4, QuietKeeps

\* A DelayedSender that moves on, peeks or sends leaves the queue as it is.
LEMMA DelayedQuietKeeps ==
    ASSUME IInv, NEW d \in DelayedSenders,
           delayedControl(d) \/ peek(d) \/ delayedSendNow(d)
    PROVE  IInv'
<1>1. /\ UNCHANGED <<isDelayed, state, queueVars, captureVars, fieldVars,
                     brokerVars, spc, rrunning, stopc>>
      /\ \A e \in DelayedSenders \ {d} : dpc'[e] = dpc[e] /\ ditem'[e] = ditem[e]
  BY DEF delayedControl, peek, delayedSendNow, IInv, TypeOK, DelayedType
<1>2. FieldType' /\ StarterType' /\ BrokerType'
  BY <1>1 DEF IInv, TypeOK, FieldType, StarterType, BrokerType, fieldVars, brokerVars
<1>3. capturing' \in BOOLEAN
  BY <1>1 DEF captureVars, IInv, TypeOK, QueueType
<1>4. CASE delayedControl(d)
  <2>1. DelayedType'
    BY <1>1, <1>4 DEF delayedControl, IInv, TypeOK, DelayedType, DelayedPlaces,
                      Body, captureVars
  <2>2. dpc'[d] \notin Body.remove /\ delivered' = delivered
    BY <1>4 DEF delayedControl, IInv, TypeOK, DelayedType, Body
  <2>3. Quiet
    BY <1>1, <1>3, <2>2, UnchangedQuiet DEF captureVars
  <2> QED BY <1>2, <2>1, <2>3, QuietKeeps
<1>5. CASE peek(d)
  <2>1. sessions # {} => Min(sessions) \in accepted
    <3>1. sessions \subseteq accepted /\ accepted \subseteq 1..MaxItems
      BY AcceptedItems DEF IInv, TypeOK, QueueType
    <3>2. sessions \in SUBSET Nat
      BY <3>1
    <3> QED BY <3>1, <3>2, HeadInQueue
  <2>2. DelayedType'
    BY <1>1, <1>5, <2>1 DEF peek, sameLoop, IInv, TypeOK, DelayedType,
                            DelayedPlaces, Body, captureVars
  <2>3. dpc'[d] \notin Body.remove /\ delivered' = delivered
    BY <1>5 DEF peek, sameLoop, IInv, TypeOK, DelayedType, Body
  <2>4. Quiet
    BY <1>1, <1>3, <2>3, UnchangedQuiet DEF captureVars
  <2> QED BY <1>2, <2>2, <2>4, QuietKeeps
<1>6. CASE delayedSendNow(d)
  <2>1. ditem[d] # null => ditem[d] \in 1..MaxItems
    BY AcceptedItems DEF IInv, TypeOK, DelayedType
  <2>2. CASE canSend
    <3>1. /\ deliver(ditem[d]) /\ ditem' = ditem
          /\ dpc' = [dpc EXCEPT ![d] = sameLoop(d, "remove1", "remove2")]
          /\ drunning' = drunning
      BY <1>6, <2>2 DEF delayedSendNow
    <3>2. delivered \in [1..MaxItems -> Nat]
      BY DEF IInv, TypeOK, QueueType
    <3>3. /\ delivered' \in [1..MaxItems -> Nat]
          /\ \A i \in 1..MaxItems : delivered'[i] >= delivered[i]
          /\ ditem[d] # null => delivered'[ditem[d]] > 0
      BY <2>1, <3>1, <3>2 DEF deliver
    <3>4. DelayedType'
      BY <1>1, <3>1 DEF sameLoop, IInv, TypeOK, DelayedType, DelayedPlaces, Body,
                        captureVars
    <3>5. Quiet
      BY <1>1, <1>3, <3>1, <3>3 DEF Quiet, queueVars, captureVars
    <3> QED BY <1>2, <3>4, <3>5, QuietKeeps
  <2>3. CASE ~ canSend
    <3>1. /\ dpc' = [dpc EXCEPT ![d] = "loop"]
          /\ ditem' = [ditem EXCEPT ![d] = null]
          /\ UNCHANGED <<drunning, delivered>>
      BY <1>6, <2>3 DEF delayedSendNow
    <3>2. DelayedType'
      BY <1>1, <3>1 DEF IInv, TypeOK, DelayedType, DelayedPlaces, captureVars
    <3>3. dpc'[d] \notin Body.remove
      BY <3>1 DEF IInv, TypeOK, DelayedType, Body
    <3>4. Quiet
      BY <1>1, <1>3, <3>1, <3>3, UnchangedQuiet DEF captureVars
    <3> QED BY <1>2, <3>2, <3>4, QuietKeeps
  <2> QED BY <2>2, <2>3
<1> QED BY <1>4, <1>5, <1>6

\* onException marks a DelayedSender stopped and may start a reconnector.
LEMMA ListenerKeeps ==
    ASSUME IInv, NEW k \in Connections, exceptionListener(k)
    PROVE  IInv'
<1>1. /\ UNCHANGED <<isDelayed, queueVars, captureVars, dpc, ditem, rrunning,
                     stopc, delivered>>
      /\ UNCHANGED <<broker, conn, failures>>
  BY DEF exceptionListener, onException, delayedVars
<1>2. FieldType'
  BY DEF exceptionListener, onException, startSenderReconnector, fieldVars,
         IInv, TypeOK, FieldType
<1>3. DelayedType'
  BY <1>1 DEF exceptionListener, onException, delayedVars, captureVars,
              IInv, TypeOK, DelayedType, FieldType
<1>4. StarterType'
  BY <1>1 DEF exceptionListener, onException, startSenderReconnector,
              IInv, TypeOK, StarterType, StarterPlaces, Starters
<1>5. BrokerType'
  BY <1>1 DEF exceptionListener, onException, IInv, TypeOK, BrokerType,
              ListenerPlaces
<1>6. Quiet
  BY <1>1, UnchangedQuiet DEF captureVars, IInv, TypeOK, QueueType
<1> QED BY <1>2, <1>3, <1>4, <1>5, <1>6, QuietKeeps

\* stop() and the broker.
LEMMA EnvironmentKeeps ==
    ASSUME IInv, stopCapture \/ stop \/ brokerFails \/ brokerRecovers
    PROVE  IInv'
<1>1. UNCHANGED <<isDelayed, queueVars, dpc, ditem, fieldVars, state, cpc, item,
                  accepted, rrunning, delivered>>
  BY DEF stopCapture, stop, stopDelayedSender, testRunning, closeConnection,
         brokerFails, brokerRecovers, delayedVars, captureVars
<1>2. FieldType'
  BY <1>1 DEF fieldVars, IInv, TypeOK, FieldType
<1>3. drunning' \in [DelayedSenders -> BOOLEAN]
  BY DEF stopCapture, stop, stopDelayedSender, testRunning, closeConnection,
         brokerFails, brokerRecovers, delayedVars, IInv, TypeOK, DelayedType
<1>4. DelayedType'
  BY <1>1, <1>3 DEF IInv, TypeOK, DelayedType
<1>5. spc' = spc /\ stopc' \in StopPlaces
  BY DEF stopCapture, stop, stopDelayedSender, testRunning, closeConnection,
         brokerFails, brokerRecovers, StopPlaces, StopReturned, IInv, TypeOK,
         StarterType
<1>6. StarterType'
  BY <1>1, <1>5 DEF IInv, TypeOK, StarterType
<1>7. BrokerType'
  <2>1. BrokerType
    BY DEF IInv, TypeOK
  <2>2. CASE stopCapture
    BY <2>1, <2>2 DEF stopCapture, brokerVars, BrokerType
  <2>3. CASE stop
    BY <2>1, <2>3 DEF stop, stopDelayedSender, testRunning, closeConnection,
                      brokerVars, BrokerType
  <2>4. CASE brokerFails
    <3>1. /\ conn' = [k \in Connections |-> IF conn[k] = "alive" THEN "dead" ELSE conn[k]]
          /\ lpc' = [k \in Connections |-> IF conn[k] = "alive" THEN "notified" ELSE lpc[k]]
          /\ broker' = FALSE /\ failures' = failures + 1
      BY <2>4 DEF brokerFails
    <3>2. conn' \in [Connections -> {"unborn", "alive", "dead", "closed"}]
      BY <2>1, <3>1 DEF BrokerType
    <3>3. lpc' \in [Connections -> ListenerPlaces]
      BY <2>1, <3>1 DEF BrokerType, ListenerPlaces
    <3>4. broker' \in BOOLEAN
      BY <3>1
    <3>5. failures \in Nat /\ failures' = failures + 1
      BY <2>1, <3>1 DEF BrokerType
    <3>6. failures' \in Nat
      BY <3>5
    <3> QED BY <3>2, <3>3, <3>4, <3>6 DEF BrokerType
  <2>5. CASE brokerRecovers
    BY <2>1, <2>5 DEF brokerRecovers, BrokerType
  <2> QED BY <2>2, <2>3, <2>4, <2>5
<1>8. capturing' \in BOOLEAN
  BY DEF stopCapture, stop, stopDelayedSender, testRunning, closeConnection,
         brokerFails, brokerRecovers, captureVars, IInv, TypeOK, QueueType
<1>9. Quiet
  BY <1>1, <1>8, UnchangedQuiet
<1> QED BY <1>2, <1>4, <1>6, <1>7, <1>9, QuietKeeps

-----------------------------------------------------------------------------
(* The steps that change the queue *)

\* The queue, and what the overflow branch took, are finite.
LEMMA QueueFinite ==
    ASSUME QueueType
    PROVE  /\ IsFiniteSet(sessions) /\ Cardinality(sessions) \in Nat
           /\ IsFiniteSet(polled) /\ Cardinality(polled) \in Nat
           /\ IsFiniteSet(messages) /\ Cardinality(messages) \in Nat
<1>1. IsFiniteSet(1..item)
  BY AcceptedItems, FS_Interval
<1>2. sessions \subseteq 1..item /\ polled \subseteq 1..item /\ messages \subseteq 1..item
  BY DEF QueueType
<1>3. IsFiniteSet(sessions) /\ IsFiniteSet(polled) /\ IsFiniteSet(messages)
  BY <1>1, <1>2, FS_Subset
<1> QED BY <1>3, FS_CardinalityType

\* A DelayedSender removes a session that the broker got.
LEMMA RemoveKeeps ==
    ASSUME IInv, NEW d \in DelayedSenders, removeSent(d)
    PROVE  IInv'
<1>1. /\ sessions' = sessions \ {ditem[d]}
      /\ dpc' = [dpc EXCEPT ![d] = sameLoop(d, "sessions", "messages")]
      /\ ditem' = [ditem EXCEPT ![d] = null]
      /\ dpc[d] \in Body.remove
      /\ UNCHANGED <<isDelayed, state, messages, discardedSessions, polled,
                     drunning, captureVars, fieldVars, brokerVars, spc, rrunning,
                     stopc, delivered>>
  BY DEF removeSent
<1>2. QueueType'
  BY <1>1 DEF IInv, TypeOK, QueueType, captureVars
<1>3. FieldType' /\ StarterType' /\ BrokerType'
  BY <1>1 DEF IInv, TypeOK, FieldType, StarterType, BrokerType, fieldVars, brokerVars
<1>4. DelayedType'
  BY <1>1 DEF IInv, TypeOK, DelayedType, DelayedPlaces, sameLoop, captureVars
<1>5. CaptureInv'
  BY <1>1 DEF IInv, CaptureInv, captureVars
<1>6. RoomInv'
  <2>1. Cardinality(sessions') <= Cardinality(sessions)
    <3>1. IsFiniteSet(sessions) /\ Cardinality(sessions) \in Nat
      BY QueueFinite DEF IInv, TypeOK
    <3>2. sessions' = sessions \ {ditem[d]}
      BY <1>1
    <3> QED BY <3>1, <3>2, FS_RemoveElement
  <2>2. Cardinality(sessions) \in Nat /\ Cardinality(sessions') \in Nat
    <3>1. IsFiniteSet(sessions) /\ Cardinality(sessions) \in Nat
      BY QueueFinite DEF IInv, TypeOK
    <3>2. IsFiniteSet(sessions')
      BY <1>1, <3>1, FS_RemoveElement
    <3> QED BY <3>1, <3>2, FS_CardinalityType
  <2> QED BY <1>1, <2>1, <2>2, SenderAssumption DEF IInv, RoomInv, captureVars
<1>7. RemoveInv'
  BY <1>1 DEF IInv, RemoveInv, TypeOK, DelayedType, Body, sameLoop
<1>8. NothingLost'
  <2>1. ditem[d] # null => delivered[ditem[d]] > 0
    BY <1>1 DEF IInv, RemoveInv
  <2>2. \A i \in accepted : i # null
    BY AcceptedItems, SenderAssumption DEF IInv, TypeOK
  <2> QED BY <1>1, <2>1, <2>2 DEF IInv, NothingLost, captureVars
<1>9. DiscardInv'
  BY <1>1 DEF IInv, DiscardInv, captureVars
<1> QED BY <1>2, <1>3, <1>4, <1>5, <1>6, <1>7, <1>8, <1>9 DEF IInv, TypeOK

\* The capture thread: the test of the size, counting, polling and adding.
LEMMA CaptureKeeps ==
    ASSUME IInv, sendSession \/ sendMessage \/ capture
    PROVE  IInv'
<1>1. /\ UNCHANGED <<isDelayed, state, delayedVars, fieldVars, brokerVars,
                     capturing, spc, rrunning, stopc>>
  BY DEF sendSession, sendMessage, capture, countDiscarded, pollOldest, addSession,
         captureSendNow
<1>2. FieldType' /\ StarterType' /\ BrokerType'
  BY <1>1 DEF IInv, TypeOK, FieldType, StarterType, BrokerType, fieldVars, brokerVars
<1>3. /\ QueueType /\ DelayedType /\ CaptureInv /\ RoomInv /\ DiscardInv
      /\ RemoveInv /\ NothingLost
      /\ item \in Nat /\ accepted \subseteq 1..MaxItems
      /\ \A i \in accepted : i <= item
      /\ IsFiniteSet(sessions) /\ Cardinality(sessions) \in Nat
      /\ IsFiniteSet(polled) /\ Cardinality(polled) \in Nat
      /\ Cardinality(messages) \in Nat
      /\ BufferSize \in Nat /\ MaxItems \in Nat
  <2>1. /\ QueueType /\ DelayedType /\ CaptureInv /\ RoomInv /\ DiscardInv
        /\ RemoveInv /\ NothingLost
    BY DEF IInv, TypeOK
  <2>2. item \in Nat /\ accepted \subseteq 1..MaxItems /\ \A i \in accepted : i <= item
    BY <2>1, AcceptedItems DEF QueueType
  <2> QED BY <2>1, <2>2, QueueFinite, SenderAssumption
<1>4. ASSUME delivered' = delivered PROVE RemoveInv'
  BY <1>1, <1>3, <1>4 DEF RemoveInv, delayedVars
<1>5. ASSUME accepted \subseteq accepted' PROVE DelayedType'
  BY <1>1, <1>3, <1>5 DEF DelayedType, delayedVars
<1>6. CASE sendSession
  <2>1. /\ cpc = "idle" /\ item < MaxItems /\ item' = item + 1
        /\ accepted' = accepted \cup {item'}
        /\ cpc' = IF isDelayed THEN IF isBufferOverflowed THEN "count" ELSE "add"
                  ELSE IF isRunning THEN "sendNow" ELSE "idle"
        /\ UNCHANGED <<sessions, messages, discardedSessions, polled, delivered>>
    BY <1>6 DEF sendSession, queueVars
  <2>2. QueueType'
    BY <1>1, <1>3, <2>1 DEF QueueType
  <2>3. CaptureInv'
    BY <1>3, <2>1 DEF CaptureInv
  <2>4. RoomInv'
    BY <1>3, <2>1 DEF RoomInv, isBufferOverflowed
  <2>5. NothingLost'
    BY <1>1, <1>3, <2>1 DEF NothingLost
  <2>6. DiscardInv'
    BY <1>3, <2>1 DEF DiscardInv
  <2> QED BY <1>2, <1>4, <1>5, <2>1, <2>2, <2>3, <2>4, <2>5, <2>6 DEF IInv, TypeOK
<1>7. CASE sendMessage
  <2>1. /\ cpc = "idle" /\ item < MaxItems /\ item' = item + 1
        /\ cpc' = IF isRunning THEN "sendNow" ELSE "idle"
        /\ messages' = IF ~isRunning /\ isDelayed THEN messages \cup {item'} ELSE messages
        /\ UNCHANGED <<sessions, discardedSessions, polled, accepted, delivered>>
    BY <1>7 DEF sendMessage
  <2>2. QueueType'
    BY <1>1, <1>3, <2>1 DEF QueueType
  <2>3. CaptureInv' /\ RoomInv' /\ DiscardInv'
    BY <1>3, <2>1 DEF CaptureInv, RoomInv, DiscardInv
  <2>4. NothingLost'
    BY <1>1, <1>3, <2>1 DEF NothingLost
  <2> QED BY <1>2, <1>4, <1>5, <2>1, <2>2, <2>3, <2>4 DEF IInv, TypeOK
<1>8. CASE countDiscarded
  <2>1. /\ cpc = "count" /\ cpc' = "poll" /\ discardedSessions' = discardedSessions + 1
        /\ UNCHANGED <<sessions, messages, polled, item, accepted, delivered>>
    BY <1>8 DEF countDiscarded
  <2>2. QueueType'
    BY <1>1, <1>3, <2>1 DEF QueueType
  <2>3. CaptureInv' /\ RoomInv'
    BY <1>3, <2>1 DEF CaptureInv, RoomInv
  <2>4. DiscardInv' /\ NothingLost'
    BY <1>1, <1>3, <2>1 DEF DiscardInv, NothingLost, QueueType
  <2> QED BY <1>2, <1>4, <1>5, <2>1, <2>2, <2>3, <2>4 DEF IInv, TypeOK
<1>9. CASE pollOldest
  <2> DEFINE oldest == IF sessions = {} THEN {} ELSE {Min(sessions)}
  <2>1. /\ cpc = "poll" /\ cpc' = "add"
        /\ sessions' = sessions \ oldest /\ polled' = polled \cup oldest
        /\ UNCHANGED <<messages, discardedSessions, item, accepted, delivered>>
    BY <1>9 DEF pollOldest
  <2>2. oldest \subseteq sessions /\ sessions \subseteq accepted
    <3>1. sessions \subseteq accepted /\ sessions \in SUBSET Nat
      BY <1>3 DEF QueueType
    <3> QED BY <3>1, HeadInQueue
  <2>3. /\ Cardinality(sessions') \in Nat /\ Cardinality(polled') \in Nat
        /\ Cardinality(sessions') <= BufferSize
        /\ Cardinality(polled') <= Cardinality(polled) + 1
    <3>1. CASE sessions = {}
      BY <1>3, <2>1, <3>1, FS_EmptySet DEF oldest
    <3>2. CASE sessions # {}
      <4>1. Min(sessions) \in sessions /\ oldest = {Min(sessions)}
        BY <2>2, <3>2 DEF oldest
      <4>2. Cardinality(sessions') = Cardinality(sessions) - 1
        BY <1>3, <2>1, <4>1, FS_RemoveElement
      <4>3. Cardinality(sessions) # 0
        BY <1>3, <3>2, FS_EmptySet
      <4>4. Cardinality(polled') \in {Cardinality(polled), Cardinality(polled) + 1}
        BY <1>3, <2>1, <4>1, FS_AddElement
      <4> QED BY <1>3, <4>2, <4>3, <4>4 DEF RoomInv
    <3> QED BY <3>1, <3>2
  <2> HIDE DEF oldest
  <2>4. QueueType'
    BY <1>1, <1>3, <2>1, <2>2 DEF QueueType
  <2>5. CaptureInv'
    BY <1>3, <2>1 DEF CaptureInv
  <2>6. RoomInv'
    BY <1>3, <2>1, <2>3 DEF RoomInv
  <2>7. DiscardInv'
    BY <1>3, <2>1, <2>3 DEF DiscardInv, QueueType
  <2>8. NothingLost'
    BY <1>1, <1>3, <2>1 DEF NothingLost
  <2> QED BY <1>2, <1>4, <1>5, <2>1, <2>4, <2>5, <2>6, <2>7, <2>8 DEF IInv, TypeOK
<1>10. CASE addSession
  <2>1. /\ cpc = "add" /\ cpc' = "idle" /\ sessions' = sessions \cup {item}
        /\ UNCHANGED <<messages, discardedSessions, polled, item, accepted,
                       delivered>>
    BY <1>10 DEF addSession
  <2>2. QueueType'
    BY <1>1, <1>3, <2>1 DEF QueueType, CaptureInv
  <2>3. CaptureInv' /\ DiscardInv'
    BY <1>3, <2>1 DEF CaptureInv, DiscardInv
  <2>4. RoomInv'
    <3>1. Cardinality(sessions') \in {Cardinality(sessions), Cardinality(sessions) + 1}
      BY <1>3, <2>1, FS_AddElement
    <3> QED BY <1>3, <2>1, <3>1 DEF RoomInv
  <2>5. NothingLost'
    BY <1>1, <1>3, <2>1 DEF NothingLost
  <2> QED BY <1>2, <1>4, <1>5, <2>1, <2>2, <2>3, <2>4, <2>5 DEF IInv, TypeOK
<1>11. CASE captureSendNow
  <2>1. /\ cpc = "sendNow" /\ cpc' = "idle"
        /\ deliver(item) \/ delivered' = delivered
        /\ UNCHANGED <<sessions, messages, discardedSessions, polled, item, accepted>>
    BY <1>11 DEF captureSendNow, queueVars
  <2>2. item \in 1..MaxItems /\ item # null /\ delivered \in [1..MaxItems -> Nat]
    BY <1>3, <2>1, SenderAssumption DEF CaptureInv, QueueType
  <2>3. /\ delivered' \in [1..MaxItems -> Nat]
        /\ \A i \in 1..MaxItems : delivered'[i] >= delivered[i]
    <3>1. CASE delivered' = [delivered EXCEPT ![item] = @ + 1]
      BY <2>2, <3>1
    <3>2. CASE delivered' = delivered
      BY <2>2, <3>2
    <3> QED BY <2>1, <2>2, <3>1, <3>2 DEF deliver
  <2>4. QueueType'
    BY <1>1, <1>3, <2>1, <2>3 DEF QueueType
  <2>5. CaptureInv' /\ RoomInv' /\ DiscardInv'
    BY <1>3, <2>1 DEF CaptureInv, RoomInv, DiscardInv
  <2>6. \A i \in accepted : delivered[i] > 0 => delivered'[i] > 0
    BY <1>3, <2>2, <2>3
  <2>7. NothingLost'
    BY <1>1, <1>3, <2>1, <2>6 DEF NothingLost
  <2>8. RemoveInv'
    BY <1>1, <1>3, <2>6 DEF RemoveInv, delayedVars, DelayedType
  <2> QED BY <1>2, <1>5, <2>1, <2>4, <2>5, <2>7, <2>8 DEF IInv, TypeOK
<1> QED BY <1>6, <1>7, <1>8, <1>9, <1>10, <1>11 DEF capture

-----------------------------------------------------------------------------
(* The invariant is inductive *)

\* Nothing is queued and no thread but the agent's runs.
LEMMA InitIInv == Init => IInv
<1> SUFFICES ASSUME Init PROVE IInv
  OBVIOUS
<1> USE SenderAssumption DEF Init
<1>1. QueueType /\ DelayedType
  BY DEF QueueType, DelayedType, DelayedPlaces
<1>2. FieldType /\ StarterType /\ BrokerType
  BY DEF FieldType, StarterType, StarterPlaces, StopPlaces, BrokerType,
         ListenerPlaces
<1>3. CaptureInv /\ RoomInv /\ DiscardInv /\ NothingLost
  BY FS_EmptySet DEF CaptureInv, RoomInv, DiscardInv, NothingLost
<1>4. RemoveInv
  BY DEF RemoveInv, Body
<1> QED BY <1>1, <1>2, <1>3, <1>4 DEF IInv, TypeOK

LEMMA NextIInv == IInv /\ [Next]_vars => IInv'
<1> SUFFICES ASSUME IInv, [Next]_vars PROVE IInv'
  OBVIOUS
<1>1. CASE Next
  BY <1>1, StartKeeps, ReconnectKeeps, DelayedQuietKeeps, RemoveKeeps, ListenerKeeps,
     EnvironmentKeeps, CaptureKeeps DEF Next, delayedRun
<1>2. CASE UNCHANGED vars
  <2>1. Quiet
    BY <1>2, UnchangedQuiet DEF vars, queueVars, captureVars, delayedVars, IInv,
                                TypeOK, QueueType
  <2>2. FieldType' /\ DelayedType' /\ StarterType' /\ BrokerType'
    BY <1>2 DEF vars, fieldVars, delayedVars, captureVars, brokerVars, IInv, TypeOK,
                FieldType, DelayedType, StarterType, BrokerType
  <2> QED BY <2>1, <2>2, QuietKeeps
<1> QED BY <1>1, <1>2

LEMMA AlwaysIInv == Spec => []IInv
  BY InitIInv, NextIInv, PTL DEF Spec

-----------------------------------------------------------------------------
\* The fields of JMSSender keep their types under every interleaving.
THEOREM TypeCorrect == Spec => []TypeOK
<1>1. IInv => TypeOK
  BY DEF IInv
<1> QED BY <1>1, AlwaysIInv, PTL

\* The queue of sessions never holds more than BufferSize + 1 sessions.
THEOREM QueueBounded == Spec => []BufferBound
<1>1. IInv => BufferBound
  BY DEF IInv, RoomInv, BufferBound
<1> QED BY <1>1, AlwaysIInv, PTL

\* Delayed mode loses no session but those that the overflow branch discards.
THEOREM NoSessionLost == Spec => []NothingLost
<1>1. IInv => NothingLost
  BY DEF IInv
<1> QED BY <1>1, AlwaysIInv, PTL

\* The discarded sessions are all counted.
THEOREM AllDiscardsCounted == Spec => []DiscardsCounted
<1>1. IInv => DiscardsCounted
  BY DEF IInv, DiscardInv, DiscardsCounted
<1> QED BY <1>1, AlwaysIInv, PTL
=============================================================================
