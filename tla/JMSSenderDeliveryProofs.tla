----------------------- MODULE JMSSenderDeliveryProofs -----------------------
(***************************************************************************)
(* Proofs about what JMSSender gives to the broker: it can send when it is *)
(* RUNNING, it sends nothing twice before a failure, and nothing after a   *)
(* stop() that closed the connection or found a failed one, until a        *)
(* reconnector is started.                                                 *)
(***************************************************************************)
EXTENDS JMSSenderProofs

-----------------------------------------------------------------------------
(* A RUNNING sender can send *)

\* start() sets its fields before the state that tells others to use them, and
\* a connection ends by a failure of the broker or by stop() only.
WorkInv ==
    /\ connection # null => conn[connection] # "unborn"
    /\ session # null => conn[session] # "unborn"
    /\ producer # null => conn[producer] # "unborn"
    /\ \A s \in Starters :
          /\ spc[s] = "session" => connection # null
          /\ spc[s] \in {"produce", "run"} => session # null
          /\ spc[s] = "run" => producer # null
    /\ isRunning => session # null /\ producer # null
    /\ failures = 0 /\ stopc # "closed" =>
          \A k \in Connections : conn[k] \in {"unborn", "alive"}

LEMMA WorkGivesRunningCanSend ==
    ASSUME TypeOK, WorkInv
    PROVE  RunningCanSend
BY DEF TypeOK, FieldType, WorkInv, RunningCanSend, canSend

\* Steps that touch neither a connection nor a field, nor bring a thread to a
\* place where one is used.
LEMMA CalmKeepsWork ==
    ASSUME WorkInv, TypeOK,
           UNCHANGED <<connection, session, producer, conn, failures>>,
           state' = state \/ state' # "RUNNING",
           stopc = "closed" => stopc' = "closed",
           \A s \in Starters :
               spc'[s] \in {"session", "produce", "run"} => spc'[s] = spc[s]
    PROVE  WorkInv'
BY DEF WorkInv, isRunning

LEMMA StartKeepsWork ==
    ASSUME WorkInv, TypeOK, NEW s \in Starters, start(s)
    PROVE  WorkInv'
<1>1. /\ spc \in [Starters -> StarterPlaces] /\ Agent \in Starters
      /\ conn \in [Connections -> {"unborn", "alive", "dead", "closed"}]
      /\ connection \in Connections \cup {null}
      /\ session \in Connections \cup {null} /\ producer \in Connections \cup {null}
      /\ Agent \notin Reconnectors /\ null \notin Connections
      /\ Reconnectors \subseteq Starters /\ stopc' = stopc
  BY SenderAssumption
     DEF TypeOK, StarterType, BrokerType, FieldType, Starters, start,
         createConnection, createSession, createProducer, setRunning,
         startDelayedSender, setFailed, retryIfNobodyDoes
<1>2. CASE createConnection(s)
  <2>1. UNCHANGED <<state, session, producer, failures>> /\ spc[s] = "connect"
    BY <1>2 DEF createConnection
  <2>2. CASE \E k \in Connections : /\ conn[k] = "unborn"
                                    /\ conn' = [conn EXCEPT ![k] = "alive"]
                                    /\ connection' = k
                                    /\ spc' = [spc EXCEPT ![s] = "session"]
    BY <1>1, <2>1, <2>2 DEF WorkInv, isRunning
  <2>3. CASE spc' = [spc EXCEPT ![s] = "fail"] /\ UNCHANGED <<conn, connection>>
    BY <1>1, <2>1, <2>3, CalmKeepsWork
  <2> QED BY <1>2, <2>2, <2>3 DEF createConnection
<1>3. CASE createSession(s)
  <2>1. UNCHANGED <<state, connection, producer, conn, failures>> /\ spc[s] = "session"
    BY <1>3 DEF createSession, brokerVars
  <2>2. CASE /\ conn[connection] = "alive" /\ session' = connection
             /\ spc' = [spc EXCEPT ![s] = "produce"]
    BY <1>1, <2>1, <2>2 DEF WorkInv, isRunning
  <2>3. CASE spc' = [spc EXCEPT ![s] = "fail"] /\ UNCHANGED session
    BY <1>1, <2>1, <2>3, CalmKeepsWork
  <2> QED BY <1>3, <2>2, <2>3 DEF createSession
<1>4. CASE createProducer(s)
  <2>1. UNCHANGED <<state, connection, session, conn, failures>> /\ spc[s] = "produce"
    BY <1>4 DEF createProducer, brokerVars
  <2>2. CASE /\ conn[session] = "alive" /\ producer' = session
             /\ spc' = [spc EXCEPT ![s] = "run"]
    BY <1>1, <2>1, <2>2 DEF WorkInv, isRunning
  <2>3. CASE spc' = [spc EXCEPT ![s] = "fail"] /\ UNCHANGED producer
    BY <1>1, <2>1, <2>3, CalmKeepsWork
  <2> QED BY <1>4, <2>2, <2>3 DEF createProducer
<1>5. CASE setRunning(s)
  <2>1. /\ spc[s] = "run" /\ state' = "RUNNING"
        /\ UNCHANGED <<connection, session, producer, conn, failures>>
        /\ spc' = [spc EXCEPT ![s] = IF isDelayed THEN "delay" ELSE returned(s)]
    BY <1>5 DEF setRunning, fieldVars, brokerVars
  <2> QED BY <1>1, <2>1 DEF WorkInv, isRunning, returned
<1>6. CASE startDelayedSender(s) \/ setFailed(s)
  <2>1. /\ UNCHANGED <<connection, session, producer, conn, failures>>
        /\ state' = state \/ state' = "FAILED"
        /\ spc[s] \in {"delay", "fail"}
        /\ \E p \in {"started", "restarted", "respawn"} : spc' = [spc EXCEPT ![s] = p]
    BY <1>6 DEF startDelayedSender, setFailed, returned, fieldVars, brokerVars
  <2> QED BY <1>1, <2>1, CalmKeepsWork
<1>7. CASE retryIfNobodyDoes(s)
  <2>1. /\ UNCHANGED <<connection, session, producer, conn, failures, state>>
        /\ spc[s] = "respawn"
    BY <1>7 DEF retryIfNobodyDoes, brokerVars
  <2>2. \E f \in [Starters -> StarterPlaces] :
          /\ f = [spc EXCEPT ![s] = returned(s)]
          /\ \/ spc' = f
             \/ \E r \in Reconnectors : spc' = [f EXCEPT ![r] = "new"]
    BY <1>1, <1>7 DEF retryIfNobodyDoes, startSenderReconnector, returned,
                      StarterPlaces
  <2> QED BY <1>1, <2>1, <2>2, CalmKeepsWork DEF returned
<1> QED BY <1>2, <1>3, <1>4, <1>5, <1>6, <1>7 DEF start

\* onException never makes a sender RUNNING, and it clears no field but that of
\* the DelayedSender.
LEMMA ListenerKeepsWork ==
    ASSUME WorkInv, TypeOK, NEW k \in Connections, exceptionListener(k)
    PROVE  WorkInv'
<1>1. /\ UNCHANGED <<connection, session, producer, conn, failures, stopc>>
      /\ state' = state \/ state' = "FAILED"
      /\ spc' = spc \/ \E r \in Reconnectors : spc' = [spc EXCEPT ![r] = "new"]
  BY DEF exceptionListener, onException, startSenderReconnector, fieldVars
<1>2. /\ spc \in [Starters -> StarterPlaces] /\ Agent \in Starters
      /\ Agent \notin Reconnectors
  BY SenderAssumption DEF TypeOK, StarterType, Starters
<1> QED BY <1>1, <1>2, CalmKeepsWork

LEMMA ReconnectKeepsWork ==
    ASSUME WorkInv, TypeOK, NEW r \in Reconnectors, reconnect(r)
    PROVE  WorkInv'
<1>1. /\ UNCHANGED <<connection, session, producer, conn, failures, state, stopc>>
      /\ \E p \in {"loop", "waiting", "done", "connect"} : spc' = [spc EXCEPT ![r] = p]
  BY DEF reconnect, fieldVars, brokerVars
<1>2. /\ spc \in [Starters -> StarterPlaces] /\ Agent \in Starters
      /\ Agent \notin Reconnectors /\ Reconnectors \subseteq Starters
  BY SenderAssumption DEF TypeOK, StarterType, Starters
<1> QED BY <1>1, <1>2, CalmKeepsWork

\* Only closeConnection and a failure end a connection.
LEMMA EnvironmentKeepsWork ==
    ASSUME WorkInv, TypeOK, stopCapture \/ stop \/ brokerFails \/ brokerRecovers
    PROVE  WorkInv'
<1>1. /\ conn \in [Connections -> {"unborn", "alive", "dead", "closed"}]
      /\ connection \in Connections \cup {null} /\ session \in Connections \cup {null}
      /\ producer \in Connections \cup {null}
      /\ failures \in Nat
  BY DEF TypeOK, BrokerType, FieldType
<1>2. CASE stopCapture \/ stopDelayedSender \/ testRunning \/ brokerRecovers
  <2>1. /\ UNCHANGED <<connection, session, producer, conn, failures, state, spc>>
        /\ stopc' = stopc \/ stopc # "closed"
    BY <1>2 DEF stopCapture, stopDelayedSender, testRunning, brokerRecovers,
                fieldVars, brokerVars
  <2> QED BY <2>1, CalmKeepsWork
<1>3. CASE closeConnection
  <2>1. /\ UNCHANGED <<connection, session, producer, failures, state, spc>>
        /\ stopc' = "closed"
        /\ conn' = [conn EXCEPT ![connection] = "closed"]
    BY <1>3 DEF closeConnection, fieldVars
  <2>2. \A k \in Connections : conn[k] # "unborn" => conn'[k] # "unborn"
    BY <1>1, <2>1
  <2> QED BY <1>1, <2>1, <2>2 DEF WorkInv, isRunning
<1>4. CASE brokerFails
  <2>1. /\ UNCHANGED <<connection, session, producer, spc, state>>
        /\ failures' = failures + 1
        /\ conn' = [k \in Connections |-> IF conn[k] = "alive" THEN "dead" ELSE conn[k]]
    BY <1>4 DEF brokerFails, fieldVars
  <2>2. failures' # 0
    BY <1>1, <2>1
  <2>3. \A k \in Connections : conn[k] # "unborn" => conn'[k] # "unborn"
    BY <2>1
  <2> QED BY <1>1, <2>1, <2>2, <2>3 DEF WorkInv, isRunning
<1> QED BY <1>2, <1>3, <1>4 DEF stop

LEMMA NextKeepsWork == IInv /\ WorkInv /\ [Next]_vars => WorkInv'
<1> SUFFICES ASSUME IInv, WorkInv, [Next]_vars PROVE WorkInv'
  OBVIOUS
<1>1. TypeOK
  BY DEF IInv
<1>2. ASSUME UNCHANGED <<state, spc, stopc, fieldVars, brokerVars>> PROVE WorkInv'
  BY <1>1, <1>2, CalmKeepsWork DEF fieldVars, brokerVars
<1>3. CASE sendSession \/ sendMessage \/ capture
  BY <1>2, <1>3 DEF sendSession, sendMessage, capture, countDiscarded, pollOldest,
                    addSession, captureSendNow
<1>4. ASSUME NEW d \in DelayedSenders, delayedRun(d) PROVE WorkInv'
  BY <1>2, <1>4 DEF delayedRun, delayedControl, peek, delayedSendNow, removeSent
<1>5. CASE UNCHANGED vars
  BY <1>2, <1>5 DEF vars
<1> QED
  BY <1>1, <1>3, <1>4, <1>5, StartKeepsWork, ReconnectKeepsWork, ListenerKeepsWork,
     EnvironmentKeepsWork DEF Next

\* A sender that is RUNNING has a producer, which works as long as the broker
\* did not fail and stop() did not close the connection.
THEOREM RunningSenderCanSend == Spec => []RunningCanSend
<1>1. Init => WorkInv
  BY SenderAssumption DEF Init, WorkInv, isRunning, Starters
<1>2. IInv /\ WorkInv => RunningCanSend
  BY WorkGivesRunningCanSend DEF IInv
<1> QED BY <1>1, <1>2, AlwaysIInv, NextKeepsWork, PTL DEF Spec

-----------------------------------------------------------------------------
(* Before the first failure nothing is sent twice *)

StartPlaces ==
    {"connect", "session", "produce", "run", "delay", "fail", "respawn"}

\* Thread s may still create a DelayedSender or a reconnector.
Trying(s) ==
    \/ spc[s] \in StartPlaces
    \/ s \in Reconnectors /\ spc[s] = "new"
    \/ s \in Reconnectors /\ spc[s] \in {"loop", "waiting"} /\ rrunning[s]

\* While the broker never failed one thread at a time tries to start the
\* sender: the agent's, then at most one reconnector, which nobody repeats.  The
\* first that succeeds creates the only DelayedSender.
SingleInv ==
    failures = 0 =>
        /\ \A k \in Connections : lpc[k] = "none"
        /\ \A r \in Reconnectors : spc[r] # "unborn" => r = reconnector
        /\ reconnector # null => spc[Agent] \notin StartPlaces
        /\ \A r \in Reconnectors : spc[r] \in StartPlaces => rrunning[r]
        /\ \A d \in DelayedSenders :
              dpc[d] # "unborn" =>
                  d = delayedSender /\ \A s \in Starters : ~ Trying(s)

\* What is queued, in hand or still to come was not sent yet, but for the
\* session that the DelayedSender is about to remove.
FreshInv ==
    failures = 0 =>
        /\ \A i \in 1..MaxItems : delivered[i] <= 1
        /\ \A i \in 1..MaxItems : i > item => delivered[i] = 0
        /\ cpc # "idle" =>
              /\ item \notin sessions /\ delivered[item] = 0
              /\ \A d \in DelayedSenders : ditem[d] # item
        /\ \A i \in sessions :
              \/ delivered[i] = 0
              \/ \E d \in DelayedSenders : dpc[d] \in Body.remove /\ ditem[d] = i
        /\ \A d \in DelayedSenders :
              dpc[d] \in Body.send /\ ditem[d] # null => delivered[ditem[d]] = 0

\* The types that the following lemmas use.
Types ==
    /\ spc \in [Starters -> StarterPlaces] /\ rrunning \in [Reconnectors -> BOOLEAN]
    /\ dpc \in [DelayedSenders -> DelayedPlaces]
    /\ ditem \in [DelayedSenders -> accepted \cup {null}]
    /\ delivered \in [1..MaxItems -> Nat]
    /\ failures \in Nat /\ item \in Nat /\ MaxItems \in Nat
    /\ Agent \in Starters /\ Agent \notin Reconnectors /\ Reconnectors \subseteq Starters
    /\ Starters = {Agent} \cup Reconnectors
    /\ null \notin Reconnectors /\ null \notin DelayedSenders /\ null \notin Nat
    /\ sessions \subseteq accepted /\ accepted \subseteq 1..item
    /\ accepted \subseteq 1..MaxItems
    /\ item <= MaxItems

LEMMA TypesHold == ASSUME TypeOK PROVE Types
<1>1. accepted \subseteq 1..MaxItems /\ item \in Nat
  BY AcceptedItems DEF TypeOK
<1>2. item <= MaxItems
  BY SenderAssumption DEF TypeOK, QueueType
<1> QED
  BY <1>1, <1>2, SenderAssumption
     DEF TypeOK, QueueType, FieldType, DelayedType, StarterType, BrokerType, Starters, Types

\* Steps that bring no thread nearer to creating another one.
LEMMA CalmKeepsSingle ==
    ASSUME SingleInv, Types,
           UNCHANGED <<reconnector, lpc, failures, delayedSender>>,
           \A d \in DelayedSenders : dpc[d] = "unborn" => dpc'[d] = "unborn",
           \A s \in Starters : Trying(s)' => Trying(s),
           \A r \in Reconnectors : spc[r] = "unborn" => spc'[r] = "unborn",
           \A r \in Reconnectors : spc'[r] \in StartPlaces => rrunning'[r],
           spc'[Agent] \in StartPlaces => spc[Agent] \in StartPlaces
    PROVE  SingleInv'
BY DEF SingleInv

LEMMA StartKeepsSingle ==
    ASSUME SingleInv, Types, NEW s \in Starters, start(s)
    PROVE  SingleInv'
<1> USE DEF Types
<1>1. UNCHANGED <<lpc, failures, rrunning>> /\ spc[s] \in StartPlaces
  BY DEF start, createConnection, createSession, createProducer, setRunning,
         startDelayedSender, setFailed, retryIfNobodyDoes, StartPlaces, brokerVars
<1>2. CASE \/ createConnection(s) \/ createSession(s) \/ createProducer(s)
           \/ setRunning(s) \/ setFailed(s)
  <2>1. /\ UNCHANGED <<reconnector, delayedSender, dpc>>
        /\ \E p \in StartPlaces \cup {"started", "restarted"} : spc' = [spc EXCEPT ![s] = p]
    BY <1>2 DEF createConnection, createSession, createProducer, setRunning,
                setFailed, returned, StartPlaces, fieldVars, delayedVars
  <2>2. /\ \A t \in Starters : Trying(t)' => Trying(t)
        /\ \A r \in Reconnectors : spc[r] = "unborn" => spc'[r] = "unborn"
        /\ spc'[Agent] \in StartPlaces => spc[Agent] \in StartPlaces
        /\ \A t \in Starters : spc'[t] \in StartPlaces => spc[t] \in StartPlaces
    BY <1>1, <2>1 DEF Trying, StartPlaces
  <2> QED BY <1>1, <2>1, <2>2 DEF SingleInv
<1>3. CASE startDelayedSender(s)
  <2>1. PICK d \in DelayedSenders :
           /\ dpc' = [dpc EXCEPT ![d] = "new"] /\ delayedSender' = d
           /\ spc' = [spc EXCEPT ![s] = returned(s)]
           /\ reconnector' = reconnector
    BY <1>3 DEF startDelayedSender
  <2>2. ASSUME failures = 0
        PROVE  /\ \A e \in DelayedSenders : dpc[e] = "unborn"
               /\ \A t \in Starters \ {s} : ~ Trying(t)
    BY <1>1, <2>2 DEF SingleInv, Trying, StartPlaces
  <2>3. /\ \A t \in Starters \ {s} : Trying(t)' => Trying(t)
        /\ ~ Trying(s)'
        /\ \A t \in Starters : spc'[t] \in StartPlaces => spc[t] \in StartPlaces
        /\ \A r \in Reconnectors : spc'[r] # "unborn" => spc[r] # "unborn"
    BY <1>1, <2>1 DEF Trying, StartPlaces, returned
  <2> QED BY <1>1, <2>1, <2>2, <2>3 DEF SingleInv
<1>4. CASE retryIfNobodyDoes(s)
  <2>1. /\ UNCHANGED <<delayedSender, dpc>>
    BY <1>4 DEF retryIfNobodyDoes, delayedVars
  <2>2. CASE spc' = [spc EXCEPT ![s] = returned(s)] /\ reconnector' = reconnector
    <3>1. /\ \A t \in Starters : Trying(t)' => Trying(t)
          /\ \A r \in Reconnectors : spc[r] = "unborn" => spc'[r] = "unborn"
          /\ \A t \in Starters : spc'[t] \in StartPlaces => spc[t] \in StartPlaces
      BY <1>1, <2>2 DEF Trying, StartPlaces, returned
    <3> QED BY <1>1, <2>1, <2>2, <3>1 DEF SingleInv
  <2>3. CASE /\ reconnector = null \/ ~ rrunning[reconnector]
             /\ startSenderReconnector([spc EXCEPT ![s] = returned(s)])
    <3>1. PICK r \in Reconnectors :
             /\ spc[r] = "unborn" /\ reconnector' = r
             /\ spc' = [[spc EXCEPT ![s] = returned(s)] EXCEPT ![r] = "new"]
      BY <2>3 DEF startSenderReconnector
    <3>2. CASE failures = 0
      <4>1. s \notin Reconnectors
        BY <1>1, <2>3, <3>2 DEF SingleInv, StartPlaces
      <4>2. s = Agent /\ reconnector = null
        BY <1>1, <3>2, <4>1 DEF SingleInv
      <4>3. \A q \in Reconnectors : spc[q] = "unborn"
        BY <3>2, <4>2 DEF SingleInv
      <4>4. \A e \in DelayedSenders : dpc[e] = "unborn"
        BY <1>1, <3>2 DEF SingleInv, Trying
      <4>5. /\ \A q \in Reconnectors \ {r} : spc'[q] = "unborn"
            /\ spc'[r] = "new" /\ spc'[Agent] = "started"
        BY <3>1, <4>2, <4>3 DEF returned
      <4> QED BY <1>1, <2>1, <3>1, <3>2, <4>4, <4>5 DEF SingleInv, StartPlaces
    <3> QED BY <1>1, <3>2 DEF SingleInv
  <2> QED BY <1>4, <2>2, <2>3 DEF retryIfNobodyDoes
<1> QED BY <1>2, <1>3, <1>4 DEF start

LEMMA ReconnectKeepsSingle ==
    ASSUME SingleInv, Types, NEW r \in Reconnectors, reconnect(r)
    PROVE  SingleInv'
<1> USE DEF Types
<1>1. UNCHANGED <<reconnector, lpc, failures, delayedSender, dpc>>
  BY DEF reconnect, fieldVars, brokerVars, delayedVars
<1>2. /\ \A s \in Starters \ {r} : spc'[s] = spc[s]
      /\ \A q \in Reconnectors \ {r} : rrunning'[q] = rrunning[q]
      /\ spc[r] # "unborn"
      /\ Trying(r)' => Trying(r)
      /\ spc'[r] \in StartPlaces => rrunning'[r]
  BY DEF reconnect, Trying, StartPlaces
<1>3. ASSUME NEW s \in Starters, Trying(s)' PROVE Trying(s)
  <2>1. CASE s = r
    BY <1>2, <1>3, <2>1
  <2>2. CASE s # r
    <3>1. spc'[s] = spc[s] /\ (s \in Reconnectors => rrunning'[s] = rrunning[s])
      BY <1>2, <2>2
    <3> QED BY <1>3, <3>1 DEF Trying
  <2> QED BY <2>1, <2>2
<1>4. ASSUME NEW q \in Reconnectors, spc[q] = "unborn" PROVE spc'[q] = "unborn"
  BY <1>2, <1>4
<1>5. spc'[Agent] \in StartPlaces => spc[Agent] \in StartPlaces
  BY <1>2
<1>6. CASE failures = 0
  BY <1>1, <1>2, <1>3, <1>4, <1>5, <1>6, CalmKeepsSingle DEF SingleInv
<1> QED BY <1>1, <1>6 DEF SingleInv

\* stop() and the broker; before a failure no listener is called.
LEMMA OthersKeepSingle ==
    ASSUME SingleInv, Types,
           \/ stopCapture \/ stop \/ brokerFails \/ brokerRecovers
           \/ \E k \in Connections : exceptionListener(k)
    PROVE  SingleInv'
<1> USE DEF Types
<1>1. CASE stopCapture \/ stop
  <2>1. UNCHANGED <<reconnector, lpc, failures, delayedSender, dpc, rrunning, spc>>
    BY <1>1 DEF stopCapture, stop, stopDelayedSender, testRunning, closeConnection,
                fieldVars, brokerVars, delayedVars
  <2> QED BY <2>1 DEF SingleInv, Trying
<1>2. CASE brokerFails
  <2>1. failures' = failures + 1
    BY <1>2 DEF brokerFails
  <2> QED BY <2>1 DEF SingleInv
<1>3. CASE brokerRecovers
  <2>1. UNCHANGED <<reconnector, lpc, failures, delayedSender, dpc, rrunning, spc>>
    BY <1>3 DEF brokerRecovers, fieldVars, delayedVars
  <2> QED BY <2>1 DEF SingleInv, Trying
<1>4. ASSUME NEW k \in Connections, exceptionListener(k)
      PROVE  SingleInv'
  BY <1>4 DEF exceptionListener, onException, SingleInv
<1> QED BY <1>1, <1>2, <1>3, <1>4

LEMMA NextKeepsSingle ==
    ASSUME SingleInv, TypeOK, [Next]_vars
    PROVE  SingleInv'
<1>1. Types
  BY TypesHold
<1>2. ASSUME UNCHANGED <<spc, rrunning, fieldVars, brokerVars>>,
             \A d \in DelayedSenders : dpc[d] = "unborn" => dpc'[d] = "unborn"
      PROVE  SingleInv'
  BY <1>1, <1>2 DEF SingleInv, Trying, fieldVars, brokerVars
<1>3. CASE sendSession \/ sendMessage \/ capture
  BY <1>2, <1>3 DEF sendSession, sendMessage, capture, countDiscarded, pollOldest,
                    addSession, captureSendNow, delayedVars
<1>4. ASSUME NEW d \in DelayedSenders, delayedRun(d) PROVE SingleInv'
  <2>1. /\ UNCHANGED <<spc, rrunning, fieldVars, brokerVars>>
        /\ \A e \in DelayedSenders \ {d} : dpc'[e] = dpc[e]
        /\ dpc[d] # "unborn"
    BY <1>1, <1>4 DEF delayedRun, delayedControl, peek, delayedSendNow, removeSent,
                      Body, Types
  <2> QED BY <1>2, <2>1
<1>5. CASE UNCHANGED vars
  BY <1>2, <1>5 DEF vars, delayedVars
<1> QED
  BY <1>1, <1>3, <1>4, <1>5, StartKeepsSingle, ReconnectKeepsSingle, OthersKeepSingle
     DEF Next

\* Steps of other threads, and of a DelayedSender that sends and removes nothing.
LEMMA CalmKeepsFresh ==
    ASSUME FreshInv, Types,
           UNCHANGED <<sessions, cpc, item, delivered, failures>>,
           \A d \in DelayedSenders :
               \/ dpc'[d] = dpc[d] /\ ditem'[d] = ditem[d]
               \/ /\ dpc[d] \notin Body.remove
                  /\ dpc'[d] \notin Body.send
                  /\ ditem'[d] = ditem[d] \/ ditem'[d] = null
    PROVE  FreshInv'
<1>1. CASE failures = 0
  <2>1. \A d \in DelayedSenders : ditem'[d] = ditem[d] \/ ditem'[d] = null
    OBVIOUS
  <2>2. item # null
    BY DEF Types
  <2>3. \A d \in DelayedSenders : dpc[d] \in Body.remove =>
            dpc'[d] = dpc[d] /\ ditem'[d] = ditem[d]
    OBVIOUS
  <2>4. \A d \in DelayedSenders : dpc'[d] \in Body.send =>
            dpc'[d] = dpc[d] /\ ditem'[d] = ditem[d]
    OBVIOUS
  <2> QED BY <1>1, <2>1, <2>2, <2>3, <2>4 DEF FreshInv
<1> QED BY <1>1 DEF FreshInv

\* An item is new when send() gets it, and stays out of the others' reach until
\* the capture thread queued it.
LEMMA CaptureKeepsFresh ==
    ASSUME FreshInv, Types, CaptureInv, sendSession \/ sendMessage \/ capture
    PROVE  FreshInv'
<1> USE DEF Types
<1>1. UNCHANGED <<dpc, ditem, failures>>
  BY DEF sendSession, sendMessage, capture, countDiscarded, pollOldest, addSession,
         captureSendNow, delayedVars, brokerVars
<1> SUFFICES ASSUME failures = 0 PROVE FreshInv'
  BY <1>1 DEF FreshInv
<1>2. CASE sendSession \/ sendMessage
  <2>1. /\ item' = item + 1 /\ item < MaxItems /\ cpc = "idle"
        /\ UNCHANGED <<sessions, delivered>>
    BY <1>2 DEF sendSession, sendMessage, queueVars
  <2>2. item' \in 1..MaxItems /\ item' > item /\ item' # null
    BY <2>1
  <2>3. item' \notin accepted
    BY <2>2
  <2>4. \A d \in DelayedSenders : ditem[d] # item'
    BY <2>2, <2>3
  <2> QED BY <1>1, <2>1, <2>2, <2>3, <2>4 DEF FreshInv
<1>3. CASE countDiscarded
  BY <1>1, <1>3 DEF countDiscarded, FreshInv
<1>4. CASE pollOldest
  <2>1. sessions' \subseteq sessions /\ cpc # "idle" /\ UNCHANGED <<item, delivered>>
    BY <1>4 DEF pollOldest
  <2> QED BY <1>1, <2>1 DEF FreshInv
<1>5. CASE addSession
  <2>1. /\ sessions' = sessions \cup {item} /\ cpc # "idle" /\ cpc' = "idle"
        /\ UNCHANGED <<item, delivered>>
    BY <1>5 DEF addSession
  <2> QED BY <1>1, <2>1 DEF FreshInv
<1>6. CASE captureSendNow
  <2>1. /\ cpc # "idle" /\ cpc' = "idle" /\ UNCHANGED <<item, sessions>>
        /\ delivered' = delivered \/ deliver(item)
    BY <1>6 DEF captureSendNow, queueVars
  <2>2. item \in 1..MaxItems /\ item # null
    BY <2>1 DEF CaptureInv
  <2>3. CASE delivered' = delivered
    BY <1>1, <2>1, <2>3 DEF FreshInv
  <2>4. CASE delivered' = [delivered EXCEPT ![item] = @ + 1]
    <3>1. delivered[item] = 0 /\ delivered'[item] = 1
      BY <2>1, <2>2, <2>4 DEF FreshInv
    <3>2. \A i \in 1..MaxItems : i # item => delivered'[i] = delivered[i]
      BY <2>2, <2>4
    <3>3. \A i \in sessions : i # item /\ i \in 1..MaxItems
      BY <2>1 DEF FreshInv
    <3>4. \A d \in DelayedSenders : ditem[d] # null =>
              ditem[d] # item /\ ditem[d] \in 1..MaxItems
      BY <2>1 DEF FreshInv
    <3>5. \A i \in 1..MaxItems : delivered'[i] <= 1
      BY <3>1, <3>2 DEF FreshInv
    <3>6. \A i \in 1..MaxItems : i > item => delivered'[i] = 0
      BY <3>2 DEF FreshInv
    <3>7. \A i \in sessions :
              \/ delivered'[i] = 0
              \/ \E d \in DelayedSenders : dpc[d] \in Body.remove /\ ditem[d] = i
      BY <3>2, <3>3 DEF FreshInv
    <3>8. \A d \in DelayedSenders :
              dpc[d] \in Body.send /\ ditem[d] # null => delivered'[ditem[d]] = 0
      BY <3>2, <3>4 DEF FreshInv
    <3> QED BY <1>1, <2>1, <3>5, <3>6, <3>7, <3>8 DEF FreshInv
  <2> QED BY <2>1, <2>2, <2>3, <2>4 DEF deliver
<1> QED BY <1>2, <1>3, <1>4, <1>5, <1>6 DEF capture

\* The only DelayedSender peeks what it did not send, sends it once and removes
\* it before it peeks again.
LEMMA DelayedKeepsFresh ==
    ASSUME FreshInv, SingleInv, Types, NEW d \in DelayedSenders, delayedRun(d)
    PROVE  FreshInv'
<1> USE DEF Types
<1>1. /\ UNCHANGED <<cpc, item, failures>>
      /\ \A e \in DelayedSenders \ {d} : dpc'[e] = dpc[e] /\ ditem'[e] = ditem[e]
  BY DEF delayedRun, delayedControl, peek, delayedSendNow, removeSent, captureVars,
         brokerVars
<1> SUFFICES ASSUME failures = 0 PROVE FreshInv'
  BY <1>1 DEF FreshInv
<1>2. dpc[d] # "unborn"
  BY DEF delayedRun, delayedControl, peek, delayedSendNow, removeSent, Body
<1>3. \A e \in DelayedSenders \ {d} : dpc[e] \notin Body.remove \cup Body.send
  BY <1>2 DEF SingleInv, Body
<1>4. CASE delayedControl(d)
  <2>1. /\ UNCHANGED <<sessions, delivered, ditem>>
        /\ dpc[d] \notin Body.remove /\ dpc'[d] \notin Body.send
    BY <1>4 DEF delayedControl, queueVars, Body
  <2> QED BY <1>1, <2>1, CalmKeepsFresh
<1>5. CASE peek(d)
  <2>1. /\ UNCHANGED <<sessions, delivered>> /\ dpc[d] \notin Body.remove
        /\ ditem'[d] = IF sessions = {} THEN null ELSE Min(sessions)
        /\ dpc'[d] \notin Body.remove
    BY <1>5 DEF peek, queueVars, Body, sameLoop
  <2>2. sessions # {} => Min(sessions) \in sessions
    <3>1. sessions \in SUBSET Nat
      OBVIOUS
    <3> QED BY <3>1, HeadInQueue
  <2>3. \A i \in sessions : delivered[i] = 0
    BY <1>3, <2>1 DEF FreshInv
  <2>4. ditem'[d] # null => ditem'[d] \in sessions
    BY <2>1, <2>2
  <2>5. cpc # "idle" => ditem'[d] # item
    BY <2>1, <2>4 DEF FreshInv
  <2> QED BY <1>1, <1>3, <2>1, <2>3, <2>4, <2>5 DEF FreshInv
<1>6. CASE delayedSendNow(d)
  <2>1. dpc[d] \in Body.send /\ UNCHANGED sessions
    BY <1>6 DEF delayedSendNow, queueVars
  <2>2. dpc[d] \notin Body.remove
    BY <2>1 DEF Body
  <2>3. CASE ditem'[d] = null /\ delivered' = delivered /\ dpc'[d] = "loop"
    BY <1>1, <2>1, <2>2, <2>3, CalmKeepsFresh DEF Body
  <2>4. CASE ditem' = ditem /\ deliver(ditem[d]) /\ dpc'[d] \in Body.remove
    <3>1. CASE ditem[d] = null
      <4>1. dpc'[d] \notin Body.send /\ delivered' = delivered
        BY <2>4, <3>1 DEF Body, deliver
      <4> QED BY <1>1, <2>1, <2>2, <2>4, <4>1, CalmKeepsFresh
    <3>2. CASE ditem[d] # null
      <4> DEFINE x == ditem[d]
      <4>1. x \in 1..MaxItems /\ delivered[x] = 0 /\ x \in accepted
        BY <2>1, <3>2 DEF FreshInv
      <4>2. delivered' = [delivered EXCEPT ![x] = @ + 1]
        BY <2>4, <3>2 DEF deliver
      <4>3. delivered'[x] = 1
        BY <4>1, <4>2
      <4>4. \A i \in 1..MaxItems : i # x => delivered'[i] = delivered[i]
        BY <4>1, <4>2
      <4> HIDE DEF x
      <4>5. \A i \in 1..MaxItems : delivered'[i] <= 1
        BY <4>3, <4>4 DEF FreshInv
      <4>6. \A i \in 1..MaxItems : i > item => delivered'[i] = 0
        BY <4>1, <4>4 DEF FreshInv
      <4>7. cpc # "idle" => delivered'[item] = delivered[item]
        BY <4>2 DEF FreshInv, x
      <4>8. dpc'[d] \notin Body.send
        BY <2>4 DEF Body
      <4>9. \A i \in sessions : i \in 1..MaxItems
        OBVIOUS
      <4>10. \A i \in sessions :
                \/ delivered'[i] = 0
                \/ \E e \in DelayedSenders : dpc'[e] \in Body.remove /\ ditem'[e] = i
        <5> SUFFICES ASSUME NEW i \in sessions, i # x PROVE delivered'[i] = 0
          BY <2>4 DEF x
        <5>1. delivered[i] = 0
          BY <1>3, <2>2 DEF FreshInv
        <5> QED BY <4>4, <4>9, <5>1
      <4>11. \A e \in DelayedSenders : dpc'[e] \notin Body.send
        BY <1>1, <1>3, <4>8
      <4> QED BY <1>1, <2>1, <2>4, <4>5, <4>6, <4>7, <4>10, <4>11 DEF FreshInv
    <3> QED BY <3>1, <3>2
  <2> QED BY <1>6, <2>3, <2>4 DEF delayedSendNow, Body, sameLoop
<1>7. CASE removeSent(d)
  <2>1. /\ delivered' = delivered /\ sessions' = sessions \ {ditem[d]}
        /\ ditem'[d] = null /\ dpc'[d] \notin Body.send
    BY <1>7 DEF removeSent, sameLoop, Body
  <2>2. \A i \in sessions' : delivered[i] = 0
    BY <1>3, <2>1 DEF FreshInv
  <2>3. \A e \in DelayedSenders : ditem'[e] = ditem[e] \/ ditem'[e] = null
    BY <1>1, <2>1
  <2>4. \A e \in DelayedSenders : dpc'[e] \notin Body.send
    BY <1>1, <1>3, <2>1
  <2>5. item # null
    OBVIOUS
  <2> QED BY <1>1, <2>1, <2>2, <2>3, <2>4, <2>5 DEF FreshInv
<1> QED BY <1>4, <1>5, <1>6, <1>7 DEF delayedRun

LEMMA NextKeepsFresh ==
    ASSUME IInv, SingleInv, FreshInv, [Next]_vars
    PROVE  FreshInv'
<1>1. Types /\ CaptureInv
  BY TypesHold DEF IInv
<1>2. ASSUME UNCHANGED <<sessions, cpc, item, delivered, failures, ditem>>,
             \A d \in DelayedSenders :
                 dpc'[d] # dpc[d] => dpc[d] = "unborn" /\ dpc'[d] = "new"
      PROVE  FreshInv'
  BY <1>1, <1>2, CalmKeepsFresh DEF Body
<1>3. ASSUME NEW s \in Starters, start(s) PROVE FreshInv'
  <2>1. /\ UNCHANGED <<sessions, cpc, item, delivered, failures, ditem>>
        /\ \/ dpc' = dpc
           \/ \E d \in DelayedSenders : dpc[d] = "unborn" /\ dpc' = [dpc EXCEPT ![d] = "new"]
    BY <1>3 DEF start, createConnection, createSession, createProducer, setRunning,
                startDelayedSender, setFailed, retryIfNobodyDoes, queueVars,
                captureVars, delayedVars, brokerVars
  <2> QED BY <1>1, <1>2, <2>1 DEF Types
<1>4. ASSUME NEW r \in Reconnectors, reconnect(r) PROVE FreshInv'
  BY <1>2, <1>4 DEF reconnect, queueVars, captureVars, delayedVars, brokerVars
<1>5. ASSUME NEW k \in Connections, exceptionListener(k) PROVE FreshInv'
  <2>1. UNCHANGED <<sessions, cpc, item, delivered, failures, ditem, dpc>>
    BY <1>5 DEF exceptionListener, onException, queueVars, captureVars, delayedVars
  <2> QED BY <1>2, <2>1
<1>6. CASE stopCapture \/ stop \/ brokerRecovers
  <2>1. UNCHANGED <<sessions, cpc, item, delivered, failures, ditem, dpc>>
    BY <1>6 DEF stopCapture, stop, stopDelayedSender, testRunning, closeConnection,
                brokerRecovers, queueVars, captureVars, delayedVars, brokerVars
  <2> QED BY <1>2, <2>1
<1>7. CASE brokerFails
  <2>1. failures' = failures + 1
    BY <1>7 DEF brokerFails
  <2> QED BY <1>1, <2>1 DEF FreshInv, Types
<1>8. CASE UNCHANGED vars
  BY <1>2, <1>8 DEF vars, queueVars, captureVars, delayedVars, brokerVars
<1> QED
  BY <1>1, <1>3, <1>4, <1>5, <1>6, <1>7, <1>8, CaptureKeepsFresh, DelayedKeepsFresh
     DEF Next

LEMMA AlwaysFresh == Spec => [](SingleInv /\ FreshInv)
<1>1. Init => SingleInv
  BY SenderAssumption DEF Init, SingleInv, Starters, StartPlaces
<1>2. ASSUME Init PROVE FreshInv
  <2>1. /\ cpc = "idle" /\ sessions = {}
        /\ \A i \in 1..MaxItems : delivered[i] = 0
        /\ \A d \in DelayedSenders : ditem[d] = null
    BY <1>2 DEF Init
  <2> QED BY <2>1 DEF FreshInv
<1>3. IInv /\ SingleInv /\ [Next]_vars => SingleInv'
  BY NextKeepsSingle DEF IInv
<1>4. IInv /\ SingleInv /\ FreshInv /\ [Next]_vars => FreshInv'
  BY NextKeepsFresh
<1> QED BY <1>1, <1>2, <1>3, <1>4, AlwaysIInv, PTL DEF Spec

\* Until the broker fails for the first time it gets nothing twice.
THEOREM NothingSentTwice == Spec => []NoDuplicateWithoutFailure
<1>1. FreshInv => NoDuplicateWithoutFailure
  BY DEF FreshInv, NoDuplicateWithoutFailure
<1> QED BY <1>1, AlwaysFresh, PTL

-----------------------------------------------------------------------------
(* After stop() nothing is sent *)

\* The agent's thread made the sender RUNNING.
RanPlaces == {"delay", "started"}

\* Until a reconnector is started there is one connection, the agent's.  A state
\* that is not RUNNING once start() set it, or a field that onException cleared
\* under stop(), means that this connection died; so a stop() that comes after
\* leaves no connection that works.
SilentInv ==
    reconnector = null =>
        /\ \A r \in Reconnectors : spc[r] = "unborn"
        /\ \A k \in Connections :
              /\ conn[k] # "unborn" => k = connection /\ spc[Agent] # "connect"
              /\ lpc[k] # "none" => conn[k] \in {"dead", "closed"}
        /\ spc[Agent] \in {"session", "produce", "run"} \cup RanPlaces =>
              connection # null
        /\ spc[Agent] \in RanPlaces => isRunning \/ conn[connection] # "alive"
        /\ isRunning => spc[Agent] \in RanPlaces
        /\ delayedSender # null => spc[Agent] = "started"
        /\ stopc = "delayedCall" =>
              /\ spc[Agent] = "started"
              /\ delayedSender # null \/ conn[connection] # "alive"
        /\ stopc = "close" => spc[Agent] \in RanPlaces
        /\ Stopped => spc[Agent] \in RanPlaces /\ conn[connection] # "alive"

LEMMA StartKeepsSilent ==
    ASSUME SilentInv, TypeOK, NEW s \in Starters, start(s)
    PROVE  SilentInv'
<1>1. /\ spc \in [Starters -> StarterPlaces] /\ Agent \in Starters
      /\ conn \in [Connections -> {"unborn", "alive", "dead", "closed"}]
      /\ connection \in Connections \cup {null} /\ null \notin Connections
      /\ Agent \notin Reconnectors /\ Reconnectors \subseteq Starters
      /\ Starters = {Agent} \cup Reconnectors /\ null \notin Reconnectors
  BY SenderAssumption DEF TypeOK, StarterType, BrokerType, FieldType, Starters
<1>2. /\ UNCHANGED <<lpc, stopc>> /\ (reconnector' = null => reconnector = null)
      /\ spc[s] \in {"connect", "session", "produce", "run", "delay", "fail", "respawn"}
  BY <1>1 DEF start, createConnection, createSession, createProducer, setRunning,
              startDelayedSender, setFailed, retryIfNobodyDoes, startSenderReconnector,
              brokerVars, fieldVars
<1> SUFFICES ASSUME reconnector = null, reconnector' = null PROVE SilentInv'
  BY <1>2 DEF SilentInv
<1>3. s = Agent
  BY <1>1, <1>2 DEF SilentInv
<1>4. \A p : spc' = [spc EXCEPT ![Agent] = p] =>
          spc'[Agent] = p /\ \A r \in Reconnectors : spc'[r] = "unborn"
  BY <1>1 DEF SilentInv
<1>5. CASE createConnection(Agent)
  <2>1. UNCHANGED <<state, delayedSender>> /\ spc[Agent] = "connect"
    BY <1>5 DEF createConnection
  <2>2. \A k \in Connections : conn[k] = "unborn"
    BY <2>1 DEF SilentInv
  <2>3. CASE \E k \in Connections : /\ conn' = [conn EXCEPT ![k] = "alive"]
                                    /\ connection' = k
                                    /\ spc' = [spc EXCEPT ![Agent] = "session"]
    BY <1>1, <1>2, <1>4, <2>1, <2>2, <2>3
       DEF SilentInv, RanPlaces, isRunning, Stopped
  <2>4. CASE spc' = [spc EXCEPT ![Agent] = "fail"] /\ UNCHANGED <<conn, connection>>
    BY <1>1, <1>2, <1>4, <2>1, <2>2, <2>4
       DEF SilentInv, RanPlaces, isRunning, Stopped
  <2> QED BY <1>5, <2>3, <2>4 DEF createConnection
<1>6. CASE createSession(Agent) \/ createProducer(Agent) \/ setFailed(Agent)
  <2>1. /\ UNCHANGED <<connection, conn, delayedSender>>
        /\ state' = state \/ state' = "FAILED"
        /\ spc[Agent] \in {"session", "produce", "fail"}
        /\ \E p \in {"produce", "run", "fail", "respawn"} :
              /\ spc' = [spc EXCEPT ![Agent] = p]
              /\ p \in {"produce", "run"} => spc[Agent] # "fail"
    BY <1>6 DEF createSession, createProducer, setFailed, fieldVars, brokerVars
  <2> QED BY <1>1, <1>2, <1>4, <2>1 DEF SilentInv, RanPlaces, isRunning, Stopped
<1>7. CASE setRunning(Agent)
  <2>1. /\ UNCHANGED <<connection, conn, delayedSender>> /\ spc[Agent] = "run"
        /\ state' = "RUNNING"
        /\ \E p \in RanPlaces : spc' = [spc EXCEPT ![Agent] = p]
    BY <1>7 DEF setRunning, fieldVars, brokerVars, returned, RanPlaces
  <2> QED BY <1>1, <1>2, <1>4, <2>1 DEF SilentInv, RanPlaces, isRunning, Stopped
<1>8. CASE startDelayedSender(Agent)
  <2>1. /\ UNCHANGED <<connection, conn, state>> /\ spc[Agent] = "delay"
        /\ spc' = [spc EXCEPT ![Agent] = "started"]
    BY <1>8 DEF startDelayedSender, brokerVars, returned
  <2> QED BY <1>1, <1>2, <1>4, <2>1 DEF SilentInv, RanPlaces, isRunning, Stopped
<1>9. ~ retryIfNobodyDoes(Agent)
  BY <1>1 DEF retryIfNobodyDoes, startSenderReconnector
<1> QED BY <1>3, <1>5, <1>6, <1>7, <1>8, <1>9 DEF start

\* onException fails a RUNNING sender, and clears a field under stop(), only
\* when its connection died.
LEMMA ListenerKeepsSilent ==
    ASSUME SilentInv, TypeOK, NEW k \in Connections, exceptionListener(k)
    PROVE  SilentInv'
<1>1. /\ lpc \in [Connections -> ListenerPlaces] /\ null \notin Reconnectors
  BY SenderAssumption DEF TypeOK, BrokerType
<1>2. /\ UNCHANGED <<connection, conn, stopc>>
      /\ state' = state \/ state' = "FAILED"
      /\ delayedSender' = delayedSender \/ delayedSender' = null
      /\ reconnector' = null => reconnector = null /\ spc' = spc
      /\ lpc[k] # "none" /\ lpc' \in [Connections -> ListenerPlaces]
      /\ \A q \in Connections \ {k} : lpc'[q] = lpc[q]
  BY <1>1 DEF exceptionListener, onException, startSenderReconnector, fieldVars,
              ListenerPlaces
<1> SUFFICES ASSUME reconnector = null, reconnector' = null, spc' = spc PROVE SilentInv'
  BY <1>2 DEF SilentInv
<1>3. conn[k] \in {"dead", "closed"} /\ connection = k
  BY <1>2 DEF SilentInv
<1> QED BY <1>2, <1>3 DEF SilentInv, isRunning, Stopped

LEMMA OthersKeepSilent ==
    ASSUME SilentInv, TypeOK,
           \/ stopCapture \/ stop \/ brokerFails \/ brokerRecovers
           \/ \E r \in Reconnectors : reconnect(r)
    PROVE  SilentInv'
<1>1. /\ conn \in [Connections -> {"unborn", "alive", "dead", "closed"}]
      /\ lpc \in [Connections -> ListenerPlaces]
      /\ connection \in Connections \cup {null} /\ null \notin Connections
  BY SenderAssumption DEF TypeOK, BrokerType, FieldType
<1>2. reconnector' = reconnector
  BY DEF stopCapture, stop, stopDelayedSender, testRunning, closeConnection,
         brokerFails, brokerRecovers, reconnect, fieldVars
<1> SUFFICES ASSUME reconnector = null PROVE SilentInv'
  BY <1>2 DEF SilentInv
<1>3. CASE stopCapture
  <2>1. /\ UNCHANGED <<connection, delayedSender, conn, lpc, state, spc>>
        /\ stopc' = "delayed"
    BY <1>3 DEF stopCapture, fieldVars, brokerVars
  <2> QED BY <2>1 DEF SilentInv, isRunning, Stopped
<1>4. CASE stopDelayedSender
  <2>1. /\ UNCHANGED <<connection, delayedSender, conn, lpc, state, spc>>
        /\ \/ stopc' = "test"
           \/ stopc' = "delayedCall" /\ delayedSender # null
           \/ stopc = "delayedCall" /\ delayedSender = null /\ stopc' = "thrown"
    BY <1>4 DEF stopDelayedSender, fieldVars, brokerVars
  <2> QED BY <2>1 DEF SilentInv, isRunning, Stopped, RanPlaces
<1>5. CASE testRunning
  <2>1. /\ UNCHANGED <<connection, delayedSender, conn, lpc, state, spc>>
        /\ \/ stopc' = "close" /\ isRunning
           \/ stopc' = "skipped" /\ ~ isRunning /\ spc[Agent] = "started"
           \/ stopc' = "tooEarly"
    BY <1>5 DEF testRunning, fieldVars, brokerVars
  <2> QED BY <2>1 DEF SilentInv, isRunning, Stopped, RanPlaces
<1>6. CASE closeConnection
  <2>1. /\ UNCHANGED <<connection, delayedSender, lpc, state, spc>>
        /\ stopc = "close" /\ stopc' = "closed"
        /\ conn' = [conn EXCEPT ![connection] = "closed"]
    BY <1>6 DEF closeConnection, fieldVars
  <2>2. connection \in Connections /\ spc[Agent] \in RanPlaces
    BY <1>1, <2>1 DEF SilentInv
  <2>3. \A k \in Connections :
            conn'[k] = IF k = connection THEN "closed" ELSE conn[k]
    BY <1>1, <2>1, <2>2
  <2>4. \A k \in Connections :
            /\ conn'[k] # "unborn" => k = connection /\ spc[Agent] # "connect"
            /\ lpc[k] # "none" => conn'[k] \in {"dead", "closed"}
    BY <2>2, <2>3 DEF SilentInv, RanPlaces
  <2> QED BY <1>1, <1>2, <2>1, <2>2, <2>3, <2>4 DEF SilentInv, isRunning, Stopped
<1>7. CASE brokerFails
  <2>1. /\ UNCHANGED <<connection, delayedSender, spc, stopc, state>>
        /\ conn' = [k \in Connections |-> IF conn[k] = "alive" THEN "dead" ELSE conn[k]]
        /\ lpc' = [k \in Connections |-> IF conn[k] = "alive" THEN "notified" ELSE lpc[k]]
    BY <1>7 DEF brokerFails, fieldVars
  <2>2. \A k \in Connections :
            /\ conn'[k] # "alive"
            /\ conn'[k] # "unborn" => conn[k] # "unborn"
            /\ lpc'[k] # "none" => conn[k] = "alive" \/ lpc[k] # "none"
            /\ conn[k] \in {"alive", "dead"} => conn'[k] = "dead"
            /\ conn[k] = "closed" => conn'[k] = "closed"
    BY <1>1, <2>1
  <2>3. \A k \in Connections :
            /\ conn'[k] # "unborn" => k = connection /\ spc[Agent] # "connect"
            /\ lpc'[k] # "none" => conn'[k] \in {"dead", "closed"}
    BY <2>2 DEF SilentInv
  <2>4. spc[Agent] \in RanPlaces => conn'[connection] # "alive"
    BY <1>1, <2>2 DEF SilentInv, RanPlaces
  <2> QED BY <1>2, <2>1, <2>3, <2>4 DEF SilentInv, RanPlaces, isRunning, Stopped
<1>8. CASE brokerRecovers
  BY <1>8 DEF brokerRecovers, fieldVars, SilentInv, isRunning, Stopped
<1>9. ~ \E r \in Reconnectors : reconnect(r)
  BY DEF reconnect, SilentInv
<1> QED BY <1>3, <1>4, <1>5, <1>6, <1>7, <1>8, <1>9 DEF stop

LEMMA NextKeepsSilent ==
    ASSUME TypeOK, SilentInv, [Next]_vars
    PROVE  SilentInv'
<1>1. ASSUME UNCHANGED <<state, spc, stopc, fieldVars, brokerVars>> PROVE SilentInv'
  BY <1>1 DEF SilentInv, isRunning, Stopped, fieldVars, brokerVars
<1>2. CASE sendSession \/ sendMessage \/ capture
  BY <1>1, <1>2 DEF sendSession, sendMessage, capture, countDiscarded, pollOldest,
                    addSession, captureSendNow
<1>3. ASSUME NEW d \in DelayedSenders, delayedRun(d) PROVE SilentInv'
  BY <1>1, <1>3 DEF delayedRun, delayedControl, peek, delayedSendNow, removeSent
<1>4. CASE UNCHANGED vars
  BY <1>1, <1>4 DEF vars
<1> QED
  BY <1>2, <1>3, <1>4, StartKeepsSilent, ListenerKeepsSilent, OthersKeepSilent DEF Next

\* Only a sending thread gives something to the broker, and its producer must
\* work.
LEMMA DeliversIfCanSend ==
    ASSUME [Next]_vars, ~ canSend
    PROVE  delivered' = delivered
<1>1. ASSUME NEW s \in Starters, start(s) PROVE delivered' = delivered
  BY <1>1 DEF start, createConnection, createSession, createProducer, setRunning,
              startDelayedSender, setFailed, retryIfNobodyDoes
<1>2. CASE sendSession \/ sendMessage \/ capture
  BY <1>2 DEF sendSession, sendMessage, capture, countDiscarded, pollOldest,
              addSession, captureSendNow
<1>3. ASSUME NEW d \in DelayedSenders, delayedRun(d) PROVE delivered' = delivered
  BY <1>3 DEF delayedRun, delayedControl, peek, delayedSendNow, removeSent
<1>4. CASE stopCapture \/ stop \/ brokerFails \/ brokerRecovers
  BY <1>4 DEF stopCapture, stop, stopDelayedSender, testRunning, closeConnection,
              brokerFails, brokerRecovers
<1> QED BY <1>1, <1>2, <1>3, <1>4 DEF Next, reconnect, exceptionListener, vars

\* Once stop() has closed the connection, or found a sender that start() had left
\* with a connection that no longer works, the broker gets nothing until a
\* reconnector is started, whichever thread was in the middle of sending.  stop()
\* may begin and run at any moment of start().
THEOREM SilenceAfterStop == Spec => SilentAfterStop
<1>1. ASSUME Init PROVE SilentInv
  <2>1. /\ \A r \in Reconnectors : spc[r] = "unborn" /\ r # Agent
        /\ \A k \in Connections : conn[k] = "unborn" /\ lpc[k] = "none"
        /\ spc[Agent] = "connect" /\ state = "STOPED" /\ stopc = "none"
        /\ delayedSender = null
    BY <1>1, SenderAssumption DEF Init, Starters
  <2> QED BY <2>1 DEF SilentInv, RanPlaces, isRunning, Stopped
<1>2. IInv => TypeOK
  BY DEF IInv
<1>3. TypeOK /\ SilentInv /\ [Next]_vars => SilentInv'
  BY NextKeepsSilent
<1>4. ASSUME TypeOK, SilentInv, [Next]_vars, Stopped, reconnector = null
      PROVE  delivered' = delivered
  <2>1. ~ canSend
    BY <1>4 DEF SilentInv, canSend, TypeOK, FieldType
  <2> QED BY <1>4, <2>1, DeliversIfCanSend
<1>5. TypeOK /\ SilentInv /\ [Next]_vars =>
          [Stopped /\ reconnector = null => delivered' = delivered]_vars
  BY <1>4
<1> QED BY <1>1, <1>2, <1>3, <1>5, AlwaysIInv, PTL DEF Spec, SilentAfterStop
=============================================================================
