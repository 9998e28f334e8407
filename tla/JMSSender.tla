------------------------------ MODULE JMSSender ------------------------------
(***************************************************************************)
(* The agent's JMSSender and the threads that share it:                    *)
(*   - the capture thread calls send(SIPSession) and send(SIPMessage);     *)
(*   - the agent's thread calls start();                                   *)
(*   - the thread that shuts the agent down calls stop(), at any moment,   *)
(*     also before start() has returned;                                   *)
(*   - every start() in delayed mode creates a DelayedSender thread, which *)
(*     drains the queue into the JMS producer;                             *)
(*   - a failed start() or a failed connection creates a SenderReconnector *)
(*     thread, which calls start() once more;                              *)
(*   - the JMS provider calls onException on a thread of its own.          *)
(* No lock orders these threads, so a step is what one thread does between *)
(* two accesses to shared state that another thread could see.             *)
(*                                                                         *)
(* Sessions and messages are numbered in the order send() is called.  Only *)
(* the capture thread adds to the queues, so a ConcurrentLinkedQueue is    *)
(* the set of the numbers in it and its head is the smallest one.          *)
(***************************************************************************)
EXTENDS Naturals, FiniteSets, FiniteSetsExt

CONSTANTS
    SenderModes,     \* the configured modes to consider: TRUE is "delayed"
    BufferSize,      \* sender.buffer.size
    DelayedSenders,  \* identities of DelayedSender objects (bound)
    Reconnectors,    \* identities of SenderReconnector objects (bound)
    Connections,     \* identities of JMS connections (bound)
    Agent,           \* the agent's thread
    null,
    MaxItems,        \* bound: number of calls of send
    MaxFailures,     \* bound: number of failures of the JMS broker
    CanStop          \* whether the agent may be stopped

ASSUME SenderAssumption ==
    /\ SenderModes \subseteq BOOLEAN
    /\ CanStop \in BOOLEAN
    /\ BufferSize \in Nat
    /\ MaxItems \in Nat
    /\ MaxFailures \in Nat
    /\ Agent \notin Reconnectors
    /\ null \notin DelayedSenders \cup Reconnectors \cup Connections
    /\ null \notin Nat

VARIABLES
    isDelayed,          \* sender.mode is "delayed"; read once
    state,              \* the sender's state
    sessions,           \* queue of sessions waiting to be sent
    messages,           \* queue of standalone messages waiting to be sent
    discardedSessions,  \* counter of discarded sessions
    connection,         \* the connection of the last start()
    session, producer,  \* the connections that these two fields belong to
    delayedSender,      \* the DelayedSender of the last start()
    reconnector,        \* the last SenderReconnector
    dpc, drunning, ditem,  \* DelayedSender threads: place, running, peeked session
    spc,                \* threads that call start(): place
    rrunning,           \* SenderReconnector.running
    stopc,              \* the thread that calls stop(): place
    cpc, item,          \* capture thread: place, number of calls of send
    capturing,          \* the capture thread still reads packets
    accepted,           \* numbers given to send(SIPSession)
    polled,             \* numbers removed by the overflow branch
    delivered,          \* number of copies the broker got
    broker,             \* the broker can be reached
    conn, lpc,          \* JMS connections: status, place of its onException call
    failures            \* number of times the broker went away so far

queueVars == <<sessions, messages, discardedSessions, polled>>
delayedVars == <<dpc, drunning, ditem>>
captureVars == <<cpc, item, capturing, accepted>>
fieldVars == <<connection, session, producer, delayedSender, reconnector>>
brokerVars == <<broker, conn, lpc, failures>>
vars == <<isDelayed, state, queueVars, delayedVars, captureVars, fieldVars,
          brokerVars, spc, rrunning, stopc, delivered>>

Starters == {Agent} \cup Reconnectors

\* The next object that new creates, f telling which ones were created.  Only
\* that it is a new one matters, not which.
fresh(f) == CHOOSE x \in DOMAIN f : f[x] = "unborn"

-----------------------------------------------------------------------------
(* The agent is about to call start(), in SipanaAgent.start; the broker may *)
(* be away, which the first call of start() then finds out.                 *)

Init ==
    /\ isDelayed \in SenderModes
    /\ state = "STOPED"
    /\ sessions = {} /\ messages = {} /\ discardedSessions = 0
    /\ connection = null /\ session = null /\ producer = null
    /\ delayedSender = null /\ reconnector = null
    /\ dpc = [d \in DelayedSenders |-> "unborn"]
    /\ drunning = [d \in DelayedSenders |-> FALSE]
    /\ ditem = [d \in DelayedSenders |-> null]
    /\ spc = [s \in Starters |-> IF s = Agent THEN "connect" ELSE "unborn"]
    /\ rrunning = [r \in Reconnectors |-> FALSE]
    /\ stopc = "none"
    /\ cpc = "idle" /\ item = 0 /\ capturing = TRUE
    /\ accepted = {} /\ polled = {}
    /\ delivered = [i \in 1..MaxItems |-> 0]
    /\ broker \in BOOLEAN
    /\ conn = [k \in Connections |-> "unborn"]
    /\ lpc = [k \in Connections |-> "none"]
    /\ failures = 0

-----------------------------------------------------------------------------
(* The capture thread *)

isRunning == state = "RUNNING"

\* Mutant: off by one.
isBufferOverflowed_late ==
    Cardinality(sessions) + Cardinality(messages) > BufferSize + 1

isBufferOverflowed == Cardinality(sessions) + Cardinality(messages) > BufferSize

\* send(SIPSession), up to the access that follows its test.
sendSession ==
    /\ cpc = "idle" /\ capturing /\ item < MaxItems
    /\ item' = item + 1
    /\ accepted' = accepted \cup {item'}
    /\ cpc' = IF isDelayed THEN IF isBufferOverflowed THEN "count" ELSE "add"
              ELSE IF isRunning THEN "sendNow" ELSE "idle"
    /\ UNCHANGED <<isDelayed, state, queueVars, delayedVars, fieldVars,
                   brokerVars, capturing, spc, rrunning, stopc, delivered>>

\* Mutant: the counter is forgotten.
countDiscarded_not ==
    /\ cpc = "count"
    /\ cpc' = "poll"
    /\ UNCHANGED <<isDelayed, state, queueVars, delayedVars, fieldVars,
                   brokerVars, item, capturing, accepted, spc, rrunning, stopc,
                   delivered>>

\* discardedSessions.incrementAndGet()
countDiscarded ==
    /\ cpc = "count"
    /\ discardedSessions' = discardedSessions + 1
    /\ cpc' = "poll"
    /\ UNCHANGED <<isDelayed, state, sessions, messages, polled, delayedVars,
                   fieldVars, brokerVars, item, capturing, accepted, spc,
                   rrunning, stopc, delivered>>

\* Mutant: the other queue is polled.
pollOldest_messages ==
    /\ cpc = "poll"
    /\ LET oldest == IF messages = {} THEN {} ELSE {Min(messages)}
       IN  /\ messages' = messages \ oldest
           /\ polled' = polled \cup oldest
    /\ cpc' = "add"
    /\ UNCHANGED <<isDelayed, state, sessions, discardedSessions, delayedVars,
                   fieldVars, brokerVars, item, capturing, accepted, spc,
                   rrunning, stopc, delivered>>

\* sessions.poll(), which does nothing on an empty queue.
pollOldest ==
    /\ cpc = "poll"
    /\ LET oldest == IF sessions = {} THEN {} ELSE {Min(sessions)}
       IN  /\ sessions' = sessions \ oldest
           /\ polled' = polled \cup oldest
    /\ cpc' = "add"
    /\ UNCHANGED <<isDelayed, state, messages, discardedSessions, delayedVars,
                   fieldVars, brokerVars, item, capturing, accepted, spc,
                   rrunning, stopc, delivered>>

\* sessions.add(session)
addSession ==
    /\ cpc = "add"
    /\ sessions' = sessions \cup {item}
    /\ cpc' = "idle"
    /\ UNCHANGED <<isDelayed, state, messages, discardedSessions, polled,
                   delayedVars, fieldVars, brokerVars, item, capturing,
                   accepted, spc, rrunning, stopc, delivered>>

\* send(SIPMessage): now if the sender runs, stored in delayed mode, else lost.
sendMessage ==
    /\ cpc = "idle" /\ capturing /\ item < MaxItems
    /\ item' = item + 1
    /\ cpc' = IF isRunning THEN "sendNow" ELSE "idle"
    /\ messages' = IF ~isRunning /\ isDelayed THEN messages \cup {item'} ELSE messages
    /\ UNCHANGED <<isDelayed, state, sessions, discardedSessions, polled,
                   delayedVars, fieldVars, brokerVars, capturing, accepted,
                   spc, rrunning, stopc, delivered>>

\* Whether session.createObjectMessage and producer.send succeed.
canSend ==
    /\ session # null /\ conn[session] = "alive"
    /\ producer # null /\ conn[producer] = "alive"

\* The broker gets one more copy of i; null is sent as an empty message.
deliver(i) ==
    delivered' = IF i = null THEN delivered ELSE [delivered EXCEPT ![i] = @ + 1]

\* sendNow on the capture thread; its exception is logged by SIPHandler.
captureSendNow ==
    /\ cpc = "sendNow"
    /\ IF canSend THEN deliver(item) ELSE UNCHANGED delivered
    /\ cpc' = "idle"
    /\ UNCHANGED <<isDelayed, state, queueVars, delayedVars, fieldVars,
                   brokerVars, item, capturing, accepted, spc, rrunning,
                   stopc>>

capture == countDiscarded \/ pollOldest \/ addSession \/ captureSendNow

-----------------------------------------------------------------------------
(* start(), called by the agent's thread and by the reconnectors *)

\* Where start() returns to.
returned(s) == IF s = Agent THEN "started" ELSE "restarted"

\* Mutant: the sender is RUNNING as soon as it has a connection.
createConnection_running(s) ==
    /\ spc[s] = "connect"
    /\ \/ /\ broker
          /\ \E k \in Connections :
                /\ conn[k] = "unborn" /\ k = fresh(conn)
                /\ conn' = [conn EXCEPT ![k] = "alive"]
                /\ connection' = k
          /\ state' = "RUNNING"
          /\ spc' = [spc EXCEPT ![s] = "session"]
       \/ /\ ~broker
          /\ spc' = [spc EXCEPT ![s] = "fail"]
          /\ UNCHANGED <<state, conn, connection>>
    /\ UNCHANGED <<isDelayed, queueVars, delayedVars, captureVars, session,
                   producer, delayedSender, reconnector, broker, lpc, failures,
                   rrunning, stopc, delivered>>

\* JNDI lookups and factory.createConnection; the listener is set.
createConnection(s) ==
    /\ spc[s] = "connect"
    /\ \/ /\ broker
          /\ \E k \in Connections :
                /\ conn[k] = "unborn" /\ k = fresh(conn)
                /\ conn' = [conn EXCEPT ![k] = "alive"]
                /\ connection' = k
          /\ spc' = [spc EXCEPT ![s] = "session"]
       \/ /\ ~broker
          /\ spc' = [spc EXCEPT ![s] = "fail"]
          /\ UNCHANGED <<conn, connection>>
    /\ UNCHANGED <<isDelayed, state, queueVars, delayedVars, captureVars,
                   session, producer, delayedSender, reconnector, broker, lpc,
                   failures, rrunning, stopc, delivered>>

\* session = connection.createSession(...), with the connection of the moment.
createSession(s) ==
    /\ spc[s] = "session"
    /\ IF conn[connection] = "alive"
       THEN session' = connection /\ spc' = [spc EXCEPT ![s] = "produce"]
       ELSE spc' = [spc EXCEPT ![s] = "fail"] /\ UNCHANGED session
    /\ UNCHANGED <<isDelayed, state, queueVars, delayedVars, captureVars,
                   connection, producer, delayedSender, reconnector,
                   brokerVars, rrunning, stopc, delivered>>

\* producer = session.createProducer(destination), with the session of the
\* moment.
createProducer(s) ==
    /\ spc[s] = "produce"
    /\ IF conn[session] = "alive"
       THEN producer' = session /\ spc' = [spc EXCEPT ![s] = "run"]
       ELSE spc' = [spc EXCEPT ![s] = "fail"] /\ UNCHANGED producer
    /\ UNCHANGED <<isDelayed, state, queueVars, delayedVars, captureVars,
                   connection, session, delayedSender, reconnector, brokerVars,
                   rrunning, stopc, delivered>>

\* Mutant: only the first start() creates a DelayedSender.
setRunning_firstOnly(s) ==
    /\ spc[s] = "run"
    /\ state' = "RUNNING"
    /\ spc' = [spc EXCEPT ![s] =
                  IF isDelayed /\ s = Agent THEN "delay" ELSE returned(s)]
    /\ UNCHANGED <<isDelayed, queueVars, delayedVars, captureVars, fieldVars,
                   brokerVars, rrunning, stopc, delivered>>

setRunning(s) ==
    /\ spc[s] = "run"
    /\ state' = "RUNNING"
    /\ spc' = [spc EXCEPT ![s] = IF isDelayed THEN "delay" ELSE returned(s)]
    /\ UNCHANGED <<isDelayed, queueVars, delayedVars, captureVars, fieldVars,
                   brokerVars, rrunning, stopc, delivered>>

startDelayedSender(s) ==
    /\ spc[s] = "delay"
    /\ \E d \in DelayedSenders :
          /\ dpc[d] = "unborn" /\ d = fresh(dpc)
          /\ dpc' = [dpc EXCEPT ![d] = "new"]
          /\ delayedSender' = d
    /\ spc' = [spc EXCEPT ![s] = returned(s)]
    /\ UNCHANGED <<isDelayed, state, queueVars, drunning, ditem, captureVars,
                   connection, session, producer, reconnector, brokerVars,
                   rrunning, stopc, delivered>>

\* The catch block of start().
setFailed(s) ==
    /\ spc[s] = "fail"
    /\ state' = "FAILED"
    /\ spc' = [spc EXCEPT ![s] = "respawn"]
    /\ UNCHANGED <<isDelayed, queueVars, delayedVars, captureVars, fieldVars,
                   brokerVars, rrunning, stopc, delivered>>

\* A new SenderReconnector; f is spc with the step of the caller applied.
startSenderReconnector(f) ==
    \E r \in Reconnectors :
        /\ spc[r] = "unborn" /\ r = fresh(spc)
        /\ spc' = [f EXCEPT ![r] = "new"]
        /\ reconnector' = r

retryIfNobodyDoes(s) ==
    /\ spc[s] = "respawn"
    /\ LET f == [spc EXCEPT ![s] = returned(s)] IN
       IF reconnector = null \/ ~rrunning[reconnector]
       THEN startSenderReconnector(f)
       ELSE spc' = f /\ UNCHANGED reconnector
    /\ UNCHANGED <<isDelayed, state, queueVars, delayedVars, captureVars,
                   connection, session, producer, delayedSender, brokerVars,
                   rrunning, stopc, delivered>>

start(s) ==
    \/ createConnection(s) \/ createSession(s) \/ createProducer(s) \/ setRunning(s)
    \/ startDelayedSender(s) \/ setFailed(s) \/ retryIfNobodyDoes(s)

-----------------------------------------------------------------------------
(* SenderReconnector.run *)

\* wait(retryInterval) ends by its timeout only: nobody notifies.
reconnect(r) ==
    /\ \/ /\ spc[r] = "new"
          /\ rrunning' = [rrunning EXCEPT ![r] = TRUE]
          /\ spc' = [spc EXCEPT ![r] = "loop"]
       \/ /\ spc[r] = "loop"
          /\ spc' = [spc EXCEPT ![r] = IF state = "FAILED" /\ rrunning[r]
                                       THEN "waiting" ELSE "done"]
          /\ UNCHANGED rrunning
       \/ /\ spc[r] = "waiting"
          /\ spc' = [spc EXCEPT ![r] = IF rrunning[r] THEN "connect" ELSE "loop"]
          /\ UNCHANGED rrunning
       \/ /\ spc[r] = "restarted"
          /\ rrunning' = [rrunning EXCEPT ![r] = FALSE]
          /\ spc' = [spc EXCEPT ![r] = "loop"]
    /\ UNCHANGED <<isDelayed, state, queueVars, delayedVars, captureVars,
                   fieldVars, brokerVars, stopc, delivered>>

-----------------------------------------------------------------------------
(* DelayedSender.run: isRunning() in this class reads its own flag, not the *)
(* state of the sender.                                                     *)

\* The steps that only move thread d on: run() begins; the loop's test; the
\* wait(sendInterval) that ends by its timeout or by notifyAll and the test
\* after it; the tests of the two inner loops.
delayedControl(d) ==
    /\ \/ /\ dpc[d] = "new"
          /\ drunning' = [drunning EXCEPT ![d] = TRUE]
          /\ dpc' = [dpc EXCEPT ![d] = "loop"]
       \/ /\ dpc[d] = "loop"
          /\ dpc' = [dpc EXCEPT ![d] = IF drunning[d] THEN "waiting" ELSE "done"]
          /\ UNCHANGED drunning
       \/ /\ dpc[d] = "waiting"
          /\ dpc' = [dpc EXCEPT ![d] = IF drunning[d] THEN "sessions" ELSE "loop"]
          /\ UNCHANGED drunning
       \/ /\ dpc[d] = "sessions"
          /\ dpc' = [dpc EXCEPT ![d] = IF sessions # {} /\ drunning[d]
                                       THEN "peek1" ELSE "messages"]
          /\ UNCHANGED drunning
       \/ /\ dpc[d] = "messages"
          /\ dpc' = [dpc EXCEPT ![d] = IF messages # {} /\ drunning[d]
                                       THEN "peek2" ELSE "loop"]
          /\ UNCHANGED drunning
    /\ UNCHANGED <<isDelayed, state, queueVars, ditem, captureVars, fieldVars,
                   brokerVars, spc, rrunning, stopc, delivered>>

\* Both inner loops do the same three steps, on the queue of sessions.
Body == [peek |-> {"peek1", "peek2"}, send |-> {"send1", "send2"},
         remove |-> {"remove1", "remove2"}]

\* The place in the same loop.
sameLoop(d, one, two) == IF dpc[d] \in {"peek1", "send1", "remove1"} THEN one ELSE two

\* sessions.peek(), which is null on an empty queue.
peek(d) ==
    /\ dpc[d] \in Body.peek
    /\ ditem' = [ditem EXCEPT ![d] = IF sessions = {} THEN null ELSE Min(sessions)]
    /\ dpc' = [dpc EXCEPT ![d] = sameLoop(d, "send1", "send2")]
    /\ UNCHANGED <<isDelayed, state, queueVars, drunning, captureVars,
                   fieldVars, brokerVars, spc, rrunning, stopc, delivered>>

\* sendNow(session); an exception is caught in run() and ends the round.
delayedSendNow(d) ==
    /\ dpc[d] \in Body.send
    /\ IF canSend
       THEN /\ deliver(ditem[d])
            /\ dpc' = [dpc EXCEPT ![d] = sameLoop(d, "remove1", "remove2")]
            /\ UNCHANGED ditem
       ELSE /\ dpc' = [dpc EXCEPT ![d] = "loop"]
            /\ ditem' = [ditem EXCEPT ![d] = null]
            /\ UNCHANGED delivered
    /\ UNCHANGED <<isDelayed, state, queueVars, drunning, captureVars,
                   fieldVars, brokerVars, spc, rrunning, stopc>>

\* Mutant: the head of the queue is removed, whichever session it is now.
removeSent_head(d) ==
    /\ dpc[d] \in Body.remove
    /\ sessions' = IF sessions = {} THEN {} ELSE sessions \ {Min(sessions)}
    /\ dpc' = [dpc EXCEPT ![d] = sameLoop(d, "sessions", "messages")]
    /\ ditem' = [ditem EXCEPT ![d] = null]
    /\ UNCHANGED <<isDelayed, state, messages, discardedSessions, polled,
                   drunning, captureVars, fieldVars, brokerVars, spc, rrunning,
                   stopc, delivered>>

\* Mutant: the session stays in the queue after it was sent.
removeSent_not(d) ==
    /\ dpc[d] \in Body.remove
    /\ dpc' = [dpc EXCEPT ![d] = sameLoop(d, "sessions", "messages")]
    /\ ditem' = [ditem EXCEPT ![d] = null]
    /\ UNCHANGED <<isDelayed, state, queueVars, drunning, captureVars,
                   fieldVars, brokerVars, spc, rrunning, stopc, delivered>>

\* sessions.remove(session)
removeSent(d) ==
    /\ dpc[d] \in Body.remove
    /\ sessions' = sessions \ {ditem[d]}
    /\ dpc' = [dpc EXCEPT ![d] = sameLoop(d, "sessions", "messages")]
    /\ ditem' = [ditem EXCEPT ![d] = null]
    /\ UNCHANGED <<isDelayed, state, messages, discardedSessions, polled,
                   drunning, captureVars, fieldVars, brokerVars, spc, rrunning,
                   stopc, delivered>>

delayedRun(d) ==
    delayedControl(d) \/ peek(d) \/ delayedSendNow(d) \/ removeSent(d)

-----------------------------------------------------------------------------
(* onException, on a thread of the JMS provider.  delayedSender is read     *)
(* again after the test: a null there ends the thread with an exception.    *)

onException(k) ==
    \/ /\ lpc[k] = "notified"
       /\ lpc' = [lpc EXCEPT ![k] = IF isRunning THEN "fail" ELSE "done"]
       /\ UNCHANGED <<state, delayedVars, fieldVars, spc>>
    \/ /\ lpc[k] = "fail"
       /\ state' = "FAILED"
       /\ lpc' = [lpc EXCEPT ![k] = "stop"]
       /\ UNCHANGED <<delayedVars, fieldVars, spc>>
    \/ /\ lpc[k] = "stop"
       /\ lpc' = [lpc EXCEPT ![k] =
                    IF delayedSender # null /\ drunning[delayedSender]
                    THEN "stopCall" ELSE "respawn"]
       /\ UNCHANGED <<state, delayedVars, fieldVars, spc>>
    \/ /\ lpc[k] = "stopCall"
       /\ IF delayedSender = null
          THEN lpc' = [lpc EXCEPT ![k] = "done"] /\ UNCHANGED drunning
          ELSE /\ drunning' = [drunning EXCEPT ![delayedSender] = FALSE]
               /\ lpc' = [lpc EXCEPT ![k] = "clear"]
       /\ UNCHANGED <<state, dpc, ditem, fieldVars, spc>>
    \/ /\ lpc[k] = "clear"
       /\ delayedSender' = null
       /\ lpc' = [lpc EXCEPT ![k] = "respawn"]
       /\ UNCHANGED <<state, delayedVars, connection, session, producer, reconnector,
                      spc>>
    \/ /\ lpc[k] = "respawn"
       /\ startSenderReconnector(spc)
       /\ lpc' = [lpc EXCEPT ![k] = "done"]
       /\ UNCHANGED <<state, delayedVars, connection, session, producer,
                      delayedSender>>

exceptionListener(k) ==
    /\ onException(k)
    /\ UNCHANGED <<isDelayed, queueVars, captureVars, broker, conn, failures,
                   rrunning, stopc, delivered>>

-----------------------------------------------------------------------------
(* stop(), called by SipanaAgent.stop, on a thread of its own and at any    *)
(* moment of start().                                                       *)

\* SipanaAgent.stop stops the capture session before the sender.
stopCapture ==
    /\ CanStop
    /\ stopc = "none"
    /\ capturing' = FALSE
    /\ stopc' = "delayed"
    /\ UNCHANGED <<isDelayed, state, queueVars, delayedVars, cpc, item, accepted,
                   fieldVars, brokerVars, spc, rrunning, delivered>>

\* delayedSender.stop(): notifyAll, then running := false.  A thread that is
\* waiting may end its wait before or after the flag is cleared.  The field is
\* read again after the test; a null there makes stop() throw.
stopDelayedSender ==
    /\ \/ /\ stopc = "delayed"
          /\ stopc' = IF delayedSender = null THEN "test" ELSE "delayedCall"
          /\ UNCHANGED drunning
       \/ /\ stopc = "delayedCall" /\ delayedSender = null
          /\ stopc' = "thrown"
          /\ UNCHANGED drunning
       \/ /\ stopc = "delayedCall" /\ delayedSender # null
          /\ drunning' = [drunning EXCEPT ![delayedSender] = FALSE]
          /\ stopc' = "test"
    /\ UNCHANGED <<isDelayed, state, queueVars, dpc, ditem, captureVars, fieldVars,
                   brokerVars, spc, rrunning, delivered>>

\* The test of the state.  A sender that does not run is left as it is: start()
\* may have returned by then, or still be at work.
testRunning ==
    /\ stopc = "test"
    /\ stopc' = IF isRunning THEN "close"
                ELSE IF spc[Agent] = "started" THEN "skipped" ELSE "tooEarly"
    /\ UNCHANGED <<isDelayed, state, queueVars, delayedVars, captureVars, fieldVars,
                   brokerVars, spc, rrunning, delivered>>

\* Mutant: the connection is not closed.
closeConnection_not ==
    /\ stopc = "close"
    /\ stopc' = "closed"
    /\ UNCHANGED <<isDelayed, state, queueVars, delayedVars, captureVars, fieldVars,
                   brokerVars, spc, rrunning, delivered>>

\* The connection of the moment is closed; the state stays as it is.
closeConnection ==
    /\ stopc = "close"
    /\ conn' = [conn EXCEPT ![connection] = "closed"]
    /\ stopc' = "closed"
    /\ UNCHANGED <<isDelayed, state, queueVars, delayedVars, captureVars, fieldVars,
                   broker, lpc, failures, spc, rrunning, delivered>>

stop == stopDelayedSender \/ testRunning \/ closeConnection

-----------------------------------------------------------------------------
(* The JMS broker (external) *)

\* The broker goes away: every open connection fails and its exception
\* listener is notified, sooner or later.
brokerFails ==
    /\ broker /\ failures < MaxFailures
    /\ broker' = FALSE
    /\ failures' = failures + 1
    /\ conn' = [k \in Connections |-> IF conn[k] = "alive" THEN "dead" ELSE conn[k]]
    /\ lpc' = [k \in Connections |-> IF conn[k] = "alive" THEN "notified" ELSE lpc[k]]
    /\ UNCHANGED <<isDelayed, state, queueVars, delayedVars, captureVars,
                   fieldVars, spc, rrunning, stopc, delivered>>

brokerRecovers ==
    /\ ~broker
    /\ broker' = TRUE
    /\ UNCHANGED <<isDelayed, state, queueVars, delayedVars, captureVars,
                   fieldVars, conn, lpc, failures, spc, rrunning, stopc,
                   delivered>>

-----------------------------------------------------------------------------
Next ==
    \/ sendSession \/ sendMessage \/ capture
    \/ \E s \in Starters : start(s)
    \/ \E r \in Reconnectors : reconnect(r)
    \/ \E d \in DelayedSenders : delayedRun(d)
    \/ \E k \in Connections : exceptionListener(k)
    \/ stopCapture \/ stop
    \/ brokerFails \/ brokerRecovers

Spec == Init /\ [][Next]_vars

\* The JVM runs every thread that can run, timed waits end and the provider
\* delivers its exceptions.  Nothing is assumed of the network: no packet
\* need arrive, the agent need not stop, the broker need not come back.
Fairness ==
    /\ WF_vars(capture)
    /\ \A s \in Starters : WF_vars(start(s))
    /\ \A r \in Reconnectors : WF_vars(reconnect(r))
    /\ \A d \in DelayedSenders : WF_vars(delayedRun(d))
    /\ \A k \in Connections : WF_vars(exceptionListener(k))
    /\ WF_vars(stop)

FairSpec == Spec /\ Fairness

-----------------------------------------------------------------------------
(* Properties *)

DelayedPlaces ==
    {"unborn", "new", "loop", "waiting", "sessions", "messages", "done"}
        \cup Body.peek \cup Body.send \cup Body.remove

StarterPlaces ==
    {"unborn", "new", "loop", "waiting", "connect", "session", "produce", "run",
     "delay", "fail", "respawn", "started", "restarted", "done"}

\* How stop() ended: it closed the connection; it found a sender that does not
\* run, after start() had returned or before; it threw a NullPointerException.
StopReturned == {"closed", "skipped", "tooEarly", "thrown"}

StopPlaces == {"none", "delayed", "delayedCall", "test", "close"} \cup StopReturned

ListenerPlaces ==
    {"none", "notified", "fail", "stop", "stopCall", "clear", "respawn", "done"}

QueueType ==
    /\ item \in 0..MaxItems
    /\ accepted \subseteq 1..item
    /\ sessions \subseteq accepted
    /\ messages \subseteq (1..item) \ accepted
    /\ polled \subseteq accepted
    /\ discardedSessions \in Nat
    /\ cpc \in {"idle", "count", "poll", "add", "sendNow"}
    /\ capturing \in BOOLEAN
    /\ delivered \in [1..MaxItems -> Nat]

FieldType ==
    /\ isDelayed \in BOOLEAN
    /\ state \in {"STOPED", "RUNNING", "FAILED"}
    /\ connection \in Connections \cup {null}
    /\ session \in Connections \cup {null}
    /\ producer \in Connections \cup {null}
    /\ delayedSender \in DelayedSenders \cup {null}
    /\ reconnector \in Reconnectors \cup {null}

DelayedType ==
    /\ dpc \in [DelayedSenders -> DelayedPlaces]
    /\ drunning \in [DelayedSenders -> BOOLEAN]
    /\ ditem \in [DelayedSenders -> accepted \cup {null}]

StarterType ==
    /\ spc \in [Starters -> StarterPlaces]
    /\ rrunning \in [Reconnectors -> BOOLEAN]
    /\ stopc \in StopPlaces

BrokerType ==
    /\ broker \in BOOLEAN
    /\ conn \in [Connections -> {"unborn", "alive", "dead", "closed"}]
    /\ lpc \in [Connections -> ListenerPlaces]
    /\ failures \in Nat

\* The fields have their types; the queue of sessions and what the
\* DelayedSenders have in hand are sessions, never standalone messages.
TypeOK == QueueType /\ FieldType /\ DelayedType /\ StarterType /\ BrokerType

\* The queue of sessions holds at most one session more than the buffer size,
\* although the size is tested well before the session is added: only the
\* capture thread adds.  (The test is a >, so the "number of sessions in
\* memory" of sipana-agent.properties is exceeded by one.)
BufferBound == Cardinality(sessions) <= BufferSize + 1

\* In delayed mode a session given to send() is in the queue, or on its way
\* into it, until the broker got it or the overflow branch discarded it: no
\* failed connection, restart, second DelayedSender or overflow that races
\* with a send in progress loses a session.
NothingLost ==
    isDelayed => \A i \in accepted :
        \/ i \in sessions
        \/ i \in polled
        \/ delivered[i] > 0
        \/ i = item /\ cpc \in {"count", "poll", "add"}

\* getDiscardedSessions() never reports fewer sessions than the overflow
\* branch really dropped.
DiscardsCounted == Cardinality(polled) <= discardedSessions

\* While the broker never failed there is one DelayedSender, and the broker
\* gets no session or message twice.
NoDuplicateWithoutFailure ==
    failures = 0 => \A i \in 1..MaxItems : delivered[i] <= 1

\* A sender that is RUNNING has a session and a producer, and ones that work
\* unless the broker failed or stop() closed the connection: the session,
\* producer and state fields, written one by one by start(), never tell a sending
\* thread that it can send before it can.
RunningCanSend ==
    isRunning =>
        /\ session # null /\ producer # null
        /\ failures = 0 /\ stopc # "closed" => canSend

\* stop() has returned; it closed the connection, whatever start() was doing
\* then, or start() had returned when it tested the state.
Stopped == stopc \in {"closed", "skipped", "thrown"}

\* A sender that is Stopped gives nothing more to the broker, not even from a
\* DelayedSender that missed its stop or a capture thread in the middle of
\* send(), provided that no reconnector was ever started (see StopIsFinal).
\* The case that Stopped leaves out is real: a stop() that finds a sender which
\* start() has not made RUNNING yet closes nothing, and start() goes on.
SilentAfterStop ==
    [][Stopped /\ reconnector = null => delivered' = delivered]_vars

\* "Message Sender stopped" (SipanaAgent.stop): a sender that is Stopped and does
\* not run never runs again.
StopIsFinal == [][Stopped /\ ~isRunning => ~isRunning']_vars

\* In delayed mode every session given to send() reaches the broker, unless the
\* overflow branch discards it, if the broker stays up from the beginning, or if
\* after a failure the sender ends up RUNNING for good with a producer whose
\* connection works: no order of failed connection, exception listener,
\* reconnector and DelayedSender leaves such a sender without a drain thread.
SessionsDelivered ==
    []broker \/ <>[](isRunning /\ canSend) =>
        \A i \in 1..MaxItems :
            i \in accepted ~> (delivered[i] > 0 \/ i \in polled)

\* "seconds between reconnection try" (sipana-agent.properties): a broker that
\* comes back for good is found again.
Reconnects == <>[]broker => []<>isRunning

\* "Storing it for delayed sending" (send(SIPMessage)): a stored message is
\* sent once the sender runs for good with a working connection.
StoredMessagesSent ==
    <>[](isRunning /\ canSend) =>
        \A i \in 1..MaxItems : i \in messages ~> delivered[i] > 0

\* "Notify sender to send remaining messages" (DelayedSender.stop): a session
\* that is queued when stop() notifies the waiting DelayedSender of a sender that
\* can send is sent, if the broker was there from the beginning and stays.
StopFlushes ==
    []broker =>
        \A i \in 1..MaxItems :
            /\ stopc = "delayedCall" /\ delayedSender # null
            /\ dpc[delayedSender] = "waiting"
            /\ i \in sessions
            /\ canSend
            ~> delivered[i] > 0

\* "Stop Delayed sender thread if it's running" (stop): a DelayedSender on which
\* stop() calls stop() ends.
StopStopsDelayedSender ==
    \A d \in DelayedSenders :
        stopc = "delayedCall" /\ delayedSender = d ~> dpc[d] = "done"
=============================================================================
