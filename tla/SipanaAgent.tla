----------------------------- MODULE SipanaAgent -----------------------------
(***************************************************************************)
(* The life cycle of the agent and of its capture session, and the three   *)
(* threads that take part in it:                                           *)
(*   - Agent runs SipanaAgent.run and start();                             *)
(*   - Capture runs AbstractCaptureSession.run;                            *)
(*   - Control calls SipanaAgent.stop(), at any moment after start() got   *)
(*     its collaborators.                                                  *)
(* start(), stop(), getState() and setState() of the capture session are   *)
(* synchronized; run() and the work on the captor in startCapture are not. *)
(* The sender is only started and stopped here: see JMSSender.             *)
(***************************************************************************)
EXTENDS Naturals

CONSTANTS
    Agent, Capture, Control,  \* the threads
    Session,                  \* the identity of the capture session
    null,
    MaxPackets                \* bound: number of packets given to the listener

Threads == {Agent, Capture, Control}

ASSUME AgentAssumption ==
    /\ MaxPackets \in Nat
    /\ Agent # Capture /\ Agent # Control /\ Capture # Control
    /\ null \notin Threads \cup {"open", "closed"}

VARIABLES
    pc,             \* place of each thread
    status,         \* SipanaAgent.status
    sessionMap,     \* keys of captureSessionMap: the session, when it is there
    sender,         \* last call of the sender: none, start or stop
    state,          \* AbstractCaptureSession.state
    captor,         \* the captor: null, open or closed
    broken,         \* breakLoop() was called on the captor
    owner,          \* the thread in stop(), which holds the session's monitor
    packets, late   \* calls of onPacket: all, and those begun after stop()

sessionVars == <<state, captor, broken, owner>>
packetVars == <<packets, late>>
vars == <<pc, status, sessionMap, sender, sessionVars, packetVars>>

-----------------------------------------------------------------------------
Init ==
    /\ pc = [t \in Threads |-> IF t = Agent THEN "configure" ELSE "none"]
    /\ status = null
    /\ sessionMap = {}
    /\ sender = "none"
    /\ state = "IDLE"
    /\ captor = null
    /\ broken = FALSE
    /\ owner = null
    /\ packets = 0 /\ late = 0

\* Thread t goes from one place to another.
step(t, from, to) == pc[t] = from /\ pc' = [pc EXCEPT ![t] = to]

-----------------------------------------------------------------------------
(* The agent's thread *)

\* run() and its catch blocks: no configuration file, or one that no sender can
\* be created from.
getConfigManager ==
    /\ \/ step(Agent, "configure", "create") /\ UNCHANGED status
       \/ /\ step(Agent, "configure", "unconfigured")
          /\ status' \in {"CONFIG_ERROR", "UNKNOWN_ERROR"}
    /\ UNCHANGED <<sessionMap, sender, sessionVars, packetVars>>

\* The interface and the filter may be missing from the configuration.
createCaptureSession ==
    /\ \/ /\ step(Agent, "create", "startSession")
          /\ sessionMap' = {Session}
          /\ UNCHANGED status
       \/ /\ step(Agent, "create", "ended")
          /\ status' = "UNKNOWN_ERROR"
          /\ UNCHANGED sessionMap
    /\ UNCHANGED <<sender, sessionVars, packetVars>>

\* Mutant: start() leaves with the monitor.
startSession_keepsMonitor ==
    /\ pc[Agent] = "startSession" /\ owner = null
    /\ state = "IDLE"
    /\ state' = "RUNNING" /\ owner' = Agent
    /\ pc' = [pc EXCEPT ![Agent] = "sleeping", ![Capture] = "begin"]
    /\ UNCHANGED <<status, sessionMap, sender, captor, broken, packetVars>>

\* AbstractCaptureSession.start, called once, on a new session.
startSession ==
    /\ pc[Agent] = "startSession" /\ owner = null
    /\ state = "IDLE"
    /\ state' = "RUNNING"
    /\ pc' = [pc EXCEPT ![Agent] = "sleeping", ![Capture] = "begin"]
    /\ UNCHANGED <<status, sessionMap, sender, captor, broken, owner, packetVars>>

\* After the three seconds, of which nothing else is known.
checkSession ==
    /\ step(Agent, "sleeping", IF state = "RUNNING" THEN "startSender" ELSE "ended")
    /\ owner = null
    /\ UNCHANGED <<status, sessionMap, sender, sessionVars, packetVars>>

startSender ==
    /\ step(Agent, "startSender", "ended")
    /\ sender' = "start"
    /\ UNCHANGED <<status, sessionMap, sessionVars, packetVars>>

agentRun ==
    \/ getConfigManager \/ createCaptureSession \/ startSession
    \/ checkSession \/ startSender

-----------------------------------------------------------------------------
(* The capture thread *)

\* setState, which waits for the monitor.
setState(from, s, to) ==
    /\ step(Capture, from, to)
    /\ owner = null
    /\ state' = s
    /\ UNCHANGED <<status, sessionMap, sender, captor, broken, owner, packetVars>>

\* The device may be unknown, or impossible to open.
openDevice ==
    /\ \/ step(Capture, "open", "filter") /\ captor' = "open"
       \/ step(Capture, "open", "failed") /\ UNCHANGED captor
    /\ UNCHANGED <<status, sessionMap, sender, state, broken, owner, packetVars>>

\* libpcap may refuse the filter.
setFilter ==
    /\ step(Capture, "filter", "loop") \/ step(Capture, "filter", "failed")
    /\ UNCHANGED <<status, sessionMap, sender, sessionVars, packetVars>>

\* loopPacket hands packets to the listener until it returns: when the loop was
\* broken, or on an error of the device.  A captor that was closed delivers
\* nothing and may make it throw.
loopPacket ==
    /\ \/ /\ step(Capture, "loop", "receive")
          /\ captor = "open" /\ ~broken /\ packets < MaxPackets
       \/ step(Capture, "loop", "returned")
       \/ step(Capture, "loop", "failed") /\ captor = "closed"
    /\ UNCHANGED <<status, sessionMap, sender, sessionVars, packetVars>>

\* onPacket is called; its exceptions are logged.
receivePacket ==
    /\ step(Capture, "receive", "loop")
    /\ packets' = packets + 1
    /\ late' = IF pc[Control] = "stopped" THEN late + 1 ELSE late
    /\ UNCHANGED <<status, sessionMap, sender, sessionVars>>

\* Mutant: the finally block does not look at the state.
finally_always ==
    /\ step(Capture, "returned", "stop")
    /\ owner = null
    /\ UNCHANGED <<status, sessionMap, sender, sessionVars, packetVars>>

\* The test of the finally block.
finally ==
    /\ step(Capture, "returned", IF state = "RUNNING" THEN "stop" ELSE "done")
    /\ owner = null
    /\ UNCHANGED <<status, sessionMap, sender, sessionVars, packetVars>>

-----------------------------------------------------------------------------
(* AbstractCaptureSession.stop and stopCapture, called by the capture thread *)
(* and by the thread that stops the agent                                   *)

enterStop(t) ==
    /\ step(t, "stop", "break")
    /\ owner = null /\ owner' = t
    /\ UNCHANGED <<status, sessionMap, sender, state, captor, broken, packetVars>>

\* Mutant: without a captor stop() returns as if it had stopped something.
throw_silently(t) ==
    /\ pc[t] = "break" /\ captor = null
    /\ pc' = [pc EXCEPT ![t] = "closed"]
    /\ owner' = null
    /\ UNCHANGED <<status, sessionMap, sender, state, captor, broken, packetVars>>

\* An exception leaves stop() and releases the monitor: there is no captor yet,
\* or jpcap objects to a second call on a captor that is closed.
throw(t) ==
    /\ \/ pc[t] = "break" /\ captor # "open"
       \/ pc[t] = "close" /\ captor = "closed"
    /\ pc' = [pc EXCEPT ![t] = "thrown"]
    /\ owner' = null
    /\ UNCHANGED <<status, sessionMap, sender, state, captor, broken, packetVars>>

\* Mutant: the loop is not broken.
breakLoop_not(t) ==
    /\ step(t, "break", "close")
    /\ captor # null
    /\ UNCHANGED <<status, sessionMap, sender, sessionVars, packetVars>>

breakLoop(t) ==
    /\ step(t, "break", "close")
    /\ captor # null
    /\ broken' = TRUE
    /\ UNCHANGED <<status, sessionMap, sender, state, captor, owner, packetVars>>

\* Mutant: only the agent closes the captor.
closeCaptor_control(t) ==
    /\ step(t, "close", "closed")
    /\ captor' = IF t = Control THEN "closed" ELSE captor
    /\ owner' = null
    /\ UNCHANGED <<status, sessionMap, sender, state, broken, packetVars>>

closeCaptor(t) ==
    /\ step(t, "close", "closed")
    /\ captor' = "closed"
    /\ owner' = null
    /\ UNCHANGED <<status, sessionMap, sender, state, broken, packetVars>>

stopSession(t) == enterStop(t) \/ throw(t) \/ breakLoop(t) \/ closeCaptor(t)

\* Mutant: the capture thread holds the monitor while it captures.
captureRun_synchronized ==
    \/ /\ step(Capture, "begin", "open") /\ owner = null
       /\ owner' = Capture
       /\ UNCHANGED <<status, sessionMap, sender, state, captor, broken>>
       /\ UNCHANGED packetVars
    \/ openDevice \/ setFilter \/ loopPacket \/ receivePacket
    \/ /\ step(Capture, "returned", "done")
       /\ owner' = null
       /\ UNCHANGED <<status, sessionMap, sender, state, captor, broken>>
       /\ UNCHANGED packetVars

\* AbstractCaptureSession.run
captureRun ==
    \/ setState("begin", "RUNNING", "open")
    \/ openDevice \/ setFilter \/ loopPacket \/ receivePacket
    \/ setState("failed", "ERROR", "returned")
    \/ finally
    \/ stopSession(Capture)
    \/ setState("closed", "IDLE", "done")
    \/ setState("thrown", "ERROR", "done")

-----------------------------------------------------------------------------
(* SipanaAgent.stop *)

\* The list of capture sessions is empty or has the one session in it.  stop()
\* may be called again after it threw.
stopAgent ==
    /\ pc[Agent] \notin {"configure", "unconfigured"}
    /\ \E from \in {"none", "thrown"} :
          step(Control, from, IF sessionMap # {} THEN "stop" ELSE "stopSender")
    /\ UNCHANGED <<status, sessionMap, sender, sessionVars, packetVars>>

removeCaptureSession ==
    /\ step(Control, "closed", "stopSender")
    /\ sessionMap' = {}
    /\ UNCHANGED <<status, sender, sessionVars, packetVars>>

stopSender ==
    /\ step(Control, "stopSender", "stopped")
    /\ sender' = "stop"
    /\ UNCHANGED <<status, sessionMap, sessionVars, packetVars>>

agentStop == stopSession(Control) \/ removeCaptureSession \/ stopSender

-----------------------------------------------------------------------------
Next == agentRun \/ captureRun \/ stopAgent \/ agentStop

Spec == Init /\ [][Next]_vars

\* Threads that can run do, and a packet that was read is handled.
Fairness ==
    /\ WF_vars(agentRun)
    /\ WF_vars(agentStop)
    /\ WF_vars(captureRun /\ pc[Capture] # "loop")
    \* loopPacket returns once it was told to, with the next packet at the latest
    /\ WF_vars(loopPacket /\ broken)

FairSpec == Spec /\ Fairness

-----------------------------------------------------------------------------
(* Properties *)

Places ==
    {"none", "configure", "unconfigured", "create", "startSession", "sleeping",
     "startSender", "ended",
     "begin", "open", "filter", "loop", "receive", "failed", "returned", "done",
     "stop", "break", "close", "closed", "thrown", "stopSender", "stopped"}

TypeOK ==
    /\ pc \in [Threads -> Places]
    /\ status \in {null, "CONFIG_ERROR", "UNKNOWN_ERROR"}
    /\ sessionMap \subseteq {Session}
    /\ sender \in {"none", "start", "stop"}
    /\ state \in {"IDLE", "RUNNING", "ERROR"}
    /\ captor \in {null, "open", "closed"}
    /\ broken \in BOOLEAN
    /\ owner \in {null, Capture, Control}
    /\ packets \in Nat /\ late \in Nat

\* A capture thread that ended without an error has closed its device, whether
\* stop() was called before it had one, while it was capturing, twice at the
\* same time or never.
DeviceReleased ==
    pc[Capture] = "done" /\ captor = "open" => state = "ERROR"

\* A capture that failed is not reported as idle or running again: the error of
\* startCapture survives the finally block and a stop() that comes meanwhile.
ErrorIsFinal == [][state = "ERROR" => state' = "ERROR"]_vars

\* After a stop() that found the capture session and returned, at most the packet
\* that was being read reaches the handler, so the sender that was stopped is not
\* used for longer than that.  The exception of stopCapture is what makes this
\* true when the captor is about to be opened.
OneLatePacket == pc[Control] = "stopped" /\ sessionMap = {} => late <= 1

\* stop() always ends, by returning or by an exception: the capture thread,
\* which stops the session too, never keeps the monitor from it.
StopEnds == pc[Control] = "stop" ~> pc[Control] \in {"stopped", "thrown"}

\* When stop() closed the session the capture thread ends.
CaptureEnds == pc[Control] = "closed" ~> pc[Capture] = "done"
=============================================================================
