-------------------------- MODULE SipanaAgentProofs --------------------------
(***************************************************************************)
(* Proofs about the capture session and the agent, for any number of       *)
(* packets.                                                                *)
(***************************************************************************)
EXTENDS SipanaAgent, TLAPS

(* The inductive invariant.  The state of the session follows the place of  *)
(* the capture thread, which alone changes it after start().                *)
StateInv ==
    /\ pc[Capture] \in {"begin", "open", "filter", "loop", "receive", "failed",
                        "stop", "break", "close", "closed", "thrown"}
           => state = "RUNNING"
    /\ pc[Capture] = "returned" => state \in {"RUNNING", "ERROR"}

(* There is no captor before the device is opened, and a thread that went   *)
(* through close() left it closed: no device is opened after that.          *)
CaptorInv ==
    /\ pc[Capture] \in {"none", "begin", "open"} => captor = null
    /\ \A t \in Threads :
          /\ pc[t] = "close" => captor # null
          /\ pc[t] = "closed" => captor = "closed"

(* A session is in the map from its creation to the end of its stop().      *)
MapInv ==
    /\ pc[Agent] \in {"configure", "create", "startSession"} => pc[Capture] = "none"
    /\ pc[Agent] = "startSession" => sessionMap # {}
    /\ sessionMap = {} => captor = "closed" \/ pc[Capture] = "none"

(* The only late packet is the one that the capture thread was reading.     *)
LateInv ==
    /\ pc[Control] # "stopped" => late = 0
    /\ pc[Control] = "stopped" /\ sessionMap = {}
           => late + (IF pc[Capture] = "receive" THEN 1 ELSE 0) <= 1

IInv == TypeOK /\ DeviceReleased /\ StateInv /\ CaptorInv /\ MapInv /\ LateInv

-----------------------------------------------------------------------------
LEMMA InitInv == Init => IInv
<1>1. SUFFICES ASSUME Init PROVE IInv
  OBVIOUS
<1>2. /\ pc \in [Threads -> Places]
      /\ pc[Agent] = "configure" /\ pc[Capture] = "none" /\ pc[Control] = "none"
  BY <1>1, AgentAssumption, SMT DEF Init, Threads, Places
<1>3. TypeOK
  BY <1>1, <1>2 DEF Init, TypeOK
<1> QED
  BY <1>1, <1>2, <1>3, SMT DEF Init, IInv, DeviceReleased, StateInv, CaptorInv,
     MapInv, LateInv, Threads

\* The steps of the agent's thread.
LEMMA AgentRunInv == IInv /\ agentRun => IInv'
<1> USE AgentAssumption DEF IInv, TypeOK, DeviceReleased, StateInv, CaptorInv,
        MapInv, LateInv, Threads, Places, vars, sessionVars, packetVars, step
<1>1. SUFFICES ASSUME IInv, agentRun PROVE IInv'
  OBVIOUS
<1>2. CASE getConfigManager
  BY <1>1, <1>2, SMT DEF getConfigManager
<1>3. CASE createCaptureSession
  BY <1>1, <1>3, SMT DEF createCaptureSession
<1>4. CASE startSession
  BY <1>1, <1>4, SMT DEF startSession
<1>5. CASE checkSession
  BY <1>1, <1>5, SMT DEF checkSession
<1>6. CASE startSender
  BY <1>1, <1>6, SMT DEF startSender
<1> QED BY <1>1, <1>2, <1>3, <1>4, <1>5, <1>6 DEF agentRun

\* A step inside stop(), of either thread.
LEMMA StopSessionInv ==
    ASSUME NEW t \in {Capture, Control}, IInv, stopSession(t)
    PROVE  IInv'
<1> USE AgentAssumption DEF IInv, TypeOK, DeviceReleased, StateInv, CaptorInv,
        MapInv, LateInv, Threads, Places, vars, sessionVars, packetVars, step
<1>1. CASE enterStop(t)
  BY <1>1, SMT DEF enterStop
<1>2. CASE throw(t)
  BY <1>2, SMT DEF throw
<1>3. CASE breakLoop(t)
  BY <1>3, SMT DEF breakLoop
<1>4. CASE closeCaptor(t)
  BY <1>4, SMT DEF closeCaptor
<1> QED BY <1>1, <1>2, <1>3, <1>4 DEF stopSession

\* The steps of the capture thread.
LEMMA CaptureRunInv == IInv /\ captureRun => IInv'
<1> USE AgentAssumption DEF IInv, TypeOK, DeviceReleased, StateInv, CaptorInv,
        MapInv, LateInv, Threads, Places, vars, sessionVars, packetVars, step
<1>1. SUFFICES ASSUME IInv, captureRun PROVE IInv'
  OBVIOUS
<1>2. CASE setState("begin", "RUNNING", "open")
  BY <1>1, <1>2, SMT DEF setState
<1>3. CASE openDevice
  BY <1>1, <1>3, SMT DEF openDevice
<1>4. CASE setFilter
  BY <1>1, <1>4, SMT DEF setFilter
<1>5. CASE loopPacket
  BY <1>1, <1>5, SMT DEF loopPacket
<1>6. CASE receivePacket
  BY <1>1, <1>6, SMT DEF receivePacket
<1>7. CASE setState("failed", "ERROR", "returned")
  BY <1>1, <1>7, SMT DEF setState
<1>8. CASE finally
  BY <1>1, <1>8, SMT DEF finally
<1>9. CASE setState("closed", "IDLE", "done")
  BY <1>1, <1>9, SMT DEF setState
<1>10. CASE setState("thrown", "ERROR", "done")
  BY <1>1, <1>10, SMT DEF setState
<1>11. CASE stopSession(Capture)
  BY <1>1, <1>11, StopSessionInv
<1> QED BY <1>1, <1>2, <1>3, <1>4, <1>5, <1>6, <1>7, <1>8,
          <1>9, <1>10, <1>11 DEF captureRun

\* The steps of the thread that stops the agent.
LEMMA AgentStopInv == IInv /\ (stopAgent \/ agentStop) => IInv'
<1> USE AgentAssumption DEF IInv, TypeOK, DeviceReleased, StateInv, CaptorInv,
        MapInv, LateInv, Threads, Places, vars, sessionVars, packetVars, step
<1>1. SUFFICES ASSUME IInv, stopAgent \/ agentStop PROVE IInv'
  OBVIOUS
<1>2. CASE stopAgent
  <2>1. PICK from \in {"none", "thrown"} :
           step(Control, from, IF sessionMap # {} THEN "stop" ELSE "stopSender")
    BY <1>2 DEF stopAgent
  <2>2. /\ pc[Agent] \notin {"configure", "unconfigured"}
        /\ UNCHANGED <<status, sessionMap, sender, sessionVars, packetVars>>
    BY <1>2 DEF stopAgent
  <2>3. CASE sessionMap # {}
    BY <1>1, <2>1, <2>2, <2>3, SMT
  <2>4. CASE sessionMap = {}
    BY <1>1, <2>1, <2>2, <2>4, SMT
  <2> QED BY <2>3, <2>4
<1>3. CASE removeCaptureSession
  BY <1>1, <1>3, SMT DEF removeCaptureSession
<1>4. CASE stopSender
  BY <1>1, <1>4, SMT DEF stopSender
<1>5. CASE stopSession(Control)
  BY <1>1, <1>5, StopSessionInv
<1> QED BY <1>1, <1>2, <1>3, <1>4, <1>5 DEF agentStop

LEMMA StutterInv == IInv /\ UNCHANGED vars => IInv'
BY DEF IInv, TypeOK, DeviceReleased, StateInv, CaptorInv, MapInv, LateInv,
   vars, sessionVars, packetVars

LEMMA Inductive == Spec => []IInv
<1>1. IInv /\ [Next]_vars => IInv'
  BY AgentRunInv, CaptureRunInv, AgentStopInv, StutterInv DEF Next
<1> QED BY InitInv, <1>1, PTL DEF Spec

-----------------------------------------------------------------------------
\* Every variable of the agent keeps its type.
THEOREM TypeCorrect == Spec => []TypeOK
BY Inductive, PTL DEF IInv

\* A capture thread that ended has closed its device, unless the session is in
\* error.
THEOREM DeviceIsReleased == Spec => []DeviceReleased
BY Inductive, PTL DEF IInv

\* After a stop() that found the session and returned, the handler is given at
\* most one packet.
THEOREM AtMostOneLatePacket == Spec => []OneLatePacket
<1>1. IInv => OneLatePacket
  BY SMT DEF IInv, TypeOK, LateInv, OneLatePacket
<1> QED BY Inductive, <1>1, PTL

\* A session that is in error stays so, whatever thread stops it.
THEOREM ErrorsAreFinal == Spec => ErrorIsFinal
<1>1. IInv /\ [Next]_vars => [state = "ERROR" => state' = "ERROR"]_vars
  <2>1. SUFFICES ASSUME IInv, [Next]_vars, state = "ERROR"
                 PROVE  state' = "ERROR"
    OBVIOUS
  <2>2. CASE agentRun
    BY <2>1, <2>2 DEF agentRun, getConfigManager, createCaptureSession,
       startSession, checkSession, startSender, sessionVars
  <2>3. ASSUME NEW t \in {Capture, Control}, stopSession(t)
        PROVE  state' = "ERROR"
    BY <2>1, <2>3 DEF stopSession, enterStop, throw, breakLoop, closeCaptor
  <2>4. CASE captureRun
    <3>1. CASE \/ setState("begin", "RUNNING", "open")
               \/ setState("closed", "IDLE", "done")
      BY <2>1, <3>1, SMT DEF IInv, StateInv, setState, step
    <3>2. CASE \/ setState("failed", "ERROR", "returned")
               \/ setState("thrown", "ERROR", "done")
      BY <3>2 DEF setState
    <3>3. CASE openDevice \/ setFilter \/ loopPacket \/ receivePacket \/ finally
      BY <2>1, <3>3 DEF openDevice, setFilter, loopPacket, receivePacket, finally,
         sessionVars
    <3> QED BY <2>3, <2>4, <3>1, <3>2, <3>3 DEF captureRun
  <2>5. CASE stopAgent \/ removeCaptureSession \/ stopSender \/ UNCHANGED vars
    BY <2>1, <2>5 DEF stopAgent, removeCaptureSession, stopSender, vars, sessionVars
  <2> QED BY <2>1, <2>2, <2>3, <2>4, <2>5 DEF Next, agentStop
<1> QED BY Inductive, <1>1, PTL DEF Spec, ErrorIsFinal
=============================================================================
