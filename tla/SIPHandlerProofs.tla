-------------------------- MODULE SIPHandlerProofs --------------------------
(***************************************************************************)
(* Proofs about SIPHandler, for any set of Call-IDs, any number of session *)
(* objects and packets, any status codes.                                  *)
(*                                                                         *)
(* Every handler changes sessions in one of four ways (StepShape): it      *)
(* changes none, creates one, updates a live one that stays open, or ends  *)
(* a live one and hands it over.  The invariants are proved from these     *)
(* four shapes instead of from the eleven handlers.                        *)
(***************************************************************************)
EXTENDS SIPHandler, TLAPS

\* A capture time is never 0, the value that stands for "not set".
ClockStarted == now > 0

\* An object that does not exist yet was not given to the Sender.
FreshUnsent == \A ref \in SessionRefs : heap[ref] = null => sendCalls[ref] = 0

\* The inductive invariant.
IInv ==
    /\ TypeOK
    /\ ClockStarted
    /\ FreshUnsent
    /\ LiveSessionsOpen
    /\ SentOnce
    /\ EndedIffSent

\* What StampsOrdered says of one session, at time t, and what it takes to
\* prove it: an INITIATED or PROVISIONED session was not yet established and
\* not yet disconnected, and a PROVISIONED one has its setup time.
Within(x, s, t) ==
    x # 0 => /\ s.startTime <= x /\ x <= t
             /\ s.endTime # 0 => x <= s.endTime

Stamped(s, t) ==
    /\ 0 < s.startTime /\ s.startTime <= t
    /\ Within(s.firstResponseTime, s, t)
    /\ Within(s.setupTime, s, t)
    /\ Within(s.establishedTime, s, t)
    /\ Within(s.disconnectionStart, s, t)
    /\ Within(s.endTime, s, t)
    /\ s.setupTime # 0 => /\ 0 < s.firstResponseTime
                          /\ s.firstResponseTime <= s.setupTime
    /\ s.establishedTime # 0 /\ s.disconnectionStart # 0 =>
            s.establishedTime <= s.disconnectionStart
    /\ s.establishedTime # 0 /\ s.endTime = 0 =>
            0 < s.setupTime /\ s.setupTime <= s.establishedTime
    /\ s.state \in {"INITIATED", "PROVISIONED"} =>
            s.establishedTime = 0 /\ s.disconnectionStart = 0
    /\ s.state = "PROVISIONED" => s.setupTime # 0

AllStamped == \A ref \in SessionRefs : heap[ref] # null => Stamped(heap[ref], now)

-----------------------------------------------------------------------------
(* The four shapes of a step *)

\* The packet is not filed in a session.
NoSession ==
    /\ UNCHANGED <<sessionList, heap, sendCalls>>
    /\ \/ /\ ignored' = ignored \cup {captured + 1}
          /\ UNCHANGED standalone
       \/ /\ \E c \in CallIDs : sessionList[c] = null
          /\ standalone' = standalone \cup {captured + 1}
          /\ UNCHANGED ignored

Creates(c, method, n, t) ==
    /\ addSession(c, method, n, t)
    /\ UNCHANGED sendCalls

\* s is what an open session old may become while it stays in the list.
Continues(old, s) ==
    /\ s \in SIPSession
    /\ s.callId = old.callId
    /\ s.state \in OpenStates
    /\ s.endTime = old.endTime

\* s is what an open session old may become when it is handed over.
Ends(old, s) ==
    /\ s \in SIPSession
    /\ s.callId = old.callId
    /\ s.state \notin OpenStates
    /\ s.endTime # 0

\* In both cases s is old with packet n of time t added and its stamps in order.
Grows(old, s, n, t) ==
    /\ s.messages = old.messages \cup {n}
    /\ old.endTime = 0 /\ Stamped(old, t) => Stamped(s, t)

StepShape ==
    \/ NoSession
    \/ \E c \in CallIDs, method \in {"INVITE", "OTHER"}, n \in Nat, t \in Nat :
          /\ Creates(c, method, n, t)
          /\ n = captured + 1 /\ t = now'
          /\ method = "INVITE" => sessionList[c] = null
          /\ UNCHANGED <<standalone, ignored>>
    \/ \E c \in CallIDs : \E s :
          /\ sessionList[c] # null
          /\ Continues(heap[sessionList[c]], s)
          /\ Grows(heap[sessionList[c]], s, captured + 1, now')
          /\ UNCHANGED <<standalone, ignored>>
          /\ updateSession(sessionList[c], s)
    \/ \E c \in CallIDs : \E s :
          /\ sessionList[c] # null
          /\ Ends(heap[sessionList[c]], s)
          /\ Grows(heap[sessionList[c]], s, captured + 1, now')
          /\ UNCHANGED <<standalone, ignored>>
          /\ terminateSession(sessionList[c], s)

\* A step of one of these shapes that keeps the other variables well typed.
TypedStep ==
    /\ StepShape
    /\ now' \in Nat /\ now' >= now /\ captured' = captured + 1
    /\ refused' \subseteq SessionRefs
    /\ standalone' \subseteq Nat /\ ignored' \subseteq Nat

-----------------------------------------------------------------------------
(* What the helpers do to a session *)

\* createSession makes an open session with the Call-ID of its request.
LEMMA CreateType ==
    ASSUME NEW c \in CallIDs, NEW method \in RequestMethods,
           NEW n \in Nat, NEW t \in Nat
    PROVE  /\ createSession(c, method, n, t) \in SIPSession
           /\ createSession(c, method, n, t) # null
           /\ createSession(c, method, n, t).callId = c
           /\ createSession(c, method, n, t).requestMethod = method
           /\ createSession(c, method, n, t).state = "INITIATED"
           /\ createSession(c, method, n, t).endTime = 0
  BY NullAssumption DEF createSession, SIPSession, SIPSessionState

\* addMessage changes nothing but the messages.
LEMMA AddMessageFacts ==
    ASSUME NEW s \in SIPSession, NEW n \in Nat
    PROVE  /\ addMessage(s, n) \in SIPSession
           /\ addMessage(s, n).callId = s.callId
           /\ addMessage(s, n).state = s.state
           /\ addMessage(s, n).endTime = s.endTime
  BY DEF addMessage, SIPSession

\* responseReceived changes the messages and the time of the first response.
LEMMA ResponseReceivedFacts ==
    ASSUME NEW s \in SIPSession, NEW n \in Nat, NEW t \in Nat
    PROVE  /\ responseReceived(s, n, t) \in SIPSession
           /\ responseReceived(s, n, t).callId = s.callId
           /\ responseReceived(s, n, t).state = s.state
           /\ responseReceived(s, n, t).endTime = s.endTime
<1>1. addMessage(s, n) \in SIPSession /\ addMessage(s, n).callId = s.callId
      /\ addMessage(s, n).state = s.state /\ addMessage(s, n).endTime = s.endTime
  BY AddMessageFacts
<1> HIDE DEF addMessage
<1> QED BY <1>1 DEF responseReceived, SIPSession

\* The final responses leave the session ended, INVITE's OK leaves it open.
LEMMA FinalResponseFacts ==
    ASSUME NEW s \in SIPSession, NEW t \in Nat, t > 0
    PROVE  /\ Ends(s, processCancelOK(s, t))
           /\ Ends(s, processByeOK(s, t))
           /\ Ends(s, processOtherOK(s, t))
           /\ Ends(s, failedSession(s, t))
           /\ s.state \in OpenStates => Continues(s, processInviteOK(s, t))
<1>1. Ends(s, processCancelOK(s, t))
  <2>1. processCancelOK(s, t) \in SIPSession
    BY DEF processCancelOK, SIPSession, SIPSessionState
  <2> QED BY <2>1 DEF Ends, processCancelOK, SIPSession, OpenStates
<1>2. Ends(s, processByeOK(s, t))
  <2>1. processByeOK(s, t) \in SIPSession
    BY DEF processByeOK, SIPSession, SIPSessionState
  <2> QED BY <2>1 DEF Ends, processByeOK, SIPSession, OpenStates
<1>3. Ends(s, processOtherOK(s, t))
  <2>1. processOtherOK(s, t) \in SIPSession
    BY DEF processOtherOK, SIPSession, SIPSessionState
  <2> QED BY <2>1 DEF Ends, processOtherOK, SIPSession, OpenStates
<1>4. Ends(s, failedSession(s, t))
  <2> DEFINE s1 == [s EXCEPT !.endTime = t, !.state = "FAILED"]
  <2>1. s1 \in SIPSession /\ s1.state = "FAILED"
    BY DEF SIPSession, SIPSessionState
  <2>2. failedSession(s, t) = [s1 EXCEPT !.setupTime = t]
    BY <2>1 DEF failedSession
  <2>3. [s1 EXCEPT !.setupTime = t] \in SIPSession
    BY <2>1 DEF SIPSession
  <2> QED BY <2>2, <2>3 DEF Ends, SIPSession, OpenStates
<1>5. s.state \in OpenStates => Continues(s, processInviteOK(s, t))
  BY DEF Continues, processInviteOK, SIPSession, SIPSessionState, OpenStates
<1> QED BY <1>1, <1>2, <1>3, <1>4, <1>5

-----------------------------------------------------------------------------
(* What the helpers do to the time stamps *)

\* AllStamped is StampsOrdered, strengthened.
LEMMA StampsFollow ==
    ASSUME AllStamped, TypeOK
    PROVE  StampsOrdered
<1>1. ASSUME NEW ref \in Allocated
      PROVE  heap[ref] \in SIPSession /\ Stamped(heap[ref], now) /\ now \in Nat
  BY <1>1 DEF TypeOK, AllStamped, Allocated
<1> QED BY <1>1 DEF StampsOrdered, Stamped, Within, SIPSession

\* Stamps that are in order stay in order when time passes.
LEMMA StampedLater ==
    ASSUME NEW s \in SIPSession, NEW t0 \in Nat, NEW t \in Nat,
           t0 <= t, Stamped(s, t0)
    PROVE  Stamped(s, t)
  BY DEF Stamped, Within, SIPSession

\* createSession starts with its stamps in order.
LEMMA StampedCreate ==
    ASSUME NEW c \in CallIDs, NEW method \in RequestMethods,
           NEW n \in Nat, NEW t \in Nat, t > 0
    PROVE  Stamped(createSession(c, method, n, t), t)
  BY DEF createSession, Stamped, Within

\* addMessage touches no stamp.
LEMMA StampedMessage ==
    ASSUME NEW s \in SIPSession, NEW n \in Nat, NEW t \in Nat, Stamped(s, t)
    PROVE  Stamped(addMessage(s, n), t)
  BY DEF Stamped, Within, SIPSession, addMessage

\* A response to an open session sets the time of the first response if it is
\* not set, and that alone.
LEMMA StampedResponse ==
    ASSUME NEW s \in SIPSession, NEW n \in Nat, NEW t \in Nat, t > 0,
           Stamped(s, t), s.endTime = 0
    PROVE  /\ Stamped(responseReceived(s, n, t), t)
           /\ responseReceived(s, n, t).firstResponseTime # 0
<1>1. /\ addMessage(s, n) \in SIPSession
      /\ Stamped(addMessage(s, n), t) /\ addMessage(s, n).endTime = 0
  BY AddMessageFacts, StampedMessage
<1> HIDE DEF addMessage
<1> QED BY <1>1 DEF responseReceived, Stamped, Within, SIPSession

\* The final responses set their stamps last; INVITE's OK sets the setup and
\* established times only of a session that was not disconnected.
LEMMA StampedFinal ==
    ASSUME NEW s \in SIPSession, NEW t \in Nat, t > 0, Stamped(s, t),
           s.endTime = 0, s.firstResponseTime # 0
    PROVE  /\ Stamped(processCancelOK(s, t), t)
           /\ Stamped(processByeOK(s, t), t)
           /\ Stamped(processOtherOK(s, t), t)
           /\ Stamped(failedSession(s, t), t)
           /\ Stamped(processInviteOK(s, t), t)
<1> USE DEF SIPSession, SIPSessionState, Stamped, Within
<1>1. Stamped(processCancelOK(s, t), t)
  BY DEF processCancelOK
<1>2. Stamped(processByeOK(s, t), t)
  BY DEF processByeOK
<1>3. Stamped(processOtherOK(s, t), t)
  BY DEF processOtherOK
<1>4. Stamped(failedSession(s, t), t)
  BY DEF failedSession
<1>5. Stamped(processInviteOK(s, t), t)
  BY DEF processInviteOK
<1> QED BY <1>1, <1>2, <1>3, <1>4, <1>5

\* BYE and CANCEL set the time of the disconnection.
LEMMA StampedBye ==
    ASSUME NEW s \in SIPSession, NEW t \in Nat, t > 0,
           Stamped(s, t), s.endTime = 0
    PROVE  Stamped([s EXCEPT !.disconnectionStart = t, !.state = "DISCONNECTING"], t)
  BY DEF SIPSession, SIPSessionState, Stamped, Within

\* The first 180 or 183 sets the setup time.
LEMMA StampedProvisional ==
    ASSUME NEW s \in SIPSession, NEW t \in Nat, t > 0, Stamped(s, t),
           s.endTime = 0, s.firstResponseTime # 0, s.state = "INITIATED"
    PROVE  Stamped([s EXCEPT !.setupTime = t, !.state = "PROVISIONED"], t)
  BY DEF SIPSession, SIPSessionState, Stamped, Within

\* A session grows by one message, with addMessage alone,
LEMMA MessageGrows ==
    ASSUME NEW s \in SIPSession, NEW n \in Nat, NEW t \in Nat
    PROVE  /\ s.state \in OpenStates => Continues(s, addMessage(s, n))
           /\ Grows(s, addMessage(s, n), n, t)
<1>1. addMessage(s, n).messages = s.messages \cup {n}
  BY DEF addMessage, SIPSession
<1>2. s.state \in OpenStates => Continues(s, addMessage(s, n))
  BY AddMessageFacts DEF Continues
<1> QED BY <1>1, <1>2, StampedMessage DEF Grows

\* as it does with any response, which also sets the first response time,
LEMMA ResponseGrows ==
    ASSUME NEW s \in SIPSession, NEW n \in Nat, NEW t \in Nat, t > 0
    PROVE  /\ Grows(s, responseReceived(s, n, t), n, t)
           /\ s.endTime = 0 /\ Stamped(s, t) =>
                responseReceived(s, n, t).firstResponseTime # 0
<1>1. addMessage(s, n) \in SIPSession
      /\ addMessage(s, n).messages = s.messages \cup {n}
  BY AddMessageFacts DEF addMessage, SIPSession
<1>2. responseReceived(s, n, t).messages = s.messages \cup {n}
  <2> HIDE DEF addMessage
  <2> QED BY <1>1 DEF responseReceived, SIPSession
<1> QED BY <1>2, StampedResponse DEF Grows

\* and with what the 200 and the failure responses do to it.
LEMMA FinalGrows ==
    ASSUME NEW old \in SIPSession, NEW n \in Nat, NEW t \in Nat, t > 0,
           NEW s, s = responseReceived(old, n, t)
    PROVE  /\ Grows(old, processCancelOK(s, t), n, t)
           /\ Grows(old, processByeOK(s, t), n, t)
           /\ Grows(old, processOtherOK(s, t), n, t)
           /\ Grows(old, failedSession(s, t), n, t)
           /\ Grows(old, processInviteOK(s, t), n, t)
<1>1. /\ s \in SIPSession /\ s.endTime = old.endTime
      /\ s.messages = old.messages \cup {n}
  BY ResponseReceivedFacts, ResponseGrows DEF Grows
<1>2. old.endTime = 0 /\ Stamped(old, t) =>
        Stamped(s, t) /\ s.firstResponseTime # 0
  BY StampedResponse
<1>3. /\ processCancelOK(s, t).messages = s.messages
      /\ processByeOK(s, t).messages = s.messages
      /\ processOtherOK(s, t).messages = s.messages
  BY <1>1 DEF processCancelOK, processByeOK, processOtherOK, SIPSession
<1>4. failedSession(s, t).messages = s.messages
  BY <1>1 DEF failedSession, SIPSession
<1>5. processInviteOK(s, t).messages = s.messages
  BY <1>1 DEF processInviteOK, SIPSession
<1> QED BY <1>1, <1>2, <1>3, <1>4, <1>5, StampedFinal DEF Grows

-----------------------------------------------------------------------------
\* Every step has one of the four shapes.  The branch of processAck that
\* terminates a FAILED session has none of them; it is never taken, because
\* no session in the list is FAILED.
LEMMA NextHasShape ==
    ASSUME IInv, Next
    PROVE  TypedStep
<1> USE HandlerAssumption DEF IInv, TypeOK
<1>1. PICK t \in now..(now + MaxGap) :
        \/ unparsablePacket(captured + 1, t)
        \/ \E c \in CallIDs :
              \/ processRequest(c, captured + 1, t)
              \/ \E code \in StatusCodes, method \in RequestMethods :
                    processResponse(c, code, method, captured + 1, t)
  BY DEF Next
<1> DEFINE n == captured + 1
<1>2. n \in Nat /\ t \in Nat /\ t >= now /\ t > 0 /\ n = captured + 1
  BY <1>1 DEF ClockStarted
<1>3. ASSUME onPacket(n, t)
      PROVE  now' \in Nat /\ now' >= now /\ now' = t /\ captured' = captured + 1
  BY <1>2, <1>3 DEF onPacket
<1>4. ASSUME NEW c \in CallIDs, sessionList[c] # null
      PROVE  /\ sessionList[c] \in SessionRefs
             /\ heap[sessionList[c]] \in SIPSession
             /\ heap[sessionList[c]].state \in OpenStates
  BY <1>4 DEF LiveSessionsOpen, Allocated
<1> HIDE DEF n
<1>5. CASE unparsablePacket(n, t)
  BY <1>2, <1>3, <1>5 DEF unparsablePacket, TypedStep, StepShape, NoSession
<1>6. ASSUME NEW c \in CallIDs, processInvite(c, n, t)
      PROVE  TypedStep
  <2>1. CASE sessionList[c] = null
    BY <1>2, <1>3, <1>6, <2>1 DEF processInvite, TypedStep, StepShape, Creates, updateSession
  <2>2. CASE sessionList[c] # null
    <3>1. /\ Continues(heap[sessionList[c]], addMessage(heap[sessionList[c]], n))
          /\ Grows(heap[sessionList[c]], addMessage(heap[sessionList[c]], n), n, t)
      BY <1>2, <1>4, <2>2, MessageGrows
    <3> QED BY <1>2, <1>3, <1>6, <2>2, <3>1
            DEF processInvite, TypedStep, StepShape, updateSession
  <2> QED BY <2>1, <2>2
<1>7. ASSUME NEW c \in CallIDs, processAck(c, n, t)
      PROVE  TypedStep
  <2>1. CASE sessionList[c] = null
    BY <1>2, <1>3, <1>7, <2>1 DEF processAck, TypedStep, StepShape, NoSession
  <2>2. CASE sessionList[c] # null
    <3>1. /\ Continues(heap[sessionList[c]], addMessage(heap[sessionList[c]], n))
          /\ Grows(heap[sessionList[c]], addMessage(heap[sessionList[c]], n), n, t)
      BY <1>2, <1>4, <2>2, MessageGrows
    <3>2. heap[sessionList[c]].state # "FAILED"
      BY <1>4, <2>2 DEF OpenStates
    <3> QED BY <1>2, <1>3, <1>7, <2>2, <3>1, <3>2
            DEF processAck, TypedStep, StepShape, updateSession
  <2> QED BY <2>1, <2>2
<1>8. ASSUME NEW c \in CallIDs, processDisconnectRequest(c, n, t)
      PROVE  TypedStep
  <2>1. CASE sessionList[c] = null
    BY <1>2, <1>3, <1>8, <2>1 DEF processDisconnectRequest, TypedStep, StepShape, NoSession
  <2>2. CASE sessionList[c] # null
    <3> DEFINE old == heap[sessionList[c]]
               m == addMessage(old, n)
               s == [m EXCEPT !.disconnectionStart = t, !.state = "DISCONNECTING"]
    <3>1. m \in SIPSession /\ m.callId = old.callId /\ m.endTime = old.endTime
      BY <1>2, <1>4, <2>2, AddMessageFacts
    <3>2. updateSession(sessionList[c], s)
      BY <1>8, <2>2 DEF processDisconnectRequest
    <3>5. Grows(old, m, n, t)
      BY <1>2, <1>4, <2>2, MessageGrows
    <3> HIDE DEF m, old
    <3>3. s \in SIPSession /\ s.messages = m.messages
      BY <1>2, <3>1 DEF SIPSession, SIPSessionState
    <3>4. Continues(old, s)
      BY <3>1, <3>3 DEF Continues, SIPSession, OpenStates
    <3>6. Grows(old, s, n, t)
      BY <1>2, <3>1, <3>3, <3>5, StampedBye DEF Grows
    <3> HIDE DEF s
    <3> QED BY <1>2, <1>3, <1>8, <2>2, <3>2, <3>4, <3>6
            DEF processDisconnectRequest, TypedStep, StepShape, updateSession, old
  <2> QED BY <2>1, <2>2
<1>9. ASSUME NEW c \in CallIDs, processOtherRequest(c, n, t)
      PROVE  TypedStep
  BY <1>2, <1>3, <1>9 DEF processOtherRequest, TypedStep, StepShape, Creates
<1>10. ASSUME NEW c \in CallIDs, NEW code \in StatusCodes,
              NEW method \in RequestMethods,
              processResponse(c, code, method, n, t)
      PROVE  TypedStep
  <2>1. CASE sendStandalone(c, n, t)
    BY <1>2, <1>3, <2>1 DEF sendStandalone, TypedStep, StepShape, NoSession
  <2> DEFINE old == heap[sessionList[c]]
             s == responseReceived(old, n, t)
  <2>2. ASSUME sessionList[c] # null
        PROVE  /\ s \in SIPSession /\ s.callId = old.callId
               /\ s.state \in OpenStates /\ s.endTime = old.endTime
    <3>1. old \in SIPSession /\ old.state \in OpenStates
      BY <1>4, <2>2
    <3> HIDE DEF old
    <3> QED BY <1>2, <3>1, ResponseReceivedFacts
  <2>3. ASSUME sessionList[c] # null
        PROVE  /\ Continues(old, s)
               /\ Continues(old, processInviteOK(s, t))
               /\ Ends(old, processCancelOK(s, t))
               /\ Ends(old, processByeOK(s, t))
               /\ Ends(old, processOtherOK(s, t))
               /\ Ends(old, failedSession(s, t))
               /\ Grows(old, s, n, t)
               /\ old.endTime = 0 /\ Stamped(old, t) => s.firstResponseTime # 0
               /\ Grows(old, processInviteOK(s, t), n, t)
               /\ Grows(old, processCancelOK(s, t), n, t)
               /\ Grows(old, processByeOK(s, t), n, t)
               /\ Grows(old, processOtherOK(s, t), n, t)
               /\ Grows(old, failedSession(s, t), n, t)
    <3>1. s \in SIPSession /\ s.callId = old.callId
          /\ s.state \in OpenStates /\ s.endTime = old.endTime
      BY <2>2, <2>3
    <3>2. /\ Ends(s, processCancelOK(s, t)) /\ Ends(s, processByeOK(s, t))
          /\ Ends(s, processOtherOK(s, t)) /\ Ends(s, failedSession(s, t))
          /\ Continues(s, processInviteOK(s, t))
      BY <1>2, <3>1, FinalResponseFacts
    <3>3. old \in SIPSession
      BY <1>4, <2>3
    <3>4. /\ Grows(old, s, n, t)
          /\ old.endTime = 0 /\ Stamped(old, t) => s.firstResponseTime # 0
      BY <1>2, <3>3, ResponseGrows
    <3>5. /\ Grows(old, processInviteOK(s, t), n, t)
          /\ Grows(old, processCancelOK(s, t), n, t)
          /\ Grows(old, processByeOK(s, t), n, t)
          /\ Grows(old, processOtherOK(s, t), n, t)
          /\ Grows(old, failedSession(s, t), n, t)
      BY <1>2, <3>3, FinalGrows
    <3> QED BY <3>1, <3>2, <3>4, <3>5 DEF Continues, Ends
  <2> HIDE DEF s
  <2>4. CASE processProvisionalResponse(c, code, n, t)
    <3> DEFINE u == IF code \in {180, 183} /\ s.state = "INITIATED"
                    THEN [s EXCEPT !.setupTime = t, !.state = "PROVISIONED"]
                    ELSE s
    <3>1. sessionList[c] # null /\ updateSession(sessionList[c], u)
      BY <2>4 DEF processProvisionalResponse, s
    <3>2. Continues(old, u)
      BY <1>2, <2>2, <3>1 DEF Continues, SIPSession, SIPSessionState, OpenStates
    <3>3. old \in SIPSession /\ Grows(old, s, n, t) /\ s \in SIPSession
          /\ (old.endTime = 0 /\ Stamped(old, t) =>
                s.endTime = 0 /\ s.firstResponseTime # 0)
      <4>1. old \in SIPSession
        BY <1>4, <3>1
      <4>2. Grows(old, s, n, t) /\ s \in SIPSession
        BY <2>2, <2>3, <3>1
      <4>3. old.endTime = 0 /\ Stamped(old, t) =>
                s.endTime = 0 /\ s.firstResponseTime # 0
        BY <2>2, <2>3, <3>1
      <4> QED BY <4>1, <4>2, <4>3
    <3>4. Grows(old, u, n, t)
      <4>1. CASE code \in {180, 183} /\ s.state = "INITIATED"
        <5>1. u = [s EXCEPT !.setupTime = t, !.state = "PROVISIONED"]
              /\ u.messages = s.messages
          BY <3>3, <4>1 DEF SIPSession
        <5> QED BY <1>2, <3>3, <4>1, <5>1, StampedProvisional DEF Grows
      <4>2. CASE ~(code \in {180, 183} /\ s.state = "INITIATED")
        BY <3>3, <4>2
      <4> QED BY <4>1, <4>2
    <3> HIDE DEF u
    <3> QED BY <1>2, <1>3, <2>4, <3>1, <3>2, <3>4
            DEF processProvisionalResponse, TypedStep, StepShape, updateSession
  <2>5. CASE processSucessfulResponse(c, code, method, n, t)
    <3>1. sessionList[c] # null /\ onPacket(n, t)
          /\ UNCHANGED <<standalone, ignored>>
      BY <2>5 DEF processSucessfulResponse
    <3>2. \/ updateSession(sessionList[c], s)
          \/ updateSession(sessionList[c], processInviteOK(s, t))
          \/ terminateSession(sessionList[c], processCancelOK(s, t))
          \/ terminateSession(sessionList[c], processByeOK(s, t))
          \/ terminateSession(sessionList[c], processOtherOK(s, t))
      BY <2>5 DEF processSucessfulResponse, s
    <3>3. refused' \subseteq SessionRefs
      BY <1>4, <3>1, <3>2 DEF updateSession, terminateSession
    <3>4. StepShape
      BY <1>2, <1>3, <2>3, <3>1, <3>2 DEF StepShape
    <3> QED BY <1>3, <3>1, <3>3, <3>4 DEF TypedStep
  <2>6. CASE processRedirectionResponse(c, code, n, t)
    BY <1>2, <1>3, <2>3, <2>6
       DEF processRedirectionResponse, TypedStep, StepShape, updateSession, s
  <2>7. CASE processFailureResponse(c, code, n, t)
    <3>1. sessionList[c] # null /\ onPacket(n, t)
          /\ UNCHANGED <<standalone, ignored>>
          /\ terminateSession(sessionList[c], failedSession(s, t))
      BY <2>7 DEF processFailureResponse, s
    <3>2. refused' \subseteq SessionRefs
      BY <1>4, <3>1 DEF terminateSession
    <3> QED BY <1>2, <1>3, <2>3, <3>1, <3>2 DEF TypedStep, StepShape
  <2> QED BY <1>10, <2>1, <2>4, <2>5, <2>6, <2>7 DEF processResponse
<1> QED
  BY <1>1, <1>5, <1>6, <1>7, <1>8, <1>9, <1>10 DEF processRequest, n

-----------------------------------------------------------------------------
\* The initial state, an empty session list, satisfies the invariant.
LEMMA InitIInv == Init => IInv
  BY HandlerAssumption
     DEF Init, IInv, TypeOK, ClockStarted, FreshUnsent, LiveSessionsOpen,
         SentOnce, EndedIffSent, Allocated, Live

\* A new session is created under a Call-ID.
LEMMA CreatesIInv ==
    ASSUME IInv, TypedStep,
           NEW c \in CallIDs, NEW method \in {"INVITE", "OTHER"},
           NEW n \in Nat, NEW t \in Nat, Creates(c, method, n, t)
    PROVE  IInv'
<1>1. PICK ref \in SessionRefs :
        /\ heap[ref] = null
        /\ heap' = [heap EXCEPT ![ref] = createSession(c, method, n, t)]
        /\ sessionList' = [sessionList EXCEPT ![c] = ref]
  BY DEF Creates, addSession
<1> DEFINE new == createSession(c, method, n, t)
<1>2. /\ new \in SIPSession /\ new # null /\ new.callId = c
      /\ new.state = "INITIATED" /\ new.endTime = 0
  BY CreateType DEF RequestMethods
<1> HIDE DEF new
<1>3. sendCalls' = sendCalls /\ sendCalls[ref] = 0
  BY <1>1 DEF IInv, FreshUnsent, Creates
<1>4. TypeOK'
  BY <1>1, <1>2, <1>3 DEF IInv, TypeOK, TypedStep, new
<1>5. ClockStarted'
  BY DEF IInv, TypeOK, ClockStarted, TypedStep
<1>6. /\ heap'[ref] = new
      /\ \A r \in SessionRefs \ {ref} : heap'[r] = heap[r]
      /\ sessionList'[c] = ref
      /\ \A d \in CallIDs \ {c} : sessionList'[d] = sessionList[d]
  BY <1>1 DEF IInv, TypeOK, new
<1>7. FreshUnsent'
  BY <1>2, <1>3, <1>6 DEF IInv, FreshUnsent
<1>8. LiveSessionsOpen'
  <2> SUFFICES ASSUME NEW d \in CallIDs, sessionList'[d] # null
               PROVE  /\ sessionList'[d] \in SessionRefs
                      /\ heap'[sessionList'[d]] # null
                      /\ heap'[sessionList'[d]].callId = d
                      /\ heap'[sessionList'[d]].state \in OpenStates
    BY DEF LiveSessionsOpen, Allocated
  <2>1. CASE d = c
    BY <1>2, <1>6, <2>1 DEF OpenStates
  <2>2. CASE d # c
    <3>1. /\ sessionList'[d] = sessionList[d] /\ sessionList[d] \in SessionRefs
          /\ heap[sessionList[d]] # null
      BY <1>6, <2>2 DEF IInv, LiveSessionsOpen, Allocated
    <3>2. sessionList[d] # ref
      BY <1>1, <3>1
    <3> QED BY <1>6, <2>2, <3>1, <3>2 DEF IInv, LiveSessionsOpen
  <2> QED BY <2>1, <2>2
<1>9. SentOnce'
  <2> SUFFICES ASSUME NEW r \in SessionRefs, sendCalls[r] > 0
               PROVE  /\ sendCalls[r] = 1
                      /\ \A d \in CallIDs : sessionList'[d] # r
    BY <1>3 DEF SentOnce, Live
  <2>1. r # ref
    BY <1>3
  <2> QED BY <1>6, <2>1 DEF IInv, SentOnce, Live
<1>10. EndedIffSent'
  BY <1>2, <1>3, <1>6 DEF IInv, EndedIffSent, Allocated, OpenStates
<1> QED BY <1>4, <1>5, <1>7, <1>8, <1>9, <1>10 DEF IInv

\* A live session changes and stays in the list.
LEMMA UpdatesIInv ==
    ASSUME IInv, TypedStep, NEW c \in CallIDs, NEW s, sessionList[c] # null,
           Continues(heap[sessionList[c]], s), updateSession(sessionList[c], s)
    PROVE  IInv'
<1> DEFINE ref == sessionList[c]
<1>1. /\ ref \in SessionRefs /\ heap[ref] # null /\ heap[ref] \in SIPSession
      /\ heap[ref].callId = c /\ heap[ref].state \in OpenStates
      /\ s \in SIPSession /\ s # null
      /\ s.callId = c /\ s.state \in OpenStates /\ s.endTime = heap[ref].endTime
  BY NullAssumption
     DEF IInv, TypeOK, LiveSessionsOpen, Allocated, Continues
<1>2. /\ heap' = [heap EXCEPT ![ref] = s]
      /\ sessionList' = sessionList /\ sendCalls' = sendCalls
  BY DEF updateSession
<1> HIDE DEF ref
<1>3. TypeOK'
  BY <1>1, <1>2 DEF IInv, TypeOK, TypedStep
<1>4. ClockStarted'
  BY DEF IInv, TypeOK, ClockStarted, TypedStep
<1>5. heap'[ref] = s /\ \A r \in SessionRefs \ {ref} : heap'[r] = heap[r]
  BY <1>1, <1>2 DEF IInv, TypeOK
<1>6. FreshUnsent'
  BY <1>1, <1>2, <1>5 DEF IInv, FreshUnsent
<1>7. LiveSessionsOpen'
  BY <1>1, <1>2, <1>5 DEF IInv, LiveSessionsOpen, Allocated
<1>8. SentOnce'
  BY <1>2 DEF IInv, SentOnce, Live
<1>9. EndedIffSent'
  BY <1>1, <1>2, <1>5 DEF IInv, EndedIffSent, Allocated
<1> QED BY <1>3, <1>4, <1>6, <1>7, <1>8, <1>9 DEF IInv

\* A live session ends, is given to the Sender and leaves the list.
LEMMA TerminatesIInv ==
    ASSUME IInv, TypedStep, NEW c \in CallIDs, NEW s, sessionList[c] # null,
           Ends(heap[sessionList[c]], s), terminateSession(sessionList[c], s)
    PROVE  IInv'
<1> DEFINE ref == sessionList[c]
<1>1. /\ ref \in SessionRefs /\ heap[ref] # null
      /\ heap[ref].callId = c /\ heap[ref].state \in OpenStates
      /\ s \in SIPSession /\ s # null
      /\ s.callId = c /\ s.state \notin OpenStates /\ s.endTime # 0
  BY NullAssumption DEF IInv, LiveSessionsOpen, Allocated, Ends
<1>2. sendCalls[ref] = 0
  BY <1>1 DEF IInv, EndedIffSent, Allocated
<1>3. /\ heap' = [heap EXCEPT ![ref] = s]
      /\ sessionList' = [sessionList EXCEPT ![c] = null]
      /\ sendCalls' = [sendCalls EXCEPT ![ref] = @ + 1]
  BY <1>1 DEF terminateSession
<1>4. \A d \in CallIDs : sessionList[d] = ref => d = c
  BY <1>1 DEF IInv, LiveSessionsOpen
<1> HIDE DEF ref
<1>5. TypeOK'
  BY <1>1, <1>3 DEF IInv, TypeOK, TypedStep
<1>6. ClockStarted'
  BY DEF IInv, TypeOK, ClockStarted, TypedStep
<1>7. /\ heap'[ref] = s /\ \A r \in SessionRefs \ {ref} : heap'[r] = heap[r]
      /\ sendCalls'[ref] = 1
      /\ \A r \in SessionRefs \ {ref} : sendCalls'[r] = sendCalls[r]
      /\ sessionList'[c] = null
      /\ \A d \in CallIDs \ {c} : sessionList'[d] = sessionList[d]
  BY <1>1, <1>2, <1>3 DEF IInv, TypeOK
<1>8. FreshUnsent'
  BY <1>1, <1>7 DEF IInv, FreshUnsent
<1>9. LiveSessionsOpen'
  BY <1>4, <1>7 DEF IInv, LiveSessionsOpen, Allocated
<1>10. SentOnce'
  <2>1. ref \notin Live'
    BY <1>4, <1>7, HandlerAssumption, <1>1 DEF Live
  <2>2. ASSUME NEW r \in SessionRefs, r \in Live'
        PROVE  r \in Live
    BY <1>7, <2>2, HandlerAssumption DEF Live
  <2> QED BY <1>7, <2>1, <2>2 DEF IInv, SentOnce
<1>11. EndedIffSent'
  BY <1>1, <1>7 DEF IInv, EndedIffSent, Allocated
<1> QED BY <1>5, <1>6, <1>8, <1>9, <1>10, <1>11 DEF IInv

\* The invariant is inductive.
LEMMA NextIInv == IInv /\ [Next]_vars => IInv'
<1> SUFFICES ASSUME IInv, [Next]_vars PROVE IInv'
  OBVIOUS
<1>1. CASE Next
  <2>1. TypedStep
    BY <1>1, NextHasShape
  <2>2. CASE NoSession
    BY <2>1, <2>2
       DEF IInv, TypedStep, NoSession, TypeOK, ClockStarted, FreshUnsent,
           LiveSessionsOpen, SentOnce, EndedIffSent, Allocated, Live
  <2> QED BY <2>1, <2>2, CreatesIInv, UpdatesIInv, TerminatesIInv
          DEF TypedStep, StepShape
<1>2. CASE UNCHANGED vars
  BY <1>2 DEF vars, IInv, TypeOK, ClockStarted, FreshUnsent, LiveSessionsOpen,
              SentOnce, EndedIffSent, Allocated, Live
<1> QED BY <1>1, <1>2

LEMMA AlwaysIInv == Spec => []IInv
  BY InitIInv, NextIInv, PTL DEF Spec

-----------------------------------------------------------------------------
\* Every field of SIPHandler and of its sessions keeps its type.
THEOREM TypeCorrect == Spec => []TypeOK
<1>1. IInv => TypeOK
  BY DEF IInv
<1> QED BY <1>1, AlwaysIInv, PTL

\* getSession only ever finds an open session, and the one of the Call-ID that
\* was asked for.
THEOREM LiveSessionsAreOpen == Spec => []LiveSessionsOpen
<1>1. IInv => LiveSessionsOpen
  BY DEF IInv
<1> QED BY <1>1, AlwaysIInv, PTL

\* No session is given to the Sender twice.
THEOREM SessionsSentOnce == Spec => []SentOnce
<1>1. IInv => SentOnce
  BY DEF IInv
<1> QED BY <1>1, AlwaysIInv, PTL

\* A session has ended exactly when it was given to the Sender.
THEOREM SessionsEndWhenSent == Spec => []EndedIffSent
<1>1. IInv => EndedIffSent
  BY DEF IInv
<1> QED BY <1>1, AlwaysIInv, PTL

\* No packet changes a session object after it was given to the Sender.
THEOREM SentSessionsFrozen == Spec => HandedOffFrozen
<1>1. IInv /\ [Next]_vars =>
        [\A ref \in SessionRefs : sendCalls[ref] > 0 => heap'[ref] = heap[ref]]_vars
  <2> SUFFICES ASSUME IInv, Next, NEW ref \in SessionRefs, sendCalls[ref] > 0
               PROVE  heap'[ref] = heap[ref]
    OBVIOUS
  <2>1. StepShape
    BY NextHasShape DEF TypedStep
  <2>2. /\ \A c \in CallIDs : sessionList[c] # ref
        /\ heap[ref] # null
    BY DEF IInv, TypeOK, SentOnce, Live, FreshUnsent
  <2> QED BY <2>1, <2>2 DEF IInv, TypeOK, StepShape, NoSession, Creates,
                            addSession, updateSession, terminateSession
<1> QED BY <1>1, AlwaysIInv, PTL DEF Spec, HandedOffFrozen

\* A session leaves the list by being sent or by being replaced.
THEOREM SessionsLeaveBySendOrReplacement == Spec => LeavesBySendOrReplacement
<1> DEFINE Leaves(c) ==
      LET ref == sessionList[c]
          new == sessionList'[c]
      IN  ref # null /\ new # ref =>
            \/ new = null /\ sendCalls'[ref] = sendCalls[ref] + 1
            \/ /\ new # null
               /\ heap[new] = null
               /\ heap'[new].requestMethod = "OTHER"
<1>1. IInv /\ [Next]_vars => [\A c \in CallIDs : Leaves(c)]_vars
  <2> SUFFICES ASSUME IInv, Next, NEW c \in CallIDs,
                      sessionList[c] # null, sessionList'[c] # sessionList[c]
               PROVE  \/ /\ sessionList'[c] = null
                         /\ sendCalls'[sessionList[c]] = sendCalls[sessionList[c]] + 1
                      \/ /\ sessionList'[c] # null
                         /\ heap[sessionList'[c]] = null
                         /\ heap'[sessionList'[c]].requestMethod = "OTHER"
    OBVIOUS
  <2>1. StepShape
    BY NextHasShape DEF TypedStep
  <2>2. ~ NoSession
    BY DEF NoSession
  <2>3. ASSUME NEW d \in CallIDs, NEW s, updateSession(sessionList[d], s)
        PROVE  FALSE
    BY <2>3 DEF updateSession
  <2>4. ASSUME NEW d \in CallIDs, NEW method \in {"INVITE", "OTHER"},
               NEW n \in Nat, NEW t \in Nat,
               Creates(d, method, n, t), method = "INVITE" => sessionList[d] = null
        PROVE  /\ sessionList'[c] # null
               /\ heap[sessionList'[c]] = null
               /\ heap'[sessionList'[c]].requestMethod = "OTHER"
    <3>1. d = c /\ method = "OTHER"
      BY <2>4 DEF Creates, addSession, IInv, TypeOK
    <3>2. createSession(c, method, n, t).requestMethod = "OTHER"
      BY <3>1, CreateType DEF RequestMethods
    <3> QED BY <2>4, <3>1, <3>2, HandlerAssumption
            DEF Creates, addSession, IInv, TypeOK
  <2>5. ASSUME NEW d \in CallIDs, NEW s, sessionList[d] # null,
               Ends(heap[sessionList[d]], s), terminateSession(sessionList[d], s)
        PROVE  /\ sessionList'[c] = null
               /\ sendCalls'[sessionList[c]] = sendCalls[sessionList[c]] + 1
    <3>1. s.callId = d
      BY <2>5 DEF Ends, IInv, LiveSessionsOpen
    <3>2. sessionList' = [sessionList EXCEPT ![d] = null] /\ d = c
      BY <2>5, <3>1 DEF terminateSession, IInv, TypeOK
    <3> QED BY <2>5, <3>2 DEF terminateSession, IInv, TypeOK
  <2> QED BY <2>1, <2>2, <2>3, <2>4, <2>5 DEF StepShape
<1> QED BY <1>1, AlwaysIInv, PTL DEF Spec, LeavesBySendOrReplacement

-----------------------------------------------------------------------------
(* Two more invariants, from the shapes of the steps *)

\* Every step keeps the time stamps of every session in order.
LEMMA NextStamped ==
    IInv /\ AllStamped /\ [Next]_vars => AllStamped'
<1> SUFFICES ASSUME IInv, AllStamped, [Next]_vars PROVE AllStamped'
  OBVIOUS
<1>1. CASE UNCHANGED vars
  BY <1>1 DEF vars, AllStamped
<1>2. CASE Next
  <2>1. TypedStep
    BY <1>2, NextHasShape
  <2>2. now \in Nat /\ now' \in Nat /\ now <= now' /\ now > 0 /\ captured \in Nat
    BY <2>1 DEF TypedStep, IInv, TypeOK, ClockStarted
  <2>3. ASSUME NEW ref \in SessionRefs, heap[ref] # null
        PROVE  heap[ref] \in SIPSession /\ Stamped(heap[ref], now')
    <3>1. heap[ref] \in SIPSession /\ Stamped(heap[ref], now)
      BY <2>3 DEF IInv, TypeOK, AllStamped
    <3> QED BY <2>2, <3>1, StampedLater
  <2>4. CASE NoSession
    BY <2>3, <2>4 DEF NoSession, AllStamped
  <2>5. ASSUME NEW c \in CallIDs, NEW method \in {"INVITE", "OTHER"},
               NEW n \in Nat, Creates(c, method, n, now')
        PROVE  AllStamped'
    <3>1. Stamped(createSession(c, method, n, now'), now')
      BY <2>2, StampedCreate DEF RequestMethods
    <3> HIDE DEF createSession
    <3>2. PICK ref \in SessionRefs :
            heap' = [heap EXCEPT ![ref] = createSession(c, method, n, now')]
      BY <2>5 DEF Creates, addSession
    <3> QED BY <2>3, <3>1, <3>2 DEF AllStamped, IInv, TypeOK
  <2>6. ASSUME NEW c \in CallIDs, NEW s, sessionList[c] # null,
               Grows(heap[sessionList[c]], s, captured + 1, now'),
               heap' = [heap EXCEPT ![sessionList[c]] = s]
        PROVE  AllStamped'
    <3>1. /\ sessionList[c] \in SessionRefs /\ heap[sessionList[c]] # null
          /\ heap[sessionList[c]].endTime = 0
      BY <2>6 DEF IInv, TypeOK, LiveSessionsOpen, Allocated, EndedIffSent
    <3>2. Stamped(s, now')
      BY <2>3, <2>6, <3>1 DEF Grows
    <3> QED BY <2>3, <2>6, <3>1, <3>2 DEF AllStamped, IInv, TypeOK
  <2> QED BY <2>1, <2>4, <2>5, <2>6
          DEF TypedStep, StepShape, updateSession, terminateSession
<1> QED BY <1>1, <1>2

\* The time stamps that the metrics subtract are in order.
THEOREM StampsAreOrdered == Spec => []StampsOrdered
<1>1. Init => AllStamped
  BY DEF Init, AllStamped
<1>2. IInv /\ AllStamped => StampsOrdered
  BY StampsFollow DEF IInv
<1> QED BY <1>1, <1>2, NextStamped, AlwaysIInv, PTL DEF Spec

-----------------------------------------------------------------------------
(* Every packet is filed once *)

\* Packet n is filed in session ref and in no other.
Files(ref, n) ==
    /\ MessagesOf(ref)' = MessagesOf(ref) \cup {n}
    /\ \A r \in SessionRefs \ {ref} : MessagesOf(r)' = MessagesOf(r)

\* What a step does with its packet: ignores it, passes it on, or files it.
FilesPacket ==
    /\ captured' = captured + 1
    /\ \/ /\ \A r \in SessionRefs : MessagesOf(r)' = MessagesOf(r)
          /\ \/ /\ ignored' = ignored \cup {captured + 1}
                /\ UNCHANGED standalone
             \/ /\ standalone' = standalone \cup {captured + 1}
                /\ UNCHANGED ignored
       \/ \E ref \in SessionRefs :
             /\ Files(ref, captured + 1)
             /\ UNCHANGED <<standalone, ignored>>

\* Every step does one of these.
LEMMA NextFilesPacket ==
    ASSUME IInv, Next
    PROVE  FilesPacket
<1>1. TypedStep
  BY NextHasShape
<1>2. captured' = captured + 1
  BY <1>1 DEF TypedStep
<1>3. CASE NoSession
  BY <1>2, <1>3 DEF NoSession, FilesPacket, MessagesOf
<1>4. ASSUME NEW c \in CallIDs, NEW method \in {"INVITE", "OTHER"},
             NEW n \in Nat, NEW t \in Nat, n = captured + 1, Creates(c, method, n, t),
             UNCHANGED <<standalone, ignored>>
      PROVE  FilesPacket
  <2> DEFINE new == createSession(c, method, n, t)
  <2>1. new.messages = {n} /\ new # null
    BY CreateType DEF createSession, RequestMethods
  <2> HIDE DEF new
  <2>2. PICK ref \in SessionRefs :
          heap[ref] = null /\ heap' = [heap EXCEPT ![ref] = new]
    BY <1>4 DEF Creates, addSession, new
  <2>3. Files(ref, n)
    BY <2>1, <2>2 DEF Files, MessagesOf, IInv, TypeOK
  <2> QED BY <1>2, <1>4, <2>3 DEF FilesPacket
<1>5. ASSUME NEW c \in CallIDs, NEW s \in SIPSession, sessionList[c] # null,
             Grows(heap[sessionList[c]], s, captured + 1, now'),
             heap' = [heap EXCEPT ![sessionList[c]] = s],
             UNCHANGED <<standalone, ignored>>
      PROVE  FilesPacket
  <2>1. PICK ref \in SessionRefs : ref = sessionList[c]
    BY <1>5 DEF IInv, TypeOK
  <2>2. heap[ref] # null /\ s # null
    BY <1>5, <2>1, NullAssumption DEF IInv, LiveSessionsOpen, Allocated
  <2>3. heap'[ref] = s /\ \A r \in SessionRefs \ {ref} : heap'[r] = heap[r]
    BY <1>5, <2>1 DEF IInv, TypeOK
  <2>4. s.messages = heap[ref].messages \cup {captured + 1}
    BY <1>5, <2>1 DEF Grows
  <2>5. Files(ref, captured + 1)
    BY <2>2, <2>3, <2>4 DEF Files, MessagesOf
  <2> QED BY <1>2, <1>5, <2>5 DEF FilesPacket
<1> QED BY <1>1, <1>3, <1>4, <1>5
        DEF TypedStep, StepShape, updateSession, terminateSession, Continues, Ends

\* Filing the next packet, which is in no session, standalone or ignored yet,
\* in one place keeps every packet in one place.
LEMMA FilesOnce ==
    ASSUME captured \in Nat, PacketFiledOnce, FilesPacket
    PROVE  PacketFiledOnce'
<1> DEFINE n == captured + 1
<1>1. /\ \A x : x \in 1..captured' <=> x \in 1..captured \/ x = n
      /\ n \notin 1..captured
  BY DEF FilesPacket
<1>2. \A x : x \in 1..captured <=>
        \/ x \in standalone \/ x \in ignored
        \/ \E r \in SessionRefs : x \in MessagesOf(r)
  BY DEF PacketFiledOnce
<1>3. /\ n \notin standalone /\ n \notin ignored
      /\ \A r \in SessionRefs : n \notin MessagesOf(r)
  BY <1>1, <1>2
<1>4. /\ \A x : ~ (x \in standalone /\ x \in ignored)
      /\ \A x : \A r \in SessionRefs :
            x \in MessagesOf(r) => x \notin standalone /\ x \notin ignored
      /\ \A x : \A r1, r2 \in SessionRefs :
            x \in MessagesOf(r1) /\ x \in MessagesOf(r2) => r1 = r2
  BY DEF PacketFiledOnce
<1> SUFFICES
      /\ \A x : x \in 1..captured' <=>
            \/ x \in standalone' \/ x \in ignored'
            \/ \E r \in SessionRefs : x \in MessagesOf(r)'
      /\ \A x : ~ (x \in standalone' /\ x \in ignored')
      /\ \A x : \A r \in SessionRefs :
            x \in MessagesOf(r)' => x \notin standalone' /\ x \notin ignored'
      /\ \A x : \A r1, r2 \in SessionRefs :
            x \in MessagesOf(r1)' /\ x \in MessagesOf(r2)' => r1 = r2
  BY DEF PacketFiledOnce
<1>5. CASE \A r \in SessionRefs : MessagesOf(r)' = MessagesOf(r)
  <2>1. ~ \E ref \in SessionRefs : Files(ref, n)
    <3> SUFFICES ASSUME NEW ref \in SessionRefs, Files(ref, n) PROVE FALSE
      OBVIOUS
    <3>1. n \in MessagesOf(ref)'
      BY DEF Files
    <3> QED BY <1>3, <1>5, <3>1
  <2>2. \/ standalone' = standalone /\ ignored' = ignored \cup {n}
        \/ ignored' = ignored /\ standalone' = standalone \cup {n}
    BY <2>1 DEF FilesPacket
  <2> QED BY <1>1, <1>2, <1>3, <1>4, <1>5, <2>2
<1>6. ASSUME NEW ref \in SessionRefs, Files(ref, n), UNCHANGED <<standalone, ignored>>
      PROVE  /\ \A x : x \in 1..captured' <=>
                    \/ x \in standalone' \/ x \in ignored'
                    \/ \E r \in SessionRefs : x \in MessagesOf(r)'
             /\ \A x : ~ (x \in standalone' /\ x \in ignored')
             /\ \A x : \A r \in SessionRefs :
                    x \in MessagesOf(r)' => x \notin standalone' /\ x \notin ignored'
             /\ \A x : \A r1, r2 \in SessionRefs :
                    x \in MessagesOf(r1)' /\ x \in MessagesOf(r2)' => r1 = r2
  <2>1. \A x : \A r \in SessionRefs :
          x \in MessagesOf(r)' <=> x \in MessagesOf(r) \/ (r = ref /\ x = n)
    BY <1>6 DEF Files
  <2> QED BY <1>1, <1>2, <1>3, <1>4, <1>6, <2>1
<1> QED BY <1>5, <1>6 DEF FilesPacket

\* Every packet is in one session, passed on, or ignored.
THEOREM PacketsFiledOnce == Spec => []PacketFiledOnce
<1>1. Init => PacketFiledOnce
  BY DEF Init, PacketFiledOnce, MessagesOf
<1>2. IInv /\ PacketFiledOnce /\ [Next]_vars => PacketFiledOnce'
  <2> SUFFICES ASSUME IInv, PacketFiledOnce, [Next]_vars PROVE PacketFiledOnce'
    OBVIOUS
  <2>1. CASE Next
    BY <2>1, NextFilesPacket, FilesOnce DEF IInv, TypeOK
  <2>2. CASE UNCHANGED vars
    BY <2>2 DEF vars, PacketFiledOnce, MessagesOf
  <2> QED BY <2>1, <2>2
<1> QED BY <1>1, <1>2, AlwaysIInv, PTL DEF Spec
-----------------------------------------------------------------------------
(* The handler implements CallTracking *)

\* The phases as CallTracking sees them.
phases == [ref \in SessionRefs |-> phaseOf(ref)]
calls == [ref \in SessionRefs |-> IF heap[ref] = null THEN null ELSE heap[ref].callId]
files == [ref \in SessionRefs |-> MessagesOf(ref)]

\* The open session of a Call-ID is the one in sessionList.
LEMMA OpenIsListed ==
    ASSUME IInv, NEW c \in CallIDs
    PROVE  \A ref \in SessionRefs :
              phases[ref] = "open" /\ calls[ref] = c <=> ref = sessionList[c]
<1> SUFFICES ASSUME NEW ref \in SessionRefs
             PROVE  phases[ref] = "open" /\ calls[ref] = c <=> ref = sessionList[c]
  OBVIOUS
<1>1. phases[ref] = phaseOf(ref)
      /\ calls[ref] = IF heap[ref] = null THEN null ELSE heap[ref].callId
  BY DEF phases, calls
<1>2. CASE ref = sessionList[c]
  <2>1. ref \in Allocated /\ heap[ref].callId = c /\ heap[ref].state \in OpenStates
        /\ ref # null
    BY <1>2, HandlerAssumption DEF IInv, LiveSessionsOpen
  <2>2. ~ sendCalls[ref] > 0
    BY <2>1 DEF IInv, EndedIffSent, TypeOK
  <2> QED BY <1>1, <1>2, <2>1, <2>2 DEF phaseOf, Allocated, Live
<1>3. ASSUME phases[ref] = "open", calls[ref] = c
      PROVE  ref = sessionList[c]
  <2>1. heap[ref] # null /\ ref \in Live
    BY <1>1, <1>3 DEF phaseOf
  <2>2. PICK d \in CallIDs : sessionList[d] = ref
    BY <2>1 DEF Live
  <2>3. heap[ref].callId = d
    BY <2>2, HandlerAssumption DEF IInv, LiveSessionsOpen
  <2> QED BY <1>1, <1>3, <2>1, <2>2, <2>3
<1> QED BY <1>2, <1>3

\* Every step of the handler is a step of CallTracking.
LEMMA NextTracks ==
    ASSUME IInv, Next
    PROVE  Tracking!Next
<1>1. TypedStep
  BY NextHasShape
<1>2. captured' = captured + 1
  BY <1>1 DEF TypedStep
<1>3. CASE NoSession
  <2>1. phases' = phases /\ calls' = calls /\ files' = files
    BY <1>3 DEF NoSession, phases, calls, files, phaseOf, MessagesOf, Live
  <2>2. CASE ignored' = ignored \cup {captured + 1} /\ UNCHANGED standalone
    BY <1>2, <2>1, <2>2 DEF Tracking!Next, Tracking!Ignore, phases, calls, files
  <2>3. ASSUME NEW c \in CallIDs, sessionList[c] = null,
               standalone' = standalone \cup {captured + 1}, UNCHANGED ignored
        PROVE  Tracking!Next
    <3>1. Tracking!OpenFor(c) = {}
      BY <2>3, OpenIsListed, HandlerAssumption DEF Tracking!OpenFor, phases, calls
    <3> QED BY <1>2, <2>1, <2>3, <3>1
            DEF Tracking!Next, Tracking!PassOn, phases, calls, files
  <2> QED BY <1>3, <2>2, <2>3 DEF NoSession
<1>4. ASSUME NEW c \in CallIDs, NEW method \in {"INVITE", "OTHER"},
             NEW n \in Nat, NEW t \in Nat, n = captured + 1, Creates(c, method, n, t),
             UNCHANGED <<standalone, ignored>>
      PROVE  Tracking!Next
  <2> DEFINE obj == createSession(c, method, n, t)
  <2>1. obj.messages = {n} /\ obj # null /\ obj.callId = c
    BY CreateType DEF createSession, RequestMethods
  <2> HIDE DEF obj
  <2>2. PICK new \in SessionRefs :
          /\ heap[new] = null
          /\ heap' = [heap EXCEPT ![new] = obj]
          /\ sessionList' = [sessionList EXCEPT ![c] = new]
    BY <1>4 DEF Creates, addSession, obj
  <2>3. /\ heap'[new] = obj /\ \A r \in SessionRefs \ {new} : heap'[r] = heap[r]
        /\ sessionList'[c] = new
        /\ \A d \in CallIDs \ {c} : sessionList'[d] = sessionList[d]
        /\ sendCalls' = sendCalls /\ ~ sendCalls[new] > 0
    BY <1>4, <2>2 DEF IInv, TypeOK, Creates, FreshUnsent
  <2>4. phases[new] = "free"
    BY <2>2 DEF phases, phaseOf
  <2>5. phases'[new] = "open"
    BY <2>1, <2>3 DEF phases, phaseOf, Live
  <2>6. ASSUME NEW r \in SessionRefs, r # new
        PROVE  phases'[r] = IF phases[r] = "open" /\ calls[r] = c
                            THEN "replaced" ELSE phases[r]
    <3>1. /\ heap'[r] = heap[r] /\ sendCalls'[r] = sendCalls[r]
          /\ phases[r] = phaseOf(r) /\ phases'[r] = phaseOf(r)'
      BY <2>3, <2>6 DEF phases
    <3>2. CASE r = sessionList[c]
      <4>1. phases[r] = "open" /\ calls[r] = c
        BY <3>2, OpenIsListed
      <4>2. r \notin Live'
        BY <2>3, <2>6, <3>2, HandlerAssumption DEF Live, IInv, LiveSessionsOpen
      <4> QED BY <3>1, <4>1, <4>2 DEF phaseOf
    <3>3. CASE r # sessionList[c]
      <4>1. ~ (phases[r] = "open" /\ calls[r] = c)
        BY <3>3, OpenIsListed
      <4>2. r \in Live' <=> r \in Live
        BY <2>3, <2>6, <3>3 DEF Live
      <4> QED BY <3>1, <4>1, <4>2 DEF phaseOf
    <3> QED BY <3>2, <3>3
  <2>7. phases' = [r \in SessionRefs |->
                      IF r = new THEN "open"
                      ELSE IF r \in Tracking!OpenFor(c) THEN "replaced" ELSE phases[r]]
    <3>1. \A r \in SessionRefs : r \in Tracking!OpenFor(c) <=>
                                    phases[r] = "open" /\ calls[r] = c
      BY DEF Tracking!OpenFor, phases, calls
    <3>2. phases' = [r \in SessionRefs |-> phases'[r]]
      BY DEF phases
    <3> QED BY <2>5, <2>6, <3>1, <3>2
  <2>8. calls' = [calls EXCEPT ![new] = c]
    <3>1. calls'[new] = c /\ \A r \in SessionRefs \ {new} : calls'[r] = calls[r]
      BY <2>1, <2>3 DEF calls
    <3> QED BY <3>1 DEF calls
  <2>9. files' = [files EXCEPT ![new] = {captured + 1}]
    <3>1. /\ files'[new] = {captured + 1}
          /\ \A r \in SessionRefs \ {new} : files'[r] = files[r]
      BY <1>4, <2>1, <2>3 DEF files, MessagesOf
    <3> QED BY <3>1 DEF files
  <2>10. Tracking!Begin(c)
    BY <1>4, <2>4, <2>7, <2>8, <2>9 DEF Tracking!Begin, phases, calls, files
  <2> QED BY <1>2, <2>10 DEF Tracking!Next
<1>5. ASSUME NEW c \in CallIDs, NEW s \in SIPSession, sessionList[c] # null,
             s.callId = heap[sessionList[c]].callId,
             Grows(heap[sessionList[c]], s, captured + 1, now'),
             heap' = [heap EXCEPT ![sessionList[c]] = s],
             UNCHANGED <<standalone, ignored>>,
             NEW next \in {"open", "reported"},
             phases' = [phases EXCEPT ![sessionList[c]] = next]
      PROVE  Tracking!Next
  <2>1. PICK ref \in SessionRefs : ref = sessionList[c]
    BY <1>5 DEF IInv, TypeOK
  <2>2. heap[ref] # null /\ s # null
    BY <1>5, <2>1, NullAssumption DEF IInv, LiveSessionsOpen, Allocated
  <2>3. heap'[ref] = s /\ \A r \in SessionRefs \ {ref} : heap'[r] = heap[r]
    BY <1>5, <2>1 DEF IInv, TypeOK
  <2>4. s.messages = heap[ref].messages \cup {captured + 1}
    BY <1>5, <2>1 DEF Grows
  <2>5. phases[ref] = "open"
    BY <2>1, OpenIsListed
  <2>6. calls' = calls
    BY <1>5, <2>1, <2>2, <2>3 DEF calls
  <2>7. files' = [files EXCEPT ![ref] = @ \cup {captured + 1}]
    BY <2>2, <2>3, <2>4 DEF files, MessagesOf
  <2>8. Tracking!File(ref, next)
    BY <1>5, <2>1, <2>5, <2>6, <2>7 DEF Tracking!File, phases, calls, files
  <2> QED BY <1>2, <2>8 DEF Tracking!Next
<1>6. ASSUME NEW c \in CallIDs, NEW s, sessionList[c] # null,
             Continues(heap[sessionList[c]], s), updateSession(sessionList[c], s)
      PROVE  /\ s \in SIPSession /\ s.callId = heap[sessionList[c]].callId
             /\ heap' = [heap EXCEPT ![sessionList[c]] = s]
             /\ phases' = [phases EXCEPT ![sessionList[c]] = "open"]
  <2>1. PICK ref \in SessionRefs : ref = sessionList[c]
    BY <1>6 DEF IInv, TypeOK
  <2>2. /\ s \in SIPSession /\ s.callId = heap[ref].callId /\ s # null
        /\ heap' = [heap EXCEPT ![ref] = s]
        /\ sessionList' = sessionList /\ sendCalls' = sendCalls
    BY <1>6, <2>1, NullAssumption DEF Continues, updateSession
  <2>3. \A r \in SessionRefs : heap'[r] = null <=> heap[r] = null
    BY <1>6, <2>1, <2>2 DEF IInv, TypeOK, LiveSessionsOpen, Allocated
  <2>4. phases' = phases /\ phases[ref] = "open"
    BY <2>1, <2>2, <2>3, OpenIsListed DEF phases, phaseOf, Live
  <2> QED BY <2>1, <2>2, <2>4 DEF phases
<1>7. ASSUME NEW c \in CallIDs, NEW s, sessionList[c] # null,
             Ends(heap[sessionList[c]], s), terminateSession(sessionList[c], s)
      PROVE  /\ s \in SIPSession /\ s.callId = heap[sessionList[c]].callId
             /\ heap' = [heap EXCEPT ![sessionList[c]] = s]
             /\ phases' = [phases EXCEPT ![sessionList[c]] = "reported"]
  <2>1. PICK ref \in SessionRefs : ref = sessionList[c]
    BY <1>7 DEF IInv, TypeOK
  <2>2. /\ ref \in Allocated /\ heap[ref].callId = c
        /\ s \in SIPSession /\ s.callId = c /\ s # null
    BY <1>7, <2>1, NullAssumption DEF Ends, IInv, LiveSessionsOpen
  <2>3. /\ heap' = [heap EXCEPT ![ref] = s]
        /\ sendCalls' = [sendCalls EXCEPT ![ref] = @ + 1]
        /\ sessionList' = [sessionList EXCEPT ![c] = null]
    BY <1>7, <2>1, <2>2 DEF terminateSession
  <2>4. phaseOf(ref)' = "reported"
    BY <2>2, <2>3 DEF IInv, TypeOK, phaseOf
  <2>5. ASSUME NEW r \in SessionRefs, r # ref
        PROVE  phaseOf(r)' = phaseOf(r)
    <3>1. heap'[r] = heap[r] /\ sendCalls'[r] = sendCalls[r]
      BY <2>3, <2>5 DEF IInv, TypeOK
    <3>2. r \in Live' <=> r \in Live
      BY <2>1, <2>3, <2>5, HandlerAssumption DEF Live, IInv, TypeOK
    <3> QED BY <3>1, <3>2 DEF phaseOf
  <2> QED BY <2>1, <2>2, <2>3, <2>4, <2>5 DEF phases
<1>8. ASSUME NEW c \in CallIDs, NEW s, sessionList[c] # null,
             Continues(heap[sessionList[c]], s), updateSession(sessionList[c], s),
             Grows(heap[sessionList[c]], s, captured + 1, now'),
             UNCHANGED <<standalone, ignored>>
      PROVE  Tracking!Next
  BY <1>5, <1>6, <1>8
<1>9. ASSUME NEW c \in CallIDs, NEW s, sessionList[c] # null,
             Ends(heap[sessionList[c]], s), terminateSession(sessionList[c], s),
             Grows(heap[sessionList[c]], s, captured + 1, now'),
             UNCHANGED <<standalone, ignored>>
      PROVE  Tracking!Next
  BY <1>5, <1>7, <1>9
<1> QED BY <1>1, <1>3, <1>4, <1>8, <1>9 DEF TypedStep, StepShape

\* The handler does what CallTracking promises the Sender.
THEOREM HandlerTracksCalls == Spec => TracksCalls
<1>1. Init => Tracking!Init
  BY DEF Init, Tracking!Init, phaseOf, MessagesOf
<1>2. IInv /\ [Next]_vars => [Tracking!Next]_Tracking!vars
  <2>1. CASE UNCHANGED vars
    BY <2>1 DEF vars, Tracking!vars, phaseOf, MessagesOf, Live
  <2> QED BY <2>1, NextTracks
<1> QED BY <1>1, <1>2, AlwaysIInv, PTL DEF Spec, TracksCalls, Tracking!Spec
=============================================================================
