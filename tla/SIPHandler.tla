----------------------------- MODULE SIPHandler -----------------------------
(***************************************************************************)
(* The agent's SIPHandler: it receives the captured packets one after the  *)
(* other on the capture thread (onPacket), correlates them by Call-ID into *)
(* SIPSession objects held in sessionList, and hands every finished        *)
(* session to the Sender.                                                  *)
(*                                                                         *)
(* SIPSession objects are mutable and the Sender keeps the reference it is *)
(* given (the delayed sender serialises it later, on another thread), so   *)
(* the model keeps the objects in a heap and sessionList holds references. *)
(* A message is abstracted to its number in capture order.                 *)
(***************************************************************************)
EXTENDS Naturals, FiniteSets

CONSTANTS
    CallIDs,       \* Call-ID values seen on the wire
    SessionRefs,   \* identities available for SIPSession objects (bound)
    null,          \* Java's null reference
    StatusCodes,   \* status codes of the captured responses
    MaxPackets,    \* bound: number of captured packets
    MaxGap         \* bound: largest time between two consecutive packets

ASSUME HandlerAssumption ==
    /\ null \notin SessionRefs
    /\ StatusCodes \subseteq Nat
    /\ MaxPackets \in Nat
    /\ MaxGap \in Nat

VARIABLES
    sessionList,   \* ConcurrentMap: Call-ID -> SIPSession, null when absent
    heap,          \* the SIPSession objects, null while not yet created
    sendCalls,     \* number of messageSender.send(session) calls per object
    refused,       \* objects whose send(session) threw
    standalone,    \* messages given to messageSender.send(message)
    ignored,       \* packets that were neither stored nor sent
    captured,      \* number of packets processed so far
    now            \* capture time of the last packet

vars == <<sessionList, heap, sendCalls, refused, standalone, ignored,
          captured, now>>

-----------------------------------------------------------------------------
\* Every request method other than the four that have a handler of their own
\* (REGISTER, OPTIONS, INFO, UPDATE, ...) takes the same path: "OTHER".
RequestMethods == {"INVITE", "ACK", "BYE", "CANCEL", "OTHER"}

SIPSessionState == {"INITIATED", "ESTABLISHED", "COMPLETED", "FAILED",
                    "TIMEOUT", "PROVISIONED", "DISCONNECTING", "CANCELED"}

SIPSession ==
    [callId: CallIDs, requestMethod: RequestMethods, state: SIPSessionState,
     startTime: Nat, firstResponseTime: Nat, setupTime: Nat,
     establishedTime: Nat, disconnectionStart: Nat, endTime: Nat,
     messages: SUBSET Nat]

\* null is not an object.
ASSUME NullAssumption == null \notin SIPSession

\* SIPFactory.createSession: a new session from its first request.  A time
\* stamp of 0 means "not set".
createSession(c, method, n, t) ==
    [callId |-> c, requestMethod |-> method, state |-> "INITIATED",
     startTime |-> t, firstResponseTime |-> 0, setupTime |-> 0,
     establishedTime |-> 0, disconnectionStart |-> 0, endTime |-> 0,
     messages |-> {n}]

addMessage(s, n) == [s EXCEPT !.messages = @ \cup {n}]

\* What processResponse does to the session before it looks at the code.
responseReceived(s, n, t) ==
    [addMessage(s, n) EXCEPT !.firstResponseTime = IF @ = 0 THEN t ELSE @]

-----------------------------------------------------------------------------
Init ==
    /\ sessionList = [c \in CallIDs |-> null]
    /\ heap = [ref \in SessionRefs |-> null]
    /\ sendCalls = [ref \in SessionRefs |-> 0]
    /\ refused = {}
    /\ standalone = {}
    /\ ignored = {}
    /\ captured = 0
    /\ now = 1

\* The part of onPacket common to all packets: the message is number n in
\* capture order and carries the capture time t.
onPacket(n, t) ==
    /\ captured < MaxPackets
    /\ n = captured + 1
    /\ captured' = n
    /\ now' = t

\* new SIPSession(request) and sessionList.put(callId, session).
addSession(c, method, n, t) ==
    \E ref \in SessionRefs :
        /\ heap[ref] = null
        /\ heap' = [heap EXCEPT ![ref] = createSession(c, method, n, t)]
        /\ sessionList' = [sessionList EXCEPT ![c] = ref]

\* The session object is changed and stays in sessionList.
updateSession(ref, s) ==
    /\ heap' = [heap EXCEPT ![ref] = s]
    /\ UNCHANGED <<sessionList, sendCalls, refused>>

\* Mutant: the session is sent but stays in sessionList.
terminateSession_keeps(ref, s) ==
    /\ heap' = [heap EXCEPT ![ref] = s]
    /\ sendCalls' = [sendCalls EXCEPT ![ref] = @ + 1]
    /\ \E failed \in SUBSET {ref} : refused' = refused \cup failed
    /\ UNCHANGED sessionList

\* The session object is changed, given to the Sender and removed from the
\* list; an exception of the Sender is logged and changes nothing of that.
terminateSession(ref, s) ==
    /\ heap' = [heap EXCEPT ![ref] = s]
    /\ sendCalls' = [sendCalls EXCEPT ![ref] = @ + 1]
    /\ \E failed \in SUBSET {ref} : refused' = refused \cup failed
    /\ sessionList' = [sessionList EXCEPT ![s.callId] = null]

-----------------------------------------------------------------------------
(* Requests *)

\* Mutant: the containsKey test is missing, a re-INVITE starts a new session.
processInvite_noLookup(c, n, t) ==
    /\ onPacket(n, t)
    /\ addSession(c, "INVITE", n, t)
    /\ UNCHANGED <<sendCalls, refused, standalone, ignored>>

processInvite(c, n, t) ==
    /\ onPacket(n, t)
    /\ \/ /\ sessionList[c] = null
          /\ addSession(c, "INVITE", n, t)
          /\ UNCHANGED <<sendCalls, refused>>
       \/ /\ sessionList[c] # null
          /\ updateSession(sessionList[c], addMessage(heap[sessionList[c]], n))
    /\ UNCHANGED <<standalone, ignored>>

\* Mutant: an ACK without a session is not accounted for.
processAck_lost(c, n, t) ==
    /\ onPacket(n, t)
    /\ LET ref == sessionList[c] IN
       ref # null => heap' = [heap EXCEPT ![ref] = addMessage(@, n)]
    /\ sessionList[c] = null => UNCHANGED heap
    /\ UNCHANGED <<sessionList, sendCalls, refused, standalone, ignored>>

processAck(c, n, t) ==
    /\ onPacket(n, t)
    /\ LET ref == sessionList[c] IN
       \/ /\ ref = null
          /\ ignored' = ignored \cup {n}
          /\ UNCHANGED <<sessionList, heap, sendCalls, refused>>
       \/ /\ ref # null
          /\ IF heap[ref].state = "FAILED"
             THEN terminateSession(ref, addMessage(heap[ref], n))
             ELSE updateSession(ref, addMessage(heap[ref], n))
          /\ UNCHANGED ignored
    /\ UNCHANGED standalone

\* BYE and CANCEL.
processDisconnectRequest(c, n, t) ==
    /\ onPacket(n, t)
    /\ LET ref == sessionList[c] IN
       \/ /\ ref = null
          /\ ignored' = ignored \cup {n}
          /\ UNCHANGED <<sessionList, heap, sendCalls, refused>>
       \/ /\ ref # null
          /\ updateSession(ref, [addMessage(heap[ref], n) EXCEPT
                                    !.disconnectionStart = t,
                                    !.state = "DISCONNECTING"])
          /\ UNCHANGED ignored
    /\ UNCHANGED standalone

\* Any other request starts a session of its own, whether or not the Call-ID
\* is known: put() replaces the session that was there.
processOtherRequest(c, n, t) ==
    /\ onPacket(n, t)
    /\ addSession(c, "OTHER", n, t)
    /\ UNCHANGED <<sendCalls, refused, standalone, ignored>>

-----------------------------------------------------------------------------
(* Responses: code is the status code, method the method of the CSeq header *)

\* No session for the response: it is sent as a standalone message.
sendStandalone(c, n, t) ==
    /\ onPacket(n, t)
    /\ sessionList[c] = null
    /\ standalone' = standalone \cup {n}
    /\ UNCHANGED <<sessionList, heap, sendCalls, refused, ignored>>

processProvisionalResponse(c, code, n, t) ==
    /\ onPacket(n, t)
    /\ sessionList[c] # null
    /\ code >= 100 /\ code < 200
    /\ LET ref == sessionList[c]
           s == responseReceived(heap[ref], n, t)
       IN  updateSession(ref,
               IF code \in {180, 183} /\ s.state = "INITIATED"
               THEN [s EXCEPT !.setupTime = t, !.state = "PROVISIONED"]
               ELSE s)
    /\ UNCHANGED <<standalone, ignored>>

\* Mutant: the test of the current state is missing, so that the OK of a
\* re-INVITE, or one that crosses a BYE, establishes the session again.
processInviteOK_always(s, t) ==
    [s EXCEPT !.setupTime = IF s.state = "INITIATED" THEN t ELSE @,
              !.establishedTime = t, !.state = "ESTABLISHED"]

processInviteOK(s, t) ==
    LET s1 == IF s.state = "INITIATED" THEN [s EXCEPT !.setupTime = t] ELSE s
    IN  IF s1.state \in {"PROVISIONED", "INITIATED"}
        THEN [s1 EXCEPT !.establishedTime = t, !.state = "ESTABLISHED"]
        ELSE s1

\* Mutant: the request's method is stored where the state belongs.
processCancelOK_method(s, t) == [s EXCEPT !.endTime = t, !.state = "CANCEL"]

processCancelOK(s, t) == [s EXCEPT !.endTime = t, !.state = "CANCELED"]

\* Mutant: the end time is forgotten.
processByeOK_noEnd(s, t) == [s EXCEPT !.state = "COMPLETED"]

processByeOK(s, t) == [s EXCEPT !.endTime = t, !.state = "COMPLETED"]

processOtherOK(s, t) ==
    [s EXCEPT !.setupTime = t, !.endTime = t, !.state = "COMPLETED"]

\* 2xx.  Only 200 is implemented; the others are stored and have no effect.
processSucessfulResponse(c, code, method, n, t) ==
    /\ onPacket(n, t)
    /\ sessionList[c] # null
    /\ code >= 200 /\ code < 300
    /\ LET ref == sessionList[c]
           s == responseReceived(heap[ref], n, t)
       IN  \/ /\ code # 200
              /\ updateSession(ref, s)
           \/ /\ code = 200 /\ method = "INVITE"
              /\ updateSession(ref, processInviteOK(s, t))
           \/ /\ code = 200 /\ method = "CANCEL"
              /\ terminateSession(ref, processCancelOK(s, t))
           \/ /\ code = 200 /\ method = "BYE"
              /\ terminateSession(ref, processByeOK(s, t))
           \/ /\ code = 200 /\ method \notin {"INVITE", "CANCEL", "BYE"}
              /\ terminateSession(ref, processOtherOK(s, t))
    /\ UNCHANGED <<standalone, ignored>>

\* 3xx: the handler is empty.  The same happens to a code outside 100..699,
\* which is only logged.
processRedirectionResponse(c, code, n, t) ==
    /\ onPacket(n, t)
    /\ sessionList[c] # null
    /\ ~(code >= 100 /\ code < 300) /\ ~(code >= 400 /\ code < 700)
    /\ updateSession(sessionList[c],
                     responseReceived(heap[sessionList[c]], n, t))
    /\ UNCHANGED <<standalone, ignored>>

\* The session as processFailureResponse leaves it.  The state is assigned
\* before it is tested, so the test succeeds for every session.
failedSession(s, t) ==
    LET s1 == [s EXCEPT !.endTime = t, !.state = "FAILED"]
    IN  IF s1.state # "ESTABLISHED" THEN [s1 EXCEPT !.setupTime = t] ELSE s1

\* Mutant: the failed session waits in the list for its ACK (which is what
\* the test of FAILED in processAck expects).
processFailureResponse_waitsForAck(c, code, n, t) ==
    /\ onPacket(n, t)
    /\ sessionList[c] # null
    /\ code >= 400 /\ code < 700
    /\ LET ref == sessionList[c]
           s == responseReceived(heap[ref], n, t)
       IN  updateSession(ref, failedSession(s, t))
    /\ UNCHANGED <<standalone, ignored>>

\* 4xx, 5xx and 6xx.
processFailureResponse(c, code, n, t) ==
    /\ onPacket(n, t)
    /\ sessionList[c] # null
    /\ code >= 400 /\ code < 700
    /\ LET ref == sessionList[c]
           s == responseReceived(heap[ref], n, t)
       IN  terminateSession(ref, failedSession(s, t))
    /\ UNCHANGED <<standalone, ignored>>

\* createMessage fails or yields null (not SIP, unparsable, a mandatory header
\* missing): the exception is caught in onPacket and nothing is stored.
unparsablePacket(n, t) ==
    /\ onPacket(n, t)
    /\ ignored' = ignored \cup {n}
    /\ UNCHANGED <<sessionList, heap, sendCalls, refused, standalone>>

-----------------------------------------------------------------------------
processRequest(c, n, t) ==
    \/ processInvite(c, n, t)
    \/ processAck(c, n, t)
    \/ processDisconnectRequest(c, n, t)
    \/ processOtherRequest(c, n, t)

processResponse(c, code, method, n, t) ==
    \/ sendStandalone(c, n, t)
    \/ processProvisionalResponse(c, code, n, t)
    \/ processSucessfulResponse(c, code, method, n, t)
    \/ processRedirectionResponse(c, code, n, t)
    \/ processFailureResponse(c, code, n, t)

Next ==
    \E t \in now..(now + MaxGap) :
        \/ unparsablePacket(captured + 1, t)
        \/ \E c \in CallIDs :
              \/ processRequest(c, captured + 1, t)
              \/ \E code \in StatusCodes, method \in RequestMethods :
                    processResponse(c, code, method, captured + 1, t)

Spec == Init /\ [][Next]_vars

-----------------------------------------------------------------------------
(* Properties *)

\* The fields have their Java types and a live entry is a real object.
TypeOK ==
    /\ sessionList \in [CallIDs -> SessionRefs \cup {null}]
    /\ heap \in [SessionRefs -> SIPSession \cup {null}]
    /\ sendCalls \in [SessionRefs -> Nat]
    /\ refused \subseteq SessionRefs
    /\ standalone \subseteq Nat
    /\ ignored \subseteq Nat
    /\ captured \in Nat
    /\ now \in Nat

Allocated == {ref \in SessionRefs : heap[ref] # null}
Live == {ref \in SessionRefs : \E c \in CallIDs : sessionList[c] = ref}

\* The states a session can be in while messages can still change it.
OpenStates == {"INITIATED", "PROVISIONED", "ESTABLISHED", "DISCONNECTING"}

\* sessionList maps a Call-ID to an open session of that very Call-ID: no
\* session that already ended (COMPLETED, CANCELED, FAILED) is still found by
\* getSession.  In particular the branch of processAck that terminates a
\* FAILED session is never taken.
LiveSessionsOpen ==
    \A c \in CallIDs : sessionList[c] # null =>
        /\ sessionList[c] \in Allocated
        /\ heap[sessionList[c]].callId = c
        /\ heap[sessionList[c]].state \in OpenStates

\* terminateSession gives a session to the Sender at most once, and a session
\* that was given away can no longer be found by its Call-ID: the server does
\* not get two copies of a call, whatever order its packets arrive in.
SentOnce ==
    \A ref \in SessionRefs :
        sendCalls[ref] > 0 => sendCalls[ref] = 1 /\ ref \notin Live

\* A session has an end time, and a final state, exactly when it was handed
\* over: the server never sees an open session and no ended one stays behind.
EndedIffSent ==
    \A ref \in Allocated :
        /\ heap[ref].endTime # 0 <=> sendCalls[ref] > 0
        /\ heap[ref].state \in OpenStates <=> sendCalls[ref] = 0

\* The order of the time stamps that the performance metrics subtract from
\* one another; 0 is "not set".  The last two conjuncts hold only because
\* processInviteOK tests the state: an OK that crosses a BYE sets nothing.
StampsOrdered ==
    \A ref \in Allocated :
        LET s == heap[ref]
            Stamps == {s.firstResponseTime, s.setupTime, s.establishedTime,
                       s.disconnectionStart, s.endTime}
        IN  /\ 0 < s.startTime /\ s.startTime <= now
            /\ \A x \in Stamps : x # 0 => s.startTime <= x /\ x <= now
            /\ s.endTime # 0 => \A x \in Stamps : x <= s.endTime
            /\ s.setupTime # 0 => /\ 0 < s.firstResponseTime
                                  /\ s.firstResponseTime <= s.setupTime
            /\ s.establishedTime # 0 /\ s.disconnectionStart # 0 =>
                    s.establishedTime <= s.disconnectionStart
            /\ s.establishedTime # 0 /\ s.endTime = 0 =>
                    0 < s.setupTime /\ s.setupTime <= s.establishedTime

MessagesOf(ref) == IF heap[ref] = null THEN {} ELSE heap[ref].messages

\* No packet is lost or stored twice: each one is in exactly one session, or
\* was sent as a standalone message, or was ignored.
PacketFiledOnce ==
    /\ (1..captured) = standalone \cup ignored
                         \cup UNION {MessagesOf(ref) : ref \in SessionRefs}
    /\ standalone \cap ignored = {}
    /\ \A ref \in SessionRefs :
          MessagesOf(ref) \cap (standalone \cup ignored) = {}
    /\ \A r1, r2 \in SessionRefs :
          r1 # r2 => MessagesOf(r1) \cap MessagesOf(r2) = {}

\* What a session is to the Sender, which sees neither the list nor the heap.
phaseOf(ref) ==
    IF heap[ref] = null THEN "free"
    ELSE IF sendCalls[ref] > 0 THEN "reported"
    ELSE IF ref \in Live THEN "open" ELSE "replaced"

Tracking == INSTANCE CallTracking WITH
    Sessions <- SessionRefs,
    phase <- [ref \in SessionRefs |-> phaseOf(ref)],
    call <- [ref \in SessionRefs |->
                IF heap[ref] = null THEN null ELSE heap[ref].callId],
    filed <- [ref \in SessionRefs |-> MessagesOf(ref)],
    total <- captured

\* The handlers together do what CallTracking promises: although they find
\* sessions by reference in a map that put() may overwrite, a packet goes to
\* the one open session of its Call-ID, a session is reported once and with
\* all its packets, and after that, or once it was replaced, nothing reaches it.
TracksCalls == Tracking!Spec

\* The object given to the Sender is not changed afterwards.  The delayed
\* sender serialises it later and on another thread, so a late packet of the
\* same call (a retransmitted BYE, a second final response) must not touch it.
HandedOffFrozen ==
    [][\A ref \in SessionRefs : sendCalls[ref] > 0 => heap'[ref] = heap[ref]]_vars

\* A session leaves sessionList only by being handed to the Sender, or when
\* a request other than INVITE, ACK, BYE and CANCEL carries its Call-ID: put()
\* then replaces it and the old session is never reported.
LeavesBySendOrReplacement ==
    [][\A c \in CallIDs :
          LET ref == sessionList[c]
              new == sessionList'[c]
          IN  ref # null /\ new # ref =>
                \/ new = null /\ sendCalls'[ref] = sendCalls[ref] + 1
                \/ /\ new # null
                   /\ heap[new] = null
                   /\ heap'[new].requestMethod = "OTHER"]_vars

\* "Only the first provisional response defines the setup time" (comment in
\* processProvisionalResponse) and the test of ESTABLISHED in
\* processFailureResponse: a failure in an established call, such as a
\* rejected re-INVITE, leaves the setup time as it was.
EstablishedKeepsSetupTime ==
    \A ref \in Allocated :
        heap[ref].state = "FAILED" /\ heap[ref].establishedTime # 0 =>
            heap[ref].setupTime <= heap[ref].establishedTime
=============================================================================
