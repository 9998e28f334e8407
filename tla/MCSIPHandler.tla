---------------------------- MODULE MCSIPHandler ----------------------------
(***************************************************************************)
(* Instances of SIPHandler for TLC: two captures, told apart by scope, so  *)
(* that each has the detail its properties are about.                      *)
(*   "call":  one call, every class of status code, packets up to MaxGap   *)
(*            apart; states that differ only in message numbers are the    *)
(*            same.                                                        *)
(*   "calls": all the calls, the codes that change a session, one packet   *)
(*            less and no time; the message numbers are part of the state. *)
(***************************************************************************)
EXTENDS SIPHandler, FiniteSets, TLC

CONSTANT c1    \* the call of the scope "call"

\* One code per case the handler tells apart: a provisional response that does
\* nothing, one that provisions, OK, another 2xx, a redirection, a failure and
\* a code outside the defined classes.
MCStatusCodes == {100, 180, 200, 202, 302, 487, 700}

\* The codes that change the session's state.
MCActiveCodes == {180, 200, 487}

VARIABLE scope

MCCalls == IF scope = "call" THEN {c1} ELSE CallIDs
MCGap == IF scope = "call" THEN MaxGap ELSE 0

\* The method of the CSeq header matters in 2xx responses only.
MCResponses ==
    {<<code, method>> \in StatusCodes \X RequestMethods :
        /\ scope = "call" \/ code \in MCActiveCodes
        /\ code \in 200..299 \/ method = "INVITE"}

\* The bounds of the scopes, on the next state.
MCBounds ==
    IF scope = "call"
    THEN Cardinality({ref \in SessionRefs : heap'[ref] # null}) <= 2
    ELSE captured' < MaxPackets

MCInit == Init /\ scope \in {"call", "calls"}

\* Steps of SIPHandler!Next.
MCNext ==
    /\ \E t \in now..(now + MCGap) :
          \/ unparsablePacket(captured + 1, t)
          \/ \E c \in MCCalls :
                \/ processRequest(c, captured + 1, t)
                \/ \E r \in MCResponses :
                      processResponse(c, r[1], r[2], captured + 1, t)
    /\ MCBounds
    /\ UNCHANGED scope

MCSpec == MCInit /\ [][MCNext]_<<vars, scope>>

\* Session objects are interchangeable.
MCSymmetry == Permutations(SessionRefs)

\* No action reads the message numbers or the packets that were refused or
\* left aside, so states that differ only in them have the same future.
MCView ==
    IF scope = "calls" THEN <<scope, vars>>
    ELSE <<scope, sessionList, sendCalls, captured, now,
           [ref \in SessionRefs |->
               IF heap[ref] = null THEN null
               ELSE [heap[ref] EXCEPT !.messages = {}]]>>
=============================================================================
