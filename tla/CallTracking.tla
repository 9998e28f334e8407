---------------------------- MODULE CallTracking ----------------------------
(***************************************************************************)
(* What the agent's SIPHandler promises its Sender, without saying how it  *)
(* keeps its sessions: every packet is filed in the one open session of    *)
(* its Call-ID, passed on as a standalone message or ignored; a session is *)
(* open for a while and then reported once, or replaced by a newer one     *)
(* with its Call-ID, and never changes after that.                         *)
(***************************************************************************)
EXTENDS Naturals

CONSTANTS CallIDs, Sessions, null

VARIABLES
    phase,       \* of each session: free, open, reported or replaced
    call,        \* its Call-ID, null while it is free
    filed,       \* the packets in it
    standalone,  \* packets passed on by themselves
    ignored,     \* packets dropped
    total        \* number of packets so far

vars == <<phase, call, filed, standalone, ignored, total>>

Init ==
    /\ phase = [s \in Sessions |-> "free"]
    /\ call = [s \in Sessions |-> null]
    /\ filed = [s \in Sessions |-> {}]
    /\ standalone = {}
    /\ ignored = {}
    /\ total = 0

OpenFor(c) == {s \in Sessions : phase[s] = "open" /\ call[s] = c}

\* A packet opens a session, which takes the place of an open one.
Begin(c) ==
    \E new \in Sessions :
        /\ phase[new] = "free"
        /\ phase' = [s \in Sessions |->
                        IF s = new THEN "open"
                        ELSE IF s \in OpenFor(c) THEN "replaced" ELSE phase[s]]
        /\ call' = [call EXCEPT ![new] = c]
        /\ filed' = [filed EXCEPT ![new] = {total + 1}]
        /\ UNCHANGED <<standalone, ignored>>

\* A packet is filed in the open session s, which is reported or stays open.
File(s, next) ==
    /\ phase[s] = "open"
    /\ filed' = [filed EXCEPT ![s] = @ \cup {total + 1}]
    /\ phase' = [phase EXCEPT ![s] = next]
    /\ UNCHANGED <<call, standalone, ignored>>

\* Only a packet whose Call-ID has no open session is passed on by itself.
PassOn(c) ==
    /\ OpenFor(c) = {}
    /\ standalone' = standalone \cup {total + 1}
    /\ UNCHANGED <<phase, call, filed, ignored>>

Ignore ==
    /\ ignored' = ignored \cup {total + 1}
    /\ UNCHANGED <<phase, call, filed, standalone>>

Next ==
    /\ total' = total + 1
    /\ \/ \E c \in CallIDs : Begin(c) \/ PassOn(c)
       \/ \E s \in Sessions, next \in {"open", "reported"} : File(s, next)
       \/ Ignore

Spec == Init /\ [][Next]_vars
=============================================================================
