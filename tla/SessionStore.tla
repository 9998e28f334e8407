----------------------------- MODULE SessionStore -----------------------------
(***************************************************************************)
(* From the agent's Sender to the database: the sessions and standalone    *)
(* messages that the agent sends (at once, or sessions through the queue   *)
(* of its DelayedSender), the JMS queue org.sipana.sip, and the instances  *)
(* of SIPSessionMDB that take from it, store sessions and attach           *)
(* standalone messages to the session with their Call-ID.                  *)
(*                                                                         *)
(* onMessage runs in a transaction of the container.  What it finds is     *)
(* what was committed when it looks; what it does becomes visible when its *)
(* transaction commits.  It catches every exception, but one that left     *)
(* SIPSessionManagerBean has marked the transaction for rollback, so the   *)
(* container redelivers the message, at the head of the queue, and gives   *)
(* it up after MaxDeliveries attempts.  The data source is not part of the *)
(* JMS transaction (local-tx), so a commit may also be followed by a       *)
(* redelivery.                                                             *)
(***************************************************************************)
EXTENDS Naturals, Sequences, FiniteSets, SequencesExt

CONSTANTS
    Sessions,       \* the sessions that the handler gives to the Sender
    Messages,       \* the standalone messages
    CallOf,         \* the Call-ID of each of them
    Pools,          \* sets of MDB instances to consider, each a set of names
    MaxDeliveries,  \* attempts the container makes before it gives up
    null,
    MaxFailures     \* bound: failures of a send, of a commit or of its reply

Items == Sessions \cup Messages
Instances == UNION Pools

ASSUME StoreAssumption ==
    /\ Sessions \cap Messages = {}
    /\ DOMAIN CallOf = Items
    /\ \A p \in Pools : IsFiniteSet(p)
    /\ MaxDeliveries \in Nat \ {0}
    /\ MaxFailures \in Nat

VARIABLES
    isDelayed,  \* the agent's sender mode
    pool,       \* the MDB instances of the container
    sent,       \* items given to the Sender, in this order
    waiting,    \* JMSSender.sessions, the queue of the DelayedSender
    queue,      \* the JMS queue
    work,       \* what each instance is doing, null when idle
    rows,       \* committed rows: the sessions with the messages added to them
    discarded,  \* messages for which no session was found
    dead,       \* items that the container gave up
    failures    \* number of failures so far

agentVars == <<isDelayed, sent, waiting>>
storeVars == <<rows, discarded>>
vars == <<agentVars, pool, queue, work, storeVars, dead, failures>>

\* A JMS message and how many times it was delivered, this one included.
Delivery == [item: Items, tries: 1..MaxDeliveries]

\* What an instance has decided to do when its transaction commits.
Effects == {"none", "persist", "attach", "discard", "rollback"}
Work == [msg: Delivery, effect: Effects, row: Nat]

\* null is not a transaction.
ASSUME NullAssumption == null \notin Work

Init ==
    /\ isDelayed \in BOOLEAN
    /\ pool \in Pools
    /\ sent = <<>> /\ waiting = <<>> /\ queue = <<>>
    /\ work = [m \in Instances |-> null]
    /\ rows = <<>> /\ discarded = {} /\ dead = {}
    /\ failures = 0

fail ==
    /\ failures < MaxFailures
    /\ failures' = failures + 1

-----------------------------------------------------------------------------
(* The agent, whose sender is running *)

sendNow(i) == queue' = Append(queue, [item |-> i, tries |-> 1])

\* Mutant: the test of the mode is missing.
sendSession_alwaysDelayed(s) ==
    /\ s \in Sessions \ ToSet(sent)
    /\ sent' = Append(sent, s)
    /\ waiting' = Append(waiting, s)
    /\ UNCHANGED <<isDelayed, pool, queue, work, storeVars, dead, failures>>

\* send(SIPSession)
sendSession(s) ==
    /\ s \in Sessions \ ToSet(sent)
    /\ sent' = Append(sent, s)
    /\ IF isDelayed
       THEN waiting' = Append(waiting, s) /\ UNCHANGED queue
       ELSE sendNow(s) /\ UNCHANGED waiting
    /\ UNCHANGED <<isDelayed, pool, work, storeVars, dead, failures>>

\* send(SIPMessage) never waits for the DelayedSender.
sendMessage(i) ==
    /\ i \in Messages \ ToSet(sent)
    /\ sent' = Append(sent, i)
    /\ sendNow(i)
    /\ UNCHANGED <<isDelayed, waiting, pool, work, storeVars, dead, failures>>

\* Mutant: the session is not removed from the queue.
sendDelayed_peeksOnly ==
    /\ waiting # <<>>
    /\ sendNow(Head(waiting))
    /\ UNCHANGED <<agentVars, pool, work, storeVars, dead, failures>>

\* Mutant: the session is removed before it is sent.
sendDelayed_removesFirst ==
    /\ waiting # <<>>
    /\ waiting' = Tail(waiting)
    /\ \/ sendNow(Head(waiting)) /\ UNCHANGED failures
       \/ fail /\ UNCHANGED queue
    /\ UNCHANGED <<isDelayed, sent, pool, work, storeVars, dead>>

\* The DelayedSender sends the oldest session and removes it; if the send
\* fails after the broker got the message, the session is not removed.
sendDelayed ==
    /\ waiting # <<>>
    /\ sendNow(Head(waiting))
    /\ \/ waiting' = Tail(waiting) /\ UNCHANGED failures
       \/ fail /\ UNCHANGED waiting
    /\ UNCHANGED <<isDelayed, sent, pool, work, storeVars, dead>>

-----------------------------------------------------------------------------
(* SIPSessionMDB *)

\* The container gives the next message to an idle instance.
deliver(m) ==
    /\ m \in pool /\ work[m] = null
    /\ queue # <<>>
    /\ work' = [work EXCEPT ![m] =
                   [msg |-> Head(queue), effect |-> "none", row |-> 0]]
    /\ queue' = Tail(queue)
    /\ UNCHANGED <<agentVars, pool, storeVars, dead, failures>>

decide(m, effect, row) ==
    work' = [work EXCEPT ![m].effect = effect, ![m].row = row]

\* save(session): its id is 0, as the agent created it, so that it is always
\* a new row.
addSIPSession(m) ==
    /\ work[m].msg.item \in Sessions
    /\ decide(m, "persist", 0)

\* The query of findByCallID: the committed sessions of a Call-ID.
findByCallID(c) == {r \in DOMAIN rows : CallOf[rows[r].session] = c}

\* Mutant: the last row is taken, whatever the query finds.
addSIPMessage_last(m) ==
    /\ work[m].msg.item \in Messages
    /\ decide(m, "attach", Len(rows))

\* Mutant: NoResultException is not caught.
addSIPMessage_noResult(m) ==
    /\ work[m].msg.item \in Messages
    /\ LET found == findByCallID(CallOf[work[m].msg.item])
       IN  \/ \E r \in found : found = {r} /\ decide(m, "attach", r)
           \/ Cardinality(found) # 1 /\ decide(m, "rollback", 0)

\* findByCallID yields null for no row and throws NonUniqueResultException for
\* more than one.
addSIPMessage(m) ==
    /\ work[m].msg.item \in Messages
    /\ LET found == findByCallID(CallOf[work[m].msg.item])
       IN  \/ found = {} /\ decide(m, "discard", 0)
           \/ \E r \in found : found = {r} /\ decide(m, "attach", r)
           \/ Cardinality(found) > 1 /\ decide(m, "rollback", 0)

onMessage(m) ==
    /\ work[m] # null /\ work[m].effect = "none"
    /\ addSIPSession(m) \/ addSIPMessage(m)
    /\ UNCHANGED <<agentVars, pool, queue, storeVars, dead, failures>>

\* The transaction of instance m commits.
commitWork(m) ==
    LET i == work[m].msg.item
        effect == work[m].effect
    IN  \/ /\ effect = "persist"
           /\ rows' = Append(rows, [session |-> i, messages |-> <<>>])
           /\ UNCHANGED discarded
        \/ /\ effect = "attach"
           /\ rows' = [rows EXCEPT ![work[m].row].messages = Append(@, i)]
           /\ UNCHANGED discarded
        \/ /\ effect = "discard"
           /\ discarded' = discarded \cup {i}
           /\ UNCHANGED rows

commit(m) ==
    /\ work[m] # null
    /\ commitWork(m)
    /\ work' = [work EXCEPT ![m] = null]
    /\ UNCHANGED <<agentVars, pool, queue, dead, failures>>

\* Mutant: the deliveries are not counted.
giveBack_uncounted(m) ==
    /\ work' = [work EXCEPT ![m] = null]
    /\ queue' = <<work[m].msg>> \o queue
    /\ UNCHANGED dead

\* The message of instance m is delivered again, or given up.
giveBack(m) ==
    /\ work' = [work EXCEPT ![m] = null]
    /\ LET msg == work[m].msg
       IN  IF msg.tries < MaxDeliveries
           THEN /\ queue' = <<[msg EXCEPT !.tries = @ + 1]>> \o queue
                /\ UNCHANGED dead
           ELSE /\ dead' = dead \cup {msg.item}
                /\ UNCHANGED queue

\* The exception has marked the transaction, or it fails by itself.
rollback(m) ==
    /\ work[m] # null
    /\ \/ work[m].effect = "rollback" /\ UNCHANGED failures
       \/ work[m].effect \notin {"none", "rollback"} /\ fail
    /\ giveBack(m)
    /\ UNCHANGED <<agentVars, pool, storeVars>>

\* The database commits, but the broker does not learn of it.
commitUnacknowledged(m) ==
    /\ work[m] # null
    /\ fail
    /\ commitWork(m)
    /\ giveBack(m)
    /\ UNCHANGED <<agentVars, pool>>

finish(m) == commit(m) \/ rollback(m) \/ commitUnacknowledged(m)

-----------------------------------------------------------------------------
Next ==
    \/ \E s \in Sessions : sendSession(s)
    \/ \E i \in Messages : sendMessage(i)
    \/ sendDelayed
    \/ \E m \in Instances : deliver(m) \/ onMessage(m) \/ finish(m)

\* The DelayedSender wakes up again and again, the container keeps delivering
\* and an instance finishes what it has begun.  Nothing makes the agent send.
Fairness ==
    /\ WF_vars(sendDelayed)
    /\ \A m \in Instances :
          WF_vars(deliver(m)) /\ WF_vars(onMessage(m)) /\ WF_vars(finish(m))

Spec == Init /\ [][Next]_vars /\ Fairness

-----------------------------------------------------------------------------
(* Properties *)

\* The variables have their types, and a message is attached to a row that
\* exists.
TypeOK ==
    /\ isDelayed \in BOOLEAN
    /\ pool \in Pools
    /\ sent \in Seq(Items)
    /\ waiting \in Seq(Sessions)
    /\ queue \in Seq(Delivery)
    /\ work \in [Instances -> Work \cup {null}]
    /\ \A m \in Instances : work[m] # null =>
          work[m].effect = "attach" <=> work[m].row \in DOMAIN rows
    /\ rows \in Seq([session: Sessions, messages: Seq(Messages)])
    /\ discarded \subseteq Messages
    /\ dead \subseteq Items
    /\ failures \in Nat

Queued == {msg.item : msg \in ToSet(queue)}
InWork == {work[m].msg.item : m \in {n \in Instances : work[n] # null}}
OnTheWay == ToSet(waiting) \cup Queued \cup InWork

Stored == {rows[r].session : r \in DOMAIN rows}
Attached == UNION {ToSet(rows[r].messages) : r \in DOMAIN rows}
Settled == Stored \cup Attached \cup discarded \cup dead

\* What was given to a running Sender is never lost on its way to the server,
\* whatever fails: it is on its way, stored, or known to have been refused.
NothingLost == ToSet(sent) \subseteq OnTheWay \cup Settled

\* A message is added to a session of its own Call-ID only; and while nothing
\* fails, a session is stored once and nothing settles in two ways: the
\* duplicates of the database come from failures alone.
StoredOnceWithoutFailure ==
    /\ \A r \in DOMAIN rows : \A i \in ToSet(rows[r].messages) :
          CallOf[i] = CallOf[rows[r].session]
    /\ failures = 0 =>
          /\ IsInjective([r \in DOMAIN rows |-> rows[r].session])
          /\ \A r \in DOMAIN rows : IsInjective(rows[r].messages)
          /\ \A r1, r2 \in DOMAIN rows : r1 # r2 =>
                ToSet(rows[r1].messages) \cap ToSet(rows[r2].messages) = {}
          /\ Attached \cap discarded = {}
          /\ dead \cap (Stored \cup Attached \cup discarded) = {}

Ambiguous(i) == i \in Messages /\ Cardinality(findByCallID(CallOf[i])) > 1

\* While nothing fails, the container gives up only a standalone message that
\* has two sessions to choose from (a registration and its refresh share a
\* Call-ID): findByCallID throws for it each time, and for all that follow.
GivenUpIfAmbiguous == failures = 0 => \A i \in dead : Ambiguous(i)

SentBefore(s, i) ==
    \E k, l \in DOMAIN sent : k < l /\ sent[k] = s /\ sent[l] = i

\* A message that the agent sends after the session of its call is discarded
\* only if the session waits for the DelayedSender, or two instances work at
\* the same time, or the session itself was given up.
DiscardedOnlyIfOvertaken ==
    \A i \in discarded : \A s \in Sessions :
        CallOf[s] = CallOf[i] /\ SentBefore(s, i) =>
            isDelayed \/ Cardinality(pool) > 1 \/ s \in dead

\* What was sent is settled in the end, and stays so; in particular a message
\* for which findByCallID always throws does not block the queue for ever.
EverySentSettles == <>[](ToSet(sent) \subseteq Settled)
=============================================================================
