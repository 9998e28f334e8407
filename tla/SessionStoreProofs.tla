-------------------------- MODULE SessionStoreProofs --------------------------
(***************************************************************************)
(* Proofs about SessionStore, for any sessions, messages, Call-IDs and MDB *)
(* instances and any number of deliveries and failures.                    *)
(*                                                                         *)
(* The steps are seen as what they do to three sets of items: those on     *)
(* their way, those settled, and those being decided on by an instance.    *)
(***************************************************************************)
EXTENDS SessionStore, FiniteSetTheorems, TLAPS

Row == [session: Sessions, messages: Seq(Messages)]

\* What an instance has decided fits its item, and an exception was thrown for
\* an item that still is, and stays, ambiguous.
Decided ==
    \A m \in Instances : work[m] # null =>
        LET i == work[m].msg.item IN
        /\ work[m].effect = "persist" => i \in Sessions
        /\ work[m].effect \in {"attach", "discard"} => i \in Messages
        /\ work[m].effect # "attach" => work[m].row = 0
        /\ work[m].effect = "rollback" => Ambiguous(i)

\* The same of one decision.
Decision(i, effect, row) ==
    /\ effect = "attach" <=> row \in DOMAIN rows
    /\ effect # "attach" => row = 0
    /\ effect = "persist" => i \in Sessions
    /\ effect \in {"attach", "discard"} => i \in Messages
    /\ effect = "rollback" => Ambiguous(i)

\* The inductive invariant.
IInv ==
    /\ TypeOK
    /\ Decided
    /\ NothingLost
    /\ GivenUpIfAmbiguous

-----------------------------------------------------------------------------
(* The elements of sequences *)

\* Append adds one element,
LEMMA AppendElements ==
    ASSUME NEW S, NEW q \in Seq(S), NEW x \in S
    PROVE  /\ Append(q, x) \in Seq(S)
           /\ ToSet(Append(q, x)) = ToSet(q) \cup {x}
<1>1. /\ Append(q, x) \in Seq(S)
      /\ Len(Append(q, x)) = Len(q) + 1
      /\ \A k \in 1..Len(q) : Append(q, x)[k] = q[k]
      /\ Append(q, x)[Len(q) + 1] = x
      /\ Len(q) \in Nat /\ DOMAIN q = 1..Len(q)
      /\ DOMAIN Append(q, x) = 1..(Len(q) + 1)
  OBVIOUS
<1>2. 1..(Len(q) + 1) = (1..Len(q)) \cup {Len(q) + 1}
  BY <1>1
<1> QED BY <1>1, <1>2 DEF ToSet

\* the first element comes before the tail,
LEMMA TailElements ==
    ASSUME NEW S, NEW q \in Seq(S), q # <<>>
    PROVE  /\ Head(q) \in S /\ Tail(q) \in Seq(S)
           /\ ToSet(q) = {Head(q)} \cup ToSet(Tail(q))
<1>1. /\ Head(q) \in S /\ Tail(q) \in Seq(S) /\ Head(q) = q[1]
      /\ Len(q) \in Nat /\ Len(q) > 0 /\ Len(Tail(q)) = Len(q) - 1
      /\ \A k \in 1..(Len(q) - 1) : Tail(q)[k] = q[k + 1]
      /\ DOMAIN q = 1..Len(q) /\ DOMAIN Tail(q) = 1..(Len(q) - 1)
  OBVIOUS
<1>2. ASSUME NEW k \in 1..Len(q), k # 1
      PROVE  k - 1 \in 1..(Len(q) - 1) /\ Tail(q)[k - 1] = q[k]
  <2>1. k - 1 \in 1..(Len(q) - 1) /\ (k - 1) + 1 = k
    BY <1>1, <1>2
  <2> QED BY <1>1, <2>1, Zenon
<1>3. \A k \in 1..(Len(q) - 1) : k + 1 \in 1..Len(q)
  BY <1>1
<1>4. ToSet(q) = {q[k] : k \in 1..Len(q)}
      /\ ToSet(Tail(q)) = {Tail(q)[k] : k \in 1..(Len(q) - 1)}
  BY <1>1 DEF ToSet
<1>5. ASSUME NEW x, x \in ToSet(q)
      PROVE  x = Head(q) \/ x \in ToSet(Tail(q))
  <2>1. PICK k \in 1..Len(q) : x = q[k]
    BY <1>4, <1>5
  <2>2. CASE k = 1
    BY <1>1, <2>1, <2>2
  <2>3. CASE k # 1
    BY <1>2, <1>4, <2>1, <2>3, Zenon
  <2> QED BY <2>2, <2>3
<1>6. ASSUME NEW x, x \in ToSet(Tail(q))
      PROVE  x \in ToSet(q)
  BY <1>1, <1>3, <1>4, <1>6
<1>7. Head(q) \in ToSet(q)
  BY <1>1, <1>4
<1> QED BY <1>1, <1>5, <1>6, <1>7

\* and an element put in front is added.
LEMMA ConsElements ==
    ASSUME NEW S, NEW q \in Seq(S), NEW x \in S
    PROVE  /\ <<x>> \o q \in Seq(S)
           /\ ToSet(<<x>> \o q) = {x} \cup ToSet(q)
<1>1. /\ <<x>> \o q \in Seq(S)
      /\ Len(<<x>> \o q) = Len(q) + 1
      /\ (<<x>> \o q)[1] = x
      /\ \A k \in 1..Len(q) : (<<x>> \o q)[k + 1] = q[k]
      /\ Len(q) \in Nat /\ DOMAIN q = 1..Len(q)
      /\ DOMAIN (<<x>> \o q) = 1..(Len(q) + 1)
  OBVIOUS
<1>2. ASSUME NEW k \in 1..(Len(q) + 1), k # 1
      PROVE  k - 1 \in 1..Len(q) /\ (<<x>> \o q)[k] = q[k - 1]
  <2>1. k - 1 \in 1..Len(q) /\ (k - 1) + 1 = k
    BY <1>1, <1>2
  <2> QED BY <1>1, <2>1, Zenon
<1>3. 1 \in 1..(Len(q) + 1) /\ \A k \in 1..Len(q) : k + 1 \in 1..(Len(q) + 1)
  BY <1>1
<1>4. ToSet(q) = {q[k] : k \in 1..Len(q)}
      /\ ToSet(<<x>> \o q) = {(<<x>> \o q)[k] : k \in 1..(Len(q) + 1)}
  BY <1>1 DEF ToSet
<1>5. ASSUME NEW y, y \in ToSet(<<x>> \o q)
      PROVE  y = x \/ y \in ToSet(q)
  BY <1>1, <1>2, <1>4, <1>5
<1>6. ASSUME NEW y, y \in ToSet(q)
      PROVE  y \in ToSet(<<x>> \o q)
  BY <1>1, <1>3, <1>4, <1>6
<1>7. x \in ToSet(<<x>> \o q)
  BY <1>1, <1>3, <1>4
<1> QED BY <1>1, <1>5, <1>6, <1>7

-----------------------------------------------------------------------------
(* What a transaction does *)

\* Committed rows stay, with their session and their messages, so that what
\* was settled stays so and what was ambiguous too.
RowsGrow ==
    /\ rows' \in Seq(Row)
    /\ DOMAIN rows \subseteq DOMAIN rows'
    /\ \A r \in DOMAIN rows :
          /\ rows'[r].session = rows[r].session
          /\ ToSet(rows[r].messages) \subseteq ToSet(rows'[r].messages)
    /\ discarded \subseteq discarded' /\ discarded' \subseteq Messages

\* A commit adds a row, a message of a row, or a discarded message.
LEMMA CommitGrows ==
    ASSUME TypeOK, Decided, NEW m \in Instances, work[m] # null, commitWork(m),
           NEW i, i = work[m].msg.item
    PROVE  /\ RowsGrow
           /\ \/ \E r \in DOMAIN rows' :
                    rows'[r].session = i \/ i \in ToSet(rows'[r].messages)
              \/ i \in discarded'
<1>1. /\ work[m] \in Work /\ rows \in Seq(Row) /\ discarded \subseteq Messages
  BY DEF TypeOK, Row
<1>2. CASE /\ work[m].effect = "persist" /\ UNCHANGED discarded
           /\ rows' = Append(rows, [session |-> i, messages |-> <<>>])
  <2> DEFINE row == [session |-> i, messages |-> <<>>]
  <2>1. row \in Row /\ row.session = i
    BY <1>2 DEF Decided, Row
  <2> HIDE DEF row
  <2>2. /\ rows' \in Seq(Row) /\ DOMAIN rows = 1..Len(rows) /\ Len(rows) \in Nat
        /\ DOMAIN rows' = 1..(Len(rows) + 1)
        /\ \A r \in 1..Len(rows) : rows'[r] = rows[r]
        /\ rows'[Len(rows) + 1] = row
    BY <1>1, <1>2, <2>1 DEF row
  <2>3. DOMAIN rows \subseteq DOMAIN rows' /\ Len(rows) + 1 \in DOMAIN rows'
    BY <2>2
  <2> QED BY <1>1, <1>2, <2>1, <2>2, <2>3 DEF RowsGrow
<1>3. CASE /\ work[m].effect = "attach" /\ UNCHANGED discarded
           /\ rows' = [rows EXCEPT ![work[m].row].messages = Append(@, i)]
  <2>1. PICK q \in DOMAIN rows : q = work[m].row
    BY <1>3 DEF TypeOK
  <2>2. i \in Messages /\ rows[q] \in Row
    BY <1>1, <1>3, <2>1 DEF Decided
  <2> DEFINE row == [rows[q] EXCEPT !.messages = Append(@, i)]
  <2>3. /\ Append(rows[q].messages, i) \in Seq(Messages)
        /\ ToSet(Append(rows[q].messages, i)) = ToSet(rows[q].messages) \cup {i}
    BY <2>2, AppendElements DEF Row
  <2>4. /\ row \in Row /\ row.session = rows[q].session
        /\ ToSet(row.messages) = ToSet(rows[q].messages) \cup {i}
    BY <2>2, <2>3 DEF Row
  <2>5. rows' = [rows EXCEPT ![q] = row]
    BY <1>3, <2>1
  <2> HIDE DEF row
  <2>6. rows' \in Seq(Row) /\ DOMAIN rows' = DOMAIN rows
        /\ rows'[q] = row /\ \A r \in DOMAIN rows : r # q => rows'[r] = rows[r]
    BY <1>1, <2>1, <2>4, <2>5
  <2> QED BY <1>1, <1>3, <2>1, <2>4, <2>6 DEF RowsGrow
<1>4. CASE work[m].effect = "discard" /\ discarded' = discarded \cup {i} /\ UNCHANGED rows
  BY <1>1, <1>4 DEF Decided, RowsGrow
<1> QED BY <1>2, <1>3, <1>4 DEF commitWork

\* What is settled or ambiguous stays so when rows grow.
LEMMA SettledStays ==
    ASSUME TypeOK, RowsGrow
    PROVE  /\ Stored \subseteq Stored' /\ Attached \subseteq Attached'
           /\ discarded \subseteq discarded'
           /\ \A i : Ambiguous(i) => Ambiguous(i)'
<1>1. Stored \subseteq Stored' /\ Attached \subseteq Attached' /\ discarded \subseteq discarded'
  BY DEF RowsGrow, Stored, Attached
<1>2. ASSUME NEW i, Ambiguous(i)
      PROVE  Ambiguous(i)'
  <2> DEFINE found == findByCallID(CallOf[i])
             found2 == {r \in DOMAIN rows' : CallOf[rows'[r].session] = CallOf[i]}
  <2>1. found \subseteq found2
    BY DEF RowsGrow, findByCallID
  <2>2. Len(rows') \in Nat /\ DOMAIN rows' = 1..Len(rows')
    BY DEF RowsGrow
  <2>3. IsFiniteSet(DOMAIN rows')
    BY <2>2, FS_Interval
  <2>4. IsFiniteSet(found2)
    BY <2>3, FS_Subset
  <2>5. Cardinality(found) <= Cardinality(found2) /\ IsFiniteSet(found)
    BY <2>1, <2>4, FS_Subset
  <2>6. Cardinality(found) \in Nat /\ Cardinality(found2) \in Nat
    BY <2>4, <2>5, FS_CardinalityType
  <2>7. Cardinality(found2) > 1 /\ i \in Messages
    BY <1>2, <2>5, <2>6 DEF Ambiguous
  <2> QED BY <2>7 DEF Ambiguous, findByCallID
<1> QED BY <1>1, <1>2

\* A message given back is queued again or dead, and no other becomes dead.
LEMMA GivenBack ==
    ASSUME TypeOK, NEW m \in Instances, work[m] # null, giveBack(m),
           NEW i, i = work[m].msg.item
    PROVE  /\ work' = [work EXCEPT ![m] = null]
           /\ queue' \in Seq(Delivery) /\ Queued \subseteq Queued'
           /\ dead \subseteq dead' /\ dead' \subseteq dead \cup {i}
           /\ i \in Items
           /\ i \in Queued' \/ i \in dead'
<1>1. work[m] \in Work /\ work[m].msg \in Delivery /\ i \in Items
  BY DEF TypeOK, Work, Delivery
<1>2. CASE work[m].msg.tries < MaxDeliveries
  <2> DEFINE msg == [work[m].msg EXCEPT !.tries = @ + 1]
  <2>1. msg \in Delivery /\ msg.item = i
    BY <1>1, <1>2, StoreAssumption DEF Delivery
  <2>2. queue' = <<msg>> \o queue /\ dead' = dead
    BY <1>2 DEF giveBack
  <2> HIDE DEF msg
  <2>3. queue' \in Seq(Delivery) /\ ToSet(queue') = {msg} \cup ToSet(queue)
    BY <2>1, <2>2, ConsElements DEF TypeOK
  <2> QED BY <1>1, <2>1, <2>2, <2>3 DEF giveBack, Queued
<1>3. CASE ~ work[m].msg.tries < MaxDeliveries
  BY <1>1, <1>3 DEF giveBack, TypeOK, Queued
<1> QED BY <1>2, <1>3

-----------------------------------------------------------------------------
(* The steps *)

LEMMA InitIInv == Init => IInv
<1> SUFFICES ASSUME Init PROVE IInv
  OBVIOUS
<1>1. TypeOK
  BY NullAssumption DEF Init, TypeOK
<1>2. Decided /\ GivenUpIfAmbiguous
  BY DEF Init, Decided, GivenUpIfAmbiguous
<1>3. NothingLost
  BY DEF Init, NothingLost, ToSet
<1> QED BY <1>1, <1>2, <1>3 DEF IInv

\* The agent sends something.
LEMMA SendIInv ==
    ASSUME IInv, NEW i \in Items, sendSession(i) \/ sendMessage(i)
    PROVE  IInv'
<1> USE DEF IInv
<1>1. /\ sent' = Append(sent, i)
      /\ UNCHANGED <<isDelayed, pool, work, rows, discarded, dead, failures>>
  BY DEF sendSession, sendMessage, storeVars
<1>2. sent' \in Seq(Items) /\ ToSet(sent') = ToSet(sent) \cup {i}
  BY <1>1, AppendElements DEF TypeOK
<1>3. [item |-> i, tries |-> 1] \in Delivery
  BY StoreAssumption DEF Delivery
<1>4. \/ /\ waiting' \in Seq(Sessions) /\ ToSet(waiting') = ToSet(waiting) \cup {i}
         /\ queue' = queue
      \/ /\ queue' \in Seq(Delivery)
         /\ ToSet(queue') = ToSet(queue) \cup {[item |-> i, tries |-> 1]}
         /\ waiting' = waiting
  <2>1. CASE sendNow(i) /\ UNCHANGED waiting
    BY <1>3, <2>1, AppendElements DEF sendNow, TypeOK
  <2>2. CASE i \in Sessions /\ waiting' = Append(waiting, i) /\ UNCHANGED queue
    BY <2>2, AppendElements DEF TypeOK
  <2> QED BY <2>1, <2>2 DEF sendSession, sendMessage
<1>5. TypeOK'
  BY <1>1, <1>2, <1>4 DEF TypeOK
<1>6. Decided' /\ GivenUpIfAmbiguous'
  BY <1>1 DEF Decided, GivenUpIfAmbiguous, Ambiguous, findByCallID
<1>7. Settled' = Settled /\ InWork' = InWork
  BY <1>1 DEF Settled, Stored, Attached, InWork
<1>8. OnTheWay' = OnTheWay \cup {i}
  <2> DEFINE msg == [item |-> i, tries |-> 1]
  <2>1. msg.item = i
    OBVIOUS
  <2> HIDE DEF msg
  <2>2. \/ ToSet(waiting') = ToSet(waiting) \cup {i} /\ Queued' = Queued
        \/ Queued' = Queued \cup {i} /\ waiting' = waiting
    BY <1>4, <2>1 DEF Queued, msg
  <2> QED BY <1>7, <2>2 DEF OnTheWay
<1> QED BY <1>2, <1>5, <1>6, <1>7, <1>8 DEF NothingLost

\* The DelayedSender sends a session.
LEMMA SendDelayedIInv ==
    ASSUME IInv, sendDelayed
    PROVE  IInv'
<1> USE DEF IInv
<1>1. /\ UNCHANGED <<isDelayed, sent, pool, work, rows, discarded, dead>>
      /\ failures' = failures \/ failures' = failures + 1
      /\ waiting' = waiting \/ waiting' = Tail(waiting)
  BY DEF sendDelayed, storeVars, fail
<1>2. PICK i : i = Head(waiting)
  OBVIOUS
<1>3. /\ i \in Sessions /\ waiting' \in Seq(Sessions)
      /\ ToSet(waiting) \subseteq {i} \cup ToSet(waiting')
  BY <1>1, <1>2, TailElements DEF sendDelayed, TypeOK
<1>4. [item |-> i, tries |-> 1] \in Delivery
  BY <1>3, StoreAssumption DEF Delivery, Items
<1>5. /\ queue' \in Seq(Delivery)
      /\ ToSet(queue') = ToSet(queue) \cup {[item |-> i, tries |-> 1]}
  BY <1>2, <1>4, AppendElements DEF sendDelayed, sendNow, TypeOK
<1>6. TypeOK'
  BY <1>1, <1>3, <1>5 DEF TypeOK
<1>7. Decided' /\ GivenUpIfAmbiguous'
  <2>1. \A j : Ambiguous(j)' <=> Ambiguous(j)
    BY <1>1 DEF Ambiguous, findByCallID
  <2>2. failures' = 0 => failures = 0
    BY <1>1 DEF TypeOK
  <2> QED BY <1>1, <2>1, <2>2 DEF Decided, GivenUpIfAmbiguous
<1>8. Settled' = Settled /\ InWork' = InWork
  BY <1>1 DEF Settled, Stored, Attached, InWork
<1>9. OnTheWay \subseteq OnTheWay'
  BY <1>3, <1>5, <1>8 DEF OnTheWay, Queued
<1> QED BY <1>1, <1>6, <1>7, <1>8, <1>9 DEF NothingLost

\* An instance gets a message.
LEMMA DeliverIInv ==
    ASSUME IInv, NEW m \in Instances, deliver(m)
    PROVE  IInv'
<1> USE DEF IInv
<1>1. PICK msg : msg = Head(queue)
  OBVIOUS
<1>2. /\ msg \in Delivery /\ queue' \in Seq(Delivery)
      /\ ToSet(queue) = {msg} \cup ToSet(queue')
  BY <1>1, TailElements DEF deliver, TypeOK
<1> DEFINE w == [msg |-> msg, effect |-> "none", row |-> 0]
<1>3. w \in Work
  BY <1>2 DEF Work, Effects
<1>4. /\ work' = [work EXCEPT ![m] = w] /\ work[m] = null
      /\ UNCHANGED <<isDelayed, sent, waiting, pool, rows, discarded, dead, failures>>
  BY <1>1 DEF deliver, agentVars, storeVars
<1>5. w.msg = msg /\ w.effect = "none" /\ w.row = 0
  OBVIOUS
<1> HIDE DEF w
<1>6. w # null
  BY <1>3, NullAssumption
<1>7. /\ work'[m] = w /\ \A n \in Instances : n # m => work'[n] = work[n]
      /\ work' \in [Instances -> Work \cup {null}]
  BY <1>3, <1>4 DEF TypeOK
<1>8. 0 \notin DOMAIN rows
  BY DEF TypeOK
<1>9. TypeOK'
  BY <1>2, <1>4, <1>5, <1>7, <1>8 DEF TypeOK
<1>10. Decided'
  BY <1>4, <1>5, <1>7 DEF Decided, Ambiguous, findByCallID
<1>11. GivenUpIfAmbiguous'
  BY <1>4 DEF GivenUpIfAmbiguous, Ambiguous, findByCallID
<1>12. Settled' = Settled
  BY <1>4 DEF Settled, Stored, Attached
<1>13. InWork \subseteq InWork' /\ msg.item \in InWork'
  BY <1>4, <1>5, <1>6, <1>7 DEF InWork
<1>14. OnTheWay \subseteq OnTheWay'
  BY <1>2, <1>4, <1>13 DEF OnTheWay, Queued
<1> QED BY <1>4, <1>9, <1>10, <1>11, <1>12, <1>14 DEF NothingLost

\* An instance decides on its message.
LEMMA OnMessageIInv ==
    ASSUME IInv, NEW m \in Instances, onMessage(m)
    PROVE  IInv'
<1> USE DEF IInv
<1>1. /\ work[m] # null /\ work[m] \in Work
      /\ UNCHANGED <<isDelayed, sent, waiting, pool, queue, rows, discarded, dead,
                     failures>>
  BY DEF onMessage, agentVars, storeVars, TypeOK
<1>2. PICK i : i = work[m].msg.item
  OBVIOUS
<1>3. PICK effect \in Effects, row \in Nat :
        decide(m, effect, row) /\ Decision(i, effect, row)
  <2>1. DOMAIN rows \subseteq Nat /\ 0 \notin DOMAIN rows
    BY DEF TypeOK
  <2>2. ASSUME NEW effect \in Effects, NEW row \in Nat,
               decide(m, effect, row), Decision(i, effect, row)
        PROVE  \E e \in Effects, r \in Nat : decide(m, e, r) /\ Decision(i, e, r)
    BY <2>2
  <2>3. CASE addSIPSession(m)
    BY <1>2, <2>1, <2>2, <2>3 DEF addSIPSession, Effects, Decision
  <2>4. CASE addSIPMessage(m)
    <3>1. i \in Messages
      BY <1>2, <2>4 DEF addSIPMessage
    <3>2. CASE decide(m, "discard", 0)
      BY <2>1, <2>2, <3>1, <3>2 DEF Effects, Decision
    <3>3. CASE \E r \in findByCallID(CallOf[i]) : decide(m, "attach", r)
      BY <2>1, <2>2, <3>1, <3>3 DEF Effects, Decision, findByCallID
    <3>4. CASE decide(m, "rollback", 0) /\ Ambiguous(i)
      BY <2>1, <2>2, <3>4 DEF Effects, Decision
    <3> QED BY <1>2, <2>4, <3>1, <3>2, <3>3, <3>4 DEF addSIPMessage, Ambiguous
  <2> QED BY <2>3, <2>4 DEF onMessage
<1> DEFINE w == [work[m] EXCEPT !.effect = effect, !.row = row]
<1>5. /\ w \in Work /\ w.msg = work[m].msg /\ w.effect = effect /\ w.row = row
  BY <1>1 DEF Work
<1>6. work' = [work EXCEPT ![m] = w]
  BY <1>3 DEF decide
<1> HIDE DEF w
<1>7. /\ work'[m] = w /\ w # null
      /\ \A n \in Instances : n # m => work'[n] = work[n]
      /\ work' \in [Instances -> Work \cup {null}]
  BY <1>5, <1>6, NullAssumption DEF TypeOK
<1>8. TypeOK'
  BY <1>1, <1>3, <1>5, <1>7 DEF TypeOK, Decision
<1>9. Decided'
  <2>1. \A j : Ambiguous(j)' <=> Ambiguous(j)
    BY <1>1 DEF Ambiguous, findByCallID
  <2>2. ASSUME NEW n \in Instances, n # m, work'[n] # null
        PROVE  LET j == work'[n].msg.item IN
               /\ work'[n].effect = "persist" => j \in Sessions
               /\ work'[n].effect \in {"attach", "discard"} => j \in Messages
               /\ work'[n].effect # "attach" => work'[n].row = 0
               /\ work'[n].effect = "rollback" => Ambiguous(j)
    BY <1>7, <2>2 DEF Decided
  <2> QED BY <1>2, <1>3, <1>5, <1>7, <2>1, <2>2 DEF Decided, Decision
<1>10. GivenUpIfAmbiguous'
  BY <1>1 DEF GivenUpIfAmbiguous, Ambiguous, findByCallID
<1>11. InWork \subseteq InWork'
  BY <1>1, <1>5, <1>7 DEF InWork
<1>12. OnTheWay \subseteq OnTheWay' /\ Settled' = Settled
  BY <1>1, <1>11 DEF OnTheWay, Queued, Settled, Stored, Attached
<1> QED BY <1>1, <1>8, <1>9, <1>10, <1>12 DEF NothingLost

\* An instance finishes: its transaction commits or not, and its message is
\* acknowledged or given back.
LEMMA FinishIInv ==
    ASSUME IInv, NEW m \in Instances, finish(m)
    PROVE  IInv'
<1> USE DEF IInv
<1>1. /\ work[m] # null /\ work[m] \in Work
      /\ UNCHANGED <<isDelayed, sent, waiting, pool>>
      /\ failures \in Nat /\ failures' \in Nat
  BY DEF finish, commit, rollback, commitUnacknowledged, agentVars, TypeOK, fail
<1>2. PICK i : i = work[m].msg.item
  OBVIOUS
<1>3. /\ RowsGrow
      /\ \/ commitWork(m)
         \/ giveBack(m) /\ UNCHANGED <<rows, discarded>>
  <2>1. CASE commitWork(m)
    BY <1>1, <2>1, CommitGrows
  <2>2. CASE giveBack(m) /\ UNCHANGED <<rows, discarded>>
    BY <2>2 DEF RowsGrow, TypeOK, Row
  <2> QED BY <2>1, <2>2 DEF finish, commit, rollback, commitUnacknowledged, storeVars
<1>4. /\ work' = [work EXCEPT ![m] = null]
      /\ queue' \in Seq(Delivery) /\ Queued \subseteq Queued'
      /\ dead \subseteq dead' /\ dead' \subseteq dead \cup {i} /\ i \in Items
  <2>1. CASE commit(m)
    BY <1>1, <1>2, <2>1 DEF commit, TypeOK, Queued, Work, Delivery
  <2>2. CASE giveBack(m)
    BY <1>1, <1>2, <2>2, GivenBack
  <2> QED BY <2>1, <2>2 DEF finish, rollback, commitUnacknowledged
<1>5. /\ work'[m] = null /\ \A n \in Instances : n # m => work'[n] = work[n]
      /\ work' \in [Instances -> Work \cup {null}]
  BY <1>4 DEF TypeOK
<1>6. /\ Stored \subseteq Stored' /\ Attached \subseteq Attached'
      /\ discarded \subseteq discarded'
      /\ \A j : Ambiguous(j) => Ambiguous(j)'
  BY <1>3, SettledStays
<1>7. TypeOK'
  <2>1. ASSUME NEW n \in Instances, work'[n] # null
        PROVE  work'[n].effect = "attach" <=> work'[n].row \in DOMAIN rows'
    <3>1. n # m /\ work'[n] = work[n] /\ work[n] # null
      BY <1>5, <2>1
    <3>2. 0 \notin DOMAIN rows'
      BY <1>3 DEF RowsGrow
    <3> QED BY <1>3, <3>1, <3>2 DEF TypeOK, Decided, RowsGrow
  <2> QED BY <1>1, <1>3, <1>4, <1>5, <2>1 DEF TypeOK, RowsGrow, Row
<1>8. Decided'
  BY <1>5, <1>6 DEF Decided
<1>9. GivenUpIfAmbiguous'
  <2> SUFFICES ASSUME failures' = 0, NEW j \in dead'
               PROVE  Ambiguous(j)'
    BY DEF GivenUpIfAmbiguous
  <2>1. CASE failures' = failures
    <3>1. CASE j \in dead
      BY <1>6, <2>1, <3>1 DEF GivenUpIfAmbiguous
    <3>2. CASE j \notin dead
      <4>1. j = i /\ dead' # dead
        BY <1>4, <3>2
      <4>2. work[m].effect = "rollback"
        BY <1>1, <2>1, <4>1
           DEF finish, commit, rollback, commitUnacknowledged, fail, storeVars
      <4> QED BY <1>1, <1>2, <1>6, <4>1, <4>2 DEF Decided
    <3> QED BY <3>1, <3>2
  <2>2. CASE failures' # failures
    BY <1>1, <2>2
       DEF finish, commit, rollback, commitUnacknowledged, fail
  <2> QED BY <2>1, <2>2
<1>10. i \in Queued' \/ i \in Settled'
  <2>1. CASE commitWork(m)
    <3>1. \/ \E r \in DOMAIN rows' :
                rows'[r].session = i \/ i \in ToSet(rows'[r].messages)
          \/ i \in discarded'
      BY <1>1, <1>2, <2>1, CommitGrows
    <3> QED BY <3>1 DEF Settled, Stored, Attached
  <2>2. CASE giveBack(m)
    BY <1>1, <1>2, <2>2, GivenBack DEF Settled
  <2> QED BY <1>3, <2>1, <2>2
<1>11. InWork \subseteq InWork' \cup {i}
  BY <1>1, <1>2, <1>5 DEF InWork
<1>12. OnTheWay \cup Settled \subseteq OnTheWay' \cup Settled'
  BY <1>1, <1>4, <1>6, <1>10, <1>11 DEF OnTheWay, Settled
<1> QED BY <1>1, <1>7, <1>8, <1>9, <1>12 DEF NothingLost

\* The invariant is inductive.
LEMMA NextIInv == IInv /\ [Next]_vars => IInv'
<1> SUFFICES ASSUME IInv, [Next]_vars PROVE IInv'
  OBVIOUS
<1>1. CASE UNCHANGED vars
  <2>1. /\ UNCHANGED <<isDelayed, pool, sent, waiting, queue, work, rows>>
        /\ UNCHANGED <<discarded, dead, failures>>
    BY <1>1 DEF vars, agentVars, storeVars
  <2>2. TypeOK'
    BY <2>1 DEF IInv, TypeOK
  <2>3. \A j : Ambiguous(j)' <=> Ambiguous(j)
    BY <2>1 DEF Ambiguous, findByCallID
  <2>4. Decided' /\ GivenUpIfAmbiguous'
    BY <2>1, <2>3 DEF IInv, Decided, GivenUpIfAmbiguous
  <2>5. OnTheWay' = OnTheWay /\ Settled' = Settled
    BY <2>1 DEF OnTheWay, Queued, InWork, Settled, Stored, Attached
  <2> QED BY <2>1, <2>2, <2>4, <2>5 DEF IInv, NothingLost
<1>2. CASE Next
  BY <1>2, SendIInv, SendDelayedIInv, DeliverIInv, OnMessageIInv, FinishIInv
     DEF Next, Items
<1> QED BY <1>1, <1>2

LEMMA AlwaysIInv == Spec => []IInv
  BY InitIInv, NextIInv, PTL DEF Spec

-----------------------------------------------------------------------------
\* Every variable keeps its type, and a message is attached to an existing row.
THEOREM TypeCorrect == Spec => []TypeOK
<1>1. IInv => TypeOK
  BY DEF IInv
<1> QED BY <1>1, AlwaysIInv, PTL

\* Nothing that was given to a running Sender is lost on its way.
THEOREM NothingIsLost == Spec => []NothingLost
<1>1. IInv => NothingLost
  BY DEF IInv
<1> QED BY <1>1, AlwaysIInv, PTL

\* Without failures only a message with two sessions to choose from is given up.
THEOREM OnlyAmbiguousGivenUp == Spec => []GivenUpIfAmbiguous
<1>1. IInv => GivenUpIfAmbiguous
  BY DEF IInv
<1> QED BY <1>1, AlwaysIInv, PTL
=============================================================================
