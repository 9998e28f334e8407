--------------------- MODULE SessionStoreDeliveryProofs ---------------------
(***************************************************************************)
(* Proofs about what becomes of the items that are delivered, for any      *)
(* sessions, messages, Call-IDs, instances and failures:                   *)
(*   - failures alone put duplicates into the database.  While nothing     *)
(*     fails an item is at one place at a time: it waits for the           *)
(*     DelayedSender, is in the JMS queue, is worked on by one instance,   *)
(*     or is settled in one way;                                           *)
(*   - a message is discarded after its session was sent only in delayed   *)
(*     mode, by concurrent instances, or when the session was given up.    *)
(*     Otherwise the session keeps ahead of the message: in the queue,     *)
(*     where what is given back goes to the head, and with the one         *)
(*     instance.                                                           *)
(***************************************************************************)
EXTENDS SessionStoreProofs

-----------------------------------------------------------------------------
(* Once *)

\* A message, when an instance attaches it, and ever after, is with a session
\* of its Call-ID.
CallInv ==
    /\ \A r \in DOMAIN rows : \A i \in ToSet(rows[r].messages) :
          CallOf[i] = CallOf[rows[r].session]
    /\ \A m \in Instances : work[m] # null /\ work[m].effect = "attach" =>
          CallOf[work[m].msg.item] = CallOf[rows[work[m].row].session]

\* No two elements of q have the same image under f.
Distinct(q, f) == \A k, l \in DOMAIN q : f[q[k]] = f[q[l]] => k = l

itself == [s \in Sessions |-> s]
itemOf == [msg \in Delivery |-> msg.item]

\* The database has nothing twice.
RowsOnce ==
    /\ \A r1, r2 \in DOMAIN rows : rows[r1].session = rows[r2].session => r1 = r2
    /\ \A r \in DOMAIN rows : IsInjective(rows[r].messages)
    /\ \A r1, r2 \in DOMAIN rows : r1 # r2 =>
          ToSet(rows[r1].messages) \cap ToSet(rows[r2].messages) = {}
    /\ Attached \cap discarded = {}
    /\ dead \cap (Stored \cup Attached \cup discarded) = {}

\* Every item that was sent is at one place.
OnePlace ==
    /\ Distinct(waiting, itself)
    /\ Distinct(queue, itemOf)
    /\ \A m, n \in Instances :
          work[m] # null /\ work[n] # null /\ work[m].msg.item = work[n].msg.item =>
              m = n
    /\ ToSet(waiting) \cap Queued = {}
    /\ ToSet(waiting) \cap InWork = {}
    /\ Queued \cap InWork = {}
    /\ OnTheWay \cap Settled = {}
    /\ OnTheWay \cup Settled \subseteq ToSet(sent)

OnceInv == failures = 0 => RowsOnce /\ OnePlace

-----------------------------------------------------------------------------
(* Sequences without repetition *)

LEMMA AppendDistinct ==
    ASSUME NEW S, NEW q \in Seq(S), NEW x \in S, NEW f,
           Distinct(q, f), \A y \in ToSet(q) : f[y] # f[x]
    PROVE  Distinct(Append(q, x), f)
<1>1. /\ \A k \in 1..Len(q) : Append(q, x)[k] = q[k]
      /\ Append(q, x)[Len(q) + 1] = x
      /\ Len(q) \in Nat /\ DOMAIN q = 1..Len(q)
      /\ DOMAIN Append(q, x) = 1..(Len(q) + 1)
  OBVIOUS
<1>2. 1..(Len(q) + 1) = (1..Len(q)) \cup {Len(q) + 1}
  BY <1>1
<1>3. \A k \in 1..Len(q) : f[q[k]] # f[x]
  BY <1>1 DEF ToSet
<1> QED BY <1>1, <1>2, <1>3 DEF Distinct

LEMMA TailDistinct ==
    ASSUME NEW S, NEW q \in Seq(S), q # <<>>, NEW f, Distinct(q, f)
    PROVE  /\ Distinct(Tail(q), f)
           /\ \A y \in ToSet(Tail(q)) : f[y] # f[Head(q)]
<1>1. /\ Head(q) = q[1] /\ Len(q) \in Nat /\ Len(q) > 0
      /\ \A k \in 1..(Len(q) - 1) : Tail(q)[k] = q[k + 1]
      /\ DOMAIN q = 1..Len(q) /\ DOMAIN Tail(q) = 1..(Len(q) - 1)
  OBVIOUS
<1>2. 1 \in 1..Len(q) /\ \A k \in 1..(Len(q) - 1) : k + 1 \in 1..Len(q) /\ k + 1 # 1
  BY <1>1
<1>3. \A k, l \in 1..(Len(q) - 1) : k + 1 = l + 1 => k = l
  BY <1>1
<1>4. Distinct(Tail(q), f)
  BY <1>1, <1>2, <1>3 DEF Distinct
<1>5. \A k \in 1..(Len(q) - 1) : f[Tail(q)[k]] # f[Head(q)]
  BY <1>1, <1>2 DEF Distinct
<1> QED BY <1>1, <1>4, <1>5 DEF ToSet

LEMMA ConsDistinct ==
    ASSUME NEW S, NEW q \in Seq(S), NEW x \in S, NEW f,
           Distinct(q, f), \A y \in ToSet(q) : f[y] # f[x]
    PROVE  Distinct(<<x>> \o q, f)
<1> DEFINE c == <<x>> \o q
<1>1. /\ c[1] = x
      /\ \A k \in 1..Len(q) : c[k + 1] = q[k]
      /\ Len(q) \in Nat /\ DOMAIN q = 1..Len(q)
      /\ DOMAIN c = 1..(Len(q) + 1)
  OBVIOUS
<1> HIDE DEF c
<1>2. ASSUME NEW k \in 1..(Len(q) + 1), k # 1
      PROVE  \E p \in 1..Len(q) : k = p + 1 /\ c[k] = q[p]
  <2>1. k - 1 \in 1..Len(q) /\ (k - 1) + 1 = k
    BY <1>1, <1>2
  <2> QED BY <1>1, <2>1, Zenon
<1>3. \A k \in 1..Len(q) : f[q[k]] # f[x]
  BY <1>1 DEF ToSet
<1>4. ASSUME NEW k \in DOMAIN c, NEW l \in DOMAIN c, f[c[k]] = f[c[l]]
      PROVE  k = l
  <2>1. CASE k = 1 /\ l = 1
    BY <2>1
  <2>2. CASE k = 1 /\ l # 1
    BY <1>1, <1>2, <1>3, <1>4, <2>2
  <2>3. CASE k # 1 /\ l = 1
    BY <1>1, <1>2, <1>3, <1>4, <2>3
  <2>4. CASE k # 1 /\ l # 1
    <3>1. PICK p \in 1..Len(q) : k = p + 1 /\ c[k] = q[p]
      BY <1>1, <1>2, <2>4
    <3>2. PICK o \in 1..Len(q) : l = o + 1 /\ c[l] = q[o]
      BY <1>1, <1>2, <2>4
    <3> QED BY <1>1, <1>4, <3>1, <3>2 DEF Distinct
  <2> QED BY <2>1, <2>2, <2>3, <2>4
<1>5. Distinct(c, f)
  BY <1>4 DEF Distinct
<1> QED BY <1>5 DEF c

-----------------------------------------------------------------------------
(* The Call-IDs of attached messages *)

LEMMA CallKept ==
    ASSUME IInv, CallInv, [Next]_vars
    PROVE  CallInv'
<1> USE DEF IInv
<1>1. ASSUME UNCHANGED rows,
             \A n \in Instances : work'[n] # null =>
                 work'[n] = work[n] \/ work'[n].effect = "none"
      PROVE  CallInv'
  BY <1>1 DEF CallInv
<1>2. ASSUME NEW i \in Items, sendSession(i) \/ sendMessage(i)
      PROVE  CallInv'
  BY <1>1, <1>2 DEF sendSession, sendMessage, storeVars
<1>3. CASE sendDelayed
  BY <1>1, <1>3 DEF sendDelayed, storeVars
<1>4. ASSUME NEW m \in Instances, deliver(m)
      PROVE  CallInv'
  BY <1>1, <1>4 DEF deliver, storeVars, TypeOK
<1>5. ASSUME NEW m \in Instances, onMessage(m)
      PROVE  CallInv'
  <2>1. work[m] # null /\ work[m] \in Work /\ rows' = rows
    BY <1>5 DEF onMessage, storeVars, TypeOK
  <2>2. PICK effect, row :
           /\ decide(m, effect, row)
           /\ effect = "attach" => row \in findByCallID(CallOf[work[m].msg.item])
    <3>1. CASE addSIPSession(m)
      BY <3>1 DEF addSIPSession
    <3>2. CASE addSIPMessage(m)
      BY <3>2 DEF addSIPMessage
    <3> QED BY <1>5, <3>1, <3>2 DEF onMessage
  <2>3. /\ work'[m].effect = effect /\ work'[m].row = row
        /\ work'[m].msg = work[m].msg
        /\ \A n \in Instances : n # m => work'[n] = work[n]
    BY <2>1, <2>2 DEF decide, TypeOK, Work
  <2>4. effect = "attach" =>
            CallOf[work'[m].msg.item] = CallOf[rows[row].session]
    BY <2>2, <2>3 DEF findByCallID
  <2>5. ASSUME NEW n \in Instances, work'[n] # null, work'[n].effect = "attach"
        PROVE  CallOf[work'[n].msg.item] = CallOf[rows[work'[n].row].session]
    <3>1. CASE n = m
      BY <2>3, <2>4, <2>5, <3>1
    <3>2. CASE n # m
      BY <2>3, <2>5, <3>2 DEF CallInv
    <3> QED BY <3>1, <3>2
  <2> QED BY <2>1, <2>5 DEF CallInv
<1>6. ASSUME NEW m \in Instances, finish(m)
      PROVE  CallInv'
  <2>1. /\ work[m] # null
        /\ work' = [work EXCEPT ![m] = null]
        /\ commitWork(m) \/ UNCHANGED <<rows, discarded>>
    BY <1>6 DEF finish, commit, rollback, commitUnacknowledged, giveBack, storeVars
  <2>2. \A n \in Instances : work'[n] # null => n # m /\ work'[n] = work[n]
    BY <2>1 DEF TypeOK
  <2>3. CASE UNCHANGED rows
    BY <1>1, <2>2, <2>3
  <2>4. CASE commitWork(m)
    <3>1. RowsGrow
      BY <2>1, <2>4, CommitGrows
    <3>2. ASSUME NEW n \in Instances, work'[n] # null, work'[n].effect = "attach"
          PROVE  CallOf[work'[n].msg.item] = CallOf[rows'[work'[n].row].session]
      <4>1. work'[n] = work[n] /\ work[n] # null
        BY <2>2, <3>2
      <4>2. work[n].row \in DOMAIN rows
        BY <3>2, <4>1 DEF TypeOK
      <4>3. rows'[work[n].row].session = rows[work[n].row].session
        BY <3>1, <4>2 DEF RowsGrow
      <4>4. CallOf[work[n].msg.item] = CallOf[rows[work[n].row].session]
        BY <3>2, <4>1 DEF CallInv
      <4> QED BY <4>1, <4>3, <4>4
    <3>3. ASSUME NEW r \in DOMAIN rows', NEW i \in ToSet(rows'[r].messages)
          PROVE  CallOf[i] = CallOf[rows'[r].session]
      <4> DEFINE item == work[m].msg.item
      <4>1. CASE rows' = Append(rows, [session |-> item, messages |-> <<>>])
        <5>1. CASE r \in DOMAIN rows
          BY <3>3, <4>1, <5>1 DEF CallInv, TypeOK
        <5>2. CASE r \notin DOMAIN rows
          <6>1. rows'[r] = [session |-> item, messages |-> <<>>]
            BY <3>3, <4>1, <5>2 DEF TypeOK
          <6> QED BY <3>3, <6>1 DEF ToSet
        <5> QED BY <5>1, <5>2
      <4>2. CASE /\ work[m].effect = "attach"
                 /\ rows' = [rows EXCEPT ![work[m].row].messages = Append(@, item)]
        <5>1. PICK q \in DOMAIN rows : q = work[m].row
          BY <2>1, <4>2 DEF TypeOK
        <5>2. /\ item \in Messages /\ rows[q] \in Row /\ DOMAIN rows' = DOMAIN rows
              /\ CallOf[item] = CallOf[rows[q].session]
          <6>1. item \in Messages
            BY <2>1, <4>2 DEF Decided
          <6>2. rows \in Seq(Row)
            BY DEF TypeOK, Row
          <6>3. CallOf[item] = CallOf[rows[q].session]
            BY <2>1, <4>2, <5>1 DEF CallInv
          <6>4. DOMAIN rows' = DOMAIN rows
            BY <4>2
          <6> QED BY <6>1, <6>2, <6>3, <6>4
        <5>3. ToSet(Append(rows[q].messages, item)) = ToSet(rows[q].messages) \cup {item}
          BY <5>2, AppendElements DEF Row
        <5>4. CASE r = q
          <6>1. /\ rows'[r].session = rows[q].session
                /\ rows'[r].messages = Append(rows[q].messages, item)
            BY <4>2, <5>1, <5>2, <5>4 DEF Row
          <6> QED BY <3>3, <5>2, <5>3, <6>1 DEF CallInv
        <5>5. CASE r # q
          BY <3>3, <4>2, <5>1, <5>2, <5>5 DEF CallInv
        <5> QED BY <5>4, <5>5
      <4>3. CASE rows' = rows
        BY <3>3, <4>3 DEF CallInv
      <4> QED BY <2>4, <4>1, <4>2, <4>3 DEF commitWork
    <3> QED BY <3>2, <3>3 DEF CallInv
  <2> QED BY <2>1, <2>3, <2>4
<1>7. CASE UNCHANGED vars
  BY <1>1, <1>7 DEF vars, storeVars
<1> QED BY <1>2, <1>3, <1>4, <1>5, <1>6, <1>7 DEF Next, Items

-----------------------------------------------------------------------------
(* What is settled once *)

\* A commit of an item that is not settled settles it in one way.
LEMMA CommitOnce ==
    ASSUME TypeOK, Decided, RowsOnce, NEW m \in Instances, work[m] # null,
           commitWork(m), NEW i, i = work[m].msg.item, i \notin Settled, dead' = dead
    PROVE  RowsOnce' /\ Settled' = Settled \cup {i}
<1>1. /\ rows \in Seq(Row) /\ i \notin Stored /\ i \notin Attached
      /\ i \notin discarded /\ i \notin dead
  BY DEF TypeOK, Row, Settled
<1>2. CASE /\ work[m].effect = "persist" /\ UNCHANGED discarded
           /\ rows' = Append(rows, [session |-> i, messages |-> <<>>])
  <2> DEFINE row == [session |-> i, messages |-> <<>>]
             N == Len(rows) + 1
  <2>1. row \in Row /\ row.session = i /\ row.messages = <<>>
    BY <1>2 DEF Decided, Row
  <2>2. ToSet(row.messages) = {} /\ IsInjective(row.messages)
    BY <2>1 DEF ToSet, IsInjective
  <2> HIDE DEF row
  <2>3. /\ DOMAIN rows' = 1..N /\ DOMAIN rows = 1..Len(rows) /\ Len(rows) \in Nat
        /\ \A r \in 1..Len(rows) : rows'[r] = rows[r]
        /\ rows'[N] = row
    BY <1>1, <1>2, <2>1 DEF row
  <2>4. DOMAIN rows' = DOMAIN rows \cup {N}
    BY <2>3
  <2>5. \A r \in DOMAIN rows : rows[r].session # i
    BY <1>1 DEF Stored
  <2> HIDE DEF N
  <2>6. /\ Stored' = Stored \cup {i} /\ Attached' = Attached
    BY <2>1, <2>2, <2>3, <2>4 DEF Stored, Attached
  <2>7. \A r1, r2 \in DOMAIN rows' : rows'[r1].session = rows'[r2].session => r1 = r2
    BY <2>1, <2>3, <2>4, <2>5 DEF RowsOnce
  <2>8. /\ \A r \in DOMAIN rows' : IsInjective(rows'[r].messages)
        /\ \A r1, r2 \in DOMAIN rows' : r1 # r2 =>
              ToSet(rows'[r1].messages) \cap ToSet(rows'[r2].messages) = {}
    BY <2>2, <2>3, <2>4 DEF RowsOnce
  <2>9. /\ Attached' \cap discarded' = {}
        /\ dead' \cap (Stored' \cup Attached' \cup discarded') = {}
    BY <1>1, <1>2, <2>6 DEF RowsOnce
  <2>10. RowsOnce'
    BY <2>7, <2>8, <2>9, Zenon DEF RowsOnce
  <2> QED BY <1>2, <2>6, <2>10 DEF Settled
<1>3. CASE /\ work[m].effect = "attach" /\ UNCHANGED discarded
           /\ rows' = [rows EXCEPT ![work[m].row].messages = Append(@, i)]
  <2>1. PICK q \in DOMAIN rows : q = work[m].row
    BY <1>3 DEF TypeOK
  <2>2. i \in Messages /\ rows[q] \in Row
    BY <1>1, <1>3, <2>1 DEF Decided
  <2> DEFINE row == [rows[q] EXCEPT !.messages = Append(@, i)]
             list == Append(rows[q].messages, i)
  <2>3. ToSet(list) = ToSet(rows[q].messages) \cup {i}
    BY <2>2, AppendElements DEF Row
  <2>4. row.session = rows[q].session /\ row.messages = list
    BY <2>2 DEF Row
  <2>5. /\ DOMAIN rows' = DOMAIN rows /\ rows'[q] = row
        /\ \A r \in DOMAIN rows : r # q => rows'[r] = rows[r]
    BY <1>1, <1>3, <2>1
  <2>6. \A r \in DOMAIN rows : i \notin ToSet(rows[r].messages)
    BY <1>1 DEF Attached
  <2>7. IsInjective(list)
    <3>1. /\ rows[q].messages \in Seq(Messages) /\ IsInjective(rows[q].messages)
          /\ i \notin ToSet(rows[q].messages)
      BY <2>2, <2>6 DEF Row, RowsOnce
    <3> DEFINE old == rows[q].messages
    <3>2. /\ \A k \in 1..Len(old) : Append(old, i)[k] = old[k]
          /\ Append(old, i)[Len(old) + 1] = i
          /\ Len(old) \in Nat /\ DOMAIN old = 1..Len(old)
          /\ DOMAIN Append(old, i) = 1..(Len(old) + 1)
      BY <2>2, <3>1
    <3> HIDE DEF old
    <3>3. 1..(Len(old) + 1) = (1..Len(old)) \cup {Len(old) + 1}
      BY <3>2
    <3>4. \A k \in 1..Len(old) : old[k] # i
      BY <3>1, <3>2 DEF ToSet, old
    <3>5. IsInjective(Append(old, i))
      BY <3>1, <3>2, <3>3, <3>4 DEF IsInjective, old
    <3> QED BY <3>5 DEF old
  <2> HIDE DEF row, list
  <2>8. Stored' = Stored /\ Attached' = Attached \cup {i}
    BY <2>1, <2>3, <2>4, <2>5 DEF Stored, Attached
  <2>9. \A r1, r2 \in DOMAIN rows' : rows'[r1].session = rows'[r2].session => r1 = r2
    BY <2>4, <2>5 DEF RowsOnce
  <2>10. \A r \in DOMAIN rows' : IsInjective(rows'[r].messages)
    BY <2>4, <2>5, <2>7 DEF RowsOnce
  <2>11. \A r1, r2 \in DOMAIN rows' : r1 # r2 =>
            ToSet(rows'[r1].messages) \cap ToSet(rows'[r2].messages) = {}
    <3> SUFFICES ASSUME NEW r1 \in DOMAIN rows', NEW r2 \in DOMAIN rows', r1 # r2
                 PROVE  ToSet(rows'[r1].messages) \cap ToSet(rows'[r2].messages) = {}
      OBVIOUS
    <3>1. \A r \in DOMAIN rows : r # q =>
              /\ ToSet(rows[r].messages) \cap ToSet(rows[q].messages) = {}
              /\ i \notin ToSet(rows[r].messages)
      BY <2>6 DEF RowsOnce
    <3>2. CASE r1 = q
      BY <2>3, <2>4, <2>5, <3>1, <3>2
    <3>3. CASE r2 = q
      BY <2>3, <2>4, <2>5, <3>1, <3>3
    <3>4. CASE r1 # q /\ r2 # q
      BY <2>5, <3>4 DEF RowsOnce
    <3> QED BY <3>2, <3>3, <3>4
  <2>12. /\ Attached' \cap discarded' = {}
         /\ dead' \cap (Stored' \cup Attached' \cup discarded') = {}
    BY <1>1, <1>3, <2>8 DEF RowsOnce
  <2>13. RowsOnce'
    BY <2>9, <2>10, <2>11, <2>12, Zenon DEF RowsOnce
  <2> QED BY <1>3, <2>8, <2>13 DEF Settled
<1>4. CASE work[m].effect = "discard" /\ discarded' = discarded \cup {i} /\ UNCHANGED rows
  <2>1. Stored' = Stored /\ Attached' = Attached
    BY <1>4 DEF Stored, Attached
  <2> QED BY <1>1, <1>4, <2>1 DEF RowsOnce, Settled
<1> QED BY <1>2, <1>3, <1>4 DEF commitWork

\* A message that is given back is in the queue once, or dead.
LEMMA GivenBackOnce ==
    ASSUME TypeOK, NEW m \in Instances, work[m] # null, giveBack(m),
           NEW i, i = work[m].msg.item, i \notin Queued, Distinct(queue, itemOf)
    PROVE  /\ Distinct(queue', itemOf)
           /\ \/ Queued' = Queued \cup {i} /\ dead' = dead
              \/ Queued' = Queued /\ dead' = dead \cup {i}
<1>1. work[m] \in Work /\ work[m].msg \in Delivery /\ queue \in Seq(Delivery)
  BY DEF TypeOK, Work
<1>2. CASE work[m].msg.tries < MaxDeliveries
  <2> DEFINE msg == [work[m].msg EXCEPT !.tries = @ + 1]
  <2>1. msg \in Delivery /\ msg.item = i
    BY <1>1, <1>2, StoreAssumption DEF Delivery
  <2>2. queue' = <<msg>> \o queue /\ dead' = dead
    BY <1>2 DEF giveBack
  <2> HIDE DEF msg
  <2>3. ToSet(queue') = {msg} \cup ToSet(queue)
    BY <1>1, <2>1, <2>2, ConsElements
  <2>4. \A y \in ToSet(queue) : y \in Delivery /\ y.item # i
    BY <1>1 DEF Queued, ToSet
  <2>5. \A y \in ToSet(queue) : itemOf[y] # itemOf[msg]
    BY <2>1, <2>4 DEF itemOf
  <2>6. Distinct(queue', itemOf)
    BY <1>1, <2>1, <2>2, <2>5, ConsDistinct
  <2> QED BY <2>1, <2>2, <2>3, <2>6 DEF Queued
<1>3. CASE ~ work[m].msg.tries < MaxDeliveries
  BY <1>1, <1>3 DEF giveBack, Queued
<1> QED BY <1>2, <1>3

-----------------------------------------------------------------------------
(* The steps *)

\* A step of the agent or of the container is seen as what it does to the
\* places of one item.
LEMMA PlacesKept ==
    ASSUME OnceInv, failures = 0, NEW i,
           RowsOnce', Distinct(waiting, itself)', Distinct(queue, itemOf)',
           \A m, n \in Instances :
              work'[m] # null /\ work'[n] # null /\ work'[m].msg.item = work'[n].msg.item =>
                  m = n,
           ToSet(waiting') \ {i} \subseteq ToSet(waiting),
           Queued' \ {i} \subseteq Queued,
           InWork' \ {i} \subseteq InWork,
           Settled' \ {i} \subseteq Settled,
           i \in ToSet(sent'), ToSet(sent) \subseteq ToSet(sent'),
           i \in ToSet(waiting') => i \notin Queued' /\ i \notin InWork' /\ i \notin Settled',
           i \in Queued' => i \notin InWork' /\ i \notin Settled',
           i \in InWork' => i \notin Settled'
    PROVE  OnceInv'
<1>1. OnePlace
  BY DEF OnceInv
<1>2. /\ ToSet(waiting') \cap Queued' = {}
      /\ ToSet(waiting') \cap InWork' = {}
      /\ Queued' \cap InWork' = {}
  BY <1>1 DEF OnePlace
<1>3. /\ OnTheWay' \cap Settled' = {}
      /\ OnTheWay' \cup Settled' \subseteq ToSet(sent')
  BY <1>1 DEF OnePlace, OnTheWay
<1>4. OnePlace'
  BY <1>2, <1>3 DEF OnePlace
<1> QED BY <1>4 DEF OnceInv

LEMMA SendOnce ==
    ASSUME IInv, OnceInv, failures = 0, NEW i \in Items, sendSession(i) \/ sendMessage(i)
    PROVE  OnceInv'
<1> USE DEF IInv
<1>1. /\ sent' = Append(sent, i) /\ i \notin ToSet(sent)
      /\ UNCHANGED <<work, rows, discarded, dead, failures>>
  BY DEF sendSession, sendMessage, storeVars
<1>2. ToSet(sent') = ToSet(sent) \cup {i}
  BY <1>1, AppendElements DEF TypeOK
<1>3. RowsOnce' /\ InWork' = InWork /\ Settled' = Settled
  BY <1>1 DEF OnceInv, RowsOnce, InWork, Settled, Stored, Attached
<1>4. i \notin ToSet(waiting) /\ i \notin Queued /\ i \notin InWork /\ i \notin Settled
  BY <1>1 DEF OnceInv, OnePlace, OnTheWay
<1>5. OnePlace
  BY DEF OnceInv
<1>6. CASE i \in Sessions /\ waiting' = Append(waiting, i) /\ UNCHANGED queue
  <2>1. ToSet(waiting') = ToSet(waiting) \cup {i}
    BY <1>6, AppendElements DEF TypeOK
  <2>2. \A y \in ToSet(waiting) : itself[y] # itself[i]
    BY <1>4, <1>6 DEF TypeOK, ToSet, itself
  <2>3. Distinct(waiting, itself)'
    BY <1>5, <1>6, <2>2, AppendDistinct DEF OnePlace, TypeOK, itself
  <2>4. Queued' = Queued /\ Distinct(queue, itemOf)'
    BY <1>5, <1>6 DEF Queued, OnePlace
  <2> QED BY <1>1, <1>2, <1>3, <1>4, <1>5, <2>1, <2>3, <2>4, PlacesKept DEF OnePlace
<1>7. CASE sendNow(i) /\ UNCHANGED waiting
  <2> DEFINE msg == [item |-> i, tries |-> 1]
  <2>1. msg \in Delivery /\ msg.item = i
    BY StoreAssumption DEF Delivery
  <2>2. queue' = Append(queue, msg)
    BY <1>7 DEF sendNow
  <2> HIDE DEF msg
  <2>3. ToSet(queue') = ToSet(queue) \cup {msg}
    BY <2>1, <2>2, AppendElements DEF TypeOK
  <2>4. \A y \in ToSet(queue) : itemOf[y] # itemOf[msg]
    BY <1>4, <2>1 DEF TypeOK, ToSet, itemOf, Queued
  <2>5. Distinct(queue', itemOf)
    BY <1>5, <2>1, <2>2, <2>4, AppendDistinct DEF OnePlace, TypeOK
  <2>6. Queued' = Queued \cup {i}
    BY <2>1, <2>3 DEF Queued
  <2>7. Distinct(waiting, itself)' /\ Distinct(queue, itemOf)'
    BY <1>5, <1>7, <2>5 DEF OnePlace, itemOf, itself
  <2> QED BY <1>1, <1>2, <1>3, <1>4, <1>5, <1>7, <2>6, <2>7, PlacesKept DEF OnePlace
<1> QED BY <1>6, <1>7 DEF sendSession, sendMessage

LEMMA SendDelayedOnce ==
    ASSUME IInv, OnceInv, failures = 0, failures' = 0, sendDelayed
    PROVE  OnceInv'
<1> USE DEF IInv
<1>1. /\ UNCHANGED <<sent, work, rows, discarded, dead>>
      /\ waiting # <<>> /\ waiting' = Tail(waiting) /\ sendNow(Head(waiting))
  BY DEF sendDelayed, storeVars, fail
<1>2. OnePlace
  BY DEF OnceInv
<1>3. PICK i : i = Head(waiting)
  OBVIOUS
<1>4. /\ i \in Sessions /\ ToSet(waiting) = {i} \cup ToSet(waiting')
      /\ waiting' \in Seq(Sessions)
  BY <1>1, <1>3, TailElements DEF TypeOK
<1>5. /\ Distinct(waiting', itself)
      /\ \A y \in ToSet(waiting') : itself[y] # itself[i]
  BY <1>1, <1>2, <1>3, TailDistinct DEF OnePlace, TypeOK
<1>6. i \notin ToSet(waiting')
  BY <1>4, <1>5 DEF itself
<1>7. i \notin Queued /\ i \notin InWork /\ i \notin Settled /\ i \in ToSet(sent)
  BY <1>2, <1>4 DEF OnePlace, OnTheWay
<1> DEFINE msg == [item |-> i, tries |-> 1]
<1>8. msg \in Delivery /\ msg.item = i
  BY <1>4, StoreAssumption DEF Delivery, Items
<1>9. queue' = Append(queue, msg)
  BY <1>1, <1>3 DEF sendNow
<1> HIDE DEF msg
<1>10. ToSet(queue') = ToSet(queue) \cup {msg}
  BY <1>8, <1>9, AppendElements DEF TypeOK
<1>11. \A y \in ToSet(queue) : itemOf[y] # itemOf[msg]
  BY <1>7, <1>8 DEF TypeOK, ToSet, itemOf, Queued
<1>12. Distinct(queue', itemOf)
  BY <1>2, <1>8, <1>9, <1>11, AppendDistinct DEF OnePlace, TypeOK
<1>13. Queued' = Queued \cup {i}
  BY <1>8, <1>10 DEF Queued
<1>14. RowsOnce' /\ InWork' = InWork /\ Settled' = Settled
  BY <1>1 DEF OnceInv, RowsOnce, InWork, Settled, Stored, Attached
<1>15. Distinct(waiting, itself)' /\ Distinct(queue, itemOf)'
  BY <1>5, <1>12 DEF itemOf, itself
<1> QED BY <1>1, <1>2, <1>4, <1>6, <1>7, <1>13, <1>14, <1>15, PlacesKept DEF OnePlace

LEMMA DeliverOnce ==
    ASSUME IInv, OnceInv, failures = 0, NEW m \in Instances, deliver(m)
    PROVE  OnceInv'
<1> USE DEF IInv
<1>1. /\ UNCHANGED <<sent, waiting, rows, discarded, dead, failures>>
      /\ work[m] = null /\ queue # <<>> /\ queue' = Tail(queue)
  BY DEF deliver, agentVars, storeVars
<1>2. OnePlace
  BY DEF OnceInv
<1>3. PICK msg : msg = Head(queue)
  OBVIOUS
<1>4. /\ msg \in Delivery /\ ToSet(queue) = {msg} \cup ToSet(queue')
      /\ queue' \in Seq(Delivery)
  BY <1>1, <1>3, TailElements DEF TypeOK
<1>5. /\ Distinct(queue', itemOf)
      /\ \A y \in ToSet(queue') : itemOf[y] # itemOf[msg]
  BY <1>1, <1>2, <1>3, TailDistinct DEF OnePlace, TypeOK
<1>6. PICK i : i = msg.item
  OBVIOUS
<1>7. i \notin Queued' /\ Queued = Queued' \cup {i}
  <2>1. \A y \in ToSet(queue') : y \in Delivery /\ y.item # i
    BY <1>4, <1>5, <1>6 DEF itemOf, ToSet
  <2>2. Queued' = {y.item : y \in ToSet(queue')}
    BY DEF Queued
  <2> QED BY <1>4, <1>6, <2>1, <2>2 DEF Queued
<1>8. /\ i \notin ToSet(waiting) /\ i \notin InWork /\ i \notin Settled
      /\ i \in ToSet(sent)
  BY <1>2, <1>7 DEF OnePlace, OnTheWay
<1>9. /\ work'[m] # null => work'[m].msg = msg
      /\ \A n \in Instances : n # m => work'[n] = work[n]
  BY <1>3 DEF deliver, TypeOK
<1>10. InWork' \ {i} \subseteq InWork
  BY <1>6, <1>9 DEF InWork
<1>11. \A n \in Instances : work[n] # null => work[n].msg.item # i
  BY <1>8 DEF InWork
<1>12. \A n, o \in Instances :
          work'[n] # null /\ work'[o] # null /\ work'[n].msg.item = work'[o].msg.item =>
              n = o
  BY <1>2, <1>6, <1>9, <1>11 DEF OnePlace
<1>13. RowsOnce' /\ Settled' = Settled
  BY <1>1 DEF OnceInv, RowsOnce, Settled, Stored, Attached
<1>14. Distinct(waiting, itself)' /\ Distinct(queue, itemOf)'
  BY <1>1, <1>2, <1>5 DEF OnePlace, itemOf, itself
<1> QED BY <1>1, <1>7, <1>8, <1>10, <1>12, <1>13, <1>14, PlacesKept

\* An instance finishes without a failure.
LEMMA FinishOnce ==
    ASSUME IInv, OnceInv, failures = 0, failures' = 0, NEW m \in Instances, finish(m)
    PROVE  OnceInv'
<1> USE DEF IInv
<1>1. /\ work[m] # null /\ UNCHANGED <<sent, waiting>>
      /\ work' = [work EXCEPT ![m] = null]
  BY DEF finish, commit, rollback, commitUnacknowledged, giveBack, agentVars
<1>2. OnePlace /\ RowsOnce
  BY DEF OnceInv
<1>3. PICK i : i = work[m].msg.item
  OBVIOUS
<1>4. i \in InWork
  BY <1>1, <1>3 DEF InWork
<1>5. /\ i \notin ToSet(waiting) /\ i \notin Queued /\ i \notin Settled
      /\ i \in ToSet(sent)
  BY <1>2, <1>4 DEF OnePlace, OnTheWay
<1>6. work'[m] = null /\ \A n \in Instances : n # m => work'[n] = work[n]
  BY <1>1 DEF TypeOK
<1>7. InWork' \subseteq InWork /\ i \notin InWork'
  BY <1>1, <1>2, <1>3, <1>6 DEF InWork, OnePlace
<1>8. \A n, o \in Instances :
         work'[n] # null /\ work'[o] # null /\ work'[n].msg.item = work'[o].msg.item =>
             n = o
  BY <1>2, <1>6 DEF OnePlace
<1>9. Distinct(waiting, itself)'
  BY <1>1, <1>2 DEF OnePlace, itself
<1>10. CASE commit(m)
  <2>1. commitWork(m) /\ queue' = queue /\ dead' = dead
    BY <1>10 DEF commit
  <2>2. RowsOnce' /\ Settled' = Settled \cup {i}
    BY <1>1, <1>2, <1>3, <1>5, <2>1, CommitOnce
  <2>3. Queued' = Queued /\ Distinct(queue, itemOf)'
    BY <1>2, <2>1 DEF Queued, OnePlace, itemOf
  <2> QED BY <1>1, <1>5, <1>7, <1>8, <1>9, <2>2, <2>3, PlacesKept
<1>11. CASE rollback(m)
  <2>1. giveBack(m) /\ UNCHANGED <<rows, discarded>>
    BY <1>11 DEF rollback, storeVars
  <2>2. /\ Distinct(queue', itemOf)
        /\ \/ Queued' = Queued \cup {i} /\ dead' = dead
           \/ Queued' = Queued /\ dead' = dead \cup {i}
    BY <1>1, <1>2, <1>3, <1>5, <2>1, GivenBackOnce DEF OnePlace
  <2>3. Stored' = Stored /\ Attached' = Attached
    BY <2>1 DEF Stored, Attached
  <2>4. dead' \cap (Stored' \cup Attached' \cup discarded') = {}
    BY <1>2, <1>5, <2>1, <2>2, <2>3 DEF RowsOnce, Settled
  <2>5. Attached' \cap discarded' = {}
    BY <1>2, <2>1, <2>3 DEF RowsOnce
  <2>6. RowsOnce'
    BY <1>2, <2>1, <2>4, <2>5 DEF RowsOnce
  <2>7. Distinct(queue, itemOf)'
    BY <2>2 DEF itemOf
  <2>8. Settled' \ {i} \subseteq Settled /\ (i \in Queued' => i \notin Settled')
    BY <1>5, <2>1, <2>2, <2>3 DEF Settled
  <2>9. Queued' \ {i} \subseteq Queued
    BY <2>2
  <2> QED BY <1>1, <1>5, <1>7, <1>8, <1>9, <2>6, <2>7, <2>8, <2>9, PlacesKept
<1>12. CASE commitUnacknowledged(m)
  BY <1>12 DEF commitUnacknowledged, fail
<1> QED BY <1>10, <1>11, <1>12 DEF finish

LEMMA OnceKept ==
    ASSUME IInv, OnceInv, [Next]_vars
    PROVE  OnceInv'
<1>1. failures' = 0 => failures = 0
  BY DEF Next, sendSession, sendMessage, sendDelayed, deliver, onMessage, finish, commit,
         rollback, commitUnacknowledged, fail, vars, IInv, TypeOK
<1> SUFFICES ASSUME failures = 0, failures' = 0 PROVE OnceInv'
  BY <1>1 DEF OnceInv
<1>2. ASSUME UNCHANGED <<sent, waiting, queue, rows, discarded, dead>>,
             \A n \in Instances :
                /\ work'[n] = null <=> work[n] = null
                /\ work[n] # null => work'[n].msg = work[n].msg
      PROVE  OnceInv'
  <2>1. Queued' = Queued /\ Settled' = Settled /\ InWork' = InWork
    BY <1>2 DEF Queued, Settled, Stored, Attached, InWork
  <2>2. OnTheWay' = OnTheWay
    BY <1>2, <2>1 DEF OnTheWay
  <2>3. OnePlace'
    BY <1>2, <2>1, <2>2 DEF OnceInv, OnePlace, Distinct, itself, itemOf
  <2>4. RowsOnce'
    BY <1>2 DEF OnceInv, RowsOnce, Stored, Attached
  <2> QED BY <2>3, <2>4 DEF OnceInv
<1>3. ASSUME NEW m \in Instances, onMessage(m) PROVE OnceInv'
  <2>1. /\ work[m] # null /\ work[m] \in Work
        /\ UNCHANGED <<sent, waiting, queue, rows, discarded, dead>>
    BY <1>3 DEF onMessage, agentVars, storeVars, IInv, TypeOK
  <2>2. PICK effect \in Effects, row \in Nat : decide(m, effect, row)
    <3>1. DOMAIN rows \subseteq Nat
      BY DEF IInv, TypeOK
    <3> QED BY <1>3, <3>1 DEF onMessage, addSIPSession, addSIPMessage, Effects,
                              findByCallID
  <2> DEFINE w == [work[m] EXCEPT !.effect = effect, !.row = row]
  <2>3. w \in Work /\ w.msg = work[m].msg
    BY <2>1, <2>2 DEF Work
  <2>4. work' = [work EXCEPT ![m] = w]
    BY <2>2 DEF decide
  <2> HIDE DEF w
  <2>5. w # null
    BY <2>3, NullAssumption
  <2> QED BY <1>2, <2>1, <2>3, <2>4, <2>5 DEF IInv, TypeOK
<1>4. CASE UNCHANGED vars
  BY <1>2, <1>4 DEF vars, agentVars, storeVars
<1> QED
  BY <1>3, <1>4, SendOnce, SendDelayedOnce, DeliverOnce, FinishOnce DEF Next, Items

\* While nothing fails, nothing is stored twice, and whatever fails a message is
\* added to sessions of its own Call-ID only.
THEOREM StoredOnce == Spec => []StoredOnceWithoutFailure
<1>1. Init => CallInv
  BY DEF Init, CallInv
<1>2. ASSUME Init PROVE OnceInv
  <2>1. /\ rows = <<>> /\ waiting = <<>> /\ queue = <<>> /\ discarded = {} /\ dead = {}
        /\ \A m \in Instances : work[m] = null
    BY <1>2 DEF Init
  <2>2. Stored = {} /\ Attached = {} /\ Queued = {} /\ InWork = {} /\ ToSet(waiting) = {}
    BY <2>1 DEF Stored, Attached, Queued, InWork, ToSet
  <2>3. RowsOnce
    BY <2>1, <2>2 DEF RowsOnce
  <2>4. OnePlace
    BY <2>1, <2>2 DEF OnePlace, Distinct, OnTheWay, Settled
  <2> QED BY <2>3, <2>4 DEF OnceInv
<1>3. CallInv /\ OnceInv => StoredOnceWithoutFailure
  <2>1. ASSUME RowsOnce PROVE IsInjective([r \in DOMAIN rows |-> rows[r].session])
    BY <2>1 DEF RowsOnce, IsInjective
  <2> QED BY <2>1 DEF CallInv, OnceInv, RowsOnce, StoredOnceWithoutFailure
<1>4. IInv /\ CallInv /\ [Next]_vars => CallInv'
  BY CallKept
<1>5. IInv /\ OnceInv /\ [Next]_vars => OnceInv'
  BY OnceKept
<1> QED BY <1>1, <1>2, <1>3, <1>4, <1>5, AlwaysIInv, PTL DEF Spec

-----------------------------------------------------------------------------
(* In order *)

\* At most one instance works, and the sessions are sent at once.
Sole == ~ isDelayed /\ \A m, n \in pool : m = n

Seen(s) == s \in Stored \cup dead

WorkedOn(i) == \E m \in Instances : work[m] # null /\ work[m].msg.item = i

\* Wherever i is in q, there is an s in front of it.
InFront(q, s, i) ==
    \A k \in DOMAIN q : q[k].item = i => \E l \in DOMAIN q : l < k /\ q[l].item = s

\* Session s is ahead of message i.
Ahead(s, i) ==
    /\ Seen(s) \/ WorkedOn(s) \/ InFront(queue, s, i)
    /\ \A m \in Instances : work[m] # null /\ work[m].msg.item = i =>
          /\ Seen(s)
          /\ CallOf[s] = CallOf[i] /\ work[m].effect = "discard" => s \in dead
    /\ CallOf[s] = CallOf[i] /\ i \in discarded => s \in dead

\* Everything comes from the agent, and instances of the pool work.
SentInv ==
    /\ OnTheWay \cup discarded \subseteq ToSet(sent)
    /\ \A m \in Instances : work[m] # null => m \in pool

OrderInv ==
    Sole =>
        /\ waiting = <<>>
        /\ \A s \in Sessions, i \in Messages : SentBefore(s, i) => Ahead(s, i)

-----------------------------------------------------------------------------
(* The order in a queue *)

LEMMA AppendInFront ==
    ASSUME NEW q \in Seq(Delivery), NEW x \in Delivery, NEW s, NEW i,
           x.item = i => \E y \in ToSet(q) : y.item = s,
           InFront(q, s, i)
    PROVE  InFront(Append(q, x), s, i)
<1>1. /\ \A k \in 1..Len(q) : Append(q, x)[k] = q[k]
      /\ Append(q, x)[Len(q) + 1] = x
      /\ Len(q) \in Nat /\ DOMAIN q = 1..Len(q)
      /\ DOMAIN Append(q, x) = 1..(Len(q) + 1)
  OBVIOUS
<1>2. 1..(Len(q) + 1) = (1..Len(q)) \cup {Len(q) + 1}
  BY <1>1
<1>3. \A k \in 1..Len(q) : k < Len(q) + 1
  BY <1>1
<1>4. x.item = i => \E l \in 1..Len(q) : q[l].item = s
  BY <1>1 DEF ToSet
<1> QED BY <1>1, <1>2, <1>3, <1>4 DEF InFront

LEMMA TailInFront ==
    ASSUME NEW q \in Seq(Delivery), q # <<>>, NEW s, NEW i, InFront(q, s, i)
    PROVE  /\ Head(q).item # i
           /\ Head(q).item # s => InFront(Tail(q), s, i)
<1>1. /\ Head(q) = q[1] /\ Len(q) \in Nat /\ Len(q) > 0
      /\ \A k \in 1..(Len(q) - 1) : Tail(q)[k] = q[k + 1]
      /\ DOMAIN q = 1..Len(q) /\ DOMAIN Tail(q) = 1..(Len(q) - 1)
  OBVIOUS
<1>2. Head(q).item # i
  BY <1>1 DEF InFront
<1>3. ASSUME Head(q).item # s, NEW k \in 1..(Len(q) - 1), Tail(q)[k].item = i
      PROVE  \E l \in 1..(Len(q) - 1) : l < k /\ Tail(q)[l].item = s
  <2>1. k + 1 \in 1..Len(q) /\ q[k + 1].item = i
    BY <1>1, <1>3
  <2>2. PICK l \in 1..Len(q) : l < k + 1 /\ q[l].item = s
    BY <1>1, <2>1 DEF InFront
  <2>3. l # 1
    BY <1>1, <1>3, <2>2
  <2>4. l - 1 \in 1..(Len(q) - 1) /\ l - 1 < k /\ (l - 1) + 1 = l
    BY <1>1, <2>2, <2>3
  <2>5. Tail(q)[l - 1] = q[l]
    BY <1>1, <2>4, Zenon
  <2> QED BY <2>2, <2>4, <2>5
<1> QED BY <1>1, <1>2, <1>3 DEF InFront

LEMMA ConsInFront ==
    ASSUME NEW q \in Seq(Delivery), NEW x \in Delivery, NEW s, NEW i, x.item # i,
           x.item = s \/ InFront(q, s, i)
    PROVE  InFront(<<x>> \o q, s, i)
<1> DEFINE c == <<x>> \o q
<1>1. /\ c[1] = x
      /\ \A k \in 1..Len(q) : c[k + 1] = q[k]
      /\ Len(q) \in Nat /\ DOMAIN q = 1..Len(q)
      /\ DOMAIN c = 1..(Len(q) + 1)
  OBVIOUS
<1> HIDE DEF c
<1>2. ASSUME NEW k \in 1..(Len(q) + 1), c[k].item = i
      PROVE  \E l \in 1..(Len(q) + 1) : l < k /\ c[l].item = s
  <2>1. k # 1
    BY <1>1, <1>2
  <2>2. CASE x.item = s
    BY <1>1, <2>1, <2>2
  <2>3. CASE InFront(q, s, i)
    <3>1. k - 1 \in 1..Len(q) /\ (k - 1) + 1 = k
      BY <1>1, <2>1
    <3>2. q[k - 1].item = i
      BY <1>1, <1>2, <3>1, Zenon
    <3>3. PICK l \in 1..Len(q) : l < k - 1 /\ q[l].item = s
      BY <1>1, <2>3, <3>1, <3>2 DEF InFront
    <3>4. l + 1 \in 1..(Len(q) + 1) /\ l + 1 < k
      BY <1>1, <3>3
    <3> QED BY <1>1, <3>3, <3>4
  <2> QED BY <2>2, <2>3
<1>3. InFront(c, s, i)
  BY <1>1, <1>2 DEF InFront
<1> QED BY <1>3 DEF c

-----------------------------------------------------------------------------
(* What an instance does *)

\* A decision keeps the message that is worked on.
LEMMA DecisionKeeps ==
    ASSUME IInv, NEW m \in Instances, onMessage(m)
    PROVE  /\ work[m] # null
           /\ \A n \in Instances :
                 /\ work'[n] = null <=> work[n] = null
                 /\ work[n] # null => work'[n].msg = work[n].msg
                 /\ n # m => work'[n] = work[n]
           /\ \E effect \in Effects, row \in Nat :
                 decide(m, effect, row) /\ work'[m].effect = effect
<1>1. work[m] # null /\ work[m] \in Work
  BY DEF onMessage, IInv, TypeOK
<1>2. PICK effect \in Effects, row \in Nat : decide(m, effect, row)
  <2>1. DOMAIN rows \subseteq Nat
    BY DEF IInv, TypeOK
  <2> QED BY <2>1 DEF onMessage, addSIPSession, addSIPMessage, Effects, findByCallID
<1> DEFINE w == [work[m] EXCEPT !.effect = effect, !.row = row]
<1>3. w \in Work /\ w.msg = work[m].msg /\ w.effect = effect
  BY <1>1, <1>2 DEF Work
<1>4. work' = [work EXCEPT ![m] = w]
  BY <1>2 DEF decide
<1> HIDE DEF w
<1>5. w # null
  BY <1>3, NullAssumption
<1> QED BY <1>1, <1>2, <1>3, <1>4, <1>5 DEF IInv, TypeOK

\* What is given back goes to the head of the queue, or is dead.
LEMMA GivenToHead ==
    ASSUME TypeOK, NEW m \in Instances, work[m] # null, giveBack(m),
           NEW i, i = work[m].msg.item
    PROVE  \/ \E msg \in Delivery : msg.item = i /\ queue' = <<msg>> \o queue /\ dead' = dead
           \/ queue' = queue /\ dead' = dead \cup {i}
<1>1. work[m] \in Work
  BY DEF TypeOK
<1>2. CASE work[m].msg.tries < MaxDeliveries
  <2> DEFINE msg == [work[m].msg EXCEPT !.tries = @ + 1]
  <2>1. msg \in Delivery /\ msg.item = i
    BY <1>1, <1>2, StoreAssumption DEF Delivery, Work
  <2>2. queue' = <<msg>> \o queue /\ dead' = dead
    BY <1>2 DEF giveBack
  <2> QED BY <2>1, <2>2
<1> QED BY <1>2 DEF giveBack

-----------------------------------------------------------------------------
(* The steps *)

LEMMA SentKept ==
    ASSUME IInv, SentInv, [Next]_vars
    PROVE  SentInv'
<1> USE DEF IInv
<1>1. ASSUME NEW i \in Items, sendSession(i) \/ sendMessage(i)
      PROVE  SentInv'
  <2>1. /\ sent' = Append(sent, i) /\ UNCHANGED <<pool, work, discarded>>
    BY <1>1 DEF sendSession, sendMessage, storeVars
  <2>2. ToSet(sent') = ToSet(sent) \cup {i}
    BY <2>1, AppendElements DEF TypeOK
  <2> DEFINE msg == [item |-> i, tries |-> 1]
  <2>3. msg \in Delivery /\ msg.item = i
    BY StoreAssumption DEF Delivery
  <2>4. \/ waiting' = waiting /\ queue' = Append(queue, msg)
        \/ i \in Sessions /\ waiting' = Append(waiting, i) /\ queue' = queue
    BY <1>1 DEF sendSession, sendMessage, sendNow
  <2> HIDE DEF msg
  <2>5. \/ ToSet(waiting') = ToSet(waiting) /\ ToSet(queue') = ToSet(queue) \cup {msg}
        \/ ToSet(waiting') = ToSet(waiting) \cup {i} /\ ToSet(queue') = ToSet(queue)
    <3>1. queue \in Seq(Delivery) /\ waiting \in Seq(Sessions)
      BY DEF TypeOK
    <3>2. CASE waiting' = waiting /\ queue' = Append(queue, msg)
      BY <2>3, <3>1, <3>2, AppendElements
    <3>3. CASE i \in Sessions /\ waiting' = Append(waiting, i) /\ queue' = queue
      BY <3>1, <3>3, AppendElements
    <3> QED BY <2>4, <3>2, <3>3
  <2>6. OnTheWay' \subseteq OnTheWay \cup {i}
    BY <2>1, <2>3, <2>5 DEF OnTheWay, Queued, InWork
  <2> QED BY <2>1, <2>2, <2>6 DEF SentInv
<1>2. CASE sendDelayed
  <2>1. /\ UNCHANGED <<sent, pool, work, discarded>>
        /\ waiting # <<>> /\ sendNow(Head(waiting))
        /\ waiting' = waiting \/ waiting' = Tail(waiting)
    BY <1>2 DEF sendDelayed, storeVars
  <2>2. PICK i : i = Head(waiting)
    OBVIOUS
  <2>3. i \in Sessions /\ i \in ToSet(waiting) /\ ToSet(waiting') \subseteq ToSet(waiting)
    BY <2>1, <2>2, TailElements DEF TypeOK
  <2> DEFINE msg == [item |-> i, tries |-> 1]
  <2>4. msg \in Delivery /\ msg.item = i
    BY <2>3, StoreAssumption DEF Delivery, Items
  <2>5. queue' = Append(queue, msg)
    BY <2>1, <2>2 DEF sendNow
  <2> HIDE DEF msg
  <2>6. ToSet(queue') = ToSet(queue) \cup {msg}
    BY <2>4, <2>5, AppendElements DEF TypeOK
  <2>7. OnTheWay' \subseteq OnTheWay
    BY <2>1, <2>3, <2>4, <2>6 DEF OnTheWay, Queued, InWork
  <2> QED BY <2>1, <2>7 DEF SentInv
<1>3. ASSUME NEW m \in Instances, deliver(m)
      PROVE  SentInv'
  <2>1. PICK msg : msg = Head(queue)
    OBVIOUS
  <2>2. ToSet(queue) = {msg} \cup ToSet(queue')
    BY <1>3, <2>1, TailElements DEF deliver, TypeOK
  <2>3. /\ UNCHANGED <<sent, waiting, pool, discarded>> /\ m \in pool
        /\ work'[m] # null => work'[m].msg = msg
        /\ \A n \in Instances : n # m => work'[n] = work[n]
    BY <1>3, <2>1 DEF deliver, agentVars, storeVars, TypeOK
  <2>4. InWork' \subseteq InWork \cup {msg.item}
    BY <2>3 DEF InWork
  <2>5. OnTheWay' \subseteq OnTheWay
    BY <2>2, <2>3, <2>4 DEF OnTheWay, Queued
  <2> QED BY <2>3, <2>5 DEF SentInv
<1>4. ASSUME NEW m \in Instances, onMessage(m)
      PROVE  SentInv'
  <2>1. /\ UNCHANGED <<sent, waiting, queue, pool, discarded>>
        /\ \A n \in Instances : work'[n] # null => work[n] # null
        /\ \A n \in Instances : work'[n] # null => work'[n].msg = work[n].msg
    BY <1>4, DecisionKeeps DEF agentVars, storeVars, onMessage
  <2>2. OnTheWay' \subseteq OnTheWay
    BY <2>1 DEF OnTheWay, Queued, InWork
  <2> QED BY <2>1, <2>2 DEF SentInv
<1>5. ASSUME NEW m \in Instances, finish(m)
      PROVE  SentInv'
  <2>1. PICK i : i = work[m].msg.item
    OBVIOUS
  <2>2. /\ work[m] # null /\ UNCHANGED <<sent, waiting, pool>>
        /\ work' = [work EXCEPT ![m] = null]
        /\ discarded' \subseteq discarded \cup {i}
        /\ giveBack(m) \/ queue' = queue
    BY <1>5, <2>1 DEF finish, commit, rollback, commitUnacknowledged, commitWork,
                      giveBack, agentVars, storeVars
  <2>3. /\ i \in InWork /\ InWork' \subseteq InWork
        /\ \A n \in Instances : work'[n] # null => work[n] # null
    BY <2>1, <2>2 DEF InWork, TypeOK
  <2>4. Queued' \subseteq Queued \cup {i}
    <3>1. CASE queue' = queue
      BY <3>1 DEF Queued
    <3>2. CASE giveBack(m)
      <4>1. CASE queue' = queue
        BY <4>1 DEF Queued
      <4>2. ASSUME NEW msg \in Delivery, msg.item = i, queue' = <<msg>> \o queue
            PROVE  Queued' \subseteq Queued \cup {i}
        <5>1. ToSet(queue') = {msg} \cup ToSet(queue)
          BY <4>2, ConsElements DEF TypeOK
        <5> QED BY <4>2, <5>1 DEF Queued
      <4> QED BY <2>1, <2>2, <3>2, <4>1, <4>2, GivenToHead
    <3> QED BY <2>2, <3>1, <3>2
  <2>5. OnTheWay' \cup discarded' \subseteq OnTheWay \cup discarded
    BY <2>2, <2>3, <2>4 DEF OnTheWay
  <2> QED BY <2>2, <2>3, <2>5 DEF SentInv
<1>6. CASE UNCHANGED vars
  BY <1>6 DEF vars, agentVars, storeVars, SentInv, OnTheWay, Queued, InWork
<1> QED BY <1>1, <1>2, <1>3, <1>4, <1>5, <1>6 DEF Next, Items

LEMMA MessagesOfRow ==
    ASSUME NEW q \in Seq(Messages)
    PROVE  ToSet(q) \subseteq Messages
<1>1. \A k \in DOMAIN q : q[k] \in Messages
  OBVIOUS
<1> QED BY <1>1 DEF ToSet

LEMMA AttachedMessages ==
    ASSUME TypeOK
    PROVE  Attached \subseteq Messages
<1>1. ASSUME NEW r \in DOMAIN rows PROVE ToSet(rows[r].messages) \subseteq Messages
  <2>1. rows \in Seq(Row)
    BY DEF TypeOK, Row
  <2>2. rows[r] \in Row
    BY <2>1
  <2> QED BY <2>2, MessagesOfRow DEF Row
<1> QED BY <1>1 DEF Attached

\* What is in the sequence sent before a message that is sent now.
LEMMA SentBeforeNow ==
    ASSUME TypeOK, NEW i \in Items, sent' = Append(sent, i),
           NEW s \in Sessions, NEW j \in Messages, SentBefore(s, j)'
    PROVE  SentBefore(s, j) \/ (j = i /\ s \in ToSet(sent))
<1>1. /\ sent \in Seq(Items) /\ s # j
  BY StoreAssumption DEF TypeOK
<1>2. /\ \A k \in 1..Len(sent) : sent'[k] = sent[k]
      /\ sent'[Len(sent) + 1] = i
      /\ Len(sent) \in Nat /\ DOMAIN sent = 1..Len(sent)
      /\ DOMAIN sent' = 1..(Len(sent) + 1)
  BY <1>1
<1>3. PICK k, l \in 1..(Len(sent) + 1) : k < l /\ sent'[k] = s /\ sent'[l] = j
  BY <1>2 DEF SentBefore
<1>4. k \in 1..Len(sent) /\ sent[k] = s
  BY <1>2, <1>3
<1>5. CASE l = Len(sent) + 1
  BY <1>2, <1>3, <1>4, <1>5 DEF ToSet
<1>6. CASE l # Len(sent) + 1
  BY <1>2, <1>3, <1>4, <1>6 DEF SentBefore
<1> QED BY <1>5, <1>6

\* A session that was sent at once is in front of a message sent now.
LEMMA SendOrder ==
    ASSUME IInv, SentInv, OrderInv, Sole, NEW x \in Items,
           sendSession(x) \/ sendMessage(x)
    PROVE  OrderInv'
<1> USE DEF IInv
<1> DEFINE msg == [item |-> x, tries |-> 1]
<1>1. msg \in Delivery /\ msg.item = x
  BY StoreAssumption DEF Delivery
<1>2. /\ queue' = Append(queue, msg) /\ sent' = Append(sent, x) /\ x \notin ToSet(sent)
      /\ UNCHANGED <<waiting, work, rows, discarded, dead>>
  BY DEF sendSession, sendMessage, sendNow, storeVars, Sole
<1> HIDE DEF msg
<1>3. waiting' = <<>>
  BY <1>2 DEF OrderInv
<1>4. ASSUME NEW s \in Sessions, NEW i \in Messages, SentBefore(s, i)'
      PROVE  Ahead(s, i)'
  <2>1. UNCHANGED <<Seen(s), WorkedOn(s)>>
    BY <1>2 DEF Seen, WorkedOn, Stored
  <2>2. CASE SentBefore(s, i)
    <3>1. Ahead(s, i)
      BY <2>2 DEF OrderInv
    <3>2. i # x
      BY <1>2, <2>2 DEF SentBefore, ToSet
    <3>3. InFront(queue, s, i) => InFront(queue', s, i)
      BY <1>1, <1>2, <3>2, AppendInFront DEF TypeOK
    <3> QED BY <1>2, <2>1, <3>1, <3>3 DEF Ahead, InFront
  <2>3. CASE i = x /\ s \in ToSet(sent)
    <3>1. i \notin Queued /\ i \notin InWork /\ i \notin discarded
      BY <1>2, <2>3 DEF SentInv, OnTheWay
    <3>2. s \in Queued \cup InWork \cup Stored \cup dead
      <4>1. ToSet(waiting) = {}
        BY DEF OrderInv, ToSet
      <4>2. s \notin Attached /\ s \notin discarded
        BY AttachedMessages, StoreAssumption DEF TypeOK
      <4> QED BY <2>3, <4>1, <4>2 DEF NothingLost, OnTheWay, Settled
    <3>3. CASE s \in InWork \cup Stored \cup dead
      BY <1>2, <2>1, <3>1, <3>3 DEF Ahead, Seen, WorkedOn, InWork
    <3>4. CASE s \in Queued
      <4>1. \E y \in ToSet(queue) : y.item = s
        BY <3>4 DEF Queued
      <4>2. InFront(queue, s, i)
        BY <3>1 DEF InFront, Queued, ToSet
      <4>3. InFront(queue', s, i)
        BY <1>1, <1>2, <4>1, <4>2, AppendInFront DEF TypeOK
      <4> QED BY <1>2, <3>1, <4>3 DEF Ahead, InFront, InWork
    <3> QED BY <3>2, <3>3, <3>4
  <2> QED BY <1>2, <1>4, <2>2, <2>3, SentBeforeNow
<1> QED BY <1>3, <1>4 DEF OrderInv

\* The one instance takes what is at the head.
LEMMA DeliverOrder ==
    ASSUME IInv, SentInv, OrderInv, Sole, NEW m \in Instances, deliver(m)
    PROVE  OrderInv'
<1> USE DEF IInv
<1>1. PICK msg : msg = Head(queue)
  OBVIOUS
<1> DEFINE w == [msg |-> msg, effect |-> "none", row |-> 0]
<1>2. /\ queue # <<>> /\ queue' = Tail(queue) /\ work[m] = null /\ m \in pool
      /\ work' = [work EXCEPT ![m] = w]
      /\ UNCHANGED <<sent, waiting, rows, discarded, dead>>
  BY <1>1 DEF deliver, agentVars, storeVars
<1>3. w \in Work /\ w.msg = msg /\ w.effect = "none"
  BY <1>1, <1>2, TailElements DEF Work, Effects, TypeOK
<1> HIDE DEF w
<1>4. w # null /\ work'[m] = w
  BY <1>2, <1>3, NullAssumption DEF TypeOK
<1>5. \A n \in Instances : n # m => work[n] = null /\ work'[n] = null
  BY <1>2 DEF SentInv, Sole, TypeOK
<1>6. \A i : ~ WorkedOn(i)
  BY <1>2, <1>5 DEF WorkedOn
<1>7. ASSUME NEW s \in Sessions, NEW i \in Messages, SentBefore(s, i)'
      PROVE  Ahead(s, i)'
  <2>1. /\ Seen(s) \/ InFront(queue, s, i)
        /\ CallOf[s] = CallOf[i] /\ i \in discarded => s \in dead
    BY <1>2, <1>6, <1>7 DEF OrderInv, Ahead, SentBefore
  <2>2. Seen(s)' <=> Seen(s)
    BY <1>2 DEF Seen, Stored
  <2>3. ~ Seen(s) => msg.item # i /\ (msg.item # s => InFront(queue', s, i))
    BY <1>1, <1>2, <2>1, TailInFront DEF TypeOK
  <2>4. Seen(s)' \/ WorkedOn(s)' \/ InFront(queue', s, i)
    BY <1>3, <1>4, <2>2, <2>3 DEF WorkedOn
  <2>5. ASSUME NEW n \in Instances, work'[n] # null, work'[n].msg.item = i
        PROVE  Seen(s)' /\ work'[n].effect # "discard"
    <3>1. work'[n] = w
      BY <1>4, <1>5, <2>5
    <3> QED BY <1>3, <2>2, <2>3, <2>5, <3>1
  <2> QED BY <1>2, <2>1, <2>4, <2>5 DEF Ahead, InFront
<1> QED BY <1>2, <1>7 DEF OrderInv

\* The one instance discards a message if there is no session of its call.
LEMMA OnMessageOrder ==
    ASSUME IInv, OrderInv, Sole, NEW m \in Instances, onMessage(m)
    PROVE  OrderInv'
<1> USE DEF IInv
<1>1. /\ work[m] # null
      /\ \A n \in Instances :
            /\ work'[n] = null <=> work[n] = null
            /\ work[n] # null => work'[n].msg = work[n].msg
            /\ n # m => work'[n] = work[n]
      /\ UNCHANGED <<sent, waiting, queue, rows, discarded, dead>>
  BY DecisionKeeps DEF onMessage, agentVars, storeVars
<1>2. ASSUME work'[m].effect = "discard"
      PROVE  findByCallID(CallOf[work[m].msg.item]) = {}
  <2>1. work[m] \in Work
    BY <1>1 DEF TypeOK
  <2>2. ASSUME NEW effect, NEW row, decide(m, effect, row)
        PROVE  work'[m].effect = effect
    BY <2>1, <2>2 DEF decide, TypeOK, Work
  <2> QED BY <1>2, <2>2 DEF onMessage, addSIPSession, addSIPMessage
<1>3. ASSUME NEW s \in Sessions, NEW i \in Messages, SentBefore(s, i)'
      PROVE  Ahead(s, i)'
  <2>1. Ahead(s, i)
    BY <1>1, <1>3 DEF OrderInv, SentBefore
  <2>2. (Seen(s)' <=> Seen(s)) /\ (WorkedOn(s)' <=> WorkedOn(s))
    BY <1>1 DEF Seen, Stored, WorkedOn
  <2>3. ASSUME NEW n \in Instances, work'[n] # null, work'[n].msg.item = i
        PROVE  /\ Seen(s)'
               /\ CallOf[s] = CallOf[i] /\ work'[n].effect = "discard" => s \in dead
    <3>1. work[n] # null /\ work[n].msg.item = i
      BY <1>1, <2>3
    <3>2. Seen(s) /\ (CallOf[s] = CallOf[i] /\ work[n].effect = "discard" => s \in dead)
      BY <2>1, <3>1 DEF Ahead
    <3>3. n = m /\ work'[n].effect = "discard" /\ CallOf[s] = CallOf[i] => s \notin Stored
      BY <1>2, <3>1 DEF findByCallID, Stored
    <3> QED BY <1>1, <2>2, <3>2, <3>3 DEF Seen
  <2> QED BY <1>1, <2>1, <2>2, <2>3 DEF Ahead, InFront
<1> QED BY <1>1, <1>3 DEF OrderInv

\* The one instance stores its session, or gives it back to the head.
LEMMA FinishOrder ==
    ASSUME IInv, SentInv, OrderInv, Sole, NEW m \in Instances, finish(m)
    PROVE  OrderInv'
<1> USE DEF IInv
<1>1. PICK x : x = work[m].msg.item
  OBVIOUS
<1>2. /\ work[m] # null /\ UNCHANGED <<sent, waiting>>
      /\ work' = [work EXCEPT ![m] = null]
      /\ commitWork(m) \/ UNCHANGED <<rows, discarded>>
      /\ giveBack(m) \/ (commit(m) /\ UNCHANGED <<queue, dead>>)
  BY DEF finish, commit, rollback, commitUnacknowledged, giveBack, agentVars, storeVars
<1>3. \A n \in Instances : (n # m => work[n] = null) /\ work'[n] = null
  BY <1>2 DEF SentInv, Sole, TypeOK
<1>4. /\ Stored \subseteq Stored' /\ dead \subseteq dead'
      /\ commitWork(m) /\ x \in Sessions => x \in Stored'
  <2>1. CASE commitWork(m)
    <3>1. /\ RowsGrow
          /\ \/ \E r \in DOMAIN rows' :
                   rows'[r].session = x \/ x \in ToSet(rows'[r].messages)
             \/ x \in discarded'
      BY <1>1, <1>2, <2>1, CommitGrows
    <3>2. Stored \subseteq Stored'
      BY <3>1, SettledStays
    <3>3. x \in Sessions => x \in Stored'
      <4>1. \A r \in DOMAIN rows' : ToSet(rows'[r].messages) \subseteq Messages
        <5>1. \A r \in DOMAIN rows' : rows'[r] \in Row
          BY <3>1 DEF RowsGrow
        <5> QED BY <5>1, MessagesOfRow DEF Row
      <4> QED BY <3>1, <4>1, StoreAssumption DEF RowsGrow, Stored
    <3> QED BY <1>2, <3>2, <3>3 DEF giveBack
  <2>2. CASE UNCHANGED <<rows, discarded>> /\ ~ commitWork(m)
    BY <1>2, <2>2 DEF giveBack, Stored, commit
  <2> QED BY <1>2, <2>1, <2>2
<1>5. x \in Items
  BY <1>1, <1>2 DEF TypeOK, Work, Delivery
<1>6. ASSUME NEW s \in Sessions, NEW i \in Messages, SentBefore(s, i)'
      PROVE  Ahead(s, i)'
  <2>1. Ahead(s, i) /\ s # i
    BY <1>2, <1>6, StoreAssumption DEF OrderInv, SentBefore
  <2>2. Seen(s) => Seen(s)'
    BY <1>4 DEF Seen
  <2>3. x = i => Seen(s)
    BY <1>1, <1>2, <2>1 DEF Ahead
  <2>4. Seen(s)' \/ InFront(queue', s, i)
    <3>1. CASE x = i
      BY <2>2, <2>3, <3>1
    <3>2. CASE x # i /\ giveBack(m)
      <4>1. Seen(s) \/ x = s \/ InFront(queue, s, i)
        BY <1>1, <1>2, <1>3, <2>1 DEF Ahead, WorkedOn
      <4>2. CASE queue' = queue /\ dead' = dead \cup {x}
        BY <2>2, <4>1, <4>2 DEF Seen
      <4>3. ASSUME NEW msg \in Delivery, msg.item = x, queue' = <<msg>> \o queue
            PROVE  Seen(s)' \/ InFront(queue', s, i)
        BY <2>2, <3>2, <4>1, <4>3, ConsInFront DEF TypeOK
      <4> QED BY <1>1, <1>2, <3>2, <4>2, <4>3, GivenToHead
    <3>3. CASE commit(m) /\ UNCHANGED queue
      <4>1. Seen(s) \/ x = s \/ InFront(queue, s, i)
        BY <1>1, <1>2, <1>3, <2>1 DEF Ahead, WorkedOn
      <4> QED BY <1>4, <2>2, <3>3, <4>1 DEF Seen, commit
    <3> QED BY <1>2, <3>1, <3>2, <3>3
  <2>5. CallOf[s] = CallOf[i] /\ i \in discarded' => s \in dead'
    <3>1. CASE i \in discarded
      BY <1>4, <2>1, <3>1 DEF Ahead
    <3>2. CASE i \in discarded' /\ i \notin discarded
      <4>1. i = x /\ work[m].effect = "discard"
        BY <1>1, <1>2, <3>2 DEF commitWork
      <4> QED BY <1>1, <1>2, <1>4, <2>1, <4>1 DEF Ahead
    <3> QED BY <3>1, <3>2
  <2> QED BY <1>3, <2>4, <2>5 DEF Ahead, InFront
<1> QED BY <1>2, <1>6 DEF OrderInv

LEMMA OrderKept ==
    ASSUME IInv, SentInv, OrderInv, [Next]_vars
    PROVE  OrderInv'
<1>1. Sole' <=> Sole
  BY DEF Sole, Next, sendSession, sendMessage, sendDelayed, deliver, onMessage, finish,
         commit, rollback, commitUnacknowledged, vars, agentVars
<1>2. CASE ~ Sole
  BY <1>1, <1>2 DEF OrderInv
<1>3. CASE Sole
  <2>1. CASE sendDelayed
    BY <1>3, <2>1 DEF sendDelayed, OrderInv
  <2>2. CASE UNCHANGED vars
    <3>1. UNCHANGED <<sent, waiting, queue, work, rows, discarded, dead>>
      BY <2>2 DEF vars, agentVars, storeVars
    <3>2. ASSUME NEW s \in Sessions, NEW i \in Messages, SentBefore(s, i)'
          PROVE  Ahead(s, i)'
      <4>1. Ahead(s, i)
        BY <1>3, <3>1, <3>2 DEF OrderInv, SentBefore
      <4>2. (Seen(s)' <=> Seen(s)) /\ (WorkedOn(s)' <=> WorkedOn(s))
        BY <3>1 DEF Seen, Stored, WorkedOn
      <4> QED BY <3>1, <4>1, <4>2 DEF Ahead, InFront
    <3> QED BY <1>3, <3>1, <3>2 DEF OrderInv
  <2> QED BY <1>3, <2>1, <2>2, SendOrder, DeliverOrder, OnMessageOrder, FinishOrder
          DEF Next, Items
<1> QED BY <1>2, <1>3

\* A message is discarded after its session was sent only in delayed mode, by
\* concurrent instances, or when the session itself was given up.
THEOREM DiscardsAreExplained == Spec => []DiscardedOnlyIfOvertaken
<1>1. Init => SentInv /\ OrderInv
  <2> SUFFICES ASSUME Init PROVE SentInv /\ OrderInv
    OBVIOUS
  <2>1. /\ sent = <<>> /\ waiting = <<>> /\ queue = <<>> /\ discarded = {}
        /\ \A m \in Instances : work[m] = null
    BY DEF Init
  <2>2. OnTheWay = {}
    BY <2>1 DEF OnTheWay, Queued, InWork, ToSet
  <2>3. \A s, i : ~ SentBefore(s, i)
    BY <2>1 DEF SentBefore
  <2> QED BY <2>1, <2>2, <2>3 DEF SentInv, OrderInv
<1>2. IInv /\ OrderInv => DiscardedOnlyIfOvertaken
  <2> SUFFICES ASSUME IInv, OrderInv, ~ isDelayed, ~ Cardinality(pool) > 1,
                      NEW i \in discarded, NEW s \in Sessions,
                      CallOf[s] = CallOf[i], SentBefore(s, i)
               PROVE  s \in dead
    BY DEF DiscardedOnlyIfOvertaken
  <2>1. pool \in Pools /\ i \in Messages
    BY DEF IInv, TypeOK
  <2>2. ASSUME NEW m \in pool, NEW n \in pool, m # n PROVE FALSE
    <3>1. IsFiniteSet(pool) /\ {m, n} \subseteq pool
      BY <2>1, StoreAssumption
    <3>2. /\ Cardinality({m, n}) <= Cardinality(pool)
          /\ Cardinality(pool) \in Nat
      BY <3>1, FS_Subset, FS_CardinalityType
    <3>3. Cardinality({m, n}) = 2
      <4>1. IsFiniteSet({m}) /\ Cardinality({m}) = 1
        BY FS_Singleton
      <4>2. {m, n} = {m} \cup {n} /\ n \notin {m}
        BY <2>2
      <4>3. Cardinality({m} \cup {n}) = Cardinality({m}) + 1
        BY <4>1, <4>2, FS_AddElement
      <4> QED BY <4>1, <4>2, <4>3
    <3> QED BY <3>2, <3>3
  <2>3. Sole
    BY <2>2 DEF Sole
  <2> QED BY <2>1, <2>3 DEF OrderInv, Ahead
<1>3. IInv /\ SentInv /\ [Next]_vars => SentInv'
  BY SentKept
<1>4. IInv /\ SentInv /\ OrderInv /\ [Next]_vars => OrderInv'
  BY OrderKept
<1> QED BY <1>1, <1>2, <1>3, <1>4, AlwaysIInv, PTL DEF Spec
=============================================================================
