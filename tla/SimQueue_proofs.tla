-------------------------- MODULE SimQueue_proofs --------------------------
(***************************************************************************)
(* The queue behind POST /simulate, for every number of slots, contents    *)
(* and requests and every maxlen: requests keep the order they were queued *)
(* in, and none of them is lost quietly.                                   *)
(***************************************************************************)
EXTENDS SimQueue, SequenceTheorems, TLAPS

USE QueueAssumption, NoneAssumption

-----------------------------------------------------------------------------
\* What the deque's operations do to a sequence.

LEMMA WithoutFirst ==
    ASSUME NEW S, NEW q \in Seq(S), Len(q) > 0
    PROVE  /\ Tail(q) \in Seq(S) /\ Len(Tail(q)) = Len(q) - 1
           /\ Head(q) = q[1] /\ Head(q) \in S
           /\ \A i \in 1..Len(Tail(q)) : Tail(q)[i] = q[i + 1]
BY HeadTailProperties, EmptySeq

LEMMA WithoutLast ==
    ASSUME NEW S, NEW q \in Seq(S), Len(q) > 0
    PROVE  /\ Front(q) \in Seq(S) /\ Len(Front(q)) = Len(q) - 1
           /\ \A i \in 1..Len(Front(q)) : Front(q)[i] = q[i]
  <1>1. Len(q) \in Int /\ Len(q) - 1 \in Nat /\ \A i \in 1..(Len(q) - 1) : q[i] \in S
    BY LenProperties, ElementOfSeq
  <1>2. /\ SubSeq(q, 1, Len(q) - 1) \in Seq(S)
        /\ Len(SubSeq(q, 1, Len(q) - 1)) = IF 1 <= Len(q) - 1 THEN Len(q) - 1 - 1 + 1 ELSE 0
        /\ \A i \in 1..(Len(q) - 1 - 1 + 1) : SubSeq(q, 1, Len(q) - 1)[i] = q[1 + i - 1]
    BY <1>1, SubSeqProperties
  <1>3. Front(q) = SubSeq(q, 1, Len(q) - 1)
    BY DEF Front
  <1>4. Len(q) - 1 - 1 + 1 = Len(q) - 1
    BY <1>1
  <1>5. (IF 1 <= Len(q) - 1 THEN Len(q) - 1 - 1 + 1 ELSE 0) = Len(q) - 1
    <2>1. CASE 1 <= Len(q) - 1
      BY <1>4, <2>1, Zenon
    <2>2. CASE ~(1 <= Len(q) - 1)
      <3>1. Len(q) - 1 = 0
        <4>1. PICK n \in Nat : n = Len(q) - 1
          BY <1>1
        <4>2. n = 0
          BY <2>2, <4>1
        <4> QED BY <4>1, <4>2
      <3> QED BY <2>2, <3>1, Zenon
    <2> QED BY <2>1, <2>2
  <1>6. \A i \in 1..(Len(q) - 1) : 1 + i - 1 = i
    BY <1>1
  <1>7. \A i \in 1..(Len(q) - 1) : SubSeq(q, 1, Len(q) - 1)[i] = q[i]
    BY <1>2, <1>4, <1>6, Zenon
  <1> QED BY <1>2, <1>3, <1>5, <1>7, Zenon

LEMMA WithLast ==
    ASSUME NEW S, NEW q \in Seq(S), NEW e \in S
    PROVE  /\ Append(q, e) \in Seq(S) /\ Len(Append(q, e)) = Len(q) + 1
           /\ Append(q, e)[Len(q) + 1] = e
           /\ \A i \in 1..Len(q) : Append(q, e)[i] = q[i]
BY LenProperties

LEMMA WithFirst ==
    ASSUME NEW S, NEW q \in Seq(S), NEW e \in S
    PROVE  /\ <<e>> \o q \in Seq(S) /\ Len(<<e>> \o q) = Len(q) + 1
           /\ (<<e>> \o q)[1] = e
           /\ \A i \in 1..Len(q) : (<<e>> \o q)[i + 1] = q[i]
  <1>1. <<e>> \in Seq(S) /\ Len(<<e>>) = 1 /\ <<e>>[1] = e /\ Len(q) \in Nat
    BY LenProperties
  <1> QED BY <1>1, ConcatProperties

-----------------------------------------------------------------------------
\* The invariant.

\* An item is at work from the pop to the end of its forwarding.
AtWork == item # NoItem <=> qpc \in {"verify", "post"}

\* The line is increasing, ends below the next number, and the item at work is ahead.
InLine ==
    /\ \A i \in 1..Len(queue) : queue[i].id <= queued /\ item.id < queue[i].id
    /\ \A i, j \in 1..Len(queue) : i < j => queue[i].id < queue[j].id
    /\ item.id <= queued

QInv == QTypeOK /\ AtWork /\ InLine

LEMMA ItemTypes ==
    /\ NoItem \notin Items /\ NoItem.id = 0
    /\ \A it \in Items : it.id \in 1..MaxRequests /\ it.slot \in Slots /\ it.config \in Contents \cup {None}
BY DEF NoItem, Items

\* The requests in line, by number.
LEMMA InQueue ==
    ASSUME QTypeOK
    PROVE  /\ Len(queue) \in 0..MaxQueue
           /\ \A i \in 1..Len(queue) : queue[i] \in Items /\ queue[i].id \in 1..MaxRequests
  <1>1. Len(queue) \in Nat /\ \A i \in 1..Len(queue) : queue[i] \in Items
    BY LenProperties, ElementOfSeq DEF QTypeOK
  <1> QED BY <1>1, ItemTypes DEF QTypeOK

\* A new request joins at the end of the line, at the cost of the oldest if it is full.
LEMMA PushKeepsLine ==
    ASSUME QTypeOK, InLine, NEW it \in Items, it.id = queued + 1, Push(it),
           queued' = queued + 1, item' = item
    PROVE  queue' \in Seq(Items) /\ Len(queue') <= MaxQueue /\ InLine'
  <1> DEFINE q == IF Len(queue) = MaxQueue THEN Tail(queue) ELSE queue
  <1>0. queue \in Seq(Items) /\ Len(queue) \in 0..MaxQueue /\ queued \in Nat /\ item.id \in Nat
    BY InQueue, ItemTypes DEF QTypeOK
  <1>1. /\ q \in Seq(Items) /\ Len(q) \in Nat /\ Len(q) < MaxQueue
        /\ \A i \in 1..Len(q) : \E j \in 1..Len(queue) : q[i] = queue[j]
        /\ \A i, k \in 1..Len(q) : i < k => q[i].id < q[k].id
    <2>1. CASE Len(queue) = MaxQueue
      <3>1. /\ q \in Seq(Items) /\ Len(q) = Len(queue) - 1
            /\ \A i \in 1..Len(q) : q[i] = queue[i + 1]
        BY <1>0, <2>1, WithoutFirst
      <3>2. \A i \in 1..Len(q) : i + 1 \in 1..Len(queue)
        BY <1>0, <3>1
      <3> HIDE DEF q
      <3> QED BY <1>0, <2>1, <3>1, <3>2 DEF InLine
    <2>2. CASE Len(queue) # MaxQueue
      <3>1. q = queue
        BY <2>2
      <3> HIDE DEF q
      <3> QED BY <1>0, <2>2, <3>1 DEF InLine
    <2> QED BY <2>1, <2>2
  <1>2. queue' = Append(q, it)
    BY DEF Push
  <1> HIDE DEF q
  <1>3. /\ queue' \in Seq(Items) /\ Len(queue') = Len(q) + 1 /\ queue'[Len(q) + 1] = it
        /\ \A i \in 1..Len(q) : queue'[i] = q[i]
    BY <1>1, <1>2, WithLast
  <1>4. \A i \in 1..Len(q) : q[i].id <= queued /\ item.id < q[i].id
    BY <1>1 DEF InLine
  <1>5. \A i \in 1..Len(queue') : i = Len(q) + 1 \/ i \in 1..Len(q)
    BY <1>1, <1>3
  <1>6. \A i \in 1..Len(q) : q[i].id \in Nat
    <2> SUFFICES ASSUME NEW i \in 1..Len(q) PROVE q[i].id \in Nat
      OBVIOUS
    <2>1. q[i] \in Items
      BY <1>1, ElementOfSeq
    <2> QED BY <2>1, ItemTypes
  <1>7. \A i \in 1..Len(queue') : queue'[i].id <= queued' /\ item'.id < queue'[i].id
    <2> SUFFICES ASSUME NEW i \in 1..Len(queue')
                 PROVE  queue'[i].id <= queued' /\ item'.id < queue'[i].id
      OBVIOUS
    <2>1. CASE i \in 1..Len(q)
      <3>1. queue'[i] = q[i] /\ q[i].id <= queued /\ item.id < q[i].id /\ q[i].id \in Nat
        BY <1>3, <1>4, <1>6, <2>1
      <3> QED BY <1>0, <3>1
    <2>2. CASE i = Len(q) + 1
      BY <1>0, <1>3, <2>2 DEF InLine
    <2> QED BY <1>5, <2>1, <2>2
  <1>8. \A i, k \in 1..Len(queue') : i < k => queue'[i].id < queue'[k].id
    <2> SUFFICES ASSUME NEW i \in 1..Len(queue'), NEW k \in 1..Len(queue'), i < k
                 PROVE  queue'[i].id < queue'[k].id
      OBVIOUS
    <2>1. i \in 1..Len(q)
      BY <1>1, <1>3
    <2>2. CASE k \in 1..Len(q)
      BY <1>1, <1>3, <2>1, <2>2
    <2>3. CASE k = Len(q) + 1
      <3>1. queue'[k].id = queued + 1 /\ queue'[i].id <= queued /\ queue'[i].id \in Nat
        BY <1>3, <1>4, <1>6, <2>1, <2>3
      <3> QED BY <1>0, <3>1
    <2> QED BY <1>5, <2>2, <2>3
  <1>9. item'.id <= queued'
    BY <1>0 DEF InLine
  <1> QED BY <1>1, <1>3, <1>7, <1>8, <1>9 DEF InLine

\* The request at work goes back to the head, at the cost of the newest if it is full.
LEMMA PushFrontKeepsLine ==
    ASSUME QTypeOK, InLine, item \in Items, PushFront(item), queued' = queued, item' = NoItem
    PROVE  queue' \in Seq(Items) /\ Len(queue') <= MaxQueue /\ InLine'
  <1> DEFINE q == IF Len(queue) = MaxQueue THEN Front(queue) ELSE queue
  <1>0. queue \in Seq(Items) /\ Len(queue) \in 0..MaxQueue /\ queued \in Nat /\ item.id \in 1..MaxRequests
    BY InQueue, ItemTypes DEF QTypeOK
  <1>1. /\ q \in Seq(Items) /\ Len(q) \in Nat /\ Len(q) < MaxQueue /\ Len(q) <= Len(queue)
        /\ \A i \in 1..Len(q) : q[i] = queue[i]
    BY <1>0, WithoutLast
  <1>2. queue' = <<item>> \o q
    BY DEF PushFront
  <1> HIDE DEF q
  <1>3. /\ queue' \in Seq(Items) /\ Len(queue') = Len(q) + 1 /\ queue'[1] = item
        /\ \A i \in 1..Len(q) : queue'[i + 1] = q[i]
    BY <1>1, <1>2, WithFirst
  <1>4. \A i \in 1..Len(queue') : i = 1 \/ (i - 1 \in 1..Len(q) /\ queue'[i] = queue[i - 1])
    <2> SUFFICES ASSUME NEW i \in 1..Len(queue'), i # 1
                 PROVE  i - 1 \in 1..Len(q) /\ queue'[i] = queue[i - 1]
      OBVIOUS
    <2>1. i - 1 \in 1..Len(q) /\ (i - 1) + 1 = i
      BY <1>1, <1>3
    <2>2. queue'[(i - 1) + 1] = q[i - 1]
      BY <1>3, <2>1
    <2> QED BY <1>1, <2>1, <2>2
  <1>5. \A i \in 1..Len(q) : i \in 1..Len(queue) /\ queue[i].id \in 1..MaxRequests
    BY <1>0, <1>1, InQueue
  <1>6. \A i \in 1..Len(queue') : queue'[i].id <= queued' /\ item'.id < queue'[i].id
    BY <1>0, <1>3, <1>4, <1>5, ItemTypes DEF InLine
  <1>7. \A i, k \in 1..Len(queue') : i < k => queue'[i].id < queue'[k].id
    <2> SUFFICES ASSUME NEW i \in 1..Len(queue'), NEW k \in 1..Len(queue'), i < k
                 PROVE  queue'[i].id < queue'[k].id
      OBVIOUS
    <2>1. k # 1
      BY <1>1, <1>3
    <2>2. k - 1 \in 1..Len(queue) /\ queue'[k] = queue[k - 1]
      BY <1>4, <1>5, <2>1
    <2>3. CASE i = 1
      BY <1>3, <2>2, <2>3 DEF InLine
    <2>4. CASE i # 1
      <3>1. i - 1 \in 1..Len(queue) /\ queue'[i] = queue[i - 1] /\ i - 1 < k - 1
        BY <1>1, <1>3, <1>4, <1>5, <2>4
      <3> QED BY <2>2, <3>1 DEF InLine
    <2> QED BY <2>3, <2>4
  <1>8. item'.id <= queued'
    BY <1>0, ItemTypes
  <1> QED BY <1>1, <1>3, <1>6, <1>7, <1>8 DEF InLine

\* The oldest request is taken to work.
LEMMA PopKeepsLine ==
    ASSUME QTypeOK, InLine, queue # <<>>, item' = Head(queue), queue' = Tail(queue), queued' = queued
    PROVE  /\ queue' \in Seq(Items) /\ Len(queue') <= MaxQueue /\ InLine'
           /\ item' \in Items
  <1>0. queue \in Seq(Items) /\ Len(queue) \in 1..MaxQueue /\ queued \in Nat
    BY InQueue, EmptySeq DEF QTypeOK
  <1>1. /\ queue' \in Seq(Items) /\ Len(queue') = Len(queue) - 1
        /\ item' = queue[1] /\ item' \in Items
        /\ \A i \in 1..Len(queue') : queue'[i] = queue[i + 1]
    BY <1>0, WithoutFirst
  <1>2. \A i \in 1..Len(queue') : i + 1 \in 1..Len(queue) /\ 1 < i + 1
    BY <1>0, <1>1
  <1>3. 1 \in 1..Len(queue)
    BY <1>0
  <1> QED BY <1>0, <1>1, <1>2, <1>3 DEF InLine

-----------------------------------------------------------------------------
\* Every step keeps it.

LEMMA QInitInv == QInit => QInv
  <1> SUFFICES ASSUME QInit PROVE QInv
    OBVIOUS
  <1>1. queue \in Seq(Items) /\ Len(queue) = 0
    BY EmptySeq DEF QInit
  <1>2. QTypeOK
    BY <1>1 DEF QInit, QTypeOK
  <1> QED BY <1>1, <1>2, ItemTypes DEF QInit, QInv, AtWork, InLine

\* A step that leaves the line and the item at work alone.
LEMMA LineUnchanged ==
    ASSUME InLine, UNCHANGED <<queue, queued, item>>
    PROVE  InLine'
BY DEF InLine

\* A step that ends the work on an item and leaves the line alone.
LEMMA LineReleased ==
    ASSUME QTypeOK, InLine, UNCHANGED <<queue, queued>>, item' = NoItem
    PROVE  InLine'
  <1>1. queued \in Nat /\ \A i \in 1..Len(queue) : queue[i].id \in 1..MaxRequests
    BY InQueue DEF QTypeOK
  <1> QED BY <1>1, ItemTypes DEF InLine

LEMMA EnqueueKeeps ==
    ASSUME QTypeOK, InLine, NEW r \in Requests, Enqueue(r), item' = item
    PROVE  /\ queue' \in Seq(Items) /\ Len(queue') <= MaxQueue
           /\ queued' \in 0..MaxRequests /\ InLine'
  <1> DEFINE it == [id |-> queued + 1, slot |-> r.slot, want |-> r.want, config |-> book[r.slot]]
  <1>1. queued' = queued + 1 /\ queued' \in 1..MaxRequests /\ Push(it)
    BY DEF Enqueue, QTypeOK
  <1>2. it \in Items /\ it.id = queued + 1
    BY <1>1 DEF QTypeOK, Requests, Items
  <1> HIDE DEF it
  <1> QED BY <1>1, <1>2, PushKeepsLine

\* simulate_log
LEMMA SimulateStep ==
    ASSUME QInv, NEW s \in Slots, SimulateUnhealthy(s) \/ Simulate(s)
    PROVE  QInv'
  <1>1. [slot |-> s, want |-> book[s]] \in Requests
    BY DEF QInv, QTypeOK, Requests, SimulateUnhealthy, Simulate
  <1>2. CASE SimulateUnhealthy(s)
    <2>1. /\ queue' \in Seq(Items) /\ Len(queue') <= MaxQueue
          /\ queued' \in 0..MaxRequests /\ InLine'
      BY <1>1, <1>2, EnqueueKeeps DEF QInv, SimulateUnhealthy
    <2> QED BY <1>2, <2>1 DEF QInv, QTypeOK, AtWork, SimulateUnhealthy
  <1>3. CASE Simulate(s)
    <2>1. InLine'
      BY <1>3, LineUnchanged DEF QInv, Simulate
    <2> QED BY <1>1, <1>3, <2>1 DEF QInv, QTypeOK, AtWork, Simulate
  <1> QED BY <1>2, <1>3

LEMMA PostStep ==
    ASSUME QInv, NEW r \in posting, NEW b \in BOOLEAN, Posted(r) \/ PostFails(r, b)
    PROVE  QInv'
  <1>1. r \in Requests
    BY DEF QInv, QTypeOK
  <1>2. CASE Posted(r)
    <2>1. InLine'
      BY <1>2, LineUnchanged DEF QInv, Posted
    <2> QED BY <1>2, <2>1 DEF QInv, QTypeOK, AtWork, Posted
  <1>3. CASE PostFails(r, b)
    <2>1. /\ queue' \in Seq(Items) /\ Len(queue') <= MaxQueue
          /\ queued' \in 0..MaxRequests /\ InLine'
      BY <1>1, <1>3, EnqueueKeeps DEF QInv, PostFails
    <2>2. ls' \in {"up", "stunned", "down"} /\ book' \in [Slots -> Contents \cup {None}]
          /\ files' \in [Slots -> Contents \cup {None}]
      BY <1>3 DEF QInv, QTypeOK, PostFails
    <2> QED BY <1>3, <2>1, <2>2 DEF QInv, QTypeOK, AtWork, PostFails
  <1> QED BY <1>2, <1>3

\* _process_simulation_queue
LEMMA ProcessorKeeps ==
    ASSUME QInv, ProcessorStep
    PROVE  QInv'
  <1>0. QTypeOK /\ AtWork /\ InLine
    BY DEF QInv
  <1>1. CASE SeesHealthy \/ SeesUnhealthy \/ Begin \/ Emptied \/ Restored
    <2>1. InLine'
      BY <1>0, <1>1, LineUnchanged DEF SeesHealthy, SeesUnhealthy, Begin, Emptied, Restored
    <2> QED
      BY <1>0, <1>1, <2>1
      DEF QInv, QTypeOK, AtWork, SeesHealthy, SeesUnhealthy, Begin, Emptied, Restored
  <1>2. CASE Pop
    <2>1. /\ queue' \in Seq(Items) /\ Len(queue') <= MaxQueue /\ InLine'
          /\ item' \in Items
      BY <1>0, <1>2, PopKeepsLine DEF Pop
    <2>2. /\ qpc' \in {"verify", "post"} /\ book' \in [Slots -> Contents \cup {None}]
          /\ files' \in [Slots -> Contents \cup {None}]
      <3>1. item'.config \in Contents \cup {None}
        BY <2>1, ItemTypes
      <3>2. CASE Restore(item')
        BY <1>0, <3>1, <3>2 DEF Restore, QTypeOK
      <3>3. CASE qpc' = "post" /\ UNCHANGED <<book, files>>
        BY <1>0, <3>3 DEF QTypeOK
      <3> QED BY <1>2, <3>2, <3>3 DEF Pop
    <2>3. AtWork'
      BY <2>1, <2>2, ItemTypes DEF AtWork
    <2> QED BY <1>0, <1>2, <2>1, <2>2, <2>3 DEF QInv, QTypeOK, Pop
  <1>3. CASE RestoreFails \/ Forwarded
    <2>1. InLine'
      BY <1>0, <1>3, LineReleased DEF RestoreFails, Forwarded
    <2> QED BY <1>0, <1>3, <2>1 DEF QInv, QTypeOK, AtWork, RestoreFails, Forwarded
  <1>4. CASE ForwardFails
    <2>1. item \in Items
      BY <1>0, <1>4 DEF ForwardFails, AtWork, QTypeOK
    <2>2. queue' \in Seq(Items) /\ Len(queue') <= MaxQueue /\ InLine'
      BY <1>0, <1>4, <2>1, PushFrontKeepsLine DEF ForwardFails
    <2> QED BY <1>0, <1>4, <2>2 DEF QInv, QTypeOK, AtWork, ForwardFails
  <1> QED BY <1>1, <1>2, <1>3, <1>4 DEF ProcessorStep

\* Logstash, and the other users of the slot table.
LEMMA OthersKeep ==
    ASSUME QInv,
           \/ \E s \in Slots : EvictSlot(s)
           \/ \E to \in {"up", "stunned", "down"} : LogstashTurns(to)
           \/ \E c \in Contents, s \in Slots : Allocate(c, s)
           \/ Recover
           \/ UNCHANGED qvars
    PROVE  QInv'
  <1> USE DEF EvictSlot, LogstashTurns, Allocate, Recover, qvars
  <1>1. UNCHANGED <<posting, queue, queued, qpc, item>>
    OBVIOUS
  <1>2. /\ ls' \in {"up", "stunned", "down"} /\ book' \in [Slots -> Contents \cup {None}]
        /\ files' \in [Slots -> Contents \cup {None}]
    BY DEF QInv, QTypeOK
  <1>3. InLine'
    BY <1>1, LineUnchanged DEF QInv
  <1> QED BY <1>1, <1>2, <1>3 DEF QInv, QTypeOK, AtWork

LEMMA QStep == QInv /\ [QNext]_qvars => QInv'
  <1> SUFFICES ASSUME QInv, [QNext]_qvars PROVE QInv'
    OBVIOUS
  <1>1. CASE ProcessorStep
    BY <1>1, ProcessorKeeps
  <1>2. CASE \E s \in Slots : SimulateUnhealthy(s) \/ Simulate(s)
    BY <1>2, SimulateStep
  <1>3. CASE \E r \in posting : Posted(r) \/ \E b \in BOOLEAN : PostFails(r, b)
    BY <1>3, PostStep
  <1> QED BY <1>1, <1>2, <1>3, OthersKeep DEF QNext

\* The types of the queue's variables, and that it keeps within its maxlen whatever
\* is appended at either end.
THEOREM QueueTypes == QSpec => []QTypeOK
  <1>1. QInv => QTypeOK
    BY DEF QInv
  <1> QED BY <1>1, QInitInv, QStep, PTL DEF QSpec

\* Requests are worked off in the order they came in, and none is there twice, though
\* a failed one is put back and a full queue drops one at either end.
THEOREM QueueStaysInOrder == QSpec => []QueueInOrder
  <1>1. QInv => QueueInOrder
    <2> SUFFICES ASSUME QInv PROVE QueueInOrder
      OBVIOUS
    <2>1. CASE item = NoItem
      BY <2>1 DEF QueueInOrder, QInv, InLine
    <2>2. CASE item # NoItem
      <3> DEFINE line == <<item>> \o queue
      <3>1. item \in Items /\ queue \in Seq(Items) /\ Len(queue) \in Nat
        BY <2>2, InQueue DEF QInv, QTypeOK
      <3>2. /\ Len(line) = Len(queue) + 1 /\ line[1] = item
            /\ \A i \in 1..Len(queue) : line[i + 1] = queue[i]
        BY <3>1, WithFirst
      <3> HIDE DEF line
      <3>3. \A i \in 1..Len(line) : i # 1 => i - 1 \in 1..Len(queue) /\ (i - 1) + 1 = i
        BY <3>1, <3>2
      <3>4. \A i \in 1..Len(line) : i # 1 => line[i] = queue[i - 1]
        BY <3>2, <3>3
      <3>5. ASSUME NEW i \in 1..Len(line), NEW j \in 1..Len(line), i < j
            PROVE  line[i].id < line[j].id
        <4>1. j # 1
          BY <3>1, <3>2, <3>5
        <4>2. CASE i = 1
          BY <3>2, <3>3, <3>4, <4>1, <4>2 DEF QInv, InLine
        <4>3. CASE i # 1
          <5>1. i - 1 \in 1..Len(queue) /\ j - 1 \in 1..Len(queue) /\ i - 1 < j - 1
            BY <3>1, <3>2, <3>3, <3>5, <4>1, <4>3
          <5> QED BY <3>4, <4>1, <4>3, <5>1 DEF QInv, InLine
        <4> QED BY <4>2, <4>3
      <3>6. line = IF item = NoItem THEN queue ELSE <<item>> \o queue
        BY <2>2 DEF line
      <3> QED BY <3>5, <3>6 DEF QueueInOrder
    <2> QED BY <2>1, <2>2
  <1> QED BY <1>1, QInitInv, QStep, PTL DEF QSpec

-----------------------------------------------------------------------------
\* What leaves the line.

\* A push keeps every number, unless the queue is full.
LEMMA PushKeepsWaiting ==
    ASSUME QTypeOK, Len(queue) # MaxQueue, NEW it \in Items,
           Push(it) \/ PushFront(it), item' = item \/ (PushFront(it) /\ it = item)
    PROVE  Waiting \subseteq Waiting'
  <1>0. queue \in Seq(Items) /\ Len(queue) \in Nat
    BY InQueue DEF QTypeOK
  <1>1. \A i \in 1..Len(queue) : \E j \in 1..Len(queue') : queue'[j] = queue[i]
    <2>1. CASE Push(it)
      <3>1. queue' = Append(queue, it)
        BY <2>1 DEF Push
      <3> QED BY <1>0, <3>1, WithLast
    <2>2. CASE PushFront(it)
      <3>1. queue' = <<it>> \o queue
        BY <2>2 DEF PushFront
      <3>2. /\ Len(queue') = Len(queue) + 1
            /\ \A i \in 1..Len(queue) : queue'[i + 1] = queue[i]
        BY <1>0, <3>1, WithFirst
      <3>3. \A i \in 1..Len(queue) : i + 1 \in 1..Len(queue')
        BY <1>0, <3>2
      <3> QED BY <3>2, <3>3
    <2> QED BY <2>1, <2>2
  <1>2. item' = item \/ \E j \in 1..Len(queue') : queue'[j] = item
    <2>1. CASE PushFront(it) /\ it = item
      <3>1. queue' = <<item>> \o queue /\ item \in Items
        BY <2>1 DEF PushFront
      <3>2. Len(queue') = Len(queue) + 1 /\ queue'[1] = item
        BY <1>0, <3>1, WithFirst
      <3> QED BY <1>0, <3>2
    <2> QED BY <2>1
  <1> QED BY <1>1, <1>2 DEF Waiting

\* A request answered 202 is still waiting after any step, unless it was forwarded, was
\* pushed out of a full queue, or its slot could not be restored: no interleaving of
\* new requests with the queue task loses one.
THEOREM NothingIsLostQuietly == QSpec => NoQuietLoss
  <1> DEFINE Kept ==
        Waiting \subseteq Waiting' \/ Len(queue) = MaxQueue
          \/ (qpc = "post" /\ ls = "up") \/ (qpc = "verify" /\ files'[item.slot] = None)
  <1>1. QInv /\ [QNext]_qvars => [Kept]_qvars
    <2> SUFFICES ASSUME QInv, [QNext]_qvars, Len(queue) # MaxQueue PROVE Kept
      OBVIOUS
    <2>0. QTypeOK /\ AtWork
      BY DEF QInv
    <2>1. ASSUME UNCHANGED <<queue, item>> PROVE Kept
      BY <2>1 DEF Waiting
    <2>2. ASSUME NEW r \in Requests, Enqueue(r), item' = item PROVE Kept
      <3> DEFINE it == [id |-> queued + 1, slot |-> r.slot, want |-> r.want, config |-> book[r.slot]]
      <3>1. it \in Items /\ Push(it)
        BY <2>0, <2>2 DEF Enqueue, QTypeOK, Requests, Items
      <3> HIDE DEF it
      <3> QED BY <2>0, <2>2, <3>1, PushKeepsWaiting
    <2>3. ASSUME NEW s \in Slots, SimulateUnhealthy(s) PROVE Kept
      <3>1. [slot |-> s, want |-> book[s]] \in Requests
        BY <2>0, <2>3 DEF QTypeOK, Requests, SimulateUnhealthy
      <3> QED BY <2>2, <2>3, <3>1 DEF SimulateUnhealthy
    <2>4. ASSUME NEW r \in posting, NEW b \in BOOLEAN, PostFails(r, b) PROVE Kept
      <3>1. r \in Requests
        BY <2>0 DEF QTypeOK
      <3> QED BY <2>2, <2>4, <3>1 DEF PostFails
    <2>5. CASE Pop
      <3>1. queue \in Seq(Items) /\ Len(queue) \in Nat /\ Len(queue) > 0 /\ item.id = 0
        BY <2>0, <2>5, InQueue, EmptySeq, ItemTypes DEF Pop, AtWork, QTypeOK
      <3>2. /\ Len(queue') = Len(queue) - 1 /\ item' = queue[1]
            /\ \A i \in 1..Len(queue') : queue'[i] = queue[i + 1]
        BY <2>5, <3>1, WithoutFirst DEF Pop
      <3>3. \A i \in 1..Len(queue) : i = 1 \/ (i - 1 \in 1..Len(queue') /\ queue'[i - 1] = queue[i])
        <4> SUFFICES ASSUME NEW i \in 1..Len(queue), i # 1
                     PROVE  i - 1 \in 1..Len(queue') /\ queue'[i - 1] = queue[i]
          OBVIOUS
        <4>1. i - 1 \in 1..Len(queue') /\ (i - 1) + 1 = i
          BY <3>1, <3>2
        <4>2. queue'[i - 1] = queue[(i - 1) + 1]
          BY <3>2, <4>1
        <4> QED BY <4>1, <4>2
      <3>4. \A i \in 1..Len(queue) : queue[i].id # 0
        BY <2>0, InQueue
      <3>5. \A i \in 1..Len(queue) : queue[i].id \in Waiting'
        BY <3>2, <3>3, <3>4 DEF Waiting
      <3> QED BY <3>1, <3>5 DEF Waiting
    <2>6. CASE RestoreFails
      <3>1. item.slot \in Slots
        BY <2>0, <2>6, ItemTypes DEF RestoreFails, AtWork, QTypeOK
      <3> QED BY <2>0, <2>6, <3>1 DEF RestoreFails, QTypeOK
    <2>7. CASE Forwarded
      BY <2>7 DEF Forwarded
    <2>8. CASE ForwardFails
      <3>1. item \in Items
        BY <2>0, <2>8 DEF ForwardFails, AtWork, QTypeOK
      <3> QED BY <2>0, <2>8, <3>1, PushKeepsWaiting DEF ForwardFails
    <2>9. CASE SeesHealthy \/ SeesUnhealthy \/ Begin \/ Emptied \/ Restored
      BY <2>1, <2>9 DEF SeesHealthy, SeesUnhealthy, Begin, Emptied, Restored
    <2>10. ASSUME NEW s \in Slots, Simulate(s) \/ EvictSlot(s) PROVE Kept
      BY <2>1, <2>10 DEF Simulate, EvictSlot
    <2>11. ASSUME NEW r \in posting, Posted(r) PROVE Kept
      BY <2>1, <2>11 DEF Posted
    <2>12. ASSUME \/ \E to \in {"up", "stunned", "down"} : LogstashTurns(to)
                  \/ \E c \in Contents, s \in Slots : Allocate(c, s)
                  \/ Recover
                  \/ UNCHANGED qvars
           PROVE  Kept
      BY <2>1, <2>12 DEF LogstashTurns, Allocate, Recover, qvars
    <2> QED
      BY <2>3, <2>4, <2>5, <2>6, <2>7, <2>8, <2>9, <2>10, <2>11, <2>12
      DEF QNext, ProcessorStep
  <1> QED BY <1>1, QInitInv, QStep, PTL DEF QSpec, NoQuietLoss

=============================================================================
