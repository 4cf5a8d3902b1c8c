--------------------------- MODULE EventBusProofs ---------------------------
(***************************************************************************)
(* A Buffer subscriber sees every event of a publisher, in order (EventBus,*)
(* internal/app/events/bus.go).                                            *)
(*                                                                         *)
(* The queue holds the events of several publishers and the publisher that *)
(* is held up has one more on its way, so that EachInOrder is not          *)
(* inductive.  What is: until the subscription stops, the events of each   *)
(* publisher that lie in its queue are exactly those between the last one  *)
(* handled and the last one delivered (Contiguous), and they lie there in  *)
(* order (Ordered).                                                        *)
(***************************************************************************)
EXTENDS EventBus, TLAPS

Numbers == Publishers \X Nat

BusTypes ==
    /\ published \in [Publishers -> Nat] /\ writing \subseteq Publishers
    /\ todo \in [Publishers -> SUBSET Subscriptions] /\ placed \in [Publishers -> SUBSET Coalesced]
    /\ pending \in [Coalesced -> {NoEvent} \cup Numbers]
    /\ queue \in [Buffered -> Seq(Numbers)]
    /\ handled \in [Subscriptions -> [Publishers -> Nat]]
    /\ subscribed \subseteq Subscriptions /\ quit \in BOOLEAN

\* A publisher that has written has served its previous event, and the event it
\* is serving goes to the subscribers of its topic.
Serving ==
    \A p \in Publishers :
        /\ p \in writing => todo[p] = {}
        /\ \A s \in todo[p] : TopicOf[s] = TopicOf[p] /\ published[p] > 0

\* The last event of p that Publish has delivered to s.
Delivered(s, p) ==
    IF TopicOf[s] # TopicOf[p] THEN 0
    ELSE IF s \in todo[p] THEN published[p] - 1 ELSE published[p]

Queued(s, p, n) == \E i \in 1 .. Len(queue[s]) : queue[s][i] = <<p, n>>

ContiguousAt(s, p) ==
    /\ handled[s][p] <= Delivered(s, p)
    /\ \A n \in Nat : Queued(s, p, n) <=> handled[s][p] < n /\ n <= Delivered(s, p)
OrderedAt(s) ==
    \A i, j \in 1 .. Len(queue[s]) :
        i < j /\ queue[s][i][1] = queue[s][j][1] => queue[s][i][2] < queue[s][j][2]

Contiguous == \A s \in Buffered, p \in Publishers : ~Stopped(s) => ContiguousAt(s, p)
Ordered    == \A s \in Buffered : ~Stopped(s) => OrderedAt(s)

BusInv == BusTypes /\ Serving /\ Contiguous /\ Ordered

USE BusAssumption

-----------------------------------------------------------------------------
(* Types.                                                                  *)

LEMMA BusTypesInit == Init => BusTypes
<1> SUFFICES ASSUME Init PROVE BusTypes
  OBVIOUS
<1>1. /\ published \in [Publishers -> Nat] /\ writing \subseteq Publishers
      /\ todo \in [Publishers -> SUBSET Subscriptions] /\ placed \in [Publishers -> SUBSET Coalesced]
      /\ pending \in [Coalesced -> {NoEvent} \cup Numbers]
  BY DEF Init
<1>2. [p \in Publishers |-> 0] \in [Publishers -> Nat]
  OBVIOUS
<1>3. handled \in [Subscriptions -> [Publishers -> Nat]]
  BY <1>2 DEF Init
<1>4. <<>> \in Seq(Numbers)
  OBVIOUS
<1>5. queue \in [Buffered -> Seq(Numbers)]
  BY <1>4 DEF Init
<1>6. subscribed \subseteq Subscriptions /\ quit \in BOOLEAN
  BY DEF Init
<1> QED
  BY <1>1, <1>3, <1>5, <1>6 DEF BusTypes

LEMMA HandlesTypes ==
  ASSUME BusTypes, NEW s \in Subscriptions, NEW e \in {NoEvent} \cup Numbers, Handles(s, e)
  PROVE  handled' \in [Subscriptions -> [Publishers -> Nat]]
<1>1. CASE e = NoEvent
  BY <1>1 DEF Handles, BusTypes
<1>2. CASE e # NoEvent
  <2>1. e[1] \in Publishers /\ e[2] \in Nat
    BY <1>2 DEF Numbers
  <2> QED
    BY <1>2, <2>1 DEF Handles, BusTypes
<1> QED
  BY <1>1, <1>2

LEMMA EventIsNumber == ASSUME BusTypes, NEW p \in Publishers PROVE Event(p) \in Numbers
  BY DEF BusTypes, Event, Numbers

LEMMA PublisherTypes ==
  ASSUME BusTypes, NEW p \in Publishers, Write(p) \/ Publishes(p)
  PROVE  BusTypes'
<1>1. CASE Write(p)
  BY <1>1 DEF BusTypes, Write, slots, ending
<1>2. CASE Publish(p)
  <2>1. {s \in subscribed : TopicOf[s] = TopicOf[p]} \subseteq Subscriptions
    BY DEF BusTypes
  <2> QED
    BY <1>2, <2>1 DEF BusTypes, Publish, slots, ending
<1>3. ASSUME NEW s \in Subscriptions, Place(p, s) PROVE BusTypes'
  BY <1>3, EventIsNumber DEF BusTypes, Place, ending
<1>4. ASSUME NEW s \in Subscriptions, Signal(p, s) PROVE BusTypes'
  BY <1>4 DEF BusTypes, Signal, Served, ending
<1>5. ASSUME NEW s \in Subscriptions, Enqueue(p, s) PROVE BusTypes'
  <2>1. s \in Buffered /\ Append(queue[s], Event(p)) \in Seq(Numbers)
    BY <1>5, EventIsNumber DEF BusTypes, Enqueue
  <2>2. queue' \in [Buffered -> Seq(Numbers)]
    BY <1>5, <2>1 DEF BusTypes, Enqueue
  <2> QED
    BY <1>5, <2>2 DEF BusTypes, Enqueue, Served, ending
<1>6. ASSUME NEW s \in Subscriptions, GiveUp(p, s) PROVE BusTypes'
  BY <1>6 DEF BusTypes, GiveUp, Served, slots, ending
<1> QED
  BY <1>1, <1>2, <1>3, <1>4, <1>5, <1>6 DEF Publishes

LEMMA GoroutineTypes ==
  ASSUME BusTypes, NEW s \in Subscriptions, Goroutine(s)
  PROVE  BusTypes'
<1>1. CASE Takes(s)
  <2>1. pending[s] \in {NoEvent} \cup Numbers
    BY <1>1 DEF BusTypes, Takes
  <2>2. handled' \in [Subscriptions -> [Publishers -> Nat]]
    BY <1>1, <2>1, HandlesTypes DEF Takes
  <2> QED
    BY <1>1, <2>2 DEF BusTypes, Takes, sending, ending
<1>2. CASE Dequeues(s)
  <2>1. queue[s] \in Seq(Numbers) /\ queue[s] # <<>>
    BY <1>2 DEF BusTypes, Dequeues
  <2>2. Head(queue[s]) \in Numbers /\ Tail(queue[s]) \in Seq(Numbers)
    BY <2>1
  <2>3. handled' \in [Subscriptions -> [Publishers -> Nat]]
    BY <1>2, <2>2, HandlesTypes DEF Dequeues
  <2>4. queue' \in [Buffered -> Seq(Numbers)]
    BY <1>2, <2>2 DEF BusTypes, Dequeues
  <2> QED
    BY <1>2, <2>3, <2>4 DEF BusTypes, Dequeues, sending, ending
<1>3. CASE Wakes(s) \/ Rereads(s) \/ Returns(s) \/ Ends(s)
  BY <1>3 DEF BusTypes, Wakes, Rereads, Returns, Ends, sending, slots, ending
<1> QED
  BY <1>1, <1>2, <1>3 DEF Goroutine

LEMMA TeardownTypes ==
  ASSUME BusTypes, Unsubscribe \/ Quit \/ Close \/ CloseReturns
  PROVE  BusTypes'
  BY DEF BusTypes, Unsubscribe, Quit, Close, CloseReturns, sending, slots

-----------------------------------------------------------------------------
(* Frames: a subscription stays stopped, and what it has is changed by few *)
(* steps.                                                                  *)

LEMMA StoppedForGood ==
  ASSUME BusTypes, Next, NEW s \in Buffered, ~Stopped(s)'
  PROVE  ~Stopped(s)
  BY DEF Next, Write, Publishes, Publish, Place, Signal, Enqueue, GiveUp, Goroutine, Wakes, Takes, Dequeues,
         Rereads, Returns, Ends, Unsubscribe, Quit, Close, CloseReturns, Stopped, ending, BusTypes

LEMMA Unmoved ==
  ASSUME BusInv, NEW s \in Buffered, ~Stopped(s),
         queue'[s] = queue[s], handled'[s] = handled[s],
         \A p \in Publishers : Delivered(s, p)' = Delivered(s, p)
  PROVE  OrderedAt(s)' /\ \A p \in Publishers : ContiguousAt(s, p)'
<1>1. OrderedAt(s) /\ \A p \in Publishers : ContiguousAt(s, p)
  BY DEF BusInv, Contiguous, Ordered
<1>2. OrderedAt(s)'
  BY <1>1 DEF OrderedAt
<1>3. ASSUME NEW p \in Publishers PROVE ContiguousAt(s, p)'
  BY <1>1 DEF ContiguousAt, Queued
<1> QED
  BY <1>2, <1>3

-----------------------------------------------------------------------------
(* The invariant.                                                          *)

LEMMA ServingInit == Init => Serving
  BY DEF Init, Serving

LEMMA OrdersInit == Init => Contiguous /\ Ordered
<1> SUFFICES ASSUME Init, NEW s \in Buffered PROVE OrderedAt(s) /\ \A p \in Publishers : ContiguousAt(s, p)
  BY DEF Contiguous, Ordered
<1>1. Len(queue[s]) = 0
  BY DEF Init
<1>2. ASSUME NEW p \in Publishers PROVE ContiguousAt(s, p)
  <2>1. handled[s][p] = 0 /\ published[p] = 0 /\ todo[p] = {}
    BY DEF Init, Subscriptions
  <2>2. Delivered(s, p) = 0
    BY <2>1 DEF Delivered
  <2> QED
    BY <1>1, <2>1, <2>2 DEF ContiguousAt, Queued
<1> QED
  BY <1>1, <1>2 DEF OrderedAt

LEMMA ServingStep == ASSUME BusInv, Next PROVE Serving'
<1>1. CASE \E p \in Publishers : Write(p) \/ Publish(p)
  <2>1. PICK p \in Publishers : Write(p) \/ Publish(p)
    BY <1>1
  <2>2. CASE Write(p)
    BY <2>2 DEF BusInv, BusTypes, Serving, Write
  <2>3. CASE Publish(p)
    <3>1. todo'[p] = {s \in subscribed : TopicOf[s] = TopicOf[p]} /\ published'[p] > 0 /\ writing' = writing \ {p}
          /\ \A q \in Publishers \ {p} : todo'[q] = todo[q] /\ published'[q] = published[q]
      BY <2>3 DEF BusInv, BusTypes, Publish
    <3> QED
      BY <3>1 DEF BusInv, Serving
  <2> QED
    BY <2>1, <2>2, <2>3
<1>2. CASE \E p \in Publishers, s \in Subscriptions : Place(p, s) \/ Signal(p, s) \/ Enqueue(p, s) \/ GiveUp(p, s)
  <2>1. PICK p \in Publishers, s \in Subscriptions : Place(p, s) \/ Signal(p, s) \/ Enqueue(p, s) \/ GiveUp(p, s)
    BY <1>2
  <2>2. UNCHANGED <<published, writing>> /\ \A q \in Publishers : todo'[q] \subseteq todo[q]
    <3>1. CASE Place(p, s)
      BY <3>1 DEF Place
    <3>2. CASE Signal(p, s) \/ Enqueue(p, s) \/ GiveUp(p, s)
      <4>1. Served(p, s)
        BY <3>2 DEF Signal, Enqueue, GiveUp
      <4> QED
        BY <4>1 DEF Served, BusInv, BusTypes
    <3> QED
      BY <2>1, <3>1, <3>2
  <2> QED
    BY <2>2 DEF BusInv, Serving
<1>3. CASE ~(\E p \in Publishers : Write(p) \/ Publishes(p))
  <2>1. UNCHANGED sending
    BY <1>3 DEF Next, Goroutine, Wakes, Takes, Dequeues, Rereads, Returns, Ends, Unsubscribe, Quit, Close, CloseReturns
  <2> QED
    BY <2>1 DEF BusInv, Serving, sending
<1> QED
  BY <1>1, <1>2, <1>3 DEF Publishes

\* Delivering is publishing and enqueuing.
LEMMA PublishKeeps ==
  ASSUME BusInv, NEW p \in Publishers, Publish(p), NEW s \in Buffered, ~Stopped(s), NEW q \in Publishers
  PROVE  Delivered(s, q)' = Delivered(s, q)
<1>1. published' = [published EXCEPT ![p] = @ + 1]
      /\ todo' = [todo EXCEPT ![p] = {c \in subscribed : TopicOf[c] = TopicOf[p]}]
      /\ todo[p] = {} /\ published[p] \in Nat
  BY DEF BusInv, BusTypes, Serving, Publish
<1>2. s \in subscribed
  BY DEF Stopped
<1>3. todo'[p] = {c \in subscribed : TopicOf[c] = TopicOf[p]} /\ published'[p] = published[p] + 1
  BY <1>1 DEF BusInv, BusTypes
<1>4. CASE q = p
  BY <1>1, <1>2, <1>3, <1>4 DEF Delivered
<1>5. CASE q # p
  BY <1>1, <1>5 DEF Delivered, BusInv, BusTypes
<1> QED
  BY <1>4, <1>5

LEMMA EnqueueDelivers ==
  ASSUME BusInv, NEW p \in Publishers, NEW s \in Buffered, Enqueue(p, s), ~Stopped(s)
  PROVE  OrderedAt(s)' /\ \A q \in Publishers : ContiguousAt(s, q)'
<1> DEFINE len == Len(queue[s])
<1>0. PICK n \in Nat : published[p] = n
  BY DEF BusInv, BusTypes
<1>1. /\ s \in todo[p] /\ queue'[s] = Append(queue[s], <<p, n>>) /\ UNCHANGED <<published, handled>>
      /\ todo' = [todo EXCEPT ![p] = @ \ {s}]
      /\ queue[s] \in Seq(Numbers) /\ len \in Nat
  <2>1. Event(p) = <<p, n>> /\ queue \in [Buffered -> Seq(Numbers)] /\ queue[s] \in Seq(Numbers)
    BY <1>0 DEF BusInv, BusTypes, Event
  <2>2. s \in todo[p] /\ queue'[s] = Append(queue[s], Event(p)) /\ UNCHANGED <<published, handled>>
    BY <2>1 DEF Enqueue, Served
  <2>3. todo' = [todo EXCEPT ![p] = @ \ {s}]
    BY DEF Enqueue, Served
  <2>4. len \in Nat
    BY <2>1
  <2> HIDE DEF len
  <2>5. queue'[s] = Append(queue[s], <<p, n>>)
    BY <2>1, <2>2
  <2> QED
    BY <2>1, <2>2, <2>3, <2>4, <2>5
<1>2. TopicOf[s] = TopicOf[p] /\ n > 0
  BY <1>0, <1>1 DEF BusInv, Serving
<1>3. OrderedAt(s) /\ \A q \in Publishers : ContiguousAt(s, q)
  BY DEF BusInv, Contiguous, Ordered
<1>4. Delivered(s, p) = n - 1 /\ Delivered(s, p)' = n
  BY <1>0, <1>1, <1>2 DEF Delivered, BusInv, BusTypes
<1>5. \A q \in Publishers \ {p} : Delivered(s, q)' = Delivered(s, q)
  BY <1>1 DEF Delivered, BusInv, BusTypes
<1>6. handled[s][p] \in Nat /\ handled[s][p] <= n - 1
  <2>1. handled \in [Subscriptions -> [Publishers -> Nat]] /\ s \in Subscriptions
    BY DEF BusInv, BusTypes, Subscriptions
  <2>2. handled[s][p] \in Nat
    BY <2>1
  <2> QED
    BY <2>2, <1>3, <1>4 DEF ContiguousAt
<1>7. Len(queue'[s]) = len + 1 /\ queue'[s][len + 1] = <<p, n>> /\ \A i \in 1 .. len : queue'[s][i] = queue[s][i]
  BY <1>1
<1>8. \A i \in 1 .. len : queue[s][i] \in Numbers
  BY <1>1
<1>9. \A i \in 1 .. len : queue[s][i][1] = p => queue[s][i][2] < n
  <2> SUFFICES ASSUME NEW i \in 1 .. len, queue[s][i][1] = p PROVE queue[s][i][2] < n
    OBVIOUS
  <2>1. PICK m \in Nat : queue[s][i] = <<p, m>>
    BY <1>8 DEF Numbers
  <2>2. Queued(s, p, m)
    BY <2>1 DEF Queued
  <2>3. m <= Delivered(s, p)
    BY <1>3, <2>2 DEF ContiguousAt
  <2> QED
    BY <1>1, <1>4, <2>1, <2>3
<1>10. Len(queue[s]) = len
  OBVIOUS
<1> HIDE DEF len
<1>11. OrderedAt(s)'
  <2> SUFFICES ASSUME NEW i \in 1 .. len + 1, NEW j \in 1 .. len + 1, i < j, queue'[s][i][1] = queue'[s][j][1]
               PROVE  queue'[s][i][2] < queue'[s][j][2]
    BY <1>7 DEF OrderedAt
  <2>1. i \in 1 .. len /\ queue'[s][i] = queue[s][i]
    BY <1>1, <1>7
  <2>2. CASE j = len + 1
    BY <2>1, <2>2, <1>7, <1>9
  <2>3. CASE j # len + 1
    <3>1. j \in 1 .. len /\ queue'[s][j] = queue[s][j]
      BY <1>1, <1>7, <2>3
    <3> QED
      BY <1>3, <1>10, <2>1, <3>1 DEF OrderedAt
  <2> QED
    BY <2>2, <2>3
<1>12. ASSUME NEW q \in Publishers \ {p} PROVE ContiguousAt(s, q)'
  <2>1. \A m \in Nat : Queued(s, q, m)' <=> Queued(s, q, m)
    <3> TAKE m \in Nat
    <3>1. ASSUME Queued(s, q, m)' PROVE Queued(s, q, m)
      <4>1. PICK i \in 1 .. len + 1 : queue'[s][i] = <<q, m>>
        BY <1>7, <3>1 DEF Queued
      <4>2. i # len + 1
        BY <1>7, <4>1
      <4>3. i \in 1 .. len
        BY <1>1, <4>2
      <4> QED
        BY <1>7, <1>10, <4>1, <4>3 DEF Queued
    <3>2. ASSUME Queued(s, q, m) PROVE Queued(s, q, m)'
      <4>1. PICK i \in 1 .. len : queue[s][i] = <<q, m>>
        BY <1>10, <3>2 DEF Queued
      <4>2. queue'[s][i] = <<q, m>> /\ i \in 1 .. len + 1
        BY <1>1, <1>7, <4>1
      <4> QED
        BY <1>7, <4>2 DEF Queued
    <3> QED
      BY <3>1, <3>2
  <2> QED
    BY <1>1, <1>3, <1>5, <2>1 DEF ContiguousAt
<1>13. ContiguousAt(s, p)'
  <2>1. \A m \in Nat : Queued(s, p, m)' <=> Queued(s, p, m) \/ m = n
    <3> TAKE m \in Nat
    <3>1. ASSUME Queued(s, p, m)', m # n PROVE Queued(s, p, m)
      <4>1. PICK i \in 1 .. len + 1 : queue'[s][i] = <<p, m>>
        BY <1>7, <3>1 DEF Queued
      <4>2. i # len + 1
        BY <1>7, <3>1, <4>1
      <4>3. i \in 1 .. len
        BY <1>1, <4>2
      <4> QED
        BY <1>7, <1>10, <4>1, <4>3 DEF Queued
    <3>2. ASSUME Queued(s, p, m) PROVE Queued(s, p, m)'
      <4>1. PICK i \in 1 .. len : queue[s][i] = <<p, m>>
        BY <1>10, <3>2 DEF Queued
      <4>2. queue'[s][i] = <<p, m>> /\ i \in 1 .. len + 1
        BY <1>1, <1>7, <4>1
      <4> QED
        BY <1>7, <4>2 DEF Queued
    <3>3. Queued(s, p, n)'
      <4>1. len + 1 \in 1 .. len + 1
        BY <1>1
      <4> QED
        BY <1>7, <4>1 DEF Queued
    <3> QED
      BY <3>1, <3>2, <3>3
  <2>2. \A m \in Nat : Queued(s, p, m) <=> handled[s][p] < m /\ m <= n - 1
    BY <1>3, <1>4 DEF ContiguousAt
  <2>3. \A m \in Nat : handled[s][p] < m /\ m <= n <=> (handled[s][p] < m /\ m <= n - 1) \/ m = n
    BY <1>1, <1>6
  <2> QED
    BY <1>1, <1>4, <1>6, <2>1, <2>2, <2>3 DEF ContiguousAt
<1> QED
  BY <1>11, <1>12, <1>13

\* What is taken from the queue is the event after the last one handled.
LEMMA DequeuesInOrder ==
  ASSUME BusInv, NEW s \in Buffered, Dequeues(s), ~Stopped(s)
  PROVE  /\ OrderedAt(s)' /\ \A q \in Publishers : ContiguousAt(s, q)'
         /\ \A q \in Publishers : handled'[s][q] \in {handled[s][q], handled[s][q] + 1}
<1> DEFINE len == Len(queue[s])
<1>1. queue[s] \in Seq(Numbers) /\ queue[s] # <<>> /\ queue'[s] = Tail(queue[s])
  BY DEF BusInv, BusTypes, Dequeues
<1>2. len \in Nat \ {0} /\ Head(queue[s]) = queue[s][1] /\ queue[s][1] \in Numbers
      /\ Len(queue'[s]) = len - 1 /\ \A i \in 1 .. len - 1 : queue'[s][i] = queue[s][i + 1]
  BY <1>1
<1>3. PICK p \in Publishers, n \in Nat : queue[s][1] = <<p, n>>
  BY <1>2 DEF Numbers
<1>4. handled' = [handled EXCEPT ![s][p] = n] /\ UNCHANGED <<published, todo>>
  <2>1. <<p, n>>[1] = p /\ <<p, n>>[2] = n /\ <<p, n>> # NoEvent
    BY DEF NoEvent
  <2>2. Handles(s, <<p, n>>) /\ UNCHANGED sending
    BY <1>2, <1>3 DEF Dequeues
  <2> QED
    BY <2>1, <2>2 DEF Handles, sending
<1>5. \A q \in Publishers : Delivered(s, q)' = Delivered(s, q)
  BY <1>4 DEF Delivered
<1>6. OrderedAt(s) /\ \A q \in Publishers : ContiguousAt(s, q)
  BY DEF BusInv, Contiguous, Ordered
<1>7. handled[s] \in [Publishers -> Nat] /\ handled'[s] = [handled[s] EXCEPT ![p] = n]
  BY <1>4 DEF BusInv, BusTypes, Subscriptions
<1>8. \A i \in 1 .. len : queue[s][i] \in Numbers
  BY <1>1
<1>9. Len(queue[s]) = len
  OBVIOUS
<1> HIDE DEF len
<1>10. \A q \in Publishers : Delivered(s, q) \in Int
  BY DEF Delivered, BusInv, BusTypes
<1>11. n = handled[s][p] + 1 /\ n <= Delivered(s, p)
  <2> DEFINE h == handled[s][p] + 1
  <2>1. h \in Nat
    BY <1>7
  <2>2. Queued(s, p, n)
    BY SMTT(20), <1>2, <1>3, <1>9 DEF Queued
  <2>3. h <= n /\ n <= Delivered(s, p)
    BY <1>6, <1>7, <2>2 DEF ContiguousAt
  <2>4. Queued(s, p, h)
    BY <1>6, <1>7, <1>10, <2>1, <2>3 DEF ContiguousAt
  <2>5. PICK i \in 1 .. len : queue[s][i] = <<p, h>>
    BY <1>9, <2>4 DEF Queued
  <2> HIDE DEF h
  <2>6. CASE i = 1
    BY <1>3, <2>3, <2>5, <2>6 DEF h
  <2>7. CASE i # 1
    <3>1. 1 \in 1 .. len /\ 1 < i /\ queue[s][1][1] = queue[s][i][1]
      BY <1>2, <1>3, <2>5, <2>7
    <3>2. n < h
      BY <1>3, <1>6, <1>9, <2>5, <3>1 DEF OrderedAt
    <3> QED
      BY <2>1, <2>3, <3>2
  <2> QED
    BY <2>6, <2>7
<1>12. OrderedAt(s)'
  <2> SUFFICES ASSUME NEW i \in 1 .. len - 1, NEW j \in 1 .. len - 1, i < j, queue'[s][i][1] = queue'[s][j][1]
               PROVE  queue'[s][i][2] < queue'[s][j][2]
    BY <1>2 DEF OrderedAt
  <2>1. i + 1 \in 1 .. len /\ j + 1 \in 1 .. len /\ i + 1 < j + 1
    BY <1>2
  <2> QED
    BY <1>2, <1>6, <1>9, <2>1 DEF OrderedAt
<1>13. ASSUME NEW q \in Publishers, NEW m \in Nat
       PROVE  Queued(s, q, m)' <=> Queued(s, q, m) /\ <<q, m>> # <<p, n>>
  <2>1. ASSUME Queued(s, q, m)' PROVE Queued(s, q, m) /\ <<q, m>> # <<p, n>>
    <3>1. PICK i \in 1 .. len - 1 : queue'[s][i] = <<q, m>>
      BY <1>2, <2>1 DEF Queued
    <3>2. i + 1 \in 1 .. len /\ queue[s][i + 1] = <<q, m>> /\ 1 < i + 1 /\ 1 \in 1 .. len
      BY <1>2, <3>1
    <3>3. ~(q = p /\ m = n)
      BY <1>3, <1>6, <1>9, <3>2 DEF OrderedAt
    <3> QED
      BY <1>9, <3>2, <3>3 DEF Queued
  <2>2. ASSUME Queued(s, q, m), <<q, m>> # <<p, n>> PROVE Queued(s, q, m)'
    <3>1. PICK i \in 1 .. len : queue[s][i] = <<q, m>>
      BY <1>9, <2>2 DEF Queued
    <3>2. i # 1
      BY <1>3, <2>2, <3>1
    <3>3. i - 1 \in 1 .. len - 1 /\ queue'[s][i - 1] = queue[s][(i - 1) + 1] /\ (i - 1) + 1 = i
      BY <1>2, <3>2
    <3> QED
      BY <1>2, <3>1, <3>3 DEF Queued
  <2> QED
    BY <2>1, <2>2
<1>14. ASSUME NEW q \in Publishers PROVE ContiguousAt(s, q)'
  <2>1. CASE q = p
    <3>1. handled'[s][q] = n
      BY <1>7, <2>1
    <3>2. \A m \in Nat : Queued(s, q, m)' <=> Queued(s, q, m) /\ m # n
      BY <1>13, <2>1
    <3>3. \A m \in Nat : Queued(s, q, m) <=> handled[s][p] < m /\ m <= Delivered(s, p)
      BY <1>6, <2>1 DEF ContiguousAt
    <3>4. \A m \in Nat : n < m <=> handled[s][p] < m /\ m # n
      BY <1>7, <1>11
    <3> QED
      BY <1>5, <1>11, <2>1, <3>1, <3>2, <3>3, <3>4 DEF ContiguousAt
  <2>2. CASE q # p
    <3>1. handled'[s][q] = handled[s][q]
      BY <1>7, <2>2
    <3>2. \A m \in Nat : Queued(s, q, m)' <=> Queued(s, q, m)
      BY <1>13, <2>2
    <3> QED
      BY <1>5, <1>6, <3>1, <3>2 DEF ContiguousAt
  <2> QED
    BY <2>1, <2>2
<1>15. \A q \in Publishers : handled'[s][q] \in {handled[s][q], handled[s][q] + 1}
  BY <1>7, <1>11
<1> QED
  BY <1>12, <1>14, <1>15

\* Any other step leaves the subscription's queue and count alone.
LEMMA OthersKeep ==
  ASSUME BusInv, Next, NEW s \in Buffered, ~Stopped(s),
         ~Dequeues(s), \A p \in Publishers : ~Enqueue(p, s) /\ ~GiveUp(p, s)
  PROVE  /\ queue'[s] = queue[s] /\ handled'[s] = handled[s]
         /\ \A q \in Publishers : Delivered(s, q)' = Delivered(s, q)
<1>0. s \in Subscriptions /\ s \notin Coalesced
  BY DEF Subscriptions
<1>1. CASE \E p \in Publishers : Publish(p)
  BY <1>1, PublishKeeps DEF Publish, slots
<1>2. CASE \E p \in Publishers, c \in Subscriptions : Place(p, c) \/ Signal(p, c) \/ Enqueue(p, c) \/ GiveUp(p, c)
  <2>1. PICK p \in Publishers, c \in Subscriptions : Place(p, c) \/ Signal(p, c) \/ Enqueue(p, c) \/ GiveUp(p, c)
    BY <1>2
  <2>2. c # s
    BY <1>0, <2>1 DEF Place, Signal, BusInv, BusTypes
  <2>3. queue'[s] = queue[s] /\ UNCHANGED <<handled, published>>
        /\ \A q \in Publishers : s \in todo'[q] <=> s \in todo[q]
    <3>1. CASE Place(p, c)
      BY <3>1 DEF Place
    <3>2. CASE Signal(p, c)
      BY <2>2, <3>2 DEF Signal, Served, BusInv, BusTypes
    <3>3. CASE Enqueue(p, c)
      BY <2>2, <3>3 DEF Enqueue, Served, BusInv, BusTypes
    <3>4. CASE GiveUp(p, c)
      BY <2>2, <3>4 DEF GiveUp, Served, slots, BusInv, BusTypes
    <3> QED
      BY <2>1, <3>1, <3>2, <3>3, <3>4
  <2> QED
    BY <2>3 DEF Delivered
<1>3. CASE \E c \in Subscriptions : Goroutine(c)
  <2>1. PICK c \in Subscriptions : Goroutine(c)
    BY <1>3
  <2>2. UNCHANGED sending
    BY <2>1 DEF Goroutine, Wakes, Takes, Dequeues, Rereads, Returns, Ends
  <2>3. queue'[s] = queue[s] /\ handled'[s] = handled[s]
    <3>1. CASE Takes(c) \/ Dequeues(c)
      <4>1. c # s
        BY <1>0, <3>1 DEF Takes
      <4> QED
        BY <1>0, <3>1, <4>1 DEF Takes, Dequeues, Handles, BusInv, BusTypes
    <3>2. CASE ~(Takes(c) \/ Dequeues(c))
      BY <2>1, <3>2 DEF Goroutine, Wakes, Rereads, Returns, Ends, slots
    <3> QED
      BY <3>1, <3>2
  <2> QED
    BY <2>2, <2>3 DEF Delivered, sending
<1>4. CASE (\E p \in Publishers : Write(p)) \/ Unsubscribe \/ Quit \/ Close \/ CloseReturns
  BY <1>4 DEF Write, Unsubscribe, Quit, Close, CloseReturns, Delivered, sending, slots
<1> QED
  BY <1>1, <1>2, <1>3, <1>4 DEF Next, Publishes

\* What a step does to a subscription that goes on.
LEMMA BufferedStep ==
  ASSUME BusInv, Next, NEW s \in Buffered, ~Stopped(s)
  PROVE  /\ OrderedAt(s)' /\ \A q \in Publishers : ContiguousAt(s, q)'
         /\ \A q \in Publishers : handled'[s][q] \in {handled[s][q], handled[s][q] + 1}
<1>1. CASE Dequeues(s)
  BY <1>1, DequeuesInOrder
<1>2. CASE \E p \in Publishers : Enqueue(p, s)
  BY <1>2, EnqueueDelivers DEF Enqueue
<1>3. \A p \in Publishers : ~GiveUp(p, s)
  BY DEF GiveUp, Released
<1>4. CASE ~Dequeues(s) /\ \A p \in Publishers : ~Enqueue(p, s)
  <2>1. queue'[s] = queue[s] /\ handled'[s] = handled[s] /\ \A q \in Publishers : Delivered(s, q)' = Delivered(s, q)
    BY <1>3, <1>4, OthersKeep
  <2> QED
    BY <2>1, Unmoved
<1> QED
  BY <1>1, <1>2, <1>4

LEMMA BusInvInit == Init => BusInv
  BY BusTypesInit, ServingInit, OrdersInit DEF BusInv

LEMMA BusInvStep == ASSUME BusInv, [Next]_vars PROVE BusInv'
<1>1. CASE Next
  <2>1. BusTypes'
    BY <1>1, PublisherTypes, GoroutineTypes, TeardownTypes DEF BusInv, Next
  <2>2. Serving'
    BY <1>1, ServingStep
  <2>3. Contiguous' /\ Ordered'
    BY <1>1, StoppedForGood, BufferedStep DEF Contiguous, Ordered, BusInv
  <2> QED
    BY <2>1, <2>2, <2>3 DEF BusInv
<1>2. CASE UNCHANGED vars
  <2>1. UNCHANGED <<published, writing, todo, placed, pending, queue, handled, subscribed, quit>>
    BY <1>2 DEF vars
  <2>2. BusTypes' /\ Serving'
    BY <2>1 DEF BusInv, BusTypes, Serving
  <2>3. \A s \in Buffered : (Stopped(s)' <=> Stopped(s)) /\ (OrderedAt(s)' <=> OrderedAt(s))
    BY <2>1 DEF Stopped, OrderedAt
  <2>4. \A s \in Buffered, p \in Publishers : ContiguousAt(s, p)' <=> ContiguousAt(s, p)
    BY <2>1 DEF ContiguousAt, Queued, Delivered
  <2> QED
    BY <2>2, <2>3, <2>4 DEF BusInv, Contiguous, Ordered
<1> QED
  BY <1>1, <1>2

\* A Buffer subscriber handles the events of a publisher one after the other and
\* leaves none out, whoever else publishes to it and however long its queue holds
\* a publisher up, until it is stopped (deliver and the goroutine of Subscribe).
THEOREM EachInOrderHolds == Spec => EachInOrder
<1>1. ASSUME BusInv, [Next]_vars
      PROVE  [\A s \in Buffered, p \in Publishers :
                ~Stopped(s) => handled'[s][p] \in {handled[s][p], handled[s][p] + 1}]_vars
  BY <1>1, BufferedStep
<1> QED
  BY <1>1, BusInvInit, BusInvStep, PTL DEF Spec, EachInOrder

=============================================================================
