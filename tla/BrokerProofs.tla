---------------------------- MODULE BrokerProofs ----------------------------
(* Proofs about Broker, for every bound: the pump removes from the backlog *)
(* what it has delivered, nothing is stranded, the order is kept and the   *)
(* accounting exact; together they make a stream without holes.            *)
EXTENDS Broker, FiniteSetTheorems, TLAPS

USE LimitsAssumption DEF backlog, bounds, subs, Gens

Event == [kind : {"output", "window", "lifecycle"}, pane : Panes \cup {NoPane}, ids : Seq(Nat)]

PumpState ==
    [pc : {"none", "look", "send", "took", "gone"}, ev : Event \cup {<<>>},
     epoch : Nat, closing : BOOLEAN]

BacklogTypes == buf \in Seq(Event)
CountTypes   == gen \in Nat /\ epoch \in Nat /\ next \in Nat /\ closed \in BOOLEAN
PumpTypes    == pump \in [Gens -> PumpState]

\* The pump of a generation that has not begun has not started.
Unstarted == \A g \in Gens : g > gen => pump[g].pc = "none"

\* No pump has read an epoch that has not begun.
PastEpoch == \A g \in Gens : pump[g].epoch <= epoch

\* The inductive invariant.
IInv == BacklogTypes /\ CountTypes /\ PumpTypes /\ Unstarted /\ PastEpoch /\ HeadIsHeld

LEMMA InitInv == Init => IInv
<1> SUFFICES ASSUME Init PROVE IInv
  OBVIOUS
<1>1. Idle \in PumpState
  BY DEF Idle, PumpState
<1>2. \A g \in Gens : pump[g] = Idle
  BY DEF Init
<1>3. \A g \in Gens : pump[g].pc = "none" /\ pump[g].epoch = 0
  BY <1>2 DEF Idle
<1>4. CountTypes
  BY DEF Init, CountTypes
<1>8. BacklogTypes
  <2>1. buf = <<>>
    BY DEF Init
  <2> QED
    BY <2>1 DEF BacklogTypes
<1>5. PumpTypes
  BY <1>1 DEF Init, PumpTypes
<1>6. Unstarted /\ HeadIsHeld
  BY <1>3 DEF Unstarted, HeadIsHeld
<1>7. PastEpoch
  BY <1>3 DEF Init, PastEpoch
<1> QED
  BY <1>4, <1>5, <1>6, <1>7, <1>8 DEF IInv

\* What is published is an event.
LEMMA PublishedType ==
  ASSUME CountTypes
  PROVE  /\ \A p \in Panes : OutputOf(p) \in Event
         /\ \A k \in {"window", "lifecycle"} : Notice(k) \in Event
<1>1. <<next>> \in Seq(Nat)
  BY DEF CountTypes
<1> QED
  BY <1>1 DEF OutputOf, Notice, Event

\* Merging keeps an event an event.
LEMMA MergedType ==
  ASSUME NEW tail \in Event, NEW ev \in Event
  PROVE  Merged(tail, ev) \in Event
<1>1. tail.ids \o ev.ids \in Seq(Nat)
  BY DEF Event
<1> QED
  BY <1>1 DEF Merged, Event

\* Accepting an event leaves the head of a backlog that has one.
LEMMA AcceptKeepsHead ==
  ASSUME BacklogTypes, NEW ev \in Event, Accept(ev)
  PROVE  BacklogTypes' /\ (buf # <<>> => buf' # <<>> /\ Head(buf') = Head(buf))
<1>1. CASE Mergeable(ev)
  <2>1. Len(buf) >= 2 /\ buf[Len(buf)] \in Event
    BY <1>1 DEF Mergeable, BacklogTypes
  <2>2. buf' = [buf EXCEPT ![Len(buf)] = Merged(buf[Len(buf)], ev)]
    BY <1>1 DEF Accept
  <2>3. Merged(buf[Len(buf)], ev) \in Event
    BY <2>1, MergedType
  <2> QED
    BY <2>1, <2>2, <2>3 DEF BacklogTypes
<1>2. CASE ~Mergeable(ev)
  <2>1. buf' = Append(buf, ev)
    BY <1>2 DEF Accept
  <2> QED
    BY <2>1 DEF BacklogTypes
<1> QED
  BY <1>1, <1>2

-----------------------------------------------------------------------------
(* The steps                                                               *)

\* Publishing touches no pump, and the head only of an empty backlog.
LEMMA PublishEventStep ==
  ASSUME IInv, NEW ev \in Event, Publish(ev)
  PROVE  IInv'
<1>2. BacklogTypes' /\ (buf # <<>> => buf' # <<>> /\ Head(buf') = Head(buf))
  <2>1. CASE Refuse(ev)
    BY <2>1 DEF Refuse, IInv, BacklogTypes
  <2>2. CASE Accept(ev)
    BY <2>2, AcceptKeepsHead DEF IInv
  <2> QED
    BY <2>1, <2>2 DEF Publish
<1>3. UNCHANGED <<gen, epoch, closed, pump>> /\ next' = next + Len(ev.ids)
  BY DEF Publish
<1>4. Len(ev.ids) \in Nat
  BY DEF Event
<1>5. CountTypes'
  BY <1>3, <1>4 DEF IInv, CountTypes
<1>6. PumpTypes' /\ Unstarted' /\ PastEpoch'
  BY <1>3 DEF IInv, PumpTypes, Unstarted, PastEpoch
<1>7. HeadIsHeld'
  BY <1>2, <1>3 DEF IInv, HeadIsHeld
<1> QED
  BY <1>2, <1>5, <1>6, <1>7 DEF IInv

LEMMA PublishStep ==
  ASSUME IInv, PublishSome
  PROVE  IInv'
<1>1. PICK ev \in Event : Publish(ev)
  BY PublishedType DEF PublishSome, IInv
<1> QED
  BY <1>1, PublishEventStep

\* The new subscriber's pump has nothing in hand; every other one is past its
\* generation.
LEMMA SubscribeStep ==
  ASSUME IInv, Subscribe
  PROVE  IInv'
<1>1. /\ gen + 1 \in Gens /\ gen' = gen + 1
      /\ pump' = [pump EXCEPT ![gen + 1] = [@ EXCEPT !.pc = "look"]]
      /\ UNCHANGED <<buf, epoch, closed, next>>
  BY DEF Subscribe, IInv, CountTypes
<1>2. BacklogTypes' /\ CountTypes'
  BY <1>1 DEF IInv, BacklogTypes, CountTypes
<1>3. [pump[gen + 1] EXCEPT !.pc = "look"] \in PumpState
  BY <1>1 DEF IInv, PumpTypes, PumpState
<1>4. PumpTypes'
  BY <1>1, <1>3 DEF IInv, PumpTypes
<1>5. /\ pump'[gen + 1].pc = "look" /\ pump'[gen + 1].epoch = pump[gen + 1].epoch
      /\ \A g \in Gens \ {gen + 1} : pump'[g] = pump[g]
  BY <1>1 DEF IInv, PumpTypes, PumpState
<1>6. Unstarted'
  BY <1>1, <1>5 DEF IInv, CountTypes, Unstarted
<1>7. PastEpoch' /\ HeadIsHeld'
  BY <1>1, <1>5 DEF IInv, PastEpoch, HeadIsHeld
<1> QED
  BY <1>2, <1>4, <1>6, <1>7 DEF IInv

\* A generation that begins without a pump has none that could hold anything.
LEMMA ReleaseStep ==
  ASSUME IInv, gen' \in {gen, gen + 1}, UNCHANGED <<buf, epoch, pump>>
  PROVE  Unstarted' /\ HeadIsHeld'
<1>1. gen \in Nat /\ gen' \in Nat /\ gen' >= gen
  BY DEF IInv, CountTypes
<1>2. Unstarted'
  BY <1>1 DEF IInv, Unstarted
<1>3. ASSUME gen' = gen + 1, NEW g \in Gens, gen' = g PROVE pump[g].pc = "none"
  BY <1>1, <1>3 DEF IInv, Unstarted
<1>4. HeadIsHeld'
  BY <1>3 DEF IInv, HeadIsHeld
<1> QED
  BY <1>2, <1>4

\* After a clear no pump holds an event of the current epoch.
LEMMA ClearStep ==
  ASSUME IInv, Clear, gen' \in {gen, gen + 1}, UNCHANGED <<closed, pump, next>>
  PROVE  IInv'
<1>1. gen \in Nat /\ gen' \in Nat /\ gen' >= gen /\ epoch \in Nat /\ epoch' = epoch + 1
  BY DEF IInv, CountTypes, Clear
<1>2. BacklogTypes' /\ CountTypes'
  BY <1>1 DEF Clear, IInv, BacklogTypes, CountTypes
<1>3. \A g \in Gens : pump[g].epoch \in Nat
  BY DEF IInv, PumpTypes, PumpState
<1>4. PumpTypes' /\ Unstarted' /\ PastEpoch'
  BY <1>1, <1>3 DEF IInv, PumpTypes, Unstarted, PastEpoch
<1>5. \A g \in Gens : pump'[g].epoch # epoch'
  BY <1>1, <1>3 DEF IInv, PastEpoch
<1>6. HeadIsHeld'
  BY <1>5 DEF HeadIsHeld
<1> QED
  BY <1>2, <1>4, <1>6 DEF IInv

\* A step of pump g that does not touch the backlog and leaves it with nothing
\* in hand, or with the head.
LEMMA MoveStep ==
  ASSUME IInv, NEW g \in Gens, NEW x \in PumpState,
         pump[g].pc # "none", pump' = [pump EXCEPT ![g] = x], x.epoch <= epoch,
         x.pc \in {"send", "took"} /\ gen = g /\ x.epoch = epoch => buf # <<>> /\ Head(buf) = x.ev,
         UNCHANGED <<buf, gen, epoch, closed, next>>
  PROVE  IInv'
<1>1. BacklogTypes' /\ CountTypes'
  BY DEF IInv, BacklogTypes, CountTypes
<1>2. PumpTypes' /\ pump'[g] = x /\ \A h \in Gens \ {g} : pump'[h] = pump[h]
  BY DEF IInv, PumpTypes
<1>3. Unstarted'
  BY <1>2 DEF IInv, Unstarted
<1>4. PastEpoch'
  BY <1>2 DEF IInv, PastEpoch
<1>5. HeadIsHeld'
  BY <1>2 DEF IInv, HeadIsHeld
<1> QED
  BY <1>1, <1>2, <1>3, <1>4, <1>5 DEF IInv

\* A pump that goes back to look, or ends, has nothing in hand.
LEMMA IdleState ==
  ASSUME NEW pc \in {"look", "gone"}
  PROVE  LET x == [Idle EXCEPT !.pc = pc] IN x \in PumpState /\ x.pc = pc /\ x.epoch = 0
  BY DEF Idle, PumpState

LEMMA ToStep ==
  ASSUME IInv, NEW g \in Gens, NEW pc \in {"look", "gone"}, pump[g].pc # "none", To(g, pc),
         UNCHANGED <<buf, gen, epoch, closed, next>>
  PROVE  IInv'
<1> DEFINE x == [Idle EXCEPT !.pc = pc]
<1>1. x \in PumpState /\ x.pc = pc /\ x.epoch = 0
  BY IdleState
<1>2. x.epoch <= epoch
  BY <1>1 DEF IInv, CountTypes
<1>3. pump' = [pump EXCEPT ![g] = x]
  BY DEF To
<1> HIDE DEF x
<1> QED
  BY <1>1, <1>2, <1>3, MoveStep

LEMMA TookStep ==
  ASSUME IInv, NEW g \in Gens, At(g, "send"), Took(g), UNCHANGED <<buf, gen, epoch, closed, next>>
  PROVE  IInv'
<1> DEFINE x == [pump[g] EXCEPT !.pc = "took"]
<1>1. x \in PumpState /\ x.epoch = pump[g].epoch /\ x.ev = pump[g].ev
  BY DEF IInv, PumpTypes, PumpState
<1>2. pump[g].pc = "send"
  BY DEF At
<1>3. x.epoch <= epoch /\ (gen = g /\ x.epoch = epoch => buf # <<>> /\ Head(buf) = x.ev)
  BY <1>1, <1>2 DEF IInv, PastEpoch, HeadIsHeld
<1>4. pump' = [pump EXCEPT ![g] = x]
  BY DEF Took
<1> HIDE DEF x
<1> QED
  BY <1>1, <1>2, <1>3, <1>4, MoveStep

LEMMA LookStep ==
  ASSUME IInv, NEW g \in Gens, Look(g)
  PROVE  IInv'
<1>1. pump[g].pc = "look" /\ UNCHANGED <<buf, gen, epoch, closed, next>>
  BY DEF Look, At
<1>2. CASE To(g, "gone")
  BY <1>1, <1>2, ToStep
<1>3. CASE buf # <<>>
           /\ pump' = [pump EXCEPT ![g] = [pc |-> "send", ev |-> Head(buf), epoch |-> epoch, closing |-> closed]]
  <2> DEFINE x == [pc |-> "send", ev |-> Head(buf), epoch |-> epoch, closing |-> closed]
  <2>1. Head(buf) \in Event
    BY <1>3 DEF IInv, BacklogTypes
  <2>2. epoch \in Nat /\ closed \in BOOLEAN
    BY DEF IInv, CountTypes
  <2>3. x \in PumpState
    BY <2>1, <2>2 DEF PumpState
  <2>4. x.ev = Head(buf) /\ x.epoch <= epoch
    BY <2>2
  <2>5. pump' = [pump EXCEPT ![g] = x]
    BY <1>3
  <2> HIDE DEF x
  <2> QED
    BY <1>1, <1>3, <2>3, <2>4, <2>5, MoveStep
<1> QED
  BY <1>2, <1>3 DEF Look

\* Only the pump of the current generation takes the head off.
LEMMA AdvanceStep ==
  ASSUME IInv, NEW g \in Gens, Advance(g)
  PROVE  IInv'
<1>1. pump[g].pc = "took" /\ UNCHANGED <<gen, epoch, closed, next>>
  BY DEF Advance, At
<1>2. CASE UNCHANGED buf /\ To(g, "gone")
  BY <1>1, <1>2, ToStep
<1>3. CASE UNCHANGED buf /\ To(g, "look")
  BY <1>1, <1>3, ToStep
<1>4. CASE gen = g /\ buf # <<>> /\ buf' = Tail(buf) /\ To(g, "look")
  <2> DEFINE x == [Idle EXCEPT !.pc = "look"]
  <2>1. x \in PumpState /\ x.pc = "look" /\ x.epoch = 0
    BY IdleState
  <2>2. pump' = [pump EXCEPT ![g] = x]
    BY <1>4 DEF To
  <2> HIDE DEF x
  <2>3. BacklogTypes' /\ CountTypes'
    BY <1>1, <1>4 DEF IInv, BacklogTypes, CountTypes
  <2>4. PumpTypes' /\ pump'[g] = x /\ \A h \in Gens \ {g} : pump'[h] = pump[h]
    BY <2>1, <2>2 DEF IInv, PumpTypes
  <2>5. Unstarted'
    BY <1>1, <1>4, <2>4 DEF IInv, Unstarted
  <2>6. PastEpoch'
    BY <1>1, <2>1, <2>4 DEF IInv, CountTypes, PastEpoch
  <2>7. HeadIsHeld'
    BY <1>1, <1>4, <2>1, <2>4 DEF IInv, HeadIsHeld
  <2> QED
    BY <2>3, <2>4, <2>5, <2>6, <2>7 DEF IInv
<1> QED
  BY <1>2, <1>3, <1>4 DEF Advance, Mine, AfterClear

LEMMA PumpStep ==
  ASSUME IInv, NEW g \in Gens, Pump(g)
  PROVE  IInv'
<1>1. CASE Look(g)
  BY <1>1, LookStep
<1>2. CASE Advance(g)
  BY <1>2, AdvanceStep
<1>3. CASE Deliver(g) \/ PassOver(g)
  BY <1>3, TookStep DEF Deliver, PassOver
<1>4. CASE GiveUp(g) \/ Stop(g)
  BY <1>4, ToStep DEF GiveUp, Stop, At
<1>5. CASE Released(g)
  BY <1>5, ToStep DEF Released, At
<1> QED
  BY <1>1, <1>2, <1>3, <1>4, <1>5 DEF Pump

LEMMA SameStep ==
  ASSUME IInv, UNCHANGED <<buf, gen, epoch, pump, next>>, closed' \in BOOLEAN
  PROVE  IInv'
  BY DEF IInv, BacklogTypes, CountTypes, PumpTypes, Unstarted, PastEpoch, HeadIsHeld

LEMMA NextInv ==
  ASSUME IInv, [Next]_vars
  PROVE  IInv'
<1>0. closed \in BOOLEAN
  BY DEF IInv, CountTypes
<1>1. CASE PublishSome
  BY <1>1, PublishStep
<1>2. CASE Subscribe
  BY <1>2, SubscribeStep
<1>3. ASSUME NEW g \in Gens, Unsubscribe(g) PROVE IInv'
  <2>1. gen' \in {gen, gen + 1} /\ UNCHANGED <<buf, epoch, closed, pump, next>>
    BY <1>3 DEF Unsubscribe, Release
  <2>2. Unstarted' /\ HeadIsHeld'
    BY <2>1, ReleaseStep
  <2>3. BacklogTypes' /\ CountTypes' /\ PumpTypes' /\ PastEpoch'
    BY <2>1 DEF IInv, BacklogTypes, CountTypes, PumpTypes, PastEpoch
  <2> QED
    BY <2>2, <2>3 DEF IInv
<1>4. ASSUME NEW g \in Gens, Pump(g) PROVE IInv'
  BY <1>4, PumpStep
<1>5. CASE Reset
  BY <1>5, ClearStep DEF Reset, Release
<1>6. CASE AnswerOverflow
  <2>1. CASE Clear
    BY <1>6, <2>1, ClearStep DEF AnswerOverflow
  <2>2. CASE ~CanResync /\ UNCHANGED <<buf, epoch>>
    BY <1>0, <1>6, <2>2, SameStep DEF AnswerOverflow
  <2> QED
    BY <1>6, <2>1, <2>2 DEF AnswerOverflow, Resync
<1>7. CASE Cooled \/ Close
  BY <1>0, <1>7, SameStep DEF Cooled, Close
<1>8. CASE UNCHANGED vars
  BY <1>0, <1>8, SameStep DEF vars
<1> QED
  BY <1>1, <1>2, <1>3, <1>4, <1>5, <1>6, <1>7, <1>8 DEF Next

-----------------------------------------------------------------------------
\* What the pump that owns the backlog has in hand is a copy of the head
\* (broker.pump, broker.advance).
THEOREM HeadIsHeldHolds == Spec => []HeadIsHeld
<1>1. IInv => HeadIsHeld
  BY DEF IInv
<1> QED
  BY InitInv, NextInv, <1>1, PTL DEF Spec

-----------------------------------------------------------------------------
(* Nothing is stranded                                                     *)

\* What a pump has handed over was received, or passed over by the closing
\* rules.
Handed == \A g \in Gens : pump[g].pc = "took" => ToSet(pump[g].ev.ids) \subseteq got[g] \cup lost

HistoryTypes == DOMAIN got = Gens

KeepInv == IInv /\ HistoryTypes /\ Handed /\ NothingStranded

\* An event's numbers, and a backlog's, one by one.
LEMMA ToSetMember ==
  ASSUME NEW s \in Seq(Nat), NEW n
  PROVE  n \in ToSet(s) <=> \E k \in 1 .. Len(s) : s[k] = n
  BY DEF ToSet

LEMMA ConcatMember ==
  ASSUME NEW s \in Seq(Nat), NEW t \in Seq(Nat), NEW n, n \in ToSet(s) \/ n \in ToSet(t)
  PROVE  n \in ToSet(s \o t)
<1>1. /\ s \o t \in Seq(Nat) /\ Len(s) \in Nat /\ Len(t) \in Nat /\ Len(s \o t) = Len(s) + Len(t)
      /\ \A k \in 1 .. Len(s) : (s \o t)[k] = s[k]
      /\ \A k \in 1 .. Len(t) : (s \o t)[Len(s) + k] = t[k]
  OBVIOUS
<1>2. CASE n \in ToSet(s)
  <2>1. PICK k \in 1 .. Len(s) : s[k] = n
    BY <1>2, ToSetMember
  <2>2. k \in 1 .. Len(s \o t)
    BY <1>1
  <2> QED
    BY <1>1, <2>1, <2>2, ToSetMember
<1>3. CASE n \in ToSet(t)
  <2>1. PICK k \in 1 .. Len(t) : t[k] = n
    BY <1>3, ToSetMember
  <2>2. Len(s) + k \in 1 .. Len(s \o t)
    BY <1>1
  <2> QED
    BY <1>1, <2>1, <2>2, ToSetMember
<1> QED
  BY <1>2, <1>3

LEMMA CarriedMember ==
  ASSUME NEW b \in Seq(Event), NEW n
  PROVE  n \in Carried(b) <=> \E i \in 1 .. Len(b) : n \in ToSet(b[i].ids)
  BY DEF Carried

\* Accepting an event keeps every number of the backlog and adds the event's.
LEMMA AcceptCarries ==
  ASSUME BacklogTypes, BacklogTypes', NEW ev \in Event, Accept(ev), NEW n,
         n \in Carried(buf) \/ n \in ToSet(ev.ids)
  PROVE  n \in Carried(buf')
<1>0. buf \in Seq(Event) /\ buf' \in Seq(Event) /\ Len(buf) \in Nat /\ ev.ids \in Seq(Nat)
  BY DEF BacklogTypes, Event
<1>1. CASE Mergeable(ev)
  <2> DEFINE tail == buf[Len(buf)]
  <2>1. Len(buf) \in 1 .. Len(buf) /\ Len(buf) >= 2 /\ tail \in Event
    BY <1>0, <1>1 DEF Mergeable
  <2>2. buf' = [buf EXCEPT ![Len(buf)] = Merged(tail, ev)]
    BY <1>1 DEF Accept
  <2>3. tail.ids \in Seq(Nat) /\ Merged(tail, ev).ids = tail.ids \o ev.ids
    BY <2>1 DEF Merged, Event
  <2>4. ASSUME n \in ToSet(tail.ids) \/ n \in ToSet(ev.ids) PROVE n \in ToSet(Merged(tail, ev).ids)
    BY <1>0, <2>3, <2>4, ConcatMember
  <2>5. Len(buf') = Len(buf) /\ buf'[Len(buf)] = Merged(tail, ev)
        /\ \A i \in 1 .. Len(buf) : i # Len(buf) => buf'[i] = buf[i]
    BY <1>0, <2>1, <2>2
  <2> HIDE DEF tail
  <2>6. CASE n \in ToSet(ev.ids) \/ n \in ToSet(tail.ids)
    BY <1>0, <2>1, <2>4, <2>5, <2>6, CarriedMember
  <2>7. CASE n \in Carried(buf) /\ n \notin ToSet(tail.ids)
    <3>1. PICK i \in 1 .. Len(buf) : n \in ToSet(buf[i].ids)
      BY <1>0, <2>7, CarriedMember
    <3>2. i # Len(buf)
      BY <2>7, <3>1 DEF tail
    <3> QED
      BY <1>0, <2>5, <3>1, <3>2, CarriedMember
  <2> QED
    BY <2>6, <2>7
<1>2. CASE ~Mergeable(ev)
  <2>1. buf' = Append(buf, ev)
    BY <1>2 DEF Accept
  <2>2. Len(buf') = Len(buf) + 1 /\ buf'[Len(buf) + 1] = ev /\ \A i \in 1 .. Len(buf) : buf'[i] = buf[i]
    BY <1>0, <2>1
  <2>3. CASE n \in ToSet(ev.ids)
    BY <1>0, <2>2, <2>3, CarriedMember
  <2>4. CASE n \in Carried(buf)
    <3>1. PICK i \in 1 .. Len(buf) : n \in ToSet(buf[i].ids)
      BY <1>0, <2>4, CarriedMember
    <3> QED
      BY <1>0, <2>2, <3>1, CarriedMember
  <2> QED
    BY <2>3, <2>4
<1> QED
  BY <1>1, <1>2

\* Removing the head takes only the head's numbers away.
LEMMA TailCarries ==
  ASSUME BacklogTypes, buf # <<>>, NEW n, n \in Carried(buf), n \notin ToSet(Head(buf).ids)
  PROVE  n \in Carried(Tail(buf))
<1>0. buf \in Seq(Event) /\ Tail(buf) \in Seq(Event) /\ Len(buf) \in Nat
  BY DEF BacklogTypes
<1>1. PICK i \in 1 .. Len(buf) : n \in ToSet(buf[i].ids)
  BY <1>0, CarriedMember
<1>2. i # 1
  BY <1>0, <1>1
<1>3. i - 1 \in 1 .. Len(Tail(buf)) /\ Tail(buf)[i - 1] = buf[i]
  BY <1>0, <1>1, <1>2
<1> QED
  BY <1>0, <1>1, <1>3, CarriedMember

\* Where a published number may be.
Placed(n) == n \in lost \cup Carried(buf) \/ \E g \in Gens : n \in got[g]

LEMMA StrandedDef == NothingStranded <=> \A n \in 1 .. next - 1 : Placed(n)
  BY DEF NothingStranded, Placed

LEMMA PublishKeeps ==
  ASSUME KeepInv, PublishSome
  PROVE  HistoryTypes' /\ Handed' /\ NothingStranded'
<1>1. PICK ev \in Event : Publish(ev) /\ ev.ids = <<next>>
  <2>1. \A p \in Panes : OutputOf(p).ids = <<next>>
    BY DEF OutputOf
  <2>2. \A k \in {"window", "lifecycle"} : Notice(k).ids = <<next>>
    BY DEF Notice
  <2> QED
    BY <2>1, <2>2, PublishedType DEF PublishSome, KeepInv, IInv
<1>2. next \in Nat /\ next' = next + 1 /\ UNCHANGED <<got, pump>>
  BY <1>1 DEF Publish, KeepInv, IInv, CountTypes
<1>3. ToSet(ev.ids) = {next}
  BY <1>1, <1>2 DEF ToSet
<1>4. BacklogTypes /\ BacklogTypes' /\ lost \subseteq lost'
  <2>1. IInv'
    BY PublishStep DEF KeepInv
  <2> QED
    BY <1>1, <2>1 DEF Publish, Refuse, Accept, KeepInv, IInv
<1>5. ASSUME NEW n, Placed(n) \/ n = next PROVE Placed(n)'
  <2>1. CASE Refuse(ev)
    BY <1>2, <1>3, <1>5, <2>1 DEF Refuse, Placed
  <2>2. CASE Accept(ev)
    <3>1. CASE n \in Carried(buf) \/ n = next
      BY <1>3, <1>4, <2>2, <3>1, AcceptCarries DEF Placed
    <3>2. CASE n \in lost \/ \E g \in Gens : n \in got[g]
      BY <1>2, <1>4, <3>2 DEF Placed
    <3> QED
      BY <1>5, <3>1, <3>2 DEF Placed
  <2> QED
    BY <1>1, <2>1, <2>2 DEF Publish
<1>6. \A n \in 1 .. next' - 1 : n \in 1 .. next - 1 \/ n = next
  BY <1>2
<1>7. \A n \in 1 .. next' - 1 : Placed(n)'
  BY <1>5, <1>6, StrandedDef DEF KeepInv
<1> QED
  BY <1>2, <1>4, <1>7 DEF KeepInv, HistoryTypes, Handed, NothingStranded, Placed

\* Every number stays placed when what leaves the backlog is lost or taken.
LEMMA PlacedKeeps ==
  ASSUME KeepInv, next' = next,
         \A n : Placed(n) => Placed(n)'
  PROVE  NothingStranded'
<1>1. \A n \in 1 .. next - 1 : Placed(n)'
  BY StrandedDef DEF KeepInv
<1> QED
  BY <1>1 DEF NothingStranded, Placed

LEMMA ClearKeeps ==
  ASSUME KeepInv, Clear, UNCHANGED <<pump, got, next>>
  PROVE  HistoryTypes' /\ Handed' /\ NothingStranded'
<1>1. \A n : Placed(n) => Placed(n)'
  BY DEF Clear, Placed
<1> QED
  BY <1>1, PlacedKeeps DEF KeepInv, Clear, HistoryTypes, Handed

\* A step that moves no number.
LEMMA StillKeeps ==
  ASSUME KeepInv, UNCHANGED <<buf, got, lost, next>>,
         \A g \in Gens : pump'[g].pc = "took" => pump'[g] = pump[g]
  PROVE  HistoryTypes' /\ Handed' /\ NothingStranded'
<1>1. \A n : Placed(n) => Placed(n)'
  BY DEF Placed
<1> QED
  BY <1>1, PlacedKeeps DEF KeepInv, HistoryTypes, Handed

LEMMA ToKeeps ==
  ASSUME KeepInv, NEW g \in Gens, NEW pc \in {"look", "gone"}, To(g, pc)
  PROVE  \A h \in Gens : pump'[h].pc = "took" => pump'[h] = pump[h]
<1> DEFINE x == [Idle EXCEPT !.pc = pc]
<1>1. x.pc # "took"
  BY IdleState
<1>2. pump' = [pump EXCEPT ![g] = x]
  BY DEF To
<1> HIDE DEF x
<1> QED
  BY <1>1, <1>2 DEF KeepInv, IInv, PumpTypes

\* The subscriber has the event, or the closing rules passed it over.
LEMMA TookKeeps ==
  ASSUME KeepInv, NEW g \in Gens, At(g, "send"), Deliver(g) \/ PassOver(g)
  PROVE  HistoryTypes' /\ Handed' /\ NothingStranded'
<1>1. UNCHANGED <<buf, next>> /\ Took(g)
  BY DEF Deliver, PassOver
<1>2. /\ HistoryTypes'
      /\ \A h \in Gens : got[h] \subseteq got'[h]
      /\ lost \subseteq lost'
      /\ ToSet(pump[g].ev.ids) \subseteq got'[g] \cup lost'
  <2>1. CASE Deliver(g)
    BY <2>1 DEF Deliver, KeepInv, HistoryTypes
  <2>2. CASE PassOver(g)
    BY <2>2 DEF PassOver, KeepInv, HistoryTypes
  <2> QED
    BY <2>1, <2>2
<1>3. /\ pump'[g].ev = pump[g].ev
      /\ \A h \in Gens \ {g} : pump'[h] = pump[h]
  BY <1>1 DEF Took, KeepInv, IInv, PumpTypes, PumpState
<1>4. HistoryTypes' /\ Handed'
  BY <1>2, <1>3 DEF KeepInv, HistoryTypes, Handed
<1>5. \A n : Placed(n) => Placed(n)'
  BY <1>1, <1>2 DEF Placed
<1> QED
  BY <1>1, <1>4, <1>5, PlacedKeeps

\* The head that leaves the backlog is what the pump has handed over.
LEMMA AdvanceKeeps ==
  ASSUME KeepInv, NEW g \in Gens, Advance(g)
  PROVE  HistoryTypes' /\ Handed' /\ NothingStranded'
<1>1. pump[g].pc = "took" /\ UNCHANGED <<got, lost, next>>
  BY DEF Advance, At
<1>2. \A h \in Gens : pump'[h].pc = "took" => pump'[h] = pump[h]
  BY ToKeeps DEF Advance, AfterClear
<1>3. CASE UNCHANGED buf
  BY <1>1, <1>2, <1>3, StillKeeps
<1>4. CASE gen = g /\ pump[g].epoch = epoch /\ buf # <<>> /\ buf' = Tail(buf)
  <2>1. Head(buf) = pump[g].ev
    BY <1>1, <1>4 DEF KeepInv, IInv, HeadIsHeld
  <2>2. ToSet(Head(buf).ids) \subseteq got[g] \cup lost
    BY <1>1, <2>1 DEF KeepInv, Handed
  <2>3. ASSUME NEW n, n \in Carried(buf) PROVE n \in Carried(buf') \/ n \in got[g] \cup lost
    BY <1>4, <2>2, <2>3, TailCarries DEF KeepInv, IInv
  <2>4. \A n : Placed(n) => Placed(n)'
    BY <1>1, <2>3 DEF Placed
  <2> QED
    BY <1>1, <1>2, <2>4, PlacedKeeps DEF KeepInv, HistoryTypes, Handed
<1> QED
  BY <1>3, <1>4 DEF Advance, Mine

LEMMA PumpKeeps ==
  ASSUME KeepInv, NEW g \in Gens, Pump(g)
  PROVE  HistoryTypes' /\ Handed' /\ NothingStranded'
<1>1. CASE Look(g)
  <2>1. CASE To(g, "gone")
    BY <1>1, <2>1, ToKeeps, StillKeeps DEF Look
  <2>2. CASE pump' = [pump EXCEPT ![g] = [pc |-> "send", ev |-> Head(buf), epoch |-> epoch, closing |-> closed]]
    <3>1. \A h \in Gens : pump'[h].pc = "took" => pump'[h] = pump[h]
      BY <2>2 DEF KeepInv, IInv, PumpTypes
    <3> QED
      BY <1>1, <3>1, StillKeeps DEF Look
  <2> QED
    BY <1>1, <2>1, <2>2 DEF Look
<1>2. CASE Deliver(g) \/ PassOver(g)
  BY <1>2, TookKeeps DEF Deliver, PassOver
<1>3. CASE GiveUp(g) \/ Stop(g)
  BY <1>3, ToKeeps, StillKeeps DEF GiveUp, Stop
<1>4. CASE Released(g)
  BY <1>4, ToKeeps, StillKeeps DEF Released
<1>5. CASE Advance(g)
  BY <1>5, AdvanceKeeps
<1> QED
  BY <1>1, <1>2, <1>3, <1>4, <1>5 DEF Pump

LEMMA NextKeeps ==
  ASSUME KeepInv, [Next]_vars
  PROVE  KeepInv'
<1>1. IInv'
  BY NextInv DEF KeepInv
<1> SUFFICES HistoryTypes' /\ Handed' /\ NothingStranded'
  BY <1>1 DEF KeepInv
<1>2. CASE PublishSome
  BY <1>2, PublishKeeps
<1>3. CASE Subscribe
  <2>1. \A g \in Gens : pump'[g].pc = "took" => pump'[g] = pump[g]
    BY <1>3 DEF Subscribe, KeepInv, IInv, PumpTypes, PumpState
  <2> QED
    BY <1>3, <2>1, StillKeeps DEF Subscribe
<1>4. ASSUME NEW g \in Gens, Pump(g) PROVE HistoryTypes' /\ Handed' /\ NothingStranded'
  BY <1>4, PumpKeeps
<1>5. CASE Reset
  BY <1>5, ClearKeeps DEF Reset
<1>6. CASE AnswerOverflow
  <2>1. CASE Clear
    BY <1>6, <2>1, ClearKeeps DEF AnswerOverflow
  <2>2. CASE UNCHANGED <<buf, lost>>
    BY <1>6, <2>2, StillKeeps DEF AnswerOverflow
  <2> QED
    BY <1>6, <2>1, <2>2 DEF AnswerOverflow, Resync
<1>7. CASE \/ \E g \in Gens : Unsubscribe(g)
           \/ Cooled \/ Close \/ UNCHANGED vars
  BY <1>7, StillKeeps DEF Unsubscribe, Cooled, Close, vars
<1> QED
  BY <1>2, <1>3, <1>4, <1>5, <1>6, <1>7 DEF Next

LEMMA InitKeeps == Init => KeepInv
<1> SUFFICES ASSUME Init PROVE KeepInv
  OBVIOUS
<1>1. IInv
  BY InitInv
<1>2. HistoryTypes /\ NothingStranded
  BY DEF Init, HistoryTypes, NothingStranded
<1>3. \A g \in Gens : pump[g].pc = "none"
  BY DEF Init, Idle
<1> QED
  BY <1>1, <1>2, <1>3 DEF KeepInv, Handed

\* Every event published was received, waits in the backlog, or was dropped by
\* a bound, a clear or the closing rules (broker.publish, broker.subscribe,
\* broker.advance): nothing strands one between two subscribers.
THEOREM NothingStrandedHolds == Spec => []NothingStranded
<1>1. KeepInv => NothingStranded
  BY DEF KeepInv
<1> QED
  BY InitKeeps, NextKeeps, <1>1, PTL DEF Spec

-----------------------------------------------------------------------------
(* The order of what is taken                                              *)

\* Of two numbers of the backlog the one further back is the greater.
InOrder ==
    \A i, k \in 1 .. Len(buf) : \A j \in 1 .. Len(buf[i].ids), l \in 1 .. Len(buf[k].ids) :
        i < k \/ (i = k /\ j < l) => buf[i].ids[j] < buf[k].ids[l]

\* No number is out before it was published.
BufNumbers == \A i \in 1 .. Len(buf) : \A j \in 1 .. Len(buf[i].ids) : buf[i].ids[j] \in 1 .. next - 1
GotNumbers == got \in [Gens -> SUBSET (1 .. next - 1)]
LostNumbers == next \in Nat \ {0} /\ lost \subseteq 1 .. next - 1

Holding(g) == pump[g].pc \in {"send", "took"}

\* A pump holds an event with numbers in order, and before it is delivered
\* none of them has been taken.
HeldNumbers ==
    \A g \in Gens : Holding(g) =>
        pump[g].ev \in Event /\ \A j \in 1 .. Len(pump[g].ev.ids) : pump[g].ev.ids[j] \in 1 .. next - 1
HeldInOrder ==
    \A g \in Gens : Holding(g) => \A j, l \in 1 .. Len(pump[g].ev.ids) : j < l => pump[g].ev.ids[j] < pump[g].ev.ids[l]
HeldIsNew ==
    \A g \in Gens : pump[g].pc = "send" => \A j \in 1 .. Len(pump[g].ev.ids), m \in got[g] : m < pump[g].ev.ids[j]

\* The events of the backlog from place k on come after the numbers of s.
After(s, k) == \A i \in k .. Len(buf) : \A j \in 1 .. Len(buf[i].ids), m \in s : m < buf[i].ids[j]

\* What the subscriber has taken comes before what is still to be taken: the
\* backlog, without the head while its pump holds the head.
NoneBegun   == \A g \in Gens : g > gen => got[g] = {}
LookAhead   == \A g \in Gens : gen = g /\ pump[g].pc = "look" => After(got[g], 1)
HeldAhead   == \A g \in Gens : gen = g /\ Holding(g) /\ pump[g].epoch = epoch => After(got[g], 2)
ClearedAhead ==
    \A g \in Gens : gen = g /\ Holding(g) /\ pump[g].epoch # epoch =>
        After(got[g], 1) /\ After(ToSet(pump[g].ev.ids), 1)

NumberInv == InOrder /\ BufNumbers /\ GotNumbers /\ LostNumbers /\ HeldNumbers
OrderInv  == HeldInOrder /\ HeldIsNew /\ NoneBegun /\ LookAhead /\ HeldAhead /\ ClearedAhead

Orders == NumberInv /\ OrderInv

\* What Accept makes of the backlog: every number is where it was, and the new
\* one is the last of the last event.
LEMMA AcceptShape ==
  ASSUME BacklogTypes, CountTypes, NEW ev \in Event, ev.ids = <<next>>, Accept(ev)
  PROVE  /\ buf' \in Seq(Event)
         /\ Len(buf') \in {Len(buf), Len(buf) + 1}
         /\ \A i \in 1 .. Len(buf') : \A j \in 1 .. Len(buf'[i].ids) :
              \/ i \in 1 .. Len(buf) /\ j \in 1 .. Len(buf[i].ids) /\ buf'[i].ids[j] = buf[i].ids[j]
              \/ i = Len(buf') /\ j = Len(buf'[i].ids) /\ buf'[i].ids[j] = next
<1>0. buf \in Seq(Event) /\ Len(buf) \in Nat /\ next \in Nat
  BY DEF BacklogTypes, CountTypes
<1>1. CASE Mergeable(ev)
  <2> DEFINE tail == buf[Len(buf)]
  <2>1. Len(buf) \in 1 .. Len(buf) /\ tail \in Event
    BY <1>0, <1>1 DEF Mergeable
  <2>2. buf' = [buf EXCEPT ![Len(buf)] = Merged(tail, ev)]
    BY <1>1 DEF Accept
  <2>3. tail.ids \in Seq(Nat) /\ Merged(tail, ev) \in Event /\ Merged(tail, ev).ids = tail.ids \o <<next>>
    BY <2>1, MergedType DEF Merged, Event
  <2> DEFINE more == tail.ids \o <<next>>
  <2>4. /\ Len(more) = Len(tail.ids) + 1 /\ Len(tail.ids) \in Nat
        /\ \A j \in 1 .. Len(tail.ids) : more[j] = tail.ids[j]
        /\ more[Len(tail.ids) + 1] = next
    BY <1>0, <2>3
  <2>5. /\ buf' \in Seq(Event) /\ Len(buf') = Len(buf) /\ buf'[Len(buf)].ids = more
        /\ \A i \in 1 .. Len(buf) : i # Len(buf) => buf'[i] = buf[i]
    BY <1>0, <2>1, <2>2, <2>3
  <2>6. ASSUME NEW i \in 1 .. Len(buf'), NEW j \in 1 .. Len(buf'[i].ids)
        PROVE  \/ i \in 1 .. Len(buf) /\ j \in 1 .. Len(buf[i].ids) /\ buf'[i].ids[j] = buf[i].ids[j]
               \/ i = Len(buf') /\ j = Len(buf'[i].ids) /\ buf'[i].ids[j] = next
    <3>1. CASE i # Len(buf)
      BY <2>5, <3>1
    <3>2. CASE i = Len(buf)
      <4> HIDE DEF more
      <4>1. j \in 1 .. Len(more) /\ buf'[i].ids = more
        BY <2>5, <3>2
      <4>2. CASE j = Len(more)
        BY <2>4, <2>5, <3>2, <4>1, <4>2
      <4>3. CASE j # Len(more)
        <5>1. j \in 1 .. Len(tail.ids)
          BY <2>4, <4>1, <4>3
        <5> QED
          BY <1>0, <2>1, <2>4, <3>2, <4>1, <5>1
      <4> QED
        BY <4>2, <4>3
    <3> QED
      BY <3>1, <3>2
  <2> QED
    BY <2>5, <2>6
<1>2. CASE ~Mergeable(ev)
  <2>1. buf' = Append(buf, ev)
    BY <1>2 DEF Accept
  <2>2. /\ buf' \in Seq(Event) /\ Len(buf') = Len(buf) + 1 /\ buf'[Len(buf) + 1] = ev
        /\ \A i \in 1 .. Len(buf) : buf'[i] = buf[i]
    BY <1>0, <2>1
  <2>3. Len(ev.ids) = 1 /\ ev.ids[1] = next
    BY <1>0
  <2>4. ASSUME NEW i \in 1 .. Len(buf'), NEW j \in 1 .. Len(buf'[i].ids)
        PROVE  \/ i \in 1 .. Len(buf) /\ j \in 1 .. Len(buf[i].ids) /\ buf'[i].ids[j] = buf[i].ids[j]
               \/ i = Len(buf') /\ j = Len(buf'[i].ids) /\ buf'[i].ids[j] = next
    <3>1. CASE i \in 1 .. Len(buf)
      BY <2>2, <3>1
    <3>2. CASE i = Len(buf) + 1
      <4>1. buf'[i].ids = ev.ids /\ i = Len(buf')
        BY <2>2, <3>2
      <4>2. j = 1
        BY <2>3, <4>1
      <4> QED
        BY <2>3, <4>1, <4>2
    <3> QED
      BY <1>0, <2>2, <3>1, <3>2
  <2> QED
    BY <2>2, <2>4
<1> QED
  BY <1>1, <1>2

\* The numbers of a sequence, as a set and one by one.
LEMMA ToSetIn ==
  ASSUME NEW s \in Seq(Nat), NEW S
  PROVE  ToSet(s) \subseteq S <=> \A j \in 1 .. Len(s) : s[j] \in S
  BY ToSetMember

\* Events that come after s stay behind it when a number greater than all of s
\* is published.
LEMMA AfterGrows ==
  ASSUME BacklogTypes, CountTypes, NEW ev \in Event, ev.ids = <<next>>, Accept(ev),
         NEW s, s \subseteq 1 .. next - 1, NEW k \in {1, 2}, After(s, k)
  PROVE  After(s, k)'
<1> SUFFICES ASSUME NEW i \in k .. Len(buf'), NEW j \in 1 .. Len(buf'[i].ids), NEW m \in s
             PROVE  m < buf'[i].ids[j]
  BY DEF After
<1>0. next \in Nat /\ i \in 1 .. Len(buf')
  BY DEF CountTypes
<1>1. CASE i \in 1 .. Len(buf) /\ j \in 1 .. Len(buf[i].ids) /\ buf'[i].ids[j] = buf[i].ids[j]
  <2>1. i \in k .. Len(buf)
    BY <1>1
  <2> QED
    BY <1>1, <2>1 DEF After
<1>2. CASE buf'[i].ids[j] = next
  <2>1. m \in 1 .. next - 1
    OBVIOUS
  <2> QED
    BY <1>0, <1>2, <2>1
<1> QED
  BY <1>0, <1>1, <1>2, AcceptShape

\* The greatest number goes last.
LEMMA AcceptInOrder ==
  ASSUME BacklogTypes, CountTypes, NEW ev \in Event, ev.ids = <<next>>, Accept(ev), InOrder, BufNumbers
  PROVE  InOrder' /\ \A i \in 1 .. Len(buf') : \A j \in 1 .. Len(buf'[i].ids) : buf'[i].ids[j] \in (1 .. next - 1) \cup {next}
<1> DEFINE Old(i, j) == i \in 1 .. Len(buf) /\ j \in 1 .. Len(buf[i].ids) /\ buf'[i].ids[j] = buf[i].ids[j]
           New(i, j) == i = Len(buf') /\ j = Len(buf'[i].ids) /\ buf'[i].ids[j] = next
<1>1. \A i \in 1 .. Len(buf') : \A j \in 1 .. Len(buf'[i].ids) : Old(i, j) \/ New(i, j)
  BY AcceptShape
<1>2. buf' \in Seq(Event) /\ next \in Nat /\ Len(buf') \in Nat
  BY AcceptShape DEF CountTypes
<1>3. \A i \in 1 .. Len(buf') : Len(buf'[i].ids) \in Nat
  BY <1>2 DEF Event
<1>4. \A i, j : Old(i, j) => buf'[i].ids[j] \in 1 .. next - 1
  BY DEF BufNumbers
<1>5. ASSUME NEW i \in 1 .. Len(buf'), NEW k \in 1 .. Len(buf'),
             NEW j \in 1 .. Len(buf'[i].ids), NEW l \in 1 .. Len(buf'[k].ids),
             i < k \/ (i = k /\ j < l)
      PROVE  buf'[i].ids[j] < buf'[k].ids[l]
  <2>1. CASE Old(i, j) /\ Old(k, l)
    BY <1>5, <2>1 DEF InOrder
  <2>2. CASE Old(i, j) /\ New(k, l)
    BY SMTT(20), <1>2, <1>4, <2>2
  <2>3. ~New(i, j)
    BY <1>2, <1>3, <1>5
  <2> QED
    BY <1>1, <2>1, <2>2, <2>3
<1>6. \A i \in 1 .. Len(buf') : \A j \in 1 .. Len(buf'[i].ids) : buf'[i].ids[j] \in (1 .. next - 1) \cup {next}
  BY <1>1, <1>4
<1> HIDE DEF Old, New
<1> QED
  BY <1>5, <1>6 DEF InOrder

\* Publishing numbers past every other keeps the order.
LEMMA PublishOrders ==
  ASSUME KeepInv, Orders, PublishSome
  PROVE  Orders'
<1>1. PICK ev \in Event : Publish(ev) /\ ev.ids = <<next>>
  <2>1. \A p \in Panes : OutputOf(p).ids = <<next>>
    BY DEF OutputOf
  <2>2. \A k \in {"window", "lifecycle"} : Notice(k).ids = <<next>>
    BY DEF Notice
  <2> QED
    BY <2>1, <2>2, PublishedType DEF PublishSome, KeepInv, IInv
<1>2. next \in Nat \ {0} /\ next' = next + 1 /\ UNCHANGED <<got, pump, gen, epoch>>
  BY <1>1 DEF Publish, Orders, NumberInv, LostNumbers
<1>3. /\ ToSet(ev.ids) = {next}
      /\ 1 .. next' - 1 = (1 .. next - 1) \cup {next}
  BY <1>1, <1>2 DEF ToSet
<1>4. BacklogTypes /\ CountTypes
  BY DEF KeepInv, IInv
<1>5. GotNumbers' /\ HeldNumbers' /\ LostNumbers'
  <2>1. GotNumbers'
    BY <1>2, <1>3 DEF Orders, NumberInv, GotNumbers
  <2>2. HeldNumbers'
    BY <1>2, <1>3 DEF Orders, NumberInv, HeldNumbers, Holding
  <2>3. lost' \subseteq lost \cup {next}
    BY <1>1, <1>3 DEF Publish, Refuse, Accept
  <2> QED
    BY <1>2, <1>3, <2>1, <2>2, <2>3 DEF Orders, NumberInv, LostNumbers
<1>6. HeldInOrder' /\ HeldIsNew' /\ NoneBegun'
  BY <1>2 DEF Orders, OrderInv, HeldInOrder, HeldIsNew, NoneBegun, Holding
<1>7. /\ InOrder' /\ BufNumbers'
      /\ \A s, k : s \subseteq 1 .. next - 1 /\ k \in {1, 2} /\ After(s, k) => After(s, k)'
  <2>1. CASE Refuse(ev)
    <3>1. buf' = buf
      BY <2>1 DEF Refuse
    <3> QED
      BY SMTT(20), <1>3, <3>1 DEF Orders, NumberInv, InOrder, BufNumbers, After
  <2>2. CASE Accept(ev)
    <3>1. InOrder' /\ BufNumbers'
      BY <1>1, <1>3, <1>4, <2>2, AcceptInOrder DEF Orders, NumberInv, BufNumbers
    <3>2. ASSUME NEW s, NEW k \in {1, 2}, s \subseteq 1 .. next - 1, After(s, k) PROVE After(s, k)'
      BY <1>1, <1>4, <2>2, <3>2, AfterGrows
    <3> QED
      BY <3>1, <3>2
  <2> QED
    BY <1>1, <2>1, <2>2 DEF Publish
<1>8. \A g \in Gens : got[g] \subseteq 1 .. next - 1
  BY DEF Orders, NumberInv, GotNumbers
<1>9. \A g \in Gens : Holding(g) => ToSet(pump[g].ev.ids) \subseteq 1 .. next - 1
  <2> SUFFICES ASSUME NEW g \in Gens, Holding(g) PROVE ToSet(pump[g].ev.ids) \subseteq 1 .. next - 1
    OBVIOUS
  <2>1. pump[g].ev.ids \in Seq(Nat)
    BY DEF Orders, NumberInv, HeldNumbers, Event
  <2> QED
    BY <2>1, ToSetIn DEF Orders, NumberInv, HeldNumbers
<1>10. LookAhead' /\ HeldAhead' /\ ClearedAhead'
  <2>1. LookAhead'
    BY <1>2, <1>7, <1>8 DEF Orders, OrderInv, LookAhead
  <2>2. HeldAhead'
    BY <1>2, <1>7, <1>8 DEF Orders, OrderInv, HeldAhead, Holding
  <2>3. ClearedAhead'
    BY <1>2, <1>7, <1>8, <1>9 DEF Orders, OrderInv, ClearedAhead, Holding
  <2> QED
    BY <2>1, <2>2, <2>3
<1> QED
  BY <1>5, <1>6, <1>7, <1>10 DEF Orders, NumberInv, OrderInv

\* A new subscriber has taken nothing, and its pump holds nothing.
LEMMA SubscribeOrders ==
  ASSUME KeepInv, Orders, Subscribe
  PROVE  Orders'
<1>1. /\ gen + 1 \in Gens /\ gen \in Nat /\ gen' = gen + 1
      /\ UNCHANGED <<buf, epoch, got, lost, next>>
  BY DEF Subscribe, KeepInv, IInv, CountTypes
<1>2. /\ pump'[gen + 1].pc = "look"
      /\ \A g \in Gens \ {gen + 1} : pump'[g] = pump[g]
  BY <1>1 DEF Subscribe, KeepInv, IInv, PumpTypes, PumpState
<1>3. NumberInv'
  BY SMTT(20), <1>1, <1>2 DEF Orders, NumberInv, InOrder, BufNumbers, GotNumbers, LostNumbers, HeldNumbers, Holding
<1>4. HeldInOrder' /\ HeldIsNew'
  BY <1>1, <1>2 DEF Orders, OrderInv, HeldInOrder, HeldIsNew, Holding
<1>5. NoneBegun' /\ got'[gen + 1] = {}
  BY <1>1 DEF Orders, OrderInv, NoneBegun
<1>6. LookAhead' /\ HeldAhead' /\ ClearedAhead'
  BY <1>1, <1>2, <1>5 DEF LookAhead, HeldAhead, ClearedAhead, Holding, After
<1> QED
  BY <1>3, <1>4, <1>5, <1>6 DEF Orders, OrderInv

\* The next generation begins without a pump, or none begins.
LEMMA ReleaseOrders ==
  ASSUME KeepInv, Orders, gen' \in {gen, gen + 1}, UNCHANGED <<buf, epoch, pump, got, lost, next>>
  PROVE  Orders'
<1>1. gen \in Nat /\ \A g \in Gens : g > gen => pump[g].pc = "none"
  BY DEF KeepInv, IInv, CountTypes, Unstarted
<1>2. NumberInv'
  BY DEF Orders, NumberInv, InOrder, BufNumbers, GotNumbers, LostNumbers, HeldNumbers, Holding
<1>3. HeldInOrder' /\ HeldIsNew' /\ NoneBegun'
  BY <1>1 DEF Orders, OrderInv, HeldInOrder, HeldIsNew, NoneBegun, Holding
<1>4. LookAhead' /\ HeldAhead' /\ ClearedAhead'
  <2>1. CASE gen' = gen
    BY <2>1 DEF Orders, OrderInv, LookAhead, HeldAhead, ClearedAhead, Holding, After
  <2>2. CASE gen' = gen + 1
    BY <1>1, <2>2 DEF LookAhead, HeldAhead, ClearedAhead, Holding
  <2> QED
    BY <2>1, <2>2
<1> QED
  BY <1>2, <1>3, <1>4 DEF Orders, OrderInv

\* A cleared backlog is behind nobody.
LEMMA ClearOrders ==
  ASSUME KeepInv, Orders, Clear, gen' \in {gen, gen + 1}, UNCHANGED <<pump, got, next>>
  PROVE  Orders'
<1>1. buf' = <<>> /\ lost' = lost \cup Carried(buf) /\ gen \in Nat
  BY DEF Clear, KeepInv, IInv, CountTypes
<1>2. Carried(buf) \subseteq 1 .. next - 1
  <2> SUFFICES ASSUME NEW n \in Carried(buf) PROVE n \in 1 .. next - 1
    OBVIOUS
  <2>1. buf \in Seq(Event)
    BY DEF KeepInv, IInv, BacklogTypes
  <2>2. PICK i \in 1 .. Len(buf) : n \in ToSet(buf[i].ids)
    BY <2>1, CarriedMember
  <2>3. buf[i].ids \in Seq(Nat)
    <3>1. buf[i] \in Event
      BY <2>1
    <3> QED
      BY <3>1 DEF Event
  <2>4. PICK j \in 1 .. Len(buf[i].ids) : buf[i].ids[j] = n
    BY <2>2, <2>3, ToSetMember
  <2> QED
    BY <2>4 DEF Orders, NumberInv, BufNumbers
<1>3. NumberInv'
  <2>1. Len(buf') = 0
    BY <1>1
  <2>2. InOrder' /\ BufNumbers'
    BY <2>1 DEF InOrder, BufNumbers
  <2>3. GotNumbers' /\ LostNumbers' /\ HeldNumbers'
    BY <1>1, <1>2 DEF Orders, NumberInv, GotNumbers, LostNumbers, HeldNumbers, Holding
  <2> QED
    BY <2>2, <2>3 DEF NumberInv
<1>4. HeldInOrder' /\ HeldIsNew' /\ NoneBegun'
  BY <1>1 DEF Orders, OrderInv, HeldInOrder, HeldIsNew, NoneBegun, Holding
<1>5. LookAhead' /\ HeldAhead' /\ ClearedAhead'
  BY <1>1 DEF LookAhead, HeldAhead, ClearedAhead, After
<1> QED
  BY <1>3, <1>4, <1>5 DEF Orders, OrderInv

\* A pump that goes back to look is past nothing that waits.
LEMMA ToOrders ==
  ASSUME KeepInv, Orders, NEW g \in Gens, NEW pc \in {"look", "gone"}, To(g, pc),
         pc = "look" /\ gen = g => After(got[g], 1),
         UNCHANGED <<buf, gen, epoch, got, lost, next>>
  PROVE  Orders'
<1> DEFINE x == [Idle EXCEPT !.pc = pc]
<1>1. pump' = [pump EXCEPT ![g] = x] /\ x.pc = pc
  BY IdleState DEF To
<1> HIDE DEF x
<1>2. pump'[g].pc = pc /\ \A h \in Gens \ {g} : pump'[h] = pump[h]
  BY <1>1 DEF KeepInv, IInv, PumpTypes
<1>0. \A h \in Gens : Holding(h)' => h # g /\ Holding(h) /\ pump'[h] = pump[h]
  BY <1>2 DEF Holding
<1>3. NumberInv'
  <2>1. InOrder' /\ BufNumbers'
    BY DEF Orders, NumberInv, InOrder, BufNumbers
  <2>2. GotNumbers' /\ LostNumbers'
    BY DEF Orders, NumberInv, GotNumbers, LostNumbers
  <2>3. HeldNumbers'
    BY <1>0 DEF Orders, NumberInv, HeldNumbers
  <2> QED
    BY <2>1, <2>2, <2>3 DEF NumberInv
<1>4. HeldInOrder' /\ HeldIsNew' /\ NoneBegun'
  <2>2. HeldInOrder'
    BY <1>0 DEF Orders, OrderInv, HeldInOrder
  <2>3. HeldIsNew'
    BY <1>2 DEF Orders, OrderInv, HeldIsNew
  <2> QED
    BY <2>2, <2>3 DEF Orders, OrderInv, NoneBegun
<1>5. \A s, k : After(s, k)' <=> After(s, k)
  BY DEF After
<1>6. LookAhead' /\ HeldAhead' /\ ClearedAhead'
  BY <1>2, <1>5 DEF Orders, OrderInv, LookAhead, HeldAhead, ClearedAhead, Holding
<1> QED
  BY <1>3, <1>4, <1>6 DEF Orders, OrderInv

\* The events behind the head are a part of the backlog.
LEMMA AfterHead ==
  ASSUME NEW s, After(s, 1)
  PROVE  After(s, 2)
  BY DEF After

\* The head a pump reads is past all its subscriber has taken.
LEMMA LookOrders ==
  ASSUME KeepInv, Orders, NEW g \in Gens, Look(g)
  PROVE  Orders'
<1>1. pump[g].pc = "look" /\ UNCHANGED <<buf, gen, epoch, got, lost, next>>
  BY DEF Look, At
<1>2. CASE To(g, "gone")
  BY <1>1, <1>2, ToOrders
<1>3. CASE gen = g /\ buf # <<>>
           /\ pump' = [pump EXCEPT ![g] = [pc |-> "send", ev |-> Head(buf), epoch |-> epoch, closing |-> closed]]
  <2>1. /\ pump'[g].pc = "send" /\ pump'[g].ev = buf[1] /\ pump'[g].epoch = epoch
        /\ \A h \in Gens \ {g} : pump'[h] = pump[h]
    BY <1>3 DEF KeepInv, IInv, PumpTypes, BacklogTypes
  <2>2. 1 \in 1 .. Len(buf) /\ buf[1] \in Event
    BY <1>3 DEF KeepInv, IInv, BacklogTypes
  <2>3. NumberInv'
    BY SMTT(20), <1>1, <2>1, <2>2 DEF Orders, NumberInv, InOrder, BufNumbers, GotNumbers, LostNumbers, HeldNumbers, Holding
  <2>4. After(got[g], 1)
    BY <1>1, <1>3 DEF Orders, OrderInv, LookAhead
  <2>5. HeldInOrder'
    <3>1. \A j, l \in 1 .. Len(buf[1].ids) : j < l => buf[1].ids[j] < buf[1].ids[l]
      BY <2>2 DEF Orders, NumberInv, InOrder
    <3> QED
      BY <2>1, <3>1 DEF Orders, OrderInv, HeldInOrder, Holding
  <2>6. HeldIsNew' /\ NoneBegun'
    <3>1. \A j \in 1 .. Len(buf[1].ids), m \in got[g] : m < buf[1].ids[j]
      BY <2>2, <2>4 DEF After
    <3> QED
      BY <1>1, <2>1, <3>1 DEF Orders, OrderInv, HeldIsNew, NoneBegun
  <2>7. \A s, k : After(s, k)' <=> After(s, k)
    BY <1>1 DEF After
  <2>8. LookAhead' /\ HeldAhead' /\ ClearedAhead'
    BY <1>1, <2>1, <2>4, <2>7, AfterHead DEF Orders, OrderInv, LookAhead, HeldAhead, ClearedAhead, Holding
  <2> QED
    BY <2>3, <2>5, <2>6, <2>8 DEF Orders, OrderInv
<1> QED
  BY <1>2, <1>3 DEF Look

\* What is taken is past what was taken before and comes before what waits.
LEMMA TookOrders ==
  ASSUME KeepInv, Orders, NEW g \in Gens, At(g, "send"), Deliver(g) \/ PassOver(g)
  PROVE  Orders'
<1> DEFINE ids == pump[g].ev.ids
<1>1. pump[g].pc = "send" /\ UNCHANGED <<buf, gen, epoch, next>>
  BY DEF At, Deliver, PassOver
<1>2. /\ pump'[g].pc = "took" /\ pump'[g].ev = pump[g].ev /\ pump'[g].epoch = pump[g].epoch
      /\ \A h \in Gens \ {g} : pump'[h] = pump[h]
  BY DEF Deliver, PassOver, Took, KeepInv, IInv, PumpTypes, PumpState
<1>3. ids \in Seq(Nat) /\ ToSet(ids) \subseteq 1 .. next - 1
  <2>1. Holding(g)
    BY <1>1 DEF Holding
  <2>2. ids \in Seq(Nat) /\ \A j \in 1 .. Len(ids) : ids[j] \in 1 .. next - 1
    BY <2>1 DEF Orders, NumberInv, HeldNumbers, Event
  <2> HIDE DEF ids
  <2> QED
    BY <2>2, ToSetIn
<1>4. /\ got' \in [Gens -> SUBSET (1 .. next - 1)] /\ lost' \subseteq 1 .. next - 1
      /\ got'[g] \in {got[g], got[g] \cup ToSet(ids)}
      /\ \A h \in Gens \ {g} : got'[h] = got[h]
  <2>1. got \in [Gens -> SUBSET (1 .. next - 1)] /\ lost \subseteq 1 .. next - 1
    BY DEF Orders, NumberInv, GotNumbers, LostNumbers
  <2>2. CASE Deliver(g)
    BY <1>3, <2>1, <2>2 DEF Deliver
  <2>3. CASE PassOver(g)
    BY <1>3, <2>1, <2>3 DEF PassOver
  <2> QED
    BY <2>2, <2>3
<1>5. NumberInv'
  <2>1. HeldNumbers'
    BY <1>1, <1>2 DEF Orders, NumberInv, HeldNumbers, Holding
  <2> QED
    BY <1>1, <1>4, <2>1 DEF Orders, NumberInv, InOrder, BufNumbers, GotNumbers, LostNumbers
<1>6. HeldInOrder' /\ HeldIsNew'
  BY <1>1, <1>2, <1>4 DEF Orders, OrderInv, HeldInOrder, HeldIsNew, Holding
<1>7. NoneBegun'
  <2>1. ~(g > gen)
    BY <1>1 DEF KeepInv, IInv, Unstarted
  <2> QED
    BY <1>1, <1>4, <2>1 DEF Orders, OrderInv, NoneBegun
<1>8. \A s, k : After(s, k)' <=> After(s, k)
  BY <1>1 DEF After
<1>9. \A s, t, k : After(s, k) /\ After(t, k) => After(s \cup t, k)
  BY DEF After
<1>10. LookAhead'
  BY <1>1, <1>2, <1>4, <1>8 DEF Orders, OrderInv, LookAhead
<1>11. HeldAhead'
  <2> SUFFICES ASSUME NEW h \in Gens, gen = h, Holding(h)', pump'[h].epoch = epoch PROVE After(got'[h], 2)
    BY <1>1, <1>8 DEF HeldAhead
  <2>1. CASE h # g
    BY <1>2, <1>4, <2>1 DEF Orders, OrderInv, HeldAhead, Holding
  <2>2. CASE h = g
    <3>1. After(got[g], 2)
      BY <1>1, <1>2, <2>2 DEF Orders, OrderInv, HeldAhead, Holding
    <3>2. buf # <<>> /\ ids = buf[1].ids
      BY <1>1, <1>2, <2>2 DEF KeepInv, IInv, HeadIsHeld, BacklogTypes
    <3>3. After(ToSet(ids), 2)
      <4> SUFFICES ASSUME NEW i \in 2 .. Len(buf), NEW j \in 1 .. Len(buf[i].ids), NEW m \in ToSet(ids)
                   PROVE  m < buf[i].ids[j]
        BY DEF After
      <4> HIDE DEF ids
      <4>1. PICK l \in 1 .. Len(ids) : ids[l] = m
        BY <1>3, ToSetMember
      <4>2. 1 \in 1 .. Len(buf) /\ i \in 1 .. Len(buf) /\ 1 < i
        BY DEF KeepInv, IInv, BacklogTypes
      <4> QED
        BY <3>2, <4>1, <4>2 DEF Orders, NumberInv, InOrder
    <3> QED
      BY <1>4, <1>9, <2>2, <3>1, <3>3
  <2> QED
    BY <2>1, <2>2
<1>12. ClearedAhead'
  <2> SUFFICES ASSUME NEW h \in Gens, gen = h, Holding(h)', pump'[h].epoch # epoch
               PROVE  After(got'[h], 1) /\ After(ToSet(pump'[h].ev.ids), 1)
    BY <1>1, <1>8 DEF ClearedAhead
  <2>1. Holding(h) /\ pump[h].epoch # epoch /\ pump'[h].ev = pump[h].ev
    BY <1>1, <1>2 DEF Holding
  <2>2. After(got[h], 1) /\ After(ToSet(pump[h].ev.ids), 1)
    BY <2>1 DEF Orders, OrderInv, ClearedAhead
  <2> QED
    BY <1>4, <1>9, <2>1, <2>2
<1> QED
  BY <1>5, <1>6, <1>7, <1>10, <1>11, <1>12 DEF Orders, OrderInv

\* Behind the head that leaves is what comes after all that was taken.
LEMMA AdvanceOrders ==
  ASSUME KeepInv, Orders, NEW g \in Gens, Advance(g)
  PROVE  Orders'
<1>1. pump[g].pc = "took" /\ Holding(g) /\ UNCHANGED <<gen, epoch, got, lost, next>>
  BY DEF Advance, At, Holding
<1>2. CASE UNCHANGED buf /\ To(g, "gone")
  BY <1>1, <1>2, ToOrders
<1>3. CASE gen = g /\ pump[g].epoch # epoch /\ UNCHANGED buf /\ To(g, "look")
  <2>1. After(got[g], 1)
    BY <1>1, <1>3 DEF Orders, OrderInv, ClearedAhead
  <2> QED
    BY <1>1, <1>3, <2>1, ToOrders
<1>4. CASE gen = g /\ pump[g].epoch = epoch /\ buf # <<>> /\ buf' = Tail(buf) /\ To(g, "look")
  <2>1. pump'[g].pc = "look" /\ \A h \in Gens \ {g} : pump'[h] = pump[h]
    <3> DEFINE x == [Idle EXCEPT !.pc = "look"]
    <3>1. x.pc = "look"
      BY IdleState
    <3>2. pump' = [pump EXCEPT ![g] = x]
      BY <1>4 DEF To
    <3> HIDE DEF x
    <3> QED
      BY <3>1, <3>2 DEF KeepInv, IInv, PumpTypes
  <2>2. Len(buf) \in Nat /\ Len(buf') = Len(buf) - 1 /\ \A i \in 1 .. Len(buf') : buf'[i] = buf[i + 1] /\ i + 1 \in 2 .. Len(buf)
    BY <1>4 DEF KeepInv, IInv, BacklogTypes
  <2>3. InOrder' /\ BufNumbers'
    <3>1. InOrder'
      <4> SUFFICES ASSUME NEW i \in 1 .. Len(buf'), NEW k \in 1 .. Len(buf'),
                          NEW j \in 1 .. Len(buf'[i].ids), NEW l \in 1 .. Len(buf'[k].ids),
                          i < k \/ (i = k /\ j < l)
                   PROVE  buf'[i].ids[j] < buf'[k].ids[l]
        BY DEF InOrder
      <4>1. /\ i + 1 \in 1 .. Len(buf) /\ k + 1 \in 1 .. Len(buf)
            /\ i + 1 < k + 1 \/ (i + 1 = k + 1 /\ j < l)
        BY <2>2
      <4>2. buf'[i] = buf[i + 1] /\ buf'[k] = buf[k + 1]
        BY <2>2
      <4>3. j \in 1 .. Len(buf[i + 1].ids) /\ l \in 1 .. Len(buf[k + 1].ids)
        BY <4>2
      <4>4. buf[i + 1].ids[j] < buf[k + 1].ids[l]
        BY <4>1, <4>3 DEF Orders, NumberInv, InOrder
      <4> QED
        BY <4>2, <4>4
    <3>2. BufNumbers'
      <4> SUFFICES ASSUME NEW i \in 1 .. Len(buf'), NEW j \in 1 .. Len(buf'[i].ids)
                   PROVE  buf'[i].ids[j] \in 1 .. next - 1
        BY <1>1 DEF BufNumbers
      <4>1. i + 1 \in 1 .. Len(buf) /\ buf'[i] = buf[i + 1]
        BY <2>2
      <4>2. j \in 1 .. Len(buf[i + 1].ids)
        BY <4>1
      <4>3. buf[i + 1].ids[j] \in 1 .. next - 1
        BY <4>1, <4>2 DEF Orders, NumberInv, BufNumbers
      <4> QED
        BY <4>1, <4>3
    <3> QED
      BY <3>1, <3>2
  <2>4. NumberInv'
    BY <1>1, <2>1, <2>3 DEF Orders, NumberInv, GotNumbers, LostNumbers, HeldNumbers, Holding
  <2>5. HeldInOrder' /\ HeldIsNew' /\ NoneBegun'
    BY <1>1, <2>1 DEF Orders, OrderInv, HeldInOrder, HeldIsNew, NoneBegun, Holding
  <2>6. After(got[g], 2)
    BY <1>1, <1>4 DEF Orders, OrderInv, HeldAhead
  <2>7. After(got[g], 1)'
    BY <1>1, <2>2, <2>6 DEF After
  <2>8. LookAhead' /\ HeldAhead' /\ ClearedAhead'
    BY <1>1, <1>4, <2>1, <2>7 DEF LookAhead, HeldAhead, ClearedAhead, Holding
  <2> QED
    BY <2>4, <2>5, <2>8 DEF Orders, OrderInv
<1> QED
  BY <1>2, <1>3, <1>4 DEF Advance, Mine, AfterClear

\* A pump that close releases goes back to a head it has not delivered.
LEMMA ReleasedOrders ==
  ASSUME KeepInv, Orders, NEW g \in Gens, Released(g)
  PROVE  Orders'
<1>1. pump[g].pc = "send" /\ Holding(g) /\ To(g, "look") /\ UNCHANGED <<buf, gen, epoch, got, lost, next>>
  BY DEF Released, At, Holding
<1>2. ASSUME gen = g PROVE After(got[g], 1)
  <2>1. CASE pump[g].epoch # epoch
    BY <1>1, <1>2, <2>1 DEF Orders, OrderInv, ClearedAhead
  <2>2. CASE pump[g].epoch = epoch
    <3>1. After(got[g], 2)
      BY <1>1, <1>2, <2>2 DEF Orders, OrderInv, HeldAhead
    <3>2. pump[g].ev = buf[1]
      BY <1>1, <1>2, <2>2 DEF KeepInv, IInv, HeadIsHeld, BacklogTypes
    <3>3. \A j \in 1 .. Len(buf[1].ids), m \in got[g] : m < buf[1].ids[j]
      BY <1>1, <3>2 DEF Orders, OrderInv, HeldIsNew
    <3>4. \A i \in 1 .. Len(buf) : i = 1 \/ i \in 2 .. Len(buf)
      OBVIOUS
    <3> QED
      BY <3>1, <3>3, <3>4 DEF After
  <2> QED
    BY <2>1, <2>2
<1> QED
  BY <1>1, <1>2, ToOrders

LEMMA PumpOrders ==
  ASSUME KeepInv, Orders, NEW g \in Gens, Pump(g)
  PROVE  Orders'
<1>1. CASE GiveUp(g) \/ Stop(g)
  BY <1>1, ToOrders DEF GiveUp, Stop
<1>2. CASE Deliver(g) \/ PassOver(g)
  BY <1>2, TookOrders DEF Deliver, PassOver
<1> QED
  BY <1>1, <1>2, LookOrders, ReleasedOrders, AdvanceOrders DEF Pump

LEMMA NextOrders ==
  ASSUME KeepInv, Orders, [Next]_vars
  PROVE  Orders'
<1>1. CASE PublishSome
  BY <1>1, PublishOrders
<1>2. CASE Subscribe
  BY <1>2, SubscribeOrders
<1>3. CASE \E g \in Gens : Unsubscribe(g)
  BY <1>3, ReleaseOrders DEF Unsubscribe, Release
<1>4. CASE \E g \in Gens : Pump(g)
  BY <1>4, PumpOrders
<1>5. CASE Reset
  BY <1>5, ClearOrders DEF Reset, Release
<1>6. CASE AnswerOverflow
  <2>1. UNCHANGED <<gen, pump, got, next>>
    BY <1>6 DEF AnswerOverflow
  <2>2. CASE Clear
    BY <2>1, <2>2, ClearOrders
  <2>3. CASE UNCHANGED <<buf, epoch, lost>>
    BY <2>1, <2>3, ReleaseOrders
  <2> QED
    BY <1>6, <2>2, <2>3 DEF AnswerOverflow, Resync
<1>7. CASE Cooled \/ Close \/ UNCHANGED vars
  BY <1>7, ReleaseOrders DEF Cooled, Close, vars
<1> QED
  BY <1>1, <1>2, <1>3, <1>4, <1>5, <1>6, <1>7 DEF Next

LEMMA InitOrders == Init => Orders
<1> SUFFICES ASSUME Init PROVE Orders
  OBVIOUS
<1>1. buf = <<>> /\ next = 1 /\ lost = {} /\ got = [g \in Gens |-> {}]
  BY DEF Init
<1>2. \A g \in Gens : pump[g].pc = "none"
  BY DEF Init, Idle
<1>3. NumberInv
  BY <1>1, <1>2 DEF NumberInv, InOrder, BufNumbers, GotNumbers, LostNumbers, HeldNumbers, Holding
<1>4. OrderInv
  BY <1>1, <1>2 DEF OrderInv, HeldInOrder, HeldIsNew, NoneBegun, LookAhead, HeldAhead, ClearedAhead, Holding
<1> QED
  BY <1>3, <1>4 DEF Orders

\* A subscriber takes events in the order they were published, and none twice
\* (broker.pump, broker.coalesceLocked): also across a merge, a clear under the
\* pump and a replaced subscriber.
THEOREM TakenInOrderHolds == Spec => TakenInOrder
<1> DEFINE Takes == \A g \in Gens : pump[g].pc = "send" /\ pump'[g].pc = "took" =>
          LET ids == pump[g].ev.ids
          IN  /\ \A i \in DOMAIN ids, m \in got[g] : m < ids[i]
              /\ \A i, j \in DOMAIN ids : i < j => ids[i] < ids[j]
<1>1. Orders => Takes
  <2> SUFFICES ASSUME Orders, NEW g \in Gens, pump[g].pc = "send"
               PROVE  LET ids == pump[g].ev.ids
                      IN  /\ \A i \in DOMAIN ids, m \in got[g] : m < ids[i]
                          /\ \A i, j \in DOMAIN ids : i < j => ids[i] < ids[j]
    OBVIOUS
  <2>1. Holding(g)
    BY DEF Holding
  <2>2. pump[g].ev.ids \in Seq(Nat)
    BY <2>1 DEF Orders, NumberInv, HeldNumbers, Event
  <2>3. DOMAIN pump[g].ev.ids = 1 .. Len(pump[g].ev.ids)
    BY <2>2
  <2> QED
    BY <2>1, <2>3 DEF Orders, OrderInv, HeldIsNew, HeldInOrder
<1>2. KeepInv /\ Orders /\ [Next]_vars => (KeepInv /\ Orders)'
  BY NextKeeps, NextOrders
<1>3. Init => KeepInv /\ Orders
  BY InitKeeps, InitOrders
<1>4. Orders => [Takes]_vars
  BY <1>1
<1> HIDE DEF Takes
<1>5. Spec => [][Takes]_vars
  BY <1>2, <1>3, <1>4, PTL DEF Spec
<1> QED
  BY <1>5 DEF Takes, TakenInOrder

-----------------------------------------------------------------------------
(* The types and the bounds                                                *)

\* A subscriber is of the current generation, and the last generation of the
\* bound has none; a report is out only while output is refused.
SubInv ==
    /\ gen \in Gens \cup {0} /\ sub \in {0, gen} /\ (sub # 0 => gen < MaxGen)
    /\ reports \in {0, 1} /\ (reports = 1 => overflow)
    /\ overflow \in BOOLEAN /\ cooling \in BOOLEAN
    /\ next \in 1 .. MaxPublish + 1

\* Nobody has published more than one number by one step.
LEMMA PublishOne ==
  ASSUME CountTypes, PublishSome
  PROVE  \E ev \in Event : Publish(ev) /\ ev.ids = <<next>> /\ ev.kind \in {"output", "window", "lifecycle"}
<1>1. \A p \in Panes : OutputOf(p).ids = <<next>>
  BY DEF OutputOf
<1>2. \A k \in {"window", "lifecycle"} : Notice(k).ids = <<next>>
  BY DEF Notice
<1> QED
  BY <1>1, <1>2, PublishedType DEF PublishSome, Event

LEMMA NextSub ==
  ASSUME IInv, SubInv, [Next]_vars
  PROVE  SubInv'
<1>0. gen \in Nat
  BY DEF IInv, CountTypes
<1>1. CASE PublishSome
  <2>1. PICK ev \in Event : Publish(ev) /\ ev.ids = <<next>>
    BY <1>1, PublishOne DEF IInv
  <2>2. next' = next + 1 /\ next <= MaxPublish /\ UNCHANGED <<sub, gen, cooling>>
    <3>1. Len(ev.ids) = 1
      BY <2>1 DEF IInv, CountTypes
    <3> QED
      BY <1>1, <2>1, <3>1 DEF PublishSome, Publish
  <2>3. CASE Refuse(ev)
    BY <2>2, <2>3 DEF Refuse, Reporting, SubInv
  <2>4. CASE Accept(ev)
    BY <2>2, <2>4 DEF Accept, SubInv
  <2> QED
    BY <2>1, <2>3, <2>4 DEF Publish
<1>2. CASE Subscribe
  BY <1>0, <1>2 DEF Subscribe, SubInv
<1>3. CASE UNCHANGED <<bounds, next>> /\ (UNCHANGED subs \/ Release)
  BY <1>0, <1>3 DEF Release, SubInv
<1>4. CASE AnswerOverflow
  <2>1. reports' = 0 /\ UNCHANGED <<sub, gen, next>>
    BY <1>4 DEF AnswerOverflow, SubInv
  <2>2. overflow' \in {FALSE, overflow} /\ cooling' \in {TRUE, cooling}
    BY <1>4 DEF AnswerOverflow, Resync
  <2>3. overflow' \in BOOLEAN /\ cooling' \in BOOLEAN
    BY <2>2 DEF SubInv
  <2> QED
    BY <2>1, <2>3 DEF SubInv
<1>5. CASE Cooled
  BY <1>5 DEF Cooled, SubInv
<1>6. ASSUME NEW g \in Gens, Pump(g) PROVE UNCHANGED <<bounds, next, subs>>
  BY <1>6 DEF Pump, Look, Deliver, PassOver, GiveUp, Stop, Released, Advance
<1>7. CASE \E g \in Gens : Unsubscribe(g) \/ Pump(g)
  BY <1>3, <1>6, <1>7 DEF Unsubscribe
<1>8. CASE Reset \/ Close \/ UNCHANGED vars
  BY <1>3, <1>8 DEF Reset, Close, vars
<1> QED
  BY <1>1, <1>2, <1>4, <1>5, <1>7, <1>8 DEF Next

\* What the bounds are checked against.
CountInv == bytes = Cardinality(Charged(buf)) /\ bytes <= MaxBytes
DroppableAt(b) == {i \in DOMAIN b : Droppable(b[i])}
DroppableInv == Cardinality(DroppableAt(buf)) <= MaxEvents

LEMMA ChargedMember ==
  ASSUME NEW b \in Seq(Event), NEW n
  PROVE  n \in Charged(b) <=> \E i \in 1 .. Len(b) : b[i].kind = "output" /\ \E j \in 1 .. Len(b[i].ids) : b[i].ids[j] = n
<1>1. ASSUME NEW i \in 1 .. Len(b) PROVE b[i].ids \in Seq(Nat)
  <2>1. b[i] \in Event
    OBVIOUS
  <2> QED
    BY <2>1 DEF Event
<1>2. \A i \in 1 .. Len(b) : n \in ToSet(b[i].ids) <=> \E j \in 1 .. Len(b[i].ids) : b[i].ids[j] = n
  BY <1>1, ToSetMember
<1>3. n \in Charged(b) <=> \E i \in 1 .. Len(b) : b[i].kind = "output" /\ n \in ToSet(b[i].ids)
  BY DEF Charged
<1> QED
  BY <1>2, <1>3

\* The output of a backlog is a finite set of numbers.
LEMMA ChargedFinite ==
  ASSUME BacklogTypes, BufNumbers, CountTypes
  PROVE  IsFiniteSet(Charged(buf)) /\ Charged(buf) \subseteq 1 .. next - 1
<1>1. Charged(buf) \subseteq 1 .. next - 1
  BY ChargedMember DEF BacklogTypes, BufNumbers
<1>2. IsFiniteSet(1 .. next - 1)
  BY FS_Interval DEF CountTypes
<1> QED
  BY <1>1, <1>2, FS_Subset

\* Accept keeps the kind of every event and adds the new number to an event of
\* the new kind.
LEMMA AcceptKinds ==
  ASSUME BacklogTypes, CountTypes, NEW ev \in Event, ev.ids = <<next>>, Accept(ev)
  PROVE  /\ Len(buf) \in Nat
         /\ \A i \in 1 .. Len(buf) :
              /\ i \in 1 .. Len(buf') /\ buf'[i].kind = buf[i].kind
              /\ \A j \in 1 .. Len(buf[i].ids) : j \in 1 .. Len(buf'[i].ids) /\ buf'[i].ids[j] = buf[i].ids[j]
         /\ Len(buf') \in 1 .. Len(buf')
         /\ buf'[Len(buf')].kind = ev.kind
         /\ Len(buf'[Len(buf')].ids) \in 1 .. Len(buf'[Len(buf')].ids)
         /\ buf'[Len(buf')].ids[Len(buf'[Len(buf')].ids)] = next
         /\ ev.kind # "output" => buf' = Append(buf, ev)
<1>0. buf \in Seq(Event) /\ Len(buf) \in Nat /\ next \in Nat
  BY DEF BacklogTypes, CountTypes
<1>1. CASE Mergeable(ev)
  <2> DEFINE tail == buf[Len(buf)]
             more == tail.ids \o <<next>>
  <2>1. Len(buf) \in 1 .. Len(buf) /\ tail \in Event /\ tail.kind = "output" /\ ev.kind = "output"
    BY <1>0, <1>1 DEF Mergeable, Last
  <2>2. buf' = [buf EXCEPT ![Len(buf)] = Merged(tail, ev)]
    BY <1>1 DEF Accept
  <2>3. tail.ids \in Seq(Nat) /\ Merged(tail, ev).ids = more /\ Merged(tail, ev).kind = tail.kind
    BY <2>1 DEF Merged, Event
  <2>4. /\ Len(more) = Len(tail.ids) + 1 /\ Len(tail.ids) \in Nat
        /\ \A j \in 1 .. Len(tail.ids) : more[j] = tail.ids[j]
        /\ more[Len(tail.ids) + 1] = next
    BY <1>0, <2>3
  <2> HIDE DEF more
  <2>5. /\ Len(buf') = Len(buf) /\ buf'[Len(buf)].ids = more /\ buf'[Len(buf)].kind = tail.kind
        /\ \A i \in 1 .. Len(buf) : i # Len(buf) => buf'[i] = buf[i]
    <3> DEFINE x == Merged(tail, ev)
    <3>1. buf' = [buf EXCEPT ![Len(buf)] = x] /\ x.ids = more /\ x.kind = tail.kind
      BY <2>2, <2>3
    <3> HIDE DEF x
    <3> QED
      BY <1>0, <2>1, <3>1
  <2>6. ASSUME NEW i \in 1 .. Len(buf)
        PROVE  /\ i \in 1 .. Len(buf') /\ buf'[i].kind = buf[i].kind
               /\ \A j \in 1 .. Len(buf[i].ids) : j \in 1 .. Len(buf'[i].ids) /\ buf'[i].ids[j] = buf[i].ids[j]
    <3>1. CASE i # Len(buf)
      BY <2>5, <3>1
    <3>2. CASE i = Len(buf)
      <4>1. buf'[i].ids = more /\ buf'[i].kind = buf[i].kind /\ buf[i].ids = tail.ids
        BY <2>5, <3>2
      <4> QED
        BY <2>4, <2>5, <4>1
    <3> QED
      BY <3>1, <3>2
  <2> QED
    BY <1>0, <2>1, <2>4, <2>5, <2>6
<1>2. CASE ~Mergeable(ev)
  <2>1. buf' = Append(buf, ev)
    BY <1>2 DEF Accept
  <2>2. /\ Len(buf') = Len(buf) + 1 /\ buf'[Len(buf) + 1] = ev
        /\ \A i \in 1 .. Len(buf) : buf'[i] = buf[i]
    BY <1>0, <2>1
  <2>3. Len(ev.ids) = 1 /\ ev.ids[1] = next
    BY <1>0
  <2>4. \A i \in 1 .. Len(buf) :
              /\ i \in 1 .. Len(buf') /\ buf'[i].kind = buf[i].kind
              /\ \A j \in 1 .. Len(buf[i].ids) : j \in 1 .. Len(buf'[i].ids) /\ buf'[i].ids[j] = buf[i].ids[j]
    BY <1>0, <2>2
  <2>5. buf'[Len(buf')] = ev /\ Len(buf') \in 1 .. Len(buf')
    BY <1>0, <2>2
  <2>6. /\ buf'[Len(buf')].kind = ev.kind
        /\ Len(buf'[Len(buf')].ids) \in 1 .. Len(buf'[Len(buf')].ids)
        /\ buf'[Len(buf')].ids[Len(buf'[Len(buf')].ids)] = next
    <3> DEFINE last == buf'[Len(buf')]
    <3>1. last = ev
      BY <2>5
    <3> HIDE DEF last
    <3>2. last.kind = ev.kind /\ last.ids = ev.ids
      BY <3>1
    <3>3. Len(last.ids) = 1 /\ last.ids[1] = next
      BY <2>3, <3>2
    <3>4. last.kind = ev.kind /\ Len(last.ids) \in 1 .. Len(last.ids) /\ last.ids[Len(last.ids)] = next
      BY <3>2, <3>3
    <3> QED
      BY <3>4 DEF last
  <2> QED
    BY <1>0, <2>1, <2>4, <2>5, <2>6
<1> QED
  BY <1>1, <1>2

\* Accepting output charges its number, and nothing else is charged.
LEMMA AcceptCharges ==
  ASSUME BacklogTypes, CountTypes, NEW ev \in Event, ev.ids = <<next>>, Accept(ev)
  PROVE  Charged(buf') = IF ev.kind = "output" THEN Charged(buf) \cup {next} ELSE Charged(buf)
<1> DEFINE In(b, n) == \E i \in 1 .. Len(b) : b[i].kind = "output" /\ \E j \in 1 .. Len(b[i].ids) : b[i].ids[j] = n
<1>0. buf \in Seq(Event) /\ buf' \in Seq(Event) /\ Len(buf) \in Nat
  BY AcceptShape DEF BacklogTypes
<1>1. \A n : (n \in Charged(buf) <=> In(buf, n)) /\ (n \in Charged(buf') <=> In(buf', n))
  BY <1>0, ChargedMember
<1>2. ASSUME NEW n, In(buf, n) PROVE In(buf', n)
  <2>1. PICK i \in 1 .. Len(buf) : buf[i].kind = "output" /\ \E j \in 1 .. Len(buf[i].ids) : buf[i].ids[j] = n
    BY <1>2
  <2>2. PICK j \in 1 .. Len(buf[i].ids) : buf[i].ids[j] = n
    BY <2>1
  <2>3. /\ i \in 1 .. Len(buf') /\ buf'[i].kind = buf[i].kind
        /\ j \in 1 .. Len(buf'[i].ids) /\ buf'[i].ids[j] = buf[i].ids[j]
    BY AcceptKinds
  <2> QED
    BY <2>1, <2>2, <2>3
<1>3. ev.kind = "output" => In(buf', next)
  BY AcceptKinds
<1>4. ASSUME NEW n, In(buf', n) PROVE In(buf, n) \/ (n = next /\ ev.kind = "output")
  <2>1. PICK i \in 1 .. Len(buf') : buf'[i].kind = "output" /\ \E j \in 1 .. Len(buf'[i].ids) : buf'[i].ids[j] = n
    BY <1>4
  <2>2. PICK j \in 1 .. Len(buf'[i].ids) : buf'[i].ids[j] = n
    BY <2>1
  <2>3. CASE i \in 1 .. Len(buf) /\ j \in 1 .. Len(buf[i].ids) /\ buf'[i].ids[j] = buf[i].ids[j]
    <3>1. buf[i].kind = "output"
      BY <2>1, <2>3, AcceptKinds
    <3> QED
      BY <2>2, <2>3, <3>1
  <2>4. CASE i = Len(buf') /\ buf'[i].ids[j] = next
    BY <2>1, <2>2, <2>4, AcceptKinds
  <2> QED
    BY <2>3, <2>4, AcceptShape
<1> HIDE DEF In
<1> QED
  BY <1>1, <1>2, <1>3, <1>4

\* As many numbers as places when they increase.
LEMMA IncreasingSize ==
  ASSUME NEW s \in Seq(Nat), \A j, l \in 1 .. Len(s) : j < l => s[j] < s[l]
  PROVE  IsFiniteSet(ToSet(s)) /\ Cardinality(ToSet(s)) = Len(s)
<1> DEFINE D == 1 .. Len(s)
<1>1. Len(s) \in Nat /\ s \in [D -> Nat]
  OBVIOUS
<1>2. s \in [D -> ToSet(s)] /\ \A n \in ToSet(s) : \E j \in D : s[j] = n
  BY <1>1, ToSetMember
<1>3. \A j, l \in D : s[j] = s[l] => j = l
  BY <1>1
<1>4. s \in Bijection(D, ToSet(s))
  BY <1>2, <1>3 DEF Bijection, Injection, Surjection, IsInjective
<1>5. IsFiniteSet(D) /\ Cardinality(D) = Len(s)
  <2>1. \A n \in Nat : IsFiniteSet(1 .. n) /\ Cardinality(1 .. n) = IF 1 > n THEN 0 ELSE n - 1 + 1
    BY FS_Interval
  <2> QED
    BY <1>1, <2>1
<1>6. ExistsBijection(D, ToSet(s))
  BY <1>4 DEF ExistsBijection
<1> QED
  BY <1>5, <1>6, FS_Bijection

BoundInv == CountInv /\ DroppableInv

\* A droppable event is accepted only below both bounds.
LEMMA PublishBounds ==
  ASSUME KeepInv, Orders, BoundInv, PublishSome
  PROVE  BoundInv'
<1>0. BacklogTypes /\ BacklogTypes' /\ CountTypes /\ BufNumbers
  BY PublishStep DEF KeepInv, IInv, Orders, NumberInv
<1>1. PICK ev \in Event : Publish(ev) /\ ev.ids = <<next>>
  BY <1>0, PublishOne
<1>2. CASE Refuse(ev)
  BY <1>2 DEF Refuse, BoundInv, CountInv, DroppableInv
<1>3. CASE Accept(ev)
  <2> DEFINE old == Charged(buf)
  <2>1. IsFiniteSet(old) /\ old \subseteq 1 .. next - 1 /\ next \in Nat
    BY <1>0, ChargedFinite DEF CountTypes
  <2>2. next \notin old
    BY <2>1
  <2>3. Cardinality(old) \in Nat /\ bytes = Cardinality(old)
    BY <2>1, FS_CardinalityType DEF BoundInv, CountInv
  <2>4. Len(ev.ids) = 1
    BY <1>1, <2>1
  <2>5. bytes' = Cardinality(Charged(buf'))
    <3>1. CASE ev.kind = "output"
      <4>1. Charged(buf') = old \cup {next}
        BY <1>0, <1>1, <1>3, <3>1, AcceptCharges
      <4>2. Cardinality(old \cup {next}) = Cardinality(old) + 1
        BY <2>1, <2>2, FS_AddElement
      <4>3. bytes' = bytes + 1
        BY <1>3, <2>4, <3>1 DEF Accept, Size
      <4> QED
        BY <2>3, <4>1, <4>2, <4>3
    <3>2. CASE ev.kind # "output"
      <4>1. Charged(buf') = old
        BY <1>0, <1>1, <1>3, <3>2, AcceptCharges
      <4>2. bytes' = bytes
        BY <1>3, <2>3, <3>2 DEF Accept, Size
      <4> QED
        BY <2>3, <4>1, <4>2
    <3> QED
      BY <3>1, <3>2
  <2>6. bytes' <= MaxBytes
    <3>1. CASE ev.kind = "output"
      <4>1. ~(bytes + Size(ev) > MaxBytes) /\ Size(ev) = 1
        BY <1>3, <2>4, <3>1 DEF Accept, Refused, Droppable, OverBound, Size
      <4> QED
        BY <1>3, <2>3, <4>1 DEF Accept
    <3>2. CASE ev.kind # "output"
      BY <1>3, <2>3, <3>2 DEF Accept, Size, BoundInv, CountInv
    <3> QED
      BY <3>1, <3>2
  <2>7. DroppableInv'
    <3>1. CASE Droppable(ev)
      <4>1. Len(buf) \in Nat /\ Len(buf) < MaxEvents /\ buf' \in Seq(Event) /\ Len(buf') \in {Len(buf), Len(buf) + 1}
        BY <1>0, <1>1, <1>3, <3>1, AcceptShape DEF Accept, Refused, OverBound, BacklogTypes
      <4>2. DroppableAt(buf') \subseteq 1 .. MaxEvents
        BY <4>1 DEF DroppableAt
      <4>3. IsFiniteSet(1 .. MaxEvents) /\ Cardinality(1 .. MaxEvents) = MaxEvents
        <5>1. \A n \in Nat : IsFiniteSet(1 .. n) /\ Cardinality(1 .. n) = IF 1 > n THEN 0 ELSE n - 1 + 1
          BY FS_Interval
        <5> QED
          BY <5>1
      <4>4. Cardinality(DroppableAt(buf')) <= MaxEvents
        BY <4>2, <4>3, FS_Subset
      <4> QED
        BY <4>4 DEF DroppableInv
    <3>2. CASE ~Droppable(ev)
      <4>1. buf' = Append(buf, ev) /\ buf \in Seq(Event)
        BY <1>0, <1>1, <1>3, <3>2, AcceptKinds DEF Droppable, BacklogTypes
      <4>2. /\ Len(buf) \in Nat /\ Len(buf') = Len(buf) + 1 /\ buf'[Len(buf) + 1] = ev
            /\ \A i \in 1 .. Len(buf) : buf'[i] = buf[i]
            /\ DOMAIN buf = 1 .. Len(buf) /\ DOMAIN buf' = 1 .. Len(buf) + 1
        BY <4>1
      <4>3. DroppableAt(buf') = DroppableAt(buf)
        <5>1. \A i \in DOMAIN buf' : i \in DOMAIN buf \/ i = Len(buf) + 1
          BY <4>2
        <5>2. \A i \in DOMAIN buf : i \in DOMAIN buf' /\ buf'[i] = buf[i]
          BY <4>2
        <5> QED
          BY <3>2, <4>2, <5>1, <5>2 DEF DroppableAt
      <4> QED
        BY <4>3 DEF BoundInv, DroppableInv
    <3> QED
      BY <3>1, <3>2
  <2> QED
    BY <2>5, <2>6, <2>7 DEF BoundInv, CountInv
<1> QED
  BY <1>1, <1>2, <1>3 DEF Publish

LEMMA ClearBounds ==
  ASSUME BoundInv, Clear
  PROVE  BoundInv'
<1>1. buf' = <<>> /\ bytes' = 0
  BY DEF Clear
<1>2. Charged(buf') = {} /\ DroppableAt(buf') = {}
  BY <1>1 DEF Charged, DroppableAt
<1>3. Cardinality({}) = 0
  BY FS_EmptySet
<1> QED
  BY <1>1, <1>2, <1>3 DEF BoundInv, CountInv, DroppableInv

\* Without the head, the output is what was charged but for the head's numbers.
LEMMA TailCharges ==
  ASSUME BacklogTypes, InOrder, buf # <<>>
  PROVE  LET own == IF buf[1].kind = "output" THEN ToSet(buf[1].ids) ELSE {}
         IN  Charged(Tail(buf)) = Charged(buf) \ own /\ own \subseteq Charged(buf)
<1> DEFINE own == IF buf[1].kind = "output" THEN ToSet(buf[1].ids) ELSE {}
           In(b, n) == \E i \in 1 .. Len(b) : b[i].kind = "output" /\ \E j \in 1 .. Len(b[i].ids) : b[i].ids[j] = n
<1>0. /\ buf \in Seq(Event) /\ Tail(buf) \in Seq(Event) /\ Len(buf) \in Nat /\ 1 \in 1 .. Len(buf)
      /\ Len(Tail(buf)) = Len(buf) - 1
      /\ \A i \in 1 .. Len(Tail(buf)) : Tail(buf)[i] = buf[i + 1]
  BY DEF BacklogTypes
<1>1. \A n : (n \in Charged(buf) <=> In(buf, n)) /\ (n \in Charged(Tail(buf)) <=> In(Tail(buf), n))
  BY <1>0, ChargedMember
<1>2. \A n : n \in own <=> buf[1].kind = "output" /\ \E j \in 1 .. Len(buf[1].ids) : buf[1].ids[j] = n
  <2>1. buf[1] \in Event
    BY <1>0
  <2>2. buf[1].ids \in Seq(Nat)
    BY <2>1 DEF Event
  <2> QED
    BY <2>2, ToSetMember
<1>3. ASSUME NEW n, In(Tail(buf), n) PROVE In(buf, n) /\ n \notin own
  <2>1. PICK i \in 1 .. Len(Tail(buf)) : Tail(buf)[i].kind = "output" /\ \E j \in 1 .. Len(Tail(buf)[i].ids) : Tail(buf)[i].ids[j] = n
    BY <1>3
  <2>2. i + 1 \in 1 .. Len(buf) /\ Tail(buf)[i] = buf[i + 1] /\ 1 < i + 1
    BY <1>0
  <2>3. buf[i + 1].kind = "output" /\ \E j \in 1 .. Len(buf[i + 1].ids) : buf[i + 1].ids[j] = n
    BY <2>1, <2>2
  <2>4. PICK l \in 1 .. Len(buf[i + 1].ids) : buf[i + 1].ids[l] = n
    BY <2>3
  <2>5. ASSUME NEW j \in 1 .. Len(buf[1].ids) PROVE buf[1].ids[j] # n
    <3>1. buf[1].ids[j] < buf[i + 1].ids[l]
      BY <1>0, <2>2 DEF InOrder
    <3>2. buf[1] \in Event /\ buf[i + 1] \in Event
      BY <1>0, <2>2
    <3>3. buf[1].ids[j] \in Nat /\ buf[i + 1].ids[l] \in Nat
      BY SMTT(20), <3>2 DEF Event
    <3> QED
      BY <2>4, <3>1, <3>3
  <2> QED
    BY <1>2, <2>2, <2>3, <2>5
<1>4. ASSUME NEW n, In(buf, n), n \notin own PROVE In(Tail(buf), n)
  <2>1. PICK i \in 1 .. Len(buf) : buf[i].kind = "output" /\ \E j \in 1 .. Len(buf[i].ids) : buf[i].ids[j] = n
    BY <1>4
  <2>2. i # 1
    BY <1>2, <1>4, <2>1
  <2>3. i - 1 \in 1 .. Len(Tail(buf)) /\ Tail(buf)[i - 1] = buf[i]
    BY <1>0, <2>2
  <2> QED
    BY <2>1, <2>3
<1>5. \A n \in own : In(buf, n)
  BY <1>0, <1>2
<1> HIDE DEF own, In
<1>6. Charged(Tail(buf)) = Charged(buf) \ own /\ own \subseteq Charged(buf)
  BY <1>1, <1>3, <1>4, <1>5
<1> QED
  BY <1>6 DEF own

\* The head takes the bytes it was charged with along.
LEMMA AdvanceBounds ==
  ASSUME KeepInv, Orders, BoundInv, NEW g \in Gens, Advance(g)
  PROVE  BoundInv'
<1>1. CASE UNCHANGED backlog
  BY <1>1 DEF BoundInv, CountInv, DroppableInv
<1>2. CASE gen = g /\ pump[g].epoch = epoch /\ buf # <<>> /\ buf' = Tail(buf) /\ bytes' = bytes - Size(pump[g].ev)
  <2> DEFINE own == IF buf[1].kind = "output" THEN ToSet(buf[1].ids) ELSE {}
             old == Charged(buf)
  <2>0. buf \in Seq(Event) /\ Len(buf) \in Nat /\ 1 \in 1 .. Len(buf) /\ buf[1] \in Event
    BY <1>2 DEF KeepInv, IInv, BacklogTypes
  <2>1. pump[g].ev = buf[1]
    BY <1>2, <2>0 DEF Advance, At, KeepInv, IInv, HeadIsHeld
  <2>2. Charged(buf') = old \ own /\ own \subseteq old
    BY <1>2, TailCharges DEF KeepInv, IInv, Orders, NumberInv
  <2>3. IsFiniteSet(old) /\ bytes = Cardinality(old) /\ bytes \in Nat
    BY ChargedFinite, FS_CardinalityType DEF KeepInv, IInv, Orders, NumberInv, BoundInv, CountInv
  <2>4. IsFiniteSet(own) /\ Cardinality(own) = Size(buf[1]) /\ Size(buf[1]) \in Nat
    <3>1. CASE buf[1].kind = "output"
      <4> DEFINE s == buf[1].ids
      <4>1. s \in Seq(Nat) /\ \A j, l \in 1 .. Len(s) : j < l => s[j] < s[l]
        BY <2>0 DEF Event, Orders, NumberInv, InOrder
      <4> HIDE DEF s
      <4>2. IsFiniteSet(ToSet(s)) /\ Cardinality(ToSet(s)) = Len(s) /\ Len(s) \in Nat
        BY <4>1, IncreasingSize
      <4> QED
        BY <3>1, <4>2 DEF s, Size
    <3>2. CASE buf[1].kind # "output"
      BY <3>2, FS_EmptySet DEF Size
    <3> QED
      BY <3>1, <3>2
  <2> HIDE DEF own, old
  <2>5. Cardinality(old \ own) = Cardinality(old) - Cardinality(own) /\ Cardinality(old \ own) <= Cardinality(old)
    <3>1. IsFiniteSet(old \ own) /\ Cardinality(old \ own) = Cardinality(old) - Cardinality(old \cap own)
      BY <2>3, <2>4, FS_Difference
    <3>2. old \cap own = own
      BY <2>2
    <3> QED
      BY <2>3, <2>4, <3>1, <3>2
  <2>6. CountInv'
    <3>1. bytes' = bytes - Size(buf[1])
      BY <1>2, <2>1
    <3>2. bytes' = Cardinality(old \ own) /\ bytes' <= bytes
      BY <2>3, <2>4, <2>5, <3>1
    <3>3. bytes <= MaxBytes /\ bytes' \in Int
      BY <2>3, <2>4, <3>1 DEF BoundInv, CountInv
    <3>4. bytes' <= MaxBytes
      BY <2>3, <3>2, <3>3
    <3> QED
      BY <2>2, <3>2, <3>4 DEF CountInv
  <2>7. DroppableInv'
    <3> DEFINE f == [i \in DroppableAt(buf') |-> i + 1]
    <3>1. /\ DOMAIN buf = 1 .. Len(buf) /\ DOMAIN buf' = 1 .. Len(buf) - 1
          /\ \A i \in DOMAIN buf' : i + 1 \in DOMAIN buf /\ buf'[i] = buf[i + 1]
      BY <1>2, <2>0
    <3>2. \A i \in DroppableAt(buf') : i \in Nat /\ i + 1 \in DroppableAt(buf)
      BY <2>0, <3>1 DEF DroppableAt
    <3>3. f \in Injection(DroppableAt(buf'), DroppableAt(buf))
      BY <3>2 DEF Injection, IsInjective
    <3>4. IsFiniteSet(DroppableAt(buf))
      <4>1. IsFiniteSet(1 .. Len(buf))
        BY <2>0, FS_Interval
      <4>2. DroppableAt(buf) \subseteq 1 .. Len(buf)
        BY <3>1 DEF DroppableAt
      <4> QED
        BY <4>1, <4>2, FS_Subset
    <3> HIDE DEF f
    <3>5. /\ Cardinality(DroppableAt(buf')) <= Cardinality(DroppableAt(buf)) /\ IsFiniteSet(DroppableAt(buf'))
      BY <3>3, <3>4, FS_Injection
    <3>6. Cardinality(DroppableAt(buf)) \in Nat /\ Cardinality(DroppableAt(buf')) \in Nat
      BY <3>4, <3>5, FS_CardinalityType
    <3> QED
      BY <3>5, <3>6 DEF BoundInv, DroppableInv
  <2> QED
    BY <2>6, <2>7 DEF BoundInv
<1> QED
  BY <1>1, <1>2 DEF Advance, Mine

LEMMA NextBounds ==
  ASSUME KeepInv, Orders, BoundInv, [Next]_vars
  PROVE  BoundInv'
<1>1. CASE PublishSome
  BY <1>1, PublishBounds
<1>2. CASE UNCHANGED backlog
  BY <1>2 DEF BoundInv, CountInv, DroppableInv
<1>3. CASE Clear
  BY <1>3, ClearBounds
<1>4. ASSUME NEW g \in Gens, Pump(g) PROVE BoundInv'
  BY <1>2, <1>4, AdvanceBounds DEF Pump, Look, Deliver, PassOver, GiveUp, Stop, Released
<1>5. CASE Reset \/ AnswerOverflow
  BY <1>2, <1>3, <1>5 DEF Reset, AnswerOverflow, Resync
<1>6. CASE \E g \in Gens : Unsubscribe(g) \/ Pump(g)
  BY <1>2, <1>4, <1>6 DEF Unsubscribe
<1> QED
  BY <1>1, <1>2, <1>5, <1>6 DEF Next, Subscribe, Cooled, Close, vars

LEMMA InitBounds == Init => BoundInv /\ SubInv
<1> SUFFICES ASSUME Init PROVE BoundInv /\ SubInv
  OBVIOUS
<1>1. buf = <<>> /\ bytes = 0
  BY DEF Init
<1>2. Charged(buf) = {} /\ DroppableAt(buf) = {}
  BY <1>1 DEF Charged, DroppableAt
<1>3. Cardinality({}) = 0
  BY FS_EmptySet
<1>4. BoundInv
  <2>1. 0 <= MaxBytes /\ 0 <= MaxEvents
    BY LimitsAssumption
  <2> QED
    BY <1>1, <1>2, <1>3, <2>1 DEF BoundInv, CountInv, DroppableInv
<1>5. SubInv
  <2>1. next = 1 /\ sub = 0 /\ gen = 0 /\ reports = 0 /\ overflow = FALSE /\ cooling = FALSE
    BY DEF Init
  <2>2. 1 \in 1 .. MaxPublish + 1
    BY LimitsAssumption
  <2>3. overflow \in BOOLEAN /\ cooling \in BOOLEAN
    BY <2>1
  <2>4. reports \in {0, 1} /\ reports # 1 /\ sub \in {0, gen} /\ gen \in Gens \cup {0}
    BY <2>1
  <2>5. next \in 1 .. MaxPublish + 1
    BY <2>1, <2>2
  <2> QED
    BY <2>1, <2>3, <2>4, <2>5, Zenon DEF SubInv
<1> QED
  BY <1>4, <1>5

\* All that is inductive about the broker.
BrokerInv == KeepInv /\ Orders /\ SubInv /\ BoundInv

LEMMA BrokerInductive == Spec => []BrokerInv
<1>1. Init => BrokerInv
  BY InitKeeps, InitOrders, InitBounds DEF BrokerInv
<1>2. BrokerInv /\ [Next]_vars => BrokerInv'
  BY NextKeeps, NextOrders, NextSub, NextBounds DEF BrokerInv, KeepInv
<1> QED
  BY <1>1, <1>2, PTL DEF Spec

\* What the backlog charges is the output it holds, and neither merging nor a
\* delivery in flight takes it past a bound (broker.publish,
\* broker.coalesceLocked, broker.advance).
THEOREM WithinBoundsHolds == Spec => []WithinBounds
<1>1. BrokerInv => WithinBounds
  BY DEF BrokerInv, BoundInv, CountInv, DroppableInv, DroppableAt, WithinBounds
<1> QED
  BY BrokerInductive, <1>1, PTL

\* The types of the broker's variables, and at most one overflow report out,
\* only while output is refused (broker.publish, broker.resync).
THEOREM TypeCorrect == Spec => []TypeOK
<1> SUFFICES ASSUME BrokerInv PROVE TypeOK
  BY BrokerInductive, PTL
<1>1. /\ buf \in Seq(Event) /\ DOMAIN buf = 1 .. Len(buf) /\ 1 .. next - 1 \subseteq Ids
  BY DEF BrokerInv, KeepInv, IInv, BacklogTypes, SubInv, Ids
<1>2. ASSUME NEW i \in DOMAIN buf PROVE buf[i].ids \in Seq(Ids) /\ buf[i].pane \in Panes \cup {NoPane}
  <2>1. buf[i] \in Event
    BY <1>1
  <2>2. buf[i].ids \in Seq(Nat) /\ buf[i].pane \in Panes \cup {NoPane}
    BY <2>1 DEF Event
  <2>3. \A j \in 1 .. Len(buf[i].ids) : buf[i].ids[j] \in Ids
    BY <1>1 DEF BrokerInv, Orders, NumberInv, BufNumbers
  <2> QED
    BY <2>2, <2>3
<1>3. bytes \in Nat
  BY ChargedFinite, FS_CardinalityType DEF BrokerInv, KeepInv, IInv, Orders, NumberInv, BoundInv, CountInv
<1>4. \A g \in Gens : pump[g].pc \in {"none", "look", "send", "took", "gone"}
  BY DEF BrokerInv, KeepInv, IInv, PumpTypes, PumpState
<1>5. (\A g \in Gens : got[g] \subseteq Ids) /\ lost \subseteq Ids
  BY <1>1 DEF BrokerInv, Orders, NumberInv, GotNumbers, LostNumbers
<1>6. epoch \in Nat /\ closed \in BOOLEAN
  BY DEF BrokerInv, KeepInv, IInv, CountTypes
<1>7. /\ overflow \in BOOLEAN /\ cooling \in BOOLEAN
      /\ reports \in {0, 1} /\ (reports = 1 => overflow)
      /\ sub \in Gens \cup {0} /\ gen \in Gens \cup {0} /\ sub \in {0, gen}
      /\ next \in 1 .. MaxPublish + 1
  BY DEF BrokerInv, SubInv
<1> QED
  BY <1>2, <1>3, <1>4, <1>5, <1>6, <1>7 DEF TypeOK

-----------------------------------------------------------------------------
(* A stream without holes                                                  *)

\* What a pump is about to hand over comes before the rest of the backlog,
\* also for a pump that was replaced or whose event was cleared.
HeldFirst ==
    \A g \in Gens : pump[g].pc = "send" =>
        \A n \in Carried(buf) : n \in ToSet(pump[g].ev.ids) \/ \A m \in ToSet(pump[g].ev.ids) : m < n

\* Only a closed stream has closing pumps.
ClosingRules == \A g \in Gens : pump[g].closing => closed

RefineInv == KeepInv /\ Orders /\ HeldFirst /\ ClosingRules

LEMMA EventNumbers ==
  ASSUME NEW b \in Seq(Event), NEW i \in 1 .. Len(b)
  PROVE  b[i].ids \in Seq(Nat)
<1>1. b[i] \in Event
  OBVIOUS
<1> QED
  BY <1>1 DEF Event

\* The numbers of the backlog and of an event in hand, as sets.
LEMMA CarriedNumbers ==
  ASSUME KeepInv, Orders
  PROVE  /\ next \in Nat \ {0} /\ Carried(buf) \subseteq 1 .. next - 1
         /\ \A g \in Gens : pump[g].pc = "send" =>
              pump[g].ev.ids \in Seq(Nat) /\ ToSet(pump[g].ev.ids) \subseteq 1 .. next - 1
<1>1. buf \in Seq(Event) /\ next \in Nat \ {0}
  BY DEF KeepInv, IInv, BacklogTypes, Orders, NumberInv, LostNumbers
<1>2. ASSUME NEW n \in Carried(buf) PROVE n \in 1 .. next - 1
  <2>1. PICK i \in 1 .. Len(buf) : n \in ToSet(buf[i].ids)
    BY <1>1, <1>2, CarriedMember
  <2>2. buf[i].ids \in Seq(Nat)
    BY <1>1, <2>1, EventNumbers
  <2>3. PICK j \in 1 .. Len(buf[i].ids) : buf[i].ids[j] = n
    BY <2>1, <2>2, ToSetMember
  <2> QED
    BY <2>1, <2>3 DEF Orders, NumberInv, BufNumbers
<1>3. ASSUME NEW g \in Gens, pump[g].pc = "send"
      PROVE  pump[g].ev.ids \in Seq(Nat) /\ ToSet(pump[g].ev.ids) \subseteq 1 .. next - 1
  <2>1. pump[g].ev \in Event /\ \A j \in 1 .. Len(pump[g].ev.ids) : pump[g].ev.ids[j] \in 1 .. next - 1
    BY <1>3 DEF Orders, NumberInv, HeldNumbers, Holding
  <2>2. pump[g].ev.ids \in Seq(Nat)
    BY <2>1 DEF Event
  <2> QED
    BY <2>1, <2>2, ToSetMember
<1> QED
  BY <1>1, <1>2, <1>3

\* The backlog gains only what is newer than what any pump holds, and no pump
\* takes an event in hand.
LEMMA FirstKept ==
  ASSUME KeepInv, Orders, HeldFirst,
         \A n \in Carried(buf') : n \in Carried(buf) \/ n = next,
         \A g \in Gens : pump'[g].pc = "send" => pump'[g] = pump[g]
  PROVE  HeldFirst'
<1> SUFFICES ASSUME NEW g \in Gens, pump'[g].pc = "send", NEW n \in Carried(buf')
             PROVE  n \in ToSet(pump[g].ev.ids) \/ \A m \in ToSet(pump[g].ev.ids) : m < n
  BY DEF HeldFirst
<1>1. pump[g].pc = "send" /\ pump'[g] = pump[g]
  OBVIOUS
<1>2. CASE n \in Carried(buf)
  BY <1>1, <1>2 DEF HeldFirst
<1>3. CASE n = next
  <2>1. next \in Nat /\ ToSet(pump[g].ev.ids) \subseteq 1 .. next - 1
    BY <1>1, CarriedNumbers
  <2>2. ASSUME NEW m \in ToSet(pump[g].ev.ids) PROVE m < next
    <3>1. m \in 1 .. next - 1
      BY <2>1
    <3> QED
      BY <2>1, <3>1
  <2> QED
    BY <1>3, <2>2
<1> QED
  BY <1>2, <1>3

\* The head comes before the rest.
LEMMA HeadFirst ==
  ASSUME KeepInv, Orders, buf # <<>>, NEW n \in Carried(buf)
  PROVE  n \in ToSet(Head(buf).ids) \/ \A m \in ToSet(Head(buf).ids) : m < n
<1>0. buf \in Seq(Event) /\ 1 \in 1 .. Len(buf) /\ Head(buf) = buf[1]
  BY DEF KeepInv, IInv, BacklogTypes
<1>1. buf \in Seq(Event) /\ 1 \in 1 .. Len(buf) /\ Head(buf) = buf[1] /\ buf[1].ids \in Seq(Nat)
  BY <1>0, EventNumbers
<1>2. PICK i \in 1 .. Len(buf) : n \in ToSet(buf[i].ids)
  BY <1>1, CarriedMember
<1>3. CASE i = 1
  BY <1>1, <1>2, <1>3
<1>4. CASE i # 1
  <2>1. buf[i].ids \in Seq(Nat)
    BY <1>1, <1>2, EventNumbers
  <2>2. PICK l \in 1 .. Len(buf[i].ids) : buf[i].ids[l] = n
    BY <1>2, <2>1, ToSetMember
  <2>3. ASSUME NEW m \in ToSet(buf[1].ids) PROVE m < n
    <3>1. PICK j \in 1 .. Len(buf[1].ids) : buf[1].ids[j] = m
      BY <1>1, <2>3, ToSetMember
    <3>2. 1 < i
      BY <1>4
    <3> QED
      BY <1>1, <2>2, <3>1, <3>2 DEF Orders, NumberInv, InOrder
  <2> QED
    BY <1>1, <2>3
<1> QED
  BY <1>3, <1>4

\* A pump that goes on with the head in hand, or with nothing.
LEMMA LookFirst ==
  ASSUME RefineInv, NEW g \in Gens, Look(g)
  PROVE  HeldFirst' /\ ClosingRules'
<1>1. UNCHANGED <<buf, closed>> /\ DOMAIN pump = Gens
  BY DEF Look, RefineInv, KeepInv, IInv, PumpTypes
<1>2. \/ buf # <<>> /\ pump'[g] = [pc |-> "send", ev |-> Head(buf), epoch |-> epoch, closing |-> closed]
      \/ pump'[g].pc = "gone" /\ ~pump'[g].closing
  BY <1>1 DEF Look, To, Idle
<1>3. \A h \in Gens \ {g} : pump'[h] = pump[h]
  BY <1>1 DEF Look, To
<1>4. ClosingRules'
  BY <1>1, <1>2, <1>3 DEF RefineInv, ClosingRules
<1>5. ASSUME NEW h \in Gens, pump'[h].pc = "send", NEW n \in Carried(buf)
      PROVE  n \in ToSet(pump'[h].ev.ids) \/ \A m \in ToSet(pump'[h].ev.ids) : m < n
  <2>1. CASE h = g
    <3>1. buf # <<>> /\ pump'[g].ev = Head(buf)
      BY <1>2, <1>5, <2>1
    <3> QED
      BY <2>1, <3>1, HeadFirst DEF RefineInv
  <2>2. CASE h # g
    BY <1>3, <1>5, <2>2 DEF RefineInv, HeldFirst
  <2> QED
    BY <2>1, <2>2
<1> QED
  BY <1>1, <1>4, <1>5 DEF HeldFirst

\* What the other steps of a pump leave of its locals.
LEMMA PumpLocals ==
  ASSUME RefineInv, NEW g \in Gens, Pump(g), ~Look(g)
  PROVE  /\ \A h \in Gens : pump'[h].pc = "send" => pump'[h] = pump[h]
         /\ \A h \in Gens : pump'[h].closing => pump[h].closing
         /\ UNCHANGED closed
<1>1. DOMAIN pump = Gens
  BY DEF RefineInv, KeepInv, IInv, PumpTypes
<1>2. UNCHANGED closed
  BY DEF Pump, Deliver, PassOver, GiveUp, Stop, Released, Advance
<1>3. CASE Took(g)
  BY <1>1, <1>2, <1>3 DEF Took
<1>4. ASSUME NEW pc \in {"look", "gone"}, To(g, pc)
      PROVE  /\ \A h \in Gens : pump'[h].pc = "send" => pump'[h] = pump[h]
             /\ \A h \in Gens : pump'[h].closing => pump[h].closing
  BY <1>1, <1>4 DEF To, Idle
<1> QED
  BY <1>2, <1>3, <1>4 DEF Pump, Deliver, PassOver, GiveUp, Stop, Released, Advance, AfterClear

LEMMA TailNumbers ==
  ASSUME BacklogTypes, buf # <<>>, NEW n \in Carried(Tail(buf))
  PROVE  n \in Carried(buf)
<1>1. buf \in Seq(Event) /\ Tail(buf) \in Seq(Event) /\ Len(Tail(buf)) = Len(buf) - 1 /\ Len(buf) \in Nat
      /\ \A i \in 1 .. Len(Tail(buf)) : Tail(buf)[i] = buf[i + 1]
  BY DEF BacklogTypes
<1>2. PICK i \in 1 .. Len(Tail(buf)) : n \in ToSet(Tail(buf)[i].ids)
  BY <1>1, CarriedMember
<1>3. i + 1 \in 1 .. Len(buf) /\ n \in ToSet(buf[i + 1].ids)
  BY <1>1, <1>2
<1> QED
  BY <1>1, <1>3, CarriedMember

LEMMA PublishNumbers ==
  ASSUME RefineInv, NEW ev \in Event, ev.ids = <<next>>, Publish(ev), NEW n \in Carried(buf')
  PROVE  n \in Carried(buf) \/ n = next
<1>1. BacklogTypes /\ CountTypes /\ buf \in Seq(Event)
  BY DEF RefineInv, KeepInv, IInv, BacklogTypes
<1>2. CASE UNCHANGED buf
  BY <1>2
<1>3. CASE Accept(ev)
  <2>1. /\ buf' \in Seq(Event)
        /\ \A i \in 1 .. Len(buf') : \A j \in 1 .. Len(buf'[i].ids) :
              \/ i \in 1 .. Len(buf) /\ j \in 1 .. Len(buf[i].ids) /\ buf'[i].ids[j] = buf[i].ids[j]
              \/ i = Len(buf') /\ j = Len(buf'[i].ids) /\ buf'[i].ids[j] = next
    BY <1>1, <1>3, AcceptShape
  <2>2. PICK i \in 1 .. Len(buf') : n \in ToSet(buf'[i].ids)
    BY <2>1, CarriedMember
  <2>3. buf'[i].ids \in Seq(Nat)
    BY <2>1, <2>2, EventNumbers
  <2>4. PICK j \in 1 .. Len(buf'[i].ids) : buf'[i].ids[j] = n
    BY <2>2, <2>3, ToSetMember
  <2>5. CASE i \in 1 .. Len(buf) /\ j \in 1 .. Len(buf[i].ids) /\ buf'[i].ids[j] = buf[i].ids[j]
    <3>1. buf[i].ids \in Seq(Nat)
      BY <1>1, <2>5, EventNumbers
    <3>2. n \in ToSet(buf[i].ids)
      BY <2>4, <2>5, <3>1, ToSetMember
    <3> QED
      BY <1>1, <2>5, <3>2, CarriedMember
  <2>6. CASE buf'[i].ids[j] = next
    BY <2>4, <2>6
  <2> QED
    BY <2>1, <2>5, <2>6
<1> QED
  BY <1>2, <1>3 DEF Publish, Refuse

LEMMA NextFirst ==
  ASSUME RefineInv, [Next]_vars
  PROVE  HeldFirst' /\ ClosingRules'
<1>1. closed => closed'
  BY DEF Next, vars, PublishSome, Publish, Subscribe, Unsubscribe, Pump, Look, Deliver, PassOver, GiveUp, Stop,
     Released, Advance, Reset, AnswerOverflow, Cooled, Close
<1>2. CASE PublishSome
  <2>1. PICK ev \in Event : ev.ids = <<next>> /\ Publish(ev)
    BY <1>2, PublishedType DEF PublishSome, OutputOf, Notice, RefineInv, KeepInv, IInv
  <2>2. UNCHANGED pump
    BY <2>1 DEF Publish
  <2> QED
    BY <1>1, <2>1, <2>2, PublishNumbers, FirstKept DEF RefineInv, ClosingRules
<1>3. CASE Subscribe
  <2>1. /\ UNCHANGED <<buf, closed>> /\ \A g \in Gens : pump'[g].pc = "send" => pump'[g] = pump[g]
        /\ \A g \in Gens : pump'[g].closing = pump[g].closing
    BY <1>3 DEF Subscribe, RefineInv, KeepInv, IInv, PumpTypes, PumpState
  <2> QED
    BY <2>1, FirstKept DEF RefineInv, ClosingRules
<1>4. ASSUME NEW g \in Gens, Pump(g) PROVE HeldFirst' /\ ClosingRules'
  <2>1. CASE Look(g)
    BY <2>1, LookFirst
  <2>2. CASE ~Look(g)
    <3>1. /\ \A h \in Gens : pump'[h].pc = "send" => pump'[h] = pump[h]
          /\ \A h \in Gens : pump'[h].closing => pump[h].closing
          /\ UNCHANGED closed
      BY <1>4, <2>2, PumpLocals
    <3>2. UNCHANGED buf \/ (buf # <<>> /\ buf' = Tail(buf))
      BY <1>4, <2>2 DEF Pump, Deliver, PassOver, GiveUp, Stop, Released, Advance
    <3>3. \A n \in Carried(buf') : n \in Carried(buf)
      BY <3>2, TailNumbers DEF RefineInv, KeepInv, IInv
    <3>4. HeldFirst'
      BY <3>1, <3>3, FirstKept DEF RefineInv
    <3> QED
      BY <3>1, <3>4 DEF RefineInv, ClosingRules
  <2> QED
    BY <2>1, <2>2
<1>5. CASE Clear /\ UNCHANGED pump
  <2>1. \A n : n \notin Carried(buf')
    BY <1>5 DEF Clear, Carried
  <2> QED
    BY <1>1, <1>5, <2>1, FirstKept DEF RefineInv, ClosingRules
<1>6. CASE UNCHANGED <<buf, pump>>
  BY <1>1, <1>6, FirstKept DEF RefineInv, ClosingRules
<1> QED
  BY <1>2, <1>3, <1>4, <1>5, <1>6 DEF Next, vars, Unsubscribe, Reset, AnswerOverflow, Resync, Cooled, Close

\* The events handed over are the next ones of the stream.
LEMMA HeldInTurn ==
  ASSUME RefineInv, NEW g \in Gens, pump[g].pc = "send"
  PROVE  ToSet(pump[g].ev.ids) \in SUBSET Stream!Published /\ Stream!InTurn(ToSet(pump[g].ev.ids))
<1> DEFINE S == ToSet(pump[g].ev.ids)
<1>1. S \subseteq 1 .. next - 1 /\ next \in Nat
  BY CarriedNumbers DEF RefineInv
<1>2. ASSUME NEW n \in S, NEW m \in 1 .. n - 1 PROVE m \in Stream!Settled \cup S
  <2>1. m \in 1 .. next - 1 /\ m < n /\ n \in Nat /\ m \in Nat
    BY <1>1
  <2>2. m \in lost \cup Carried(buf) \/ \E h \in Gens : m \in got[h]
    BY <2>1 DEF RefineInv, KeepInv, NothingStranded
  <2>3. ASSUME m \in Carried(buf) PROVE m \in S
    <3>1. m \in S \/ \A k \in S : k < m
      BY <2>3 DEF RefineInv, HeldFirst
    <3>2. ~(n < m)
      BY <2>1
    <3> QED
      BY <3>1, <3>2
  <2> QED
    BY <2>2, <2>3 DEF Stream!Settled
<1> QED
  BY <1>1, <1>2 DEF Stream!Published, Stream!InTurn

LEMMA PublishRefines ==
  ASSUME RefineInv, PublishSome
  PROVE  Stream!Publish
<1>1. PICK ev \in Event : ev.ids = <<next>> /\ Publish(ev)
  BY PublishedType DEF PublishSome, OutputOf, Notice, RefineInv, KeepInv, IInv
<1>2. next \in Nat /\ next' = next + 1 /\ ToSet(ev.ids) = {next}
  <2>1. ToSet(<<next>>) = {next}
    BY DEF ToSet
  <2> QED
    BY <1>1, <2>1 DEF Publish, RefineInv, KeepInv, IInv, CountTypes
<1>3. (next - 1) + 1 .. next' - 1 = {next}
  BY <1>2
<1>4. lost' \in {lost, lost \cup {next}}
  BY <1>1, <1>2 DEF Publish, Refuse, Accept
<1>5. next' - 1 > next - 1
  BY <1>2
<1> QED
  BY <1>1, <1>3, <1>4, <1>5 DEF Publish, Stream!Publish

\* A clear drops all that waits.
LEMMA ClearRefines ==
  ASSUME RefineInv, Clear, ~closed, UNCHANGED <<next, got, closed>>
  PROVE  Stream!Clear
<1>1. Carried(buf) \in SUBSET Stream!Published
  BY CarriedNumbers DEF RefineInv, Stream!Published
<1>2. Stream!Waiting \subseteq Carried(buf)
  BY DEF Stream!Waiting, Stream!Published, Stream!Settled, RefineInv, KeepInv, NothingStranded
<1>3. Stream!Lose(Carried(buf))
  BY DEF Clear, Stream!Lose
<1> QED
  BY <1>1, <1>2, <1>3 DEF Stream!Clear

LEMMA DeliverRefines ==
  ASSUME RefineInv, NEW g \in Gens, Deliver(g)
  PROVE  Stream!Take(g)
<1> DEFINE S == ToSet(pump[g].ev.ids)
<1>1. pump[g].pc = "send" /\ got' = [got EXCEPT ![g] = @ \cup S] /\ UNCHANGED <<next, lost, closed>>
  BY DEF Deliver, At
<1>2. S \in SUBSET Stream!Published /\ Stream!InTurn(S)
  BY <1>1, HeldInTurn
<1>3. ASSUME NEW m \in got[g], NEW n \in S PROVE m < n
  <2>1. pump[g].ev.ids \in Seq(Nat)
    BY <1>1, CarriedNumbers DEF RefineInv
  <2>2. PICK j \in 1 .. Len(pump[g].ev.ids) : pump[g].ev.ids[j] = n
    BY <2>1, ToSetMember
  <2> QED
    BY <1>1, <2>2 DEF RefineInv, Orders, OrderInv, HeldIsNew
<1> HIDE DEF S
<1> QED
  BY <1>1, <1>2, <1>3 DEF Stream!Take

LEMMA PassOverRefines ==
  ASSUME RefineInv, NEW g \in Gens, PassOver(g)
  PROVE  Stream!PassOver
<1> DEFINE S == ToSet(pump[g].ev.ids)
<1>1. pump[g].pc = "send" /\ pump[g].closing /\ lost' = lost \cup S /\ UNCHANGED <<next, got, closed>>
  BY DEF PassOver, At
<1>2. S \in SUBSET Stream!Published /\ Stream!InTurn(S)
  BY <1>1, HeldInTurn
<1>3. closed
  BY <1>1 DEF RefineInv, ClosingRules
<1> HIDE DEF S
<1>4. Stream!Lose(S)
  BY <1>1 DEF Stream!Lose
<1> QED
  BY <1>2, <1>3, <1>4 DEF Stream!PassOver

\* Every step of the broker is a step of the stream, or none.
LEMMA StepRefines ==
  ASSUME RefineInv, [Next]_vars
  PROVE  Stream!Next \/ UNCHANGED <<next - 1, got, lost, closed>>
<1>1. CASE PublishSome
  BY <1>1, PublishRefines DEF Stream!Next
<1>2. ASSUME NEW g \in Gens, Deliver(g) PROVE Stream!Next
  BY <1>2, DeliverRefines DEF Stream!Next
<1>3. ASSUME NEW g \in Gens, PassOver(g) PROVE Stream!Next
  BY <1>3, PassOverRefines DEF Stream!Next
<1>4. CASE Reset
  BY <1>4, ClearRefines DEF Reset, Stream!Next
<1>5. CASE AnswerOverflow
  <2>1. CASE CanResync /\ Clear
    BY <1>5, <2>1, ClearRefines DEF AnswerOverflow, CanResync, Stream!Next
  <2>2. CASE UNCHANGED lost
    BY <1>5, <2>2 DEF AnswerOverflow
  <2> QED
    BY <1>5, <2>1, <2>2 DEF AnswerOverflow, Resync
<1>6. CASE Close
  BY <1>6 DEF Close, Stream!Close, Stream!Next
<1>7. CASE UNCHANGED <<next, got, lost, closed>>
  BY <1>7
<1>8. ASSUME NEW g \in Gens, Pump(g), ~Deliver(g), ~PassOver(g) PROVE UNCHANGED <<next, got, lost, closed>>
  BY <1>8 DEF Pump, Look, GiveUp, Stop, Released, Advance
<1>9. ASSUME NEW g \in Gens, Pump(g) PROVE Stream!Next \/ UNCHANGED <<next - 1, got, lost, closed>>
  BY <1>2, <1>3, <1>7, <1>8, <1>9
<1> QED
  BY <1>1, <1>4, <1>5, <1>6, <1>7, <1>9 DEF Next, vars, Subscribe, Unsubscribe, Cooled

LEMMA InitRefines == Init => RefineInv /\ Stream!Init
<1> SUFFICES ASSUME Init PROVE RefineInv /\ Stream!Init
  OBVIOUS
<1>1. \A g \in Gens : pump[g].pc = "none" /\ ~pump[g].closing
  BY DEF Init, Idle
<1>2. next - 1 = 0
  BY DEF Init
<1> QED
  BY <1>1, <1>2, InitKeeps, InitOrders DEF RefineInv, HeldFirst, ClosingRules, Init, Stream!Init

\* Whoever subscribes, is replaced, overflows, clears or closes: the broker
\* gives its subscribers a stream without holes, and loses only what a refusal,
\* a clear or the closing rules lose (publish, pump, advance, reset, resync).
THEOREM StreamImplemented == Spec => ImplementsStream
<1>1. Init => RefineInv /\ Stream!Init
  BY InitRefines
<1>2. RefineInv /\ [Next]_vars => RefineInv'
  BY NextKeeps, NextOrders, NextFirst DEF RefineInv
<1>3. RefineInv /\ [Next]_vars => [Stream!Next]_<<next - 1, got, lost, closed>>
  BY StepRefines
<1> QED
  BY <1>1, <1>2, <1>3, PTL DEF Spec, ImplementsStream, Stream!Spec, Stream!stream

=============================================================================
