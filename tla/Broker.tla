------------------------------- MODULE Broker -------------------------------
(* The event stream of one terminal: tmuxcc/broker.go.  A reader goroutine *)
(* publishes, at most one subscriber reads.  Events wait in a bounded      *)
(* backlog; the pump of a subscription hands the head over and only then   *)
(* removes it.  Exceeding a bound drops everything until resync clears the *)
(* backlog; reset clears it for a replacement of the subscriber.           *)
(*                                                                         *)
(* What is published is numbered 1, 2, ...: each byte of output, each      *)
(* other event.  An event of the backlog carries the numbers it stands     *)
(* for.  A subscription and its pump are named by the generation they      *)
(* began in.                                                               *)
EXTENDS Integers, Sequences, FiniteSets, SequencesExt

CONSTANTS
    Panes,       \* the panes output comes from
    MaxBytes,    \* backlogBounds.bytes
    MaxEvents,   \* backlogBounds.events
    MaxMerged,   \* maxCoalescedBytes
    MaxPublish,  \* bound of the model: events published
    MaxGen,      \* bound of the model: generations
    MaxClears    \* bound of the model: resets and resyncs

ASSUME LimitsAssumption ==
    /\ MaxBytes \in Nat /\ MaxEvents \in Nat /\ MaxMerged \in Nat /\ MaxPublish \in Nat /\ MaxGen \in Nat
    /\ MaxClears \in Nat

VARIABLES
    buf,        \* the undelivered backlog
    bytes,      \* its output bytes
    overflow,   \* everything droppable is refused
    reports,    \* overflow callbacks started and not yet answered
    cooling,    \* the last resync is younger than resyncCooldown
    sub,        \* the generation of the subscriber, 0 without one
    gen,        \* the current generation
    epoch,      \* how often the backlog was cleared
    closed,
    pump,       \* the pump goroutine of each generation
    got,        \* history: the numbers each subscriber has received
    lost,       \* history: the numbers dropped by the bound, a clear or the closing rules
    next        \* history: the number of the next event published

backlog == <<buf, bytes>>
bounds  == <<overflow, reports, cooling>>
subs    == <<sub, gen>>
vars    == <<buf, bytes, overflow, reports, cooling, sub, gen, epoch, closed, pump, got, lost, next>>

Gens == 1 .. MaxGen
Ids  == 1 .. MaxPublish
NoPane == "no pane"

\* eventBytes: only output is charged.
Size(ev) == IF ev.kind = "output" THEN Len(ev.ids) ELSE 0

Droppable(ev) == ev.kind # "lifecycle"

Idle == [pc |-> "none", ev |-> <<>>, epoch |-> 0, closing |-> FALSE]

Carried(events) == UNION {ToSet(events[i].ids) : i \in DOMAIN events}

\* What of it is output: the bytes the bound is about.
Charged(events) == UNION {ToSet(events[i].ids) : i \in {j \in DOMAIN events : events[j].kind = "output"}}

-----------------------------------------------------------------------------
Init ==
    /\ buf = <<>> /\ bytes = 0
    /\ overflow = FALSE /\ reports = 0 /\ cooling = FALSE
    /\ sub = 0 /\ gen = 0 /\ epoch = 0 /\ closed = FALSE
    /\ pump = [g \in Gens |-> Idle]
    /\ got = [g \in Gens |-> {}]
    /\ lost = {} /\ next = 1

-----------------------------------------------------------------------------
(* publish *)

OverBound(ev) == bytes + Size(ev) > MaxBytes \/ Len(buf) >= MaxEvents

\* Mutant of Mergeable: the head, which a pump may be handing over, grows.
MergeableHead(ev) ==
    /\ ev.kind = "output" /\ buf # <<>>
    /\ LET tail == Last(buf)
       IN  tail.kind = "output" /\ tail.pane = ev.pane /\ Len(tail.ids) + Size(ev) <= MaxMerged

\* coalesceLocked: the last event, unless it is the head, takes the bytes in.
Mergeable(ev) ==
    /\ ev.kind = "output" /\ Len(buf) >= 2
    /\ LET tail == Last(buf)
       IN  tail.kind = "output" /\ tail.pane = ev.pane /\ Len(tail.ids) + Size(ev) <= MaxMerged

\* Mutant of Merged: the new bytes come first.
MergedInFront(tail, ev) == [tail EXCEPT !.ids = ev.ids \o @]

\* A fresh buffer holds the old bytes and then the new ones.
Merged(tail, ev) == [tail EXCEPT !.ids = @ \o ev.ids]

\* Only a droppable event is bounded, and a broker that has overflowed drops it.
Refused(ev) == Droppable(ev) /\ (overflow \/ OverBound(ev))

\* Mutant of Reporting: every refusal reports.
ReportingAll == TRUE

\* The first refusal reports the overflow on a goroutine of its own.
Reporting == ~overflow

Refuse(ev) ==
    /\ Refused(ev)
    /\ overflow' = TRUE
    /\ reports' = IF Reporting THEN reports + 1 ELSE reports
    /\ lost' = lost \cup ToSet(ev.ids)
    /\ UNCHANGED backlog

Accept(ev) ==
    /\ ~Refused(ev)
    /\ buf' = IF Mergeable(ev)
              THEN [buf EXCEPT ![Len(buf)] = Merged(@, ev)]
              ELSE Append(buf, ev)
    /\ bytes' = bytes + Size(ev)
    /\ UNCHANGED <<overflow, reports, lost>>

Publish(ev) ==
    /\ ~closed
    /\ next' = next + Len(ev.ids)
    /\ Refuse(ev) \/ Accept(ev)
    /\ UNCHANGED <<cooling, subs, epoch, closed, pump, got>>

OutputOf(p) == [kind |-> "output", pane |-> p, ids |-> <<next>>]
Notice(k)   == [kind |-> k, pane |-> NoPane, ids |-> <<next>>]

PublishSome ==
    /\ next <= MaxPublish
    /\ \/ \E p \in Panes : Publish(OutputOf(p))
       \/ \E k \in {"window", "lifecycle"} : Publish(Notice(k))

-----------------------------------------------------------------------------
(* subscribe, unsubscribe, reset, resync and close *)

Subscribe ==
    /\ gen + 1 < MaxGen
    /\ gen' = gen + 1 /\ sub' = gen + 1
    /\ pump' = [pump EXCEPT ![gen + 1].pc = "look"]
    /\ UNCHANGED <<backlog, bounds, epoch, closed, got, lost, next>>

\* Nobody is subscribed any more, and the pump that was serves nobody.
Release == sub' = 0 /\ gen' = IF sub # 0 THEN gen + 1 ELSE gen

\* A stale unsubscribe changes nothing.
Unsubscribe(g) ==
    /\ sub = g
    /\ Release
    /\ UNCHANGED <<backlog, bounds, epoch, closed, pump, got, lost, next>>

\* Mutant of Clear: the epoch stays.
ClearInPlace ==
    /\ buf' = <<>> /\ bytes' = 0 /\ lost' = lost \cup Carried(buf) /\ epoch' = epoch

\* clearLocked
Clear ==
    /\ buf' = <<>> /\ bytes' = 0
    /\ lost' = lost \cup Carried(buf)
    /\ epoch' = epoch + 1

Reset ==
    /\ ~closed /\ epoch < MaxClears
    /\ Release
    /\ Clear
    /\ UNCHANGED <<bounds, closed, pump, got, next>>

CanResync == ~closed /\ ~cooling

\* The subscriber stays; a closed or a cooling broker refuses.
Resync ==
    \/ /\ CanResync
       /\ Clear
       /\ overflow' = FALSE /\ cooling' = TRUE
    \/ /\ ~CanResync
       /\ UNCHANGED <<backlog, epoch, overflow, cooling, lost>>

\* The callback asks for a resync, and is granted it or not.
AnswerOverflow ==
    /\ reports > 0 /\ epoch < MaxClears
    /\ reports' = reports - 1
    /\ Resync
    /\ UNCHANGED <<subs, closed, pump, got, next>>

Cooled ==
    /\ cooling
    /\ cooling' = FALSE
    /\ UNCHANGED <<backlog, overflow, reports, subs, epoch, closed, pump, got, lost, next>>

Close ==
    /\ ~closed
    /\ closed' = TRUE
    /\ UNCHANGED <<backlog, bounds, subs, epoch, pump, got, lost, next>>

-----------------------------------------------------------------------------
(* pump *)

At(g, pc)   == pump[g].pc = pc
\* Back to the loop's head, or out of it: the pump's locals are gone.
To(g, pc)   == pump' = [pump EXCEPT ![g] = [Idle EXCEPT !.pc = pc]]
Took(g)     == pump' = [pump EXCEPT ![g].pc = "took"]
Stopped(g)  == sub # g

\* The pump waits while the backlog is empty, reads the head and the epoch, or
\* ends because it was replaced or a closing broker has nothing left.
Look(g) ==
    /\ At(g, "look")
    /\ \/ /\ gen = g /\ buf # <<>>
          /\ pump' = [pump EXCEPT ![g] = [pc |-> "send", ev |-> Head(buf), epoch |-> epoch, closing |-> closed]]
       \/ /\ gen # g \/ (buf = <<>> /\ closed)
          /\ To(g, "gone")
    /\ UNCHANGED <<backlog, bounds, subs, epoch, closed, got, lost, next>>

\* The subscriber takes the event off the unbuffered channel.
Deliver(g) ==
    /\ At(g, "send")
    /\ Took(g)
    /\ got' = [got EXCEPT ![g] = @ \cup ToSet(pump[g].ev.ids)]
    /\ UNCHANGED <<backlog, bounds, subs, epoch, closed, lost, next>>

\* A closing pump does not wait for a reader of what can be dropped.
PassOver(g) ==
    /\ At(g, "send") /\ pump[g].closing /\ Droppable(pump[g].ev)
    /\ Took(g)
    /\ lost' = lost \cup ToSet(pump[g].ev.ids)
    /\ UNCHANGED <<backlog, bounds, subs, epoch, closed, got, next>>

\* finalDelivery runs out on the last lifecycle event.
GiveUp(g) ==
    /\ At(g, "send") /\ pump[g].closing /\ ~Droppable(pump[g].ev)
    /\ To(g, "gone")
    /\ UNCHANGED <<backlog, bounds, subs, epoch, closed, got, lost, next>>

\* The subscription ended under a pump that is waiting for its reader.
Stop(g) ==
    /\ At(g, "send") /\ Stopped(g)
    /\ ~(pump[g].closing /\ Droppable(pump[g].ev))
    /\ To(g, "gone")
    /\ UNCHANGED <<backlog, bounds, subs, epoch, closed, got, lost, next>>

\* Mutant of Wakes: close does not reach a pump that waits for its reader.
WakesNobody(g) == FALSE

\* done is closed: a pump parked on its reader returns.
Wakes(g) == closed

\* close releases a waiting pump: the next look applies the closing rules.
Released(g) ==
    /\ At(g, "send") /\ ~pump[g].closing /\ Wakes(g)
    /\ To(g, "look")
    /\ UNCHANGED <<backlog, bounds, subs, epoch, closed, got, lost, next>>

\* Mutant of Mine: a replaced pump takes its event off the replacement's backlog.
MineStill(g) == TRUE

\* A replaced pump must not consume from the backlog its replacement owns.
Mine(g) == gen = g

\* Mutant of AfterClear: a pump whose event was cleared ends.
AfterClearGone == "gone"

\* The subscriber stays after a resync, and so does its pump.
AfterClear == "look"

\* The delivered head leaves the backlog, unless a clear took it already.
Advance(g) ==
    /\ At(g, "took")
    /\ \/ /\ ~Mine(g)
          /\ To(g, "gone")
          /\ UNCHANGED backlog
       \/ /\ Mine(g) /\ pump[g].epoch # epoch
          /\ To(g, AfterClear)
          /\ UNCHANGED backlog
       \/ /\ Mine(g) /\ pump[g].epoch = epoch /\ buf = <<>>
          /\ To(g, "gone")
          /\ UNCHANGED backlog
       \/ /\ Mine(g) /\ pump[g].epoch = epoch /\ buf # <<>>
          /\ buf' = Tail(buf)
          /\ bytes' = bytes - Size(pump[g].ev)
          /\ To(g, "look")
    /\ UNCHANGED <<bounds, subs, epoch, closed, got, lost, next>>

Pump(g) ==
    \/ Look(g) \/ Deliver(g) \/ PassOver(g) \/ GiveUp(g)
    \/ Stop(g) \/ Released(g) \/ Advance(g)

Next ==
    \/ PublishSome
    \/ Subscribe
    \/ \E g \in Gens : Unsubscribe(g) \/ Pump(g)
    \/ Reset \/ AnswerOverflow \/ Cooled \/ Close

Spec == Init /\ [][Next]_vars

\* Nobody subscribes in the last generation of the bound.
Subscribers == Gens \ {MaxGen}

\* What a pump does without its reader.
Unaided(g) == Look(g) \/ Advance(g) \/ PassOver(g) \/ GiveUp(g) \/ Stop(g) \/ Released(g)

\* Every goroutine of the broker is scheduled; nobody has to read the channel.
FairSpec == Spec /\ \A g \in Subscribers : WF_vars(Unaided(g))

-----------------------------------------------------------------------------
(* Properties                                                              *)

\* The type of the variables.  At most one overflow report is out, and only
\* while the broker refuses output.
TypeOK ==
    /\ \A i \in DOMAIN buf : buf[i].ids \in Seq(Ids) /\ buf[i].pane \in Panes \cup {NoPane}
    /\ bytes \in Nat
    /\ overflow \in BOOLEAN /\ cooling \in BOOLEAN
    /\ reports \in {0, 1} /\ (reports = 1 => overflow)
    /\ sub \in Gens \cup {0} /\ gen \in Gens \cup {0} /\ sub \in {0, gen}
    /\ epoch \in Nat /\ closed \in BOOLEAN
    /\ \A g \in Gens : pump[g].pc \in {"none", "look", "send", "took", "gone"}
    /\ \A g \in Gens : got[g] \subseteq Ids
    /\ lost \subseteq Ids /\ next \in 1 .. MaxPublish + 1

\* What the bound is checked against is what the backlog holds, and neither
\* merging nor a delivery in flight takes the backlog past a bound.
WithinBounds ==
    /\ bytes = Cardinality(Charged(buf))
    /\ bytes <= MaxBytes
    /\ Cardinality({i \in DOMAIN buf : Droppable(buf[i])}) <= MaxEvents

\* Every event published was taken by a subscriber, waits in the backlog for
\* one, or was dropped by a bound, a clear or the closing rules: replacing the
\* subscriber strands nothing.
NothingStranded ==
    \A n \in 1 .. next - 1 :
        n \in lost \cup Carried(buf) \/ \E g \in Gens : n \in got[g]

\* The pump that owns the backlog holds a copy of the head, unless a clear
\* took the head away: what it removes is what it has delivered.
HeadIsHeld ==
    \A g \in Gens :
        pump[g].pc \in {"send", "took"} /\ gen = g /\ pump[g].epoch = epoch =>
            buf # <<>> /\ Head(buf) = pump[g].ev

\* A subscriber takes events in the order they were published, each once.
TakenInOrder ==
    [][\A g \in Gens : pump[g].pc = "send" /\ pump'[g].pc = "took" =>
          LET ids == pump[g].ev.ids
          IN  /\ \A i \in DOMAIN ids, m \in got[g] : m < ids[i]
              /\ \A i, j \in DOMAIN ids : i < j => ids[i] < ids[j]]_vars

\* What the backlog, the pumps and their generations make together is a stream
\* without holes.
Stream == INSTANCE EventStream WITH Readers <- Gens, last <- next - 1, taken <- got

\* Numbers are taken, refused, cleared and passed over as EventStream allows
\* (publish, pump, advance, reset, resync, close), whoever was replaced.
ImplementsStream == Stream!Spec

\* Closing ends every stream, also one whose subscriber has stopped reading.
CloseEndsStreams ==
    \A g \in Subscribers : closed /\ pump[g].pc # "none" ~> pump[g].pc = "gone"

\* A subscriber that reads catches up with the backlog, whatever is cleared
\* under its pump.
ReaderCatchesUp ==
    \A g \in Subscribers : WF_vars(Deliver(g)) => (sub = g ~> sub # g \/ buf = <<>> \/ closed)
=============================================================================
