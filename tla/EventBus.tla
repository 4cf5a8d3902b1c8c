------------------------------ MODULE EventBus ------------------------------
(***************************************************************************)
(* The typed publish/subscribe bus (internal/app/events/bus.go): every     *)
(* subscription has a goroutine of its own, and either keeps only the      *)
(* newest undelivered event (Coalesce) or queues each one and holds the    *)
(* publisher up (Buffer).                                                  *)
(*                                                                         *)
(* A publisher writes its topic's state and then publishes, one event at a *)
(* time; a coalescing handler re-reads that state, as the Wails adapter's  *)
(* do.  An event is who published it and its how-manieth it is.  A handler *)
(* that panics is one that returns.                                        *)
(***************************************************************************)
EXTENDS Integers, Sequences, FiniteSets

CONSTANTS
    Coalesced, Buffered,   \* subscriptions, by policy
    Publishers,
    Topics,
    TopicOf,               \* of a subscription or a publisher
    QueueSize,             \* Buffer(n)
    Events                 \* bound: events of each publisher

Subscriptions == Coalesced \cup Buffered

ASSUME BusAssumption ==
    /\ Coalesced \cap Buffered = {}
    /\ TopicOf \in [Subscriptions \cup Publishers -> Topics]
    /\ QueueSize \in Nat \ {0} /\ Events \in [Publishers -> Nat]

VARIABLES
    written,      \* writes to a topic's state
    published,    \* events each publisher has begun to publish
    writing,      \* publishers that have written and not yet published
    todo,         \* the subscriptions a Publish has not served yet
    placed,       \* those it has placed its event in and not yet woken
    pending,      \* subscription.pending; none is NoEvent
    wake,         \* subscription.wake, a channel of one
    queue,        \* subscription.queue
    loop,         \* a subscription's goroutine
    handled,      \* by subscription and publisher: the last event handled
    shown,        \* by subscription: the writes its handler has read
    subscribed,   \* Bus.subs; a subscription not in it is stopped
    quit,         \* the application's context has ended
    closing       \* Bus.Close: "no", "waiting", "returned"

state == <<written, shown>>
sending == <<published, writing, todo, placed>>
slots == <<pending, wake, queue>>
ending == <<subscribed, quit, closing>>
vars == <<written, shown, published, writing, todo, placed, pending, wake, queue, loop, handled,
          subscribed, quit, closing>>

NoEvent == <<>>

TypeOK ==
    /\ (\A p \in Publishers : published[p] \in 0 .. Events[p]) /\ writing \subseteq Publishers
    /\ todo \in [Publishers -> SUBSET Subscriptions] /\ placed \in [Publishers -> SUBSET Coalesced]
    /\ \A s \in Coalesced : pending[s] \in {NoEvent} \cup (Publishers \X Nat)
    /\ wake \in [Coalesced -> BOOLEAN]
    /\ \A s \in Buffered : Len(queue[s]) <= QueueSize
    /\ loop \in [Subscriptions -> {"select", "woken", "handling", "reread", "ended"}]
    /\ \A s \in Subscriptions, p \in Publishers : handled[s][p] \in 0 .. published[p]
    /\ \A s \in Subscriptions : shown[s] \in 0 .. written[TopicOf[s]]
    /\ subscribed \subseteq Subscriptions /\ quit \in BOOLEAN
    /\ closing \in {"no", "waiting", "returned"}

Init ==
    /\ written = [t \in Topics |-> 0] /\ shown = [s \in Subscriptions |-> 0]
    /\ published = [p \in Publishers |-> 0] /\ writing = {}
    /\ todo = [p \in Publishers |-> {}] /\ placed = [p \in Publishers |-> {}]
    /\ pending = [s \in Coalesced |-> NoEvent] /\ wake = [s \in Coalesced |-> FALSE]
    /\ queue = [s \in Buffered |-> <<>>]
    /\ loop = [s \in Subscriptions |-> "select"]
    /\ handled = [s \in Subscriptions |-> [p \in Publishers |-> 0]]
    /\ subscribed = Subscriptions /\ quit = FALSE /\ closing = "no"

-----------------------------------------------------------------------------
(* Publish.                                                                *)

Write(p) ==
    /\ p \notin writing /\ todo[p] = {} /\ published[p] < Events[p] /\ ~quit
    /\ written' = [written EXCEPT ![TopicOf[p]] = @ + 1]
    /\ writing' = writing \cup {p}
    /\ UNCHANGED <<shown, published, todo, placed, slots, loop, handled, ending>>

\* The subscribers are copied under the lock; a closed bus has none.
Publish(p) ==
    /\ p \in writing /\ writing' = writing \ {p}
    /\ published' = [published EXCEPT ![p] = @ + 1]
    /\ todo' = [todo EXCEPT ![p] = {s \in subscribed : TopicOf[s] = TopicOf[p]}]
    /\ UNCHANGED <<state, placed, slots, loop, handled, ending>>

Event(p) == <<p, published[p]>>
Served(p, s) == todo' = [todo EXCEPT ![p] = @ \ {s}] /\ UNCHANGED <<published, writing>>

\* The slot holds the newest event, ...
Place(p, s) ==
    /\ s \in (todo[p] \cap Coalesced) \ placed[p]
    /\ pending' = [pending EXCEPT ![s] = Event(p)]
    /\ placed' = [placed EXCEPT ![p] = @ \cup {s}]
    /\ UNCHANGED <<state, published, writing, todo, wake, queue, loop, handled, ending>>

\* Mutant of Signal: the channel holds nothing, so a busy goroutine misses it.
SignalUnbuffered(p, s) ==
    /\ s \in placed[p] /\ placed' = [placed EXCEPT ![p] = @ \ {s}]
    /\ wake' = [wake EXCEPT ![s] = (loop[s] = "select")]
    /\ Served(p, s)
    /\ UNCHANGED <<state, pending, queue, loop, handled, ending>>

\* ... and then the goroutine is woken, unless it already is.
Signal(p, s) ==
    /\ s \in placed[p] /\ placed' = [placed EXCEPT ![p] = @ \ {s}]
    /\ wake' = [wake EXCEPT ![s] = TRUE]
    /\ Served(p, s)
    /\ UNCHANGED <<state, pending, queue, loop, handled, ending>>

\* Mutant of Enqueue: an event that does not fit is dropped.
EnqueueOrDrop(p, s) ==
    /\ s \in todo[p] \cap Buffered
    /\ queue' = IF Len(queue[s]) < QueueSize THEN [queue EXCEPT ![s] = Append(@, Event(p))] ELSE queue
    /\ Served(p, s)
    /\ UNCHANGED <<state, placed, pending, wake, loop, handled, ending>>

Enqueue(p, s) ==
    /\ s \in todo[p] \cap Buffered /\ Len(queue[s]) < QueueSize
    /\ queue' = [queue EXCEPT ![s] = Append(@, Event(p))]
    /\ Served(p, s)
    /\ UNCHANGED <<state, placed, pending, wake, loop, handled, ending>>

Stopped(s) == s \notin subscribed \/ quit

\* Mutant of Released: only the context ends the wait.
ReleasedByContext(s) == s \in Subscriptions /\ quit

\* The subscription is cancelled, or the publisher's context has ended.
Released(s) == Stopped(s)

GiveUp(p, s) ==
    /\ s \in todo[p] \cap Buffered /\ Released(s)
    /\ Served(p, s)
    /\ UNCHANGED <<state, placed, slots, loop, handled, ending>>

-----------------------------------------------------------------------------
(* A subscription's goroutine.                                             *)

Wakes(s) ==
    /\ s \in Coalesced /\ loop[s] = "select" /\ wake[s]
    /\ wake' = [wake EXCEPT ![s] = FALSE]
    /\ loop' = [loop EXCEPT ![s] = "woken"]
    /\ UNCHANGED <<state, sending, pending, queue, handled, ending>>

Handles(s, e) ==
    /\ loop' = [loop EXCEPT ![s] = IF e = NoEvent THEN "select" ELSE "handling"]
    /\ handled' = IF e = NoEvent THEN handled ELSE [handled EXCEPT ![s][e[1]] = e[2]]

\* Another publisher's wake-up may have brought the event already.
Takes(s) ==
    /\ s \in Coalesced /\ loop[s] = "woken"
    /\ pending' = [pending EXCEPT ![s] = NoEvent]
    /\ Handles(s, pending[s])
    /\ UNCHANGED <<state, sending, wake, queue, ending>>

Dequeues(s) ==
    /\ s \in Buffered /\ loop[s] = "select" /\ queue[s] # <<>>
    /\ queue' = [queue EXCEPT ![s] = Tail(@)]
    /\ Handles(s, Head(queue[s]))
    /\ UNCHANGED <<state, sending, pending, wake, ending>>

\* A coalescing handler has the state re-read while it runs.
Rereads(s) ==
    /\ s \in Coalesced /\ loop[s] = "handling"
    /\ loop' = [loop EXCEPT ![s] = "reread"]
    /\ shown' = [shown EXCEPT ![s] = written[TopicOf[s]]]
    /\ UNCHANGED <<written, sending, slots, handled, ending>>

Returns(s) ==
    /\ loop[s] = IF s \in Coalesced THEN "reread" ELSE "handling"
    /\ loop' = [loop EXCEPT ![s] = "select"]
    /\ UNCHANGED <<state, sending, slots, handled, ending>>

\* select may take stop or the context although an event is there.
Ends(s) ==
    /\ loop[s] = "select" /\ Stopped(s)
    /\ loop' = [loop EXCEPT ![s] = "ended"]
    /\ UNCHANGED <<state, sending, slots, handled, ending>>

-----------------------------------------------------------------------------
(* Teardown: the adapter cancels its subscriptions; App.Close ends the     *)
(* context and, once the publishers have stopped, closes the bus.          *)

Unsubscribe ==
    /\ subscribed # {} /\ subscribed' = {}
    /\ UNCHANGED <<state, sending, slots, loop, handled, quit, closing>>

Quit ==
    /\ ~quit /\ quit' = TRUE
    /\ UNCHANGED <<state, sending, slots, loop, handled, subscribed, closing>>

Close ==
    /\ quit /\ closing = "no" /\ closing' = "waiting"
    /\ subscribed' = {}
    /\ UNCHANGED <<state, sending, slots, loop, handled, quit>>

CloseReturns ==
    /\ closing = "waiting" /\ \A s \in Subscriptions : loop[s] = "ended"
    /\ closing' = "returned"
    /\ UNCHANGED <<state, sending, slots, loop, handled, subscribed, quit>>

-----------------------------------------------------------------------------
Publishes(p) ==
    \/ Publish(p)
    \/ \E s \in Subscriptions : Place(p, s) \/ Signal(p, s) \/ Enqueue(p, s) \/ GiveUp(p, s)
Goroutine(s) == Wakes(s) \/ Takes(s) \/ Dequeues(s) \/ Rereads(s) \/ Returns(s) \/ Ends(s)

Next ==
    \/ \E p \in Publishers : Write(p) \/ Publishes(p)
    \/ \E s \in Subscriptions : Goroutine(s)
    \/ Unsubscribe \/ Quit \/ Close \/ CloseReturns

Spec == Init /\ [][Next]_vars

\* Goroutines go on; nothing obliges anyone to write or to quit.
FairSpec ==
    /\ Spec /\ WF_vars(CloseReturns)
    /\ \A p \in Publishers : WF_vars(Publishes(p))
    /\ \A s \in Subscriptions : WF_vars(Goroutine(s))

-----------------------------------------------------------------------------
\* A Buffer subscriber sees every event of a publisher, in order, until the
\* teardown, whoever else publishes to it.
EachInOrder ==
    [][\A s \in Buffered, p \in Publishers :
         ~Stopped(s) => handled'[s][p] \in {handled[s][p], handled[s][p] + 1}]_vars

\* However events are coalesced, a subscriber that is never stopped comes to
\* show the state as it was last written, again and again.
CatchesUp == \A s \in Coalesced : []<>(shown[s] = written[TopicOf[s]] \/ Stopped(s))

\* No publisher is held up for good by a subscriber that is gone, however
\* full its queue.
PublishReturns == \A p \in Publishers : p \in writing \/ todo[p] # {} ~> p \notin writing /\ todo[p] = {}

=============================================================================
