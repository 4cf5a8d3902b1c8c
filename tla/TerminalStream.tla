--------------------------- MODULE TerminalStream ---------------------------
(* One live terminal (tmuxcc/client.go, tmuxcc/paint.go) on its broker:    *)
(* the reader that routes tmux's output through the paint gate, the first  *)
(* paints that an attach, a re-attach, an overflow and a new pane run, the *)
(* teardown.                                                               *)
(*                                                                         *)
(* produced[p] counts the bytes of pane p the reader has read.  A pane the *)
(* gate holds keeps those after mark[p] back.  item says what each         *)
(* published number is: byte n of pane p, a snapshot of p that shows its   *)
(* first n bytes, or a lifecycle event.  A snapshot is one byte long.      *)
(* Panes may appear and do not close; window events are left out.          *)
EXTENDS Broker

CONSTANTS
    Shown,        \* the panes of the active window, painted before an attach answers
    New,          \* the panes tmux opens once it is attached to
    MaxProduced,  \* bound of the model: bytes tmux writes
    MaxAttach,    \* bound of the model: re-attaches
    MaxFailures   \* bound of the model: captures that fail or time out

ASSUME StreamAssumption ==
    /\ Shown \subseteq Panes /\ New \subseteq Panes /\ NoPane \notin Panes
    /\ MaxProduced \in Nat /\ MaxAttach \in Nat /\ MaxFailures \in Nat

VARIABLES
    produced, mark, gate,
    known,              \* the panes of the controller's windows
    owed,               \* panes paintGate.hold reports to be owed a first paint
    reconcile,          \* a reconcile is requested
    blank,              \* history: panes released without a snapshot
    crossed,            \* history: panes one pass marked or let go while another painted them
    item,               \* history
    work,               \* the first-paint passes
    attached,           \* the first attach: "no", "yes", "failed"
    owner, step,        \* the holder of repaintMu and where it is
    resyncing,          \* an overflow resync is claimed
    torn,               \* the teardown: "no", "cancelled", "exited", "closed"
    ready,              \* an attach has answered and its stream has no subscriber yet
    attaches, failures

screen  == <<produced, mark, gate>>
panes   == <<known, owed, reconcile>>
flaws   == <<blank, crossed>>
pass    == <<owner, step, resyncing>>
door    == <<attached, ready>>
counts  == <<attaches, failures>>
client  == <<screen, panes, flaws, work, pass, torn, door, counts>>
allVars == <<vars, item, client>>

\* The pass of negotiate, the pass under repaintMu, the goroutine either leaves
\* behind for the panes that are not shown, and the worker's pass.
Background == {"attach deferred", "locked deferred"}
Passes     == {"attach", "locked", "worker"} \cup Background

\* todo: panes still to paint; later: panes to leave behind; n: what the
\* snapshot shows; unwind: the pass has failed.
NoWork == [todo |-> {}, later |-> {}, pane |-> NoPane, pc |-> "next", n |-> 0, unwind |-> FALSE]
Paints(todo, later) == [NoWork EXCEPT !.todo = todo, !.later = later]

Idling(w) == work[w] = NoWork

\* negotiate has set the windows and holds their panes.
StreamInit ==
    /\ Init
    /\ produced = [p \in Panes |-> 0] /\ mark = produced
    /\ known = Panes \ New /\ owed = {} /\ reconcile = FALSE
    /\ gate = [p \in Panes |-> IF p \in known THEN "held" ELSE "live"]
    /\ blank = {} /\ crossed = {} /\ item = <<>>
    /\ work = [w \in Passes |-> IF w = "attach" THEN Paints(known \cap Shown, known \ Shown) ELSE NoWork]
    /\ attached = "no" /\ owner = "none" /\ step = "idle" /\ resyncing = FALSE
    /\ torn = "no" /\ ready = FALSE
    /\ attaches = 0 /\ failures = 0

-----------------------------------------------------------------------------
(* Publishing: emitOutput and publish.  A closed broker takes nothing.     *)

Byte(p, n) == [kind |-> "byte", pane |-> p, n |-> n]
Snap(p, n) == [kind |-> "snapshot", pane |-> p, n |-> n]
Life(k)    == [kind |-> k, pane |-> NoPane, n |-> 0]

\* items are published as one event of pane p.
Emit(p, items) ==
    IF items = <<>> \/ closed
    THEN UNCHANGED <<vars, item>>
    ELSE /\ Publish([kind |-> "output", pane |-> p,
                     ids |-> [i \in 1 .. Len(items) |-> next + i - 1]])
         /\ item' = item \o items

Tell(k) ==
    IF closed
    THEN UNCHANGED <<vars, item>>
    ELSE Publish(Notice("lifecycle")) /\ item' = Append(item, Life(k))

-----------------------------------------------------------------------------
(* The paint gate.  A snapshot and the tail behind it are emitted under    *)
(* its one lock.                                                           *)

GateLocked == \E w \in Passes : work[w].pc = "tail"

\* rehold, hold: a pane that is held already keeps its mark.
Hold(S) ==
    /\ gate' = [p \in Panes |-> IF p \in S THEN "held" ELSE gate[p]]
    /\ mark' = [p \in Panes |-> IF p \in S /\ gate[p] = "live" THEN produced[p] ELSE mark[p]]

\* What the gate has held back of pane p since its mark.
HeldBack(p) == [i \in 1 .. produced[p] - mark[p] |-> Byte(p, mark[p] + i)]

LetGo(p) ==
    /\ Emit(p, HeldBack(p))
    /\ gate' = [gate EXCEPT ![p] = "live"]
    /\ owed' = owed \ {p}

\* release without a snapshot; a pane that is not held is left alone.
ReleaseBlank(p) ==
    IF gate[p] = "held"
    THEN LetGo(p) /\ blank' = blank \cup {p}
    ELSE UNCHANGED <<vars, item, gate, owed, blank>>

-----------------------------------------------------------------------------
(* The reader                                                              *)

\* route: a held pane's bytes wait, a live one's go to the stream.
Produce(p) ==
    /\ torn = "no" /\ ~GateLocked /\ p \in known
    /\ FoldFunction(+, 0, produced) < MaxProduced
    /\ produced' = [produced EXCEPT ![p] = @ + 1]
    /\ IF gate[p] = "live"
       THEN Emit(p, <<Byte(p, produced[p] + 1)>>)
       ELSE UNCHANGED <<vars, item>>
    /\ UNCHANGED <<mark, gate, panes, flaws, work, pass, torn, door, counts>>

\* Mutant of RequestReconcile: nobody asks for one.
RequestNothing == UNCHANGED reconcile

RequestReconcile == reconcile' = TRUE

\* A layout names a new pane: it is held before the controller knows it.
NewPane(p) ==
    /\ torn = "no" /\ ~GateLocked /\ p \in New \ known
    /\ Hold({p})
    /\ known' = known \cup {p} /\ owed' = owed \cup {p} /\ RequestReconcile
    /\ UNCHANGED <<vars, item, produced, flaws, work, pass, torn, door, counts>>

\* tmux exits or its control stream breaks.
ControlStreamEnds ==
    /\ torn = "no"
    /\ torn' = "cancelled"
    /\ UNCHANGED <<vars, item, screen, panes, flaws, work, pass, door, counts>>

-----------------------------------------------------------------------------
(* firstPaint, one pane of pass w after the other                          *)

\* A pass has the pane in hand: it has marked it and not let it go.
BeingPainted(p) == \E w \in Passes : work[w].pane = p

\* What came before the mark the snapshot will show.
Mark(w, p) ==
    /\ work[w].pc = "next" /\ ~work[w].unwind /\ p \in work[w].todo
    /\ ~GateLocked
    /\ mark' = [mark EXCEPT ![p] = produced[p]]
    /\ gate' = [gate EXCEPT ![p] = "held"]
    /\ owed' = owed \ {p}
    /\ crossed' = IF BeingPainted(p) THEN crossed \cup {p} ELSE crossed \ {p}
    /\ work' = [work EXCEPT ![w].todo = @ \ {p}, ![w].pane = p, ![w].pc = "marked"]
    /\ UNCHANGED <<vars, item, produced, known, reconcile, blank, pass, torn, door, counts>>

\* The reader hands the reply over; it shows what was read before it.
Capture(w) ==
    /\ work[w].pc = "marked" /\ torn = "no"
    /\ work' = [work EXCEPT ![w].pc = "captured", ![w].n = produced[work[w].pane]]
    /\ UNCHANGED <<vars, item, screen, panes, flaws, pass, torn, door, counts>>

Painted(w) == [work EXCEPT ![w].pane = NoPane, ![w].pc = "next", ![w].n = 0]

\* The first half of release; a pane that is not held any more is left alone.
Paint(w) ==
    LET p == work[w].pane
    IN  /\ work[w].pc = "captured" /\ ~GateLocked
        /\ IF gate[p] = "held"
           THEN /\ Emit(p, <<Snap(p, work[w].n)>>)
                /\ work' = [work EXCEPT ![w].pc = "tail"]
                /\ blank' = blank \ {p}
           ELSE /\ work' = Painted(w)
                /\ UNCHANGED <<vars, item, blank>>
        /\ UNCHANGED <<screen, panes, crossed, pass, torn, door, counts>>

\* The second half of release.
Follow(w) ==
    /\ work[w].pc = "tail"
    /\ LetGo(work[w].pane)
    /\ work' = Painted(w)
    /\ UNCHANGED <<produced, mark, known, reconcile, flaws, pass, torn, door, counts>>

\* Background paints go on after a failure unless their time is up.
Unwinds(w) == IF w \in Background /\ torn = "no" THEN BOOLEAN ELSE {TRUE}

\* What a pass that fails has to release before it returns.
Unreached(w) == work[w].todo \cup work[w].later

\* A capture fails, or its context has ended: the pane is released unpainted.
CaptureFails(w) ==
    /\ work[w].pc = "marked" /\ ~GateLocked
    /\ torn = "no" => failures < MaxFailures
    /\ failures' = IF torn = "no" THEN failures + 1 ELSE failures
    /\ ReleaseBlank(work[w].pane)
    /\ \E unwind \in Unwinds(w) :
          work' = [Painted(w) EXCEPT ![w].unwind = unwind,
                                     ![w].todo = IF unwind THEN Unreached(w) ELSE @,
                                     ![w].later = IF unwind THEN {} ELSE @]
    /\ UNCHANGED <<produced, mark, known, reconcile, crossed, pass, torn, door, attaches>>

\* releaseRemaining, or discard in the worker: the panes a failed pass did not
\* reach.
Unwind(w, p) ==
    /\ work[w].unwind /\ p \in work[w].todo /\ ~GateLocked
    /\ IF w = "worker"
       THEN /\ gate' = [gate EXCEPT ![p] = "live"]
            /\ owed' = owed \cup {p} /\ blank' = blank \cup {p}
            /\ UNCHANGED <<vars, item>>
       ELSE ReleaseBlank(p)
    /\ crossed' = IF BeingPainted(p) THEN crossed \cup {p} ELSE crossed
    /\ work' = [work EXCEPT ![w].todo = @ \ {p}]
    /\ UNCHANGED <<produced, mark, known, reconcile, pass, torn, door, counts>>

Ended(w) == work[w].pc = "next" /\ work[w].todo = {}

\* The worker's pass and the background ones just return.
PassReturns(w) ==
    /\ w \in Background \cup {"worker"}
    /\ ~Idling(w) /\ Ended(w)
    /\ work' = [work EXCEPT ![w] = NoWork]
    /\ UNCHANGED <<vars, item, screen, panes, flaws, pass, torn, door, counts>>

\* runReconcile holds and paints the panes that are owed a first paint.
Reconcile ==
    /\ reconcile /\ attached = "yes" /\ torn = "no" /\ Idling("worker") /\ ~GateLocked
    /\ reconcile' = FALSE
    /\ Hold(owed)
    /\ work' = [work EXCEPT !["worker"] = Paints(owed, {})]
    /\ UNCHANGED <<vars, item, produced, known, owed, flaws, pass, torn, door, counts>>

-----------------------------------------------------------------------------
(* Attach.  The pass of a first attach does not hold repaintMu.            *)

\* Mutant of TearDown: the stream is left as it is.
LeaveUp == UNCHANGED torn

TearDown == torn' = IF torn = "no" THEN "cancelled" ELSE torn

\* The deferred panes are left behind to a goroutine of their own.
LeaveBehind(w, g) == [work EXCEPT ![w] = NoWork, ![g] = Paints(work[w].later, {})]

\* The manager registers a client that is not torn down.
AttachAnswers ==
    /\ attached = "no" /\ Ended("attach") /\ ~work["attach"].unwind
    /\ attached' = "yes" /\ ready' = (torn = "no")
    /\ work' = LeaveBehind("attach", "attach deferred")
    /\ Tell("attached")
    /\ UNCHANGED <<screen, panes, flaws, pass, torn, counts>>

AttachFails ==
    /\ attached = "no" /\ Ended("attach") /\ work["attach"].unwind
    /\ attached' = "failed" /\ TearDown
    /\ work' = [work EXCEPT !["attach"] = NoWork]
    /\ UNCHANGED <<vars, item, screen, panes, flaws, pass, ready, counts>>

-----------------------------------------------------------------------------
(* Repaint and resyncOverflow, which share repaintMu and paintEveryWindow  *)

\* Manager.Attach on a live client.
LockAttach ==
    /\ owner = "none" /\ attached = "yes" /\ torn = "no" /\ attaches < MaxAttach
    /\ attaches' = attaches + 1
    /\ owner' = "attach" /\ step' = "wait" /\ ready' = FALSE
    /\ UNCHANGED <<vars, item, screen, panes, flaws, work, resyncing, torn, attached, failures>>

\* The broker's callback: a second overflow while one is being answered ends
\* the stream.
ClaimResync ==
    /\ reports > 0
    /\ reports' = reports - 1
    /\ IF resyncing THEN TearDown /\ UNCHANGED resyncing
                    ELSE resyncing' = TRUE /\ UNCHANGED torn
    /\ UNCHANGED <<backlog, overflow, cooling, subs, epoch, closed, pump, got, lost, next,
                   item, screen, panes, flaws, work, owner, step, door, counts>>

LockResync ==
    /\ resyncing /\ owner = "none"
    /\ owner' = "resync" /\ step' = "wait"
    /\ UNCHANGED <<vars, item, screen, panes, flaws, work, resyncing, torn, door, counts>>

\* bgPaint.Wait
BackgroundDone == \A w \in Background : Idling(w)

\* Repaint drops the backlog and its subscriber.
BeginRepaint ==
    /\ owner = "attach" /\ step = "wait" /\ BackgroundDone
    /\ IF closed THEN UNCHANGED vars ELSE Reset
    /\ step' = "hold"
    /\ UNCHANGED <<item, screen, panes, flaws, work, owner, resyncing, torn, door, counts>>

\* A resync drops the backlog and keeps the subscriber; one that is refused
\* ends the stream.
BeginResync ==
    /\ owner = "resync" /\ step = "wait" /\ BackgroundDone
    /\ Resync
    /\ IF CanResync THEN step' = "degrade" /\ UNCHANGED torn
                    ELSE step' = "end" /\ TearDown
    /\ UNCHANGED <<reports, subs, closed, pump, got, next,
                   item, screen, panes, flaws, work, owner, resyncing, door, counts>>

SayDegraded ==
    /\ step = "degrade"
    /\ Tell("degraded")
    /\ step' = "hold"
    /\ UNCHANGED <<screen, panes, flaws, work, owner, resyncing, torn, door, counts>>

\* Mutant of Reheld: the deferred panes are not held.
ReheldShown == known \cap Shown

\* holdPanes holds every pane of every window.
Reheld == known

HoldPanes ==
    /\ step = "hold" /\ ~GateLocked
    /\ Hold(Reheld)
    /\ work' = [work EXCEPT !["locked"] = Paints(known \cap Shown, Reheld \ Shown)]
    /\ step' = "paint"
    /\ UNCHANGED <<vars, item, produced, panes, flaws, owner, resyncing, torn, door, counts>>

Unlocked ==
    /\ owner' = "none" /\ step' = "idle"
    /\ resyncing' = IF owner = "resync" THEN FALSE ELSE resyncing

\* The shown panes are painted: the attach answers, the rest is deferred.
PassSucceeds ==
    /\ step = "paint" /\ Ended("locked") /\ ~work["locked"].unwind
    /\ work' = LeaveBehind("locked", "locked deferred")
    /\ ready' = (ready \/ owner = "attach")
    /\ Unlocked
    /\ UNCHANGED <<vars, item, screen, panes, flaws, torn, attached, counts>>

\* A failed re-attach reports its error; a failed resync ends the stream.
PassFails ==
    /\ step = "paint" /\ Ended("locked") /\ work["locked"].unwind
    /\ work' = [work EXCEPT !["locked"] = NoWork]
    /\ IF owner = "attach"
       THEN Unlocked /\ UNCHANGED torn
       ELSE TearDown /\ step' = "end" /\ UNCHANGED <<owner, resyncing>>
    /\ UNCHANGED <<vars, item, screen, panes, flaws, door, counts>>

\* The resync's goroutine returns from the teardown it started or joined.
EndResync ==
    /\ step = "end" /\ torn = "closed"
    /\ Unlocked
    /\ UNCHANGED <<vars, item, screen, panes, flaws, work, torn, door, counts>>

-----------------------------------------------------------------------------
(* teardown joins the reader, the worker and the background paints, says   *)
(* why the stream ended, and closes it.  It does not join the others.      *)

SayExited ==
    /\ torn = "cancelled" /\ BackgroundDone /\ Idling("worker")
    /\ Tell("exited")
    /\ torn' = "exited"
    /\ UNCHANGED <<screen, panes, flaws, work, pass, door, counts>>

CloseStream ==
    /\ torn = "exited"
    /\ Close
    /\ torn' = "closed"
    /\ UNCHANGED <<item, screen, panes, flaws, work, pass, door, counts>>

-----------------------------------------------------------------------------
(* The transport subscribes once an attach has answered, may stop reading, *)
(* and may go away.                                                        *)

Connect ==
    /\ ready
    /\ Subscribe
    /\ ready' = FALSE
    /\ UNCHANGED <<item, screen, panes, flaws, work, pass, torn, attached, counts>>

StreamPump(g) == Pump(g) /\ UNCHANGED <<item, client>>
Disconnect(g) == Unsubscribe(g) /\ UNCHANGED <<item, client>>
CoolDown      == Cooled /\ UNCHANGED <<item, client>>

FirstPaint(w) ==
    /\ ~Idling(w)
    /\ \/ Capture(w) \/ Paint(w) \/ Follow(w) \/ CaptureFails(w) \/ PassReturns(w)
       \/ \E p \in Panes : Mark(w, p) \/ Unwind(w, p)

\* The goroutine that holds repaintMu, the first attach's, and teardown's.
Holder ==
    /\ owner # "none"
    /\ \/ BeginRepaint \/ BeginResync \/ SayDegraded \/ HoldPanes
       \/ PassSucceeds \/ PassFails \/ EndResync
Attacher == attached = "no" /\ (AttachAnswers \/ AttachFails)
Teardown == torn \in {"cancelled", "exited"} /\ (SayExited \/ CloseStream)

StreamNext ==
    \/ \E p \in Panes : Produce(p) \/ NewPane(p)
    \/ \E w \in Passes : FirstPaint(w)
    \/ Attacher \/ Reconcile \/ LockAttach \/ ClaimResync \/ LockResync \/ Holder
    \/ ControlStreamEnds \/ Teardown
    \/ Connect \/ CoolDown
    \/ \E g \in Gens : StreamPump(g) \/ Disconnect(g)

StreamSpec == StreamInit /\ [][StreamNext]_allVars

\* The goroutines run and a capture is answered or times out.
FairStreamSpec ==
    /\ StreamSpec
    /\ \A w \in Passes : WF_allVars(FirstPaint(w))
    /\ WF_allVars(ClaimResync) /\ WF_allVars(LockResync) /\ WF_allVars(Holder)
    /\ WF_allVars(Attacher) /\ WF_allVars(Reconcile) /\ WF_allVars(Teardown)

-----------------------------------------------------------------------------
(* Properties                                                              *)

\* The type of the variables.
StreamTypeOK ==
    /\ TypeOK
    /\ \A p \in Panes : mark[p] \in 0 .. produced[p]
    /\ \A p \in Panes : gate[p] \in {"live", "held"}
    /\ known \subseteq Panes /\ owed \subseteq known /\ reconcile \in BOOLEAN
    /\ blank \subseteq Panes /\ crossed \subseteq Panes /\ Len(item) = next - 1
    /\ \A w \in Passes :
          /\ work[w].todo \subseteq known /\ work[w].later \subseteq known
          /\ work[w].pc \in {"next", "marked", "captured", "tail"}
          /\ work[w].pane \in (IF work[w].pc = "next" THEN {NoPane} ELSE Panes)
          /\ work[w].n \in Nat /\ work[w].unwind \in BOOLEAN
    /\ attached \in {"no", "yes", "failed"} /\ owner \in {"none", "attach", "resync"}
    /\ step \in {"idle", "wait", "degrade", "hold", "paint", "end"}
    /\ (owner = "none") = (step = "idle")
    /\ resyncing \in BOOLEAN /\ ready \in BOOLEAN
    /\ torn \in {"no", "cancelled", "exited", "closed"} /\ closed = (torn = "closed")

\* What the emulators of subscriber g show: the frontend resets them on the
\* degraded event.
OnScreen(g) ==
    LET edges == {n \in got[g] : item[n].kind = "degraded"}
    IN  {n \in got[g] : \A d \in edges : n > d}

Displays(g, p, n) ==
    \E i \in OnScreen(g) :
        item[i].pane = p /\ (item[i] = Byte(p, n) \/ (item[i].kind = "snapshot" /\ item[i].n >= n))

\* Nothing is under way between tmux and subscriber g.
Settled(g) ==
    /\ sub = g /\ torn = "no" /\ buf = <<>> /\ pump[g].pc = "look"
    /\ \A w \in Passes : Idling(w)
    /\ owner = "none" /\ ~resyncing /\ reports = 0 /\ ~reconcile

ShowsAll(g, p) == \A n \in 1 .. produced[p] : Displays(g, p, n)

\* Whatever overflowed, was reset or was repainted on the way, a subscriber
\* that has caught up shows all that tmux wrote to every pane that was painted,
\* and that no other pass marked or let go meanwhile.
ScreenComplete ==
    \A g \in Gens : Settled(g) => \A p \in known \ (blank \cup crossed) : ShowsAll(g, p)

\* The gate never keeps a pane's output without a pass that will let it go.
NoPaneLeftHeld ==
    \A p \in Panes : gate[p] # "live" =>
        \/ \E w \in Passes : p \in work[w].todo \cup work[w].later \cup {work[w].pane}
        \/ p \in owed /\ reconcile

\* An overflow is always answered, and the answer ends: every pane has been
\* painted again and the lock is free, or the stream has ended.
OverflowEnds == overflow \/ resyncing ~> (~overflow /\ ~resyncing) \/ closed

\* The live output that arrives while a snapshot is in flight is replayed
\* behind it, also when a second pass paints the same pane.
NothingSkipped ==
    \A g \in Gens : Settled(g) => \A p \in known \ blank : ShowsAll(g, p)
=============================================================================
