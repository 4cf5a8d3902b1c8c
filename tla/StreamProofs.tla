---------------------------- MODULE StreamProofs ----------------------------
(* Proofs about TerminalStream, for every bound: the paint gate keeps no   *)
(* pane's output without somebody who will let it go, and a subscriber     *)
(* that has caught up shows every byte of every pane that was painted and  *)
(* that no two passes had in hand at once.                                 *)
EXTENDS TerminalStream, BrokerProofs

-----------------------------------------------------------------------------
(* The inductive invariant                                                 *)

\* A pass under way over panes the controller knows.
Works == [todo : SUBSET known, later : SUBSET known, pane : Panes \cup {NoPane},
          pc : {"next", "marked", "captured", "tail"}, n : Nat, unwind : BOOLEAN]

PanesKnown == known \subseteq Panes /\ owed \subseteq known
ScreenTypes == produced \in [Panes -> Nat] /\ gate \in [Panes -> {"live", "held"}]
WorkTypes  == work \in [Passes -> Works]

\* A pass between two panes has none in hand.
EmptyHanded == \A w \in Passes : work[w].pc = "next" <=> work[w].pane = NoPane

\* Nobody who runs in the background, and no pass that has failed, will leave
\* panes behind.
Alone == Background \cup {"worker"}
LeavesNone == \A w \in Passes : work[w].unwind \/ w \in Alone => work[w].later = {}

\* Nobody paints yet where a pass will leave its deferred panes.
Vacant ==
    /\ attached = "no" => Idling("attach deferred")
    /\ step \in {"degrade", "hold", "paint"} => Idling("locked deferred")

HeldKnown == \A p \in Panes : gate[p] = "held" => p \in known

\* The panes that a pass has still to do with.
Hands(r) == r.todo \cup r.later \cup {r.pane}

HoldInv ==
    /\ PanesKnown /\ ScreenTypes /\ WorkTypes
    /\ EmptyHanded /\ LeavesNone /\ Vacant /\ HeldKnown
    /\ NoPaneLeftHeld

-----------------------------------------------------------------------------
(* The passes                                                              *)

LEMMA Idles == NoWork \in Works /\ Hands(NoWork) = {NoPane}
BY DEF NoWork, Works, Hands

LEMMA PaintsWork ==
  ASSUME NEW todo \in SUBSET known, NEW later \in SUBSET known
  PROVE  /\ Paints(todo, later) \in Works
         /\ Hands(Paints(todo, later)) = todo \cup later \cup {NoPane}
         /\ Paints(todo, later).pane = NoPane /\ Paints(todo, later).later = later
         /\ ~Paints(todo, later).unwind
BY DEF Paints, NoWork, Works, Hands

\* A held pane is in somebody's hands, or owed with a reconcile requested.
LEMMA HeldDef ==
  ASSUME ScreenTypes
  PROVE  NoPaneLeftHeld <=>
           \A p \in Panes : gate[p] = "held" =>
             (\E w \in Passes : p \in Hands(work[w])) \/ (p \in owed /\ reconcile)
<1>1. \A p \in Panes : gate[p] # "live" <=> gate[p] = "held"
  BY DEF ScreenTypes
<1> QED
  BY <1>1 DEF NoPaneLeftHeld, Hands

\* The same of the next state, as far as the proofs need it.
LEMMA HeldNext ==
  ASSUME ScreenTypes',
         \A p \in Panes : gate'[p] = "held" =>
           (\E w \in Passes : p \in Hands(work'[w])) \/ (p \in owed' /\ reconcile')
  PROVE  NoPaneLeftHeld'
<1>1. \A p \in Panes : gate'[p] # "live" <=> gate'[p] = "held"
  BY DEF ScreenTypes
<1> QED
  BY <1>1 DEF NoPaneLeftHeld, Hands

\* A pass that is under way makes a step of its own.
LEMMA PassStep ==
  ASSUME HoldInv, NEW w \in Passes, NEW r \in Works, ~Idling(w),
         work' = [work EXCEPT ![w] = r],
         UNCHANGED <<known, attached, step, reconcile, produced>>,
         r.pc = "next" <=> r.pane = NoPane,
         r.unwind \/ w \in Alone => r.later = {},
         gate' \in [Panes -> {"live", "held"}], owed' \subseteq known,
         \A p \in Panes : gate'[p] = "held" =>
            /\ p \in known
            /\ \/ p \in Hands(r)
               \/ /\ gate[p] = "held" /\ p \notin Hands(work[w])
                  /\ p \in owed => p \in owed'
  PROVE  HoldInv'
<1>1. PanesKnown' /\ ScreenTypes' /\ HeldKnown'
  BY DEF HoldInv, PanesKnown, ScreenTypes, HeldKnown
<1>2. work \in [Passes -> Works] /\ Works' = Works
  BY DEF HoldInv, WorkTypes, Works
<1>3. work' \in [Passes -> Works] /\ work'[w] = r /\ \A v \in Passes : v # w => work'[v] = work[v]
  BY <1>2
<1>4. WorkTypes'
  BY <1>2, <1>3 DEF WorkTypes
<1>5. EmptyHanded' /\ LeavesNone'
  BY <1>3 DEF HoldInv, EmptyHanded, LeavesNone
<1>6. Vacant'
  BY <1>3 DEF HoldInv, Vacant, Idling, Passes, Background
<1>7. NoPaneLeftHeld'
  <2> SUFFICES ASSUME NEW p \in Panes, gate'[p] = "held"
               PROVE  (\E v \in Passes : p \in Hands(work'[v])) \/ (p \in owed' /\ reconcile')
    BY <1>1, HeldNext
  <2>1. CASE p \in Hands(r)
    BY <1>3, <2>1
  <2>2. CASE gate[p] = "held" /\ p \notin Hands(work[w]) /\ (p \in owed => p \in owed')
    <3>1. (\E v \in Passes : p \in Hands(work[v])) \/ (p \in owed /\ reconcile)
      BY <2>2, HeldDef DEF HoldInv
    <3> QED
      BY <1>3, <2>2, <3>1
  <2> QED
    BY <2>1, <2>2
<1> QED
  BY <1>1, <1>4, <1>5, <1>6, <1>7 DEF HoldInv


\* What a pass record is.
LEMMA WorkFields ==
  ASSUME HoldInv, NEW w \in Passes
  PROVE  /\ work[w] \in Works
         /\ work[w].todo \subseteq known /\ work[w].later \subseteq known /\ known \subseteq Panes
         /\ work[w].pane \in Panes \cup {NoPane} /\ work[w].n \in Nat /\ work[w].unwind \in BOOLEAN
         /\ work[w].pc \in {"next", "marked", "captured", "tail"}
         /\ work[w].pc = "next" <=> work[w].pane = NoPane
         /\ work[w].unwind \/ w \in Alone => work[w].later = {}
         /\ gate \in [Panes -> {"live", "held"}] /\ owed \subseteq known
         /\ \A p \in Panes : gate[p] = "held" => p \in known
         /\ produced \in [Panes -> Nat]
<1>1. work[w] \in Works
  BY DEF HoldInv, WorkTypes
<1>2. /\ work[w].todo \subseteq known /\ work[w].later \subseteq known /\ known \subseteq Panes
      /\ work[w].pane \in Panes \cup {NoPane} /\ work[w].n \in Nat /\ work[w].unwind \in BOOLEAN
      /\ work[w].pc \in {"next", "marked", "captured", "tail"}
  BY <1>1 DEF HoldInv, PanesKnown, Works
<1> QED
  BY <1>1, <1>2 DEF HoldInv, EmptyHanded, LeavesNone, ScreenTypes, PanesKnown, HeldKnown

\* The pane whose first paint is over, or that is passed over, is not held.
LEMMA LiveStep ==
  ASSUME HoldInv, NEW w \in Passes, NEW r \in Works, ~Idling(w),
         work' = [work EXCEPT ![w] = r],
         UNCHANGED <<known, attached, step, reconcile, produced>>,
         r.pc = "next" <=> r.pane = NoPane,
         r.unwind \/ w \in Alone => r.later = {},
         NEW q \in Panes \cup {NoPane},
         \A p \in Panes : p # q => gate'[p] = gate[p],
         q \in Panes => gate'[q] = "live",
         gate' \in [Panes -> {"live", "held"}], owed' \subseteq known, owed \subseteq owed' \cup {q},
         Hands(work[w]) \subseteq Hands(r) \cup {q}
  PROVE  HoldInv'
<1> SUFFICES ASSUME NEW p \in Panes, gate'[p] = "held"
             PROVE  /\ p \in known
                    /\ \/ p \in Hands(r)
                       \/ /\ gate[p] = "held" /\ p \notin Hands(work[w])
                          /\ p \in owed => p \in owed'
  BY PassStep
<1>1. p # q
  OBVIOUS
<1>2. gate[p] = "held"
  BY <1>1
<1> QED
  BY <1>1, <1>2, WorkFields

LEMMA MarkStep ==
  ASSUME HoldInv, NEW w \in Passes, NEW p \in Panes, ~Idling(w), Mark(w, p)
  PROVE  HoldInv'
<1> DEFINE r == [work[w] EXCEPT !.todo = @ \ {p}, !.pane = p, !.pc = "marked"]
<1>1. r \in Works /\ r.pc = "marked" /\ r.unwind = work[w].unwind /\ r.later = work[w].later
      /\ r.todo = work[w].todo \ {p} /\ r.pane = p
  BY WorkFields DEF Works
<1>2. work' = [work EXCEPT ![w] = r]
  BY WorkFields DEF Mark, HoldInv, WorkTypes, Works
<1>3. gate' = [gate EXCEPT ![p] = "held"] /\ owed' = owed \ {p} /\ work[w].pc = "next" /\ p \in work[w].todo
  BY DEF Mark
<1>4. UNCHANGED <<known, attached, step, reconcile, produced>>
  BY DEF Mark, pass, door
<1>5. gate' \in [Panes -> {"live", "held"}] /\ owed' \subseteq known
  BY <1>3, WorkFields
<1>6. Hands(r) = (work[w].todo \ {p}) \cup work[w].later \cup {p}
  BY <1>1 DEF Hands
<1>7. Hands(work[w]) = work[w].todo \cup work[w].later \cup {NoPane}
  BY <1>3, WorkFields DEF Hands
<1> HIDE DEF r
<1>8. ASSUME NEW q \in Panes, gate'[q] = "held"
      PROVE  /\ q \in known
             /\ \/ q \in Hands(r)
                \/ /\ gate[q] = "held" /\ q \notin Hands(work[w])
                   /\ q \in owed => q \in owed'
  <2>1. CASE q = p
    BY <2>1, <1>6, <1>3, WorkFields
  <2>2. CASE q # p
    <3>1. gate[q] = "held"
      BY <2>2, <1>3, <1>8
    <3>2. q # NoPane
      BY StreamAssumption
    <3> QED
      BY <2>2, <3>1, <3>2, <1>3, <1>6, <1>7, WorkFields
  <2> QED
    BY <2>1, <2>2
<1>9. (r.unwind \/ w \in Alone => r.later = {}) /\ (r.pc = "next" <=> r.pane = NoPane)
  BY <1>1, WorkFields, StreamAssumption
<1> QED
  BY <1>1, <1>2, <1>4, <1>5, <1>8, <1>9, PassStep

LEMMA CaptureStep ==
  ASSUME HoldInv, NEW w \in Passes, ~Idling(w), Capture(w)
  PROVE  HoldInv'
<1> DEFINE r == [work[w] EXCEPT !.pc = "captured", !.n = produced[work[w].pane]]
<1>1. work[w].pc = "marked" /\ work[w] # NoWork
  BY DEF Capture, Idling
<1>2. work[w].pane \in Panes => produced[work[w].pane] \in Nat
  BY WorkFields
<1>3. r \in Works /\ r.pc = "captured" /\ r.pane = work[w].pane /\ r.unwind = work[w].unwind
      /\ r.later = work[w].later /\ r.todo = work[w].todo
  BY <1>1, <1>2, WorkFields DEF Works
<1>4. work' = [work EXCEPT ![w] = r]
  BY WorkFields DEF Capture, HoldInv, WorkTypes, Works
<1>5. UNCHANGED <<known, owed, gate, attached, step, reconcile, produced>>
  BY DEF Capture, screen, panes, pass, door
<1>6. Hands(r) = Hands(work[w])
  BY <1>3 DEF Hands
<1>7. (r.unwind \/ w \in Alone => r.later = {}) /\ (r.pc = "next" <=> r.pane = NoPane)
  BY <1>1, <1>3, WorkFields
<1> HIDE DEF r
<1>8. \A p \in Panes : gate'[p] = "held" =>
         /\ p \in known
         /\ p \in Hands(r) \/ (gate[p] = "held" /\ p \notin Hands(work[w]) /\ (p \in owed => p \in owed'))
  BY <1>5, <1>6, WorkFields
<1>9. gate' \in [Panes -> {"live", "held"}] /\ owed' \subseteq known
  BY <1>5, WorkFields
<1> QED
  BY <1>3, <1>4, <1>5, <1>7, <1>8, <1>9, PassStep

\* A pass after its pane is painted.
Done(w) == [work[w] EXCEPT !.pane = NoPane, !.pc = "next", !.n = 0]

LEMMA DoneWork ==
  ASSUME HoldInv, NEW w \in Passes
  PROVE  /\ Painted(w) = [work EXCEPT ![w] = Done(w)]
         /\ Done(w) \in Works /\ Done(w).pc = "next" /\ Done(w).pane = NoPane
         /\ Done(w).unwind = work[w].unwind /\ Done(w).later = work[w].later
         /\ Done(w).todo = work[w].todo
         /\ Hands(work[w]) \subseteq Hands(Done(w)) \cup {work[w].pane}
<1>1. work[w] \in Works /\ work \in [Passes -> Works]
  BY WorkFields DEF HoldInv, WorkTypes
<1>2. Painted(w) = [work EXCEPT ![w] = Done(w)]
  BY <1>1 DEF Painted, Done, Works
<1>3. /\ Done(w) \in Works /\ Done(w).pc = "next" /\ Done(w).pane = NoPane
      /\ Done(w).unwind = work[w].unwind /\ Done(w).later = work[w].later
      /\ Done(w).todo = work[w].todo
  BY <1>1 DEF Done, Works
<1> QED
  BY <1>2, <1>3 DEF Hands

LEMMA PaintStep ==
  ASSUME HoldInv, NEW w \in Passes, ~Idling(w), Paint(w)
  PROVE  HoldInv'
<1>1. UNCHANGED <<known, owed, gate, attached, step, reconcile, produced>> /\ work[w].pc = "captured"
  BY DEF Paint, Emit, screen, panes, pass, door, LetGo
<1>2. work[w].pane \in Panes
  BY <1>1, WorkFields
<1>3. gate' \in [Panes -> {"live", "held"}] /\ owed' \subseteq known
  BY <1>1, WorkFields
<1>4. CASE gate[work[w].pane] = "held"
  <2> DEFINE r == [work[w] EXCEPT !.pc = "tail"]
  <2>1. r \in Works /\ r.pc = "tail" /\ r.pane = work[w].pane /\ r.unwind = work[w].unwind
        /\ r.later = work[w].later /\ r.todo = work[w].todo
    BY WorkFields DEF Works
  <2>2. work' = [work EXCEPT ![w] = r]
    BY <1>4, WorkFields DEF Paint, HoldInv, WorkTypes, Works
  <2>3. Hands(r) = Hands(work[w])
    BY <2>1 DEF Hands
  <2>4. (r.unwind \/ w \in Alone => r.later = {}) /\ (r.pc = "next" <=> r.pane = NoPane)
    BY <1>2, <2>1, WorkFields, StreamAssumption
  <2> HIDE DEF r
  <2>5. \A p \in Panes : gate'[p] = "held" =>
           /\ p \in known
           /\ p \in Hands(r) \/ (gate[p] = "held" /\ p \notin Hands(work[w]) /\ (p \in owed => p \in owed'))
    BY <1>1, <2>3, WorkFields
  <2> QED
    BY <1>1, <1>3, <2>1, <2>2, <2>4, <2>5, PassStep
<1>5. CASE gate[work[w].pane] # "held"
  <2>1. work' = [work EXCEPT ![w] = Done(w)]
    BY <1>5, DoneWork DEF Paint
  <2>2. gate'[work[w].pane] = "live"
    BY <1>1, <1>2, <1>5, WorkFields
  <2>3. (Done(w).unwind \/ w \in Alone => Done(w).later = {}) /\ (Done(w).pc = "next" <=> Done(w).pane = NoPane)
    BY DoneWork, WorkFields
  <2>4. Done(w) \in Works /\ Hands(work[w]) \subseteq Hands(Done(w)) \cup {work[w].pane}
    BY DoneWork
  <2> QED
    BY <1>1, <1>2, <1>3, <2>1, <2>2, <2>3, <2>4, LiveStep
<1> QED
  BY <1>4, <1>5

LEMMA FollowStep ==
  ASSUME HoldInv, NEW w \in Passes, ~Idling(w), Follow(w)
  PROVE  HoldInv'
<1>1. /\ UNCHANGED <<known, attached, step, reconcile, produced>> /\ work[w].pc = "tail"
      /\ work' = Painted(w) /\ owed' = owed \ {work[w].pane}
      /\ gate' = [gate EXCEPT ![work[w].pane] = "live"]
  BY DEF Follow, LetGo, pass, door
<1>2. work[w].pane \in Panes
  BY <1>1, WorkFields
<1>3. /\ gate' \in [Panes -> {"live", "held"}] /\ owed' \subseteq known /\ owed \subseteq owed' \cup {work[w].pane}
      /\ gate'[work[w].pane] = "live" /\ \A p \in Panes : p # work[w].pane => gate'[p] = gate[p]
  BY <1>1, <1>2, WorkFields
<1>4. (Done(w).unwind \/ w \in Alone => Done(w).later = {}) /\ (Done(w).pc = "next" <=> Done(w).pane = NoPane)
  BY DoneWork, WorkFields
<1>5. Done(w) \in Works /\ Hands(work[w]) \subseteq Hands(Done(w)) \cup {work[w].pane}
      /\ work' = [work EXCEPT ![w] = Done(w)]
  BY <1>1, DoneWork
<1> QED
  BY <1>1, <1>2, <1>3, <1>4, <1>5, LiveStep

\* Releasing a pane unpainted leaves it live and owed to nobody.
LEMMA BlankGate ==
  ASSUME HoldInv, NEW q \in Panes, ReleaseBlank(q)
  PROVE  /\ gate' \in [Panes -> {"live", "held"}] /\ owed' \subseteq known /\ owed \subseteq owed' \cup {q}
         /\ gate'[q] = "live" /\ \A p \in Panes : p # q => gate'[p] = gate[p]
<1>1. gate \in [Panes -> {"live", "held"}] /\ owed \subseteq known
  BY DEF HoldInv, ScreenTypes, PanesKnown
<1>2. CASE gate[q] = "held"
  BY <1>1, <1>2 DEF ReleaseBlank, LetGo
<1>3. CASE gate[q] # "held"
  BY <1>1, <1>3 DEF ReleaseBlank
<1> QED
  BY <1>2, <1>3

\* A pass that fails at its pane.
Failed(w, unwind) ==
    [Done(w) EXCEPT !.unwind = unwind,
                    !.todo = IF unwind THEN Unreached(w) ELSE @,
                    !.later = IF unwind THEN {} ELSE @]

LEMMA FailedWork ==
  ASSUME HoldInv, NEW w \in Passes, NEW unwind \in Unwinds(w)
  PROVE  /\ Failed(w, unwind) \in Works /\ Failed(w, unwind).pc = "next" /\ Failed(w, unwind).pane = NoPane
         /\ Failed(w, unwind).unwind \/ w \in Alone => Failed(w, unwind).later = {}
         /\ Hands(work[w]) \subseteq Hands(Failed(w, unwind)) \cup {work[w].pane}
<1>1. unwind \in BOOLEAN /\ (~unwind => w \in Background)
  BY DEF Unwinds
<1>2. Unreached(w) = work[w].todo \cup work[w].later /\ Unreached(w) \subseteq known
  BY WorkFields DEF Unreached
<1>3. CASE unwind
  <2>1. Failed(w, unwind) = [Done(w) EXCEPT !.unwind = TRUE, !.todo = Unreached(w), !.later = {}]
    BY <1>1, <1>3, DoneWork DEF Failed, Works
  <2>2. /\ Failed(w, unwind) \in Works /\ Failed(w, unwind).pc = "next" /\ Failed(w, unwind).pane = NoPane
        /\ Failed(w, unwind).later = {} /\ Failed(w, unwind).todo = Unreached(w)
    BY <1>2, <2>1, DoneWork DEF Works
  <2> QED
    BY <1>2, <2>2 DEF Hands
<1>4. CASE ~unwind
  <2>1. Failed(w, unwind) = [Done(w) EXCEPT !.unwind = FALSE]
    BY <1>1, <1>4, DoneWork DEF Failed, Works
  <2>2. /\ Failed(w, unwind) \in Works /\ Failed(w, unwind).pc = "next" /\ Failed(w, unwind).pane = NoPane
        /\ Failed(w, unwind).later = work[w].later /\ Failed(w, unwind).todo = work[w].todo
    BY <2>1, DoneWork DEF Works
  <2>3. work[w].later = {}
    BY <1>1, <1>4, WorkFields DEF Alone
  <2> QED
    BY <2>2, <2>3 DEF Hands
<1> QED
  BY <1>3, <1>4

LEMMA CaptureFailsStep ==
  ASSUME HoldInv, NEW w \in Passes, ~Idling(w), CaptureFails(w)
  PROVE  HoldInv'
<1>1. /\ UNCHANGED <<known, attached, step, reconcile, produced>> /\ work[w].pc = "marked"
      /\ ReleaseBlank(work[w].pane)
  BY DEF CaptureFails, pass, door
<1>2. PICK unwind \in Unwinds(w) :
         work' = [Painted(w) EXCEPT ![w].unwind = unwind,
                                    ![w].todo = IF unwind THEN Unreached(w) ELSE @,
                                    ![w].later = IF unwind THEN {} ELSE @]
  BY DEF CaptureFails
<1>3. work[w].pane \in Panes
  BY <1>1, WorkFields
<1>4. work' = [work EXCEPT ![w] = Failed(w, unwind)]
  <2>1. work \in [Passes -> Works] /\ Done(w) \in Works
    BY DoneWork DEF HoldInv, WorkTypes
  <2>2. work' = [[work EXCEPT ![w] = Done(w)] EXCEPT ![w].unwind = unwind,
                                    ![w].todo = IF unwind THEN Unreached(w) ELSE @,
                                    ![w].later = IF unwind THEN {} ELSE @]
    BY <1>2, DoneWork
  <2> QED
    BY <2>1, <2>2 DEF Failed, Works
<1>5. /\ Failed(w, unwind) \in Works
      /\ Failed(w, unwind).pc = "next" <=> Failed(w, unwind).pane = NoPane
      /\ Failed(w, unwind).unwind \/ w \in Alone => Failed(w, unwind).later = {}
      /\ Hands(work[w]) \subseteq Hands(Failed(w, unwind)) \cup {work[w].pane}
  BY FailedWork
<1>6. /\ gate' \in [Panes -> {"live", "held"}] /\ owed' \subseteq known
      /\ owed \subseteq owed' \cup {work[w].pane}
      /\ gate'[work[w].pane] = "live" /\ \A p \in Panes : p # work[w].pane => gate'[p] = gate[p]
  BY <1>1, <1>3, BlankGate
<1>7. work[w].pane \in Panes \cup {NoPane} /\ UNCHANGED <<known, attached, step, reconcile, produced>>
  BY <1>1, <1>3
<1>8. PICK r \in Works : r = Failed(w, unwind)
  BY <1>5
<1>9. PICK q \in Panes : q = work[w].pane
  BY <1>3
<1>10. /\ r.pc = "next" <=> r.pane = NoPane
       /\ r.unwind \/ w \in Alone => r.later = {}
       /\ Hands(work[w]) \subseteq Hands(r) \cup {q}
       /\ work' = [work EXCEPT ![w] = r]
  BY <1>4, <1>5, <1>8, <1>9
<1>11. /\ gate' \in [Panes -> {"live", "held"}] /\ owed' \subseteq known
       /\ owed \subseteq owed' \cup {q}
       /\ gate'[q] = "live" /\ \A p \in Panes : p # q => gate'[p] = gate[p]
       /\ q \in Panes \cup {NoPane}
  BY <1>6, <1>9
<1> QED
  BY ZenonT(40), <1>7, <1>10, <1>11, LiveStep

LEMMA UnwindStep ==
  ASSUME HoldInv, NEW w \in Passes, NEW q \in Panes, ~Idling(w), Unwind(w, q)
  PROVE  HoldInv'
<1> DEFINE r == [work[w] EXCEPT !.todo = @ \ {q}]
<1>1. UNCHANGED <<known, attached, step, reconcile, produced>> /\ q \in work[w].todo
  BY DEF Unwind, pass, door
<1>2. work' = [work EXCEPT ![w] = r]
  BY WorkFields DEF Unwind, HoldInv, WorkTypes, Works
<1>3. r \in Works /\ r.pc = work[w].pc /\ r.pane = work[w].pane /\ r.unwind = work[w].unwind
      /\ r.later = work[w].later /\ r.todo = work[w].todo \ {q}
  BY WorkFields DEF Works
<1>4. Hands(work[w]) \subseteq Hands(r) \cup {q}
  BY <1>3 DEF Hands
<1>5. (r.unwind \/ w \in Alone => r.later = {}) /\ (r.pc = "next" <=> r.pane = NoPane)
  BY <1>3, WorkFields
<1>7. q \in Panes \cup {NoPane}
  OBVIOUS
<1> HIDE DEF r
<1>6. /\ gate' \in [Panes -> {"live", "held"}] /\ owed' \subseteq known /\ owed \subseteq owed' \cup {q}
      /\ gate'[q] = "live" /\ \A p \in Panes : p # q => gate'[p] = gate[p]
  <2>1. CASE w = "worker"
    <3>1. gate' = [gate EXCEPT ![q] = "live"] /\ owed' = owed \cup {q}
      BY <2>1 DEF Unwind
    <3> QED
      BY <1>1, <3>1, WorkFields
  <2>2. CASE w # "worker"
    BY <2>2, BlankGate DEF Unwind
  <2> QED
    BY <2>1, <2>2
<1>8. r \in Works /\ UNCHANGED <<known, attached, step, reconcile, produced>>
  BY <1>1, <1>3
<1> QED
  BY ZenonT(40), <1>2, <1>4, <1>5, <1>6, <1>7, <1>8, LiveStep

\* A pass that has painted all it had to has no pane in hand.
LEMMA EndedHands ==
  ASSUME HoldInv, NEW w \in Passes, Ended(w)
  PROVE  Hands(work[w]) = work[w].later \cup {NoPane}
BY WorkFields DEF Ended, Hands

LEMMA PassReturnsStep ==
  ASSUME HoldInv, NEW w \in Passes, PassReturns(w)
  PROVE  HoldInv'
<1>1. /\ UNCHANGED <<known, owed, gate, attached, step, reconcile, produced>>
      /\ w \in Alone /\ ~Idling(w) /\ Ended(w) /\ work' = [work EXCEPT ![w] = NoWork]
  BY DEF PassReturns, Alone, screen, panes, pass, door
<1>2. Hands(work[w]) = {NoPane}
  BY <1>1, EndedHands, WorkFields
<1>3. NoWork.pc = "next" /\ NoWork.pane = NoPane /\ NoWork.later = {}
  BY DEF NoWork
<1>4. \A p \in Panes : gate'[p] = "held" =>
         /\ p \in known
         /\ \/ p \in Hands(NoWork)
            \/ gate[p] = "held" /\ p \notin Hands(work[w]) /\ (p \in owed => p \in owed')
  BY <1>1, <1>2, WorkFields, StreamAssumption
<1>5. gate' \in [Panes -> {"live", "held"}] /\ owed' \subseteq known
  BY <1>1, WorkFields
<1> QED
  BY <1>1, <1>3, <1>4, <1>5, Idles, PassStep

LEMMA FirstPaintStep ==
  ASSUME HoldInv, NEW w \in Passes, FirstPaint(w)
  PROVE  HoldInv'
BY MarkStep, CaptureStep, PaintStep, FollowStep, CaptureFailsStep, UnwindStep, PassReturnsStep DEF FirstPaint

-----------------------------------------------------------------------------
(* The other steps                                                         *)

\* A step that leaves the gate, the passes and what is owed alone.
LEMMA StillStep ==
  ASSUME HoldInv, UNCHANGED <<produced, gate, known, owed, reconcile, work>>, Vacant'
  PROVE  HoldInv'
<1>1. PanesKnown' /\ ScreenTypes' /\ WorkTypes' /\ EmptyHanded' /\ LeavesNone' /\ HeldKnown'
  BY DEF HoldInv, PanesKnown, ScreenTypes, WorkTypes, Works, EmptyHanded, LeavesNone, HeldKnown
<1>2. NoPaneLeftHeld'
  BY DEF HoldInv, NoPaneLeftHeld
<1> QED
  BY <1>1, <1>2 DEF HoldInv

LEMMA ProduceStep ==
  ASSUME HoldInv, NEW p \in Panes, Produce(p)
  PROVE  HoldInv'
<1>1. /\ UNCHANGED <<gate, known, owed, reconcile, work, attached, step>>
      /\ produced' = [produced EXCEPT ![p] = @ + 1]
  BY DEF Produce, Emit, panes, pass, door
<1>2. PanesKnown' /\ WorkTypes' /\ EmptyHanded' /\ LeavesNone' /\ HeldKnown' /\ Vacant'
  BY <1>1 DEF HoldInv, PanesKnown, WorkTypes, Works, EmptyHanded, LeavesNone, HeldKnown, Vacant, Idling
<1>3. ScreenTypes'
  BY <1>1 DEF HoldInv, ScreenTypes
<1>4. NoPaneLeftHeld'
  BY <1>1 DEF HoldInv, NoPaneLeftHeld
<1> QED
  BY <1>2, <1>3, <1>4 DEF HoldInv

LEMMA NewPaneStep ==
  ASSUME HoldInv, NEW p \in Panes, NewPane(p)
  PROVE  HoldInv'
<1>1. /\ UNCHANGED <<produced, work, attached, step>>
      /\ gate' = [q \in Panes |-> IF q \in {p} THEN "held" ELSE gate[q]]
      /\ known' = known \cup {p} /\ owed' = owed \cup {p} /\ reconcile' = TRUE
  BY DEF NewPane, Hold, RequestReconcile, pass, door
<1>2. PanesKnown' /\ ScreenTypes'
  BY <1>1 DEF HoldInv, PanesKnown, ScreenTypes
<1>3. WorkTypes'
  <2>1. \A r \in Works : r \in Works'
    BY <1>1 DEF Works
  <2> QED
    BY <1>1, <2>1 DEF HoldInv, WorkTypes
<1>4. EmptyHanded' /\ LeavesNone' /\ Vacant' /\ HeldKnown'
  BY <1>1 DEF HoldInv, EmptyHanded, LeavesNone, Vacant, Idling, HeldKnown
<1>5. NoPaneLeftHeld'
  <2> SUFFICES ASSUME NEW q \in Panes, gate'[q] = "held"
               PROVE  (\E w \in Passes : q \in Hands(work'[w])) \/ (q \in owed' /\ reconcile')
    BY <1>2, HeldNext
  <2>1. CASE q = p
    BY <1>1, <2>1
  <2>2. CASE q # p
    <3>1. gate[q] = "held"
      BY <1>1, <2>2
    <3>2. (\E w \in Passes : q \in Hands(work[w])) \/ (q \in owed /\ reconcile)
      BY <3>1, HeldDef DEF HoldInv
    <3> QED
      BY <1>1, <3>2
  <2> QED
    BY <2>1, <2>2
<1> QED
  BY <1>2, <1>3, <1>4, <1>5 DEF HoldInv

\* A step in which pass w ends and pass g, maybe the same, begins.
LEMMA HandOver ==
  ASSUME HoldInv, NEW w \in Passes, NEW g \in Passes, NEW a \in Works, NEW b \in Works,
         work' = [v \in Passes |-> work'[v]], work'[w] = a, work'[g] = b,
         \A v \in Passes : v # w /\ v # g => work'[v] = work[v],
         UNCHANGED <<known, produced, owed>>,
         a.pc = "next", a.pane = NoPane, b.pc = "next", b.pane = NoPane,
         a.unwind \/ w \in Alone => a.later = {}, b.unwind \/ g \in Alone => b.later = {},
         Vacant',
         gate' \in [Panes -> {"live", "held"}],
         \A p \in Panes : gate'[p] = "held" =>
            /\ p \in known
            /\ \/ p \in Hands(a) \cup Hands(b)
               \/ /\ gate[p] = "held" /\ p \notin Hands(work[w]) /\ p \notin Hands(work[g])
                  /\ p \in owed /\ reconcile => reconcile'
  PROVE  HoldInv'
<1>1. PanesKnown' /\ ScreenTypes' /\ HeldKnown'
  BY DEF HoldInv, PanesKnown, ScreenTypes, HeldKnown
<1>2. work \in [Passes -> Works] /\ Works' = Works
  BY DEF HoldInv, WorkTypes, Works
<1>3. work' \in [Passes -> Works]
  <2>1. \A v \in Passes : work'[v] \in Works
    BY <1>2
  <2> QED
    BY <2>1
<1>4. WorkTypes'
  BY <1>2, <1>3 DEF WorkTypes
<1>5. EmptyHanded' /\ LeavesNone'
  BY <1>3 DEF HoldInv, EmptyHanded, LeavesNone
<1>7. NoPaneLeftHeld'
  <2> SUFFICES ASSUME NEW p \in Panes, gate'[p] = "held"
               PROVE  (\E v \in Passes : p \in Hands(work'[v])) \/ (p \in owed' /\ reconcile')
    BY <1>1, HeldNext
  <2>1. CASE p \in Hands(a) \cup Hands(b)
    BY <1>3, <2>1
  <2>2. CASE /\ gate[p] = "held" /\ p \notin Hands(work[w]) /\ p \notin Hands(work[g])
             /\ p \in owed /\ reconcile => reconcile'
    <3>1. (\E v \in Passes : p \in Hands(work[v])) \/ (p \in owed /\ reconcile)
      BY <2>2, HeldDef DEF HoldInv
    <3> QED
      BY <1>3, <2>2, <3>1
  <2> QED
    BY <2>1, <2>2
<1> QED
  BY <1>1, <1>4, <1>5, <1>7 DEF HoldInv

LEMMA ReconcileStep ==
  ASSUME HoldInv, Reconcile
  PROVE  HoldInv'
<1> DEFINE b == Paints(owed, {})
<1>1. /\ UNCHANGED <<known, produced, owed, attached, step>>
      /\ gate' = [q \in Panes |-> IF q \in owed THEN "held" ELSE gate[q]]
      /\ work' = [work EXCEPT !["worker"] = b] /\ Idling("worker")
  BY DEF Reconcile, Hold, pass, door
<1>2. "worker" \in Passes /\ owed \subseteq known /\ gate \in [Panes -> {"live", "held"}] /\ work \in [Passes -> Works]
  BY DEF HoldInv, PanesKnown, ScreenTypes, WorkTypes, Passes
<1>3. b \in Works /\ Hands(b) = owed \cup {NoPane} /\ b.pane = NoPane /\ b.later = {} /\ ~b.unwind
  <2>1. owed \in SUBSET known /\ {} \in SUBSET known
    BY <1>2
  <2>2. b \in Works /\ Hands(b) = owed \cup {} \cup {NoPane} /\ b.pane = NoPane /\ b.later = {} /\ ~b.unwind
    BY <2>1, PaintsWork
  <2> QED
    BY <2>2
<1>4. b.pc = "next"
  BY DEF Paints, NoWork
<1> HIDE DEF b
<1>5. /\ work' = [v \in Passes |-> work'[v]] /\ work'["worker"] = b
      /\ \A v \in Passes : v # "worker" => work'[v] = work[v]
  BY <1>1, <1>2
<1>6. Vacant'
  BY <1>1, <1>2, <1>5 DEF HoldInv, Vacant, Idling, Passes, Background
<1>7. Hands(work["worker"]) = {NoPane}
  BY <1>1, Idles DEF Idling
<1>8. gate' \in [Panes -> {"live", "held"}]
  BY <1>1, <1>2
<1>9. \A p \in Panes : gate'[p] = "held" =>
         /\ p \in known
         /\ \/ p \in Hands(b)
            \/ /\ gate[p] = "held" /\ p \notin Hands(work["worker"])
               /\ p \in owed /\ reconcile => reconcile'
  BY <1>1, <1>2, <1>3, <1>7, StreamAssumption DEF HoldInv, HeldKnown
<1> QED
  BY <1>1, <1>2, <1>3, <1>4, <1>5, <1>6, <1>8, <1>9, HandOver

\* A pass that has nothing left to do with any pane ends.
LEMMA EndStep ==
  ASSUME HoldInv, NEW w \in Passes, Ended(w), work[w].later = {},
         work' = [work EXCEPT ![w] = NoWork],
         UNCHANGED <<known, produced, owed>>, Vacant',
         gate' \in [Panes -> {"live", "held"}],
         \A p \in Panes : gate'[p] = gate[p], reconcile => reconcile'
  PROVE  HoldInv'
<1>1. work \in [Passes -> Works]
  BY DEF HoldInv, WorkTypes
<1>2. /\ work' = [v \in Passes |-> work'[v]] /\ work'[w] = NoWork
      /\ \A v \in Passes : v # w => work'[v] = work[v]
  BY <1>1
<1>3. Hands(work[w]) = {NoPane}
  BY EndedHands
<1>4. NoWork \in Works /\ NoWork.pc = "next" /\ NoWork.pane = NoPane /\ NoWork.later = {}
  BY Idles DEF NoWork
<1>5. PanesKnown' /\ ScreenTypes' /\ HeldKnown'
  BY DEF HoldInv, PanesKnown, ScreenTypes, HeldKnown
<1>6. WorkTypes'
  BY <1>1, <1>4 DEF WorkTypes, Works
<1>7. EmptyHanded' /\ LeavesNone'
  BY <1>2, <1>4 DEF HoldInv, EmptyHanded, LeavesNone
<1>8. NoPaneLeftHeld'
  <2> SUFFICES ASSUME NEW p \in Panes, gate'[p] = "held"
               PROVE  (\E v \in Passes : p \in Hands(work'[v])) \/ (p \in owed' /\ reconcile')
    BY <1>5, HeldNext
  <2>1. gate[p] = "held" /\ p \notin Hands(work[w])
    BY <1>3, StreamAssumption
  <2>2. (\E v \in Passes : p \in Hands(work[v])) \/ (p \in owed /\ reconcile)
    BY <2>1, HeldDef DEF HoldInv
  <2> QED
    BY <1>2, <2>1, <2>2
<1> QED
  BY <1>5, <1>6, <1>7, <1>8 DEF HoldInv

\* A pass ends and leaves its deferred panes to one that is not running.
LEMMA LeaveStep ==
  ASSUME HoldInv, NEW w \in {"attach", "locked"}, NEW g \in Background, Ended(w), Idling(g),
         work' = LeaveBehind(w, g),
         UNCHANGED <<known, produced, owed, gate, reconcile>>, Vacant'
  PROVE  HoldInv'
<1> DEFINE b == Paints(work[w].later, {})
<1>1. work \in [Passes -> Works] /\ w \in Passes /\ g \in Passes /\ w # g
  BY DEF HoldInv, WorkTypes, Passes, Background
<1>2. work' = [work EXCEPT ![w] = NoWork, ![g] = b]
  BY DEF LeaveBehind
<1>3. b \in Works /\ Hands(b) = work[w].later \cup {NoPane} /\ b.pane = NoPane /\ b.later = {} /\ ~b.unwind
  <2>1. work[w].later \in SUBSET known /\ {} \in SUBSET known
    BY <1>1, WorkFields
  <2>2. b \in Works /\ Hands(b) = work[w].later \cup {} \cup {NoPane} /\ b.pane = NoPane /\ b.later = {} /\ ~b.unwind
    BY <2>1, PaintsWork
  <2> QED
    BY <2>2
<1>4. b.pc = "next"
  BY DEF Paints, NoWork
<1> HIDE DEF b
<1>5. /\ work' = [v \in Passes |-> work'[v]] /\ work'[w] = NoWork /\ work'[g] = b
      /\ \A v \in Passes : v # w /\ v # g => work'[v] = work[v]
  BY <1>1, <1>2
<1>6. Hands(work[w]) = work[w].later \cup {NoPane} /\ Hands(work[g]) = {NoPane}
  BY <1>1, EndedHands, Idles DEF Idling
<1>7. NoWork \in Works /\ NoWork.pc = "next" /\ NoWork.pane = NoPane /\ NoWork.later = {}
  BY Idles DEF NoWork
<1>8. gate' \in [Panes -> {"live", "held"}]
  BY <1>1, WorkFields
<1>9. \A p \in Panes : gate'[p] = "held" =>
         /\ p \in known
         /\ \/ p \in Hands(NoWork) \cup Hands(b)
            \/ /\ gate[p] = "held" /\ p \notin Hands(work[w]) /\ p \notin Hands(work[g])
               /\ p \in owed /\ reconcile => reconcile'
  BY <1>1, <1>3, <1>6, WorkFields, StreamAssumption
<1> QED
  BY <1>1, <1>3, <1>4, <1>5, <1>7, <1>8, <1>9, HandOver

LEMMA AttacherStep ==
  ASSUME HoldInv, AttachAnswers \/ AttachFails
  PROVE  HoldInv'
<1>0. work \in [Passes -> Works] /\ "attach" \in Passes
  BY DEF HoldInv, WorkTypes, Passes
<1>1. CASE AttachAnswers
  <2>1. /\ UNCHANGED <<known, produced, owed, gate, reconcile, step>> /\ attached' = "yes" /\ attached = "no"
        /\ Ended("attach") /\ work' = LeaveBehind("attach", "attach deferred")
    BY <1>1 DEF AttachAnswers, screen, panes, pass
  <2>2. Idling("attach deferred")
    BY <2>1 DEF HoldInv, Vacant
  <2>3. work'["locked deferred"] = work["locked deferred"]
    BY <1>0, <2>1 DEF LeaveBehind, Passes, Background
  <2>4. Vacant'
    BY <2>1, <2>3 DEF HoldInv, Vacant, Idling
  <2>5. "attach" \in {"attach", "locked"} /\ "attach deferred" \in Background
    BY DEF Background
  <2> QED
    BY <2>1, <2>2, <2>4, <2>5, LeaveStep
<1>2. CASE AttachFails
  <2>1. /\ UNCHANGED <<known, produced, owed, gate, reconcile, step>> /\ attached' = "failed"
        /\ Ended("attach") /\ work' = [work EXCEPT !["attach"] = NoWork] /\ work["attach"].unwind
    BY <1>2 DEF AttachFails, screen, panes, pass
  <2>2. work["attach"].later = {}
    BY <1>0, <2>1, WorkFields
  <2>3. work'["locked deferred"] = work["locked deferred"]
    BY <1>0, <2>1 DEF Passes, Background
  <2>4. Vacant'
    BY <2>1, <2>3 DEF HoldInv, Vacant, Idling
  <2>5. gate' \in [Panes -> {"live", "held"}]
    BY <2>1 DEF HoldInv, ScreenTypes
  <2> QED
    BY <1>0, <2>1, <2>2, <2>4, <2>5, EndStep
<1> QED
  BY <1>1, <1>2

LEMMA HoldPanesStep ==
  ASSUME HoldInv, HoldPanes
  PROVE  HoldInv'
<1> DEFINE b == Paints(known \cap Shown, known \ Shown)
<1>1. /\ UNCHANGED <<known, produced, owed, reconcile, attached>> /\ step = "hold" /\ step' = "paint"
      /\ gate' = [q \in Panes |-> IF q \in known THEN "held" ELSE gate[q]]
      /\ work' = [work EXCEPT !["locked"] = b]
  BY DEF HoldPanes, Hold, Reheld, panes, door
<1>2. "locked" \in Passes /\ "locked" \notin Alone /\ work \in [Passes -> Works] /\ gate \in [Panes -> {"live", "held"}]
  BY DEF HoldInv, ScreenTypes, WorkTypes, Passes, Alone, Background
<1>3. b \in Works /\ known \subseteq Hands(b) /\ b.pane = NoPane /\ ~b.unwind
  <2>1. known \cap Shown \in SUBSET known /\ known \ Shown \in SUBSET known
    OBVIOUS
  <2>2. b \in Works /\ b.pane = NoPane /\ ~b.unwind
        /\ Hands(b) = (known \cap Shown) \cup (known \ Shown) \cup {NoPane}
    BY <2>1, PaintsWork
  <2>3. known \subseteq Hands(b)
    BY <2>2
  <2> QED
    BY <2>2, <2>3
<1>4. b.pc = "next"
  BY DEF Paints, NoWork
<1> HIDE DEF b
<1>5. /\ work' = [v \in Passes |-> work'[v]] /\ work'["locked"] = b
      /\ \A v \in Passes : v # "locked" => work'[v] = work[v]
  BY <1>1, <1>2
<1>6. Vacant'
  BY <1>1, <1>5 DEF HoldInv, Vacant, Idling, Passes, Background
<1>7. gate' \in [Panes -> {"live", "held"}]
  BY <1>1, <1>2
<1>8. \A p \in Panes : gate'[p] = "held" => p \in known /\ p \in Hands(b)
  BY <1>1, <1>3 DEF HoldInv, HeldKnown
<1>9. b.unwind \/ "locked" \in Alone => b.later = {}
  BY <1>2, <1>3
<1> QED
  BY ZenonT(40), <1>1, <1>2, <1>3, <1>4, <1>5, <1>6, <1>7, <1>8, <1>9, HandOver

LEMMA HolderStep ==
  ASSUME HoldInv, Holder
  PROVE  HoldInv'
<1>0. work \in [Passes -> Works] /\ "locked" \in Passes
  BY DEF HoldInv, WorkTypes, Passes
<1>1. CASE BeginRepaint \/ BeginResync \/ SayDegraded \/ EndResync
  <2>1. UNCHANGED <<produced, gate, known, owed, reconcile, work, attached>>
    BY <1>1 DEF BeginRepaint, BeginResync, SayDegraded, EndResync, screen, panes, door
  <2>2. step' \in {"degrade", "hold", "paint"} => step = "degrade" \/ BackgroundDone
    BY <1>1 DEF BeginRepaint, BeginResync, SayDegraded, EndResync, Unlocked
  <2>3. step' \in {"degrade", "hold", "paint"} => Idling("locked deferred")
    BY <2>2 DEF BackgroundDone, Background, HoldInv, Vacant
  <2>4. Vacant'
    BY <2>1, <2>3 DEF HoldInv, Vacant, Idling
  <2> QED
    BY <2>1, <2>4, StillStep
<1>2. CASE PassSucceeds
  <2>1. /\ UNCHANGED <<known, produced, owed, gate, reconcile, attached>> /\ step = "paint" /\ step' = "idle"
        /\ Ended("locked") /\ work' = LeaveBehind("locked", "locked deferred")
    BY <1>2 DEF PassSucceeds, Unlocked, screen, panes
  <2>2. Idling("locked deferred")
    BY <2>1 DEF HoldInv, Vacant
  <2>3. work'["attach deferred"] = work["attach deferred"]
    BY <1>0, <2>1 DEF LeaveBehind, Passes, Background
  <2>4. Vacant'
    BY <2>1, <2>3 DEF HoldInv, Vacant, Idling
  <2>5. "locked" \in {"attach", "locked"} /\ "locked deferred" \in Background
    BY DEF Background
  <2> QED
    BY <2>1, <2>2, <2>4, <2>5, LeaveStep
<1>3. CASE PassFails
  <2>1. /\ UNCHANGED <<known, produced, owed, gate, reconcile, attached>> /\ step' \in {"idle", "end"}
        /\ Ended("locked") /\ work' = [work EXCEPT !["locked"] = NoWork] /\ work["locked"].unwind
    BY <1>3 DEF PassFails, Unlocked, screen, panes, door
  <2>2. work["locked"].later = {}
    BY <1>0, <2>1, WorkFields
  <2>3. work'["attach deferred"] = work["attach deferred"]
    BY <1>0, <2>1 DEF Passes, Background
  <2>4. Vacant'
    BY <2>1, <2>3 DEF HoldInv, Vacant, Idling
  <2>5. gate' \in [Panes -> {"live", "held"}]
    BY <2>1 DEF HoldInv, ScreenTypes
  <2> QED
    BY <1>0, <2>1, <2>2, <2>4, <2>5, EndStep
<1> QED
  BY <1>1, <1>2, <1>3, HoldPanesStep DEF Holder

LEMMA StreamStep ==
  ASSUME HoldInv, [StreamNext]_allVars
  PROVE  HoldInv'
<1>1. CASE \E p \in Panes : Produce(p) \/ NewPane(p)
  BY <1>1, ProduceStep, NewPaneStep
<1>2. CASE \E w \in Passes : FirstPaint(w)
  BY <1>2, FirstPaintStep
<1>3. CASE LockAttach \/ LockResync
  <2>1. UNCHANGED <<produced, gate, known, owed, reconcile, work, attached>> /\ step' = "wait"
    BY <1>3 DEF LockAttach, LockResync, screen, panes, door
  <2>2. Vacant'
    BY <2>1 DEF HoldInv, Vacant, Idling
  <2> QED
    BY <2>1, <2>2, StillStep
<1>4. CASE UNCHANGED <<produced, gate, known, owed, reconcile, work, attached, step>>
  <2>1. Vacant'
    BY <1>4 DEF HoldInv, Vacant, Idling
  <2> QED
    BY <1>4, <2>1, StillStep
<1>5. CASE ClaimResync \/ ControlStreamEnds \/ Teardown \/ Connect
  BY <1>4, <1>5 DEF ClaimResync, ControlStreamEnds, Teardown, SayExited, CloseStream, Connect,
                    screen, panes, pass, door
<1>6. CASE CoolDown \/ (\E g \in Gens : StreamPump(g) \/ Disconnect(g)) \/ UNCHANGED allVars
  BY <1>4, <1>6 DEF CoolDown, StreamPump, Disconnect, client, allVars, screen, panes, pass, door
<1> QED
  BY <1>1, <1>2, <1>3, <1>5, <1>6, AttacherStep, ReconcileStep, HolderStep DEF StreamNext, Attacher

-----------------------------------------------------------------------------
(* The theorem                                                             *)

LEMMA StreamInitHolds == StreamInit => HoldInv
<1> SUFFICES ASSUME StreamInit PROVE HoldInv
  OBVIOUS
<1> DEFINE a == Paints(known \cap Shown, known \ Shown)
<1>1. /\ produced = [p \in Panes |-> 0] /\ known = Panes \ New /\ owed = {}
      /\ gate = [p \in Panes |-> IF p \in known THEN "held" ELSE "live"]
      /\ work = [w \in Passes |-> IF w = "attach" THEN a ELSE NoWork] /\ step = "idle"
  BY DEF StreamInit
<1>2. /\ a \in Works /\ a.pane = NoPane /\ ~a.unwind
      /\ Hands(a) = (known \cap Shown) \cup (known \ Shown) \cup {NoPane}
  <2>1. known \cap Shown \in SUBSET known /\ known \ Shown \in SUBSET known
    OBVIOUS
  <2> QED
    BY <2>1, PaintsWork
<1>3. a.pc = "next" /\ NoWork.pc = "next" /\ NoWork.pane = NoPane /\ NoWork.later = {} /\ NoWork \in Works
  BY Idles DEF Paints, NoWork
<1> HIDE DEF a
<1>4. "attach" \in Passes /\ "attach" \notin Alone /\ "attach" \notin Background
  BY DEF Passes, Alone, Background
<1>5. PanesKnown /\ ScreenTypes /\ HeldKnown
  BY <1>1 DEF PanesKnown, ScreenTypes, HeldKnown
<1>6. WorkTypes
  BY <1>1, <1>2, <1>3 DEF WorkTypes
<1>7. EmptyHanded /\ LeavesNone
  BY <1>1, <1>2, <1>3, <1>4 DEF EmptyHanded, LeavesNone
<1>8. Vacant
  BY <1>1, <1>4 DEF Vacant, Idling, Passes, Background
<1>9. NoPaneLeftHeld
  <2> SUFFICES ASSUME NEW p \in Panes, gate[p] = "held"
               PROVE  \E w \in Passes : p \in Hands(work[w])
    BY <1>5, HeldDef
  <2>1. p \in Hands(a)
    BY <1>1, <1>2
  <2> QED
    BY <1>1, <1>4, <2>1
<1> QED
  BY <1>5, <1>6, <1>7, <1>8, <1>9 DEF HoldInv

\* A pane whose output the gate keeps is still to be painted or let go by a
\* pass, or is owed a first paint that a requested reconcile will see to
\* (paintGate, firstPaint, releaseRemaining, runReconcile).
THEOREM NoPaneLeftHeldHolds == StreamSpec => []NoPaneLeftHeld
<1>1. HoldInv => NoPaneLeftHeld
  BY DEF HoldInv
<1> QED
  BY StreamInitHolds, StreamStep, <1>1, PTL DEF StreamSpec

USE DEF backlog, bounds, subs

-----------------------------------------------------------------------------
(* What is on its way to the subscriber                                    *)

Items == [kind : {"byte", "snapshot", "attached", "degraded", "exited"},
          pane : Panes \cup {NoPane}, n : Nat]

\* Every published number has its item, and no other number is about.
ItemTypes == item \in Seq(Items) /\ Len(item) = next - 1
CarriedIn == Carried(buf) \subseteq 1 .. next - 1
HeldIn    == \A g \in Gens : Holding(g) => ToSet(pump[g].ev.ids) \subseteq 1 .. next - 1

\* A pump hands its event over before it removes it, unless the broker closes.
HandedOver == \A g \in Gens : pump[g].pc = "took" /\ ~closed => ToSet(pump[g].ev.ids) \subseteq got[g]
ClosingLast == \A g \in Gens : pump[g].closing => closed

\* The pump of the current generation serves the subscriber.
Serves   == \A g \in Gens : pump[g].pc # "none" /\ gen = g => sub = g
SubTypes == sub \in {0, gen} /\ (sub # 0 => sub \in Gens)

PumpSide  == HeldIn /\ HandedOver /\ ClosingLast /\ Serves /\ SubTypes
SupplyInv == IInv /\ ItemTypes /\ GotNumbers /\ CarriedIn /\ PumpSide

\* What the subscriber has and what waits for it.
Aud == (IF sub = 0 THEN {} ELSE got[sub]) \cup Carried(buf)

\* What of it the emulators show: what comes after the last degraded event.
Fresh == {n \in Aud \cap (1 .. Len(item)) : \A d \in 1 .. Len(item) : item[d].kind = "degraded" => n > d}

\* Item x shows byte n of pane p.
ShownBy(x, p, n) == x.pane = p /\ (x = Byte(p, n) \/ (x.kind = "snapshot" /\ x.n >= n))

Shows(p, n) == \E i \in Fresh : ShownBy(item[i], p, n)
ShowsKept   == \A p \in Panes : \A n \in Nat : Shows(p, n) => Shows(p, n)'

LEMMA ItemAppend ==
  ASSUME NEW s \in Seq(Items), NEW t \in Seq(Items)
  PROVE  /\ s \o t \in Seq(Items) /\ Len(s) \in Nat /\ Len(t) \in Nat /\ Len(s \o t) = Len(s) + Len(t)
         /\ \A i \in 1 .. Len(s) : (s \o t)[i] = s[i]
         /\ \A i \in 1 .. Len(t) : (s \o t)[Len(s) + i] = t[i]
OBVIOUS

LEMMA ConcatOnly ==
  ASSUME NEW s \in Seq(Nat), NEW t \in Seq(Nat), NEW n, n \in ToSet(s \o t)
  PROVE  n \in ToSet(s) \/ n \in ToSet(t)
<1>1. /\ s \o t \in Seq(Nat) /\ Len(s) \in Nat /\ Len(t) \in Nat /\ Len(s \o t) = Len(s) + Len(t)
      /\ \A k \in 1 .. Len(s) : (s \o t)[k] = s[k]
      /\ \A k \in 1 .. Len(t) : (s \o t)[Len(s) + k] = t[k]
  OBVIOUS
<1>2. PICK k \in 1 .. Len(s \o t) : (s \o t)[k] = n
  BY <1>1, ToSetMember
<1>3. CASE k <= Len(s)
  <2>1. k \in 1 .. Len(s)
    BY <1>1, <1>3
  <2> QED
    BY <1>1, <1>2, <2>1, ToSetMember
<1>4. CASE k > Len(s)
  <2>1. k - Len(s) \in 1 .. Len(t) /\ Len(s) + (k - Len(s)) = k
    BY <1>1, <1>4
  <2> DEFINE j == k - Len(s)
  <2>2. j \in 1 .. Len(t) /\ t[j] = n
    BY <1>1, <1>2, <2>1
  <2> QED
    BY <2>2, ToSetMember
<1> QED
  BY <1>1, <1>3, <1>4

\* Accepting an event adds the event's numbers to the backlog and no other.
LEMMA AcceptCarriesOnly ==
  ASSUME BacklogTypes, BacklogTypes', NEW ev \in Event, Accept(ev), NEW n, n \in Carried(buf')
  PROVE  n \in Carried(buf) \/ n \in ToSet(ev.ids)
<1>0. buf \in Seq(Event) /\ buf' \in Seq(Event) /\ Len(buf) \in Nat /\ ev.ids \in Seq(Nat)
  BY DEF BacklogTypes, Event
<1>1. PICK i \in 1 .. Len(buf') : n \in ToSet(buf'[i].ids)
  BY <1>0, CarriedMember
<1>2. CASE Mergeable(ev)
  <2> DEFINE tail == buf[Len(buf)]
  <2>1. Len(buf) \in 1 .. Len(buf) /\ Len(buf) >= 2 /\ tail \in Event
    BY <1>0, <1>2 DEF Mergeable
  <2>2. buf' = [buf EXCEPT ![Len(buf)] = Merged(tail, ev)]
    BY <1>2 DEF Accept
  <2>3. tail.ids \in Seq(Nat) /\ Merged(tail, ev).ids = tail.ids \o ev.ids
    BY <2>1 DEF Merged, Event
  <2>4. ASSUME n \in ToSet(Merged(tail, ev).ids) PROVE n \in ToSet(tail.ids) \/ n \in ToSet(ev.ids)
    BY <1>0, <2>3, <2>4, ConcatOnly
  <2>5. Len(buf') = Len(buf) /\ buf'[Len(buf)] = Merged(tail, ev)
        /\ \A k \in 1 .. Len(buf) : k # Len(buf) => buf'[k] = buf[k]
    BY <1>0, <2>1, <2>2
  <2>6. CASE i = Len(buf)
    <3>1. n \in ToSet(tail.ids) \/ n \in ToSet(ev.ids)
      BY <1>1, <2>4, <2>5, <2>6
    <3> QED
      BY <1>0, <2>1, <3>1, CarriedMember
  <2>7. CASE i # Len(buf)
    BY <1>0, <1>1, <2>5, <2>7, CarriedMember
  <2> QED
    BY <2>6, <2>7
<1>3. CASE ~Mergeable(ev)
  <2>1. buf' = Append(buf, ev)
    BY <1>3 DEF Accept
  <2>2. Len(buf') = Len(buf) + 1 /\ buf'[Len(buf) + 1] = ev /\ \A k \in 1 .. Len(buf) : buf'[k] = buf[k]
    BY <1>0, <2>1
  <2>3. CASE i = Len(buf) + 1
    BY <1>1, <2>2, <2>3
  <2>4. CASE i # Len(buf) + 1
    <3>1. i \in 1 .. Len(buf)
      BY <1>0, <2>2, <2>4
    <3> QED
      BY <1>0, <1>1, <2>2, <3>1, CarriedMember
  <2> QED
    BY <2>3, <2>4
<1> QED
  BY <1>2, <1>3

\* Publishing the numbers of new items.
LEMMA PublishSupply ==
  ASSUME SupplyInv, NEW ev \in Event, NEW items \in Seq(Items), Len(ev.ids) = Len(items),
         \A i \in 1 .. Len(items) : ev.ids[i] = next + i - 1, Publish(ev), item' = item \o items
  PROVE  SupplyInv'
<1>1. IInv' /\ BacklogTypes /\ BacklogTypes'
  BY PublishEventStep DEF SupplyInv, IInv
<1>2. /\ UNCHANGED <<sub, gen, closed, pump, got>> /\ next' = next + Len(ev.ids) /\ next \in Nat
      /\ Len(ev.ids) \in Nat /\ ev.ids \in Seq(Nat)
  <2>1. ev.ids \in Seq(Nat)
    BY DEF Event
  <2>2. next \in Nat
    BY DEF SupplyInv, IInv, CountTypes
  <2>3. UNCHANGED <<sub, gen, closed, pump, got>> /\ next' = next + Len(ev.ids)
    BY DEF Publish
  <2>4. Len(ev.ids) \in Nat
    BY <2>1
  <2> QED
    BY <2>1, <2>2, <2>3, <2>4
<1>3. ItemTypes'
  <2>1. item \in Seq(Items) /\ Len(item) = next - 1 /\ Items' = Items
    BY DEF SupplyInv, ItemTypes, Items
  <2>2. item' \in Seq(Items) /\ Len(item') = Len(item) + Len(items)
    BY <2>1, ItemAppend
  <2> QED
    BY <1>2, <2>1, <2>2 DEF ItemTypes
<1>4. GotNumbers' /\ PumpSide'
  <2>1. 1 .. next - 1 \subseteq 1 .. next' - 1
    BY <1>2
  <2>2. GotNumbers'
    BY <1>2, <2>1 DEF SupplyInv, GotNumbers
  <2>3. HeldIn'
    BY <1>2, <2>1 DEF SupplyInv, PumpSide, HeldIn, Holding
  <2> QED
    BY <1>2, <2>2, <2>3 DEF SupplyInv, PumpSide, HandedOver, ClosingLast, Serves, SubTypes
<1>5. CarriedIn'
  <2> SUFFICES ASSUME NEW n \in Carried(buf') PROVE n \in 1 .. next' - 1
    BY DEF CarriedIn
  <2>1. CASE Refuse(ev)
    <3>0. buf' = buf
      BY <2>1 DEF Refuse
    <3>1. n \in Carried(buf)
      BY <3>0
    <3>2. n \in 1 .. next - 1
      BY <3>1 DEF SupplyInv, CarriedIn
    <3> QED
      BY <1>2, <3>2
  <2>2. CASE Accept(ev)
    <3>1. n \in Carried(buf) \/ n \in ToSet(ev.ids)
      BY <1>1, <2>2, AcceptCarriesOnly
    <3>2. CASE n \in Carried(buf)
      BY <1>2, <3>2 DEF SupplyInv, CarriedIn
    <3>3. CASE n \in ToSet(ev.ids)
      <4>1. PICK k \in 1 .. Len(ev.ids) : ev.ids[k] = n
        BY <1>2, <3>3, ToSetMember
      <4>2. n = next + k - 1 /\ next >= 1
        BY <4>1, <1>2 DEF SupplyInv, ItemTypes
      <4> QED
        BY <1>2, <4>2
    <3> QED
      BY <3>1, <3>2, <3>3
  <2> QED
    BY <2>1, <2>2 DEF Publish
<1> QED
  BY <1>1, <1>3, <1>4, <1>5 DEF SupplyInv

\* What is shown stays shown while nothing degrades and nothing is taken back.
LEMMA KeepsShowing ==
  ASSUME item \in Seq(Items), Len(item') >= Len(item), Len(item') \in Nat,
         \A i \in 1 .. Len(item) : item'[i] = item[i],
         \A i \in 1 .. Len(item') : i > Len(item) => item'[i].kind # "degraded",
         Aud \cap (1 .. Len(item)) \subseteq Aud'
  PROVE  /\ Fresh \subseteq Fresh' /\ ShowsKept
         /\ \A i \in 1 .. Len(item') : i > Len(item) /\ i \in Aud' => i \in Fresh'
<1>0. Len(item) \in Nat
  OBVIOUS
<1>1. ASSUME NEW i \in Fresh PROVE i \in Fresh' /\ i \in 1 .. Len(item)
  <2>1. i \in Aud \cap (1 .. Len(item)) /\ \A d \in 1 .. Len(item) : item[d].kind = "degraded" => i > d
    BY DEF Fresh
  <2>2. i \in Aud' \cap (1 .. Len(item'))
    BY <1>0, <2>1
  <2>3. ASSUME NEW d \in 1 .. Len(item'), item'[d].kind = "degraded" PROVE i > d
    <3>1. d \in 1 .. Len(item)
      BY <1>0, <2>3
    <3> QED
      BY <2>1, <2>3, <3>1
  <2> QED
    BY <2>1, <2>2, <2>3 DEF Fresh
<1>2. ShowsKept
  BY <1>1 DEF ShowsKept, Shows, ShownBy, Byte
<1>3. ASSUME NEW i \in 1 .. Len(item'), i > Len(item), i \in Aud' PROVE i \in Fresh'
  <2>1. ASSUME NEW d \in 1 .. Len(item'), item'[d].kind = "degraded" PROVE i > d
    <3>1. d \in 1 .. Len(item)
      BY <1>0, <2>1
    <3> QED
      BY <1>0, <1>3, <3>1
  <2> QED
    BY <1>3, <2>1 DEF Fresh
<1> QED
  BY <1>1, <1>2, <1>3

\* What a broker that has not overflowed takes in is on its way.
LEMMA PublishShows ==
  ASSUME SupplyInv, NEW ev \in Event, NEW items \in Seq(Items), Len(ev.ids) = Len(items),
         \A i \in 1 .. Len(items) : ev.ids[i] = next + i - 1, Publish(ev), item' = item \o items,
         ~overflow', \A i \in 1 .. Len(items) : items[i].kind # "degraded"
  PROVE  /\ ~overflow /\ ShowsKept
         /\ \A i \in 1 .. Len(items) : \E k \in Fresh' : item'[k] = items[i]
<1>1. Accept(ev) /\ ~overflow
  BY DEF Publish, Refuse, Accept
<1>2. BacklogTypes /\ BacklogTypes' /\ UNCHANGED <<sub, got>> /\ next \in Nat /\ ev.ids \in Seq(Nat)
  <2>1. ev.ids \in Seq(Nat)
    BY DEF Event
  <2>2. BacklogTypes /\ BacklogTypes' /\ next \in Nat
    BY PublishEventStep DEF SupplyInv, IInv, CountTypes
  <2>3. UNCHANGED <<sub, got>>
    BY DEF Publish
  <2> QED
    BY <2>1, <2>2, <2>3
<1>3. /\ item \in Seq(Items) /\ Len(item) = next - 1 /\ Len(items) \in Nat /\ Len(item) \in Nat
      /\ Len(item') = Len(item) + Len(items)
      /\ \A i \in 1 .. Len(item) : item'[i] = item[i]
      /\ \A i \in 1 .. Len(items) : item'[Len(item) + i] = items[i]
  BY ItemAppend DEF SupplyInv, ItemTypes
<1>4. \A i \in 1 .. Len(item') : i > Len(item) => item'[i].kind # "degraded"
  <2> SUFFICES ASSUME NEW i \in 1 .. Len(item'), i > Len(item) PROVE item'[i].kind # "degraded"
    OBVIOUS
  <2>1. i - Len(item) \in 1 .. Len(items) /\ Len(item) + (i - Len(item)) = i
    BY <1>3
  <2>2. PICK k \in 1 .. Len(items) : Len(item) + k = i
    BY <2>1
  <2> QED
    BY <1>3, <2>2
<1>5. \A n : n \in Carried(buf) \/ n \in ToSet(ev.ids) => n \in Carried(buf')
  BY <1>1, <1>2, AcceptCarries
<1>6. Aud \subseteq Aud'
  BY <1>2, <1>5 DEF Aud
<1>7. /\ ShowsKept
      /\ \A i \in 1 .. Len(item') : i > Len(item) /\ i \in Aud' => i \in Fresh'
  BY <1>3, <1>4, <1>6, KeepsShowing
<1>8. ASSUME NEW i \in 1 .. Len(items) PROVE \E k \in Fresh' : item'[k] = items[i]
  <2>1. ev.ids[i] = next + i - 1 /\ next + i - 1 = Len(item) + i
    BY <1>2, <1>3
  <2>2. next + i - 1 \in ToSet(ev.ids)
    BY <1>2, <2>1, ToSetMember
  <2>3. Len(item) + i \in Aud'
    BY <1>5, <2>1, <2>2 DEF Aud
  <2>4. Len(item) + i \in 1 .. Len(item') /\ Len(item) + i > Len(item)
    BY <1>3
  <2> QED
    BY <1>3, <1>7, <2>3, <2>4
<1> QED
  BY <1>1, <1>7, <1>8

\* A step that publishes nothing and takes nothing away.
LEMMA StillShows ==
  ASSUME UNCHANGED item, Aud \subseteq Aud', item \in Seq(Items)
  PROVE  ShowsKept
<1>1. Len(item') >= Len(item) /\ Len(item') \in Nat
  OBVIOUS
<1>2. \A i \in 1 .. Len(item') : i > Len(item) => item'[i].kind # "degraded"
  OBVIOUS
<1> QED
  BY <1>1, <1>2, KeepsShowing

LEMMA SameSupply ==
  ASSUME SupplyInv, UNCHANGED <<buf, sub, gen, epoch, closed, pump, got, next, item>>
  PROVE  SupplyInv' /\ ShowsKept
<1>1. IInv'
  <2>1. closed' \in BOOLEAN
    BY DEF SupplyInv, IInv, CountTypes
  <2> QED
    BY <2>1, SameStep DEF SupplyInv
<1>2. ItemTypes' /\ GotNumbers' /\ CarriedIn'
  BY DEF SupplyInv, ItemTypes, Items, GotNumbers, CarriedIn
<1>3. PumpSide'
  BY DEF SupplyInv, PumpSide, HeldIn, Holding, HandedOver, ClosingLast, Serves, SubTypes
<1>4. Aud \subseteq Aud'
  BY DEF Aud
<1>5. ShowsKept
  BY <1>4, StillShows DEF SupplyInv, ItemTypes
<1> QED
  BY <1>1, <1>2, <1>3, <1>5 DEF SupplyInv

\* The event that the reader or a paint publishes for items.
EventOf(p, items) ==
    [kind |-> "output", pane |-> p, ids |-> [i \in 1 .. Len(items) |-> next + i - 1]]

LEMMA EventOfType ==
  ASSUME SupplyInv, NEW p \in Panes, NEW items \in Seq(Items)
  PROVE  /\ EventOf(p, items) \in Event /\ Len(EventOf(p, items).ids) = Len(items)
         /\ \A i \in 1 .. Len(items) : EventOf(p, items).ids[i] = next + i - 1
<1> DEFINE ids == [i \in 1 .. Len(items) |-> next + i - 1]
<1>1. next \in Nat /\ next >= 1
  <2>1. next \in Nat /\ Len(item) = next - 1 /\ Len(item) \in Nat
    BY DEF SupplyInv, IInv, CountTypes, ItemTypes
  <2> QED
    BY <2>1
<1>2. Len(items) \in Nat
  OBVIOUS
<1>3. ids \in Seq(Nat) /\ Len(ids) = Len(items) /\ \A i \in 1 .. Len(items) : ids[i] = next + i - 1
  BY <1>1, <1>2
<1>4. EventOf(p, items).ids = ids /\ EventOf(p, items) = [kind |-> "output", pane |-> p, ids |-> ids]
  BY DEF EventOf
<1> HIDE DEF ids
<1>5. EventOf(p, items) \in Event
  BY <1>3, <1>4 DEF Event
<1> QED
  BY <1>3, <1>4, <1>5

LEMMA EmitCases ==
  ASSUME NEW p, NEW items, Emit(p, items)
  PROVE  \/ (items = <<>> \/ closed) /\ UNCHANGED <<vars, item>>
         \/ ~closed /\ Publish(EventOf(p, items)) /\ item' = item \o items
BY DEF Emit, EventOf

LEMMA EmitSupply ==
  ASSUME SupplyInv, NEW p \in Panes, NEW items \in Seq(Items), Emit(p, items)
  PROVE  SupplyInv'
<1>1. CASE UNCHANGED <<vars, item>>
  BY <1>1, SameSupply DEF vars
<1>2. CASE Publish(EventOf(p, items)) /\ item' = item \o items
  <2>1. PICK ev \in Event : ev = EventOf(p, items)
    BY EventOfType
  <2>2. Len(ev.ids) = Len(items) /\ \A i \in 1 .. Len(items) : ev.ids[i] = next + i - 1
    BY <2>1, EventOfType
  <2> QED
    BY <1>2, <2>1, <2>2, PublishSupply
<1> QED
  BY <1>1, <1>2, EmitCases

\* What is emitted while the broker has not overflowed is on its way.
LEMMA EmitShows ==
  ASSUME SupplyInv, NEW p \in Panes, NEW items \in Seq(Items), Emit(p, items),
         ~closed, ~overflow', \A i \in 1 .. Len(items) : items[i].kind # "degraded"
  PROVE  /\ ~overflow /\ ShowsKept
         /\ \A i \in 1 .. Len(items) : \E k \in Fresh' : item'[k] = items[i]
<1>1. CASE items = <<>> /\ UNCHANGED <<vars, item>>
  BY <1>1, SameSupply DEF vars
<1>2. CASE Publish(EventOf(p, items)) /\ item' = item \o items
  <2>1. PICK ev \in Event : ev = EventOf(p, items)
    BY EventOfType
  <2>2. Len(ev.ids) = Len(items) /\ \A i \in 1 .. Len(items) : ev.ids[i] = next + i - 1
    BY <2>1, EventOfType
  <2>3. Publish(ev) /\ item' = item \o items
    BY <1>2, <2>1
  <2> QED
    BY <2>2, <2>3, PublishShows
<1> QED
  BY <1>1, <1>2, EmitCases

\* The frame of what emits and tells, and when the broker overflows.
Published ==
    /\ UNCHANGED <<cooling, sub, gen, epoch, closed, pump, got>>
    /\ overflow' \in BOOLEAN /\ (overflow => overflow') /\ reports' \in Nat
    /\ reports' >= reports /\ (overflow' => overflow \/ reports' > 0)

LEMMA PublishFrame ==
  ASSUME reports \in Nat, overflow \in BOOLEAN, NEW ev, Publish(ev)
  PROVE  Published
<1>1. UNCHANGED <<cooling, sub, gen, epoch, closed, pump, got>>
  BY DEF Publish
<1>2. CASE Refuse(ev)
  BY <1>1, <1>2 DEF Refuse, Reporting, Published
<1>3. CASE Accept(ev)
  BY <1>1, <1>3 DEF Accept, Published
<1> QED
  BY <1>2, <1>3 DEF Publish

LEMMA EmitFrame ==
  ASSUME reports \in Nat, overflow \in BOOLEAN, NEW p, NEW items, Emit(p, items)
  PROVE  Published
<1>1. CASE UNCHANGED <<vars, item>>
  BY <1>1 DEF vars, Published
<1>2. CASE Publish(EventOf(p, items))
  BY <1>2, PublishFrame
<1> QED
  BY <1>1, <1>2, EmitCases

LEMMA TellSteps ==
  ASSUME SupplyInv, reports \in Nat, overflow \in BOOLEAN,
         NEW k \in {"attached", "degraded", "exited"}, Tell(k)
  PROVE  /\ SupplyInv' /\ Published
         /\ k # "degraded" /\ ~closed /\ ~overflow' => ~overflow /\ ShowsKept
<1>1. CASE closed
  <2>1. UNCHANGED <<vars, item>>
    BY <1>1 DEF Tell
  <2> QED
    BY <1>1, <2>1, SameSupply DEF vars, Published
<1>2. CASE ~closed
  <2> DEFINE ev == Notice("lifecycle")
             items == <<Life(k)>>
  <2>1. Publish(ev) /\ item' = Append(item, Life(k))
    BY <1>2 DEF Tell
  <2>2. ev \in Event
    BY PublishedType DEF SupplyInv, IInv
  <2>3. Life(k) \in Items
    BY DEF Life, Items
  <2>4. items \in Seq(Items) /\ Len(items) = 1 /\ items[1] = Life(k) /\ item' = item \o items
    BY <2>1, <2>3 DEF SupplyInv, ItemTypes
  <2>5. ev.ids = <<next>> /\ next \in Nat
    BY DEF Notice, SupplyInv, IInv, CountTypes
  <2>6. Len(ev.ids) = Len(items) /\ \A i \in 1 .. Len(items) : ev.ids[i] = next + i - 1
    <3>1. Len(ev.ids) = 1 /\ ev.ids[1] = next
      BY <2>5
    <3> HIDE DEF ev, items
    <3> QED
      BY <2>4, <2>5, <3>1
  <2>7. k # "degraded" => \A i \in 1 .. Len(items) : items[i].kind # "degraded"
    BY <2>4 DEF Life
  <2> HIDE DEF ev, items
  <2>8. SupplyInv'
    BY <2>1, <2>2, <2>4, <2>6, PublishSupply
  <2>9. Published
    BY <2>1, PublishFrame
  <2>10. k # "degraded" /\ ~overflow' => ~overflow /\ ShowsKept
    BY <2>1, <2>2, <2>4, <2>6, <2>7, PublishShows
  <2> QED
    BY <2>8, <2>9, <2>10
<1> QED
  BY <1>1, <1>2

-----------------------------------------------------------------------------
\* Removing the head brings no number in.
LEMMA TailOnly ==
  ASSUME BacklogTypes, buf # <<>>
  PROVE  Carried(Tail(buf)) \subseteq Carried(buf) /\ ToSet(Head(buf).ids) \subseteq Carried(buf)
<1>0. buf \in Seq(Event) /\ Tail(buf) \in Seq(Event) /\ Len(buf) \in Nat /\ Len(buf) >= 1 /\ Len(Tail(buf)) = Len(buf) - 1
      /\ Head(buf) = buf[1]
  BY DEF BacklogTypes
<1>1. ASSUME NEW n \in Carried(Tail(buf)) PROVE n \in Carried(buf)
  <2>1. PICK i \in 1 .. Len(Tail(buf)) : n \in ToSet(Tail(buf)[i].ids)
    BY <1>0, CarriedMember
  <2>2. i + 1 \in 1 .. Len(buf) /\ Tail(buf)[i] = buf[i + 1]
    BY <1>0, <2>1
  <2> QED
    BY <1>0, <2>1, <2>2, CarriedMember
<1>2. ToSet(Head(buf).ids) \subseteq Carried(buf)
  BY <1>0, CarriedMember
<1> QED
  BY <1>1, <1>2

\* What a step of a pump makes of it.
PumpMoves(g, x) ==
    /\ pump' = [pump EXCEPT ![g] = x] /\ pump[g].pc # "none"
    /\ x.closing => closed
    /\ x.pc \in {"send", "took"} => ToSet(x.ev.ids) \subseteq 1 .. next - 1
    /\ x.pc = "took" /\ ~closed => ToSet(x.ev.ids) \subseteq got'[g]

LEMMA ToMoves ==
  ASSUME NEW g, NEW pc \in {"look", "gone"}, To(g, pc), pump[g].pc # "none"
  PROVE  \E x \in PumpState : PumpMoves(g, x)
<1> DEFINE x == [Idle EXCEPT !.pc = pc]
<1>1. x \in PumpState /\ x.pc = pc /\ ~x.closing
  BY DEF Idle, PumpState
<1>2. pump' = [pump EXCEPT ![g] = x]
  BY DEF To
<1> HIDE DEF x
<1> QED
  BY <1>1, <1>2 DEF PumpMoves

LEMMA PumpMove ==
  ASSUME SupplyInv, NEW g \in Gens, Pump(g)
  PROVE  /\ \E x \in PumpState : PumpMoves(g, x)
         /\ UNCHANGED <<overflow, reports, cooling, sub, gen, epoch, closed, next>>
         /\ got' \in [Gens -> SUBSET (1 .. next - 1)] /\ \A h \in Gens : got[h] \subseteq got'[h]
         /\ \/ buf' = buf
            \/ /\ gen = g /\ pump[g].pc = "took" /\ pump[g].epoch = epoch
               /\ buf # <<>> /\ buf' = Tail(buf)
<1>0. got \in [Gens -> SUBSET (1 .. next - 1)] /\ pump[g] \in PumpState
  BY DEF SupplyInv, GotNumbers, IInv, PumpTypes
<1>1. CASE Look(g)
  <2>1. CASE To(g, "gone")
    BY <1>0, <1>1, <2>1, ToMoves DEF Look, At
  <2>2. CASE buf # <<>>
             /\ pump' = [pump EXCEPT ![g] = [pc |-> "send", ev |-> Head(buf), epoch |-> epoch, closing |-> closed]]
    <3> DEFINE x == [pc |-> "send", ev |-> Head(buf), epoch |-> epoch, closing |-> closed]
    <3>1. Head(buf) \in Event /\ epoch \in Nat /\ closed \in BOOLEAN
      BY <2>2 DEF SupplyInv, IInv, BacklogTypes, CountTypes
    <3>2. x \in PumpState /\ x.pc = "send" /\ x.ev = Head(buf) /\ x.closing = closed
      BY <3>1 DEF PumpState
    <3>3. ToSet(Head(buf).ids) \subseteq 1 .. next - 1
      BY <2>2, TailOnly DEF SupplyInv, IInv, CarriedIn
    <3>4. pump' = [pump EXCEPT ![g] = x] /\ pump[g].pc = "look"
      BY <1>1, <2>2 DEF Look, At
    <3> HIDE DEF x
    <3>5. PumpMoves(g, x)
      BY <3>2, <3>3, <3>4 DEF PumpMoves
    <3> QED
      BY <1>0, <1>1, <3>2, <3>5 DEF Look
  <2> QED
    BY <1>1, <2>1, <2>2 DEF Look
<1>2. CASE Deliver(g) \/ PassOver(g)
  <2> DEFINE x == [pump[g] EXCEPT !.pc = "took"]
  <2>1. x \in PumpState /\ x.pc = "took" /\ x.ev = pump[g].ev /\ x.closing = pump[g].closing
    BY <1>0 DEF PumpState
  <2>2. pump' = [pump EXCEPT ![g] = x] /\ pump[g].pc = "send"
    BY <1>2 DEF Deliver, PassOver, Took, At
  <2>3. ToSet(pump[g].ev.ids) \subseteq 1 .. next - 1
    BY <2>2 DEF SupplyInv, PumpSide, HeldIn, Holding
  <2>4. pump[g].closing => closed
    BY DEF SupplyInv, PumpSide, ClosingLast
  <2>5. /\ got' \in [Gens -> SUBSET (1 .. next - 1)] /\ \A h \in Gens : got[h] \subseteq got'[h]
        /\ ToSet(pump[g].ev.ids) \subseteq got'[g] \/ closed
    <3>1. CASE Deliver(g)
      BY <1>0, <2>3, <3>1 DEF Deliver
    <3>2. CASE PassOver(g)
      BY <1>0, <2>4, <3>2 DEF PassOver
    <3> QED
      BY <1>2, <3>1, <3>2
  <2>6. UNCHANGED <<buf, overflow, reports, cooling, sub, gen, epoch, closed, next>>
    BY <1>2 DEF Deliver, PassOver
  <2> HIDE DEF x
  <2>7. PumpMoves(g, x)
    BY <2>1, <2>2, <2>3, <2>4, <2>5 DEF PumpMoves
  <2> QED
    BY <2>1, <2>5, <2>6, <2>7
<1>3. CASE GiveUp(g) \/ Stop(g) \/ Released(g)
  <2>1. pump[g].pc = "send" /\ UNCHANGED <<buf, overflow, reports, cooling, sub, gen, epoch, closed, got, next>>
    BY <1>3 DEF GiveUp, Stop, Released, At
  <2>2. To(g, "gone") \/ To(g, "look")
    BY <1>3 DEF GiveUp, Stop, Released
  <2>3. \E x \in PumpState : PumpMoves(g, x)
    BY <2>1, <2>2, ToMoves
  <2> QED
    BY <1>0, <2>1, <2>3
<1>4. CASE Advance(g)
  <2>1. pump[g].pc = "took" /\ UNCHANGED <<overflow, reports, cooling, sub, gen, epoch, closed, got, next>>
    BY <1>4 DEF Advance, At
  <2>2. To(g, "gone") \/ To(g, "look")
    BY <1>4 DEF Advance, AfterClear
  <2>3. \E x \in PumpState : PumpMoves(g, x)
    BY <2>1, <2>2, ToMoves
  <2>4. buf' = buf \/ (gen = g /\ pump[g].epoch = epoch /\ buf # <<>> /\ buf' = Tail(buf))
    BY <1>4 DEF Advance, Mine
  <2> QED
    BY <1>0, <2>1, <2>3, <2>4
<1> QED
  BY <1>1, <1>2, <1>3, <1>4 DEF Pump

\* A pump takes nothing away that its reader does not have.
LEMMA PumpSupply ==
  ASSUME SupplyInv, NEW g \in Gens, Pump(g), UNCHANGED item
  PROVE  SupplyInv' /\ (~closed => ShowsKept)
<1>1. IInv'
  BY PumpStep DEF SupplyInv
<1>2. PICK x \in PumpState : PumpMoves(g, x)
  BY PumpMove
<1>3. /\ UNCHANGED <<overflow, reports, cooling, sub, gen, epoch, closed, next>>
      /\ got' \in [Gens -> SUBSET (1 .. next - 1)] /\ \A h \in Gens : got[h] \subseteq got'[h]
      /\ \/ buf' = buf
         \/ /\ gen = g /\ pump[g].pc = "took" /\ pump[g].epoch = epoch
            /\ buf # <<>> /\ buf' = Tail(buf)
  BY PumpMove
<1>4. ItemTypes' /\ GotNumbers' /\ SubTypes'
  BY <1>3 DEF SupplyInv, ItemTypes, Items, GotNumbers, PumpSide, SubTypes
<1>5. CarriedIn'
  BY <1>3, TailOnly DEF SupplyInv, IInv, CarriedIn
<1>6. pump'[g] = x /\ \A h \in Gens \ {g} : pump'[h] = pump[h]
  BY <1>2 DEF PumpMoves, SupplyInv, IInv, PumpTypes
<1>7. HeldIn' /\ ClosingLast' /\ Serves'
  BY <1>2, <1>3, <1>6 DEF PumpMoves, SupplyInv, PumpSide, HeldIn, Holding, ClosingLast, Serves
<1>8. HandedOver'
  BY <1>2, <1>3, <1>6 DEF PumpMoves, SupplyInv, PumpSide, HandedOver
<1>9. ASSUME ~closed PROVE ShowsKept
  <2>1. ASSUME NEW n \in Carried(buf) PROVE n \in Aud'
    <3>1. CASE buf' = buf
      BY <3>1 DEF Aud
    <3>2. CASE /\ gen = g /\ pump[g].pc = "took" /\ pump[g].epoch = epoch
               /\ buf # <<>> /\ buf' = Tail(buf)
      <4>1. Head(buf) = pump[g].ev /\ sub = g /\ g # 0
        BY <3>2 DEF SupplyInv, IInv, HeadIsHeld, PumpSide, Serves, Gens
      <4>2. CASE n \in ToSet(Head(buf).ids)
        <5>1. n \in got[g]
          BY <1>9, <3>2, <4>1, <4>2 DEF SupplyInv, PumpSide, HandedOver
        <5> QED
          BY <1>3, <4>1, <5>1 DEF Aud
      <4>3. CASE n \notin ToSet(Head(buf).ids)
        <5>1. n \in Carried(buf')
          BY <3>2, <4>3, TailCarries DEF SupplyInv, IInv
        <5> QED
          BY <5>1 DEF Aud
      <4> QED
        BY <4>2, <4>3
    <3> QED
      BY <1>3, <3>1, <3>2
  <2>2. ASSUME sub # 0, NEW n \in got[sub] PROVE n \in Aud'
    BY <1>3, <2>2 DEF Aud, SupplyInv, PumpSide, SubTypes
  <2>3. Aud \subseteq Aud'
    BY <2>1, <2>2 DEF Aud
  <2> QED
    BY <2>3, StillShows DEF SupplyInv, ItemTypes
<1> QED
  BY <1>1, <1>4, <1>5, <1>7, <1>8, <1>9 DEF SupplyInv, PumpSide

-----------------------------------------------------------------------------
\* The subscriber's coming and going.
LEMMA SubscribeSupply ==
  ASSUME SupplyInv, Subscribe, UNCHANGED item
  PROVE  SupplyInv' /\ (sub = 0 => ShowsKept)
<1>1. IInv' /\ gen \in Nat
  BY SubscribeStep DEF SupplyInv, IInv, CountTypes
<1>2. /\ gen + 1 \in Gens /\ gen' = gen + 1 /\ sub' = gen + 1
      /\ UNCHANGED <<buf, closed, got, next>>
      /\ pump' = [pump EXCEPT ![gen + 1] = [@ EXCEPT !.pc = "look"]]
  BY <1>1, LimitsAssumption DEF Subscribe, Gens
<1>3. /\ pump'[gen + 1].pc = "look" /\ pump'[gen + 1].closing = pump[gen + 1].closing
      /\ \A g \in Gens \ {gen + 1} : pump'[g] = pump[g]
  BY <1>2 DEF SupplyInv, IInv, PumpTypes, PumpState
<1>4. ItemTypes' /\ GotNumbers' /\ CarriedIn'
  BY <1>2 DEF SupplyInv, ItemTypes, Items, GotNumbers, CarriedIn
<1>5. HeldIn' /\ HandedOver' /\ ClosingLast' /\ Serves' /\ SubTypes'
  BY <1>2, <1>3 DEF SupplyInv, PumpSide, HeldIn, Holding, HandedOver, ClosingLast, Serves, SubTypes
<1>6. ASSUME sub = 0 PROVE ShowsKept
  <2>1. Aud \subseteq Aud'
    BY <1>2, <1>6 DEF Aud
  <2> QED
    BY <2>1, StillShows DEF SupplyInv, ItemTypes
<1> QED
  BY <1>1, <1>4, <1>5, <1>6 DEF SupplyInv, PumpSide

\* Releasing the subscriber, with the backlog or without.
LEMMA ReleaseSupply ==
  ASSUME SupplyInv, Release, IInv', UNCHANGED <<closed, pump, got, next, item>>,
         buf' = buf \/ buf' = <<>>
  PROVE  SupplyInv'
<1>1. gen \in Nat /\ sub' = 0 /\ gen' \in {gen, gen + 1} /\ (gen' = gen => sub = 0)
  BY DEF SupplyInv, IInv, CountTypes, Release
<1>2. ItemTypes' /\ GotNumbers' /\ SubTypes'
  BY <1>1 DEF SupplyInv, ItemTypes, Items, GotNumbers, SubTypes
<1>3. CarriedIn'
  BY DEF SupplyInv, CarriedIn, Carried
<1>4. HeldIn' /\ HandedOver' /\ ClosingLast'
  BY DEF SupplyInv, PumpSide, HeldIn, Holding, HandedOver, ClosingLast
<1>5. Serves'
  <2> SUFFICES ASSUME NEW g \in Gens, pump[g].pc # "none", gen' = g PROVE FALSE
    BY <1>1 DEF Serves
  <2>1. CASE gen' = gen + 1
    BY <1>1, <2>1 DEF SupplyInv, IInv, Unstarted
  <2>2. CASE gen' = gen
    BY <1>1, <2>2 DEF SupplyInv, PumpSide, Serves, Gens
  <2> QED
    BY <1>1, <2>1, <2>2
<1> QED
  BY <1>2, <1>3, <1>4, <1>5 DEF SupplyInv, PumpSide

LEMMA UnsubscribeSupply ==
  ASSUME SupplyInv, NEW g \in Gens, Unsubscribe(g), UNCHANGED item
  PROVE  SupplyInv'
<1>1. gen \in Nat /\ gen' \in {gen, gen + 1} /\ UNCHANGED <<buf, epoch, closed, pump, got, next>> /\ Release
  BY DEF Unsubscribe, Release, SupplyInv, IInv, CountTypes
<1>2. IInv'
  <2>1. Unstarted' /\ HeadIsHeld'
    BY <1>1, ReleaseStep DEF SupplyInv
  <2> QED
    BY <1>1, <2>1 DEF SupplyInv, IInv, BacklogTypes, CountTypes, PumpTypes, PastEpoch
<1> QED
  BY <1>1, <1>2, ReleaseSupply

LEMMA ResetSupply ==
  ASSUME SupplyInv, Reset, UNCHANGED item
  PROVE  SupplyInv'
<1>1. gen' \in {gen, gen + 1} /\ UNCHANGED <<closed, pump, got, next>> /\ Release /\ Clear /\ buf' = <<>>
  BY DEF Reset, Release, Clear
<1>2. IInv'
  BY <1>1, ClearStep DEF SupplyInv
<1> QED
  BY <1>1, <1>2, ReleaseSupply

LEMMA ResyncSupply ==
  ASSUME SupplyInv, Resync, UNCHANGED <<sub, gen, closed, pump, got, next, item>>
  PROVE  SupplyInv'
<1>1. CASE CanResync
  <2>1. Clear /\ buf' = <<>>
    BY <1>1 DEF Resync, Clear
  <2>2. IInv'
    BY <2>1, ClearStep DEF SupplyInv
  <2>3. ItemTypes' /\ GotNumbers' /\ CarriedIn'
    BY <2>1 DEF SupplyInv, ItemTypes, Items, GotNumbers, CarriedIn, Carried
  <2>4. PumpSide'
    BY DEF SupplyInv, PumpSide, HeldIn, Holding, HandedOver, ClosingLast, Serves, SubTypes
  <2> QED
    BY <2>2, <2>3, <2>4 DEF SupplyInv
<1>2. CASE ~CanResync
  BY <1>2, SameSupply DEF Resync
<1> QED
  BY <1>1, <1>2

LEMMA CloseSupply ==
  ASSUME SupplyInv, Close, UNCHANGED item
  PROVE  SupplyInv'
<1>1. UNCHANGED <<buf, sub, gen, epoch, pump, got, next>> /\ closed' = TRUE
  BY DEF Close
<1>2. IInv'
  BY <1>1, SameStep DEF SupplyInv
<1>3. ItemTypes' /\ GotNumbers' /\ CarriedIn' /\ PumpSide'
  BY <1>1 DEF SupplyInv, ItemTypes, Items, GotNumbers, CarriedIn, PumpSide, HeldIn, Holding, HandedOver,
              ClosingLast, Serves, SubTypes
<1> QED
  BY <1>2, <1>3 DEF SupplyInv

-----------------------------------------------------------------------------
(* The invariant of the screen                                             *)

\* Somebody reads, or will read what is published now.
Expecting ==
    \/ sub # 0 \/ ready \/ attached = "no"
    \/ owner = "attach" /\ step \in {"hold", "paint"}

\* The times at which the screen is owed: not between a clear of the backlog
\* and the hold that follows it.
Region == torn = "no" /\ ~overflow /\ Expecting /\ step \notin {"degrade", "hold"}

\* A live pane shows all it wrote; the gate keeps what is missing of a held one,
\* and behind its snapshot only that.
Claim(p) ==
    \/ p \in blank \cup crossed
    \/ gate[p] = "live" /\ \A n \in 1 .. produced[p] : Shows(p, n)
    \/ /\ gate[p] = "held"
       /\ (\E w \in Passes : work[w].pane = p /\ work[w].pc = "tail") => \A n \in 1 .. mark[p] : Shows(p, n)

Claims == Region => \A p \in known : Claim(p)

\* A pass that has a pane in hand has it alone, the gate holds it, and its
\* snapshot is not older than the mark.
Hand(p) ==
    \A w \in Passes : work[w].pane = p =>
        /\ \A v \in Passes : work[v].pane = p => v = w
        /\ gate[p] = "held"
        /\ work[w].pc = "captured" => mark[p] <= work[w].n
OneHand == \A p \in Panes : p \in crossed \/ Hand(p)

MarkInv == mark \in [Panes -> Nat] /\ \A p \in Panes : mark[p] <= produced[p]

\* Between overflow and clear a report is out, or its answer has not cleared yet.
Answered ==
    torn = "no" /\ overflow =>
        reports > 0 \/ (resyncing /\ ~(owner = "resync" /\ step \in {"degrade", "hold", "paint"}))

CtlTypes == reports \in Nat /\ overflow \in BOOLEAN
OwnerInv ==
    /\ owner = "none" => step = "idle"
    /\ owner = "resync" => resyncing
    /\ owner = "attach" => ~ready /\ attached = "yes"
    /\ step = "degrade" => owner = "resync"
    /\ attached = "no" => ~ready
    /\ closed => torn # "no"

\* No subscriber while an attach is on its way to one.
Vacated ==
    torn = "no" /\ sub # 0 =>
        ~ready /\ attached # "no" /\ ~(owner = "attach" /\ step \in {"hold", "paint"})

Ctl == CtlTypes /\ OwnerInv /\ Vacated /\ Answered

ScreenInv == MarkInv /\ OneHand /\ Claims
StreamInv == HoldInv /\ SupplyInv /\ Ctl /\ ScreenInv

-----------------------------------------------------------------------------
(* One pane at a time                                                      *)

\* The hands that pane p is in after the step it was in before.
SameHands(p) ==
    \A v \in Passes : work'[v].pane = p =>
        work[v].pane = p /\ work'[v].pc = work[v].pc /\ work'[v].n = work[v].n

Untouched(p) ==
    /\ gate'[p] = gate[p] /\ mark'[p] = mark[p] /\ SameHands(p)
    /\ p \in blank => p \in blank'
    /\ p \in crossed => p \in crossed'

LEMMA HandKept ==
  ASSUME NEW p \in Panes, p \in crossed \/ Hand(p), p \in crossed => p \in crossed', SameHands(p),
         gate[p] = "held" => gate'[p] = "held" /\ mark'[p] = mark[p]
  PROVE  p \in crossed' \/ Hand(p)'
BY DEF Hand, SameHands

LEMMA ClaimKept ==
  ASSUME NEW p \in Panes, Claim(p), Untouched(p), ShowsKept, MarkInv, ScreenTypes,
         gate[p] = "live" => produced'[p] = produced[p]
  PROVE  Claim(p)'
<1>1. mark[p] \in Nat /\ produced[p] \in Nat
  BY DEF MarkInv, ScreenTypes
<1>2. \A n \in Nat : Shows(p, n) => Shows(p, n)'
  BY DEF ShowsKept
<1>3. CASE p \in blank \cup crossed
  BY <1>3 DEF Untouched, Claim
<1>4. CASE gate[p] = "live" /\ \A n \in 1 .. produced[p] : Shows(p, n)
  <2>1. gate'[p] = "live" /\ produced'[p] = produced[p]
    BY <1>4 DEF Untouched
  <2>2. \A n \in 1 .. produced'[p] : Shows(p, n)'
    BY <1>1, <1>2, <1>4, <2>1
  <2> QED
    BY <2>1, <2>2 DEF Claim
<1>5. CASE /\ gate[p] = "held"
           /\ (\E w \in Passes : work[w].pane = p /\ work[w].pc = "tail") => \A n \in 1 .. mark[p] : Shows(p, n)
  <2>1. gate'[p] = "held" /\ mark'[p] = mark[p]
    BY <1>5 DEF Untouched
  <2>2. ASSUME NEW w \in Passes, work'[w].pane = p, work'[w].pc = "tail"
        PROVE  \A n \in 1 .. mark'[p] : Shows(p, n)'
    <3>1. \A n \in 1 .. mark[p] : Shows(p, n)
      BY <1>5, <2>2 DEF Untouched, SameHands
    <3> QED
      BY <1>1, <1>2, <2>1, <3>1
  <2> QED
    BY <2>1, <2>2 DEF Claim
<1> QED
  BY <1>3, <1>4, <1>5 DEF Claim

LEMMA HeldClaim ==
  ASSUME NEW p \in Panes, gate'[p] = "held",
         \A w \in Passes : work'[w].pane = p => work'[w].pc # "tail"
  PROVE  Claim(p)'
BY DEF Claim

\* A step that concerns one pane.
LEMMA OnePane ==
  ASSUME StreamInv, NEW p \in Panes, \A q \in Panes : q # p => Untouched(q),
         produced' \in [Panes -> Nat], \A q \in Panes : q # p => produced'[q] = produced[q],
         mark' \in [Panes -> Nat], mark'[p] <= produced'[p],
         known' \subseteq known \cup {p},
         p \in crossed' \/ Hand(p)',
         Region' => Region /\ ShowsKept,
         Region' /\ p \in known' => Claim(p)'
  PROVE  ScreenInv'
<1>1. MarkInv'
  BY DEF StreamInv, ScreenInv, MarkInv, Untouched
<1>2. OneHand'
  <2> SUFFICES ASSUME NEW q \in Panes, q # p PROVE q \in crossed' \/ Hand(q)'
    BY DEF OneHand
  <2>1. q \in crossed \/ Hand(q)
    BY DEF StreamInv, ScreenInv, OneHand
  <2>2. Untouched(q)
    OBVIOUS
  <2> QED
    BY <2>1, <2>2, HandKept DEF Untouched
<1>3. Claims'
  <2> SUFFICES ASSUME Region', NEW q \in known', q # p PROVE Claim(q)'
    BY DEF Claims
  <2>1. q \in known /\ q \in Panes /\ Claim(q) /\ ShowsKept
    BY DEF StreamInv, ScreenInv, Claims, HoldInv, PanesKnown
  <2>2. Untouched(q) /\ produced'[q] = produced[q]
    BY <2>1
  <2> QED
    BY <2>1, <2>2, ClaimKept DEF StreamInv, ScreenInv, HoldInv
<1> QED
  BY <1>1, <1>2, <1>3 DEF ScreenInv

\* A step that touches no pane.
Quiet == UNCHANGED <<produced, mark, gate, known, blank, crossed>> /\ \A p \in Panes : SameHands(p)

LEMMA QuietStep ==
  ASSUME StreamInv, Quiet, Region' => Region /\ ShowsKept
  PROVE  ScreenInv'
<1>0. \A p \in Panes : Untouched(p)
  BY DEF Quiet, Untouched
<1>1. MarkInv'
  BY DEF StreamInv, ScreenInv, MarkInv, Quiet
<1>2. OneHand'
  <2> SUFFICES ASSUME NEW q \in Panes PROVE q \in crossed' \/ Hand(q)'
    BY DEF OneHand
  <2>1. q \in crossed \/ Hand(q)
    BY DEF StreamInv, ScreenInv, OneHand
  <2>2. Untouched(q)
    BY <1>0
  <2> QED
    BY <2>1, <2>2, HandKept DEF Untouched
<1>3. Claims'
  <2> SUFFICES ASSUME Region', NEW q \in known' PROVE Claim(q)'
    BY DEF Claims
  <2>1. q \in known /\ q \in Panes /\ Claim(q) /\ ShowsKept
    BY DEF StreamInv, ScreenInv, Claims, HoldInv, PanesKnown, Quiet
  <2>2. Untouched(q) /\ produced'[q] = produced[q]
    BY <1>0, <2>1 DEF Quiet
  <2> QED
    BY <2>1, <2>2, ClaimKept DEF StreamInv, ScreenInv, HoldInv
<1> QED
  BY <1>1, <1>2, <1>3 DEF ScreenInv

\* The hands after pass w has moved on to r.
LEMMA WorkMoves ==
  ASSUME HoldInv, NEW w \in Passes, NEW r, work' = [work EXCEPT ![w] = r]
  PROVE  work'[w] = r /\ \A v \in Passes : v # w => work'[v] = work[v]
BY DEF HoldInv, WorkTypes

LEMMA EmptyHands ==
  ASSUME HoldInv, NEW w \in Passes, NEW r, r.pane = NoPane, work' = [work EXCEPT ![w] = r]
  PROVE  \A p \in Panes : SameHands(p)
BY WorkMoves, StreamAssumption DEF SameHands

-----------------------------------------------------------------------------
(* Frames                                                                  *)

\* A step of the screen: the passes' owners, the teardown and the door stay.
ScreenStep == Published /\ UNCHANGED <<owner, step, resyncing, torn, attached, ready>>

LEMMA ScreenFrame ==
  ASSUME StreamInv, ScreenStep
  PROVE  Ctl' /\ (Region' => Region /\ ~closed /\ ~overflow')
<1>1. CtlTypes' /\ OwnerInv'
  BY DEF StreamInv, Ctl, CtlTypes, OwnerInv, ScreenStep, Published
<1>2. Vacated' /\ Answered'
  BY DEF StreamInv, Ctl, CtlTypes, Vacated, Answered, ScreenStep, Published
<1>3. Region' => Region /\ ~closed /\ ~overflow'
  BY DEF StreamInv, Ctl, CtlTypes, OwnerInv, Region, Expecting, ScreenStep, Published
<1> QED
  BY <1>1, <1>2, <1>3 DEF Ctl

LEMMA UnpublishedFrame ==
  ASSUME StreamInv, UNCHANGED vars
  PROVE  Published
BY DEF StreamInv, Ctl, CtlTypes, Published, vars

LEMMA HeldBackItems ==
  ASSUME StreamInv, NEW p \in Panes
  PROVE  /\ HeldBack(p) \in Seq(Items) /\ Len(HeldBack(p)) = produced[p] - mark[p]
         /\ mark[p] \in Nat /\ produced[p] \in Nat /\ mark[p] <= produced[p]
         /\ \A i \in 1 .. produced[p] - mark[p] : HeldBack(p)[i] = Byte(p, mark[p] + i)
         /\ \A i \in 1 .. Len(HeldBack(p)) : HeldBack(p)[i].kind # "degraded"
<1>1. mark[p] \in Nat /\ produced[p] \in Nat /\ mark[p] <= produced[p]
  BY DEF StreamInv, ScreenInv, MarkInv, HoldInv, ScreenTypes
<1>2. \A i \in Nat : Byte(p, mark[p] + i) \in Items /\ Byte(p, mark[p] + i).kind # "degraded"
  BY <1>1 DEF Byte, Items
<1>3. produced[p] - mark[p] \in Nat
  BY <1>1
<1>4. PICK k \in Nat : k = produced[p] - mark[p]
  BY <1>3
<1>5. HeldBack(p) = [i \in 1 .. k |-> Byte(p, mark[p] + i)]
  BY <1>4 DEF HeldBack
<1>6. HeldBack(p) \in Seq(Items) /\ Len(HeldBack(p)) = k
      /\ \A i \in 1 .. k : HeldBack(p)[i] = Byte(p, mark[p] + i)
  <2> DEFINE b == [i \in 1 .. k |-> Byte(p, mark[p] + i)]
  <2>1. b \in [1 .. k -> Items]
    BY <1>2
  <2>2. \A i \in 1 .. k : b[i] = Byte(p, mark[p] + i)
    OBVIOUS
  <2> HIDE DEF b
  <2>3. b \in Seq(Items) /\ Len(b) = k
    BY <1>4, <2>1
  <2>4. HeldBack(p) = b
    BY <1>5 DEF b
  <2> QED
    BY <2>2, <2>3, <2>4, SMTT(20)
<1> QED
  BY <1>1, <1>2, <1>4, <1>6

\* What the gate has kept reaches the stream.
LEMMA LetGoShows ==
  ASSUME StreamInv, NEW p \in Panes, Emit(p, HeldBack(p))
  PROVE  /\ SupplyInv' /\ Published
         /\ ~closed /\ ~overflow' =>
              /\ ShowsKept
              /\ \A n \in 1 .. produced[p] : n > mark[p] => Shows(p, n)'
<1>1. PICK s \in Seq(Items) : s = HeldBack(p)
  BY HeldBackItems
<1>2. Emit(p, s) /\ \A i \in 1 .. Len(s) : s[i].kind # "degraded"
  BY <1>1, HeldBackItems
<1>3. SupplyInv' /\ Published
  BY <1>2, EmitSupply, EmitFrame DEF StreamInv, Ctl, CtlTypes
<1>4. ASSUME ~closed, ~overflow'
      PROVE  ShowsKept /\ \A i \in 1 .. Len(s) : \E k \in Fresh' : item'[k] = s[i]
  BY <1>2, <1>4, EmitShows DEF StreamInv
<1>5. ASSUME ~closed, ~overflow', NEW n \in 1 .. produced[p], n > mark[p] PROVE Shows(p, n)'
  <2>1. PICK i \in 1 .. produced[p] - mark[p] : mark[p] + i = n
    <3>1. n - mark[p] \in 1 .. produced[p] - mark[p] /\ mark[p] + (n - mark[p]) = n
      BY <1>5, HeldBackItems
    <3> QED
      BY <3>1
  <2>2. i \in 1 .. Len(s) /\ s[i] = Byte(p, n)
    BY <1>1, <2>1, HeldBackItems
  <2>3. PICK k \in Fresh' : item'[k] = Byte(p, n)
    BY <1>4, <1>5, <2>2
  <2> QED
    BY <2>3 DEF Shows, ShownBy, Byte
<1> QED
  BY <1>3, <1>4, <1>5

-----------------------------------------------------------------------------
(* The reader and the paints                                               *)

\* What each step of the stream has to preserve beside HoldInv.
Preserved == SupplyInv' /\ Ctl' /\ ScreenInv'

LEMMA ProduceScreen ==
  ASSUME StreamInv, NEW p \in Panes, Produce(p)
  PROVE  Preserved
<1>1. /\ UNCHANGED <<mark, gate, known, blank, crossed, work>> /\ torn = "no"
      /\ UNCHANGED <<owner, step, resyncing, torn, attached, ready>>
      /\ produced' = [produced EXCEPT ![p] = @ + 1]
  BY DEF Produce, panes, flaws, pass, door
<1>2. /\ produced \in [Panes -> Nat] /\ mark \in [Panes -> Nat] /\ mark[p] <= produced[p]
      /\ gate \in [Panes -> {"live", "held"}] /\ SupplyInv /\ Ctl
  BY DEF StreamInv, HoldInv, ScreenTypes, ScreenInv, MarkInv
<1>3. /\ produced' \in [Panes -> Nat] /\ produced'[p] = produced[p] + 1
      /\ \A q \in Panes : q # p => produced'[q] = produced[q]
  BY <1>1, <1>2
<1>0. PICK m \in Nat : m = produced[p] + 1
  BY <1>2
<1> DEFINE s == <<Byte(p, m)>>
<1>4. s \in Seq(Items) /\ Len(s) = 1 /\ s[1] = Byte(p, m)
  <2>1. Byte(p, m) \in Items
    BY <1>2 DEF Byte, Items
  <2> QED
    BY <2>1
<1>5. \A i \in 1 .. Len(s) : s[i].kind # "degraded"
  BY <1>4 DEF Byte
<1>6. IF gate[p] = "live" THEN Emit(p, s) ELSE UNCHANGED <<vars, item>>
  BY <1>0 DEF Produce
<1> HIDE DEF s
<1>7. SupplyInv' /\ ScreenStep
  <2>1. CASE gate[p] = "live"
    <3>1. SupplyInv' /\ Published
      BY <1>2, <1>4, <1>6, <2>1, EmitSupply, EmitFrame DEF Ctl, CtlTypes
    <3> QED
      BY <1>1, <3>1 DEF ScreenStep
  <2>2. CASE gate[p] # "live"
    <3>1. UNCHANGED <<vars, item>>
      BY <1>6, <2>2
    <3>2. SupplyInv' /\ Published
      BY <1>2, <3>1, SameSupply, UnpublishedFrame DEF vars
    <3> QED
      BY <1>1, <3>2 DEF ScreenStep
  <2> QED
    BY <2>1, <2>2
<1>8. Ctl' /\ (Region' => Region /\ ~closed /\ ~overflow')
  BY <1>7, ScreenFrame
<1>9. ASSUME Region'
      PROVE  ShowsKept /\ (gate[p] = "live" => Shows(p, m)')
  <2>1. CASE gate[p] = "live"
    <3>1. ShowsKept /\ \A i \in 1 .. Len(s) : \E k \in Fresh' : item'[k] = s[i]
      BY <1>2, <1>4, <1>5, <1>6, <1>8, <1>9, <2>1, EmitShows
    <3>2. PICK k \in Fresh' : item'[k] = Byte(p, m)
      BY <1>4, <3>1
    <3>3. Shows(p, m)'
      BY <3>2 DEF Shows, ShownBy, Byte
    <3> QED
      BY <3>1, <3>3
  <2>2. CASE gate[p] # "live"
    BY <1>2, <1>6, <2>2, SameSupply DEF vars
  <2> QED
    BY <2>1, <2>2
<1>10. \A q \in Panes : Untouched(q)
  BY <1>1 DEF Untouched, SameHands
<1>11. p \in crossed' \/ Hand(p)'
  <2>1. p \in crossed \/ Hand(p)
    BY DEF StreamInv, ScreenInv, OneHand
  <2> QED
    BY <1>10, <2>1, HandKept DEF Untouched
<1>12. ASSUME Region', p \in known' PROVE Claim(p)'
  <2>1. Claim(p) /\ ShowsKept
    BY <1>1, <1>8, <1>9, <1>12 DEF StreamInv, ScreenInv, Claims
  <2>2. CASE gate[p] = "live" /\ p \notin blank \cup crossed
    <3>1. \A n \in 1 .. produced[p] : Shows(p, n)
      BY <2>1, <2>2 DEF Claim
    <3>0. PICK k \in Nat : k = produced'[p]
      BY <1>3
    <3>2. ASSUME NEW n \in 1 .. k PROVE Shows(p, n)'
      <4>1. CASE n = m
        <5>1. Shows(p, m)'
          BY <1>9, <1>12, <2>2
        <5> QED
          BY <4>1, <5>1
      <4>2. CASE n # m
        <5>1. n \in 1 .. produced[p] /\ n \in Nat
          BY <1>0, <1>2, <1>3, <3>0, <4>2
        <5> QED
          BY <2>1, <3>1, <5>1 DEF ShowsKept
      <4> QED
        BY <4>1, <4>2
    <3>3. \A n \in 1 .. produced'[p] : Shows(p, n)'
      BY <3>0, <3>2
    <3> QED
      BY <1>1, <2>2, <3>3 DEF Claim
  <2>3. CASE p \in blank \cup crossed
    BY <1>1, <2>3 DEF Claim
  <2>4. CASE gate[p] # "live"
    BY <2>1, <2>4, <1>10, ClaimKept DEF StreamInv, ScreenInv, HoldInv
  <2> QED
    BY <2>2, <2>3, <2>4
<1>13. ScreenInv'
  <2>1. mark' \in [Panes -> Nat] /\ mark'[p] <= produced'[p] /\ known' \subseteq known \cup {p}
    BY <1>1, <1>2, <1>3
  <2> QED
    BY <1>3, <1>8, <1>9, <1>10, <1>11, <1>12, <2>1, OnePane
<1> QED
  BY <1>7, <1>8, <1>13 DEF Preserved

LEMMA NewPaneScreen ==
  ASSUME StreamInv, NEW p \in Panes, NewPane(p)
  PROVE  Preserved
<1>1. /\ UNCHANGED <<produced, blank, crossed, work>> /\ ~GateLocked /\ p \notin known
      /\ UNCHANGED <<owner, step, resyncing, torn, attached, ready>> /\ UNCHANGED <<vars, item>>
      /\ gate' = [q \in Panes |-> IF q \in {p} THEN "held" ELSE gate[q]]
      /\ mark' = [q \in Panes |-> IF q \in {p} /\ gate[q] = "live" THEN produced[q] ELSE mark[q]]
      /\ known' = known \cup {p}
  BY DEF NewPane, Hold, flaws, pass, door
<1>2. /\ produced \in [Panes -> Nat] /\ mark \in [Panes -> Nat] /\ mark[p] <= produced[p]
      /\ gate \in [Panes -> {"live", "held"}] /\ SupplyInv /\ gate[p] # "held"
  BY <1>1 DEF StreamInv, HoldInv, ScreenTypes, ScreenInv, MarkInv, HeldKnown
<1>3. /\ mark' \in [Panes -> Nat] /\ mark'[p] <= produced'[p] /\ gate'[p] = "held"
      /\ \A q \in Panes : q # p => gate'[q] = gate[q] /\ mark'[q] = mark[q]
  BY <1>1, <1>2
<1>4. SupplyInv' /\ ShowsKept /\ ScreenStep
  BY <1>1, <1>2, SameSupply, UnpublishedFrame DEF vars, ScreenStep
<1>5. Ctl' /\ (Region' => Region /\ ShowsKept)
  BY <1>4, ScreenFrame
<1>6. \A q \in Panes : SameHands(q) /\ (q # p => Untouched(q))
  BY <1>1, <1>3 DEF Untouched, SameHands
<1>7. p \in crossed' \/ Hand(p)'
  <2>1. p \in crossed \/ Hand(p)
    BY DEF StreamInv, ScreenInv, OneHand
  <2> QED
    BY <1>1, <1>2, <1>6, <2>1, HandKept
<1>8. Claim(p)'
  BY <1>1, <1>3, HeldClaim DEF GateLocked
<1>9. ScreenInv'
  <2>1. produced' \in [Panes -> Nat] /\ known' \subseteq known \cup {p}
        /\ \A q \in Panes : q # p => produced'[q] = produced[q]
    BY <1>1, <1>2
  <2> QED
    BY <1>3, <1>5, <1>6, <1>7, <1>8, <2>1, OnePane
<1> QED
  BY <1>4, <1>5, <1>9 DEF Preserved

\* What a paint needs of its types.
LEMMA PaintTypes ==
  ASSUME StreamInv
  PROVE  /\ produced \in [Panes -> Nat] /\ mark \in [Panes -> Nat] /\ gate \in [Panes -> {"live", "held"}]
         /\ \A p \in Panes : mark[p] <= produced[p] /\ (p \in crossed \/ Hand(p))
         /\ work \in [Passes -> Works] /\ known \subseteq Panes /\ NoPane \notin Panes
         /\ HoldInv /\ SupplyInv /\ Ctl /\ MarkInv /\ ScreenTypes
BY StreamAssumption DEF StreamInv, HoldInv, ScreenTypes, WorkTypes, PanesKnown, ScreenInv, MarkInv, OneHand

LEMMA MarkScreen ==
  ASSUME StreamInv, NEW w \in Passes, NEW p \in Panes, Mark(w, p)
  PROVE  Preserved
<1>1. /\ UNCHANGED <<produced, known, blank>> /\ ~GateLocked /\ work[w].pc = "next"
      /\ UNCHANGED <<owner, step, resyncing, torn, attached, ready>> /\ UNCHANGED <<vars, item>>
      /\ mark' = [mark EXCEPT ![p] = produced[p]] /\ gate' = [gate EXCEPT ![p] = "held"]
      /\ crossed' = IF BeingPainted(p) THEN crossed \cup {p} ELSE crossed \ {p}
  BY DEF Mark, flaws, pass, door
<1>2. /\ work'[w].pane = p /\ work'[w].pc = "marked"
      /\ \A v \in Passes : v # w => work'[v] = work[v]
  BY PaintTypes DEF Mark, Works
<1>3. work[w].pane = NoPane
  BY <1>1, WorkFields, PaintTypes
<1>4. /\ mark' \in [Panes -> Nat] /\ mark'[p] <= produced'[p] /\ gate'[p] = "held" /\ produced' \in [Panes -> Nat]
      /\ \A q \in Panes : q # p => gate'[q] = gate[q] /\ mark'[q] = mark[q] /\ produced'[q] = produced[q]
  BY <1>1, PaintTypes
<1>5. SupplyInv' /\ ShowsKept /\ ScreenStep
  BY <1>1, PaintTypes, SameSupply, UnpublishedFrame DEF vars, ScreenStep
<1>6. Ctl' /\ (Region' => Region /\ ShowsKept)
  BY <1>5, ScreenFrame
<1>7. \A q \in Panes : q # p => Untouched(q)
  BY <1>1, <1>2, <1>3, <1>4 DEF Untouched, SameHands
<1>8. p \in crossed' \/ Hand(p)'
  <2>1. CASE BeingPainted(p)
    BY <1>1, <2>1
  <2>2. CASE ~BeingPainted(p)
    <3>1. \A v \in Passes : work'[v].pane = p => v = w
      BY <1>2, <2>2 DEF BeingPainted
    <3> QED
      BY <1>2, <1>4, <3>1 DEF Hand
  <2> QED
    BY <2>1, <2>2
<1>9. Claim(p)'
  <2>1. \A v \in Passes : work'[v].pc # "tail"
    BY <1>1, <1>2 DEF GateLocked
  <2> QED
    BY <1>4, <2>1, HeldClaim
<1>10. ScreenInv'
  <2>1. known' \subseteq known \cup {p}
    BY <1>1
  <2> QED
    BY <1>4, <1>6, <1>7, <1>8, <1>9, <2>1, OnePane
<1> QED
  BY <1>5, <1>6, <1>10 DEF Preserved

LEMMA CaptureScreen ==
  ASSUME StreamInv, NEW w \in Passes, Capture(w)
  PROVE  Preserved
<1>1. /\ UNCHANGED <<produced, mark, gate, known, blank, crossed>> /\ work[w].pc = "marked"
      /\ UNCHANGED <<owner, step, resyncing, torn, attached, ready>> /\ UNCHANGED <<vars, item>>
  BY DEF Capture, screen, panes, flaws, pass, door
<1>2. /\ work'[w].pane = work[w].pane /\ work'[w].pc = "captured" /\ work'[w].n = produced[work[w].pane]
      /\ \A v \in Passes : v # w => work'[v] = work[v]
  BY PaintTypes DEF Capture, Works
<1>3. work[w].pane \in Panes
  BY <1>1, WorkFields, PaintTypes
<1>4. PICK p \in Panes : p = work[w].pane
  BY <1>3
<1>5. SupplyInv' /\ ShowsKept /\ ScreenStep
  BY <1>1, PaintTypes, SameSupply, UnpublishedFrame DEF vars, ScreenStep
<1>6. Ctl' /\ (Region' => Region /\ ShowsKept)
  BY <1>5, ScreenFrame
<1>7. \A q \in Panes : q # p => Untouched(q)
  BY <1>1, <1>2, <1>4 DEF Untouched, SameHands
<1>8. p \in crossed' \/ Hand(p)'
  <2>1. p \in crossed \/ Hand(p)
    BY PaintTypes
  <2>2. mark[p] <= produced[p]
    BY PaintTypes
  <2> QED
    BY <1>1, <1>2, <1>4, <2>1, <2>2 DEF Hand
<1>9. ASSUME Region', p \in known' PROVE Claim(p)'
  <2>1. Claim(p) /\ ShowsKept
    BY <1>1, <1>6, <1>9 DEF StreamInv, ScreenInv, Claims
  <2>2. /\ mark[p] \in Nat /\ produced[p] \in Nat
        /\ \A n \in Nat : Shows(p, n) => Shows(p, n)'
    BY <2>1, PaintTypes DEF ShowsKept
  <2>3. \A v \in Passes : work'[v].pane = p /\ work'[v].pc = "tail" => work[v].pane = p /\ work[v].pc = "tail"
    BY <1>2
  <2>4. CASE p \in blank \cup crossed
    BY <1>1, <2>4 DEF Claim
  <2>5. CASE gate[p] = "live" /\ \A n \in 1 .. produced[p] : Shows(p, n)
    <3>1. \A n \in 1 .. produced'[p] : Shows(p, n)'
      BY <1>1, <2>2, <2>5
    <3> QED
      BY <1>1, <2>5, <3>1 DEF Claim
  <2>6. CASE /\ gate[p] = "held"
             /\ (\E v \in Passes : work[v].pane = p /\ work[v].pc = "tail") => \A n \in 1 .. mark[p] : Shows(p, n)
    <3>1. (\E v \in Passes : work'[v].pane = p /\ work'[v].pc = "tail") => \A n \in 1 .. mark'[p] : Shows(p, n)'
      BY <1>1, <2>2, <2>3, <2>6
    <3> QED
      BY <1>1, <2>6, <3>1 DEF Claim
  <2> QED
    BY <2>1, <2>4, <2>5, <2>6 DEF Claim
<1>10. ScreenInv'
  <2>1. known' \subseteq known \cup {p} /\ produced' \in [Panes -> Nat] /\ mark' \in [Panes -> Nat]
        /\ mark'[p] <= produced'[p] /\ \A q \in Panes : q # p => produced'[q] = produced[q]
    BY <1>1, PaintTypes
  <2> QED
    BY <1>6, <1>7, <1>8, <1>9, <2>1, OnePane
<1> QED
  BY <1>5, <1>6, <1>10 DEF Preserved

LEMMA PaintScreen ==
  ASSUME StreamInv, NEW w \in Passes, Paint(w)
  PROVE  Preserved
<1>1. /\ UNCHANGED <<produced, mark, gate, known, crossed>> /\ work[w].pc = "captured" /\ ~GateLocked
      /\ UNCHANGED <<owner, step, resyncing, torn, attached, ready>>
  BY DEF Paint, screen, panes, pass, door
<1>2. work[w].pane \in Panes /\ work[w].n \in Nat
  BY <1>1, WorkFields, PaintTypes
<1>3. PICK p \in Panes, n \in Nat : p = work[w].pane /\ n = work[w].n
  BY <1>2
<1>4. CASE gate[p] = "held"
  <2>1. /\ Emit(p, <<Snap(p, n)>>) /\ blank' = blank \ {p}
        /\ work' = [work EXCEPT ![w].pc = "tail"]
    BY <1>3, <1>4 DEF Paint
  <2>2. /\ work'[w].pane = p /\ work'[w].pc = "tail" /\ work'[w].n = n
        /\ \A v \in Passes : v # w => work'[v] = work[v]
    BY <1>3, <2>1, PaintTypes DEF Works
  <2> DEFINE s == <<Snap(p, n)>>
  <2>3. s \in Seq(Items) /\ Len(s) = 1 /\ s[1] = Snap(p, n)
    <3>1. Snap(p, n) \in Items
      BY DEF Snap, Items
    <3> QED
      BY <3>1
  <2>4. (\A i \in 1 .. Len(s) : s[i].kind # "degraded") /\ Emit(p, s)
    BY <2>1, <2>3 DEF Snap
  <2> HIDE DEF s
  <2>5. SupplyInv' /\ ScreenStep
    <3>1. SupplyInv' /\ Published
      BY <2>3, <2>4, PaintTypes, EmitSupply, EmitFrame DEF Ctl, CtlTypes
    <3> QED
      BY <1>1, <3>1 DEF ScreenStep
  <2>6. Ctl' /\ (Region' => Region /\ ~closed /\ ~overflow')
    BY <2>5, ScreenFrame
  <2>7. ASSUME Region' PROVE ShowsKept /\ \A m \in 1 .. n : Shows(p, m)'
    <3>1. ShowsKept /\ \A i \in 1 .. Len(s) : \E k \in Fresh' : item'[k] = s[i]
      BY <2>3, <2>4, <2>6, <2>7, PaintTypes, EmitShows
    <3>2. PICK k \in Fresh' : item'[k] = Snap(p, n)
      BY <2>3, <3>1
    <3> QED
      BY <3>1, <3>2 DEF Shows, ShownBy, Snap
  <2>8. \A q \in Panes : q # p => Untouched(q)
    BY <1>1, <1>3, <2>1, <2>2 DEF Untouched, SameHands
  <2>9. p \in crossed' \/ Hand(p)'
    <3>1. p \in crossed \/ Hand(p)
      BY PaintTypes
    <3> QED
      BY <1>1, <1>3, <2>2, <3>1 DEF Hand
  <2>10. ASSUME Region' PROVE Claim(p)'
    <3>1. CASE p \in crossed
      BY <1>1, <3>1 DEF Claim
    <3>2. CASE p \notin crossed
      <4>1. mark[p] <= n /\ mark[p] \in Nat
        BY <1>1, <1>3, <3>2, PaintTypes DEF Hand
      <4>2. \A m \in 1 .. mark'[p] : Shows(p, m)'
        BY <1>1, <2>7, <2>10, <4>1
      <4> QED
        BY <1>1, <1>4, <4>2 DEF Claim
    <3> QED
      BY <3>1, <3>2
  <2>11. ScreenInv'
    <3>1. known' \subseteq known \cup {p} /\ produced' \in [Panes -> Nat] /\ mark' \in [Panes -> Nat]
          /\ mark'[p] <= produced'[p] /\ \A q \in Panes : q # p => produced'[q] = produced[q]
      BY <1>1, PaintTypes
    <3> QED
      BY <2>6, <2>7, <2>8, <2>9, <2>10, <3>1, OnePane
  <2> QED
    BY <2>5, <2>6, <2>11 DEF Preserved
<1>5. CASE gate[p] # "held"
  <2>1. work' = Painted(w) /\ UNCHANGED <<vars, item, blank>>
    BY <1>3, <1>5 DEF Paint
  <2>2. SupplyInv' /\ ShowsKept /\ ScreenStep
    BY <1>1, <2>1, PaintTypes, SameSupply, UnpublishedFrame DEF vars, ScreenStep
  <2>3. Ctl' /\ (Region' => Region /\ ShowsKept)
    BY <2>2, ScreenFrame
  <2>4. Quiet
    <3>1. \A q \in Panes : SameHands(q)
      BY <2>1, PaintTypes, DoneWork, EmptyHands
    <3> QED
      BY <1>1, <2>1, <3>1 DEF Quiet
  <2> QED
    BY <2>2, <2>3, <2>4, QuietStep DEF Preserved
<1> QED
  BY <1>4, <1>5

\* A pane that is let go of, and whose hands are empty afterwards.
LEMMA LetGoScreen ==
  ASSUME StreamInv, NEW p \in Panes, Emit(p, HeldBack(p)),
         UNCHANGED <<produced, mark, known>>, gate' = [gate EXCEPT ![p] = "live"],
         UNCHANGED <<owner, step, resyncing, torn, attached, ready>>,
         blank \subseteq blank', crossed \subseteq crossed',
         \A q \in Panes : q # p => SameHands(q),
         p \in crossed' \/ \A v \in Passes : work'[v].pane # p,
         p \in blank' \cup crossed'
           \/ (gate[p] = "held" /\ \E v \in Passes : work[v].pane = p /\ work[v].pc = "tail")
  PROVE  Preserved
<1>1. SupplyInv' /\ ScreenStep
  BY LetGoShows DEF ScreenStep
<1>2. Ctl' /\ (Region' => Region /\ ~closed /\ ~overflow')
  BY <1>1, ScreenFrame
<1>3. ASSUME Region'
      PROVE  ShowsKept /\ \A n \in 1 .. produced[p] : n > mark[p] => Shows(p, n)'
  BY <1>2, <1>3, LetGoShows
<1>4. gate'[p] = "live" /\ \A q \in Panes : q # p => gate'[q] = gate[q]
  BY PaintTypes
<1>5. \A q \in Panes : q # p => Untouched(q)
  BY <1>4 DEF Untouched
<1>6. p \in crossed' \/ Hand(p)'
  BY DEF Hand
<1>7. ASSUME Region', p \in known' PROVE Claim(p)'
  <2>1. CASE p \in blank' \cup crossed'
    BY <2>1 DEF Claim
  <2>2. CASE /\ p \notin blank' \cup crossed' /\ gate[p] = "held"
             /\ \E v \in Passes : work[v].pane = p /\ work[v].pc = "tail"
    <3>1. Claim(p)
      BY <1>2, <1>7 DEF StreamInv, ScreenInv, Claims
    <3>2. \A n \in 1 .. mark[p] : Shows(p, n)
      BY <2>2, <3>1 DEF Claim
    <3>3. mark[p] \in Nat /\ produced[p] \in Nat
      BY PaintTypes
    <3>4. \A n \in Nat : Shows(p, n) => Shows(p, n)'
      BY <1>3, <1>7 DEF ShowsKept
    <3>5. ASSUME NEW n \in 1 .. produced[p] PROVE Shows(p, n)'
      <4>1. CASE n > mark[p]
        BY <1>3, <1>7, <3>5, <4>1
      <4>2. CASE n <= mark[p]
        BY <3>2, <3>3, <3>4, <4>2
      <4> QED
        BY <3>3, <4>1, <4>2
    <3>6. \A n \in 1 .. produced'[p] : Shows(p, n)'
      BY <3>5
    <3> QED
      BY <1>4, <3>6 DEF Claim
  <2> QED
    BY <2>1, <2>2
<1>8. ScreenInv'
  <2>1. known' \subseteq known \cup {p} /\ produced' \in [Panes -> Nat] /\ mark' \in [Panes -> Nat]
        /\ mark'[p] <= produced'[p] /\ \A q \in Panes : q # p => produced'[q] = produced[q]
    BY PaintTypes
  <2> QED
    BY <1>2, <1>3, <1>5, <1>6, <1>7, <2>1, OnePane
<1> QED
  BY <1>1, <1>2, <1>8 DEF Preserved

\* Only the pass that has pane p in hand lets go of it.
LEMMA AloneInHand ==
  ASSUME StreamInv, NEW w \in Passes, NEW p \in Panes, work[w].pane = p, p \notin crossed
  PROVE  /\ gate[p] = "held" /\ \A v \in Passes : work[v].pane = p => v = w
BY PaintTypes DEF Hand

LEMMA FollowScreen ==
  ASSUME StreamInv, NEW w \in Passes, Follow(w)
  PROVE  Preserved
<1>1. work[w].pc = "tail" /\ work' = Painted(w) /\ LetGo(work[w].pane)
  BY DEF Follow
<1>2. PICK p \in Panes : p = work[w].pane
  BY <1>1, WorkFields, PaintTypes
<1>3. /\ UNCHANGED <<produced, mark, known, blank, crossed>>
      /\ UNCHANGED <<owner, step, resyncing, torn, attached, ready>>
  BY DEF Follow, flaws, pass, door
<1>4. Emit(p, HeldBack(p)) /\ gate' = [gate EXCEPT ![p] = "live"]
  BY <1>1, <1>2 DEF LetGo
<1>5. work' = [work EXCEPT ![w] = Done(w)] /\ Done(w).pane = NoPane
  BY <1>1, PaintTypes, DoneWork
<1>6. (\A q \in Panes : SameHands(q)) /\ work'[w].pane = NoPane /\ \A v \in Passes : v # w => work'[v] = work[v]
  BY <1>5, PaintTypes, EmptyHands, WorkMoves
<1>7. p \in crossed' \/ \A v \in Passes : work'[v].pane # p
  BY <1>2, <1>3, <1>6, PaintTypes, AloneInHand
<1>8. p \in blank' \cup crossed' \/ (gate[p] = "held" /\ \E v \in Passes : work[v].pane = p /\ work[v].pc = "tail")
  BY <1>1, <1>2, <1>3, AloneInHand
<1> QED
  BY <1>3, <1>4, <1>6, <1>7, <1>8, LetGoScreen

\* A pane released unpainted.
LEMMA BlankScreen ==
  ASSUME StreamInv, NEW p \in Panes, ReleaseBlank(p),
         UNCHANGED <<produced, mark, known>>, crossed \subseteq crossed',
         UNCHANGED <<owner, step, resyncing, torn, attached, ready>>,
         \A q \in Panes : SameHands(q),
         p \in crossed' \/ \A v \in Passes : work'[v].pane # p
  PROVE  Preserved
<1>1. CASE gate[p] = "held"
  <2>1. Emit(p, HeldBack(p)) /\ gate' = [gate EXCEPT ![p] = "live"] /\ blank' = blank \cup {p}
    BY <1>1 DEF ReleaseBlank, LetGo
  <2> QED
    BY <2>1, LetGoScreen
<1>2. CASE gate[p] # "held"
  <2>1. UNCHANGED <<vars, item, gate, blank>>
    BY <1>2 DEF ReleaseBlank
  <2>2. SupplyInv' /\ ShowsKept /\ ScreenStep
    BY <2>1, PaintTypes, SameSupply, UnpublishedFrame DEF vars, ScreenStep
  <2>3. Ctl' /\ (Region' => Region /\ ShowsKept)
    BY <2>2, ScreenFrame
  <2>4. \A q \in Panes : Untouched(q)
    BY <2>1 DEF Untouched
  <2>5. p \in crossed' \/ Hand(p)'
    BY DEF Hand
  <2>6. ASSUME Region', p \in known' PROVE Claim(p)'
    <3>1. Claim(p) /\ ShowsKept /\ Untouched(p)
      BY <2>3, <2>4, <2>6 DEF StreamInv, ScreenInv, Claims
    <3> QED
      BY <3>1, PaintTypes, ClaimKept
  <2>7. ScreenInv'
    <3>1. known' \subseteq known \cup {p} /\ produced' \in [Panes -> Nat] /\ mark' \in [Panes -> Nat]
          /\ mark'[p] <= produced'[p] /\ \A q \in Panes : q # p => produced'[q] = produced[q]
      BY PaintTypes
    <3> QED
      BY <2>3, <2>4, <2>5, <2>6, <3>1, OnePane
  <2> QED
    BY <2>2, <2>3, <2>7 DEF Preserved
<1> QED
  BY <1>1, <1>2

LEMMA CaptureFailsScreen ==
  ASSUME StreamInv, NEW w \in Passes, CaptureFails(w)
  PROVE  Preserved
<1>1. /\ UNCHANGED <<produced, mark, known, crossed>> /\ work[w].pc = "marked"
      /\ UNCHANGED <<owner, step, resyncing, torn, attached, ready>> /\ ReleaseBlank(work[w].pane)
  BY DEF CaptureFails, pass, door
<1>2. PICK p \in Panes : p = work[w].pane
  BY <1>1, WorkFields, PaintTypes
<1>3. PICK unwind \in Unwinds(w) :
         work' = [Painted(w) EXCEPT ![w].unwind = unwind,
                                    ![w].todo = IF unwind THEN Unreached(w) ELSE @,
                                    ![w].later = IF unwind THEN {} ELSE @]
  BY DEF CaptureFails
<1>4. work' = [work EXCEPT ![w] = Failed(w, unwind)]
  <2>1. work \in [Passes -> Works] /\ Done(w) \in Works
    BY PaintTypes, DoneWork
  <2>2. work' = [[work EXCEPT ![w] = Done(w)] EXCEPT ![w].unwind = unwind,
                                    ![w].todo = IF unwind THEN Unreached(w) ELSE @,
                                    ![w].later = IF unwind THEN {} ELSE @]
    BY <1>3, PaintTypes, DoneWork
  <2> QED
    BY <2>1, <2>2 DEF Failed, Works
<1>5. Failed(w, unwind).pane = NoPane
  BY PaintTypes, FailedWork
<1>6. PICK r : r = Failed(w, unwind)
  OBVIOUS
<1>7. r.pane = NoPane /\ work' = [work EXCEPT ![w] = r]
  BY <1>4, <1>5, <1>6
<1>8. (\A q \in Panes : SameHands(q)) /\ work'[w].pane = NoPane /\ \A v \in Passes : v # w => work'[v] = work[v]
  BY <1>7, PaintTypes, EmptyHands, WorkMoves
<1>9. p \in crossed' \/ \A v \in Passes : work'[v].pane # p
  BY <1>1, <1>2, <1>8, PaintTypes, AloneInHand
<1>10. ReleaseBlank(p) /\ crossed \subseteq crossed'
  BY <1>1, <1>2
<1> QED
  BY <1>1, <1>8, <1>9, <1>10, BlankScreen

LEMMA UnwindScreen ==
  ASSUME StreamInv, NEW w \in Passes, NEW p \in Panes, Unwind(w, p)
  PROVE  Preserved
<1>1. /\ UNCHANGED <<produced, mark, known>>
      /\ UNCHANGED <<owner, step, resyncing, torn, attached, ready>>
      /\ work' = [work EXCEPT ![w].todo = @ \ {p}]
      /\ crossed' = IF BeingPainted(p) THEN crossed \cup {p} ELSE crossed
  BY DEF Unwind, pass, door
<1>2. \A v \in Passes : work'[v].pane = work[v].pane /\ work'[v].pc = work[v].pc /\ work'[v].n = work[v].n
  BY <1>1, PaintTypes DEF Works
<1>3. (\A q \in Panes : SameHands(q)) /\ crossed \subseteq crossed'
      /\ (p \in crossed' \/ \A v \in Passes : work'[v].pane # p)
  BY <1>1, <1>2 DEF SameHands, BeingPainted
<1>4. CASE w = "worker"
  <2>1. gate' = [gate EXCEPT ![p] = "live"] /\ blank' = blank \cup {p} /\ UNCHANGED <<vars, item>>
    BY <1>4 DEF Unwind
  <2>2. SupplyInv' /\ ShowsKept /\ ScreenStep
    BY <1>1, <2>1, PaintTypes, SameSupply, UnpublishedFrame DEF vars, ScreenStep
  <2>3. Ctl' /\ (Region' => Region /\ ShowsKept)
    BY <2>2, ScreenFrame
  <2>4. \A q \in Panes : q # p => Untouched(q)
    BY <1>3, <1>1, <2>1, PaintTypes DEF Untouched
  <2>5. (p \in crossed' \/ Hand(p)') /\ Claim(p)'
    BY <1>3, <2>1 DEF Hand, Claim
  <2>6. ScreenInv'
    <3>1. known' \subseteq known \cup {p} /\ produced' \in [Panes -> Nat] /\ mark' \in [Panes -> Nat]
          /\ mark'[p] <= produced'[p] /\ \A q \in Panes : q # p => produced'[q] = produced[q]
      BY <1>1, PaintTypes
    <3> QED
      BY <2>3, <2>4, <2>5, <3>1, OnePane
  <2> QED
    BY <2>2, <2>3, <2>6 DEF Preserved
<1>5. CASE w # "worker"
  BY <1>1, <1>3, <1>5, BlankScreen DEF Unwind
<1> QED
  BY <1>4, <1>5

LEMMA PassReturnsScreen ==
  ASSUME StreamInv, NEW w \in Passes, PassReturns(w)
  PROVE  Preserved
<1>1. /\ UNCHANGED <<produced, mark, gate, known, blank, crossed>> /\ work' = [work EXCEPT ![w] = NoWork]
      /\ UNCHANGED <<owner, step, resyncing, torn, attached, ready>> /\ UNCHANGED <<vars, item>>
  BY DEF PassReturns, screen, panes, flaws, pass, door
<1>2. SupplyInv' /\ ShowsKept /\ ScreenStep
  BY <1>1, PaintTypes, SameSupply, UnpublishedFrame DEF vars, ScreenStep
<1>3. Ctl' /\ (Region' => Region /\ ShowsKept)
  BY <1>2, ScreenFrame
<1>4. Quiet
  <2>1. NoWork.pane = NoPane
    BY DEF NoWork
  <2>2. PICK r : r = NoWork
    OBVIOUS
  <2>3. \A q \in Panes : SameHands(q)
    BY <1>1, <2>1, <2>2, PaintTypes, EmptyHands
  <2> QED
    BY <1>1, <2>3 DEF Quiet
<1> QED
  BY <1>2, <1>3, <1>4, QuietStep DEF Preserved

LEMMA FirstPaintScreen ==
  ASSUME StreamInv, NEW w \in Passes, FirstPaint(w)
  PROVE  Preserved
BY MarkScreen, CaptureScreen, PaintScreen, FollowScreen, CaptureFailsScreen, UnwindScreen, PassReturnsScreen
   DEF FirstPaint

-----------------------------------------------------------------------------
(* The other steps                                                         *)

\* A step that neither touches a pane nor publishes.
LEMMA QuietControl ==
  ASSUME StreamInv, Quiet, UNCHANGED <<vars, item>>, Ctl', Region' => Region
  PROVE  Preserved
<1>1. SupplyInv' /\ ShowsKept
  BY PaintTypes, SameSupply DEF vars
<1>2. ScreenInv'
  BY <1>1, QuietStep
<1> QED
  BY <1>1, <1>2 DEF Preserved

\* The pass that holds the panes of S begins.
LEMMA HoldScreen ==
  ASSUME StreamInv, NEW S \in SUBSET known, Hold(S), ~GateLocked,
         UNCHANGED <<vars, item, produced, known, blank, crossed>>,
         NEW w \in Passes, NEW r, r.pane = NoPane, r.pc = "next", work' = [work EXCEPT ![w] = r],
         Ctl', Region' => Region \/ S = known
  PROVE  Preserved
<1>1. SupplyInv' /\ ShowsKept
  BY PaintTypes, SameSupply DEF vars
<1>2. (\A q \in Panes : SameHands(q)) /\ work'[w] = r /\ \A v \in Passes : v # w => work'[v] = work[v]
  BY PaintTypes, EmptyHands, WorkMoves
<1>3. /\ gate' = [p \in Panes |-> IF p \in S THEN "held" ELSE gate[p]]
      /\ mark' = [p \in Panes |-> IF p \in S /\ gate[p] = "live" THEN produced[p] ELSE mark[p]]
  BY DEF Hold
<1>4. MarkInv'
  <2>1. mark' \in [Panes -> Nat]
    BY <1>3, PaintTypes
  <2>2. \A p \in Panes : mark'[p] \in {mark[p], produced[p]}
    BY <1>3
  <2>3. \A p \in Panes : mark[p] <= produced[p] /\ produced[p] \in Nat
    BY PaintTypes
  <2> QED
    BY <2>1, <2>2, <2>3 DEF MarkInv
<1>5. OneHand'
  <2> SUFFICES ASSUME NEW p \in Panes PROVE p \in crossed' \/ Hand(p)'
    BY DEF OneHand
  <2>1. p \in crossed \/ Hand(p)
    BY PaintTypes
  <2>2. gate[p] = "held" => gate'[p] = "held" /\ mark'[p] = mark[p]
    BY <1>3
  <2> QED
    BY <1>2, <2>1, <2>2, HandKept
<1>6. Claims'
  <2> SUFFICES ASSUME Region', NEW p \in known PROVE Claim(p)'
    BY DEF Claims
  <2>0. p \in Panes
    BY PaintTypes
  <2>1. CASE p \in S
    <3>1. gate'[p] = "held"
      BY <1>3, <2>0, <2>1
    <3>2. \A v \in Passes : work'[v].pc # "tail"
      BY <1>2 DEF GateLocked
    <3> QED
      BY <2>0, <3>1, <3>2, HeldClaim
  <2>2. CASE p \notin S
    <3>1. Region /\ Claim(p)
      BY <2>2 DEF StreamInv, ScreenInv, Claims
    <3>2. Untouched(p)
      BY <1>2, <1>3, <2>0, <2>2 DEF Untouched
    <3> QED
      BY <1>1, <2>0, <3>1, <3>2, PaintTypes, ClaimKept
  <2> QED
    BY <2>1, <2>2
<1> QED
  BY <1>1, <1>4, <1>5, <1>6 DEF Preserved, ScreenInv

LEMMA ReconcileScreen ==
  ASSUME StreamInv, Reconcile
  PROVE  Preserved
<1>1. /\ Hold(owed) /\ ~GateLocked /\ work' = [work EXCEPT !["worker"] = Paints(owed, {})]
      /\ UNCHANGED <<vars, item, produced, known, blank, crossed>>
      /\ UNCHANGED <<owner, step, resyncing, torn, attached, ready>>
  BY DEF Reconcile, flaws, pass, door
<1>2. owed \in SUBSET known /\ "worker" \in Passes
  BY DEF StreamInv, HoldInv, PanesKnown, Passes
<1>3. PICK r : r = Paints(owed, {})
  OBVIOUS
<1>4. r.pane = NoPane /\ r.pc = "next" /\ work' = [work EXCEPT !["worker"] = r]
  BY <1>1, <1>3 DEF Paints, NoWork
<1>5. ScreenStep
  BY <1>1, UnpublishedFrame DEF ScreenStep
<1>6. Ctl' /\ (Region' => Region)
  BY <1>5, ScreenFrame
<1> QED
  BY <1>1, <1>2, <1>4, <1>6, HoldScreen

LEMMA HoldPanesScreen ==
  ASSUME StreamInv, HoldPanes, owner # "none"
  PROVE  Preserved
<1>1. /\ Hold(known) /\ ~GateLocked /\ work' = [work EXCEPT !["locked"] = Paints(known \cap Shown, known \ Shown)]
      /\ UNCHANGED <<vars, item, produced, known, blank, crossed>> /\ step = "hold" /\ step' = "paint"
      /\ UNCHANGED <<owner, resyncing, torn, attached, ready>>
  BY DEF HoldPanes, Reheld, panes, flaws, door
<1>2. known \in SUBSET known /\ "locked" \in Passes
  BY DEF Passes
<1>3. PICK r : r = Paints(known \cap Shown, known \ Shown)
  OBVIOUS
<1>4. r.pane = NoPane /\ r.pc = "next" /\ work' = [work EXCEPT !["locked"] = r]
  BY <1>1, <1>3 DEF Paints, NoWork
<1>5. UNCHANGED <<reports, overflow, sub, closed>>
  BY <1>1 DEF vars
<1>6. Ctl'
  BY <1>1, <1>5 DEF StreamInv, Ctl, CtlTypes, OwnerInv, Vacated, Answered
<1> QED
  BY <1>1, <1>2, <1>4, <1>6, HoldScreen

\* A pass ends, and may leave its deferred panes behind.
LEMMA EndedHandsEmpty ==
  ASSUME HoldInv, NEW w \in Passes, NEW g \in Passes,
         work' = LeaveBehind(w, g) \/ work' = [work EXCEPT ![w] = NoWork]
  PROVE  \A p \in Panes : SameHands(p)
<1>1. work \in [Passes -> Works] /\ NoWork.pane = NoPane /\ Paints(work[w].later, {}).pane = NoPane
  BY DEF HoldInv, WorkTypes, NoWork, Paints
<1>2. \A v \in Passes : work'[v] = work[v] \/ work'[v].pane = NoPane
  <2>1. CASE work' = LeaveBehind(w, g)
    <3>1. \A v \in Passes : work'[v] \in {work[v], NoWork, Paints(work[w].later, {})}
      BY <1>1, <2>1 DEF LeaveBehind
    <3> QED
      BY <1>1, <3>1
  <2>2. CASE work' = [work EXCEPT ![w] = NoWork]
    <3>1. \A v \in Passes : work'[v] \in {work[v], NoWork}
      BY <1>1, <2>2
    <3> QED
      BY <1>1, <3>1
  <2> QED
    BY <2>1, <2>2
<1> QED
  BY <1>2, StreamAssumption DEF SameHands

LEMMA SamePasses ==
  ASSUME UNCHANGED work
  PROVE  \A p \in Panes : SameHands(p)
BY DEF SameHands

LEMMA AttachAnswersScreen ==
  ASSUME StreamInv, AttachAnswers
  PROVE  Preserved
<1>1. /\ UNCHANGED <<produced, mark, gate, known, blank, crossed>>
      /\ UNCHANGED <<owner, step, resyncing, torn>> /\ Tell("attached")
      /\ work' = LeaveBehind("attach", "attach deferred")
      /\ attached = "no" /\ attached' = "yes" /\ ready' = (torn = "no")
  BY DEF AttachAnswers, screen, panes, flaws, pass
<1>2. SupplyInv' /\ Published /\ (~closed /\ ~overflow' => ~overflow /\ ShowsKept)
  BY <1>1, PaintTypes, TellSteps DEF Ctl, CtlTypes
<1>3. Quiet
  BY <1>1, PaintTypes, EndedHandsEmpty DEF Quiet, Passes, Background
<1>4. Ctl'
  <2>1. CtlTypes' /\ OwnerInv'
    BY <1>1, <1>2, PaintTypes DEF Ctl, CtlTypes, OwnerInv, Published
  <2>2. UNCHANGED sub /\ reports \in Nat /\ reports' \in Nat /\ reports' >= reports
        /\ (overflow' => overflow \/ reports' > 0)
    BY <1>2, PaintTypes DEF Ctl, CtlTypes, Published
  <2>3. torn = "no" => sub = 0
    BY <1>1, PaintTypes DEF Ctl, Vacated
  <2>4. Vacated'
    BY <1>1, <2>2, <2>3 DEF Vacated
  <2>5. UNCHANGED <<owner, step, resyncing, torn>>
    BY <1>1
  <2>6. Answered
    BY PaintTypes DEF Ctl
  <2>7. overflow => Answered'
    BY <2>2, <2>5, <2>6 DEF Answered
  <2>8. ~overflow => Answered'
    BY <2>2 DEF Answered
  <2>9. Answered'
    BY <2>7, <2>8
  <2> QED
    BY <2>1, <2>4, <2>9 DEF Ctl
<1>5. Region' => Region /\ ShowsKept
  BY <1>1, <1>2, PaintTypes DEF Ctl, CtlTypes, OwnerInv, Region, Expecting, Published
<1> QED
  BY <1>2, <1>3, <1>4, <1>5, QuietStep DEF Preserved

LEMMA AttachFailsScreen ==
  ASSUME StreamInv, AttachFails
  PROVE  Preserved
<1>1. /\ UNCHANGED <<produced, mark, gate, known, blank, crossed>> /\ UNCHANGED <<vars, item>>
      /\ UNCHANGED <<owner, step, resyncing, ready>> /\ work' = [work EXCEPT !["attach"] = NoWork]
      /\ attached = "no" /\ attached' = "failed" /\ torn' # "no" /\ (torn # "no" => torn' = torn)
  BY DEF AttachFails, TearDown, screen, panes, flaws, pass
<1>2. Quiet
  BY <1>1, PaintTypes, EndedHandsEmpty DEF Quiet, Passes, Background
<1>3. UNCHANGED <<reports, overflow, sub, closed>>
  BY <1>1 DEF vars
<1>4. Ctl' /\ ~Region'
  BY <1>1, <1>3, PaintTypes DEF Ctl, CtlTypes, OwnerInv, Vacated, Answered, Region
<1> QED
  BY <1>1, <1>2, <1>4, QuietControl

LEMMA LockScreen ==
  ASSUME StreamInv, LockAttach \/ LockResync
  PROVE  Preserved
<1>1. /\ UNCHANGED <<produced, mark, gate, known, blank, crossed, work>> /\ UNCHANGED <<vars, item>>
      /\ UNCHANGED <<resyncing, torn, attached>> /\ owner = "none" /\ step' = "wait"
  BY DEF LockAttach, LockResync, screen, panes, flaws, door
<1>2. \/ owner' = "attach" /\ attached = "yes" /\ ready' = FALSE
      \/ owner' = "resync" /\ resyncing /\ ready' = ready
  BY DEF LockAttach, LockResync, door
<1>3. Quiet
  BY <1>1, SamePasses DEF Quiet
<1>4. UNCHANGED <<reports, overflow, sub, closed>>
  BY <1>1 DEF vars
<1>5. Ctl' /\ (Region' => Region)
  BY <1>1, <1>2, <1>4, PaintTypes DEF Ctl, CtlTypes, OwnerInv, Vacated, Answered, Region, Expecting
<1> QED
  BY <1>1, <1>3, <1>5, QuietControl

\* What neither publishes nor clears, and leaves the numbers alone.
LEMMA ClaimResyncScreen ==
  ASSUME StreamInv, ClaimResync
  PROVE  Preserved
<1>1. /\ UNCHANGED <<produced, mark, gate, known, blank, crossed, work>>
      /\ UNCHANGED <<buf, sub, gen, epoch, closed, pump, got, next, item, overflow>>
      /\ UNCHANGED <<owner, step, attached, ready>> /\ reports > 0 /\ reports' = reports - 1
  BY DEF ClaimResync, screen, panes, flaws, door
<1>2. \/ resyncing /\ torn' # "no" /\ resyncing' = resyncing /\ (torn # "no" => torn' = torn)
      \/ ~resyncing /\ resyncing' = TRUE /\ torn' = torn
  BY DEF ClaimResync, TearDown
<1>3. Quiet
  BY <1>1, SamePasses DEF Quiet
<1>4. SupplyInv' /\ ShowsKept
  BY <1>1, PaintTypes, SameSupply
<1>5. Ctl'
  BY <1>1, <1>2, PaintTypes DEF Ctl, CtlTypes, OwnerInv, Vacated, Answered
<1>6. Region' => Region
  BY <1>1, <1>2 DEF Region, Expecting
<1> QED
  BY <1>3, <1>4, <1>5, <1>6, QuietStep DEF Preserved

LEMMA BeginRepaintScreen ==
  ASSUME StreamInv, BeginRepaint
  PROVE  Preserved
<1>1. /\ UNCHANGED <<produced, mark, gate, known, blank, crossed, work, item>>
      /\ UNCHANGED <<owner, resyncing, torn, attached, ready>> /\ owner = "attach" /\ step' = "hold"
  BY DEF BeginRepaint, screen, panes, flaws, door
<1>2. Quiet
  BY <1>1, SamePasses DEF Quiet
<1>3. CASE closed
  <2>1. UNCHANGED vars
    BY <1>3 DEF BeginRepaint
  <2>2. UNCHANGED <<reports, overflow, sub, closed>>
    BY <2>1 DEF vars
  <2>3. Ctl' /\ ~Region'
    BY <1>1, <1>3, <2>2, PaintTypes DEF Ctl, CtlTypes, OwnerInv, Vacated, Answered, Region
  <2> QED
    BY <1>1, <1>2, <2>1, <2>3, QuietControl
<1>4. CASE ~closed
  <2>1. Reset
    BY <1>4 DEF BeginRepaint
  <2>2. SupplyInv'
    BY <1>1, <2>1, PaintTypes, ResetSupply
  <2>3. UNCHANGED <<reports, overflow, closed>> /\ sub' = 0
    BY <2>1 DEF Reset, Release
  <2>4. Ctl' /\ ~Region'
    BY <1>1, <2>3, PaintTypes DEF Ctl, CtlTypes, OwnerInv, Vacated, Answered, Region
  <2> QED
    BY <1>2, <2>2, <2>4, QuietStep DEF Preserved
<1> QED
  BY <1>3, <1>4

LEMMA BeginResyncScreen ==
  ASSUME StreamInv, BeginResync
  PROVE  Preserved
<1>1. /\ UNCHANGED <<produced, mark, gate, known, blank, crossed, work, item>> /\ Resync
      /\ UNCHANGED <<owner, resyncing, attached, ready>> /\ owner = "resync"
      /\ UNCHANGED <<reports, sub, gen, closed, pump, got, next>>
  BY DEF BeginResync, screen, panes, flaws, door
<1>2. \/ overflow' = FALSE /\ step' = "degrade" /\ torn' = torn
      \/ overflow' = overflow /\ step' = "end" /\ torn' # "no" /\ (torn # "no" => torn' = torn)
  BY DEF BeginResync, Resync, TearDown
<1>3. Quiet
  BY <1>1, SamePasses DEF Quiet
<1>4. SupplyInv'
  BY <1>1, PaintTypes, ResyncSupply
<1>5. Ctl' /\ ~Region'
  BY <1>1, <1>2, PaintTypes DEF Ctl, CtlTypes, OwnerInv, Vacated, Answered, Region
<1> QED
  BY <1>3, <1>4, <1>5, QuietStep DEF Preserved

LEMMA SayDegradedScreen ==
  ASSUME StreamInv, SayDegraded
  PROVE  Preserved
<1>1. /\ UNCHANGED <<produced, mark, gate, known, blank, crossed, work>> /\ Tell("degraded")
      /\ UNCHANGED <<owner, resyncing, torn, attached, ready>> /\ step = "degrade" /\ step' = "hold"
  BY DEF SayDegraded, screen, panes, flaws, door
<1>2. SupplyInv' /\ Published
  BY <1>1, PaintTypes, TellSteps DEF Ctl, CtlTypes
<1>3. Quiet
  BY <1>1, SamePasses DEF Quiet
<1>4. Ctl' /\ ~Region'
  BY <1>1, <1>2, PaintTypes DEF Ctl, CtlTypes, OwnerInv, Vacated, Answered, Region, Published
<1> QED
  BY <1>2, <1>3, <1>4, QuietStep DEF Preserved

LEMMA PassEndsScreen ==
  ASSUME StreamInv, PassSucceeds \/ PassFails, owner # "none"
  PROVE  Preserved
<1>1. /\ UNCHANGED <<produced, mark, gate, known, blank, crossed>> /\ UNCHANGED <<vars, item>>
      /\ UNCHANGED attached /\ step = "paint"
      /\ work' = LeaveBehind("locked", "locked deferred") \/ work' = [work EXCEPT !["locked"] = NoWork]
  BY DEF PassSucceeds, PassFails, screen, panes, flaws, door
<1>2. Quiet
  BY <1>1, PaintTypes, EndedHandsEmpty DEF Quiet, Passes, Background
<1>3. UNCHANGED <<reports, overflow, sub, closed>>
  BY <1>1 DEF vars
<1>4. Ctl' /\ (Region' => Region)
  <2>1. CASE PassSucceeds
    <3>1. /\ torn' = torn /\ ready' = (ready \/ owner = "attach") /\ owner' = "none" /\ step' = "idle"
          /\ resyncing' = IF owner = "resync" THEN FALSE ELSE resyncing
      BY <2>1 DEF PassSucceeds, Unlocked
    <3> QED
      BY <1>1, <1>3, <3>1, PaintTypes DEF Ctl, CtlTypes, OwnerInv, Vacated, Answered, Region, Expecting
  <2>2. CASE PassFails /\ owner = "attach"
    <3>1. /\ torn' = torn /\ ready' = ready /\ owner' = "none" /\ step' = "idle" /\ resyncing' = resyncing
      BY <2>2 DEF PassFails, Unlocked, door
    <3> QED
      BY <1>1, <1>3, <2>2, <3>1, PaintTypes DEF Ctl, CtlTypes, OwnerInv, Vacated, Answered, Region, Expecting
  <2>3. CASE PassFails /\ owner # "attach"
    <3>1. /\ torn' # "no" /\ ready' = ready /\ owner' = owner /\ step' = "end" /\ resyncing' = resyncing
      BY <2>3 DEF PassFails, TearDown, door
    <3> QED
      BY <1>1, <1>3, <3>1, PaintTypes DEF Ctl, CtlTypes, OwnerInv, Vacated, Answered, Region, Expecting
  <2> QED
    BY <2>1, <2>2, <2>3
<1> QED
  BY <1>1, <1>2, <1>4, QuietControl

LEMMA TornScreen ==
  ASSUME StreamInv, EndResync \/ ControlStreamEnds
  PROVE  Preserved
<1>1. /\ UNCHANGED <<produced, mark, gate, known, blank, crossed, work>> /\ UNCHANGED <<vars, item>>
      /\ UNCHANGED <<attached, ready>> /\ torn' # "no"
      /\ \/ UNCHANGED <<owner, step, resyncing>>
         \/ owner' = "none" /\ step' = "idle"
  BY DEF EndResync, ControlStreamEnds, Unlocked, screen, panes, flaws, pass, door
<1>2. Quiet
  BY <1>1, SamePasses DEF Quiet
<1>3. UNCHANGED <<reports, overflow, sub, closed>>
  BY <1>1 DEF vars
<1>4. Ctl' /\ ~Region'
  BY <1>1, <1>3, PaintTypes DEF Ctl, CtlTypes, OwnerInv, Vacated, Answered, Region
<1> QED
  BY <1>1, <1>2, <1>4, QuietControl

LEMMA TeardownScreen ==
  ASSUME StreamInv, Teardown
  PROVE  Preserved
<1>1. /\ UNCHANGED <<produced, mark, gate, known, blank, crossed, work>>
      /\ UNCHANGED <<owner, step, resyncing, attached, ready>> /\ torn' # "no" /\ torn # "no"
  BY DEF Teardown, SayExited, CloseStream, screen, panes, flaws, pass, door
<1>2. Quiet
  BY <1>1, SamePasses DEF Quiet
<1>3. SupplyInv' /\ CtlTypes'
  <2>1. CASE SayExited
    <3>1. Tell("exited")
      BY <2>1 DEF SayExited
    <3> QED
      BY <3>1, PaintTypes, TellSteps DEF Ctl, CtlTypes, Published
  <2>2. CASE CloseStream
    <3>1. Close /\ UNCHANGED item
      BY <2>2 DEF CloseStream
    <3>2. UNCHANGED <<overflow, reports>>
      BY <3>1 DEF Close
    <3> QED
      BY <3>1, <3>2, PaintTypes, CloseSupply DEF Ctl, CtlTypes
  <2> QED
    BY <2>1, <2>2 DEF Teardown
<1>4. Ctl' /\ ~Region'
  BY <1>1, <1>3, PaintTypes DEF Ctl, OwnerInv, Vacated, Answered, Region
<1> QED
  BY <1>2, <1>3, <1>4, QuietStep DEF Preserved

LEMMA ConnectScreen ==
  ASSUME StreamInv, Connect
  PROVE  Preserved
<1>1. /\ UNCHANGED <<produced, mark, gate, known, blank, crossed, work, item>> /\ Subscribe
      /\ UNCHANGED <<owner, step, resyncing, torn, attached>> /\ ready /\ ready' = FALSE
  BY DEF Connect, screen, panes, flaws, pass
<1>2. UNCHANGED <<overflow, reports, closed>>
  BY <1>1 DEF Subscribe
<1>3. Quiet
  BY <1>1, SamePasses DEF Quiet
<1>4. SupplyInv' /\ (sub = 0 => ShowsKept)
  BY <1>1, PaintTypes, SubscribeSupply
<1>5. Ctl'
  BY <1>1, <1>2, PaintTypes DEF Ctl, CtlTypes, OwnerInv, Vacated, Answered
<1>6. Region' => Region /\ sub = 0
  BY <1>1, <1>2, PaintTypes DEF Ctl, Vacated, Region, Expecting
<1> QED
  BY <1>3, <1>4, <1>5, <1>6, QuietStep DEF Preserved

LEMMA ReaderScreen ==
  ASSUME StreamInv, UNCHANGED client,
         (CoolDown \/ \E g \in Gens : StreamPump(g) \/ Disconnect(g)) \/ UNCHANGED allVars
  PROVE  Preserved
<1>1. /\ UNCHANGED <<produced, mark, gate, known, blank, crossed, work>>
      /\ UNCHANGED <<owner, step, resyncing, torn, attached, ready>>
  BY DEF client, screen, panes, flaws, pass, door
<1>2. Quiet
  BY <1>1, SamePasses DEF Quiet
<1>3. CASE CoolDown \/ UNCHANGED allVars
  <2>1. UNCHANGED <<buf, sub, gen, epoch, closed, pump, got, next, item, overflow, reports>>
    BY <1>3 DEF CoolDown, Cooled, allVars, vars
  <2>2. SupplyInv' /\ ShowsKept
    BY <2>1, PaintTypes, SameSupply
  <2>3. Ctl' /\ (Region' => Region)
    BY <1>1, <2>1, PaintTypes DEF Ctl, CtlTypes, OwnerInv, Vacated, Answered, Region, Expecting
  <2> QED
    BY <1>2, <2>2, <2>3, QuietStep DEF Preserved
<1>4. CASE \E g \in Gens : StreamPump(g)
  <2>1. PICK g \in Gens : Pump(g) /\ UNCHANGED item
    BY <1>4 DEF StreamPump
  <2>2. SupplyInv' /\ (~closed => ShowsKept) /\ UNCHANGED <<overflow, reports, sub, closed>>
    BY <2>1, PaintTypes, PumpSupply, PumpMove
  <2>3. Ctl' /\ (Region' => Region /\ ~closed)
    BY <1>1, <2>2, PaintTypes DEF Ctl, CtlTypes, OwnerInv, Vacated, Answered, Region, Expecting
  <2> QED
    BY <1>2, <2>2, <2>3, QuietStep DEF Preserved
<1>5. CASE \E g \in Gens : Disconnect(g)
  <2>1. PICK g \in Gens : Unsubscribe(g) /\ UNCHANGED item
    BY <1>5 DEF Disconnect
  <2>2. SupplyInv'
    BY <2>1, PaintTypes, UnsubscribeSupply
  <2>3. UNCHANGED <<overflow, reports, closed>> /\ sub # 0 /\ sub' = 0
    BY <2>1 DEF Unsubscribe, Release, Gens
  <2>4. Ctl' /\ ~Region'
    BY <1>1, <2>3, PaintTypes DEF Ctl, CtlTypes, OwnerInv, Vacated, Answered, Region, Expecting
  <2> QED
    BY <1>2, <2>2, <2>4, QuietStep DEF Preserved
<1> QED
  BY <1>3, <1>4, <1>5

LEMMA ScreenNext ==
  ASSUME StreamInv, [StreamNext]_allVars
  PROVE  StreamInv'
<1>1. HoldInv'
  BY StreamStep DEF StreamInv
<1>2. Preserved
  <2>1. CASE \E p \in Panes : Produce(p) \/ NewPane(p)
    BY <2>1, ProduceScreen, NewPaneScreen
  <2>2. CASE \E w \in Passes : FirstPaint(w)
    BY <2>2, FirstPaintScreen
  <2>3. CASE Attacher \/ Reconcile \/ LockAttach \/ ClaimResync \/ LockResync
    BY <2>3, AttachAnswersScreen, AttachFailsScreen, ReconcileScreen, LockScreen, ClaimResyncScreen DEF Attacher
  <2>4. CASE Holder
    BY <2>4, BeginRepaintScreen, BeginResyncScreen, SayDegradedScreen, HoldPanesScreen, PassEndsScreen, TornScreen
       DEF Holder
  <2>5. CASE ControlStreamEnds \/ Teardown \/ Connect
    BY <2>5, TornScreen, TeardownScreen, ConnectScreen
  <2>6. CASE CoolDown \/ (\E g \in Gens : StreamPump(g) \/ Disconnect(g)) \/ UNCHANGED allVars
    <3>1. UNCHANGED client
      BY <2>6 DEF CoolDown, StreamPump, Disconnect, allVars
    <3> QED
      BY <2>6, <3>1, ReaderScreen
  <2> QED
    BY <2>1, <2>2, <2>3, <2>4, <2>5, <2>6 DEF StreamNext
<1> QED
  BY <1>1, <1>2 DEF Preserved, StreamInv

LEMMA ScreenInit == StreamInit => StreamInv
<1> SUFFICES ASSUME StreamInit PROVE StreamInv
  OBVIOUS
<1>1. HoldInv
  BY StreamInitHolds
<1>2. /\ Init /\ item = <<>> /\ mark = [p \in Panes |-> 0] /\ produced = mark
      /\ gate = [p \in Panes |-> IF p \in known THEN "held" ELSE "live"] /\ known = Panes \ New
      /\ attached = "no" /\ owner = "none" /\ step = "idle" /\ ~resyncing /\ torn = "no" /\ ~ready
      /\ work = [w \in Passes |-> IF w = "attach" THEN Paints(known \cap Shown, known \ Shown) ELSE NoWork]
  BY DEF StreamInit
<1>3. /\ IInv /\ next = 1 /\ buf = <<>> /\ sub = 0 /\ gen = 0 /\ reports = 0 /\ overflow = FALSE
      /\ closed = FALSE
      /\ got = [g \in Gens |-> {}] /\ pump = [g \in Gens |-> Idle]
  BY <1>2, InitInv DEF Init
<1>4. ItemTypes /\ GotNumbers /\ CarriedIn
  BY <1>2, <1>3 DEF ItemTypes, GotNumbers, CarriedIn, Carried
<1>5. PumpSide
  <2>1. \A g \in Gens : pump[g].pc = "none" /\ ~pump[g].closing
    BY <1>3 DEF Idle
  <2> QED
    BY <1>3, <2>1 DEF PumpSide, HeldIn, Holding, HandedOver, ClosingLast, Serves, SubTypes
<1>6. Ctl
  BY <1>2, <1>3 DEF Ctl, CtlTypes, OwnerInv, Vacated, Answered
<1>7. \A w \in Passes : work[w].pane = NoPane
  BY <1>2 DEF Paints, NoWork
<1>8. MarkInv
  BY <1>2 DEF MarkInv
<1>9. OneHand
  BY <1>7, StreamAssumption DEF OneHand, Hand
<1>10. Claims
  <2> SUFFICES ASSUME NEW p \in known PROVE Claim(p)
    BY DEF Claims
  <2>1. gate[p] = "held" /\ p \in Panes
    BY <1>2
  <2> QED
    BY <1>7, <2>1, StreamAssumption DEF Claim
<1> QED
  BY <1>1, <1>3, <1>4, <1>5, <1>6, <1>8, <1>9, <1>10 DEF StreamInv, SupplyInv, ScreenInv

-----------------------------------------------------------------------------
\* Once nothing is under way, the invariant says what the screen shows.
LEMMA SettledShows ==
  ASSUME StreamInv, NEW g \in Gens, Settled(g), NEW p \in known \ (blank \cup crossed)
  PROVE  ShowsAll(g, p)
<1>1. /\ sub = g /\ g # 0 /\ torn = "no" /\ buf = <<>> /\ owner = "none" /\ ~resyncing /\ reports = 0 /\ ~reconcile
      /\ \A w \in Passes : work[w] = NoWork
  BY DEF Settled, Gens, Idling
<1>2. Region
  <2>1. ~overflow
    BY <1>1, PaintTypes DEF Ctl, CtlTypes, Answered
  <2>2. step = "idle"
    BY <1>1, PaintTypes DEF Ctl, OwnerInv
  <2> QED
    BY <1>1, <2>1, <2>2 DEF Region, Expecting
<1>3. p \in Panes /\ Claim(p)
  BY <1>2, PaintTypes DEF StreamInv, ScreenInv, Claims
<1>4. gate[p] = "live"
  <2>1. \A w \in Passes : p \notin Hands(work[w])
    BY <1>1, <1>3, Idles, StreamAssumption
  <2>2. gate[p] # "held"
    BY <1>1, <1>3, <2>1, PaintTypes, HeldDef DEF HoldInv
  <2> QED
    BY <1>3, <2>2, PaintTypes
<1>5. \A n \in 1 .. produced[p] : Shows(p, n)
  BY <1>3, <1>4 DEF Claim
<1>6. Aud = got[g]
  BY <1>1 DEF Aud, Carried
<1>7. got[g] \subseteq 1 .. Len(item) /\ item \in Seq(Items)
  BY PaintTypes DEF SupplyInv, ItemTypes, GotNumbers
<1>8. Fresh \subseteq OnScreen(g)
  BY <1>6, <1>7 DEF Fresh, OnScreen
<1>9. ASSUME NEW n \in 1 .. produced[p] PROVE Displays(g, p, n)
  BY <1>5, <1>8 DEF Shows, ShownBy, Displays
<1> QED
  BY <1>9 DEF ShowsAll

\* Whatever overflowed, was cleared or was painted again on the way, a
\* subscriber that has caught up shows all that tmux wrote to every pane that
\* was painted and that no two passes had in hand at once (publish, resync,
\* release, firstPaint, Repaint).
THEOREM ScreenCompleteHolds == StreamSpec => []ScreenComplete
<1>1. StreamInv => ScreenComplete
  BY SettledShows DEF ScreenComplete
<1> QED
  BY ScreenInit, ScreenNext, <1>1, PTL DEF StreamSpec

=============================================================================
