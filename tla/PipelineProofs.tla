--------------------------- MODULE PipelineProofs ---------------------------
(* Proofs about Pipeline, for every set of items, filters and limits: what *)
(* change detection hides is in the inbox, and no unread row is left       *)
(* without somebody who will announce it.                                  *)
EXTENDS Pipeline, SequenceTheorems, FiniteSetTheorems, TLAPS

\* The engine's locals outside the phase that uses them.
Installing == eng \in {"list", "snapshots", "activate"}
PhaseInv ==
    /\ Installing => target \in Filters
    /\ ~Installing => tail = 0 /\ listed = {} /\ target = {}
    /\ eng # "activate" => prepared = {}
    /\ eng # "commit" => page = <<>> /\ upTo = 0
    /\ starting => (eng = "tail" \/ Installing) /\ installed = NoFlow

DrainTypes == drains \in [Drains -> Drain]

TypeInv == StoreTypes /\ EngineTypes /\ BoundTypes /\ DrainTypes /\ PhaseInv

-----------------------------------------------------------------------------
(* Numbers and sequences                                                   *)

\* A nonempty set of naturals has a least element.
LEMMA LeastNatural ==
  ASSUME NEW S, S \subseteq Nat, S # {}
  PROVE  \E m \in S : \A n \in S : m <= n
<1>1. PICK m \in S : \A n \in S : ~(<<n, m>> \in OpToRel(<, Nat))
  BY NatLessThanWellFounded, WFMin
<1>2. \A n \in S : <<n, m>> \in Nat \X Nat /\ <<n, m>>[1] = n /\ <<n, m>>[2] = m
  OBVIOUS
<1>3. \A n \in S : ~(n < m)
  BY <1>1, <1>2 DEF OpToRel
<1> QED
  BY <1>3

\* A nonempty set of naturals with a bound has a greatest one.
LEMMA GreatestNatural ==
  ASSUME NEW n \in Nat, NEW S, S \subseteq 0 .. n, S # {}
  PROVE  \E m \in S : \A k \in S : k <= m
<1> DEFINE T == {n - k : k \in S}
<1>1. T \subseteq Nat
  OBVIOUS
<1>2. T # {}
  <2>1. PICK k \in S : TRUE
    OBVIOUS
  <2>2. n - k \in T
    OBVIOUS
  <2> QED
    BY <2>2
<1> HIDE DEF T
<1>3. PICK t \in T : \A u \in T : t <= u
  BY <1>1, <1>2, LeastNatural
<1> USE DEF T
<1>4. PICK m \in S : t = n - m
  OBVIOUS
<1>5. \A k \in S : n - m <= n - k
  BY <1>3, <1>4
<1> QED
  BY <1>5

\* A function on 1 .. n is a sequence.
LEMMA FunctionIsSeq ==
  ASSUME NEW n \in Nat, NEW S, NEW f \in [1 .. n -> S]
  PROVE  f \in Seq(S) /\ Len(f) = n
  OBVIOUS

\* A part of a sequence.
LEMMA PartOfSeq ==
  ASSUME NEW S, NEW s \in Seq(S), NEW m \in 1 .. Len(s) + 1, NEW n \in 0 .. Len(s)
  PROVE  /\ SubSeq(s, m, n) \in Seq(S)
         /\ Len(SubSeq(s, m, n)) = IF m <= n THEN n - m + 1 ELSE 0
         /\ \A i \in 1 .. Len(SubSeq(s, m, n)) : SubSeq(s, m, n)[i] = s[m + i - 1] /\ m + i - 1 \in 1 .. n
<1>1. \A i \in m .. n : s[i] \in S
  OBVIOUS
<1>2. Len(s) \in Nat
  OBVIOUS
<1> QED
  BY <1>1, <1>2, SubSeqProperties

-----------------------------------------------------------------------------
(* The log's rows                                                          *)

LEMMA SnapshotPlaces ==
  ASSUME NEW s \in Seq(Entry), Snapshots(s) # {}
  PROVE  Newest(s) \in DOMAIN s /\ Oldest(s) \in DOMAIN s
<1>1. Len(s) \in Nat /\ DOMAIN s = 1 .. Len(s)
  OBVIOUS
<1>2. Snapshots(s) \subseteq 0 .. Len(s) /\ Snapshots(s) \subseteq Nat /\ Snapshots(s) \subseteq DOMAIN s
  BY <1>1 DEF Snapshots
<1>3. \E i \in Snapshots(s) : \A j \in Snapshots(s) : j <= i
  BY <1>1, <1>2, GreatestNatural
<1>4. \E i \in Snapshots(s) : \A j \in Snapshots(s) : i <= j
  BY <1>2, LeastNatural
<1> QED
  BY <1>2, <1>3, <1>4 DEF Newest, Oldest

LEMMA LatestType ==
  ASSUME StoreTypes, NEW n \in 0 .. Len(log)
  PROVE  LatestThrough(n) \in Entry
<1> DEFINE before == SubSeq(log, 1, n)
<1>1. before \in Seq(Entry)
  <2>1. 1 \in 1 .. Len(log) + 1
    BY DEF StoreTypes
  <2> QED
    BY <2>1, PartOfSeq DEF StoreTypes
<1>2. CASE Snapshots(before) = {}
  BY <1>2 DEF LatestThrough, StoreTypes
<1>3. CASE Snapshots(before) # {}
  <2> HIDE DEF before
  <2>1. before[Newest(before)] \in Entry
    BY <1>1, <1>3, SnapshotPlaces
  <2> QED
    BY <1>3, <2>1 DEF LatestThrough, before
<1> QED
  BY <1>2, <1>3

LEMMA PayloadFacts ==
  /\ "absent" \notin Payloads
  /\ \A f \in Filters : f \subseteq Payloads
  /\ NoFlow \cap (Payloads \cup {"absent"}) = {}
  BY PipelineAssumption DEF Payloads, NoFlow

LEMMA NothingView == Nothing \in Views
  BY DEF Nothing, Views

LEMMA EntryType ==
  ASSUME NEW kind \in {"item", "snapshot", "pruned"}, NEW view \in Views
  PROVE  [kind |-> kind, view |-> view] \in Entry
  BY DEF Entry

LEMMA IdleType == Idle \in Drain /\ Idle.pc = "idle" /\ ~Idle.wrote
  BY NothingView DEF Idle, Drain

\* The archive actor an observation leaves.
LEMMA ArchivedAfterType ==
  ASSUME NEW a \in Actors, NEW t, NEW att, NEW pol
  PROVE  ArchivedAfter(a, t, att, pol) \in Actors
  BY DEF ArchivedAfter, Actors

-----------------------------------------------------------------------------
(* Steps outside the engine                                                *)

\* The engine is where it was, and the log has not become shorter.
LEMMA EngineStill ==
  ASSUME TypeInv, UNCHANGED engine, UNCHANGED starting, StoreTypes',
         Len(log') >= Len(log), wake' \in BOOLEAN, reload' \in BOOLEAN, dark' \in BOOLEAN
  PROVE  EngineTypes' /\ PhaseInv'
<1>1. Len(log) \in Nat /\ Len(log') \in Nat /\ Len(log') >= Len(log)
  BY DEF TypeInv, StoreTypes
<1>2. UNCHANGED <<eng, starting, installed, target, tail, listed, prepared, page, upTo>>
  BY DEF engine
<1>3. tail \in 0 .. Len(log') /\ upTo \in 0 .. Len(log')
  BY <1>1 DEF TypeInv, EngineTypes
<1>4. EngineTypes'
  BY <1>2, <1>3 DEF TypeInv, EngineTypes
<1>5. PhaseInv'
  BY <1>2 DEF TypeInv, PhaseInv, Installing
<1> QED
  BY <1>4, <1>5

LEMMA LatchTypes == TypeInv => wake \in BOOLEAN /\ reload \in BOOLEAN /\ dark \in BOOLEAN
  BY DEF TypeInv, EngineTypes

LEMMA UpstreamStep ==
  ASSUME TypeInv, NEW k \in Items, Upstream(k)
  PROVE  TypeInv'
<1>1. UNCHANGED <<row, head, claims, log, last, flow, drains, wake, reload, dark, triages, edits, faults>> /\ UNCHANGED engine /\ UNCHANGED starting
  BY DEF Upstream, inbox, events, latches, engine
<1>2. StoreTypes'
  BY <1>1 DEF Upstream, TypeInv, StoreTypes, Views
<1>3. BoundTypes'
  BY <1>1, PipelineAssumption DEF Upstream, TypeInv, BoundTypes
<1>4. DrainTypes'
  BY <1>1 DEF TypeInv, DrainTypes
<1>5. EngineTypes' /\ PhaseInv'
  BY <1>1, <1>2, LatchTypes, EngineStill DEF TypeInv, StoreTypes
<1> QED
  BY <1>2, <1>3, <1>4, <1>5 DEF TypeInv

LEMMA DrainBeginStep ==
  ASSUME TypeInv, NEW d \in Drains, DrainBegin(d)
  PROVE  TypeInv'
<1>1. UNCHANGED <<upstream, row, head, claims, log, last, flow, wake, reload, dark, changes, triages, edits, faults>> /\ UNCHANGED engine /\ UNCHANGED starting
  BY DEF DrainBegin, inbox, events, latches, engine, bounds
<1>2. StoreTypes' /\ BoundTypes'
  BY <1>1 DEF TypeInv, StoreTypes, BoundTypes
<1>3. DrainTypes'
  BY DEF DrainBegin, TypeInv, StoreTypes, DrainTypes, Drain
<1>4. EngineTypes' /\ PhaseInv'
  BY <1>1, <1>2, LatchTypes, EngineStill DEF TypeInv, StoreTypes
<1> QED
  BY <1>2, <1>3, <1>4 DEF TypeInv

LEMMA IngestStep ==
  ASSUME TypeInv, NEW d \in Drains, NEW k \in Items, IngestObservation(d, k)
  PROVE  TypeInv'
<1> DEFINE cur == drains[d].fetched[k]
           wrote == head[k] # cur
<1>1. UNCHANGED <<upstream, claims, last, flow, wake, reload, dark, changes, triages, edits, faults>> /\ UNCHANGED engine /\ UNCHANGED starting
  BY DEF IngestObservation, inbox, events, latches, engine, bounds
<1>2. drains[d] \in Drain /\ cur \in Payloads \cup {"absent"}
  BY DEF TypeInv, DrainTypes, Drain, Views
<1>3. DrainTypes'
  <2> DEFINE w == drains[d].wrote \/ wrote
             x == [drains[d] EXCEPT !.todo = drains[d].todo \ {k}, !.wrote = w]
  <2>1. drains' = [drains EXCEPT ![d] = x]
    BY DEF IngestObservation, TypeInv, DrainTypes, Drain
  <2>2. w \in BOOLEAN
    OBVIOUS
  <2>3. drains[d].todo \ {k} \in SUBSET Items
    BY <1>2 DEF Drain
  <2> HIDE DEF w
  <2>4. x \in Drain
    BY <1>2, <2>2, <2>3 DEF Drain
  <2> HIDE DEF x
  <2> QED
    BY <2>1, <2>4 DEF TypeInv, DrainTypes
<1>4. StoreTypes' /\ Len(log') >= Len(log)
  <2>0. row \in [Items -> [payload : Payloads \cup {"absent"}, archived : Actors]] /\ head \in Views
        /\ log \in Seq(Entry)
    BY DEF TypeInv, StoreTypes
  <2>1. CASE wrote
    <3> DEFINE a == ArchivedAfter(row[k].archived, Transition(row[k].payload, cur), "activity", Policy)
               e == [kind |-> "item", view |-> [Nothing EXCEPT ![k] = cur]]
    <3>1. a \in Actors
      BY <2>0, ArchivedAfterType
    <3>2. row' = [row EXCEPT ![k] = [payload |-> cur, archived |-> a]] /\ head' = [head EXCEPT ![k] = cur]
          /\ log' = Append(log, e)
      BY <2>1 DEF IngestObservation
    <3>3. e \in Entry
      BY <1>2, NothingView DEF Entry, Views
    <3> HIDE DEF a, e, cur
    <3>4. row' \in [Items -> [payload : Payloads \cup {"absent"}, archived : Actors]]
      BY <1>2, <2>0, <3>1, <3>2
    <3>5. head' \in Views
      BY <1>2, <2>0, <3>2 DEF Views
    <3>6. log' \in Seq(Entry) /\ Len(log') >= Len(log)
      BY <2>0, <3>2, <3>3
    <3> QED
      BY <1>1, <3>4, <3>5, <3>6 DEF TypeInv, StoreTypes
  <2>2. CASE ~wrote
    BY <1>1, <2>0, <2>2 DEF IngestObservation, TypeInv, StoreTypes
  <2> QED
    BY <2>1, <2>2
<1>5. BoundTypes'
  BY <1>1 DEF TypeInv, BoundTypes
<1>6. EngineTypes' /\ PhaseInv'
  BY <1>1, <1>4, LatchTypes, EngineStill
<1> QED
  BY <1>3, <1>4, <1>5, <1>6 DEF TypeInv

LEMMA AppendSnapshotStep ==
  ASSUME TypeInv, NEW d \in Drains, AppendSnapshot(d)
  PROVE  TypeInv'
<1> DEFINE e == [kind |-> "snapshot", view |-> drains[d].fetched]
<1>1. UNCHANGED <<upstream, row, head, claims, last, flow, wake, reload, dark, changes, triages, edits, faults>> /\ UNCHANGED engine /\ UNCHANGED starting
  BY DEF AppendSnapshot, inbox, latches, engine, bounds
<1>2. e \in Entry /\ log \in Seq(Entry) /\ log' = Append(log, e)
  BY DEF AppendSnapshot, Entry, TypeInv, StoreTypes, DrainTypes, Drain
<1> HIDE DEF e
<1>3. StoreTypes' /\ Len(log') >= Len(log)
  BY <1>1, <1>2 DEF TypeInv, StoreTypes
<1>4. DrainTypes'
  BY DEF AppendSnapshot, TypeInv, DrainTypes, Drain
<1>5. BoundTypes'
  BY <1>1 DEF TypeInv, BoundTypes
<1>6. EngineTypes' /\ PhaseInv'
  BY <1>1, <1>3, LatchTypes, EngineStill
<1> QED
  BY <1>3, <1>4, <1>5, <1>6 DEF TypeInv

LEMMA DrainEndStep ==
  ASSUME TypeInv, NEW d \in Drains, DrainFails(d) \/ Publish(d)
  PROVE  TypeInv'
<1>1. UNCHANGED <<upstream, row, head, claims, log, last, flow, reload, changes, triages, edits>> /\ UNCHANGED engine /\ UNCHANGED starting
      /\ drains' = [drains EXCEPT ![d] = Idle]
  BY DEF DrainFails, Publish, inbox, events, latches, engine, bounds
<1>2. wake' \in BOOLEAN /\ dark' \in BOOLEAN
  <2>1. drains[d].wrote \in BOOLEAN
    BY DEF TypeInv, DrainTypes, Drain
  <2>2. CASE DrainFails(d)
    BY <2>1, <2>2, LatchTypes DEF DrainFails, latches
  <2>3. CASE Publish(d)
    BY <2>3, LatchTypes DEF Publish
  <2> QED
    BY <2>2, <2>3
<1>3. BoundTypes'
  BY <1>1, PipelineAssumption DEF DrainFails, Publish, bounds, TypeInv, BoundTypes
<1>4. DrainTypes'
  BY <1>1, IdleType DEF TypeInv, DrainTypes
<1>5. StoreTypes'
  BY <1>1 DEF TypeInv, StoreTypes
<1>6. EngineTypes' /\ PhaseInv'
  BY <1>1, <1>2, <1>5, LatchTypes, EngineStill DEF TypeInv, StoreTypes
<1> QED
  BY <1>3, <1>4, <1>5, <1>6 DEF TypeInv

LEMMA ToggleStep ==
  ASSUME TypeInv, NEW k \in Items, ToggleArchived(k)
  PROVE  TypeInv'
<1>1. UNCHANGED <<upstream, head, claims, log, last, flow, drains, wake, reload, dark, changes, edits, faults>> /\ UNCHANGED engine /\ UNCHANGED starting
  BY DEF ToggleArchived, events, latches, engine
<1>2. row' \in [Items -> [payload : Payloads \cup {"absent"}, archived : Actors]]
  BY DEF ToggleArchived, TypeInv, StoreTypes, Actors
<1>3. StoreTypes'
  BY <1>1, <1>2 DEF TypeInv, StoreTypes
<1>4. BoundTypes' /\ DrainTypes'
  BY <1>1, PipelineAssumption DEF ToggleArchived, TypeInv, BoundTypes, DrainTypes
<1>5. EngineTypes' /\ PhaseInv'
  BY <1>1, <1>3, LatchTypes, EngineStill DEF TypeInv, StoreTypes
<1> QED
  BY <1>3, <1>4, <1>5 DEF TypeInv

LEMMA EditFlowStep ==
  ASSUME TypeInv, NEW f \in Filters, EditFlow(f)
  PROVE  TypeInv'
<1>1. UNCHANGED <<upstream, row, head, claims, log, last, drains, wake, dark, changes, triages, faults>> /\ UNCHANGED engine /\ UNCHANGED starting
      /\ reload' = TRUE
  BY DEF EditFlow, inbox, events, engine
<1>2. StoreTypes'
  BY <1>1 DEF EditFlow, TypeInv, StoreTypes
<1>3. BoundTypes' /\ DrainTypes'
  BY <1>1, PipelineAssumption DEF EditFlow, TypeInv, BoundTypes, DrainTypes
<1>4. EngineTypes' /\ PhaseInv'
  BY <1>1, <1>2, LatchTypes, EngineStill DEF TypeInv, StoreTypes
<1> QED
  BY <1>2, <1>3, <1>4 DEF TypeInv

\* Pruning keeps the places of the log.
LEMMA PruneShape ==
  ASSUME TypeInv, NEW expired, Prune(expired)
  PROVE  /\ log' \in Seq(Entry) /\ Len(log') = Len(log) /\ DOMAIN log' = DOMAIN log
         /\ \A i \in DOMAIN log : log'[i].kind # "pruned" => log[i].kind # "pruned"
<1>1. log \in Seq(Entry) /\ Len(log) \in Nat /\ DOMAIN log = 1 .. Len(log)
  BY DEF TypeInv, StoreTypes
<1>2. [kind |-> "pruned", view |-> Nothing] \in Entry /\ [kind |-> "pruned", view |-> Nothing].kind = "pruned"
  BY EntryType, NothingView
<1>3. log' = [i \in 1 .. Len(log) |->
                  IF log[i].kind = "snapshot" /\ Superseded(i)
                  THEN [kind |-> "pruned", view |-> Nothing] ELSE log[i]]
  BY <1>1 DEF Prune
<1>4. log' \in [1 .. Len(log) -> Entry]
  BY <1>1, <1>2, <1>3
<1>5. log' \in Seq(Entry) /\ Len(log') = Len(log)
  BY <1>1, <1>4, FunctionIsSeq
<1>6. \A i \in DOMAIN log : log'[i].kind # "pruned" => log[i].kind # "pruned"
  BY <1>1, <1>3
<1> QED
  BY <1>1, <1>4, <1>5, <1>6

LEMMA PruneStep ==
  ASSUME TypeInv, NEW expired \in SUBSET Items, Prune(expired)
  PROVE  TypeInv'
<1>1. UNCHANGED <<upstream, flow, drains, wake, reload, dark, changes, triages, edits, faults>> /\ UNCHANGED engine /\ UNCHANGED starting
  BY DEF Prune, latches, engine, bounds
<1>2. StoreTypes'
  <2>1. last' \in Entry
    BY EntryType, NothingView DEF Prune, NoSnapshot, TypeInv, StoreTypes
  <2>2. row' \in [Items -> [payload : Payloads \cup {"absent"}, archived : Actors]]
    BY DEF Prune, TypeInv, StoreTypes, Actors
  <2>3. head' \in Views
    BY DEF Prune, TypeInv, StoreTypes, Views
  <2>4. claims' \subseteq Items
    BY DEF Prune, TypeInv, StoreTypes
  <2> QED
    BY <1>1, <2>1, <2>2, <2>3, <2>4, PruneShape DEF TypeInv, StoreTypes
<1>3. BoundTypes' /\ DrainTypes'
  BY <1>1 DEF TypeInv, BoundTypes, DrainTypes
<1>4. Len(log') >= Len(log)
  BY PruneShape DEF TypeInv, StoreTypes
<1>5. EngineTypes' /\ PhaseInv'
  BY <1>1, <1>2, <1>4, LatchTypes, EngineStill
<1> QED
  BY <1>2, <1>3, <1>5 DEF TypeInv

-----------------------------------------------------------------------------
(* The engine's steps                                                      *)

\* A step of the engine that leaves the database alone.
LEMMA StoreStill ==
  ASSUME TypeInv, UNCHANGED <<upstream, row, head, claims, log, last, flow, drains>>
  PROVE  StoreTypes' /\ DrainTypes' /\ Len(log') = Len(log)
  BY DEF TypeInv, StoreTypes, DrainTypes

LEMMA WaitStep ==
  ASSUME TypeInv, EngineReload \/ EngineWake
  PROVE  TypeInv'
<1>1. /\ UNCHANGED <<upstream, row, head, claims, log, last, flow, drains, starting, installed, target, tail, listed,
                     prepared, page, upTo, dark, changes, triages, edits, faults>>
      /\ eng = "wait" /\ eng' \in {"tail", "drain"}
      /\ wake' \in {wake, FALSE} /\ reload' \in {reload, FALSE}
  BY DEF EngineReload, EngineWake, inbox, events, replay, paging, bounds
<1>2. wake' \in BOOLEAN /\ reload' \in BOOLEAN
  BY <1>1, LatchTypes
<1>3. EngineTypes'
  BY <1>1, <1>2 DEF TypeInv, EngineTypes, EnginePCs
<1>4. PhaseInv'
  BY <1>1 DEF TypeInv, PhaseInv, Installing
<1>5. BoundTypes'
  BY <1>1 DEF TypeInv, BoundTypes
<1> QED
  BY <1>1, <1>3, <1>4, <1>5, StoreStill DEF TypeInv

LEMMA ReadTailStep ==
  ASSUME TypeInv, ReadTail
  PROVE  TypeInv'
<1>1. /\ UNCHANGED <<upstream, row, head, claims, log, last, flow, drains, starting, wake, reload, installed,
                     listed, prepared, page, upTo, dark, changes, triages, edits, faults>>
      /\ eng = "tail" /\ eng' = "list" /\ target' = flow /\ tail' = Len(log)
  BY DEF ReadTail, inbox, events, latches, paging, bounds
<1>2. tail' \in 0 .. Len(log) /\ target' \in Filters
  BY <1>1 DEF TypeInv, StoreTypes
<1>3. EngineTypes'
  BY <1>1, <1>2 DEF TypeInv, EngineTypes, EnginePCs
<1>4. PhaseInv'
  BY <1>1, <1>2 DEF TypeInv, PhaseInv, Installing
<1>5. BoundTypes'
  BY <1>1 DEF TypeInv, BoundTypes
<1> QED
  BY <1>1, <1>3, <1>4, <1>5, StoreStill DEF TypeInv

LEMMA ListItemsStep ==
  ASSUME TypeInv, ListItems
  PROVE  TypeInv'
<1>1. /\ UNCHANGED <<upstream, row, head, claims, log, last, flow, drains, starting, wake, reload, installed,
                     target, tail, prepared, page, upTo, dark, changes, triages, edits, faults>>
      /\ eng = "list" /\ eng' = "snapshots" /\ listed' \subseteq Items
  BY DEF ListItems, inbox, events, latches, paging, bounds, Unarchived
<1>2. prepared = {}
  BY <1>1 DEF TypeInv, PhaseInv
<1>3. EngineTypes'
  BY <1>1, <1>2 DEF TypeInv, EngineTypes, EnginePCs
<1>4. PhaseInv'
  BY <1>1 DEF TypeInv, PhaseInv, Installing
<1>5. BoundTypes'
  BY <1>1 DEF TypeInv, BoundTypes
<1> QED
  BY <1>1, <1>3, <1>4, <1>5, StoreStill DEF TypeInv

LEMMA PrepareStep ==
  ASSUME TypeInv, Prepare
  PROVE  TypeInv'
<1>1. /\ UNCHANGED <<upstream, row, head, claims, log, last, flow, drains, starting, wake, reload, installed,
                     target, tail, listed, page, upTo, dark, changes, triages, edits, faults>>
      /\ eng = "snapshots" /\ eng' = "activate" /\ prepared' \subseteq listed
  BY DEF Prepare, inbox, events, latches, paging, bounds
<1>3. EngineTypes'
  BY <1>1 DEF TypeInv, EngineTypes, EnginePCs
<1>4. PhaseInv'
  BY <1>1 DEF TypeInv, PhaseInv, Installing
<1>5. BoundTypes'
  BY <1>1 DEF TypeInv, BoundTypes
<1> QED
  BY <1>1, <1>3, <1>4, <1>5, StoreStill DEF TypeInv

\* What an activation that is not refused makes of the log.
LEMMA ActivateShape ==
  ASSUME TypeInv, Activate
  PROVE  /\ log' \in Seq(Entry)
         /\ \/ UNCHANGED log
            \/ /\ Len(log') = Len(log) - tail
               /\ \A i \in 1 .. Len(log') : log'[i] = log[tail + i] /\ tail + i \in 1 .. Len(log)
<1>1. log \in Seq(Entry) /\ Len(log) \in Nat /\ tail \in 0 .. Len(log)
  BY DEF TypeInv, StoreTypes, EngineTypes
<1>2. CASE log' = SubSeq(log, tail + 1, Len(log))
  <2>1. tail + 1 \in 1 .. Len(log) + 1 /\ Len(log) \in 0 .. Len(log)
    BY <1>1
  <2>2. /\ log' \in Seq(Entry)
        /\ Len(log') = IF tail + 1 <= Len(log) THEN Len(log) - (tail + 1) + 1 ELSE 0
        /\ \A i \in 1 .. Len(log') : log'[i] = log[(tail + 1) + i - 1] /\ (tail + 1) + i - 1 \in 1 .. Len(log)
    BY <1>1, <1>2, <2>1, PartOfSeq
  <2>3. Len(log') = Len(log) - tail
    BY <1>1, <2>2
  <2>4. ASSUME NEW i \in 1 .. Len(log') PROVE log'[i] = log[tail + i] /\ tail + i \in 1 .. Len(log)
    <3>1. (tail + 1) + i - 1 = tail + i
      BY <1>1
    <3> QED
      BY <2>2, <3>1
  <2> QED
    BY <2>2, <2>3, <2>4
<1>3. CASE UNCHANGED log
  BY <1>1, <1>3
<1> QED
  BY <1>2, <1>3 DEF Activate

LEMMA AfterInstallFacts ==
  ASSUME AfterInstall
  PROVE  /\ eng' \in {"wait", "drain"} /\ starting' = FALSE /\ target' = {} /\ tail' = 0 /\ listed' = {} /\ prepared' = {}
         /\ (starting => eng' = "wait") /\ (~starting => eng' = "drain")
  BY DEF AfterInstall

LEMMA ActivateStep ==
  ASSUME TypeInv, Activate
  PROVE  TypeInv'
<1>1. /\ UNCHANGED <<upstream, row, head, flow, drains, wake, reload, page, upTo, dark, changes, triages, edits, faults>>
      /\ eng = "activate" /\ eng' \in {"wait", "drain"} /\ starting' = FALSE
      /\ target' = {} /\ tail' = 0 /\ listed' = {} /\ prepared' = {}
  BY AfterInstallFacts DEF Activate, latches, paging, bounds
<1>2. /\ prepared \subseteq Items /\ page = <<>> /\ upTo = 0 /\ installed \in Filters \cup {NoFlow}
      /\ target \in Filters \cup {{}} /\ tail \in 0 .. Len(log)
  BY <1>1 DEF TypeInv, EngineTypes, PhaseInv
<1>3. claims' \subseteq Items /\ last' \in Entry
  BY <1>2, LatestType DEF Activate, TypeInv, StoreTypes
<1>4. StoreTypes'
  BY <1>1, <1>3, ActivateShape DEF TypeInv, StoreTypes
<1>5. installed' \in Filters \cup {NoFlow}
  <2>1. target \in Filters
    BY <1>1 DEF TypeInv, PhaseInv, Installing
  <2> QED
    BY <1>2, <2>1 DEF Activate
<1>6. EngineTypes'
  <2>1. Len(log') \in Nat
    BY ActivateShape
  <2>2. /\ tail' \in 0 .. Len(log') /\ upTo' \in 0 .. Len(log')
    BY <1>1, <1>2, <2>1
  <2> QED
    BY <1>1, <1>2, <1>5, <2>2 DEF TypeInv, EngineTypes, EnginePCs
<1>7. PhaseInv'
  BY <1>1, <1>2 DEF PhaseInv, Installing
<1>8. BoundTypes' /\ DrainTypes'
  BY <1>1 DEF TypeInv, BoundTypes, DrainTypes
<1> QED
  BY <1>4, <1>6, <1>7, <1>8 DEF TypeInv

LEMMA InstallFailsStep ==
  ASSUME TypeInv, InstallFails
  PROVE  TypeInv'
<1>1. /\ UNCHANGED <<upstream, row, head, claims, log, last, flow, drains, wake, reload, installed, page, upTo, changes, triages, edits>>
      /\ eng \in {"tail", "list", "snapshots", "activate"} /\ eng' \in {"wait", "drain"} /\ starting' = FALSE /\ dark' = TRUE
      /\ target' = {} /\ tail' = 0 /\ listed' = {} /\ prepared' = {}
  BY AfterInstallFacts DEF InstallFails, inbox, events, latches, paging
<1>2. tail' \in 0 .. Len(log)
  BY <1>1 DEF TypeInv, StoreTypes
<1>3. EngineTypes'
  BY <1>1, <1>2 DEF TypeInv, EngineTypes, EnginePCs
<1>4. PhaseInv'
  BY <1>1 DEF TypeInv, PhaseInv, Installing
<1>5. BoundTypes'
  BY <1>1, PipelineAssumption DEF InstallFails, TypeInv, BoundTypes
<1> QED
  BY <1>1, <1>3, <1>4, <1>5, StoreStill DEF TypeInv

\* A page reaches an unread row, and no further than the log.
LEMMA PageReach ==
  ASSUME TypeInv, Unread # {}
  PROVE  (CHOOSE i \in PageRows : \A j \in PageRows : j <= i) \in 1 .. Len(log)
<1>1. Len(log) \in Nat /\ Unread \subseteq 1 .. Len(log) /\ Unread \subseteq Nat
  BY DEF TypeInv, StoreTypes, Unread
<1>2. PageRows \subseteq Unread
  BY DEF PageRows
<1>3. PageRows # {}
  <2>1. PICK m \in Unread : \A n \in Unread : m <= n
    BY <1>1, LeastNatural
  <2>2. {j \in Unread : j < m} = {}
    <3>1. \A j \in Unread : m \in Nat /\ j \in Nat /\ m <= j
      BY <1>1, <2>1
    <3>2. \A j \in Unread : ~(j < m)
      BY <3>1
    <3> QED
      BY <3>2
  <2>3. Cardinality({j \in Unread : j < m}) < PageSize
    <3>1. Cardinality({}) = 0
      BY FS_EmptySet
    <3>2. 0 < PageSize
      BY PipelineAssumption
    <3> QED
      BY <2>2, <3>1, <3>2
  <2>4. m \in PageRows
    BY <2>3 DEF PageRows
  <2> QED
    BY <2>4
<1>4. PageRows \subseteq 0 .. Len(log)
  BY <1>1, <1>2
<1>5. \E i \in PageRows : \A j \in PageRows : j <= i
  BY <1>1, <1>3, <1>4, GreatestNatural
<1> QED
  BY <1>1, <1>2, <1>5

LEMMA ReadPageStep ==
  ASSUME TypeInv, ReadPage
  PROVE  TypeInv'
<1>1. /\ UNCHANGED <<upstream, row, head, claims, log, last, flow, drains, starting, wake, reload, installed,
                     target, tail, listed, prepared, changes, triages, edits, faults>>
      /\ eng = "drain" /\ eng' \in {"wait", "commit"}
  BY DEF ReadPage, inbox, events, latches, replay, bounds
<1>2. dark' \in BOOLEAN
  BY LatchTypes DEF ReadPage
<1>3. page' \in Seq(Entry) /\ upTo' \in 0 .. Len(log) /\ (eng' # "commit" => page' = <<>> /\ upTo' = 0)
  <2>1. CASE UNCHANGED <<page, upTo>>
    BY <1>1, <2>1 DEF TypeInv, EngineTypes, PhaseInv
  <2>2. CASE /\ eng' = "commit" /\ Unread # {}
             /\ upTo' = CHOOSE i \in PageRows : \A j \in PageRows : j <= i
             /\ page' = SubSeq(log, 1, upTo')
    <3>1. upTo' \in 1 .. Len(log) /\ log \in Seq(Entry) /\ Len(log) \in Nat
      BY <2>2, PageReach DEF TypeInv, StoreTypes
    <3>2. 1 \in 1 .. Len(log) + 1 /\ upTo' \in 0 .. Len(log)
      BY <3>1
    <3>3. page' \in Seq(Entry)
      BY <2>2, <3>1, <3>2, PartOfSeq
    <3> QED
      BY <2>2, <3>2, <3>3
  <2> QED
    BY <2>1, <2>2 DEF ReadPage, paging
<1>4. EngineTypes'
  BY <1>1, <1>2, <1>3 DEF TypeInv, EngineTypes, EnginePCs
<1>5. PhaseInv'
  BY <1>1, <1>3 DEF TypeInv, PhaseInv, Installing
<1>6. BoundTypes'
  BY <1>1 DEF TypeInv, BoundTypes
<1> QED
  BY <1>1, <1>4, <1>5, <1>6, StoreStill DEF TypeInv

\* An output mints a row with a payload the filter routes.
LEMMA MintedType ==
  ASSUME TypeInv, NEW k \in Outputs
  PROVE  k \in Items /\ Minted(k) \in Payloads
<1>1. page \in Seq(Entry) /\ Len(page) \in Nat /\ DOMAIN page = 1 .. Len(page)
  BY DEF TypeInv, EngineTypes
<1>2. PICK i \in DOMAIN page : k \in Routed(page[i], installed)
  BY DEF Outputs
<1>3. Routings(k) # {} /\ Routings(k) \subseteq Nat /\ Routings(k) \subseteq DOMAIN page
  BY <1>1, <1>2 DEF Routings
<1>4. \E m \in Routings(k) : \A j \in Routings(k) : m <= j
  BY <1>3, LeastNatural
<1> DEFINE first == CHOOSE m \in Routings(k) : \A j \in Routings(k) : m <= j
<1>5. first \in Routings(k)
  BY <1>4
<1> HIDE DEF first
<1>6. first \in DOMAIN page /\ k \in Routed(page[first], installed)
  BY <1>5 DEF Routings
<1>7. k \in Items /\ page[first] \in Entry /\ page[first].view[k] \in installed
  BY <1>1, <1>6 DEF Routed
<1>8. page[first].view[k] \in Payloads \cup {"absent"}
  BY <1>7 DEF Entry, Views
<1>9. page[first].view[k] \in Payloads
  BY <1>7, <1>8, PayloadFacts DEF TypeInv, EngineTypes
<1> QED
  BY <1>7, <1>9 DEF Minted, first

LEMMA CommitStep ==
  ASSUME TypeInv, Commit
  PROVE  TypeInv'
<1>1. /\ UNCHANGED <<upstream, head, flow, drains, starting, wake, reload, installed, target, tail, listed, prepared,
                     dark, changes, triages, edits, faults>>
      /\ eng = "commit" /\ eng' = "drain" /\ page' = <<>> /\ upTo' = 0
  BY DEF Commit, EndPage, latches, replay, bounds
<1>2. log \in Seq(Entry) /\ Len(log) \in Nat /\ upTo \in 0 .. Len(log) /\ page \in Seq(Entry)
  BY DEF TypeInv, StoreTypes, EngineTypes
<1>3. log' \in Seq(Entry)
  <2>1. upTo + 1 \in 1 .. Len(log) + 1 /\ Len(log) \in 0 .. Len(log)
    BY <1>2
  <2> QED
    BY <1>2, <2>1, PartOfSeq DEF Commit
<1>4. last' \in Entry
  <2>1. CASE Snapshots(page) = {}
    BY <2>1 DEF Commit, TypeInv, StoreTypes
  <2>2. CASE Snapshots(page) # {}
    <3>1. page[Newest(page)] \in Entry
      BY <1>2, <2>2, SnapshotPlaces
    <3> QED
      BY <2>2, <3>1 DEF Commit
  <2> QED
    BY <2>1, <2>2
<1>5. row' \in [Items -> [payload : Payloads \cup {"absent"}, archived : Actors]]
  <2>1. \A k \in Items : (IF k \in Outputs /\ ~Exists(k) THEN [payload |-> Minted(k), archived |-> "no"] ELSE row[k])
                          \in [payload : Payloads \cup {"absent"}, archived : Actors]
    BY MintedType DEF TypeInv, StoreTypes, Actors
  <2> QED
    BY <2>1 DEF Commit
<1>6. claims' \subseteq Items
  BY MintedType DEF Commit, TypeInv, StoreTypes
<1>7. StoreTypes'
  BY <1>1, <1>3, <1>4, <1>5, <1>6 DEF TypeInv, StoreTypes
<1>8. EngineTypes'
  <2>1. tail = 0
    BY <1>1 DEF TypeInv, PhaseInv, Installing
  <2>2. Len(log') \in Nat
    BY <1>3
  <2>3. tail' \in 0 .. Len(log') /\ upTo' \in 0 .. Len(log') /\ page' \in Seq(Entry)
    BY <1>1, <2>1, <2>2
  <2> QED
    BY <1>1, <2>3 DEF TypeInv, EngineTypes, EnginePCs
<1>9. PhaseInv'
  BY <1>1 DEF TypeInv, PhaseInv, Installing
<1>10. BoundTypes' /\ DrainTypes'
  BY <1>1 DEF TypeInv, BoundTypes, DrainTypes
<1> QED
  BY <1>7, <1>8, <1>9, <1>10 DEF TypeInv

LEMMA CommitFailsStep ==
  ASSUME TypeInv, CommitFails
  PROVE  TypeInv'
<1>1. /\ UNCHANGED <<upstream, row, head, claims, log, last, flow, drains, starting, wake, reload, installed,
                     target, tail, listed, prepared, changes, triages, edits>>
      /\ eng = "commit" /\ eng' = "wait" /\ page' = <<>> /\ upTo' = 0 /\ dark' = TRUE
  BY DEF CommitFails, EndPage, inbox, events, latches, replay
<1>2. upTo' \in 0 .. Len(log) /\ page' \in Seq(Entry)
  BY <1>1 DEF TypeInv, StoreTypes
<1>3. EngineTypes'
  BY <1>1, <1>2 DEF TypeInv, EngineTypes, EnginePCs
<1>4. PhaseInv'
  BY <1>1 DEF TypeInv, PhaseInv, Installing
<1>5. BoundTypes'
  BY <1>1, PipelineAssumption DEF CommitFails, TypeInv, BoundTypes
<1> QED
  BY <1>1, <1>3, <1>4, <1>5, StoreStill DEF TypeInv

LEMMA CrashStep ==
  ASSUME TypeInv, CrashRestart
  PROVE  TypeInv'
<1>1. /\ UNCHANGED <<upstream, row, head, claims, log, last, flow, changes, triages, edits>>
      /\ drains' = [d \in Drains |-> Idle]
      /\ eng' = "tail" /\ starting' = TRUE /\ wake' = FALSE /\ reload' = FALSE /\ installed' = NoFlow
      /\ target' = {} /\ tail' = 0 /\ listed' = {} /\ prepared' = {} /\ page' = <<>> /\ upTo' = 0 /\ dark' = FALSE
  BY DEF CrashRestart, EndPage, inbox, events
<1>2. StoreTypes' /\ Len(log) \in Nat
  BY <1>1 DEF TypeInv, StoreTypes
<1>3. DrainTypes'
  BY <1>1, IdleType DEF DrainTypes
<1>4. tail' \in 0 .. Len(log') /\ upTo' \in 0 .. Len(log') /\ page' \in Seq(Entry)
  BY <1>1, <1>2
<1>5. EngineTypes'
  BY <1>1, <1>4 DEF EngineTypes, EnginePCs
<1>6. PhaseInv'
  BY <1>1 DEF PhaseInv, Installing
<1>7. BoundTypes'
  BY <1>1, PipelineAssumption DEF CrashRestart, TypeInv, BoundTypes
<1> QED
  BY <1>2, <1>3, <1>5, <1>6, <1>7 DEF TypeInv

LEMMA InitTypes == Init => TypeInv
<1> SUFFICES ASSUME Init PROVE TypeInv
  OBVIOUS
<1>1. /\ upstream = Nothing /\ row = [k \in Items |-> [payload |-> "absent", archived |-> "no"]]
      /\ head = Nothing /\ claims = {} /\ log = <<>> /\ last = NoSnapshot /\ flow = {"open"}
      /\ drains = [d \in Drains |-> Idle]
      /\ eng = "tail" /\ starting = TRUE /\ wake = FALSE /\ reload = FALSE /\ installed = NoFlow
      /\ target = {} /\ tail = 0 /\ listed = {} /\ prepared = {} /\ page = <<>> /\ upTo = 0 /\ dark = FALSE
      /\ changes = 0 /\ triages = 0 /\ edits = 0 /\ faults = 0
  BY DEF Init
<1>2. last \in Entry
  BY <1>1, EntryType, NothingView DEF NoSnapshot
<1>3. StoreTypes
  BY <1>1, <1>2, NothingView, PipelineAssumption DEF StoreTypes, Actors
<1>4. DrainTypes
  BY <1>1, IdleType DEF DrainTypes
<1>5. tail \in 0 .. Len(log) /\ upTo \in 0 .. Len(log) /\ page \in Seq(Entry)
  BY <1>1
<1>6. EngineTypes
  BY <1>1, <1>5 DEF EngineTypes, EnginePCs
<1>7. PhaseInv
  BY <1>1 DEF PhaseInv, Installing
<1>8. BoundTypes
  BY <1>1, PipelineAssumption DEF BoundTypes
<1> QED
  BY <1>3, <1>4, <1>6, <1>7, <1>8 DEF TypeInv

LEMMA StillStep ==
  ASSUME TypeInv, UNCHANGED vars
  PROVE  TypeInv'
<1>1. StoreTypes' /\ DrainTypes' /\ BoundTypes'
  BY DEF vars, TypeInv, StoreTypes, DrainTypes, BoundTypes
<1>2. EngineTypes' /\ PhaseInv'
  BY DEF vars, TypeInv, EngineTypes, PhaseInv, Installing
<1> QED
  BY <1>1, <1>2 DEF TypeInv

LEMMA NextTypes ==
  ASSUME TypeInv, [Next]_vars
  PROVE  TypeInv'
<1>1. ASSUME NEW d \in Drains, DrainBegin(d) \/ Progress(d) \/ DrainFails(d) PROVE TypeInv'
  BY <1>1, DrainBeginStep, IngestStep, AppendSnapshotStep, DrainEndStep DEF Progress
<1>2. CASE Engine
  BY <1>2, WaitStep, ReadTailStep, ListItemsStep, PrepareStep, ActivateStep, ReadPageStep, CommitStep DEF Engine
<1>3. ASSUME NEW k \in Items, Upstream(k) \/ ToggleArchived(k) PROVE TypeInv'
  BY <1>3, UpstreamStep, ToggleStep
<1> QED
  BY <1>1, <1>2, <1>3, InstallFailsStep, CommitFailsStep, EditFlowStep, PruneStep, CrashStep, StillStep DEF Next

LEMMA TypesHold == Spec => []TypeInv
  BY InitTypes, NextTypes, PTL DEF Spec

\* The types of the database, the log, the drains and the engine
\* (stores.EventLogStore, ingest.Producer, runtime.Engine).
THEOREM TypeCorrect == Spec => []TypeOK
<1>1. TypeInv => TypeOK
  BY DEF TypeInv, DrainTypes, TypeOK
<1> QED
  BY TypesHold, <1>1, PTL

-----------------------------------------------------------------------------
(* Change detection                                                        *)

LEMMA InitHead == Init => HeadMatchesRow
  BY DEF Init, Nothing, HeadMatchesRow

\* A step that moves no head and no payload.
LEMMA HeadStill ==
  ASSUME HeadMatchesRow, UNCHANGED <<row, head>>
  PROVE  HeadMatchesRow'
  BY DEF HeadMatchesRow

LEMMA HeadStep ==
  ASSUME TypeInv, HeadMatchesRow, [Next]_vars
  PROVE  HeadMatchesRow'
<1>0. /\ head \in [Items -> Payloads \cup {"absent"}]
      /\ row \in [Items -> [payload : Payloads \cup {"absent"}, archived : Actors]]
  BY DEF TypeInv, StoreTypes, Views
<1>1. ASSUME NEW d \in Drains, NEW k \in Items, IngestObservation(d, k) PROVE HeadMatchesRow'
  <2> DEFINE cur == drains[d].fetched[k]
  <2>1. CASE head[k] # cur
    <3>1. /\ head' = [head EXCEPT ![k] = cur]
          /\ \A j \in Items \ {k} : row'[j] = row[j]
          /\ row'[k].payload = cur
      BY <1>0, <1>1, <2>1 DEF IngestObservation
    <3> HIDE DEF cur
    <3> QED
      BY <1>0, <3>1 DEF HeadMatchesRow
  <2>2. CASE head[k] = cur
    BY <1>1, <2>2, HeadStill DEF IngestObservation
  <2> QED
    BY <2>1, <2>2
<1>2. ASSUME NEW k \in Items, ToggleArchived(k) PROVE HeadMatchesRow'
  <2>1. head' = head /\ \A j \in Items : row'[j].payload = row[j].payload
    BY <1>0, <1>2 DEF ToggleArchived
  <2> QED
    BY <2>1 DEF HeadMatchesRow
<1>3. CASE Commit
  <2>1. head' = head /\ \A k \in Items : Exists(k) => row'[k] = row[k]
    BY <1>3 DEF Commit
  <2> QED
    BY <2>1 DEF HeadMatchesRow, Exists
<1>4. ASSUME NEW expired \in SUBSET Items, Prune(expired) PROVE HeadMatchesRow'
  <2>1. \A k \in Items : /\ k \in expired => head'[k] = "absent"
                         /\ k \notin expired => row'[k] = row[k] /\ (head'[k] = head[k] \/ head'[k] = "absent")
    BY <1>4 DEF Prune, Orphans
  <2> QED
    BY <2>1 DEF HeadMatchesRow
<1>5. ASSUME NEW d \in Drains, DrainBegin(d) \/ AppendSnapshot(d) \/ Publish(d) \/ DrainFails(d) PROVE HeadMatchesRow'
  BY <1>5, HeadStill DEF DrainBegin, AppendSnapshot, Publish, DrainFails, inbox
<1>6. CASE Engine \/ InstallFails \/ CommitFails
  BY <1>3, <1>6, HeadStill DEF Engine, EngineReload, EngineWake, ReadTail, ListItems, Prepare, Activate, ReadPage,
     InstallFails, CommitFails, inbox
<1>7. CASE (\E k \in Items : Upstream(k)) \/ (\E f \in Filters : EditFlow(f)) \/ CrashRestart \/ UNCHANGED vars
  BY <1>7, HeadStill DEF Upstream, EditFlow, CrashRestart, inbox, vars
<1> QED
  BY <1>1, <1>2, <1>4, <1>5, <1>6, <1>7 DEF Next, Progress

\* An observation that change detection drops is one the inbox already shows,
\* and a pruned item leaves no head behind (InboxItemStore.IngestObservation,
\* EventLogStore.Commit, DB.Prune).
THEOREM HeadMatchesRowHolds == Spec => []HeadMatchesRow
  BY TypesHold, InitHead, HeadStep, PTL DEF Spec

-----------------------------------------------------------------------------
(* Replay                                                                  *)

\* A replay leaves the membership of an archived item as it is: what it takes
\* back and what it grants is of items that are in the inbox when the
\* transaction runs (EventLogStore.ActivateReplay).
THEOREM ReplayFreezesArchivedHolds == Spec => ReplayFreezesArchived
<1> DEFINE Frozen == eng = "activate" /\ eng' # "activate" => claims' \cap Archived = claims \cap Archived
<1>1. ASSUME [Next]_vars, eng = "activate", eng' # "activate" PROVE claims' \cap Archived = claims \cap Archived
  <2>1. CASE Activate
    <3>1. CASE Claimable /\ claims' = (claims \ Unarchived) \cup prepared
      BY <3>1 DEF Claimable, Archived, Unarchived
    <3>2. CASE UNCHANGED claims
      BY <3>2
    <3> QED
      BY <2>1, <3>1, <3>2 DEF Activate
  <2>2. CASE InstallFails \/ CrashRestart
    BY <2>2 DEF InstallFails, CrashRestart, inbox
  <2>3. CASE EngineReload \/ EngineWake \/ ReadTail \/ ListItems \/ Prepare \/ ReadPage \/ Commit \/ CommitFails
    BY <1>1, <2>3 DEF EngineReload, EngineWake, ReadTail, ListItems, Prepare, ReadPage, Commit, CommitFails
  <2>4. ASSUME NEW d \in Drains, DrainBegin(d) \/ Progress(d) \/ DrainFails(d) PROVE UNCHANGED eng
    BY <2>4 DEF DrainBegin, Progress, IngestObservation, AppendSnapshot, Publish, DrainFails, engine
  <2>5. ASSUME NEW k \in Items, Upstream(k) \/ ToggleArchived(k) PROVE UNCHANGED eng
    BY <2>5 DEF Upstream, ToggleArchived, engine
  <2>6. ASSUME NEW f \in Filters, EditFlow(f) PROVE UNCHANGED eng
    BY <2>6 DEF EditFlow, engine
  <2>7. ASSUME NEW expired \in SUBSET Items, Prune(expired) PROVE UNCHANGED eng
    BY <2>7 DEF Prune, engine
  <2>8. CASE UNCHANGED vars
    BY <2>8 DEF vars
  <2> QED
    BY <1>1, <2>1, <2>2, <2>3, <2>4, <2>5, <2>6, <2>7, <2>8 DEF Next, Engine
<1>2. [Next]_vars => [Frozen]_vars
  BY <1>1
<1> HIDE DEF Frozen
<1>3. Spec => [][Frozen]_vars
  BY <1>2, PTL DEF Spec
<1> QED
  BY <1>3 DEF Frozen, ReplayFreezesArchived

-----------------------------------------------------------------------------
(* Wake-ups                                                                *)

\* Who announces an unread row, or will.
Writing   == \E d \in Drains : drains[d].pc # "idle" /\ drains[d].wrote
Announced == wake \/ reload \/ dark \/ Writing

\* A start consumes the log through the tail it read and returns without a
\* drain: what was appended past that tail has its announcer.
StartAnnounced == starting /\ Installing /\ (\E i \in Unread : i > tail) => Announced
WaitAnnounced  == eng = "wait" /\ installed # NoFlow /\ Unread # {} => Announced

WakeInv == StartAnnounced /\ WaitAnnounced

\* A step that leaves the engine where it is, and either keeps an announcer
\* for every unread row or adds none.
LEMMA AnnouncedStep ==
  ASSUME TypeInv, WakeInv, UNCHANGED <<eng, starting, installed, tail>>,
         Announced => Announced', Announced' \/ Unread' \subseteq Unread
  PROVE  WakeInv'
  BY DEF WakeInv, StartAnnounced, WaitAnnounced, Installing

LEMMA DrainWakes ==
  ASSUME TypeInv, WakeInv, NEW d \in Drains, DrainBegin(d) \/ Progress(d) \/ DrainFails(d)
  PROVE  WakeInv'
<1>0. drains \in [Drains -> Drain]
  BY DEF TypeInv, DrainTypes
<1>1. UNCHANGED <<eng, starting, installed, tail, reload>>
  BY DEF DrainBegin, Progress, IngestObservation, AppendSnapshot, Publish, DrainFails, engine, latches
<1>2. CASE Publish(d) \/ DrainFails(d)
  <2>1. UNCHANGED log /\ drains' = [drains EXCEPT ![d] = Idle]
        /\ (wake => wake') /\ (dark => dark') /\ (wake' \/ (drains[d].wrote => dark'))
    <3>1. CASE Publish(d)
      BY <3>1 DEF Publish, events
    <3>2. CASE DrainFails(d)
      <4>1. UNCHANGED <<log, wake>> /\ drains' = [drains EXCEPT ![d] = Idle]
        BY <3>2 DEF DrainFails, events, latches
      <4>2. dark' = (dark \/ drains[d].wrote)
        BY <3>2 DEF DrainFails
      <4>3. (dark => dark') /\ (drains[d].wrote => dark')
        BY <4>2, Zenon
      <4> QED
        BY <4>1, <4>3
    <3> QED
      BY <1>2, <3>1, <3>2
  <2>2. Writing => Writing' \/ wake' \/ dark'
    <3>1. \A c \in Drains \ {d} : drains'[c] = drains[c]
      BY <1>0, <2>1
    <3> QED
      BY <2>1, <3>1 DEF Writing
  <2>3. Announced => Announced'
    BY <1>1, <2>1, <2>2 DEF Announced
  <2> QED
    BY <1>1, <2>1, <2>3, AnnouncedStep DEF Unread
<1>3. CASE DrainBegin(d)
  <2>1. UNCHANGED <<log, wake, dark>> /\ drains[d].pc = "idle" /\ \A c \in Drains \ {d} : drains'[c] = drains[c]
    BY <1>0, <1>3 DEF DrainBegin, events, latches
  <2>2. Announced => Announced'
    BY <1>1, <2>1 DEF Announced, Writing
  <2> QED
    BY <1>1, <2>1, <2>2, AnnouncedStep DEF Unread
<1>4. CASE AppendSnapshot(d)
  <2>1. UNCHANGED <<wake, dark>> /\ drains'[d].pc = "publish" /\ drains'[d].wrote
    BY <1>0, <1>4 DEF AppendSnapshot, latches, Drain
  <2>2. Announced'
    BY <2>1 DEF Announced, Writing
  <2> QED
    BY <1>1, <2>2, AnnouncedStep
<1>5. ASSUME NEW k \in Items, IngestObservation(d, k) PROVE WakeInv'
  <2> DEFINE wrote == head[k] # drains[d].fetched[k]
  <2>1. /\ UNCHANGED <<wake, dark>> /\ drains[d].pc = "ingest" /\ drains'[d].pc = "ingest"
        /\ (drains'[d].wrote <=> drains[d].wrote \/ wrote)
        /\ \A c \in Drains \ {d} : drains'[c] = drains[c]
        /\ (~wrote => UNCHANGED log)
    BY <1>0, <1>5 DEF IngestObservation, latches, Drain
  <2> HIDE DEF wrote
  <2>2. Announced => Announced'
    BY <1>1, <2>1 DEF Announced, Writing
  <2>3. wrote => Announced'
    BY <2>1 DEF Announced, Writing
  <2>4. ~wrote => Unread' \subseteq Unread
    BY <2>1 DEF Unread
  <2> QED
    BY <1>1, <2>2, <2>3, <2>4, AnnouncedStep
<1> QED
  BY <1>2, <1>3, <1>4, <1>5 DEF Progress

LEMMA EngineWakes ==
  ASSUME TypeInv, WakeInv, Engine \/ InstallFails \/ CommitFails \/ CrashRestart
  PROVE  WakeInv'
<1>1. CASE EngineReload \/ EngineWake
  <2>1. eng' \in {"tail", "drain"}
    BY <1>1 DEF EngineReload, EngineWake
  <2> QED
    BY <2>1 DEF WakeInv, StartAnnounced, WaitAnnounced, Installing
<1>2. CASE ReadTail
  <2>1. eng' = "list" /\ tail' = Len(log) /\ UNCHANGED log /\ log \in Seq(Entry)
    BY <1>2 DEF ReadTail, events, TypeInv, StoreTypes
  <2>2. \A i \in Unread' : ~(i > tail')
    BY <2>1 DEF Unread
  <2> QED
    BY <2>1, <2>2 DEF WakeInv, StartAnnounced, WaitAnnounced
<1>3. CASE ListItems \/ Prepare
  <2>1. /\ UNCHANGED <<log, drains, starting, wake, reload, dark, tail>> /\ Installing /\ Installing' /\ eng' # "wait"
    BY <1>3 DEF ListItems, Prepare, events, latches, Installing
  <2> QED
    BY <2>1 DEF WakeInv, StartAnnounced, WaitAnnounced, Announced, Writing, Unread
<1>4. CASE Activate
  <2>1. UNCHANGED <<drains, wake, reload, dark>> /\ eng = "activate" /\ Installing /\ ~Installing'
    BY <1>4, AfterInstallFacts DEF Activate, latches, Installing
  <2>2. StartAnnounced'
    BY <2>1 DEF StartAnnounced
  <2>3. WaitAnnounced'
    <3> SUFFICES ASSUME eng' = "wait", installed' # NoFlow, Unread' # {} PROVE Announced
      BY <2>1 DEF WaitAnnounced, Announced, Writing
    <3>1. starting
      BY <1>4, AfterInstallFacts DEF Activate
    <3>2. installed = NoFlow
      BY <3>1 DEF TypeInv, PhaseInv
    <3>3. Claimable
      BY <1>4, <3>2 DEF Activate
    <3>4. log' = SubSeq(log, tail + 1, Len(log))
      BY <1>4, <3>3 DEF Activate
    <3>5. /\ log \in Seq(Entry) /\ Len(log) \in Nat /\ tail \in 0 .. Len(log)
      BY DEF TypeInv, StoreTypes, EngineTypes
    <3>6. /\ Len(log') \in Nat /\ DOMAIN log' = 1 .. Len(log')
          /\ \A i \in 1 .. Len(log') : log'[i] = log[tail + i] /\ tail + i \in 1 .. Len(log)
      <4>1. tail + 1 \in 1 .. Len(log) + 1 /\ Len(log) \in 0 .. Len(log)
        BY <3>5
      <4>2. /\ log' \in Seq(Entry)
            /\ \A i \in 1 .. Len(log') : log'[i] = log[(tail + 1) + i - 1] /\ (tail + 1) + i - 1 \in 1 .. Len(log)
        BY <3>4, <3>5, <4>1, PartOfSeq
      <4>3. \A i \in 1 .. Len(log') : (tail + 1) + i - 1 = tail + i
        BY <3>5
      <4> QED
        BY <4>2, <4>3
    <3>7. PICK i \in 1 .. Len(log') : log'[i].kind # "pruned"
      BY <3>6 DEF Unread
    <3>8. tail + i \in Unread /\ tail + i > tail
      BY <3>5, <3>6, <3>7 DEF Unread
    <3> QED
      BY <2>1, <3>1, <3>8 DEF WakeInv, StartAnnounced
  <2> QED
    BY <2>2, <2>3 DEF WakeInv
<1>5. CASE InstallFails \/ CommitFails
  <2>1. dark'
    BY <1>5 DEF InstallFails, CommitFails
  <2> QED
    BY <2>1 DEF WakeInv, StartAnnounced, WaitAnnounced, Announced
<1>6. CASE ReadPage
  <2>1. /\ UNCHANGED <<log, installed>> /\ eng' \in {"wait", "commit"}
        /\ (eng' = "wait" => installed = NoFlow \/ Unread = {})
    BY <1>6 DEF ReadPage, events
  <2> QED
    BY <2>1 DEF WakeInv, StartAnnounced, WaitAnnounced, Installing, Unread
<1>7. CASE Commit \/ CrashRestart
  <2>1. eng' \in {"drain", "tail"}
    BY <1>7 DEF Commit, CrashRestart
  <2> QED
    BY <2>1 DEF WakeInv, StartAnnounced, WaitAnnounced, Installing
<1> QED
  BY <1>1, <1>2, <1>3, <1>4, <1>5, <1>6, <1>7 DEF Engine

LEMMA NextWakes ==
  ASSUME TypeInv, WakeInv, [Next]_vars
  PROVE  WakeInv'
<1>1. ASSUME NEW k \in Items, Upstream(k) \/ ToggleArchived(k) PROVE WakeInv'
  <2>1. UNCHANGED <<log, drains, eng, starting, installed, tail, wake, reload, dark>>
    BY <1>1 DEF Upstream, ToggleArchived, events, latches, engine
  <2> QED
    BY <2>1, AnnouncedStep DEF Announced, Writing, Unread
<1>2. ASSUME NEW f \in Filters, EditFlow(f) PROVE WakeInv'
  <2>1. UNCHANGED <<eng, starting, installed, tail>> /\ reload'
    BY <1>2 DEF EditFlow, engine
  <2> QED
    BY <2>1, AnnouncedStep DEF Announced
<1>3. ASSUME NEW expired \in SUBSET Items, Prune(expired) PROVE WakeInv'
  <2>1. UNCHANGED <<drains, eng, starting, installed, tail, wake, reload, dark>>
    BY <1>3 DEF Prune, latches, engine
  <2>2. Unread' \subseteq Unread
    BY <1>3, PruneShape DEF Unread
  <2> QED
    BY <2>1, <2>2, AnnouncedStep DEF Announced, Writing
<1>4. CASE UNCHANGED vars
  BY <1>4, AnnouncedStep DEF vars, Announced, Writing, Unread
<1> QED
  BY <1>1, <1>2, <1>3, <1>4, DrainWakes, EngineWakes DEF Next

LEMMA InitWakes == Init => WakeInv
  BY DEF Init, WakeInv, StartAnnounced, WaitAnnounced, Installing

\* Rows an idle engine has not read are announced by a latch that is set, by a
\* drain that will set it, or were left by a failure (runtime.Engine.Wake,
\* ingest.Producer.tick, runtime.Engine.drain).
THEOREM NoLostWakeHolds == Spec => []NoLostWake
<1>1. WakeInv => NoLostWake
  BY DEF WakeInv, WaitAnnounced, Announced, Writing, NoLostWake
<1> QED
  BY TypesHold, InitWakes, NextWakes, <1>1, PTL DEF Spec

=============================================================================
