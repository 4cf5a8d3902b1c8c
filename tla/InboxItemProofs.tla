--------------------------- MODULE InboxItemProofs ---------------------------
(***************************************************************************)
(* What InboxItem promises, for any number of windows, revisions and rows, *)
(* and under every resurface policy.                                       *)
(***************************************************************************)
EXTENDS InboxItem, TLAPS

USE DEF Payloads, Actors, Attentions, Policies, Reasons

\* The triage operators return archive actors and flags.
LEMMA TriageTypes ==
    ASSUME NEW a \in Actors, NEW u \in BOOLEAN, NEW t \in {"entered", "left", "none"},
           NEW g \in Attentions, NEW p \in Policies
    PROVE  ArchivedAfter(a, t, g, p) \in Actors /\ UnreadAfter(u, a, t, g, p) \in BOOLEAN
BY DEF ArchivedAfter, UnreadAfter, Resurfaces

\* A transition is one of three.
LEMMA TransitionTypes ==
    ASSUME NEW s, NEW c
    PROVE  Transition(s, c) \in {"entered", "left", "none"}
BY DEF Transition

\* An archive reason is one of three.
LEMMA ReasonTypes ==
    ASSUME row \in Rows, NEW a \in Actors
    PROVE  ReasonAfter(a) \in Reasons
BY DEF ReasonAfter, Rows

\* An insert gives the row a fresh id, and the windows keep their copies.
LEMMA InsertSafe ==
    ASSUME TypeOK, IInv, NEW s \in Payloads, NEW u \in BOOLEAN, Insert(s, u)
    PROVE  /\ row' \in Rows /\ nextId' \in 1 .. MaxRows + 1 /\ copy' \in [Windows -> Rows]
           /\ IInv'
<1>1. row' \in Rows /\ nextId' \in 1 .. MaxRows + 1 /\ copy' \in [Windows -> Rows]
  <2>1. row' = [id |-> nextId, revision |-> 1, state |-> s,
                unread |-> u, archived |-> "no", reason |-> "none", ignored |-> FALSE]
    BY DEF Insert, NoRow
  <2>2. nextId \in 1 .. MaxRows /\ nextId' = nextId + 1 /\ copy' = copy /\ 1 \in 0 .. MaxRevision
    BY ItemAssumption DEF Insert, TypeOK, ItemAssumption
  <2>3. nextId \in 0 .. MaxRows /\ nextId' \in 1 .. MaxRows + 1
    BY <2>2, ItemAssumption DEF ItemAssumption
  <2> QED
    BY <2>1, <2>2, <2>3 DEF TypeOK, Rows
<1>2. row'.id = nextId /\ nextId' = nextId + 1 /\ copy' = copy /\ nextId \in Nat \ {0}
  BY DEF Insert, TypeOK, Rows, NoRow
<1>3. row'.archived = "no" /\ row'.reason = "none"
  BY DEF Insert, NoRow
<1>4. \A w \in Windows : copy[w].id < nextId /\ copy[w].id \in Nat
  BY DEF IInv, CopyInv, TypeOK, Rows
<1> QED
  BY <1>1, <1>2, <1>3, <1>4 DEF IInv, CopyInv, NoLostUpdate, ReasonMatchesActor

\* An update keeps the row's id and makes every copy it is not handed to
\* older than the row.
LEMMA UpdateSafe ==
    ASSUME TypeOK, IInv,
           NEW v \in Rows, v.id = row.id, Update(v),
           v.archived = "no" <=> v.reason = "none",
           v.archived = "manual" <=> v.reason = "manual",
           \/ copy' = copy
           \/ \E w \in Windows : copy' = [copy EXCEPT ![w] = row']
    PROVE  /\ row' \in Rows /\ nextId' \in 1 .. MaxRows + 1 /\ copy' \in [Windows -> Rows]
           /\ IInv'
<1>1. /\ row' = [v EXCEPT !.revision = row.revision + 1] /\ nextId' = nextId
      /\ row.revision \in Nat /\ row.revision < MaxRevision /\ row.id # 0
  BY DEF Update, Exists, TypeOK, Rows
<1>2. row' \in Rows
  BY ItemAssumption, <1>1 DEF Rows, ItemAssumption
<1>3. /\ row'.id = row.id /\ row'.revision = row.revision + 1
      /\ row'.archived = v.archived /\ row'.reason = v.reason
  BY <1>1 DEF Rows
<1>4. nextId' \in 1 .. MaxRows + 1 /\ copy' \in [Windows -> Rows]
  BY <1>1, <1>2 DEF TypeOK
<1>5. ASSUME NEW w \in Windows
      PROVE  copy'[w] = row' \/ copy'[w] = copy[w]
  BY DEF TypeOK
<1>6. ASSUME NEW w \in Windows
      PROVE  copy[w].id = row.id => copy[w].revision <= row.revision /\ copy[w].revision \in Nat
  BY DEF IInv, CopyInv, TypeOK, Rows
<1>7. NoLostUpdate'
  BY <1>1, <1>3, <1>5, <1>6 DEF NoLostUpdate
<1>8. CopyInv'
  <2>1. ASSUME NEW w \in Windows
        PROVE  /\ copy'[w].id < nextId'
               /\ copy'[w].id = row'.id => copy'[w].revision <= row'.revision
               /\ copy'[w].id = 0 => copy'[w] = NoRow
    <3>1. CASE copy'[w] = row'
      BY <3>1, <1>1, <1>3 DEF IInv, CopyInv
    <3>2. CASE copy'[w] = copy[w]
      BY <3>2, <1>1, <1>3, <1>6 DEF IInv, CopyInv
    <3> QED
      BY <3>1, <3>2, <1>5
  <2> QED
    BY <2>1, <1>1, <1>3 DEF IInv, CopyInv
<1>9. ReasonMatchesActor'
  BY <1>3 DEF ReasonMatchesActor
<1> QED
  BY <1>2, <1>4, <1>7, <1>8, <1>9 DEF IInv

\* The initial state satisfies the invariant.
LEMMA InitSafe == Init => TypeOK /\ IInv
BY ItemAssumption DEF ItemAssumption, Init, TypeOK, Rows, NoRow, IInv, NoLostUpdate, CopyInv, ReasonMatchesActor

\* Every step preserves it.
LEMMA StepSafe == TypeOK /\ IInv /\ [Next]_vars => TypeOK' /\ IInv'
<1> SUFFICES ASSUME TypeOK, IInv, [Next]_vars
    PROVE TypeOK' /\ IInv'
  OBVIOUS
<1>a. row \in Rows /\ (row.archived = "no" <=> row.reason = "none")
      /\ (row.archived = "manual" <=> row.reason = "manual")
  BY DEF TypeOK, IInv, ReasonMatchesActor
<1>1. ASSUME NEW s \in Payloads, Mint(s)
      PROVE  TypeOK' /\ IInv'
  BY <1>1, InsertSafe DEF Mint, TypeOK
<1>2. ASSUME NEW s \in Payloads, NEW g \in Attentions, Observe(s, g)
      PROVE  TypeOK' /\ IInv'
  <2> DEFINE t == Transition(row.state, s)
             archived == ArchivedAfter(row.archived, t, g, Policy)
             unread == UnreadAfter(row.unread, row.archived, t, g, Policy)
             values == [row EXCEPT !.state = s, !.unread = unread,
                                   !.archived = archived, !.reason = ReasonAfter(archived)]
  <2>1. archived \in Actors /\ unread \in BOOLEAN
    BY ItemAssumption, <1>a, TriageTypes, TransitionTypes DEF ItemAssumption, Rows
  <2>2. ReasonAfter(archived) \in Reasons
    BY <2>1, <1>a, ReasonTypes
  <2>3. \/ Insert(s, unread)
        \/ Update(values) /\ copy' = copy
    BY <1>2 DEF Observe
  <2>4. writer' \in {"window", "source", "flow", "retention"}
    BY <1>2 DEF Observe
  <2>5. CASE Insert(s, unread)
    <3> HIDE DEF unread
    <3> QED
      BY <2>5, <2>1, <2>4, InsertSafe DEF TypeOK
  <2>6. CASE Update(values) /\ copy' = copy
    <3>1. /\ archived = "no" <=> ReasonAfter(archived) = "none"
          /\ archived = "manual" <=> ReasonAfter(archived) = "manual"
      <4>1. archived = "manual" /\ row.archived # "no" => row.archived = "manual"
        BY <1>a DEF ArchivedAfter, Rows
      <4>2. archived = "system" /\ row.archived # "no" => row.archived = "system"
        BY <1>a DEF ArchivedAfter, Rows
      <4> HIDE DEF archived
      <4> QED
        BY <4>1, <4>2, <2>1, <1>a DEF ReasonAfter, Rows
    <3> HIDE DEF archived, unread
    <3>2. values \in Rows /\ values.id = row.id
      BY <2>1, <2>2, <1>a DEF Rows
    <3>3. values.archived = archived /\ values.reason = ReasonAfter(archived)
      BY <1>a DEF Rows
    <3> HIDE DEF values
    <3> QED
      BY <2>6, <2>4, <3>1, <3>2, <3>3, UpdateSafe DEF TypeOK
  <2> QED
    BY <2>3, <2>5, <2>6
<1>3. ASSUME NEW w \in Windows, Read(w)
      PROVE  TypeOK' /\ IInv'
  BY <1>3 DEF Read, TypeOK, IInv, NoLostUpdate, CopyInv, ReasonMatchesActor, Rows
<1>4. ASSUME NEW w \in Windows, NEW v \in Rows, v.id = row.id, Guarded(w, v),
             v.archived = "no" <=> v.reason = "none",
             v.archived = "manual" <=> v.reason = "manual"
      PROVE  TypeOK' /\ IInv'
  <2>1. Update(v) /\ copy' = [copy EXCEPT ![w] = row'] /\ writer' = "window"
    BY <1>4 DEF Guarded
  <2> QED
    BY <2>1, <1>4, UpdateSafe DEF TypeOK
<1>5. ASSUME NEW w \in Windows, NEW u \in BOOLEAN, SetUnread(w, u)
      PROVE  TypeOK' /\ IInv'
  <2> DEFINE v == [row EXCEPT !.unread = u]
  <2>1. v \in Rows /\ v.id = row.id /\ v.archived = row.archived /\ v.reason = row.reason
    BY <1>a DEF Rows
  <2>2. Guarded(w, v)
    BY <1>5 DEF SetUnread
  <2> HIDE DEF v
  <2> QED
    BY <2>1, <2>2, <1>a, <1>4
<1>6. ASSUME NEW w \in Windows, ToggleArchived(w)
      PROVE  TypeOK' /\ IInv'
  <2> DEFINE v == IF row.archived = "no"
               THEN [row EXCEPT !.archived = "manual", !.reason = "manual", !.ignored = FALSE]
               ELSE [row EXCEPT !.archived = "no", !.reason = "none"]
  <2>1. v \in Rows /\ v.id = row.id
    BY <1>a DEF Rows
  <2>2. /\ v.archived = "no" <=> v.reason = "none"
        /\ v.archived = "manual" <=> v.reason = "manual"
    BY <1>a DEF Rows
  <2>3. Guarded(w, v)
    BY <1>6 DEF ToggleArchived
  <2> HIDE DEF v
  <2> QED
    BY <2>1, <2>2, <2>3, <1>4
<1>7. ASSUME NEW w \in Windows, ToggleIgnored(w)
      PROVE  TypeOK' /\ IInv'
  <2> DEFINE v == IF row.ignored
               THEN [row EXCEPT !.ignored = FALSE, !.unread = TRUE]
               ELSE [row EXCEPT !.ignored = TRUE, !.unread = FALSE, !.archived = "no", !.reason = "none"]
  <2>1. v \in Rows /\ v.id = row.id
    BY <1>a DEF Rows
  <2>2. /\ v.archived = "no" <=> v.reason = "none"
        /\ v.archived = "manual" <=> v.reason = "manual"
    BY <1>a DEF Rows
  <2>3. Guarded(w, v)
    BY <1>7 DEF ToggleIgnored
  <2> HIDE DEF v
  <2> QED
    BY <2>1, <2>2, <2>3, <1>4
<1>8. CASE MarkRead
  <2> DEFINE v == [row EXCEPT !.unread = FALSE]
  <2>1. v \in Rows /\ v.id = row.id /\ v.archived = row.archived /\ v.reason = row.reason
    BY <1>a DEF Rows
  <2>2. Update(v) /\ copy' = copy /\ writer' = "window"
    BY <1>8 DEF MarkRead
  <2> HIDE DEF v
  <2> QED
    BY <2>1, <2>2, <1>a, UpdateSafe DEF TypeOK
<1>9. CASE Prune
  <2>1. row' = NoRow /\ nextId' = nextId /\ copy' = copy /\ writer' = "retention"
    BY <1>9 DEF Prune
  <2>2. NoRow \in Rows
    BY ItemAssumption DEF ItemAssumption, NoRow, Rows
  <2>3. TypeOK'
    BY <2>1, <2>2 DEF TypeOK
  <2>4. NoRow.id = 0 /\ NoRow.revision = 0 /\ NoRow.archived = "no" /\ NoRow.reason = "none"
    BY DEF NoRow
  <2>5. \A w \in Windows : copy[w].id = 0 => copy[w] = NoRow
    BY DEF IInv, CopyInv
  <2>6. NoLostUpdate' /\ ReasonMatchesActor'
    BY <2>1, <2>4, <2>5 DEF NoLostUpdate, ReasonMatchesActor
  <2>7. 0 < nextId
    BY DEF TypeOK
  <2>8. CopyInv'
    BY <2>1, <2>4, <2>5, <2>7 DEF IInv, CopyInv
  <2> QED
    BY <2>3, <2>6, <2>8 DEF IInv
<1>10. CASE UNCHANGED vars
  BY <1>10 DEF vars, TypeOK, IInv, NoLostUpdate, CopyInv, ReasonMatchesActor
<1> QED
  BY <1>1, <1>2, <1>3, <1>5, <1>6, <1>7, <1>8, <1>9, <1>10 DEF Next

\* The type invariant and the inductive invariant hold in every behaviour.
THEOREM Invariance == Spec => [](TypeOK /\ IInv)
<1>1. Init => TypeOK /\ IInv
  BY InitSafe
<1>2. (TypeOK /\ IInv) /\ [Next]_vars => (TypeOK /\ IInv)'
  BY StepSafe
<1> QED
  BY <1>1, <1>2, PTL DEF Spec

\* Every variable keeps its type.
THEOREM TypeCorrect == Spec => []TypeOK
<1>1. TypeOK /\ IInv => TypeOK
  OBVIOUS
<1> QED
  BY <1>1, Invariance, PTL

\* SetUnread, ToggleArchived and ToggleIgnored never overwrite a change the
\* caller has not seen.
THEOREM NoLostUpdateHolds == Spec => []NoLostUpdate
<1>1. TypeOK /\ IInv => NoLostUpdate
  BY DEF IInv
<1> QED
  BY <1>1, Invariance, PTL

\* archivedReason and the toggles keep the reason with its actor.
THEOREM ReasonMatchesActorHolds == Spec => []ReasonMatchesActor
<1>1. TypeOK /\ IInv => ReasonMatchesActor
  BY DEF IInv
<1> QED
  BY <1>1, Invariance, PTL

\* applyTransition honours the resurface policy for a manual archive.
THEOREM ManualArchiveKeptHolds == Spec => ManualArchiveKept
<1> DEFINE Kept ==
      row.archived = "manual" /\ writer' = "source" /\ row'.archived # "manual" =>
         /\ Policy # "never"
         /\ row'.archived = "no" /\ row'.unread
         /\ Policy = "state-changes" => row.state = "closed" /\ row'.state = "open"
<1>1. ASSUME TypeOK, IInv, [Next]_vars
      PROVE  [Kept]_vars
  <2> SUFFICES ASSUME Next, row.archived = "manual", writer' = "source", row'.archived # "manual"
      PROVE  /\ Policy # "never"
             /\ row'.archived = "no" /\ row'.unread
             /\ Policy = "state-changes" => row.state = "closed" /\ row'.state = "open"
    BY <1>1 DEF Kept
  <2>1. PICK s \in Payloads, g \in Attentions : Observe(s, g)
    BY DEF Next, Mint, Read, SetUnread, ToggleArchived, ToggleIgnored, Guarded, MarkRead, Prune
  <2>2. row.id # 0
    BY <1>1 DEF IInv, CopyInv, NoRow
  <2> DEFINE t == Transition(row.state, s)
             archived == ArchivedAfter(row.archived, t, g, Policy)
             unread == UnreadAfter(row.unread, row.archived, t, g, Policy)
  <2>3. /\ row' = [[row EXCEPT !.state = s, !.unread = unread,
                               !.archived = archived, !.reason = ReasonAfter(archived)]
                   EXCEPT !.revision = row.revision + 1]
    BY <2>1, <2>2 DEF Observe, Insert, Update, Exists
  <2>4. row'.archived = archived /\ row'.unread = unread /\ row'.state = s
    <3> HIDE DEF archived, unread
    <3> QED
      BY <1>1, <2>3 DEF TypeOK, Rows
  <2>5. archived # "manual" => t # "entered" /\ archived = "no" /\ Resurfaces("manual", t, g, Policy)
    BY DEF ArchivedAfter
  <2>6. Resurfaces("manual", t, g, Policy) /\ t # "entered" => unread
    BY DEF UnreadAfter
  <2>7. t = "left" => row.state = "closed" /\ s = "open"
    BY DEF Transition
  <2> HIDE DEF t, archived, unread
  <2> QED
    BY <2>4, <2>5, <2>6, <2>7 DEF Resurfaces
<1> QED
  BY <1>1, Invariance, PTL DEF Spec, ManualArchiveKept
=============================================================================
