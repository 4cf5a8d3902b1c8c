----------------------------- MODULE InboxItem -----------------------------
(***************************************************************************)
(* One inbox_item row under concurrent triage: windows (or the HTTP and    *)
(* MCP adapters) that write with the revision they last read, the source's *)
(* observations, a flow commit that mints the row, the bulk mark-as-read,  *)
(* and retention (internal/app/data/stores/store_inbox_item.go over        *)
(* inbox_item.sql).                                                        *)
(*                                                                         *)
(* writer is history: whose step the last one was.                         *)
(***************************************************************************)
EXTENDS Naturals, InboxTriage

CONSTANTS
    Windows,       \* who holds a copy of the row to triage it by
    Policy,        \* the source's resurface policy
    MaxRevision,   \* bound: revisions of one row
    MaxRows        \* bound: rows ever inserted for the item

ASSUME ItemAssumption ==
    Policy \in Policies /\ MaxRevision \in Nat \ {0} /\ MaxRows \in Nat \ {0}

VARIABLES
    row,      \* the row; id 0 is no row
    nextId,   \* AUTOINCREMENT
    copy,     \* what each window last read
    writer

vars == <<row, nextId, copy, writer>>

Reasons == {"none", "manual", "source"}
Rows == [id : 0 .. MaxRows, revision : 0 .. MaxRevision, state : Payloads \cup {"absent"},
         unread : BOOLEAN, archived : Actors, reason : Reasons, ignored : BOOLEAN]
NoRow == [id |-> 0, revision |-> 0, state |-> "absent",
          unread |-> FALSE, archived |-> "no", reason |-> "none", ignored |-> FALSE]
Exists == row.id # 0

TypeOK ==
    /\ row \in Rows
    /\ nextId \in 1 .. MaxRows + 1
    /\ copy \in [Windows -> Rows]
    /\ writer \in {"window", "source", "flow", "retention"}

Init ==
    /\ row = NoRow
    /\ nextId = 1
    /\ copy = [w \in Windows |-> NoRow]
    /\ writer = "retention"

-----------------------------------------------------------------------------
(* InsertInboxItem, or the insert of UpsertInboxItem.                      *)
Insert(state, unread) ==
    /\ ~Exists
    /\ nextId <= MaxRows
    /\ nextId' = nextId + 1
    /\ row' = [NoRow EXCEPT !.id = nextId, !.revision = 1, !.state = state, !.unread = unread]
    /\ UNCHANGED copy

\* Mutant of Update: the write keeps the revision.
UpdateInPlace(values) ==
    /\ Exists
    /\ row' = values
    /\ UNCHANGED nextId

\* Every update of the row advances its revision.
Update(values) ==
    /\ Exists
    /\ row.revision < MaxRevision
    /\ row' = [values EXCEPT !.revision = row.revision + 1]
    /\ UNCHANGED nextId

\* Mutants of ReasonAfter: a resurfaced row keeps its reason; the actor is
\* stored for the reason.
ReasonKept(archived) ==
    IF row.archived # "no" THEN row.reason
    ELSE CASE archived = "no" -> "none" [] archived = "manual" -> "manual" [] OTHER -> "source"
ReasonIsActor(archived) ==
    CASE archived = "no"                        -> "none"
      [] archived # "no" /\ row.archived # "no" -> row.reason
      [] OTHER                                  -> archived

\* An existing reason is kept; an archive that is new takes its actor's.
ReasonAfter(archived) ==
    CASE archived = "no"                          -> "none"
      [] archived # "no" /\ row.archived # "no"   -> row.reason
      [] archived = "manual" /\ row.archived = "no" -> "manual"
      [] OTHER                                    -> "source"

\* IngestObservation, of a payload that differs from the source head.  A
\* change of payload need not change its state.
Observe(state, attention) ==
    LET t == Transition(row.state, state)
        archived == ArchivedAfter(row.archived, t, attention, Policy)
        unread == UnreadAfter(row.unread, row.archived, t, attention, Policy)
    IN
    /\ \/ Insert(state, unread)
       \/ /\ Update([row EXCEPT !.state = state, !.unread = unread,
                                !.archived = archived, !.reason = ReasonAfter(archived)])
          /\ UNCHANGED copy
    /\ writer' = "source"

\* CreateSynthesized: a feed output without a row.
Mint(state) == Insert(state, TRUE) /\ writer' = "flow"

-----------------------------------------------------------------------------
(* Triage.                                                                 *)

Read(w) ==
    /\ copy' = [copy EXCEPT ![w] = row]
    /\ writer' = "window"
    /\ UNCHANGED <<row, nextId>>

\* WHERE id = ? AND revision = ?; a stale window gets ErrStale and nothing
\* changes, a fresh one the row as it was written.
Guarded(w, values) ==
    /\ copy[w].id = row.id /\ copy[w].revision = row.revision
    /\ Update(values)
    /\ copy' = [copy EXCEPT ![w] = row']
    /\ writer' = "window"

SetUnread(w, unread) == Guarded(w, [row EXCEPT !.unread = unread])

ToggleArchived(w) ==
    Guarded(w, IF row.archived = "no"
               THEN [row EXCEPT !.archived = "manual", !.reason = "manual", !.ignored = FALSE]
               ELSE [row EXCEPT !.archived = "no", !.reason = "none"])

ToggleIgnored(w) ==
    Guarded(w, IF row.ignored
               THEN [row EXCEPT !.ignored = FALSE, !.unread = TRUE]
               ELSE [row EXCEPT !.ignored = TRUE, !.unread = FALSE, !.archived = "no", !.reason = "none"])

\* MarkRead, over a feed that claims the item: no revision is asked for.
MarkRead ==
    /\ row.unread /\ row.archived = "no" /\ ~row.ignored
    /\ Update([row EXCEPT !.unread = FALSE])
    /\ UNCHANGED copy
    /\ writer' = "window"

\* PruneArchivedInboxItems, once the row is old enough.
Prune ==
    /\ Exists /\ row.archived # "no"
    /\ row' = NoRow
    /\ UNCHANGED <<nextId, copy>>
    /\ writer' = "retention"

-----------------------------------------------------------------------------
Next ==
    \/ \E s \in Payloads : Mint(s) \/ \E a \in Attentions : Observe(s, a)
    \/ \E w \in Windows :
         \/ Read(w) \/ ToggleArchived(w) \/ ToggleIgnored(w)
         \/ \E u \in BOOLEAN : SetUnread(w, u)
    \/ MarkRead
    \/ Prune

Spec == Init /\ [][Next]_vars

-----------------------------------------------------------------------------
\* A window whose write would be accepted sees exactly the row it would
\* change: neither an observation, another window, the bulk mark-as-read, nor
\* a pruned row that was inserted again can be overwritten unseen.
NoLostUpdate ==
    \A w \in Windows :
        copy[w].id = row.id /\ copy[w].revision = row.revision => copy[w] = row

\* The archive reason shown with an item is that of the actor that holds the
\* archive, through every order of user and source archives.
ReasonMatchesActor ==
    /\ row.archived = "no"     <=> row.reason = "none"
    /\ row.archived = "manual" <=> row.reason = "manual"

\* A manual archive is undone by the source only as the policy allows: never,
\* on a reopening, or on any activity - also when the source closes the item
\* after the user has archived it.
ManualArchiveKept ==
    [][row.archived = "manual" /\ writer' = "source" /\ row'.archived # "manual" =>
         /\ Policy # "never"
         /\ row'.archived = "no" /\ row'.unread
         /\ Policy = "state-changes" => row.state = "closed" /\ row'.state = "open"]_vars

\* The invariant NoLostUpdate is proved by: a copy is no newer than the row.
CopyInv ==
    /\ row.id < nextId
    /\ \A w \in Windows :
         /\ copy[w].id < nextId
         /\ copy[w].id = row.id => copy[w].revision <= row.revision
         /\ copy[w].id = 0 => copy[w] = NoRow
    /\ row.id = 0 => row = NoRow
IInv == NoLostUpdate /\ CopyInv /\ ReasonMatchesActor
=============================================================================
