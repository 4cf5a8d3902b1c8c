------------------------------ MODULE Pipeline ------------------------------
(***************************************************************************)
(* From a polled source to a feed: the producer's drains                   *)
(* (internal/app/ingest/producer.go) append observations and snapshots to  *)
(* the event log, and the flow engine (internal/app/runtime/engine.go)     *)
(* reads the log, commits feed membership, and rebuilds that membership by *)
(* replay when the app starts or a flow is deployed.  The user triages     *)
(* items and retention prunes them meanwhile.                              *)
(*                                                                         *)
(* One flow: a source node, a filter, a feed.  A deploy changes the        *)
(* filter.  log is the event log past the flow's committed offset; of what *)
(* lies before it only the newest snapshot matters, and that is last.      *)
(* Every database transaction is one step; between two of them the other   *)
(* goroutines run, and the process may stop.                               *)
(*                                                                         *)
(* The connector confirms no absences, and its classifier is the canonical *)
(* one.  dark and the counters are history.                                *)
(***************************************************************************)
EXTENDS Naturals, Sequences, FiniteSets, InboxTriage

CONSTANTS
    Items,          \* keys of the source's items
    Drains,         \* "tick", the poll loop's drain; "refresh", a forced one
    Filters,        \* what a saved flow may route to its feed
    Policy,         \* the source's resurface policy
    PageSize,       \* EngineOptions.PageSize
    SnapshotLimit,  \* RetentionPolicy.EventLogSnapshotsPerTopicLimit
    MaxBacklog,     \* bound: unread rows while the engine has a wake-up
    MaxChanges,     \* bound: changes of the upstream source
    MaxTriage,      \* bound: archive toggles
    MaxEdits,       \* bound: deploys
    MaxFaults       \* bound: crashes and failures together

ASSUME PipelineAssumption ==
    /\ Drains \subseteq {"tick", "refresh"}
    /\ Filters \subseteq SUBSET Payloads /\ {"open"} \in Filters
    /\ Policy \in Policies
    /\ PageSize \in Nat \ {0}
    /\ SnapshotLimit \in Nat \ {0}
    /\ MaxBacklog \in Nat /\ MaxChanges \in Nat /\ MaxTriage \in Nat
    /\ MaxEdits \in Nat /\ MaxFaults \in Nat

Views   == [Items -> Payloads \cup {"absent"}]
Nothing == [k \in Items |-> "absent"]

\* An event_log row.  An item event is a view of that item alone; a pruned
\* snapshot keeps its offset.
Entry == [kind : {"item", "snapshot", "pruned"}, view : Views]
NoFlow  == {"none"}              \* no runner installed
NoSnapshot == [kind |-> "pruned", view |-> Nothing]
EnginePCs == {"wait", "tail", "list", "snapshots", "activate", "drain", "commit"}

VARIABLES
    upstream,                   \* the source's items
    row, head, claims,          \* inbox_item, source_head, feed_membership_claim
    log, last,                  \* event_log past and before the consumer offset
    flow,                       \* the saved flow
    drains,                     \* the two drains' goroutines
    eng, starting, wake, reload, installed,   \* the engine
    target, tail, listed, prepared,           \* a replay in progress
    page, upTo,                               \* a page in progress
    dark,                       \* a failure left rows unread and announced nothing
    changes, triages, edits, faults

inbox   == <<row, head, claims>>
events  == <<log, last>>
replay  == <<target, tail, listed, prepared>>
paging  == <<page, upTo>>
latches == <<wake, reload>>
engine  == <<eng, starting, installed, target, tail, listed, prepared, page, upTo>>
bounds  == <<changes, triages, edits, faults>>
vars == <<upstream, row, head, claims, log, last, flow, drains, eng, starting, wake, reload,
          installed, target, tail, listed, prepared, page, upTo, dark, changes, triages, edits, faults>>

Drain == [pc : {"idle", "ingest", "publish"}, fetched : Views, todo : SUBSET Items, wrote : BOOLEAN]
Idle  == [pc |-> "idle", fetched |-> Nothing, todo |-> {}, wrote |-> FALSE]

StoreTypes ==
    /\ upstream \in Views /\ head \in Views /\ claims \subseteq Items
    /\ row \in [Items -> [payload : Payloads \cup {"absent"}, archived : Actors]]
    /\ log \in Seq(Entry) /\ last \in Entry
    /\ flow \in Filters
EngineTypes ==
    /\ eng \in EnginePCs
    /\ starting \in BOOLEAN /\ wake \in BOOLEAN /\ reload \in BOOLEAN /\ dark \in BOOLEAN
    /\ installed \in Filters \cup {NoFlow} /\ target \in Filters \cup {{}}
    /\ tail \in 0 .. Len(log) /\ listed \subseteq Items /\ prepared \subseteq listed
    /\ page \in Seq(Entry) /\ upTo \in 0 .. Len(log)
BoundTypes ==
    /\ changes \in 0 .. MaxChanges /\ triages \in 0 .. MaxTriage
    /\ edits \in 0 .. MaxEdits /\ faults \in 0 .. MaxFaults
TypeOK == StoreTypes /\ EngineTypes /\ BoundTypes /\ drains \in [Drains -> Drain]

-----------------------------------------------------------------------------
\* A new database, and an app that is starting.
Init ==
    /\ upstream = Nothing
    /\ row = [k \in Items |-> [payload |-> "absent", archived |-> "no"]]
    /\ head = Nothing /\ claims = {}
    /\ log = <<>> /\ last = NoSnapshot
    /\ flow = {"open"}
    /\ drains = [d \in Drains |-> Idle]
    /\ eng = "tail" /\ starting = TRUE /\ wake = FALSE /\ reload = FALSE /\ installed = NoFlow
    /\ target = {} /\ tail = 0 /\ listed = {} /\ prepared = {}
    /\ page = <<>> /\ upTo = 0
    /\ dark = FALSE
    /\ changes = 0 /\ triages = 0 /\ edits = 0 /\ faults = 0

Exists(k)     == row[k].payload # "absent"
Unarchived    == {k \in Items : Exists(k) /\ row[k].archived = "no"}
Archived      == {k \in Items : Exists(k) /\ row[k].archived # "no"}
Unread        == {i \in DOMAIN log : log[i].kind # "pruned"}
Snapshots(s)  == {i \in DOMAIN s : s[i].kind = "snapshot"}
Newest(s)     == CHOOSE i \in Snapshots(s) : \A j \in Snapshots(s) : j <= i
Oldest(s)     == CHOOSE i \in Snapshots(s) : \A j \in Snapshots(s) : i <= j
\* ListLatestSnapshots, through the n-th unread row.
LatestThrough(n) ==
    LET before == SubSeq(log, 1, n)
    IN IF Snapshots(before) = {} THEN last ELSE before[Newest(before)]
\* The items a filter routes from a log row to the feed.
Routed(entry, filter) == {k \in Items : entry.view[k] \in filter}

-----------------------------------------------------------------------------
(* The source and the producer.                                            *)

Upstream(k) ==
    /\ changes < MaxChanges
    /\ \E p \in (Payloads \cup {"absent"}) \ {upstream[k]} : upstream' = [upstream EXCEPT ![k] = p]
    /\ changes' = changes + 1
    /\ UNCHANGED <<inbox, events, flow, drains, latches, engine, dark, triages, edits, faults>>

\* An idle engine with a runner: only the next drain can wake it.
Quiet == eng = "wait" /\ ~wake /\ ~reload /\ installed # NoFlow

\* Produce fetches; the poll loop starts after the engine has installed its
\* flows, while a watched flow edit may force a drain before.
DrainBegin(d) ==
    /\ drains[d].pc = "idle"
    /\ d = "tick" => ~starting
    /\ Len(log) <= MaxBacklog \/ Quiet
    /\ drains' = [drains EXCEPT ![d] =
           [pc |-> "ingest", fetched |-> upstream, wrote |-> FALSE,
            todo |-> {k \in Items : upstream[k] # "absent"}]]
    /\ UNCHANGED <<upstream, inbox, events, flow, latches, engine, dark, bounds>>

\* One emitted item: a no-op when the source head already holds its payload,
\* otherwise one transaction over the item, the log and the head.
IngestObservation(d, k) ==
    LET cur == drains[d].fetched[k]
        wrote == head[k] # cur
    IN
    /\ drains[d].pc = "ingest"
    /\ k \in drains[d].todo
    /\ drains' = [drains EXCEPT ![d].todo = @ \ {k}, ![d].wrote = @ \/ wrote]
    /\ IF wrote
       THEN /\ row' = [row EXCEPT ![k] =
                   [payload |-> cur,
                    archived |-> ArchivedAfter(@.archived, Transition(@.payload, cur), "activity", Policy)]]
            /\ head' = [head EXCEPT ![k] = cur]
            /\ log' = Append(log, [kind |-> "item", view |-> [Nothing EXCEPT ![k] = cur]])
       ELSE UNCHANGED <<row, head, log>>
    /\ UNCHANGED <<upstream, claims, last, flow, latches, engine, dark, bounds>>

AppendSnapshot(d) ==
    /\ drains[d].pc = "ingest"
    /\ drains[d].todo = {}
    /\ log' = Append(log, [kind |-> "snapshot", view |-> drains[d].fetched])
    /\ drains' = [drains EXCEPT ![d].pc = "publish", ![d].wrote = TRUE]
    /\ UNCHANGED <<upstream, inbox, last, flow, latches, engine, dark, bounds>>

\* The fetch, an ingest or the snapshot append fails.  The tick counts the
\* source as failed, and the rows it did append are announced to nobody.
DrainFails(d) ==
    /\ drains[d].pc = "ingest"
    /\ faults < MaxFaults
    /\ faults' = faults + 1
    /\ dark' = (dark \/ drains[d].wrote)
    /\ drains' = [drains EXCEPT ![d] = Idle]
    /\ UNCHANGED <<upstream, inbox, events, flow, latches, engine, changes, triages, edits>>

\* Mutant of Publish: a wake-up that is not latched.
PublishUnlatched(d) ==
    /\ drains[d].pc = "publish"
    /\ wake' = (eng = "wait")
    /\ drains' = [drains EXCEPT ![d] = Idle]
    /\ UNCHANGED <<upstream, inbox, events, flow, reload, engine, dark, bounds>>

\* PublishLogAppended, at the end of a tick that appended.
Publish(d) ==
    /\ drains[d].pc = "publish"
    /\ wake' = TRUE
    /\ drains' = [drains EXCEPT ![d] = Idle]
    /\ UNCHANGED <<upstream, inbox, events, flow, reload, engine, dark, bounds>>

-----------------------------------------------------------------------------
(* The engine's goroutine: install.                                        *)

EngineReload ==
    /\ eng = "wait" /\ reload
    /\ reload' = FALSE
    /\ eng' = "tail"
    /\ UNCHANGED <<upstream, inbox, events, flow, drains, starting, wake, installed, replay, paging, dark, bounds>>

EngineWake ==
    /\ eng = "wait" /\ wake
    /\ wake' = FALSE
    /\ eng' = "drain"
    /\ UNCHANGED <<upstream, inbox, events, flow, drains, starting, reload, installed, replay, paging, dark, bounds>>

ReadTail ==
    /\ eng = "tail"
    /\ target' = flow
    /\ tail' = Len(log)
    /\ eng' = "list"
    /\ UNCHANGED <<upstream, inbox, events, flow, drains, starting, latches, installed, listed, prepared,
                   paging, dark, bounds>>

ListItems ==
    /\ eng = "list"
    /\ listed' = Unarchived
    /\ eng' = "snapshots"
    /\ UNCHANGED <<upstream, inbox, events, flow, drains, starting, latches, installed, target, tail, prepared,
                   paging, dark, bounds>>

\* ListLatestSnapshots through the captured tail, RunReplay, and the claims of
\* the items that were listed.
Prepare ==
    /\ eng = "snapshots"
    /\ prepared' = Routed(LatestThrough(tail), target) \cap listed
    /\ eng' = "activate"
    /\ UNCHANGED <<upstream, inbox, events, flow, drains, starting, latches, installed, target, tail, listed,
                   paging, dark, bounds>>

\* Start returns without a drain; a reload drains, installed or not.
AfterInstall ==
    /\ eng' = IF starting THEN "wait" ELSE "drain"
    /\ starting' = FALSE
    /\ target' = {} /\ tail' = 0 /\ listed' = {} /\ prepared' = {}

\* Mutant of Claimable: the items are not read again.
ClaimableBlindly == TRUE

\* GetUnarchivedByID, for every prepared claim.
Claimable == prepared \subseteq Unarchived

\* ActivateReplay: one transaction, refused when a prepared item has been
\* archived since it was listed.
Activate ==
    /\ eng = "activate"
    /\ IF Claimable
       THEN /\ claims' = (claims \ Unarchived) \cup prepared
            /\ last' = LatestThrough(tail)
            /\ log' = SubSeq(log, tail + 1, Len(log))
            /\ installed' = target
       ELSE UNCHANGED <<claims, last, log, installed>>
    /\ AfterInstall
    /\ UNCHANGED <<upstream, row, head, flow, drains, latches, paging, dark, bounds>>

\* A read or the transaction fails: the last known-good runner stays.
InstallFails ==
    /\ eng \in {"tail", "list", "snapshots", "activate"}
    /\ faults < MaxFaults
    /\ faults' = faults + 1
    /\ dark' = TRUE
    /\ AfterInstall
    /\ UNCHANGED <<upstream, inbox, events, flow, drains, latches, installed, paging, changes, triages, edits>>

-----------------------------------------------------------------------------
(* The engine's goroutine: drain.                                          *)

\* The rows ReadForConsumer returns: the first PageSize unread ones.  A pruned
\* row in between keeps its place in the page and routes nothing.
PageRows == {i \in Unread : Cardinality({j \in Unread : j < i}) < PageSize}

ReadPage ==
    /\ eng = "drain"
    /\ IF installed = NoFlow \/ Unread = {}
       THEN /\ eng' = "wait"
            /\ dark' = (dark /\ installed = NoFlow)
            /\ UNCHANGED paging
       ELSE /\ upTo' = CHOOSE i \in PageRows : \A j \in PageRows : j <= i
            /\ page' = SubSeq(log, 1, upTo')
            /\ eng' = "commit"
            /\ UNCHANGED dark
    /\ UNCHANGED <<upstream, inbox, events, flow, drains, starting, latches, installed, replay, bounds>>

EndPage == page' = <<>> /\ upTo' = 0

\* The first output for an item without a row mints it.
Routings(k) == {i \in DOMAIN page : k \in Routed(page[i], installed)}
Minted(k)   == page[CHOOSE i \in Routings(k) : \A j \in Routings(k) : i <= j].view[k]
Outputs     == UNION {Routed(page[i], installed) : i \in DOMAIN page}

\* Mutant of Reconciled: a snapshot adds members and removes none.
ReconciledToAll == Items

\* Commit: every output is claimed, then the feed is reconciled to one
\* snapshot - declareSnapshot keeps the page's first.
Reconciled ==
    IF Snapshots(page) = {} THEN Items ELSE Routed(page[Oldest(page)], installed)

Commit ==
    /\ eng = "commit"
    /\ row' = [k \in Items |->
                  IF k \in Outputs /\ ~Exists(k)
                  THEN [payload |-> Minted(k), archived |-> "no"] ELSE row[k]]
    /\ claims' = (claims \cup Outputs) \cap Reconciled
    /\ last' = IF Snapshots(page) = {} THEN last ELSE page[Newest(page)]
    /\ log' = SubSeq(log, upTo + 1, Len(log))
    /\ EndPage
    /\ eng' = "drain"
    /\ UNCHANGED <<upstream, head, flow, drains, starting, latches, installed, replay, dark, bounds>>

\* The read, the run or the commit fails; it is retried on the next wake-up.
CommitFails ==
    /\ eng = "commit"
    /\ faults < MaxFaults
    /\ faults' = faults + 1
    /\ dark' = TRUE
    /\ EndPage
    /\ eng' = "wait"
    /\ UNCHANGED <<upstream, inbox, events, flow, drains, starting, latches, installed, replay, changes, triages, edits>>

-----------------------------------------------------------------------------
(* The user, retention, and the process.                                   *)

ToggleArchived(k) ==
    /\ Exists(k)
    /\ triages < MaxTriage
    /\ triages' = triages + 1
    /\ row' = [row EXCEPT ![k].archived = IF @ = "no" THEN "manual" ELSE "no"]
    /\ UNCHANGED <<upstream, head, claims, events, flow, drains, latches, engine, dark, changes, edits, faults>>

\* A save or an edit of the flow file: PublishFlowsUpdated reloads the engine
\* and forces a drain.
EditFlow(f) ==
    /\ f # flow
    /\ edits < MaxEdits
    /\ edits' = edits + 1
    /\ flow' = f
    /\ reload' = TRUE
    /\ UNCHANGED <<upstream, inbox, events, drains, wake, engine, dark, changes, triages, faults>>

\* The retained snapshots: the newest SnapshotLimit, the consumed one oldest.
Superseded(i) == Cardinality({j \in Snapshots(log) : j > i}) >= SnapshotLimit

\* Mutant of Orphans: the heads are pruned before the rows.
OrphansBefore(expired) == {k \in Items : ~Exists(k)}

\* The heads no row is left for, once the expired rows are gone.
Orphans(expired) == {k \in Items : ~Exists(k)} \cup expired

\* Maintenance.Tick: superseded snapshots, the archived rows that are old
\* enough with their claims, and the heads no row is left for.
Prune(expired) ==
    /\ expired \subseteq Archived
    /\ log' = [i \in DOMAIN log |->
                  IF log[i].kind = "snapshot" /\ Superseded(i)
                  THEN [kind |-> "pruned", view |-> Nothing] ELSE log[i]]
    /\ last' = IF Superseded(0) THEN NoSnapshot ELSE last
    /\ row' = [k \in Items |->
                  IF k \in expired THEN [payload |-> "absent", archived |-> "no"] ELSE row[k]]
    /\ head' = [k \in Items |-> IF k \in Orphans(expired) THEN "absent" ELSE head[k]]
    /\ claims' = claims \ expired
    /\ UNCHANGED <<upstream, flow, drains, latches, engine, dark, bounds>>

\* The process stops anywhere and is started again.
CrashRestart ==
    /\ faults < MaxFaults
    /\ faults' = faults + 1
    /\ drains' = [d \in Drains |-> Idle]
    /\ eng' = "tail" /\ starting' = TRUE /\ wake' = FALSE /\ reload' = FALSE /\ installed' = NoFlow
    /\ target' = {} /\ tail' = 0 /\ listed' = {} /\ prepared' = {}
    /\ EndPage
    /\ dark' = FALSE
    /\ UNCHANGED <<upstream, inbox, events, flow, changes, triages, edits>>

-----------------------------------------------------------------------------
Engine ==
    \/ EngineReload \/ EngineWake
    \/ ReadTail \/ ListItems \/ Prepare \/ Activate
    \/ ReadPage \/ Commit

Progress(d) == (\E k \in Items : IngestObservation(d, k)) \/ AppendSnapshot(d) \/ Publish(d)

Next ==
    \/ \E d \in Drains : DrainBegin(d) \/ Progress(d) \/ DrainFails(d)
    \/ Engine \/ InstallFails \/ CommitFails
    \/ \E k \in Items : Upstream(k) \/ ToggleArchived(k)
    \/ \E f \in Filters : EditFlow(f)
    \/ \E expired \in SUBSET Items : Prune(expired)
    \/ CrashRestart

Spec == Init /\ [][Next]_vars

\* The ticker fires for as long as the process runs, a fetch returns, and the
\* engine's goroutine is scheduled.
FairSpec ==
    /\ Spec
    /\ WF_vars(Engine)
    /\ WF_vars(DrainBegin("tick"))
    /\ \A d \in Drains : WF_vars(Progress(d))

-----------------------------------------------------------------------------
\* Change detection never hides a change: a source head is always the payload
\* the item's row holds, so an observation it deduplicates is one the inbox
\* already shows, and a pruned item leaves no head behind to suppress it.
HeadMatchesRow == \A k \in Items : head[k] # "absent" => row[k].payload = head[k]

\* A replay neither grants nor takes the membership of an item that is
\* archived when it is activated, whenever the user archived it.
ReplayFreezesArchived ==
    [][eng = "activate" /\ eng' # "activate" => claims' \cap Archived = claims \cap Archived]_vars

\* A level-triggered engine loses no wake-up: rows it has not read are
\* announced - by a latch that is set or a drain that will set it - unless a
\* failure left them, and then the next drain announces them.
NoLostWake ==
    eng = "wait" /\ installed # NoFlow /\ Unread # {} =>
        wake \/ reload \/ dark \/ \E d \in Drains : drains[d].pc # "idle" /\ drains[d].wrote

\* Once the source, the user and the deploys stand still, and nothing fails,
\* the inbox and the feed come to agree with the source: every upstream item
\* has its row, and the feed holds what the installed filter routes, however
\* drains, commits, replays, triage and retention interleaved before.
Converges ==
    <>[](installed # NoFlow =>
            /\ claims = {k \in Items : upstream[k] \in installed}
            /\ \A k \in Items : upstream[k] # "absent" => row[k].payload = upstream[k])

\* What the retention query's comment says: an older snapshot reconciles
\* nothing.  What a page's newest snapshot routes is in the feed after it.
NewestSnapshotWins ==
    [][eng = "commit" /\ eng' = "drain" /\ Snapshots(page) # {}
         => Routed(page[Newest(page)], installed) \subseteq claims']_vars
=============================================================================
