----------------------------- MODULE WindowSet -----------------------------
(***************************************************************************)
(* The window set of an attached tmux session (internal/app/tmuxcc/        *)
(* controller.go and client.go): notifications are folded in by the reader *)
(* as they arrive, and list-windows snapshots are merged in by whoever     *)
(* asked for them - negotiate once, the reconcile worker, and MoveWindow,  *)
(* whose reply is merged beside the worker's.                              *)
(*                                                                         *)
(* tmux is external: its windows change by themselves (another client, a   *)
(* shell that exits), it announces each change, and it runs commands in    *)
(* the order they reach it.  A window's name stands for everything a       *)
(* notification or a snapshot carries of it.                               *)
(*                                                                         *)
(* late, overlapped and unsettled are history: the windows a notification  *)
(* told of while an older snapshot was not merged yet, the windows merged  *)
(* from snapshots out of order, and the windows whose move ended without   *)
(* its snapshot.                                                           *)
(***************************************************************************)
EXTENDS Gateway

CONSTANTS
    Windows, Names,
    Opened,        \* the windows of the session at attach
    Attacher, Worker, Mover,   \* the three callers that list
    MaxChanges,    \* bound: changes tmux makes by itself
    MaxFaults      \* bound: blocks of the server's own, contexts that end, and the stream

ASSUME WindowsAssumption ==
    /\ Callers = {Attacher, Worker, Mover}
    /\ Attacher # Worker /\ Attacher # Mover /\ Worker # Mover
    /\ Names \cap {"unborn", "closed", "unnamed", "absent"} = {}
    /\ Opened \subseteq Windows /\ Windows \cap {"none", "list", "renumber"} = {}
    /\ MaxChanges \in Nat /\ MaxFaults \in Nat

VARIABLES
    tmux,        \* tmux's windows: a name, or unborn or closed
    app,         \* controller.windows: a name, unnamed, or absent
    generation, addedAt,
    requested,   \* reconcileReq, a channel of one
    attached,
    relinking,   \* the windows MoveWindow holds
    changes, faults,
    late, overlapped, unsettled

set == <<app, generation, addedAt>>
external == <<tmux, changes>>
witness == <<late, overlapped, unsettled>>
wvars == <<queue, canceled, stdin, stdout, sent, closed, send, tmux, app, generation, addedAt,
           requested, attached, relinking, changes, faults, late, overlapped, unsettled>>

Live     == {w \in Windows : tmux[w] \in Names}
Shown    == {w \in Windows : app[w] # "absent"}

TypeOK ==
    /\ GatewayTypes
    /\ tmux \in [Windows -> Names \cup {"unborn", "closed"}]
    /\ app \in [Windows -> Names \cup {"unnamed", "absent"}]
    /\ generation \in Nat /\ addedAt \in [Windows -> 0 .. generation]
    /\ requested \in BOOLEAN /\ attached \in BOOLEAN
    /\ relinking \subseteq Windows
    /\ changes \in 0 .. MaxChanges /\ faults \in 0 .. MaxFaults
    /\ late \cup overlapped \cup unsettled \subseteq Windows

Init ==
    /\ GatewayInit
    /\ \E n \in Names : tmux = [w \in Windows |-> IF w \in Opened THEN n ELSE "unborn"]
    /\ app = [w \in Windows |-> "absent"]
    /\ generation = 0 /\ addedAt = [w \in Windows |-> 0]
    /\ requested = FALSE /\ attached = FALSE
    /\ relinking = {}
    /\ changes = 0 /\ faults = 0
    /\ late = {} /\ overlapped = {} /\ unsettled = {}

-----------------------------------------------------------------------------
(* tmux.                                                                   *)

Note(kind, w, name) == [kind |-> kind, window |-> w, name |-> name]

Change(w, state, note) ==
    /\ ~closed /\ changes < MaxChanges /\ changes' = changes + 1
    /\ tmux' = [tmux EXCEPT ![w] = state]
    /\ stdout' = stdout \o <<note>>
    /\ UNCHANGED <<queue, canceled, stdin, sent, closed, send, set, requested, attached, relinking,
                   faults, witness>>

TmuxAdds(w)    == tmux[w] = "unborn" /\ \E n \in Names : Change(w, n, Note("add", w, n))
TmuxCloses(w)  == w \in Live /\ Live # {w} /\ Change(w, "closed", Note("close", w, tmux[w]))
TmuxRenames(w) == w \in Live /\ \E n \in Names \ {tmux[w]} : Change(w, n, Note("renamed", w, n))

\* A command is a list, a renumbering, or the move of the window it names.  A
\* move unlinks the window and links it again: tmux announces it closed, before
\* it answers the next command.
Executed(command) ==
    IF command.op = "list"
    THEN {<<Reply(command, {<<w, tmux[w]>> : w \in Live}, FALSE)>>}
    ELSE IF command.op = "renumber" THEN {<<Reply(command, {}, FALSE)>>}
    ELSE IF command.op \notin Live THEN {<<Reply(command, {}, TRUE)>>}
    ELSE LET unlink == Note("close", command.op, tmux[command.op])
             answer == Reply(command, {}, FALSE)
         IN {<<unlink, answer>>, <<answer, unlink>>}

TmuxExecutes ==
    /\ ~closed /\ stdin # <<>>
    /\ \E out \in Executed(Head(stdin)) : stdout' = stdout \o out
    /\ stdin' = Tail(stdin)
    /\ UNCHANGED <<queue, canceled, sent, closed, send, external, set, requested, attached, relinking,
                   faults, witness>>

\* A block that answers no command of ours.
TmuxServerBlock ==
    /\ ~closed /\ faults < MaxFaults /\ faults' = faults + 1
    /\ stdout' = stdout \o <<ServerBlock>>
    /\ UNCHANGED <<queue, canceled, stdin, sent, closed, send, external, set, requested, attached, relinking,
                   witness>>

-----------------------------------------------------------------------------
(* The reader: onNotification, then controller.apply.                      *)

\* The callers whose snapshot is read but not merged.
Holding == {c \in Callers : send[c].at = "answered" /\ send[c].op = "list" /\ ~send[c].error}

\* Mutant of RelinkHeld: nothing is suppressed.
RelinkNever(w) == w \notin Windows

RelinkHeld(w) == w \in relinking

\* Mutant of RequestReconcile: a request beside a run is dropped.
RequestUnlessBusy == requested' = (requested \/ send[Worker].at = "idle")

\* The channel holds one request; a pending one absorbs the next.
RequestReconcile == requested' = TRUE

Fold(note) ==
    LET w == note.window IN
    CASE note.kind = "add" ->
            /\ RequestReconcile
            /\ IF w \in Shown THEN UNCHANGED set
               ELSE /\ generation' = generation + 1
                    /\ addedAt' = [addedAt EXCEPT ![w] = generation + 1]
                    /\ app' = [app EXCEPT ![w] = "unnamed"]
      [] note.kind = "close" ->
            /\ app' = IF RelinkHeld(w) THEN app ELSE [app EXCEPT ![w] = "absent"]
            /\ addedAt' = IF RelinkHeld(w) THEN addedAt ELSE [addedAt EXCEPT ![w] = 0]
            /\ UNCHANGED <<generation, requested>>
      [] OTHER ->
            /\ app' = IF w \in Shown THEN [app EXCEPT ![w] = note.name] ELSE app
            /\ UNCHANGED <<generation, addedAt, requested>>

FeedNote ==
    /\ ~closed /\ stdout # <<>> /\ Head(stdout).kind \in {"add", "close", "renamed"}
    /\ Fold(Head(stdout))
    /\ stdout' = Tail(stdout)
    /\ late' = IF Holding # {} /\ Head(stdout).kind # "add" THEN late \cup {Head(stdout).window} ELSE late
    /\ UNCHANGED <<queue, canceled, stdin, sent, closed, send, external, attached, relinking, faults, overlapped, unsettled>>

-----------------------------------------------------------------------------
(* Listing and merging.                                                    *)

\* The mark is taken right before the round trip.
BeginList(c) == Ready(c, "list", generation)

negotiation == <<queue, canceled, stdin, stdout, sent, closed>>

\* At the attach, and again whenever a surface opens on a warm client.
Negotiate ==
    /\ ~closed /\ send[Attacher].at = "idle"
    /\ BeginList(Attacher)
    /\ UNCHANGED <<negotiation, external, set, requested, attached, relinking, faults, witness>>

\* The worker waits for the attach, and serves one request per run.
RunReconcile ==
    /\ ~closed /\ attached /\ requested /\ send[Worker].at = "idle"
    /\ requested' = FALSE
    /\ BeginList(Worker)
    /\ UNCHANGED <<negotiation, external, set, attached, relinking, faults, witness>>

Named(c)  == {pair[1] : pair \in send[c].reply}
NameIn(c, w) == (CHOOSE pair \in send[c].reply : pair[1] = w)[2]

\* Added after the mark: the snapshot cannot hold it.
TooNew(c, w) == addedAt[w] > send[c].mark

\* reconcile: every row is stored, and what the snapshot lacks is closed.
Merge(c) ==
    /\ app' = [w \in Windows |-> CASE w \in Named(c) -> NameIn(c, w)
                                   [] w \notin Named(c) /\ TooNew(c, w) -> app[w]
                                   [] OTHER -> "absent"]
    /\ addedAt' = [w \in Windows |-> IF w \notin Named(c) /\ TooNew(c, w) THEN addedAt[w] ELSE 0]
    /\ UNCHANGED generation

\* set: rows are stored, and nothing is closed.
Install(c) ==
    /\ app' = [w \in Windows |-> IF w \in Named(c) THEN NameIn(c, w) ELSE app[w]]
    /\ addedAt' = [w \in Windows |-> IF w \in Named(c) THEN 0 ELSE addedAt[w]]
    /\ UNCHANGED generation

Return(c) == send' = [send EXCEPT ![c] = NoSend]

\* Another caller still holds an older snapshot than c's.
Overtaking(c) ==
    overlapped' = IF \E d \in Holding \ {c} : send[d].id < send[c].id
                  THEN overlapped \cup Named(c) ELSE overlapped

Attached ==
    /\ Attacher \in Holding
    /\ Install(Attacher) /\ Return(Attacher)
    /\ attached' = TRUE
    /\ Overtaking(Attacher)
    /\ UNCHANGED <<negotiation, external, requested, relinking, faults, late, unsettled>>

Reconcile(c) ==
    /\ c \in {Worker, Mover} \cap Holding
    /\ Merge(c) /\ Return(c)
    /\ Overtaking(c)
    /\ relinking' = IF c = Mover THEN {} ELSE relinking
    /\ UNCHANGED <<negotiation, external, requested, attached, faults, late, unsettled>>

-----------------------------------------------------------------------------
(* MoveWindow: hold, move, renumber, list, merge, release.                 *)

MoveWindow(w) ==
    /\ ~closed /\ attached /\ send[Mover].at = "idle"
    /\ w \in Shown /\ Cardinality(Shown) > 1
    /\ sent + 2 < MaxCommands
    /\ relinking' = {w}
    /\ Ready(Mover, w, 0)
    /\ UNCHANGED <<negotiation, external, set, requested, attached, faults, witness>>

Moved(ops) == send[Mover].at = "answered" /\ send[Mover].op \in ops /\ ~send[Mover].error

Renumber ==
    /\ Moved(Windows)
    /\ Ready(Mover, "renumber", 0)
    /\ UNCHANGED <<negotiation, external, set, requested, attached, relinking, faults, witness>>

Resync ==
    /\ Moved({"renumber"})
    /\ BeginList(Mover)
    /\ UNCHANGED <<negotiation, external, set, requested, attached, relinking, faults, witness>>

\* The deferred release runs on every way out.
Release ==
    /\ relinking' = {}
    /\ unsettled' = unsettled \cup relinking

CallerFails(c) ==
    /\ send[c].at = "answered" /\ send[c].error
    /\ Return(c)
    /\ IF c = Mover THEN Release ELSE UNCHANGED <<relinking, unsettled>>
    /\ UNCHANGED <<negotiation, external, set, requested, attached, faults, late, overlapped>>

\* The request that asked for the move is gone.
CancelMove ==
    /\ send[Mover].at = "waiting" /\ faults < MaxFaults /\ faults' = faults + 1
    /\ GiveUp(Mover) /\ Return(Mover)
    /\ Release
    /\ UNCHANGED <<stdin, stdout, sent, closed, external, set, requested, attached,
                   late, overlapped>>

StreamEnds ==
    /\ ~closed /\ faults < MaxFaults /\ faults' = faults + 1
    /\ Fail
    /\ UNCHANGED <<external, set, requested, attached, relinking, witness>>

-----------------------------------------------------------------------------
others == <<external, set, requested, attached, relinking, faults, witness>>

Client ==
    \/ (FeedReply \/ FeedDesync \/ FeedServer) /\ UNCHANGED others
    \/ FeedNote
    \/ \E c \in Callers : (Enqueue(c) \/ Write(c)) /\ UNCHANGED others
    \/ Negotiate \/ Attached \/ RunReconcile \/ Renumber \/ Resync
    \/ \E c \in Callers : Reconcile(c) \/ CallerFails(c)

Outside ==
    \/ \E w \in Windows : TmuxAdds(w) \/ TmuxCloses(w) \/ TmuxRenames(w) \/ MoveWindow(w)
    \/ TmuxServerBlock \/ CancelMove \/ StreamEnds

Next == Client \/ TmuxExecutes \/ Outside

Spec == Init /\ [][Next]_wvars

-----------------------------------------------------------------------------
(* Properties.                                                             *)

\* A tab is not closed for a window that is still there (#278): neither by a
\* snapshot older than the window, nor by the unlink of a move - unless two
\* snapshots were merged out of order, or the move failed or was given up.
NoPhantomClose ==
    [][\A w \in Windows :
        (w \in Shown /\ app'[w] = "absent" /\ w \in Live) => w \in overlapped \cup unsettled]_wvars

\* Once nothing is in flight the tabs are tmux's windows under their names,
\* except for a window closed or renamed between a snapshot's reply and
\* its merge, or that fell to one of the two cases above.
Quiet ==
    /\ ~closed /\ attached /\ ~requested /\ stdin = <<>> /\ stdout = <<>>
    /\ \A c \in Callers : send[c].at = "idle"
Agrees ==
    Quiet => \A w \in Windows :
        \/ app[w] = IF w \in Live THEN tmux[w] ELSE "absent"
        \/ w \in late \cup overlapped \cup unsettled

=============================================================================
