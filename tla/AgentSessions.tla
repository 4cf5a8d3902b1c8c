--------------------------- MODULE AgentSessions ---------------------------
(***************************************************************************)
(* Agent chats: the records of agent_workspace_session and the tmux        *)
(* sessions their agents run in (internal/app/agent_workspaces_service.go  *)
(* over store_agent_workspace_session.go and tmuxcc's one-shot commands).  *)
(*                                                                         *)
(* A record is addressed by its row id, which SQLite hands out again once  *)
(* the highest row is deleted; a tmux session is named after the record's  *)
(* terminal id, which is never reused.  The service takes no lock: every   *)
(* call is a goroutine of its own and each database or tmux command is a   *)
(* step.  tmux outlives the application.                                   *)
(*                                                                         *)
(* One workspace is modelled: present is its directory on disk, workspace  *)
(* what the store last loaded of it.  relaunched and disputed are history: *)
(* the chats a resume started again, and the chats started while a call    *)
(* was deleting their record or left running by a kill tmux did not answer.*)
(***************************************************************************)
EXTENDS Integers, FiniteSets, FiniteSetsExt

CONSTANTS
    Users,         \* calls of windows, the HTTP and the MCP adapters
    Ender,         \* the goroutine of EndOwnSession
    Runner,        \* the goroutine inside Scheduler.execute
    Cap,           \* maxConcurrentAgentSessions
    MaxChats,      \* bound: chats ever created
    MaxRequests,   \* bound: calls and edits from outside the scheduler
    MaxFaults      \* bound: stops of the process, failed statements and commands

ASSUME SessionsAssumption ==
    /\ Cap \in Nat \ {0}
    /\ MaxChats \in Nat \ {0}
    /\ MaxRequests \in Nat /\ MaxFaults \in Nat
    /\ Ender \notin Users /\ Runner \notin Users /\ Ender # Runner

VARIABLES
    record,     \* row id -> terminal id; 0 is no row
    born,       \* terminal ids minted
    live,       \* terminal ids tmux runs a session for
    present,    \* the workspace's directory holds a manifest
    workspace,  \* Status of the manifest: valid, broken (unparsable), absent
    call,       \* what each caller is in the middle of
    up, quitting,   \* the process, and its context cancelled
    requests, faults,
    relaunched, disputed

process  == <<up, quitting>>
witness  == <<relaunched, disputed>>
sessions == <<record, born, live, present, workspace, call, requests, faults, relaunched, disputed>>

Ids     == 1 .. MaxChats
Chats   == 1 .. MaxChats
Callers == Users \cup {Ender, Runner}
Points  == {"idle", "spawn", "settle", "drop", "remove", "clear", "reload", "delay", "launched", "failed"}
Idle    == [at |-> "idle", id |-> 0, chat |-> 0, resume |-> FALSE]

Recorded   == {record[i] : i \in Ids} \ {0}
Free(c)    == up /\ call[c].at = "idle"
\* The row id SQLite gives an insert: INTEGER PRIMARY KEY, no AUTOINCREMENT.
NextId     == 1 + Max({0} \cup {i \in Ids : record[i] # 0})
\* Only the scheduler's loop runs under the application's context.
Detached(c) == c = Runner

SessionTypes ==
    /\ record \in [Ids -> 0 .. MaxChats] /\ born \in 0 .. MaxChats
    /\ live \subseteq 1 .. born
    /\ call \in [Callers -> [at : Points, id : 0 .. MaxChats, chat : 0 .. MaxChats, resume : BOOLEAN]]
    /\ present \in BOOLEAN /\ workspace \in {"valid", "broken", "absent"}
    /\ up \in BOOLEAN /\ quitting \in BOOLEAN
    /\ requests \in 0 .. MaxRequests /\ faults \in 0 .. MaxFaults
    /\ relaunched \subseteq Chats /\ disputed \subseteq Chats

SessionInit ==
    /\ record = [i \in Ids |-> 0] /\ born = 0 /\ live = {} /\ present = TRUE /\ workspace = "valid"
    /\ call = [c \in Callers |-> Idle]
    /\ up = TRUE /\ quitting = FALSE /\ requests = 0 /\ faults = 0
    /\ relaunched = {} /\ disputed = {}

Fault   == faults < MaxFaults /\ faults' = faults + 1
Request == requests < MaxRequests /\ requests' = requests + 1

-----------------------------------------------------------------------------
(* Starting and resuming.                                                  *)

\* The scheduler reads the answer of its launch; the other callers are done.
Answer(c, outcome) ==
    call' = [call EXCEPT ![c] = IF Detached(c) THEN [call[c] EXCEPT !.at = outcome] ELSE Idle]

\* launchTerminal counts tmux's sessions, and refuses at the cap.
BelowCap == Cardinality(live) < Cap

\* discardDetached: a launch nobody watches leaves no record behind.  The
\* delete runs under the launch's own context and its error is ignored.
Discard(c, id, cancelled) ==
    record' = IF Detached(c) /\ ~cancelled THEN [record EXCEPT ![id] = 0] ELSE record

\* startSession inserts the record, then launchTerminal counts; nothing reads
\* between the two.
StartSession(c, cancelled) ==
    /\ Free(c) /\ ~cancelled
    /\ workspace = "valid"
    /\ born < MaxChats
    /\ born' = born + 1
    /\ \/ /\ BelowCap
          /\ record' = [record EXCEPT ![NextId] = born + 1]
          /\ call' = [call EXCEPT ![c] = [at |-> "spawn", id |-> NextId, chat |-> born + 1, resume |-> FALSE]]
       \/ /\ ~BelowCap
          /\ record' = IF Detached(c) THEN record ELSE [record EXCEPT ![NextId] = born + 1]
          /\ Answer(c, "failed")
    /\ UNCHANGED <<live, relaunched, disputed, present, workspace, process>>

\* Another call has deleted the record c launches from, or is about to: a
\* deletion past its kill, or a launch that may discard the record its row id
\* then names.
Contended(c) ==
    \/ call[c].chat \notin Recorded
    \/ \E d \in Callers \ {c} :
        \/ call[d].at \in {"remove", "clear"}
        \/ call[d].at \in {"drop", "spawn"} /\ call[d].id = call[c].id

\* NewSession refuses a name tmux already runs; the command may fail.  What
\* a window's launch does after it only reports.
Spawn(c, cancelled) ==
    /\ up /\ call[c].at = "spawn"
    /\ \/ /\ ~cancelled /\ call[c].chat \notin live
          /\ live' = live \cup {call[c].chat}
          /\ call' = [call EXCEPT ![c] = IF Detached(c) THEN [@ EXCEPT !.at = "settle"] ELSE Idle]
          /\ relaunched' = IF call[c].resume THEN relaunched \cup {call[c].chat} ELSE relaunched
          /\ disputed' = IF Contended(c) THEN disputed \cup {call[c].chat} ELSE disputed
          /\ UNCHANGED <<record, faults>>
       \/ /\ \/ (cancelled \/ call[c].chat \in live) /\ UNCHANGED faults
             \/ ~cancelled /\ call[c].chat \notin live /\ Fault
          /\ Discard(c, call[c].id, cancelled)
          /\ Answer(c, "failed")
          /\ UNCHANGED <<live, relaunched, disputed>>
    /\ UNCHANGED <<born, present, workspace, process>>

\* Touch, then awaitEarlyExit: has-session for half a second.  A cancelled
\* context fails the first and makes the second answer "exited".
Settle(c, cancelled) ==
    /\ up /\ call[c].at = "settle"
    /\ \/ /\ ~cancelled
          /\ Answer(c, IF call[c].chat \in live THEN "launched" ELSE "failed")
          /\ UNCHANGED faults
       \/ /\ \/ cancelled /\ UNCHANGED faults
             \/ ~cancelled /\ Fault
          /\ Answer(c, "failed")
    /\ UNCHANGED <<record, born, live, relaunched, disputed, present, workspace, process>>

\* A live session is attached to; one that ended is launched again under the
\* record's terminal id.
ResumeSession(u, i) ==
    /\ Free(u) /\ record[i] # 0
    /\ workspace = "valid"
    /\ record[i] \notin live /\ BelowCap
    /\ call' = [call EXCEPT ![u] = [at |-> "spawn", id |-> i, chat |-> record[i], resume |-> TRUE]]
    /\ UNCHANGED <<record, born, live, faults, relaunched, disputed, present, workspace, process>>

-----------------------------------------------------------------------------
(* Closing and deleting.                                                   *)

CloseSession(u, i) ==
    /\ Free(u) /\ record[i] \in live
    /\ live' = live \ {record[i]}
    /\ UNCHANGED <<record, born, call, faults, relaunched, disputed, present, workspace, process>>

\* Mutant of KillSession: the record goes without its terminal.
KillNothing(t) == UNCHANGED <<live, faults, disputed>>

\* HasSession reads every tmux error as "no such session".
KillSession(t) ==
    \/ live' = live \ {t} /\ UNCHANGED <<faults, disputed>>
    \/ t \in live /\ Fault /\ UNCHANGED live /\ disputed' = disputed \cup {t}

\* DeleteSession: the terminal first, ...
KillForDelete(c, i) ==
    /\ record[i] # 0
    /\ KillSession(record[i])
    /\ call' = [call EXCEPT ![c] = [at |-> "drop", id |-> i, chat |-> record[i], resume |-> FALSE]]
    /\ UNCHANGED <<record, born, relaunched, present, workspace, process>>

\* ... then the record, by its row id.
DropRecord(c) ==
    /\ up /\ call[c].at = "drop"
    /\ \/ record' = [record EXCEPT ![call[c].id] = 0] /\ UNCHANGED faults
       \/ Fault /\ UNCHANGED record
    /\ call' = [call EXCEPT ![c] = Idle]
    /\ UNCHANGED <<born, live, present, workspace, relaunched, disputed, process>>

DeleteSession(u, i) == Free(u) /\ KillForDelete(u, i)

\* The agent presents its token; the delete follows after a delay, by row id.
EndOwnSession(i) ==
    /\ Free(Ender) /\ record[i] \in live
    /\ call' = [call EXCEPT ![Ender] = [at |-> "delay", id |-> i, chat |-> record[i], resume |-> FALSE]]
    /\ UNCHANGED <<record, born, live, faults, relaunched, disputed, present, workspace, process>>

EndAfter ==
    /\ up /\ call[Ender].at = "delay"
    /\ \/ KillForDelete(Ender, call[Ender].id)
       \/ /\ record[call[Ender].id] = 0
          /\ call' = [call EXCEPT ![Ender] = Idle]
          /\ UNCHANGED <<record, born, live, faults, relaunched, disputed, present, workspace, process>>

\* What a call that answers or gives up leaves of itself.
Return(u) == call' = [call EXCEPT ![u] = Idle]
Reach(u, point) == call' = [call EXCEPT ![u] = [Idle EXCEPT !.at = point]]

\* DeleteWorkspace: every terminal of the records it listed.  A kill that
\* fails ends the call; one whose probe fails is read as "no such session".
KillWorkspace(u) ==
    /\ Free(u) /\ workspace # "absent"
    /\ \/ live' = live \ Recorded /\ Reach(u, "remove") /\ UNCHANGED <<faults, disputed>>
       \/ /\ Fault
          /\ \E spared \in SUBSET (live \cap Recorded) \ {{}} :
              /\ live' = live \ (Recorded \ spared)
              /\ \/ Return(u) /\ UNCHANGED disputed
                 \/ Reach(u, "remove") /\ disputed' = disputed \cup spared
    /\ UNCHANGED <<record, born, present, workspace, relaunched, process>>

\* Then the directory, which has to hold a manifest.  A removal that fails may
\* have taken the manifest with it.
RemoveDirectory(u) ==
    /\ up /\ call[u].at = "remove"
    /\ \/ present /\ present' = FALSE /\ Reach(u, "clear") /\ UNCHANGED faults
       \/ present /\ Fault /\ present' \in BOOLEAN /\ Return(u)
       \/ ~present /\ Return(u) /\ UNCHANGED <<present, faults>>
    /\ UNCHANGED <<record, born, live, workspace, relaunched, disputed, process>>

\* Then, in one transaction, the rows, ...
ClearWorkspace(u) ==
    /\ up /\ call[u].at = "clear"
    /\ record' = [i \in Ids |-> 0]
    /\ Reach(u, "reload")
    /\ UNCHANGED <<born, live, present, workspace, faults, relaunched, disputed, process>>

\* ... which stay when it fails: the call returns without its reload.
ClearFails(u) ==
    /\ up /\ call[u].at = "clear" /\ Fault
    /\ Return(u)
    /\ UNCHANGED <<record, born, live, present, workspace, relaunched, disputed, process>>

\* Store.Reload: the directory that is gone leaves the store's view.
Reload == workspace' = IF present THEN workspace ELSE "absent"

ReloadWorkspace(u) ==
    /\ up /\ call[u].at = "reload"
    /\ Reload /\ Return(u)
    /\ UNCHANGED <<record, born, live, present, faults, relaunched, disputed, process>>

\* The root's watcher reloads by itself.
Watch ==
    /\ up /\ ~present /\ workspace # "absent"
    /\ Reload
    /\ UNCHANGED <<record, born, live, present, call, requests, faults, relaunched, disputed, process>>

\* The agent ends by itself, whether or not the application is there.
AgentExits ==
    /\ \E t \in live : live' = live \ {t}
    /\ UNCHANGED <<record, born, call, requests, faults, relaunched, disputed, present, workspace, process>>

UserNext ==
    \/ /\ Request
       /\ \/ \E u \in Users : StartSession(u, FALSE) /\ UNCHANGED faults
          \/ \E u \in Users, i \in Ids : ResumeSession(u, i) \/ DeleteSession(u, i)
          \/ \E i \in Ids : EndOwnSession(i)
    \/ /\ UNCHANGED requests
       /\ \/ \E u \in Users : Spawn(u, FALSE) \/ DropRecord(u) \/ \E i \in Ids : CloseSession(u, i)
          \/ EndAfter \/ DropRecord(Ender)

=============================================================================
