----------------------------- MODULE Scheduler -----------------------------
(***************************************************************************)
(* Workspace schedules (internal/app/schedule over store_schedule.go and   *)
(* schedule_adapters.go): a loop that evaluates every schedule of the      *)
(* workspace against a stored cursor and starts a chat for the latest      *)
(* occurrence in the window, and RunNow beside it.  The chats are those of *)
(* AgentSessions.                                                          *)
(*                                                                         *)
(* pass is the holder of Scheduler.mu.  The steps between a read of the    *)
(* database and the next write to it that no other actor can tell apart    *)
(* are one step; the launch is AgentSessions' steps, and the run row and   *)
(* the cursor are two writes after it.                                     *)
(*                                                                         *)
(* chats .. kept are history: which schedule and occurrence a chat was     *)
(* started for, the occurrences the quit left open or whose cursor was     *)
(* never written, the chats tmux failed to report, when a pass found a     *)
(* schedule gone or its directory went, whether a pass ran beside a        *)
(* deletion, and the cursors a deletion cut short left behind.             *)
(***************************************************************************)
EXTENDS AgentSessions, SequencesExt

CONSTANTS
    Schedules,     \* the ids a manifest may declare
    Crons,         \* expressions
    Occurs,        \* cron -> the times it names
    Grace,         \* grace
    Keep,          \* ScheduleRunLimit
    MaxTime        \* bound: the clock

ASSUME ScheduleAssumption ==
    /\ Schedules # {} /\ Crons # {}
    /\ Occurs \in [Crons -> SUBSET (1 .. MaxTime)]
    /\ Grace \in Nat /\ Keep \in Nat \ {0}
    /\ MaxTime \in Nat

VARIABLES
    now,
    spec,      \* the schedules the store last loaded
    cursor,    \* schedule_cursor rows
    runs,      \* schedule_run rows, newest first
    pass,      \* the locals of pass and RunNow
    chats, open, torn, missed, gone, crossed, kept

history   == <<chats, open, torn, missed, gone, crossed, kept>>
tables    == <<cursor, runs>>
svars == <<record, born, live, present, workspace, call, up, quitting, requests, faults, relaunched, disputed,
           now, spec, cursor, runs, pass, chats, open, torn, missed, gone, crossed, kept>>

Times    == 0 .. MaxTime
Specs    == [on : BOOLEAN, cron : Crons, disabled : BOOLEAN, skip : BOOLEAN]
NoSpec   == [on |-> FALSE, cron |-> CHOOSE c \in Crons : TRUE, disabled |-> FALSE, skip |-> FALSE]
Cursors  == [through : Times \cup {-1}, cron : Crons]
NoCursor == [through |-> -1, cron |-> CHOOSE c \in Crons : TRUE]
Statuses == {"launched", "skipped", "failed"}
\* chat is the terminal id behind session: what the row means, not a column.
Run      == [for : Times, manual : BOOLEAN, status : Statuses, session : 0 .. MaxChats, chat : 0 .. MaxChats]
Steps    == {"idle", "next", "launch", "save"}
NoPass   == [at |-> "idle", manual |-> FALSE, time |-> 0, specs |-> [s \in Schedules |-> NoSpec],
             scope |-> FALSE, todo |-> {}, cur |-> CHOOSE s \in Schedules : TRUE, for |-> 0,
             launched |-> FALSE, failed |-> {}]

TypeOK ==
    /\ SessionTypes
    /\ now \in Times
    /\ spec \in [Schedules -> Specs]
    /\ cursor \in [Schedules -> Cursors]
    /\ \A s \in Schedules : runs[s] \in Seq(Run) /\ Len(runs[s]) <= Keep
    /\ pass \in [at : Steps, manual : BOOLEAN, time : Times, specs : [Schedules -> Specs], scope : BOOLEAN,
                 todo : SUBSET Schedules, cur : Schedules, for : Times,
                 launched : BOOLEAN, failed : SUBSET Schedules]
    /\ chats \subseteq [s : Schedules, for : Times, chat : Chats, manual : BOOLEAN]
    /\ open \subseteq Schedules \X Times /\ torn \subseteq Schedules \X Times
    /\ missed \subseteq Chats
    /\ gone \in [Schedules -> Times \cup {-1}] /\ crossed \in BOOLEAN
    /\ kept \subseteq Schedules

\* Declares, removes, re-times, pauses or re-words one schedule.
Edited(sp) ==
    IF ~sp.on THEN {[NoSpec EXCEPT !.on = TRUE, !.cron = c] : c \in Crons}
    ELSE {NoSpec, [sp EXCEPT !.disabled = ~@], [sp EXCEPT !.skip = ~@]}
         \cup {[sp EXCEPT !.cron = c] : c \in Crons \ {sp.cron}}

Init ==
    /\ SessionInit
    /\ now = 0
    /\ spec \in [Schedules -> Edited(NoSpec)]
    /\ cursor = [s \in Schedules |-> NoCursor]
    /\ runs = [s \in Schedules |-> <<>>]
    /\ pass = NoPass
    /\ chats = {} /\ open = {} /\ torn = {} /\ missed = {}
    /\ gone = [s \in Schedules |-> -1] /\ crossed = FALSE /\ kept = {}

-----------------------------------------------------------------------------
(* Evaluate.                                                               *)

\* The occurrences after the cursor, up to now.
Window(s, through, until) ==
    {t \in Occurs[pass.specs[s].cron] : through < t /\ t <= until}

\* A schedule seen for the first time, or re-timed, starts from now.
Fresh(s) == cursor[s].through = -1 \/ cursor[s].cron # pass.specs[s].cron

\* The latest occurrence is the one decided on; NoneDue when there is none.
NoneDue == -1
Decision(s) ==
    IF Fresh(s) \/ pass.specs[s].disabled THEN NoneDue
    ELSE Max({NoneDue} \cup Window(s, cursor[s].through, pass.time))

\* Missed while the app was closed, and on_missed says to skip.
SkipMissed(s, t) == pass.specs[s].skip /\ pass.time - t > Grace

-----------------------------------------------------------------------------
(* The pass.                                                               *)

\* RunNow runs under its caller's context, the loop under the application's.
Cancelled == quitting /\ ~pass.manual
\* A workspace is being deleted whose directory has gone.
Deletion  == \E u \in Users : call[u].at \in {"clear", "reload"}

\* scheduleWorkspaces.Snapshot: a manifest that failed to parse contributes
\* neither schedules nor a scope to prune.
BeginPass ==
    /\ up /\ ~quitting /\ pass.at = "idle"
    /\ pass' = [NoPass EXCEPT !.at = "next", !.time = now, !.specs = spec, !.scope = workspace = "valid",
                   !.todo = {s \in Schedules : workspace = "valid" /\ spec[s].on}]
    /\ crossed' = (crossed \/ Deletion)
    /\ UNCHANGED <<sessions, process, now, spec, tables, chats, open, torn, missed, gone, kept>>

Take(s)   == up /\ pass.at = "next" /\ s \in pass.todo

\* Mutant of Closed: the window closes when the cursor is written.
ClosedLate(s) == [through |-> now, cron |-> pass.specs[s].cron]

Closed(s) == [through |-> pass.time, cron |-> pass.specs[s].cron]

\* A window with nothing to run closes at the pass's time.
EvaluateNone(s) ==
    /\ Take(s) /\ ~Cancelled /\ Decision(s) = NoneDue
    /\ cursor' = [cursor EXCEPT ![s] = Closed(s)]
    /\ kept' = kept \ {s}
    /\ pass' = [pass EXCEPT !.todo = @ \ {s}]
    /\ UNCHANGED <<sessions, process, now, spec, runs, chats, open, torn, missed, gone, crossed>>

\* The cursor cannot be read, or that write fails: the schedule waits for the
\* next pass.
EvaluateFails(s) ==
    /\ Take(s)
    /\ (Cancelled /\ UNCHANGED faults) \/ (~Cancelled /\ Fault)
    /\ pass' = [pass EXCEPT !.todo = @ \ {s}, !.failed = @ \cup {s}]
    /\ UNCHANGED <<record, born, live, present, workspace, call, requests, relaunched, disputed, process, now, spec, tables, history>>

\* Mutant of Saveable: the write runs under the pass's context.
SaveableLive == ~Cancelled

\* A chat that exists is recorded even while the application quits.
Saveable == pass.launched \/ ~Cancelled

\* The occurrence's cursor closes at the pass's time, whatever came of it.
SaveCursor ==
    /\ up /\ pass.at = "save"
    /\ \/ /\ Saveable
          /\ cursor' = [cursor EXCEPT ![pass.cur] = Closed(pass.cur)]
          /\ kept' = kept \ {pass.cur}
          /\ pass' = [pass EXCEPT !.at = "next", !.launched = FALSE]
          /\ UNCHANGED <<faults, torn>>
       \/ /\ (~Saveable /\ UNCHANGED faults) \/ (Saveable /\ Fault)
          /\ torn' = IF Saveable \/ ~pass.launched THEN torn \cup {<<pass.cur, pass.for>>} ELSE torn
          /\ pass' = [pass EXCEPT !.at = "next", !.launched = FALSE, !.failed = @ \cup {pass.cur}]
          /\ UNCHANGED <<cursor, kept>>
    /\ UNCHANGED <<record, born, live, present, workspace, call, requests, relaunched, disputed, process, now, spec, runs,
                   chats, open, missed, gone, crossed>>

\* PruneCursors: what the workspace no longer declares.
Pruned == {s \in Schedules : pass.scope /\ ~pass.specs[s].on}

EndPass ==
    /\ up /\ pass.at = "next" /\ pass.todo = {}
    /\ \/ /\ ~Cancelled
          /\ cursor' = [s \in Schedules |-> IF s \in Pruned THEN NoCursor ELSE cursor[s]]
          /\ gone' = [s \in Schedules |-> IF s \in Pruned THEN now ELSE gone[s]]
          /\ kept' = kept \ Pruned
          /\ UNCHANGED faults
       \/ /\ (Cancelled /\ UNCHANGED faults) \/ (~Cancelled /\ Fault)
          /\ UNCHANGED <<cursor, gone, kept>>
    /\ pass' = NoPass
    /\ UNCHANGED <<record, born, live, present, workspace, call, requests, relaunched, disputed, process, now, spec, runs,
                   chats, open, torn, missed, crossed>>

-----------------------------------------------------------------------------
(* execute.                                                                *)

\* Mutant of LastLaunched: the history is read oldest first.
FirstLaunched(s) ==
    LET launched == {i \in DOMAIN runs[s] : runs[s][i].status = "launched"} IN
    IF launched = {} THEN 0 ELSE runs[s][Max(launched)].session

\* LastLaunchedRun's session; 0 when no run that is kept started a chat.
LastLaunched(s) ==
    LET launched == {i \in DOMAIN runs[s] : runs[s][i].status = "launched"} IN
    IF launched = {} THEN 0 ELSE runs[s][Min(launched)].session

\* SessionLive, by row id.
SessionLive(id) == id # 0 /\ record[id] # 0 /\ record[id] \in live

\* What execute is called with, e: by the pass, for the latest occurrence; by
\* RunNow, which waits for the lock, for this moment.
Due(s)    == [pass EXCEPT !.todo = @ \ {s}, !.cur = s, !.for = Decision(s)]
Manual(s) == [NoPass EXCEPT !.manual = TRUE, !.time = now, !.cur = s, !.for = now]

Overlaps(e) == SessionLive(LastLaunched(e.cur))
TooLate(e)  == ~e.manual /\ SkipMissed(e.cur, e.for)

\* RunNow is done; the pass goes on to the cursor.
Executed(e, launched, errors) ==
    pass' = IF e.manual THEN NoPass
            ELSE [e EXCEPT !.at = "save", !.launched = launched, !.failed = @ \cup errors]

\* PruneScheduleRuns keeps the newest rows, whatever their status.
Trim(rows) == SubSeq(rows, 1, Min({Keep, Len(rows)}))

\* InsertRun, in the transaction that trims the history; or it fails.
InsertRun(e, status, id, chat) ==
    \/ /\ runs' = [runs EXCEPT ![e.cur] = Trim(<<[for |-> e.for, manual |-> e.manual,
                       status |-> status, session |-> id, chat |-> chat]>> \o @)]
       /\ Executed(e, status = "launched", {})
       /\ UNCHANGED faults
    \/ /\ Fault
       /\ Executed(e, status = "launched", {e.cur})
       /\ UNCHANGED runs

\* A refusal is recorded as a run: the previous chat is live, or the
\* occurrence was missed.
Refuse(e) ==
    /\ Overlaps(e) \/ TooLate(e)
    /\ InsertRun(e, "skipped", 0, 0)
    /\ UNCHANGED <<record, born, live, call, relaunched, disputed, missed>>

\* The previous run or its chat cannot be read: the occurrence is spent all
\* the same, without a run.
CheckFails(e) ==
    /\ Fault
    /\ Executed(e, FALSE, {e.cur})
    /\ UNCHANGED <<runs, record, born, live, call, relaunched, disputed, missed>>

\* The checks pass, and the launch creates its record and counts.  A tmux that
\* does not answer is read as a chat that ended.
Launch(e) ==
    /\ ~TooLate(e)
    /\ \/ ~Overlaps(e) /\ UNCHANGED <<faults, missed>>
       \/ Overlaps(e) /\ Fault /\ missed' = missed \cup {record[LastLaunched(e.cur)]}
    /\ StartSession(Runner, FALSE)
    /\ pass' = [e EXCEPT !.at = "launch"]
    /\ UNCHANGED runs

\* The launch fails before it has a record: the workspace no longer opens; or
\* MaxChats is reached.
LaunchFails(e) ==
    /\ ~Overlaps(e) /\ ~TooLate(e)
    /\ workspace # "valid" \/ born = MaxChats
    /\ InsertRun(e, "failed", 0, 0)
    /\ UNCHANGED <<record, born, live, call, relaunched, disputed, missed>>

Decide(e) ==
    /\ Refuse(e) \/ CheckFails(e) \/ Launch(e) \/ LaunchFails(e)
    /\ UNCHANGED <<present, workspace, process, now, spec, cursor, chats, open, torn, gone, crossed, kept>>

EvaluateDue(s) ==
    /\ Take(s) /\ ~Cancelled /\ Decision(s) # NoneDue
    /\ Decide(Due(s))
    /\ UNCHANGED requests

\* The cursor stays where it is: the next occurrence still happens.
RunNow(s) ==
    /\ up /\ pass.at = "idle" /\ Request
    /\ workspace = "valid" /\ spec[s].on
    /\ Decide(Manual(s))

LaunchSpawns ==
    /\ Spawn(Runner, Cancelled)
    /\ chats' = IF live' = live THEN chats
                ELSE chats \cup {[s |-> pass.cur, for |-> pass.for, chat |-> call[Runner].chat, manual |-> pass.manual]}
    /\ UNCHANGED <<requests, now, spec, tables, pass, open, torn, missed, gone, crossed, kept>>

LaunchSettles ==
    /\ Settle(Runner, Cancelled)
    /\ UNCHANGED <<requests, now, spec, tables, pass, history>>

\* A launch that failed under a cancelled context is not the schedule failing.
Recordable == call[Runner].at = "launched" \/ (call[Runner].at = "failed" /\ ~Cancelled)

RecordRun ==
    /\ up /\ pass.at = "launch" /\ Recordable
    /\ IF call[Runner].at = "launched" THEN InsertRun(pass, "launched", call[Runner].id, call[Runner].chat)
       ELSE InsertRun(pass, "failed", 0, 0)
    /\ call' = [call EXCEPT ![Runner] = Idle]
    /\ UNCHANGED <<record, born, live, present, workspace, requests, relaunched, disputed, process, now, spec, cursor, history>>

\* The quit stopped it before a chat was started, as the code sees it: the
\* occurrence stays open for the next start.
LeaveOpen ==
    /\ up /\ pass.at = "launch" /\ Cancelled /\ call[Runner].at = "failed"
    /\ pass' = [pass EXCEPT !.at = "next", !.failed = @ \cup {pass.cur}]
    /\ call' = [call EXCEPT ![Runner] = Idle]
    /\ open' = open \cup {<<pass.cur, pass.for>>}
    /\ UNCHANGED <<record, born, live, present, workspace, requests, faults, relaunched, disputed, process, now, spec, tables,
                   chats, torn, missed, gone, crossed, kept>>

-----------------------------------------------------------------------------
(* The process, the clock and the manifest.                                *)

Quit ==
    /\ up /\ ~quitting /\ Fault
    /\ quitting' = TRUE
    /\ UNCHANGED <<record, born, live, present, workspace, call, requests, relaunched, disputed, up, now, spec, tables, pass, history>>

\* The rows a deletion that does not reach them leaves behind.
Outlive == kept' = kept \cup {s \in Schedules : cursor[s].through # -1}

\* What a stop loses: every goroutine, the occurrence being executed and a
\* deletion's rows; the next start loads the directory there is.
Ends ==
    /\ up' = FALSE /\ quitting' = FALSE
    /\ Reload
    /\ IF \E u \in Users : call[u].at = "clear" THEN Outlive ELSE UNCHANGED kept
    /\ call' = [c \in Callers |-> Idle]
    /\ pass' = NoPass
    /\ torn' = IF pass.at \in {"launch", "save"} THEN torn \cup {<<pass.cur, pass.for>>} ELSE torn
    /\ UNCHANGED <<record, born, live, present, requests, relaunched, disputed, now, spec, tables,
                   chats, open, missed, gone, crossed>>

\* Close joins the loop before it goes on; a RunNow is not waited for.
Exit  == quitting /\ up /\ (pass.at = "idle" \/ pass.manual) /\ Ends /\ UNCHANGED faults
Crash == up /\ ~quitting /\ Ends /\ Fault

Start ==
    /\ ~up /\ up' = TRUE
    /\ UNCHANGED <<sessions, quitting, now, spec, tables, pass, history>>

Tick ==
    /\ now < MaxTime /\ now' = now + 1
    /\ UNCHANGED <<sessions, process, spec, tables, pass, history>>

EditSchedule(s) ==
    /\ present /\ workspace = "valid"
    /\ \E sp \in Edited(spec[s]) : spec' = [spec EXCEPT ![s] = sp]
    /\ UNCHANGED <<present, workspace>>

\* The manifest stops or starts to parse; the last good schedules are kept.
EditManifest ==
    /\ present /\ workspace \in {"valid", "broken"}
    /\ workspace' = IF workspace = "valid" THEN "broken" ELSE "valid"
    /\ UNCHANGED <<present, spec>>

\* A workspace is built again under the same directory name.
CreateWorkspace ==
    /\ ~present /\ present' = TRUE
    /\ workspace' = "valid"
    /\ spec' \in [Schedules -> Edited(NoSpec)]

Edit ==
    /\ Request
    /\ EditManifest \/ CreateWorkspace \/ \E s \in Schedules : EditSchedule(s)
    /\ UNCHANGED <<record, born, live, call, faults, relaunched, disputed, process, now, tables, pass, history>>

\* Mutant of DeleteByWorkspace: the cursors are left behind.
DeleteRunsOnly == runs' = [s \in Schedules |-> <<>>] /\ UNCHANGED cursor

DeleteByWorkspace ==
    /\ cursor' = [s \in Schedules |-> NoCursor]
    /\ runs' = [s \in Schedules |-> <<>>]

\* The passes the directory's going is seen by, and what it does not reach.
Vanishes(u) ==
    /\ gone' = [s \in Schedules |-> now]
    /\ crossed' = (crossed \/ (pass.at # "idle" /\ ~pass.manual))
    /\ IF call'[u].at = "clear" THEN UNCHANGED kept ELSE Outlive

DeleteWorkspace(u) ==
    \/ KillWorkspace(u) /\ Request /\ UNCHANGED <<tables, gone, crossed, kept>>
    \/ /\ RemoveDirectory(u) /\ UNCHANGED <<tables, requests>>
       /\ IF present' = present THEN UNCHANGED <<gone, crossed, kept>> ELSE Vanishes(u)
    \/ /\ ClearWorkspace(u) /\ UNCHANGED <<gone, crossed, requests>>
       /\ DeleteByWorkspace /\ kept' = {}
    \/ ClearFails(u) /\ Outlive /\ UNCHANGED <<tables, gone, crossed, requests>>
    \/ ReloadWorkspace(u) /\ UNCHANGED <<tables, gone, crossed, kept, requests>>

-----------------------------------------------------------------------------
PassStep ==
    \/ SaveCursor \/ EndPass
    \/ \E s \in Schedules : EvaluateNone(s) \/ EvaluateFails(s) \/ EvaluateDue(s)
    \/ LaunchSpawns \/ LaunchSettles \/ RecordRun \/ LeaveOpen

Others ==
    \/ (UserNext \/ AgentExits \/ Watch) /\ UNCHANGED <<now, spec, tables, pass, history>>
    \/ \E u \in Users : DeleteWorkspace(u) /\ UNCHANGED <<now, spec, pass, chats, open, torn, missed>>
    \/ \E s \in Schedules : RunNow(s)
    \/ Edit
    \/ Quit \/ Exit \/ Crash \/ Start \/ Tick

Next == BeginPass \/ PassStep \/ Others

Spec == Init /\ [][Next]_svars

-----------------------------------------------------------------------------
(* Properties.                                                             *)

\* No occurrence starts two chats: the mutex keeps a pass and RunNow apart,
\* and the cursor is written once the chat runs, even while the application
\* quits.  Only an execution cut short before that write (a crash, a failed
\* write, a quit that hid the launch) can be repeated.
LaunchedOnce ==
    \A c, d \in chats :
        (~c.manual /\ ~d.manual /\ c.s = d.s /\ c.for = d.for /\ c # d) => <<c.s, c.for>> \in open \cup torn

\* Two chats of one schedule do not run side by side, unless a user resumed
\* one of them, tmux failed to report it, or the row that ties it to its
\* schedule is gone (its run trimmed or never written, its record deleted).
OneChatPerSchedule ==
    \A c, d \in chats :
        (c.s = d.s /\ c # d /\ {c.chat, d.chat} \subseteq live) =>
            \E e \in {c, d} :
                \/ e.chat \in relaunched \cup missed
                \/ e.chat \notin Recorded
                \/ \A i \in DOMAIN runs[c.s] : runs[c.s][i].chat # e.chat

\* The cursor passes an occurrence of an enabled schedule only with a run row
\* for the latest one in the window, or an error that cost that row.
Accounted ==
    [][\A s \in Schedules :
        LET due == {t \in Occurs[cursor[s].cron] : cursor[s].through < t /\ t <= cursor'[s].through} IN
        (/\ cursor[s].through # -1 /\ cursor'[s].cron = cursor[s].cron
         /\ due # {} /\ ~pass.specs[s].disabled)
        => s \in pass.failed \/ (runs[s] # <<>> /\ runs[s][1].for = Max(due))]_svars

\* A schedule that was gone never runs for an occurrence from before it was
\* declared again, unless a pass ran beside the deletion of its workspace, or
\* that deletion was cut short between the directory and the rows and nothing
\* has written or pruned the cursor since.
NoBackfire ==
    [][\A s \in Schedules :
        (runs'[s] # runs[s] /\ runs'[s] # <<>>) =>
            \/ runs'[s][1].manual \/ crossed \/ s \in kept
            \/ runs'[s][1].for > gone[s]]_svars

\* No agent is left running without a record to reach it by, unless its
\* launch overlapped the deletion of that record, or tmux failed to answer.
Addressable == live \ Recorded \subseteq disputed

\* A pass leaves no schedule behind: unless its evaluation reported an error
\* or the workspace was deleted beside it, the cursor of every schedule it saw
\* stands at the pass's time, whatever became of the run.
NoneLeftDue ==
    [][(pass.at = "next" /\ pass'.at = "idle" /\ up') =>
        \A s \in Schedules :
            (pass.scope /\ pass.specs[s].on) =>
                s \in pass.failed \/ crossed \/ cursor[s].through = pass.time]_svars

=============================================================================
