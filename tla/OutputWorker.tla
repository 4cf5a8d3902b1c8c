---------------------------- MODULE OutputWorker ----------------------------
(***************************************************************************)
(* The durable action queue of hive-desktop and the one worker that drains *)
(* it: internal/app/dispatch/output_worker.go over the output_command and  *)
(* job tables (internal/app/data).                                         *)
(*                                                                         *)
(* Flow commits enqueue commands at any time; the ticker and the detail    *)
(* pane's explicit invocations share runMu, so at most one of them is      *)
(* between two database writes.  Every write is its own transaction, so    *)
(* the process may stop, or a write may fail, between any two of them; the *)
(* side effect of an action happens between two writes as well.            *)
(*                                                                         *)
(* The variables pc .. known are the goroutine that holds runMu; pc = idle *)
(* is an unlocked mutex.  claimed, autoRuns, userRuns, writeFailed and     *)
(* faults are history: the program does not keep them.                     *)
(***************************************************************************)
EXTENDS Integers, FiniteSets

CONSTANTS
    Invocations,   \* the (action_id, key) pairs a command is deduplicated on
    MaxAttempts,   \* MaxOutputCommandAttempts
    Batch,         \* DefaultOutputWorkerBatch
    CommandLimit,  \* RetentionPolicy.TerminalOutputCommandLimit
    MaxCommand,    \* bound: command rows ever inserted
    MaxFaults      \* bound: crashes and failed statements together

ASSUME LimitsAssumption ==
    /\ Invocations # {}
    /\ MaxAttempts \in Nat \ {0}
    /\ Batch \in Nat \ {0}
    /\ CommandLimit \in Nat
    /\ MaxCommand \in Nat \ {0}
    /\ MaxFaults \in Nat

\* No row, or a row that retention has deleted.
Statuses == {"none", "pending", "running", "done", "failed"}
Terminal == {"done", "failed"}

\* A command starts at most one job for the queue and one for the pane, and
\* every fault can cost it one more.
MaxJob == 2 * MaxCommand + MaxFaults

Commands == 1 .. MaxCommand
Jobs     == 1 .. MaxJob

VARIABLES
    cmd,        \* output_command rows by id (AUTOINCREMENT: never reused)
    nextCmd,
    job,        \* job rows by id; cmd = 0 is a NULL command_id
    nextJob,
    catalog,    \* the invocations whose action the catalog still knows
    pc, auto, cur, curJob, known,   \* the holder of runMu
    batch, after, taken,            \* Tick's page, its cursor, its quota
    claimed, autoRuns, userRuns, writeFailed, faults

rows    == <<cmd, nextCmd>>
jobRows == <<job, nextJob>>
scan    == <<batch, after, taken>>
holder  == <<auto, cur, curJob, known>>
work    == <<cur, curJob, known>>
history == <<claimed, autoRuns, userRuns>>
failure == <<writeFailed, faults>>
vars == <<cmd, nextCmd, job, nextJob, catalog, pc, auto, cur, curJob, known,
          batch, after, taken, claimed, autoRuns, userRuns, writeFailed, faults>>

CommandRow == [status : Statuses, inv : Invocations, attempts : 0 .. MaxAttempts, rerun : BOOLEAN]
NoCommand  == [status |-> "none", inv |-> CHOOSE i \in Invocations : TRUE, attempts |-> 0, rerun |-> FALSE]
JobRow     == [status : {"none", "queued", "running", "done", "failed"}, cmd : 0 .. MaxCommand]

PCs == {"idle", "scan", "next", "claimed", "begun", "ready", "ok", "error", "close-done", "close-failed"}

RowTypes  == cmd \in [Commands -> CommandRow] /\ nextCmd \in 1 .. MaxCommand + 1
JobTypes  == job \in [Jobs -> JobRow] /\ nextJob \in 1 .. MaxJob + 1
LockTypes == pc \in PCs /\ cur \in 0 .. MaxCommand /\ curJob \in 0 .. MaxJob
FlagTypes == auto \in BOOLEAN /\ known \in BOOLEAN /\ writeFailed \in BOOLEAN
ScanTypes == batch \subseteq Commands /\ after \in 0 .. MaxCommand /\ taken \in Nat
RunTypes  ==
    /\ claimed \subseteq Commands
    /\ autoRuns \in [Commands -> Nat]
    /\ userRuns \in [Commands -> Nat]
RestTypes == catalog \subseteq Invocations /\ faults \in 0 .. MaxFaults

TypeOK ==
    /\ RowTypes /\ JobTypes /\ LockTypes /\ FlagTypes
    /\ ScanTypes /\ RunTypes /\ RestTypes

-----------------------------------------------------------------------------
Init ==
    /\ cmd = [c \in Commands |-> NoCommand]
    /\ nextCmd = 1
    /\ job = [j \in Jobs |-> [status |-> "none", cmd |-> 0]]
    /\ nextJob = 1
    /\ catalog = Invocations
    /\ pc = "idle" /\ auto = FALSE /\ cur = 0 /\ curJob = 0 /\ known = FALSE
    /\ batch = {} /\ after = 0 /\ taken = 0
    /\ claimed = {}
    /\ autoRuns = [c \in Commands |-> 0]
    /\ userRuns = [c \in Commands |-> 0]
    /\ writeFailed = FALSE
    /\ faults = 0

-----------------------------------------------------------------------------
(* The queue's statements.                                                 *)

Rows(i)      == {c \in Commands : cmd[c].status # "none" /\ cmd[c].inv = i}
\* idx_output_command_action_key covers the rows that are not reruns.
BaseRows(i)  == {c \in Rows(i) : ~cmd[c].rerun}
Active(c)    == cmd[c].status \in {"pending", "running"}
Pending      == {c \in Commands : cmd[c].status = "pending"}

Insert(i, status, isRerun) ==
    /\ nextCmd <= MaxCommand
    /\ cmd' = [cmd EXCEPT ![nextCmd] = [status |-> status, inv |-> i, attempts |-> 0, rerun |-> isRerun]]
    /\ nextCmd' = nextCmd + 1

\* A flow commit enqueues an invocation; an existing row makes it a no-op.
Enqueue(i) ==
    /\ BaseRows(i) = {}
    /\ Insert(i, "pending", FALSE)
    /\ UNCHANGED <<jobRows, catalog, pc, holder, scan, history, failure>>

\* Mutant of Listed: the cursor skips a row.
ListedSkips(limit) ==
    {c \in Pending : c > after + 1 /\ Cardinality({d \in Pending : after < d /\ d < c}) < limit}

\* The rows ListRunnableAfter(after, limit) returns, lowest ids first.
Listed(limit) ==
    {c \in Pending : c > after /\ Cardinality({d \in Pending : after < d /\ d < c}) < limit}

\* The goroutine's locals go out of scope: per command, and per pass with
\* the lock.
DropWork == cur' = 0 /\ curJob' = 0 /\ known' = FALSE
Unlock ==
    /\ pc' = "idle"
    /\ auto' = FALSE
    /\ DropWork
    /\ batch' = {} /\ after' = 0 /\ taken' = 0
\* What follows a command: the rest of the page, or the end of Confirm.
Release ==
    IF auto THEN pc' = "next" /\ DropWork /\ UNCHANGED <<auto, scan>> ELSE Unlock

\* A statement fails: the database is busy, full or gone.
Fault == faults < MaxFaults /\ faults' = faults + 1

-----------------------------------------------------------------------------
(* Tick: the automatic drain.                                              *)

TickBegin ==
    /\ pc = "idle"
    /\ pc' = "scan"
    /\ auto' = TRUE
    /\ UNCHANGED <<rows, jobRows, catalog, work, scan, history, failure>>

\* An empty page ends the pass, and so does a listing that fails.
TickList ==
    /\ pc = "scan"
    /\ \/ /\ Listed(Batch - taken) # {}
          /\ batch' = Listed(Batch - taken)
          /\ pc' = "next"
          /\ UNCHANGED <<holder, after, taken, faults>>
       \/ Listed(Batch - taken) = {} /\ Unlock /\ UNCHANGED faults
       \/ Fault /\ Unlock
    /\ UNCHANGED <<rows, jobRows, catalog, history, writeFailed>>

TickPageEnd ==
    /\ pc = "next"
    /\ batch = {}
    /\ IF taken = Batch
       THEN Unlock
       ELSE pc' = "scan" /\ UNCHANGED <<holder, scan>>
    /\ UNCHANGED <<rows, jobRows, catalog, history, failure>>

\* Mutant of RunningJobs: any running job is resumed.
RunningJobsOfAny(c) == {j \in Jobs : job[j].status = "running"}

\* FindRunningJobByCommandID takes the newest of these.
RunningJobs(c) == {j \in Jobs : job[j].status = "running" /\ job[j].cmd = c}

\* The recorder swallows its failures: a job that cannot be begun has id 0,
\* and a write to a job either happens or is skipped.
NewJob ==
    /\ nextJob <= MaxJob
    /\ job' = [job EXCEPT ![nextJob] = [status |-> "queued", cmd |-> 0]]
    /\ nextJob' = nextJob + 1
    /\ curJob' = nextJob
NoJob == curJob' = 0 /\ UNCHANGED jobRows

BeginJob ==
    \/ NewJob /\ UNCHANGED faults
    \/ NoJob /\ Fault

WriteJob(row) ==
    \/ curJob # 0 /\ job' = [job EXCEPT ![curJob] = row] /\ UNCHANGED faults
    \/ curJob # 0 /\ UNCHANGED job /\ Fault
    \/ curJob = 0 /\ UNCHANGED <<job, faults>>

\* process, up to the job it works under: a retry resumes the running job of
\* its earlier attempt; anything else, a failed lookup too, begins a new one.
TickTake(c) ==
    /\ pc = "next"
    /\ c \in batch
    /\ \A d \in batch : c <= d
    /\ cur' = c
    /\ after' = c
    /\ batch' = batch \ {c}
    /\ taken' = taken + 1
    /\ known' = (cmd[c].inv \in catalog)
    /\ \/ /\ curJob' \in RunningJobs(c)
          /\ \A j \in RunningJobs(c) : j <= curJob'
          /\ pc' = "ready"
          /\ UNCHANGED <<jobRows, faults>>
       \/ RunningJobs(c) = {} /\ BeginJob /\ pc' = "begun"
       \/ RunningJobs(c) # {} /\ Fault /\ (NewJob \/ NoJob) /\ pc' = "begun"
    /\ UNCHANGED <<rows, catalog, auto, history, writeFailed>>

-----------------------------------------------------------------------------
(* Confirm: an explicit invocation from the detail pane.                   *)

Hold(c) ==
    /\ pc' = "claimed"
    /\ auto' = FALSE
    /\ cur' = c
    /\ claimed' = claimed \cup {c}
    /\ UNCHANGED <<jobRows, catalog, curJob, known, scan, autoRuns, userRuns, failure>>

\* ConfirmOutputCommand: create the command already running, or claim it from
\* the queue.  A running or terminal row refuses, and nothing changes.
ConfirmCreate(i) ==
    /\ pc = "idle"
    /\ BaseRows(i) = {}
    /\ Insert(i, "running", FALSE)
    /\ Hold(nextCmd)

ConfirmClaim(c) ==
    /\ pc = "idle"
    /\ cmd[c].status = "pending" /\ ~cmd[c].rerun
    /\ cmd' = [cmd EXCEPT ![c].status = "running"]
    /\ Hold(c)
    /\ UNCHANGED nextCmd

\* RerunOutputCommand: some run has finished and none is in flight.
Rerun(i) ==
    /\ pc = "idle"
    /\ \E c \in Rows(i) : cmd[c].status \in Terminal
    /\ \A c \in Rows(i) : ~Active(c)
    /\ Insert(i, "running", TRUE)
    /\ Hold(nextCmd)

\* The catalog lookup and the job of an explicit invocation.  An action that
\* has left the catalog fails the command without running the job.
ConfirmBegin ==
    /\ pc = "claimed"
    /\ BeginJob
    /\ known' = (cmd[cur].inv \in catalog)
    /\ pc' = IF known' THEN "begun" ELSE "error"
    /\ UNCHANGED <<rows, catalog, auto, cur, scan, history, writeFailed>>

-----------------------------------------------------------------------------
(* The part process and Confirm share.                                     *)

\* jobRunning links the job to its command.
LinkJob ==
    /\ pc = "begun"
    /\ WriteJob([status |-> "running", cmd |-> cur])
    /\ pc' = "ready"
    /\ UNCHANGED <<rows, nextJob, catalog, holder, scan, history, writeFailed>>

CountRun ==
    /\ autoRuns' = [autoRuns EXCEPT ![cur] = IF auto THEN @ + 1 ELSE @]
    /\ userRuns' = [userRuns EXCEPT ![cur] = IF auto THEN @ ELSE @ + 1]

\* execute: the executor's side effect, with either result.
Execute ==
    /\ pc = "ready"
    /\ known
    /\ CountRun
    /\ \E result \in {"ok", "error"} : pc' = result
    /\ UNCHANGED <<rows, jobRows, catalog, holder, scan, claimed, failure>>

\* An unknown action, an undecodable payload or unresolved inputs fail the
\* attempt before any side effect.
ExecuteRefused ==
    /\ pc = "ready"
    /\ pc' = "error"
    /\ UNCHANGED <<rows, jobRows, catalog, holder, scan, history, failure>>

\* done: the row becomes terminal before its job does.
MarkDone ==
    /\ pc = "ok"
    /\ cmd' = [cmd EXCEPT ![cur].status = "done"]
    /\ pc' = "close-done"
    /\ UNCHANGED <<nextCmd, jobRows, catalog, holder, scan, history, failure>>

\* Mutant of Exhausted: one attempt too many.
ExhaustedLate == ~auto \/ cmd[cur].attempts >= MaxAttempts

\* An explicit invocation never retries; an automatic one gives up at the
\* attempt limit.
Exhausted == ~auto \/ cmd[cur].attempts + 1 >= MaxAttempts

MarkFailed ==
    /\ pc = "error"
    /\ Exhausted
    /\ cmd' = [cmd EXCEPT ![cur].status = "failed", ![cur].attempts = @ + 1]
    /\ pc' = "close-failed"
    /\ UNCHANGED <<nextCmd, jobRows, catalog, holder, scan, history, failure>>

\* The row stays pending, and its job running, for the next pass.
Retry ==
    /\ pc = "error"
    /\ ~Exhausted
    /\ cmd' = [cmd EXCEPT ![cur].attempts = @ + 1]
    /\ Release
    /\ UNCHANGED <<nextCmd, jobRows, catalog, history, failure>>

\* MarkDone, MarkFailed or Retry itself fails: the row and its job are left as
\* they are and the lock is released.
MarkWriteFails ==
    /\ pc \in {"ok", "error"}
    /\ Fault
    /\ writeFailed' = TRUE
    /\ Release
    /\ UNCHANGED <<rows, jobRows, catalog, history>>

\* jobDone / jobFail, after the command row is terminal.
CloseJob ==
    /\ pc \in {"close-done", "close-failed"}
    /\ WriteJob([job[curJob] EXCEPT !.status = IF pc = "close-done" THEN "done" ELSE "failed"])
    /\ Release
    /\ UNCHANGED <<rows, nextJob, catalog, history, writeFailed>>

-----------------------------------------------------------------------------
(* The rest of the process.                                                *)

\* Mutants of Recovered: the command is queued again; it is left running.
RecoveredQueued(c)  == [cmd[c] EXCEPT !.status = "pending"]
RecoveredRunning(c) == cmd[c]

\* What recovery makes of a command found running: its outcome is unknown,
\* and running it again is not authorized.
Recovered(c) == [cmd[c] EXCEPT !.status = "failed", !.attempts = @ + 1]

\* The process stops anywhere; opening the database again runs
\* RecoverInterruptedOutputCommands before any store exists.
CrashRestart ==
    /\ Fault
    /\ job' = [j \in Jobs |->
                 IF \/ job[j].status = "queued" /\ job[j].cmd = 0
                    \/ job[j].status = "running" /\ job[j].cmd # 0 /\ cmd[job[j].cmd].status = "running"
                 THEN [job[j] EXCEPT !.status = "failed"] ELSE job[j]]
    /\ cmd' = [c \in Commands |->
                 IF cmd[c].status = "running" THEN Recovered(c) ELSE cmd[c]]
    /\ Unlock
    /\ writeFailed' = FALSE
    /\ UNCHANGED <<nextCmd, nextJob, catalog, history>>

\* Mutant of Finished: retention forgets the status filter.
FinishedOrNot == {c \in Commands : cmd[c].status # "none"}

\* Retention deletes all but the newest terminal commands.
Finished == {c \in Commands : cmd[c].status \in Terminal}
Expired  == {c \in Finished : Cardinality({d \in Finished : d > c}) >= CommandLimit}

Prune ==
    /\ Expired # {}
    /\ cmd' = [c \in Commands |-> IF c \in Expired THEN NoCommand ELSE cmd[c]]
    /\ UNCHANGED <<nextCmd, jobRows, catalog, pc, holder, scan, history, failure>>

\* actions.yml is edited on disk and reloaded.
EditCatalog(i) ==
    /\ catalog' = IF i \in catalog THEN catalog \ {i} ELSE catalog \cup {i}
    /\ UNCHANGED <<rows, jobRows, pc, holder, scan, history, failure>>

-----------------------------------------------------------------------------
Worker ==
    \/ TickList \/ TickPageEnd \/ \E c \in Commands : TickTake(c)
    \/ ConfirmBegin \/ LinkJob \/ Execute \/ ExecuteRefused
    \/ MarkDone \/ MarkFailed \/ Retry \/ CloseJob

Next ==
    \/ TickBegin
    \/ Worker
    \/ \E i \in Invocations :
         \/ Enqueue(i) \/ ConfirmCreate(i) \/ Rerun(i) \/ EditCatalog(i)
    \/ \E c \in Commands : ConfirmClaim(c)
    \/ MarkWriteFails
    \/ CrashRestart
    \/ Prune

Spec == Init /\ [][Next]_vars

\* The ticker fires for as long as the process runs and an executor returns.
\* runMu is a sync.Mutex, whose starvation mode hands it to a waiting Tick
\* however often the pane takes it: strong fairness for TickBegin.
FairSpec == Spec /\ WF_vars(Worker) /\ SF_vars(TickBegin)

-----------------------------------------------------------------------------
\* An explicit invocation is a one-shot side effect: however it ends - success,
\* failure, a failed write, a crash and recovery - the command it claimed runs
\* at most once for it.  (output_worker.go: "explicit, one-shot"; recovery
\* marks interrupted commands failed.)
OneShot == \A c \in claimed : userRuns[c] <= 1

\* A command the user has claimed is never again executed in the background,
\* before or after a restart: retrying it would be unauthorized.
NeverBackground == [][\A c \in claimed : autoRuns'[c] = autoRuns[c]]_vars

\* While no terminal write has failed since the last start, a running row is
\* one that the holder of runMu is working on: a command found running is
\* truly in flight, so "already running" is never said of dead work.
RunningIsHeld ==
    ~writeFailed =>
        \A c \in Commands : cmd[c].status = "running" => pc # "idle" /\ ~auto /\ cur = c

\* The rows a pass has listed stay pending until it takes them: no pane
\* invocation, retention pass or commit changes them under the worker.
ListedStayPending == pc # "idle" /\ auto => \A c \in batch : cmd[c].status = "pending"

\* Delivery is at least once with a bound: a background command runs at most
\* MaxAttempts times plus once per crash or failed statement.
ExecutionBound == \A c \in Commands : autoRuns[c] <= MaxAttempts + faults

\* A job never claims more than its command did: a job shown as done belongs
\* to a command recorded done, one shown as failed and linked to a command
\* recorded failed (unless retention has deleted the row).
JobTruth ==
    \A j \in Jobs : job[j].cmd # 0 =>
        /\ job[j].status = "done"   => cmd[job[j].cmd].status \in {"done", "none"}
        /\ job[j].status = "failed" => cmd[job[j].cmd].status \in {"failed", "none"}

\* Every queued command is settled in the end: it runs, or it is given up at
\* the attempt limit, or the user takes it over.
PendingSettles ==
    \A c \in Commands : cmd[c].status = "pending" ~> cmd[c].status # "pending"

\* What RecoverInterruptedOutputCommands documents: after a start no stale
\* job is left active - a running job belongs to a command that is still open.
NoStrandedJob ==
    pc = "idle" /\ ~writeFailed =>
        \A j \in Jobs : job[j].status = "running" => Active(job[j].cmd)

\* The queue and its worker implement ActionQueue: a row's status is the
\* command's, and a row that retention has deleted is gone for good.
QueueStatus ==
    [c \in Commands |->
        CASE cmd[c].status = "pending" -> "waiting"
          [] cmd[c].status = "running" -> "held"
          [] cmd[c].status = "none"    -> IF c < nextCmd THEN "gone" ELSE "absent"
          [] OTHER                     -> cmd[c].status]

Queue == INSTANCE ActionQueue WITH
    status <- QueueStatus, background <- autoRuns, explicit <- userRuns

\* A command is queued, taken over, run, settled and forgotten as ActionQueue
\* says, through every failed write and every restart.
ImplementsQueue == Queue!Spec

-----------------------------------------------------------------------------
(* What the safety properties rest on: which states of the lock go with    *)
(* which states of the rows.                                               *)

Before == {"claimed", "begun", "ready"}      \* the side effect is still ahead
Ran    == {"ok", "error"}                    \* it is over, and not yet recorded
Closing == {"close-done", "close-failed"}    \* the row is terminal

LockInv ==
    /\ pc = "idle" => ~auto /\ batch = {}
    /\ pc \in {"scan", "next"} => auto
    /\ pc = "claimed" => ~auto
    /\ pc \in Before \cup Ran \cup Closing => cur \in Commands /\ cur < nextCmd /\ cur \notin batch
    /\ pc \in Before \cup Ran => cmd[cur].status = IF auto THEN "pending" ELSE "running"
    /\ pc \in Before \cup Ran \cup Closing /\ ~auto => cur \in claimed
    /\ pc = "close-done" => cmd[cur].status \in {"done", "none"}
    /\ pc = "close-failed" => cmd[cur].status \in {"failed", "none"}

RowInv ==
    \A c \in Commands :
        /\ c >= nextCmd => cmd[c].status = "none" /\ c \notin claimed /\ autoRuns[c] = 0
        /\ cmd[c].status \in {"pending", "running", "done"} => cmd[c].attempts < MaxAttempts
        /\ c \in claimed => cmd[c].status # "pending"

\* The executions nothing has recorded yet.
Unrecorded(c) ==
    IF cmd[c].status = "done" \/ (pc \in Ran /\ auto /\ cur = c) THEN 1 ELSE 0

UserCount ==
    \A c \in Commands :
        /\ c \notin claimed => userRuns[c] = 0
        /\ ~auto /\ pc \in Before /\ cur = c => userRuns[c] = 0

Counted(c) ==
    cmd[c].status # "none" => autoRuns[c] <= cmd[c].attempts + faults + Unrecorded(c)
AutoCount == \A c \in Commands : Counted(c)

\* What is about to be recorded done has run.
DoneRan == pc = "ok" => autoRuns[cur] + userRuns[cur] > 0

JobInv ==
    /\ \A j \in Jobs : job[j].cmd < nextCmd
    /\ pc \in {"begun", "ready"} \cup Ran \cup Closing /\ curJob # 0 => job[curJob].cmd \in {0, cur}

IInv ==
    /\ LockInv /\ RowInv /\ UserCount /\ AutoCount /\ JobInv /\ DoneRan
    /\ OneShot /\ RunningIsHeld /\ ListedStayPending /\ ExecutionBound /\ JobTruth
=============================================================================
