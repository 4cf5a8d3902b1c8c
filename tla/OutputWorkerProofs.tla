------------------------- MODULE OutputWorkerProofs -------------------------
(* Proofs about OutputWorker: type correctness, the inductive invariant    *)
(* IInv, the properties that follow from it, and that it implements        *)
(* ActionQueue, for every number of invocations, attempts, commands and    *)
(* faults.  A step lemma has one case per action that writes a variable    *)
(* its invariant reads, and one for all the actions that write none.       *)
EXTENDS OutputWorker, TLAPS

USE LimitsAssumption DEF rows, jobRows, scan, holder, work, history, failure, Fault, NewJob, NoJob,
    WriteJob, Recovered

\* The bound on jobs is a number.
LEMMA MaxJobNat == MaxJob \in Nat
  BY DEF MaxJob

\* A page holds commands.
LEMMA ListedType == ASSUME NEW n PROVE Listed(n) \subseteq Commands
  BY DEF Listed, Pending

\* NoCommand, the absent row, is a row.
LEMMA NoCommandType ==
  NoCommand \in CommandRow /\ NoCommand.status = "none" /\ NoCommand.attempts = 0
<1>1. (CHOOSE i \in Invocations : TRUE) \in Invocations
  OBVIOUS
<1> QED
  BY <1>1 DEF NoCommand, CommandRow, Statuses

\* Retention deletes terminal rows only.
LEMMA ExpiredFinished == \A c \in Expired : c \in Commands /\ cmd[c].status \in Terminal
  BY DEF Expired, Finished

\* What the types say of one row.
LEMMA RowFacts ==
  ASSUME RowTypes, RunTypes, RestTypes, NEW c \in Commands
  PROVE  cmd[c].attempts \in Nat /\ autoRuns[c] \in Nat /\ faults \in Nat
  BY DEF RowTypes, RunTypes, RestTypes, CommandRow

\* A linked job names a command id.
LEMMA LinkType ==
  ASSUME JobTypes, NEW j \in Jobs, job[j].cmd # 0
  PROVE  job[j].cmd \in Commands
  BY DEF JobTypes, JobRow, Commands

\* The id the next insert takes is untouched by everything so far, and every
\* row there is lies below it.
LEMMA FreshRow ==
  ASSUME RowTypes, RowInv, nextCmd <= MaxCommand
  PROVE  /\ nextCmd \in Commands /\ nextCmd \notin claimed
         /\ cmd[nextCmd].status = "none" /\ autoRuns[nextCmd] = 0
  BY DEF RowTypes, RowInv, Commands

\* Rows that exist lie below the id the next insert takes.
LEMMA UsedRow ==
  ASSUME RowTypes, RowInv, NEW c \in Commands, cmd[c].status # "none"
  PROVE  c < nextCmd
  BY DEF RowTypes, RowInv, Commands

\* No job is linked to that id yet.
LEMMA UnlinkedRow ==
  ASSUME RowTypes, JobTypes, JobInv, NEW j \in Jobs
  PROVE  job[j].cmd # nextCmd
  BY DEF RowTypes, JobTypes, JobInv, JobRow

\* Closing the current job changes its status and no link.
LEMMA ClosedJob ==
  ASSUME JobTypes, LockTypes, CloseJob, NEW j \in Jobs
  PROVE  /\ job'[j].cmd = job[j].cmd
         /\ \/ job'[j].status = job[j].status
            \/ /\ j = curJob /\ curJob # 0
               /\ job'[j].status = IF pc = "close-done" THEN "done" ELSE "failed"
<1>1. CASE UNCHANGED job
  BY <1>1
<1>2. CASE /\ curJob # 0
           /\ job' = [job EXCEPT ![curJob] = [job[curJob] EXCEPT !.status = IF pc = "close-done" THEN "done" ELSE "failed"]]
  <2>1. CASE j = curJob
    <3>1. job'[j] = [job[j] EXCEPT !.status = IF pc = "close-done" THEN "done" ELSE "failed"]
      BY <1>2, <2>1 DEF JobTypes
    <3>2. job[j] \in JobRow
      BY DEF JobTypes
    <3> QED
      BY <1>2, <2>1, <3>1, <3>2 DEF JobRow
  <2>2. CASE j # curJob
    BY <1>2, <2>2 DEF JobTypes
  <2> QED
    BY <2>1, <2>2
<1> QED
  BY <1>1, <1>2 DEF CloseJob

\* A restart fails the rows that were running and keeps the others.
LEMMA CrashedRow ==
  ASSUME RowTypes, CrashRestart, NEW c \in Commands
  PROVE  /\ cmd[c].status # "running" => cmd'[c] = cmd[c]
         /\ cmd[c].status = "running" => cmd'[c].status = "failed"
<1>1. cmd[c] \in CommandRow
  BY DEF RowTypes
<1>2. cmd'[c] = IF cmd[c].status = "running" THEN Recovered(c) ELSE cmd[c]
  BY DEF CrashRestart
<1> QED
  BY <1>1, <1>2 DEF CommandRow

\* Beginning a job leaves every other job as it is, and links none.
LEMMA BegunJob ==
  ASSUME JobTypes, NewJob \/ UNCHANGED jobRows, NEW j \in Jobs
  PROVE  \/ job'[j] = job[j]
         \/ job'[j].cmd = 0 /\ job'[j].status = "queued"
<1>1. CASE UNCHANGED jobRows
  BY <1>1
<1>2. CASE NewJob
  BY <1>2 DEF JobTypes
<1> QED
  BY <1>1, <1>2

-----------------------------------------------------------------------------
(* Type correctness, one lemma per group of variables.                     *)

\* The attempt counter stays in its range because only rows below the limit
\* are counted up (RowInv).
LEMMA StepRows ==
  ASSUME RowTypes, LockTypes, FlagTypes, LockInv, RowInv, [Next]_vars
  PROVE  RowTypes'
<1> USE DEF RowTypes, CommandRow, Statuses, Commands, LockInv, RowInv, Before, Ran, Closing
<1>1. ASSUME NEW i \in Invocations, Enqueue(i) PROVE RowTypes'
  BY <1>1, NoCommandType DEF Enqueue, Insert
<1>2. ASSUME NEW i \in Invocations, ConfirmCreate(i) PROVE RowTypes'
  BY <1>2, NoCommandType DEF ConfirmCreate, Insert, Hold
<1>3. ASSUME NEW i \in Invocations, Rerun(i) PROVE RowTypes'
  BY <1>3, NoCommandType DEF Rerun, Insert, Hold
<1>4. ASSUME NEW c \in Commands, ConfirmClaim(c) PROVE RowTypes'
  BY SMTT(30), <1>4, NoCommandType DEF ConfirmClaim, Hold
<1>5. CASE MarkDone
  BY <1>5, NoCommandType DEF MarkDone
<1>6. CASE MarkFailed
  <2>1. cur \in Commands /\ cmd[cur].status \in {"pending", "running"}
    BY <1>6 DEF MarkFailed
  <2>2. cmd[cur] \in CommandRow /\ cmd[cur].attempts + 1 \in 0 .. MaxAttempts
    BY <2>1
  <2>3. [cmd[cur] EXCEPT !.status = "failed", !.attempts = cmd[cur].attempts + 1] \in CommandRow
    BY <2>2
  <2>4. /\ nextCmd' = nextCmd
        /\ cmd' = [cmd EXCEPT ![cur] = [cmd[cur] EXCEPT !.status = "failed", !.attempts = cmd[cur].attempts + 1]]
    BY <1>6, <2>1, <2>2 DEF MarkFailed
  <2> QED
    BY <2>1, <2>3, <2>4
<1>7. CASE Retry
  <2>1. cur \in Commands /\ cmd[cur].attempts + 1 \in 0 .. MaxAttempts
    BY <1>7 DEF Retry, Exhausted
  <2> QED
    BY <1>7, <2>1 DEF Retry
<1>8. CASE CrashRestart
  <2>1. ASSUME NEW c \in Commands PROVE cmd'[c] \in CommandRow
    <3>1. CASE cmd[c].status = "running"
      <4>1. cmd[c] \in CommandRow /\ cmd[c].attempts + 1 \in 0 .. MaxAttempts
        BY <3>1
      <4>2. cmd'[c] = [cmd[c] EXCEPT !.status = "failed", !.attempts = cmd[c].attempts + 1]
        BY <1>8, <3>1 DEF CrashRestart
      <4> QED
        BY <4>1, <4>2
    <3>2. CASE cmd[c].status # "running"
      BY <1>8, <3>2 DEF CrashRestart
    <3> QED
      BY <3>1, <3>2
  <2>2. nextCmd' = nextCmd /\ cmd' = [c \in Commands |-> cmd'[c]]
    BY <1>8 DEF CrashRestart
  <2> QED
    BY <2>1, <2>2
<1>9. CASE Prune
  BY <1>9, NoCommandType DEF Prune
<1>10. CASE UNCHANGED <<cmd, nextCmd>>
  BY <1>10
<1> QED
  BY <1>1, <1>2, <1>3, <1>4, <1>5, <1>6, <1>7, <1>8, <1>9, <1>10 DEF Next, Worker, vars,
     EditCatalog, TickTake, TickBegin, TickList, TickPageEnd, ConfirmBegin, LinkJob, Execute,
     ExecuteRefused, CloseJob, MarkWriteFails

\* Every job write stays inside the job table and names a command or none.
LEMMA StepJobs ==
  ASSUME JobTypes, LockTypes, RowTypes, [Next]_vars
  PROVE  JobTypes'
<1> USE DEF JobTypes, LockTypes, JobRow, Jobs
<1>1. ASSUME NEW c \in Commands, TickTake(c) PROVE JobTypes'
  <2>1. NewJob \/ UNCHANGED jobRows
    BY <1>1 DEF TickTake, BeginJob
  <2> QED
    BY <2>1, MaxJobNat
<1>2. CASE ConfirmBegin
  BY SMTT(30), <1>2, MaxJobNat DEF ConfirmBegin, BeginJob
<1>3. CASE LinkJob
  BY SMTT(30), <1>3, MaxJobNat DEF LinkJob
<1>4. CASE CloseJob
  <2>1. curJob # 0 => [job[curJob] EXCEPT !.status = IF pc = "close-done" THEN "done" ELSE "failed"] \in JobRow
    <3>1. curJob # 0 => job[curJob] \in JobRow
      BY MaxJobNat
    <3> QED
      BY <3>1
  <2>2. \/ UNCHANGED job
        \/ /\ curJob # 0
           /\ job' = [job EXCEPT ![curJob] = [job[curJob] EXCEPT !.status = IF pc = "close-done" THEN "done" ELSE "failed"]]
    BY <1>4 DEF CloseJob
  <2>3. nextJob' = nextJob
    BY <1>4 DEF CloseJob
  <2> QED
    BY <2>1, <2>2, <2>3
<1>5. CASE CrashRestart
  BY <1>5, MaxJobNat DEF CrashRestart, Unlock, DropWork
<1>6. CASE UNCHANGED <<job, nextJob>>
  BY <1>6
<1> QED
  BY <1>1, <1>2, <1>3, <1>4, <1>5, <1>6 DEF Next, Worker, vars, Enqueue, ConfirmCreate, Rerun,
     EditCatalog, ConfirmClaim, TickBegin, TickList, TickPageEnd, Execute, ExecuteRefused,
     MarkDone, MarkFailed, Retry, MarkWriteFails, Prune, Insert, Hold

\* The holder's program counter, command and job stay in range.
LEMMA StepLock ==
  ASSUME JobTypes, LockTypes, RowTypes, [Next]_vars
  PROVE  LockTypes'
<1> USE DEF JobTypes, RowTypes, LockTypes, PCs, Commands, Jobs
<1>1. ASSUME NEW i \in Invocations, ConfirmCreate(i) PROVE LockTypes'
  BY <1>1, MaxJobNat DEF ConfirmCreate, Insert, Hold
<1>2. ASSUME NEW i \in Invocations, Rerun(i) PROVE LockTypes'
  BY <1>2, MaxJobNat DEF Rerun, Insert, Hold
<1>3. ASSUME NEW c \in Commands, TickTake(c) PROVE LockTypes'
  BY <1>3, MaxJobNat DEF TickTake, BeginJob, RunningJobs
<1>4. ASSUME NEW c \in Commands, ConfirmClaim(c) PROVE LockTypes'
  BY <1>4, MaxJobNat DEF ConfirmClaim, Hold
<1>5. CASE TickBegin
  BY <1>5, MaxJobNat DEF TickBegin
<1>6. CASE TickList
  BY <1>6, MaxJobNat DEF TickList, Unlock, DropWork
<1>7. CASE TickPageEnd
  BY <1>7, MaxJobNat DEF TickPageEnd, Unlock, DropWork
<1>8. CASE ConfirmBegin
  BY <1>8, MaxJobNat DEF ConfirmBegin, BeginJob
<1>9. CASE LinkJob
  BY <1>9, MaxJobNat DEF LinkJob
<1>10. CASE Execute
  BY <1>10, MaxJobNat DEF Execute, CountRun
<1>11. CASE ExecuteRefused
  BY <1>11, MaxJobNat DEF ExecuteRefused
<1>12. CASE MarkDone
  BY <1>12, MaxJobNat DEF MarkDone
<1>13. CASE MarkFailed
  BY <1>13, MaxJobNat DEF MarkFailed, Exhausted
<1>14. CASE Retry
  BY <1>14, MaxJobNat DEF Retry, Exhausted, Release, Unlock, DropWork
<1>15. CASE CloseJob
  BY <1>15, MaxJobNat DEF CloseJob, Release, Unlock, DropWork
<1>16. CASE MarkWriteFails
  BY <1>16, MaxJobNat DEF MarkWriteFails, Release, Unlock, DropWork
<1>17. CASE CrashRestart
  <2>1. Unlock /\ faults < MaxFaults /\ faults' = faults + 1 /\ catalog' = catalog
    BY <1>17 DEF CrashRestart
  <2> QED
    BY <2>1, MaxJobNat DEF Unlock, DropWork
<1>18. CASE UNCHANGED <<pc, cur, curJob>>
  BY <1>18
<1> QED
  BY <1>1, <1>2, <1>3, <1>4, <1>5, <1>6, <1>7, <1>8, <1>9, <1>10, <1>11, <1>12, <1>13, <1>14,
     <1>15, <1>16, <1>17, <1>18 DEF Next, Worker, vars, Enqueue, EditCatalog, Prune, Insert

\* The flags stay Boolean.
LEMMA StepFlags ==
  ASSUME FlagTypes, [Next]_vars
  PROVE  FlagTypes'
<1> USE DEF FlagTypes
<1>1. ASSUME NEW i \in Invocations, ConfirmCreate(i) PROVE FlagTypes'
  BY <1>1 DEF ConfirmCreate, Insert, Hold
<1>2. ASSUME NEW i \in Invocations, Rerun(i) PROVE FlagTypes'
  BY <1>2 DEF Rerun, Insert, Hold
<1>3. ASSUME NEW c \in Commands, TickTake(c) PROVE FlagTypes'
  BY <1>3 DEF TickTake, BeginJob, RunningJobs
<1>4. ASSUME NEW c \in Commands, ConfirmClaim(c) PROVE FlagTypes'
  BY <1>4 DEF ConfirmClaim, Hold
<1>5. CASE TickBegin
  BY <1>5 DEF TickBegin
<1>6. CASE TickList
  BY <1>6 DEF TickList, Unlock, DropWork
<1>7. CASE TickPageEnd
  BY <1>7 DEF TickPageEnd, Unlock, DropWork
<1>8. CASE ConfirmBegin
  BY <1>8 DEF ConfirmBegin, BeginJob
<1>9. CASE Retry
  BY <1>9 DEF Retry, Exhausted, Release, Unlock, DropWork
<1>10. CASE CloseJob
  BY <1>10 DEF CloseJob, Release, Unlock, DropWork
<1>11. CASE MarkWriteFails
  BY <1>11 DEF MarkWriteFails, Release, Unlock, DropWork
<1>12. CASE CrashRestart
  BY <1>12 DEF CrashRestart, Unlock, DropWork
<1>13. CASE UNCHANGED <<auto, known, writeFailed>>
  BY <1>13
<1> QED
  BY <1>1, <1>2, <1>3, <1>4, <1>5, <1>6, <1>7, <1>8, <1>9, <1>10, <1>11, <1>12, <1>13 DEF Next,
     Worker, vars, Enqueue, EditCatalog, LinkJob, Execute, ExecuteRefused, MarkDone, MarkFailed,
     Prune, Insert

\* A page and its cursor hold command ids.
LEMMA StepScan ==
  ASSUME ScanTypes, [Next]_vars
  PROVE  ScanTypes'
<1> USE DEF ScanTypes, Commands
<1>1. ASSUME NEW c \in Commands, TickTake(c) PROVE ScanTypes'
  BY <1>1, ListedType DEF TickTake, BeginJob, RunningJobs
<1>2. CASE TickList
  BY <1>2, ListedType DEF TickList, Unlock, DropWork
<1>3. CASE TickPageEnd
  BY <1>3, ListedType DEF TickPageEnd, Unlock, DropWork
<1>4. CASE Retry
  BY <1>4, ListedType DEF Retry, Exhausted, Release, Unlock, DropWork
<1>5. CASE CloseJob
  BY <1>5, ListedType DEF CloseJob, Release, Unlock, DropWork
<1>6. CASE MarkWriteFails
  <2>1. Release
    BY <1>6 DEF MarkWriteFails
  <2>2. CASE auto
    BY <2>1, <2>2 DEF Release
  <2>3. CASE ~auto
    BY <2>1, <2>3 DEF Release, Unlock
  <2> QED
    BY <2>2, <2>3
<1>7. CASE CrashRestart
  <2>1. Unlock /\ faults < MaxFaults /\ faults' = faults + 1 /\ catalog' = catalog
    BY <1>7 DEF CrashRestart
  <2> QED
    BY <2>1, MaxJobNat DEF Unlock, DropWork
<1>8. CASE UNCHANGED <<batch, after, taken>>
  BY <1>8
<1> QED
  BY <1>1, <1>2, <1>3, <1>4, <1>5, <1>6, <1>7, <1>8 DEF Next, Worker, vars, Enqueue,
     ConfirmCreate, Rerun, EditCatalog, ConfirmClaim, TickBegin, ConfirmBegin, LinkJob, Execute,
     ExecuteRefused, MarkDone, MarkFailed, Prune, Insert, Hold

\* The execution counters count executions of existing command ids.
LEMMA StepRuns ==
  ASSUME RunTypes, RowTypes, LockInv, [Next]_vars
  PROVE  RunTypes'
<1> USE DEF RowTypes, RunTypes, Commands
<1>1. ASSUME NEW i \in Invocations, ConfirmCreate(i) PROVE RunTypes'
  BY <1>1 DEF ConfirmCreate, Insert, Hold
<1>2. ASSUME NEW i \in Invocations, Rerun(i) PROVE RunTypes'
  BY <1>2 DEF Rerun, Insert, Hold
<1>3. ASSUME NEW c \in Commands, ConfirmClaim(c) PROVE RunTypes'
  BY <1>3 DEF ConfirmClaim, Hold
<1>4. CASE Execute
  <2>1. claimed' = claimed /\ CountRun /\ cur \in Commands
    BY <1>4 DEF Execute, LockInv, Before
  <2>2. CASE auto
    <3>1. /\ autoRuns' = [autoRuns EXCEPT ![cur] = autoRuns[cur] + 1]
          /\ userRuns' = [userRuns EXCEPT ![cur] = userRuns[cur]]
      BY <2>1, <2>2 DEF CountRun
    <3>2. autoRuns[cur] \in Nat /\ userRuns[cur] \in Nat
      BY <2>1
    <3> QED
      BY SMTT(20), <2>1, <3>1, <3>2
  <2>3. CASE ~auto
    <3>1. /\ autoRuns' = [autoRuns EXCEPT ![cur] = autoRuns[cur]]
          /\ userRuns' = [userRuns EXCEPT ![cur] = userRuns[cur] + 1]
      BY <2>1, <2>3 DEF CountRun
    <3>2. autoRuns[cur] \in Nat /\ userRuns[cur] \in Nat
      BY <2>1
    <3> QED
      BY <2>1, <3>1, <3>2
  <2> QED
    BY <2>2, <2>3
<1>5. CASE UNCHANGED <<claimed, autoRuns, userRuns>>
  BY <1>5
<1> QED
  BY <1>1, <1>2, <1>3, <1>4, <1>5 DEF Next, Worker, vars, Enqueue, EditCatalog, TickTake,
     TickBegin, TickList, TickPageEnd, ConfirmBegin, LinkJob, ExecuteRefused, MarkDone,
     MarkFailed, Retry, CloseJob, MarkWriteFails, CrashRestart, Prune, Insert

\* Faults never pass their bound.
LEMMA StepRest ==
  ASSUME RestTypes, [Next]_vars
  PROVE  RestTypes'
<1> USE DEF RestTypes
<1>1. ASSUME NEW i \in Invocations, EditCatalog(i) PROVE RestTypes'
  BY <1>1 DEF EditCatalog
<1>2. ASSUME NEW c \in Commands, TickTake(c) PROVE RestTypes'
  BY <1>2 DEF TickTake, BeginJob, RunningJobs
<1>3. CASE ConfirmBegin
  BY <1>3 DEF ConfirmBegin, BeginJob
<1>4. CASE MarkWriteFails
  BY <1>4 DEF MarkWriteFails, Release, Unlock, DropWork
<1>5. CASE CrashRestart
  <2>1. Unlock /\ faults < MaxFaults /\ faults' = faults + 1 /\ catalog' = catalog
    BY <1>5 DEF CrashRestart
  <2> QED
    BY <2>1, MaxJobNat DEF Unlock, DropWork
<1>6. CASE TickList
  BY <1>6 DEF TickList, Unlock, DropWork
<1>7. CASE LinkJob
  BY <1>7 DEF LinkJob
<1>8. CASE CloseJob
  BY <1>8 DEF CloseJob, Release, Unlock, DropWork
<1>9. CASE UNCHANGED <<catalog, faults>>
  BY <1>9
<1> QED
  BY <1>1, <1>2, <1>3, <1>4, <1>5, <1>6, <1>7, <1>8, <1>9 DEF Next, Worker, vars, Enqueue, ConfirmCreate, Rerun,
     ConfirmClaim, TickBegin, TickList, TickPageEnd, LinkJob, Execute, ExecuteRefused, MarkDone,
     MarkFailed, Retry, CloseJob, Prune, Insert, Hold

-----------------------------------------------------------------------------
(* The inductive invariant, one lemma per part.                            *)

\* What the holder of the lock knows of its command: the row it works on is in
\* the state its program counter says.
LEMMA StepLockInv ==
  ASSUME TypeOK, LockInv, RowInv, ListedStayPending, [Next]_vars
  PROVE  LockInv'
<1> USE DEF TypeOK, RowTypes, LockTypes, FlagTypes, ScanTypes, RunTypes, CommandRow, Statuses,
   Commands, LockInv, RowInv, ListedStayPending, Terminal, Before, Ran, Closing
<1>1. ASSUME NEW i \in Invocations, Enqueue(i) PROVE LockInv'
  BY <1>1, ListedType, NoCommandType, ExpiredFinished DEF Enqueue, Insert
<1>2. ASSUME NEW i \in Invocations, ConfirmCreate(i) PROVE LockInv'
  BY <1>2, ListedType, NoCommandType, ExpiredFinished DEF ConfirmCreate, Insert, Hold
<1>3. ASSUME NEW i \in Invocations, Rerun(i) PROVE LockInv'
  BY <1>3, ListedType, NoCommandType, ExpiredFinished DEF Rerun, Insert, Hold
<1>4. ASSUME NEW c \in Commands, TickTake(c) PROVE LockInv'
  BY <1>4, ListedType, NoCommandType, ExpiredFinished DEF TickTake, BeginJob, RunningJobs
<1>5. ASSUME NEW c \in Commands, ConfirmClaim(c) PROVE LockInv'
  <2>1. pc = "idle" /\ batch = {} /\ cur' = c /\ pc' = "claimed" /\ auto' = FALSE /\ batch' = batch
    BY <1>5 DEF ConfirmClaim, Hold, LockInv, scan
  <2>2. c < nextCmd /\ nextCmd' = nextCmd
    BY <1>5, UsedRow DEF ConfirmClaim
  <2>3. c \in claimed'
    BY <1>5 DEF ConfirmClaim, Hold
  <2>4. cmd'[c].status = "running"
    BY <1>5 DEF ConfirmClaim, RowTypes, CommandRow
  <2> QED
    BY <2>1, <2>2, <2>3, <2>4 DEF LockInv, Before, Ran, Closing
<1>6. CASE TickBegin
  BY <1>6, ListedType, NoCommandType, ExpiredFinished DEF TickBegin
<1>7. CASE TickList
  BY <1>7, ListedType, NoCommandType, ExpiredFinished DEF TickList, Unlock, DropWork
<1>8. CASE TickPageEnd
  BY <1>8, ListedType, NoCommandType, ExpiredFinished DEF TickPageEnd, Unlock, DropWork
<1>9. CASE ConfirmBegin
  BY <1>9, ListedType, NoCommandType, ExpiredFinished DEF ConfirmBegin, BeginJob
<1>10. CASE LinkJob
  BY <1>10, ListedType, NoCommandType, ExpiredFinished DEF LinkJob
<1>11. CASE Execute
  BY <1>11, ListedType, NoCommandType, ExpiredFinished DEF Execute, CountRun
<1>12. CASE ExecuteRefused
  BY <1>12, ListedType, NoCommandType, ExpiredFinished DEF ExecuteRefused
<1>13. CASE MarkDone
  BY <1>13, ListedType, NoCommandType, ExpiredFinished DEF MarkDone
<1>14. CASE MarkFailed
  BY <1>14, ListedType, NoCommandType, ExpiredFinished DEF MarkFailed, Exhausted
<1>15. CASE Retry
  BY <1>15, ListedType, NoCommandType, ExpiredFinished DEF Retry, Exhausted, Release, Unlock,
     DropWork
<1>16. CASE CloseJob
  BY <1>16, ListedType, NoCommandType, ExpiredFinished DEF CloseJob, Release, Unlock, DropWork
<1>17. CASE MarkWriteFails
  BY <1>17, ListedType, NoCommandType, ExpiredFinished DEF MarkWriteFails, Release, Unlock, DropWork
<1>18. CASE CrashRestart
  BY <1>18, ListedType, NoCommandType, ExpiredFinished DEF CrashRestart, Unlock, DropWork
<1>19. CASE Prune
  BY <1>19, ListedType, NoCommandType, ExpiredFinished DEF Prune
<1>20. CASE UNCHANGED <<cmd, nextCmd, pc, auto, cur, batch, claimed>>
  BY <1>20
<1> QED
  BY <1>1, <1>2, <1>3, <1>4, <1>5, <1>6, <1>7, <1>8, <1>9, <1>10, <1>11, <1>12, <1>13, <1>14,
     <1>15, <1>16, <1>17, <1>18, <1>19, <1>20 DEF Next, Worker, vars, EditCatalog

\* Ids are handed out in order, and a claimed row is never pending again.
LEMMA StepRowInv ==
  ASSUME TypeOK, LockInv, RowInv, [Next]_vars
  PROVE  RowInv'
<1> USE DEF TypeOK, RowTypes, LockTypes, FlagTypes, RunTypes, CommandRow, Statuses, Commands,
   LockInv, RowInv, Before, Ran, Closing
<1>1. ASSUME NEW i \in Invocations, Enqueue(i) PROVE RowInv'
  BY <1>1, NoCommandType DEF Enqueue, Insert
<1>2. ASSUME NEW i \in Invocations, ConfirmCreate(i) PROVE RowInv'
  BY <1>2, NoCommandType DEF ConfirmCreate, Insert, Hold
<1>3. ASSUME NEW i \in Invocations, Rerun(i) PROVE RowInv'
  BY <1>3, NoCommandType DEF Rerun, Insert, Hold
<1>4. ASSUME NEW c \in Commands, ConfirmClaim(c) PROVE RowInv'
  BY SMTT(30), <1>4, NoCommandType DEF ConfirmClaim, Hold
<1>5. CASE Execute
  BY <1>5, NoCommandType DEF Execute, CountRun
<1>6. CASE MarkDone
  BY <1>6, NoCommandType DEF MarkDone
<1>7. CASE MarkFailed
  BY <1>7, NoCommandType DEF MarkFailed, Exhausted
<1>8. CASE Retry
  BY SMTT(20), <1>8, NoCommandType DEF Retry, Exhausted, Release, Unlock, DropWork
<1>9. CASE CrashRestart
  <2>1. nextCmd' = nextCmd /\ claimed' = claimed /\ autoRuns' = autoRuns
    BY <1>9 DEF CrashRestart
  <2> QED
    BY <1>9, <2>1, CrashedRow
<1>10. CASE Prune
  BY <1>10, NoCommandType DEF Prune
<1>11. CASE UNCHANGED <<cmd, nextCmd, claimed, autoRuns>>
  BY <1>11
<1> QED
  BY <1>1, <1>2, <1>3, <1>4, <1>5, <1>6, <1>7, <1>8, <1>9, <1>10, <1>11 DEF Next, Worker, vars,
     EditCatalog, TickTake, TickBegin, TickList, TickPageEnd, ConfirmBegin, LinkJob,
     ExecuteRefused, CloseJob, MarkWriteFails

\* ListedStayPending: what can change a pending row needs the lock.
LEMMA StepListed ==
  ASSUME TypeOK, LockInv, RowInv, ListedStayPending, [Next]_vars
  PROVE  ListedStayPending'
<1> USE DEF TypeOK, RowTypes, LockTypes, FlagTypes, ScanTypes, CommandRow, Statuses, Commands,
   LockInv, RowInv, ListedStayPending, Listed, Pending, Terminal, Before, Ran, Closing
<1>1. ASSUME NEW i \in Invocations, Enqueue(i) PROVE ListedStayPending'
  BY <1>1, ListedType, NoCommandType, ExpiredFinished DEF Enqueue, Insert
<1>2. ASSUME NEW i \in Invocations, ConfirmCreate(i) PROVE ListedStayPending'
  BY <1>2, ListedType, NoCommandType, ExpiredFinished DEF ConfirmCreate, Insert, Hold
<1>3. ASSUME NEW i \in Invocations, Rerun(i) PROVE ListedStayPending'
  BY <1>3, ListedType, NoCommandType, ExpiredFinished DEF Rerun, Insert, Hold
<1>4. ASSUME NEW c \in Commands, TickTake(c) PROVE ListedStayPending'
  BY <1>4, ListedType, NoCommandType, ExpiredFinished DEF TickTake, BeginJob, RunningJobs
<1>5. ASSUME NEW c \in Commands, ConfirmClaim(c) PROVE ListedStayPending'
  BY <1>5, ListedType, NoCommandType, ExpiredFinished DEF ConfirmClaim, Hold
<1>6. CASE TickBegin
  BY <1>6, ListedType, NoCommandType, ExpiredFinished DEF TickBegin
<1>7. CASE TickList
  BY <1>7, ListedType, NoCommandType, ExpiredFinished DEF TickList, Unlock, DropWork
<1>8. CASE TickPageEnd
  BY <1>8, ListedType, NoCommandType, ExpiredFinished DEF TickPageEnd, Unlock, DropWork
<1>9. CASE ConfirmBegin
  BY <1>9, ListedType, NoCommandType, ExpiredFinished DEF ConfirmBegin, BeginJob
<1>10. CASE LinkJob
  BY <1>10, ListedType, NoCommandType, ExpiredFinished DEF LinkJob
<1>11. CASE Execute
  BY <1>11, ListedType, NoCommandType, ExpiredFinished DEF Execute, CountRun
<1>12. CASE ExecuteRefused
  BY <1>12, ListedType, NoCommandType, ExpiredFinished DEF ExecuteRefused
<1>13. CASE MarkDone
  BY <1>13, ListedType, NoCommandType, ExpiredFinished DEF MarkDone
<1>14. CASE MarkFailed
  BY <1>14, ListedType, NoCommandType, ExpiredFinished DEF MarkFailed, Exhausted
<1>15. CASE Retry
  BY <1>15, ListedType, NoCommandType, ExpiredFinished DEF Retry, Exhausted, Release, Unlock,
     DropWork
<1>16. CASE CloseJob
  BY <1>16, ListedType, NoCommandType, ExpiredFinished DEF CloseJob, Release, Unlock, DropWork
<1>17. CASE MarkWriteFails
  BY <1>17, ListedType, NoCommandType, ExpiredFinished DEF MarkWriteFails, Release, Unlock, DropWork
<1>18. CASE CrashRestart
  BY <1>18, ListedType, NoCommandType, ExpiredFinished DEF CrashRestart, Unlock, DropWork
<1>19. CASE Prune
  BY <1>19, ListedType, NoCommandType, ExpiredFinished DEF Prune
<1>20. CASE UNCHANGED <<cmd, pc, auto, batch>>
  BY <1>20
<1> QED
  BY <1>1, <1>2, <1>3, <1>4, <1>5, <1>6, <1>7, <1>8, <1>9, <1>10, <1>11, <1>12, <1>13, <1>14,
     <1>15, <1>16, <1>17, <1>18, <1>19, <1>20 DEF Next, Worker, vars, EditCatalog

\* RunningIsHeld: a row stops running before its holder lets go, unless the
\* write that stops it fails.
LEMMA StepHeld ==
  ASSUME TypeOK, LockInv, RowInv, RunningIsHeld, [Next]_vars
  PROVE  RunningIsHeld'
<1> USE DEF TypeOK, RowTypes, LockTypes, FlagTypes, CommandRow, Statuses, Commands, LockInv,
   RowInv, RunningIsHeld, Terminal, Before, Ran, Closing
<1>1. ASSUME NEW i \in Invocations, Enqueue(i) PROVE RunningIsHeld'
  BY <1>1, NoCommandType DEF Enqueue, Insert
<1>2. ASSUME NEW i \in Invocations, ConfirmCreate(i) PROVE RunningIsHeld'
  BY <1>2, NoCommandType DEF ConfirmCreate, Insert, Hold
<1>3. ASSUME NEW i \in Invocations, Rerun(i) PROVE RunningIsHeld'
  BY <1>3, NoCommandType DEF Rerun, Insert, Hold
<1>4. ASSUME NEW c \in Commands, TickTake(c) PROVE RunningIsHeld'
  BY <1>4, NoCommandType DEF TickTake, BeginJob, RunningJobs
<1>5. ASSUME NEW c \in Commands, ConfirmClaim(c) PROVE RunningIsHeld'
  BY <1>5, NoCommandType DEF ConfirmClaim, Hold
<1>6. CASE TickBegin
  BY <1>6, NoCommandType DEF TickBegin
<1>7. CASE TickList
  BY <1>7, NoCommandType DEF TickList, Unlock, DropWork
<1>8. CASE TickPageEnd
  BY <1>8, NoCommandType DEF TickPageEnd, Unlock, DropWork
<1>9. CASE ConfirmBegin
  BY <1>9, NoCommandType DEF ConfirmBegin, BeginJob
<1>10. CASE LinkJob
  BY <1>10, NoCommandType DEF LinkJob
<1>11. CASE Execute
  BY <1>11, NoCommandType DEF Execute, CountRun
<1>12. CASE ExecuteRefused
  BY <1>12, NoCommandType DEF ExecuteRefused
<1>13. CASE MarkDone
  BY <1>13, NoCommandType DEF MarkDone
<1>14. CASE MarkFailed
  BY <1>14, NoCommandType DEF MarkFailed, Exhausted
<1>15. CASE Retry
  BY <1>15, NoCommandType DEF Retry, Exhausted, Release, Unlock, DropWork
<1>16. CASE CloseJob
  BY <1>16, NoCommandType DEF CloseJob, Release, Unlock, DropWork
<1>17. CASE MarkWriteFails
  BY <1>17, NoCommandType DEF MarkWriteFails, Release, Unlock, DropWork
<1>18. CASE CrashRestart
  BY <1>18, CrashedRow
<1>19. CASE Prune
  BY <1>19, NoCommandType DEF Prune
<1>20. CASE UNCHANGED <<cmd, pc, auto, cur, writeFailed>>
  BY <1>20
<1> QED
  BY <1>1, <1>2, <1>3, <1>4, <1>5, <1>6, <1>7, <1>8, <1>9, <1>10, <1>11, <1>12, <1>13, <1>14,
     <1>15, <1>16, <1>17, <1>18, <1>19, <1>20 DEF Next, Worker, vars, EditCatalog

\* A claim is fresh: its command has not run for the user before.
LEMMA StepUserCount ==
  ASSUME TypeOK, LockInv, RowInv, UserCount, [Next]_vars
  PROVE  UserCount'
<1> USE DEF TypeOK, RowTypes, LockTypes, FlagTypes, RunTypes, LockInv, RowInv, Commands, Before,
   Ran, Closing, UserCount
<1>1. ASSUME NEW i \in Invocations, ConfirmCreate(i) PROVE UserCount'
  BY <1>1 DEF ConfirmCreate, Insert, Hold
<1>2. ASSUME NEW i \in Invocations, Rerun(i) PROVE UserCount'
  BY <1>2 DEF Rerun, Insert, Hold
<1>3. ASSUME NEW c \in Commands, TickTake(c) PROVE UserCount'
  BY <1>3 DEF TickTake, BeginJob, RunningJobs
<1>4. ASSUME NEW c \in Commands, ConfirmClaim(c) PROVE UserCount'
  BY <1>4 DEF ConfirmClaim, Hold
<1>5. CASE TickBegin
  BY <1>5 DEF TickBegin
<1>6. CASE TickList
  BY <1>6 DEF TickList, Unlock, DropWork
<1>7. CASE TickPageEnd
  BY <1>7 DEF TickPageEnd, Unlock, DropWork
<1>8. CASE ConfirmBegin
  BY <1>8 DEF ConfirmBegin, BeginJob
<1>9. CASE LinkJob
  BY <1>9 DEF LinkJob
<1>10. CASE Execute
  BY <1>10 DEF Execute, CountRun
<1>11. CASE ExecuteRefused
  BY <1>11 DEF ExecuteRefused
<1>12. CASE MarkDone
  BY <1>12 DEF MarkDone
<1>13. CASE MarkFailed
  BY <1>13 DEF MarkFailed, Exhausted
<1>14. CASE Retry
  BY <1>14 DEF Retry, Exhausted, Release, Unlock, DropWork
<1>15. CASE CloseJob
  BY <1>15 DEF CloseJob, Release, Unlock, DropWork
<1>16. CASE MarkWriteFails
  BY <1>16 DEF MarkWriteFails, Release, Unlock, DropWork
<1>17. CASE CrashRestart
  BY <1>17 DEF CrashRestart, Unlock, DropWork
<1>18. CASE UNCHANGED <<claimed, userRuns, pc, auto, cur>>
  BY <1>18
<1> QED
  BY <1>1, <1>2, <1>3, <1>4, <1>5, <1>6, <1>7, <1>8, <1>9, <1>10, <1>11, <1>12, <1>13, <1>14,
     <1>15, <1>16, <1>17, <1>18 DEF Next, Worker, vars, Enqueue, EditCatalog, Prune, Insert

\* OneShot: only a fresh claim is executed.
LEMMA StepOneShot ==
  ASSUME TypeOK, LockInv, RowInv, UserCount, OneShot, [Next]_vars
  PROVE  OneShot'
<1> USE DEF TypeOK, RunTypes, LockTypes, FlagTypes, LockInv, Before, Ran, Closing, UserCount,
   OneShot
<1>1. ASSUME NEW i \in Invocations, ConfirmCreate(i) PROVE OneShot'
  BY <1>1, FreshRow DEF ConfirmCreate, Insert, Hold
<1>2. ASSUME NEW i \in Invocations, Rerun(i) PROVE OneShot'
  BY <1>2, FreshRow DEF Rerun, Insert, Hold
<1>3. ASSUME NEW c \in Commands, ConfirmClaim(c) PROVE OneShot'
  BY <1>3, FreshRow DEF ConfirmClaim, Hold
<1>4. CASE Execute
  BY <1>4, FreshRow DEF Execute, CountRun
<1>5. CASE UNCHANGED <<claimed, userRuns>>
  BY <1>5
<1> QED
  BY <1>1, <1>2, <1>3, <1>4, <1>5 DEF Next, Worker, vars, Enqueue, EditCatalog, TickTake,
     TickBegin, TickList, TickPageEnd, ConfirmBegin, LinkJob, ExecuteRefused, MarkDone,
     MarkFailed, Retry, CloseJob, MarkWriteFails, CrashRestart, Prune, Insert

\* DoneRan: only an execution leads to "ok", and it has been counted.
LEMMA StepDoneRan ==
  ASSUME TypeOK, LockInv, DoneRan, [Next]_vars
  PROVE  DoneRan'
<1> USE DEF TypeOK, LockTypes, FlagTypes, RunTypes, LockInv, Before, DoneRan, Commands
<1>1. CASE Execute
  BY <1>1 DEF Execute, CountRun
<1>2. CASE UNCHANGED <<pc, cur, autoRuns, userRuns>>
  BY <1>2
<1>3. CASE pc' # "ok"
  BY <1>3
<1> QED
  BY <1>1, <1>2, <1>3 DEF Next, Worker, vars, Enqueue, EditCatalog, TickTake, ConfirmCreate, Rerun,
     ConfirmClaim, Hold, TickBegin, TickList, TickPageEnd, ConfirmBegin, LinkJob, ExecuteRefused,
     MarkDone, MarkFailed, Retry, CloseJob, MarkWriteFails, CrashRestart, Prune, Insert, Release,
     Unlock

\* Every background run is recorded as an attempt, or is about to be, or was
\* paid for with a fault.
LEMMA StepAutoCount ==
  ASSUME TypeOK, LockInv, RowInv, AutoCount, [Next]_vars
  PROVE  AutoCount'
<1>1. ASSUME NEW i \in Invocations, Enqueue(i) PROVE AutoCount'
  <2>1. ASSUME NEW d \in Commands PROVE Counted(d)'
    <3>1. Counted(d) /\ cmd[d].attempts \in Nat /\ autoRuns[d] \in Nat /\ faults \in Nat
      BY RowFacts DEF AutoCount, TypeOK
    <3> QED
      BY SMTT(30), <1>1, <3>1, NoCommandType DEF Counted, Unrecorded, TypeOK, RowTypes, RunTypes, CommandRow,
         Commands, LockTypes, FlagTypes, LockInv, RowInv, Before, Ran, Closing, Enqueue, Insert
  <2> QED
    BY <2>1 DEF AutoCount
<1>2. ASSUME NEW i \in Invocations, ConfirmCreate(i) PROVE AutoCount'
  <2>1. ASSUME NEW d \in Commands PROVE Counted(d)'
    <3>1. Counted(d) /\ cmd[d].attempts \in Nat /\ autoRuns[d] \in Nat /\ faults \in Nat
      BY RowFacts DEF AutoCount, TypeOK
    <3> QED
      BY SMTT(30), <1>2, <3>1, NoCommandType DEF Counted, Unrecorded, TypeOK, RowTypes, RunTypes, CommandRow,
         Commands, LockTypes, FlagTypes, LockInv, RowInv, Before, Ran, Closing, ConfirmCreate, Insert, Hold
  <2> QED
    BY <2>1 DEF AutoCount
<1>3. ASSUME NEW i \in Invocations, Rerun(i) PROVE AutoCount'
  <2>1. ASSUME NEW d \in Commands PROVE Counted(d)'
    <3>1. Counted(d) /\ cmd[d].attempts \in Nat /\ autoRuns[d] \in Nat /\ faults \in Nat
      BY RowFacts DEF AutoCount, TypeOK
    <3> QED
      BY SMTT(30), <1>3, <3>1, NoCommandType DEF Counted, Unrecorded, TypeOK, RowTypes, RunTypes, CommandRow,
         Commands, LockTypes, FlagTypes, LockInv, RowInv, Before, Ran, Closing, Rerun, Insert, Hold
  <2> QED
    BY <2>1 DEF AutoCount
<1>4. ASSUME NEW c \in Commands, TickTake(c) PROVE AutoCount'
  <2>1. ASSUME NEW d \in Commands PROVE Counted(d)'
    <3>1. Counted(d) /\ cmd[d].attempts \in Nat /\ autoRuns[d] \in Nat /\ faults \in Nat
      BY RowFacts DEF AutoCount, TypeOK
    <3> QED
      BY <1>4, <3>1 DEF Counted, Unrecorded, TypeOK, RowTypes, RunTypes, CommandRow, LockTypes,
         FlagTypes, LockInv, Before, Ran, Closing, TickTake, BeginJob, RunningJobs
  <2> QED
    BY <2>1 DEF AutoCount
<1>5. ASSUME NEW c \in Commands, ConfirmClaim(c) PROVE AutoCount'
  <2>1. ASSUME NEW d \in Commands PROVE Counted(d)'
    <3>1. Counted(d) /\ cmd[d].attempts \in Nat /\ autoRuns[d] \in Nat /\ faults \in Nat
      BY RowFacts DEF AutoCount, TypeOK
    <3> QED
      BY <1>5, <3>1, NoCommandType DEF Counted, Unrecorded, TypeOK, RowTypes, RunTypes, CommandRow,
         Commands, LockTypes, FlagTypes, LockInv, RowInv, Before, Ran, Closing, ConfirmClaim, Hold
  <2> QED
    BY <2>1 DEF AutoCount
<1>6. CASE TickBegin
  <2>1. ASSUME NEW d \in Commands PROVE Counted(d)'
    <3>1. Counted(d) /\ cmd[d].attempts \in Nat /\ autoRuns[d] \in Nat /\ faults \in Nat
      BY RowFacts DEF AutoCount, TypeOK
    <3> QED
      BY <1>6, <3>1, NoCommandType DEF Counted, Unrecorded, TypeOK, RowTypes, RunTypes, CommandRow,
         Commands, LockTypes, FlagTypes, LockInv, RowInv, Before, Ran, Closing, TickBegin
  <2> QED
    BY <2>1 DEF AutoCount
<1>7. CASE TickList
  <2>1. ASSUME NEW d \in Commands PROVE Counted(d)'
    <3>1. Counted(d) /\ cmd[d].attempts \in Nat /\ autoRuns[d] \in Nat /\ faults \in Nat
      BY RowFacts DEF AutoCount, TypeOK
    <3> QED
      BY <1>7, <3>1 DEF Counted, Unrecorded, Ran, TickList, Unlock, DropWork
  <2> QED
    BY <2>1 DEF AutoCount
<1>8. CASE TickPageEnd
  <2>1. ASSUME NEW d \in Commands PROVE Counted(d)'
    <3>1. Counted(d) /\ cmd[d].attempts \in Nat /\ autoRuns[d] \in Nat /\ faults \in Nat
      BY RowFacts DEF AutoCount, TypeOK
    <3> QED
      BY <1>8, <3>1 DEF Counted, Unrecorded, TypeOK, RowTypes, RunTypes, CommandRow, LockTypes,
         FlagTypes, LockInv, Before, Ran, Closing, TickPageEnd, Unlock, DropWork
  <2> QED
    BY <2>1 DEF AutoCount
<1>9. CASE ConfirmBegin
  <2>1. ASSUME NEW d \in Commands PROVE Counted(d)'
    <3>1. Counted(d) /\ cmd[d].attempts \in Nat /\ autoRuns[d] \in Nat /\ faults \in Nat
      BY RowFacts DEF AutoCount, TypeOK
    <3> QED
      BY <1>9, <3>1 DEF Counted, Unrecorded, TypeOK, RowTypes, RunTypes, CommandRow, LockTypes,
         FlagTypes, LockInv, Before, Ran, Closing, ConfirmBegin, BeginJob
  <2> QED
    BY <2>1 DEF AutoCount
<1>10. CASE LinkJob
  <2>1. ASSUME NEW d \in Commands PROVE Counted(d)'
    <3>1. Counted(d) /\ cmd[d].attempts \in Nat /\ autoRuns[d] \in Nat /\ faults \in Nat
      BY RowFacts DEF AutoCount, TypeOK
    <3> QED
      BY <1>10, <3>1 DEF Counted, Unrecorded, TypeOK, RowTypes, RunTypes, CommandRow, LockTypes,
         FlagTypes, LockInv, Before, Ran, Closing, LinkJob
  <2> QED
    BY <2>1 DEF AutoCount
<1>11. CASE Execute
  <2>1. ASSUME NEW d \in Commands PROVE Counted(d)'
    <3>1. Counted(d) /\ cmd[d].attempts \in Nat /\ autoRuns[d] \in Nat /\ faults \in Nat
      BY RowFacts DEF AutoCount, TypeOK
    <3> QED
      BY <1>11, <3>1 DEF Counted, Unrecorded, TypeOK, RowTypes, RunTypes, CommandRow, LockTypes,
         FlagTypes, LockInv, Before, Ran, Closing, Execute, CountRun
  <2> QED
    BY <2>1 DEF AutoCount
<1>12. CASE ExecuteRefused
  <2>1. ASSUME NEW d \in Commands PROVE Counted(d)'
    <3>1. Counted(d) /\ cmd[d].attempts \in Nat /\ autoRuns[d] \in Nat /\ faults \in Nat
      BY RowFacts DEF AutoCount, TypeOK
    <3> QED
      BY <1>12, <3>1 DEF Counted, Unrecorded, TypeOK, RowTypes, RunTypes, CommandRow, LockTypes,
         FlagTypes, LockInv, Before, Ran, Closing, ExecuteRefused
  <2> QED
    BY <2>1 DEF AutoCount
<1>13. CASE MarkDone
  <2>1. ASSUME NEW d \in Commands PROVE Counted(d)'
    <3>1. Counted(d) /\ cmd[d].attempts \in Nat /\ autoRuns[d] \in Nat /\ faults \in Nat
      BY RowFacts DEF AutoCount, TypeOK
    <3> QED
      BY <1>13, <3>1 DEF Counted, Unrecorded, TypeOK, RowTypes, RunTypes, CommandRow, LockTypes,
         FlagTypes, LockInv, Before, Ran, Closing, MarkDone
  <2> QED
    BY <2>1 DEF AutoCount
<1>14. CASE MarkFailed
  <2>1. ASSUME NEW d \in Commands PROVE Counted(d)'
    <3>1. Counted(d) /\ cmd[d].attempts \in Nat /\ autoRuns[d] \in Nat /\ faults \in Nat
      BY RowFacts DEF AutoCount, TypeOK
    <3> QED
      BY <1>14, <3>1 DEF Counted, Unrecorded, TypeOK, RowTypes, RunTypes, CommandRow, LockTypes,
         FlagTypes, LockInv, Before, Ran, Closing, MarkFailed, Exhausted
  <2> QED
    BY <2>1 DEF AutoCount
<1>15. CASE Retry
  <2>1. ASSUME NEW d \in Commands PROVE Counted(d)'
    <3>1. Counted(d) /\ cmd[d].attempts \in Nat /\ autoRuns[d] \in Nat /\ faults \in Nat
      BY RowFacts DEF AutoCount, TypeOK
    <3> QED
      BY <1>15, <3>1 DEF Counted, Unrecorded, TypeOK, RowTypes, RunTypes, CommandRow, LockTypes,
         FlagTypes, LockInv, Before, Ran, Closing, Retry, Exhausted, Release, Unlock, DropWork
  <2> QED
    BY <2>1 DEF AutoCount
<1>16. CASE CloseJob
  <2>1. ASSUME NEW d \in Commands PROVE Counted(d)'
    <3>1. Counted(d) /\ cmd[d].attempts \in Nat /\ autoRuns[d] \in Nat /\ faults \in Nat
      BY RowFacts DEF AutoCount, TypeOK
    <3> QED
      BY <1>16, <3>1 DEF Counted, Unrecorded, TypeOK, RowTypes, RunTypes, CommandRow, LockTypes,
         FlagTypes, LockInv, Before, Ran, Closing, CloseJob, Release, Unlock, DropWork
  <2> QED
    BY <2>1 DEF AutoCount
<1>17. CASE MarkWriteFails
  <2>1. ASSUME NEW d \in Commands PROVE Counted(d)'
    <3>1. Counted(d) /\ cmd[d].attempts \in Nat /\ autoRuns[d] \in Nat /\ faults \in Nat
      BY RowFacts DEF AutoCount, TypeOK
    <3> QED
      BY <1>17, <3>1 DEF Counted, Unrecorded, TypeOK, RowTypes, RunTypes, CommandRow, LockTypes,
         FlagTypes, LockInv, Before, Ran, Closing, MarkWriteFails, Release, Unlock, DropWork
  <2> QED
    BY <2>1 DEF AutoCount
<1>18. CASE CrashRestart
  <2>1. ASSUME NEW d \in Commands PROVE Counted(d)'
    <3>1. Counted(d) /\ cmd[d].attempts \in Nat /\ autoRuns[d] \in Nat /\ faults \in Nat
      BY RowFacts DEF AutoCount, TypeOK
    <3>2. /\ autoRuns' = autoRuns /\ faults' = faults + 1 /\ pc' = "idle"
          /\ cmd[d].status = "running" => cmd'[d].status = "failed" /\ cmd'[d].attempts = cmd[d].attempts + 1
          /\ cmd[d].status # "running" => cmd'[d] = cmd[d]
      BY <1>18 DEF CrashRestart, Unlock, history, TypeOK, RowTypes, CommandRow
    <3> QED
      BY <3>1, <3>2 DEF Counted, Unrecorded, Ran
  <2> QED
    BY <2>1 DEF AutoCount
<1>19. CASE Prune
  <2>1. ASSUME NEW d \in Commands PROVE Counted(d)'
    <3>1. Counted(d) /\ cmd[d].attempts \in Nat /\ autoRuns[d] \in Nat /\ faults \in Nat
      BY RowFacts DEF AutoCount, TypeOK
    <3> QED
      BY <1>19, <3>1, ExpiredFinished, NoCommandType DEF Counted, Unrecorded, TypeOK, RowTypes,
         RunTypes, CommandRow, Terminal, LockTypes, LockInv, Before, Ran, Closing, FlagTypes,
         Prune
  <2> QED
    BY <2>1 DEF AutoCount
<1>20. CASE UNCHANGED <<cmd, autoRuns, pc, auto, cur, faults>>
  BY <1>20 DEF AutoCount, Counted, Unrecorded
<1> QED
  BY <1>1, <1>2, <1>3, <1>4, <1>5, <1>6, <1>7, <1>8, <1>9, <1>10, <1>11, <1>12, <1>13, <1>14,
     <1>15, <1>16, <1>17, <1>18, <1>19, <1>20 DEF Next, Worker, vars, EditCatalog

\* ExecutionBound: a background run starts from a pending row, which is below
\* the attempt limit.
LEMMA StepBound ==
  ASSUME TypeOK, LockInv, RowInv, AutoCount, ExecutionBound, [Next]_vars
  PROVE  ExecutionBound'
<1>1. ASSUME NEW c \in Commands, TickTake(c) PROVE ExecutionBound'
  BY <1>1, RowFacts DEF TypeOK, RunTypes, RestTypes, ExecutionBound, TickTake, BeginJob, RunningJobs
<1>2. CASE ConfirmBegin
  BY <1>2, RowFacts DEF TypeOK, RunTypes, RestTypes, ExecutionBound, ConfirmBegin, BeginJob
<1>3. CASE Execute
  BY <1>3, RowFacts DEF TypeOK, RunTypes, RestTypes, ExecutionBound, AutoCount, Counted,
     Unrecorded, RowInv, LockInv, Before, Ran, Closing, FlagTypes, LockTypes, Execute, CountRun
<1>4. CASE MarkWriteFails
  BY <1>4, RowFacts DEF TypeOK, RunTypes, RestTypes, ExecutionBound, MarkWriteFails, Release,
     Unlock, DropWork
<1>5. CASE CrashRestart
  <2>1. autoRuns' = autoRuns /\ faults' = faults + 1
    BY <1>5 DEF CrashRestart, history
  <2> QED
    BY <2>1, RowFacts DEF TypeOK, ExecutionBound
<1>6. CASE TickList \/ LinkJob \/ CloseJob
  <2>1. autoRuns' = autoRuns /\ (faults' = faults \/ faults' = faults + 1)
    BY <1>6 DEF TickList, LinkJob, CloseJob
  <2> QED
    BY <2>1, RowFacts DEF TypeOK, ExecutionBound
<1>7. CASE UNCHANGED <<autoRuns, faults>>
  BY <1>7 DEF ExecutionBound
<1> QED
  BY <1>1, <1>2, <1>3, <1>4, <1>5, <1>6, <1>7 DEF Next, Worker, vars, Hold, Enqueue, ConfirmCreate,
     Rerun, EditCatalog, ConfirmClaim, TickBegin, TickList, TickPageEnd, LinkJob,
     ExecuteRefused, MarkDone, MarkFailed, Retry, CloseJob, Prune, Insert, Hold

\* A job is linked only to the command whose holder began it.
LEMMA StepJobInv ==
  ASSUME TypeOK, LockInv, JobInv, [Next]_vars
  PROVE  JobInv'
<1> USE DEF TypeOK, RowTypes, LockTypes, JobTypes, JobRow, Statuses, Commands, Jobs, LockInv,
   JobInv, Before, Ran, Closing
<1>1. ASSUME NEW i \in Invocations, Enqueue(i) PROVE JobInv'
  BY <1>1, MaxJobNat DEF Enqueue, Insert
<1>2. ASSUME NEW i \in Invocations, ConfirmCreate(i) PROVE JobInv'
  BY <1>2, MaxJobNat DEF ConfirmCreate, Insert, Hold
<1>3. ASSUME NEW i \in Invocations, Rerun(i) PROVE JobInv'
  BY <1>3, MaxJobNat DEF Rerun, Insert, Hold
<1>4. ASSUME NEW c \in Commands, TickTake(c) PROVE JobInv'
  BY SMTT(30), <1>4, MaxJobNat DEF TickTake, BeginJob, RunningJobs
<1>5. ASSUME NEW c \in Commands, ConfirmClaim(c) PROVE JobInv'
  BY <1>5, MaxJobNat DEF ConfirmClaim, Hold
<1>6. CASE TickBegin
  BY <1>6, MaxJobNat DEF TickBegin
<1>7. CASE TickList
  BY <1>7, MaxJobNat DEF TickList, Unlock, DropWork
<1>8. CASE TickPageEnd
  BY <1>8, MaxJobNat DEF TickPageEnd, Unlock, DropWork
<1>9. CASE ConfirmBegin
  BY SMTT(20), <1>9, MaxJobNat DEF ConfirmBegin, BeginJob
<1>10. CASE LinkJob
  BY <1>10, MaxJobNat DEF LinkJob
<1>11. CASE Execute
  BY <1>11, MaxJobNat DEF Execute, CountRun
<1>12. CASE ExecuteRefused
  BY <1>12, MaxJobNat DEF ExecuteRefused
<1>13. CASE MarkDone
  BY <1>13, MaxJobNat DEF MarkDone
<1>14. CASE MarkFailed
  BY <1>14, MaxJobNat DEF MarkFailed, Exhausted
<1>15. CASE Retry
  BY <1>15, MaxJobNat DEF Retry, Exhausted, Release, Unlock, DropWork
<1>16. CASE CloseJob
  <2>1. ASSUME NEW j \in Jobs PROVE job'[j].cmd = job[j].cmd
    BY <1>16, ClosedJob
  <2>2. pc' \in {"idle", "next"} /\ nextCmd' = nextCmd
    BY <1>16 DEF CloseJob, Release, Unlock
  <2> QED
    BY <2>1, <2>2
<1>17. CASE MarkWriteFails
  BY <1>17, MaxJobNat DEF MarkWriteFails, Release, Unlock, DropWork
<1>18. CASE CrashRestart
  BY <1>18, MaxJobNat DEF CrashRestart, Unlock, DropWork
<1>19. CASE UNCHANGED <<job, nextCmd, curJob, cur, pc>>
  BY <1>19
<1> QED
  BY <1>1, <1>2, <1>3, <1>4, <1>5, <1>6, <1>7, <1>8, <1>9, <1>10, <1>11, <1>12, <1>13, <1>14,
     <1>15, <1>16, <1>17, <1>18, <1>19 DEF Next, Worker, vars, EditCatalog, Prune

\* JobTruth of one job.
Truth(j) ==
    job[j].cmd # 0 =>
        /\ job[j].status = "done"   => cmd[job[j].cmd].status \in {"done", "none"}
        /\ job[j].status = "failed" => cmd[job[j].cmd].status \in {"failed", "none"}

\* JobTruth: the row is terminal before its job is closed.
LEMMA StepJobTruth ==
  ASSUME TypeOK, LockInv, RowInv, JobInv, JobTruth, [Next]_vars
  PROVE  JobTruth'
<1>1. ASSUME NEW i \in Invocations, Enqueue(i) PROVE JobTruth'
  <2>1. ASSUME NEW j \in Jobs PROVE Truth(j)'
    <3>1. Truth(j) /\ (job[j].cmd # 0 => job[j].cmd \in Commands)
      BY LinkType DEF JobTruth, Truth, TypeOK
    <3> QED
      BY <1>1, <3>1, MaxJobNat, UnlinkedRow DEF Truth, TypeOK, RowTypes, CommandRow, JobTypes,
         JobRow, Jobs, LockTypes, FlagTypes, LockInv, Before, Ran, Closing, Enqueue, Insert
  <2> QED
    BY <2>1 DEF JobTruth, Truth
<1>2. ASSUME NEW i \in Invocations, ConfirmCreate(i) PROVE JobTruth'
  <2>1. ASSUME NEW j \in Jobs PROVE Truth(j)'
    <3>1. Truth(j) /\ (job[j].cmd # 0 => job[j].cmd \in Commands)
      BY LinkType DEF JobTruth, Truth, TypeOK
    <3> QED
      BY <1>2, <3>1, MaxJobNat, UnlinkedRow DEF Truth, TypeOK, RowTypes, CommandRow, JobTypes,
         JobRow, Jobs, LockTypes, FlagTypes, LockInv, Before, Ran, Closing, ConfirmCreate,
         Insert, Hold
  <2> QED
    BY <2>1 DEF JobTruth, Truth
<1>3. ASSUME NEW i \in Invocations, Rerun(i) PROVE JobTruth'
  <2>1. ASSUME NEW j \in Jobs PROVE Truth(j)'
    <3>1. Truth(j) /\ (job[j].cmd # 0 => job[j].cmd \in Commands)
      BY LinkType DEF JobTruth, Truth, TypeOK
    <3> QED
      BY <1>3, <3>1, MaxJobNat, UnlinkedRow DEF Truth, TypeOK, RowTypes, CommandRow, JobTypes,
         JobRow, Jobs, LockTypes, FlagTypes, LockInv, Before, Ran, Closing, Rerun, Insert, Hold
  <2> QED
    BY <2>1 DEF JobTruth, Truth
<1>4. ASSUME NEW c \in Commands, TickTake(c) PROVE JobTruth'
  <2>1. ASSUME NEW j \in Jobs PROVE Truth(j)'
    <3>1. Truth(j) /\ (job[j].cmd # 0 => job[j].cmd \in Commands)
      BY LinkType DEF JobTruth, Truth, TypeOK
    <3>2. cmd' = cmd /\ (NewJob \/ UNCHANGED jobRows)
      BY <1>4 DEF TickTake, BeginJob
    <3> QED
      BY <3>1, <3>2, BegunJob DEF Truth, TypeOK
  <2> QED
    BY <2>1 DEF JobTruth, Truth
<1>5. ASSUME NEW c \in Commands, ConfirmClaim(c) PROVE JobTruth'
  <2>1. ASSUME NEW j \in Jobs PROVE Truth(j)'
    <3>1. Truth(j) /\ (job[j].cmd # 0 => job[j].cmd \in Commands)
      BY LinkType DEF JobTruth, Truth, TypeOK
    <3> QED
      BY <1>5, <3>1, MaxJobNat DEF Truth, TypeOK, RowTypes, CommandRow, JobTypes, JobRow, Jobs,
         LockTypes, FlagTypes, LockInv, Before, Ran, Closing, ConfirmClaim, Hold
  <2> QED
    BY <2>1 DEF JobTruth, Truth
<1>6. CASE ConfirmBegin
  <2>1. ASSUME NEW j \in Jobs PROVE Truth(j)'
    <3>1. Truth(j) /\ (job[j].cmd # 0 => job[j].cmd \in Commands)
      BY LinkType DEF JobTruth, Truth, TypeOK
    <3> QED
      BY SMTT(30), <1>6, <3>1, MaxJobNat DEF Truth, TypeOK, RowTypes, CommandRow, JobTypes, JobRow, Jobs,
         LockTypes, FlagTypes, LockInv, Before, Ran, Closing, ConfirmBegin, BeginJob
  <2> QED
    BY <2>1 DEF JobTruth, Truth
<1>7. CASE LinkJob
  <2>1. ASSUME NEW j \in Jobs PROVE Truth(j)'
    <3>1. Truth(j) /\ (job[j].cmd # 0 => job[j].cmd \in Commands)
      BY LinkType DEF JobTruth, Truth, TypeOK
    <3> QED
      BY SMTT(20), <1>7, <3>1, MaxJobNat DEF Truth, TypeOK, RowTypes, CommandRow, JobTypes, JobRow, Jobs,
         LockTypes, FlagTypes, LockInv, Before, Ran, Closing, LinkJob
  <2> QED
    BY <2>1 DEF JobTruth, Truth
<1>8. CASE MarkDone
  <2>1. ASSUME NEW j \in Jobs PROVE Truth(j)'
    <3>1. Truth(j) /\ (job[j].cmd # 0 => job[j].cmd \in Commands)
      BY LinkType DEF JobTruth, Truth, TypeOK
    <3> QED
      BY <1>8, <3>1, MaxJobNat DEF Truth, TypeOK, RowTypes, CommandRow, JobTypes, JobRow, Jobs,
         LockTypes, FlagTypes, LockInv, Before, Ran, Closing, MarkDone
  <2> QED
    BY <2>1 DEF JobTruth, Truth
<1>9. CASE MarkFailed
  <2>1. ASSUME NEW j \in Jobs PROVE Truth(j)'
    <3>1. Truth(j) /\ (job[j].cmd # 0 => job[j].cmd \in Commands)
      BY LinkType DEF JobTruth, Truth, TypeOK
    <3> QED
      BY <1>9, <3>1, MaxJobNat DEF Truth, TypeOK, RowTypes, CommandRow, JobTypes, JobRow, Jobs,
         LockTypes, FlagTypes, LockInv, Before, Ran, Closing, MarkFailed, Exhausted
  <2> QED
    BY <2>1 DEF JobTruth, Truth
<1>10. CASE Retry
  <2>1. ASSUME NEW j \in Jobs PROVE Truth(j)'
    <3>1. Truth(j) /\ (job[j].cmd # 0 => job[j].cmd \in Commands)
      BY LinkType DEF JobTruth, Truth, TypeOK
    <3> QED
      BY <1>10, <3>1, MaxJobNat DEF Truth, TypeOK, RowTypes, CommandRow, JobTypes, JobRow, Jobs,
         LockTypes, FlagTypes, LockInv, Before, Ran, Closing, Retry, Exhausted, Release, Unlock,
         DropWork
  <2> QED
    BY <2>1 DEF JobTruth, Truth
<1>11. CASE CloseJob
  <2>1. ASSUME NEW j \in Jobs PROVE Truth(j)'
    <3>1. Truth(j) /\ (job[j].cmd # 0 => job[j].cmd \in Commands)
      BY LinkType DEF JobTruth, Truth, TypeOK
    <3>2. /\ cmd' = cmd /\ pc \in Closing
          /\ curJob # 0 => job[curJob].cmd \in {0, cur}
      BY <1>11 DEF CloseJob, Closing, JobInv
    <3> QED
      BY <1>11, <3>1, <3>2, ClosedJob DEF Truth, TypeOK, LockInv, Closing
  <2> QED
    BY <2>1 DEF JobTruth, Truth
<1>12. CASE CrashRestart
  <2>1. ASSUME NEW j \in Jobs PROVE Truth(j)'
    <3>1. Truth(j) /\ (job[j].cmd # 0 => job[j].cmd \in Commands)
      BY LinkType DEF JobTruth, Truth, TypeOK
    <3>2. \/ job'[j] = job[j]
          \/ /\ job'[j] = [job[j] EXCEPT !.status = "failed"]
             /\ job[j].cmd # 0 => cmd[job[j].cmd].status = "running"
      BY <1>12 DEF CrashRestart
    <3>3. job'[j].cmd = job[j].cmd
      BY <3>2 DEF TypeOK, JobTypes, JobRow
    <3>4. \/ job'[j] = job[j]
          \/ job'[j].status = "failed" /\ (job[j].cmd # 0 => cmd[job[j].cmd].status = "running")
      BY <3>2 DEF TypeOK, JobTypes, JobRow
    <3>5. ASSUME NEW c \in Commands
          PROVE  /\ cmd[c].status = "running" => cmd'[c].status = "failed"
                 /\ cmd[c].status # "running" => cmd'[c].status = cmd[c].status
      BY <1>12 DEF CrashRestart, TypeOK, RowTypes, CommandRow
    <3> QED
      BY <3>1, <3>3, <3>4, <3>5 DEF Truth
  <2> QED
    BY <2>1 DEF JobTruth, Truth
<1>13. CASE Prune
  <2>1. ASSUME NEW j \in Jobs PROVE Truth(j)'
    <3>1. Truth(j) /\ (job[j].cmd # 0 => job[j].cmd \in Commands)
      BY LinkType DEF JobTruth, Truth, TypeOK
    <3> QED
      BY <1>13, <3>1, MaxJobNat, NoCommandType DEF Truth, TypeOK, RowTypes, CommandRow,
         JobTypes, JobRow, Jobs, Terminal, Prune
  <2> QED
    BY <2>1 DEF JobTruth, Truth
<1>14. CASE UNCHANGED <<job, cmd>>
  BY <1>14 DEF JobTruth
<1> QED
  BY <1>1, <1>2, <1>3, <1>4, <1>5, <1>6, <1>7, <1>8, <1>9, <1>10, <1>11, <1>12, <1>13, <1>14 DEF
     Next, Worker, vars, EditCatalog, TickBegin, TickList, TickPageEnd, Execute, ExecuteRefused,
     MarkWriteFails

-----------------------------------------------------------------------------
\* An empty database and an unlocked mutex satisfy everything.
LEMMA InitInv == Init => TypeOK /\ IInv
<1> SUFFICES ASSUME Init PROVE TypeOK /\ IInv
  OBVIOUS
<1> USE DEF Init
<1>1. RowTypes /\ JobTypes
  BY NoCommandType, MaxJobNat DEF RowTypes, JobTypes, JobRow, Jobs
<1>2. LockTypes /\ ScanTypes
  BY MaxJobNat DEF LockTypes, ScanTypes, PCs
<1>3. RunTypes /\ RestTypes
  BY DEF RunTypes, RestTypes
<1>4. LockInv /\ RowInv /\ UserCount /\ OneShot
  BY NoCommandType DEF LockInv, RowInv, UserCount, OneShot, Before, Ran, Closing
<1>5. AutoCount /\ RunningIsHeld /\ ListedStayPending /\ ExecutionBound
  BY NoCommandType DEF AutoCount, Counted, RunningIsHeld, ListedStayPending, ExecutionBound
<1>6. JobInv /\ JobTruth /\ DoneRan
  BY DEF JobInv, JobTruth, DoneRan
<1>7. FlagTypes
  BY DEF FlagTypes
<1> QED
  BY <1>1, <1>2, <1>3, <1>4, <1>5, <1>6, <1>7 DEF TypeOK, IInv

\* Every step keeps the types and the invariant.
LEMMA StepInv ==
  ASSUME TypeOK, IInv, [Next]_vars
  PROVE  TypeOK' /\ IInv'
<1>1. TypeOK'
  BY StepRows, StepJobs, StepLock, StepFlags, StepScan, StepRuns, StepRest DEF TypeOK, IInv
<1>2. IInv'
  BY StepLockInv, StepRowInv, StepListed, StepHeld, StepUserCount, StepOneShot, StepDoneRan,
     StepAutoCount, StepBound, StepJobInv, StepJobTruth DEF IInv
<1> QED
  BY <1>1, <1>2

\* In every reachable state every variable has its type and the inductive
\* invariant holds.
THEOREM Invariance == Spec => [](TypeOK /\ IInv)
<1>1. Init => TypeOK /\ IInv
  BY InitInv
<1>2. TypeOK /\ IInv /\ [Next]_vars => (TypeOK /\ IInv)'
  BY StepInv
<1> QED
  BY <1>1, <1>2, PTL DEF Spec

\* The type invariant: among others, no row is counted past MaxAttempts and
\* every linked job names a command id.
THEOREM TypeCorrect == Spec => []TypeOK
<1>1. TypeOK /\ IInv => TypeOK
  BY DEF IInv
<1> QED
  BY <1>1, Invariance, PTL

\* An explicit invocation executes at most once, whatever write fails and
\* whenever the process stops.
THEOREM OneShotHolds == Spec => []OneShot
<1>1. TypeOK /\ IInv => OneShot
  BY DEF IInv
<1> QED
  BY <1>1, Invariance, PTL

\* A row found running is truly in flight, as long as no terminal write has
\* failed since the last start.
THEOREM RunningIsHeldHolds == Spec => []RunningIsHeld
<1>1. TypeOK /\ IInv => RunningIsHeld
  BY DEF IInv
<1> QED
  BY <1>1, Invariance, PTL

\* The page a pass has read does not go stale while it works it off.
THEOREM ListedStayPendingHolds == Spec => []ListedStayPending
<1>1. TypeOK /\ IInv => ListedStayPending
  BY DEF IInv
<1> QED
  BY <1>1, Invariance, PTL

\* A background command executes at most MaxAttempts times, plus once per
\* crash or failed write.
THEOREM ExecutionBoundHolds == Spec => []ExecutionBound
<1>1. TypeOK /\ IInv => ExecutionBound
  BY DEF IInv
<1> QED
  BY <1>1, Invariance, PTL

\* A closed job agrees with the command it is linked to.
THEOREM JobTruthHolds == Spec => []JobTruth
<1>1. TypeOK /\ IInv => JobTruth
  BY DEF IInv
<1> QED
  BY <1>1, Invariance, PTL

\* No step executes a claimed command in the background.
THEOREM NeverBackgroundHolds == Spec => NeverBackground
<1>1. TypeOK /\ IInv /\ [Next]_vars => [\A c \in claimed : autoRuns'[c] = autoRuns[c]]_vars
  <2> SUFFICES ASSUME TypeOK, IInv, Next, NEW c \in claimed PROVE autoRuns'[c] = autoRuns[c]
    OBVIOUS
  <2>1. CASE Execute
    BY <2>1 DEF Execute, CountRun, TypeOK, FlagTypes, RunTypes, LockTypes, IInv, LockInv,
       RowInv, Before, Ran, Closing
  <2>2. CASE UNCHANGED autoRuns
    BY <2>2
  <2> QED
    BY <2>1, <2>2 DEF Next, Worker, Enqueue, ConfirmCreate, Rerun, EditCatalog, ConfirmClaim, Hold,
       TickTake, TickBegin, TickList, TickPageEnd, ConfirmBegin, LinkJob, ExecuteRefused, MarkDone,
       MarkFailed, Retry, CloseJob, MarkWriteFails, CrashRestart, Prune, history
<1> QED
  BY <1>1, Invariance, PTL DEF Spec, NeverBackground

-----------------------------------------------------------------------------
(* The queue and its worker implement ActionQueue: the initial states map  *)
(* to its initial state, and every step that IInv allows maps to one of    *)
(* its steps or leaves its variables alone.                                *)

queueVars == <<QueueStatus, autoRuns, userRuns>>

\* What the mapping says of one command, before and after a step.
LEMMA StatusOf ==
  ASSUME NEW c \in Commands
  PROVE  /\ cmd[c].status = "pending" => QueueStatus[c] = "waiting"
         /\ cmd[c].status = "running" => QueueStatus[c] = "held"
         /\ cmd[c].status = "none" => QueueStatus[c] = IF c < nextCmd THEN "gone" ELSE "absent"
         /\ cmd[c].status \in Terminal => QueueStatus[c] = cmd[c].status
         /\ cmd'[c].status = "pending" => QueueStatus'[c] = "waiting"
         /\ cmd'[c].status = "running" => QueueStatus'[c] = "held"
         /\ cmd'[c].status = "none" => QueueStatus'[c] = IF c < nextCmd' THEN "gone" ELSE "absent"
         /\ cmd'[c].status \in Terminal => QueueStatus'[c] = cmd'[c].status
  BY DEF QueueStatus, Terminal

\* A row whose status and place among the ids stay keeps its state.
LEMMA StatusKept ==
  ASSUME NEW c \in Commands, cmd'[c].status = cmd[c].status, (c < nextCmd) <=> (c < nextCmd')
  PROVE  QueueStatus'[c] = QueueStatus[c]
  BY DEF QueueStatus

\* To change the state of the commands of S, and of no other, is a Move.
LEMMA MoveOf ==
  ASSUME NEW S \in SUBSET Commands, NEW From, NEW to,
         \A c \in S : QueueStatus[c] \in From /\ QueueStatus'[c] = to,
         \A c \in Commands \ S : QueueStatus'[c] = QueueStatus[c]
  PROVE  Queue!Move(S, From, to)
<1>1. QueueStatus' = [c \in Commands |-> IF c \in S THEN to ELSE QueueStatus[c]]
  <2>1. \A c \in Commands : QueueStatus'[c] = IF c \in S THEN to ELSE QueueStatus[c]
    OBVIOUS
  <2> QED
    BY <2>1 DEF QueueStatus
<1> QED
  BY <1>1 DEF Queue!Move

\* A step that leaves rows and executions alone is a stutter.
LEMMA Stutters ==
  ASSUME UNCHANGED <<rows, autoRuns, userRuns>>
  PROVE  UNCHANGED queueVars
  BY DEF queueVars, QueueStatus

\* So is one that changes only what a row's status is not.
LEMMA StuttersByStatus ==
  ASSUME UNCHANGED <<nextCmd, autoRuns, userRuns>>, \A c \in Commands : cmd'[c].status = cmd[c].status
  PROVE  UNCHANGED queueVars
<1>1. \A c \in Commands : QueueStatus'[c] = QueueStatus[c]
  BY StatusKept
<1>2. QueueStatus' = QueueStatus
  BY <1>1 DEF QueueStatus
<1> QED
  BY <1>2 DEF queueVars

\* An inserted row takes the first absent command into the queue, or into the
\* hands of the pane.
LEMMA Inserted ==
  ASSUME TypeOK, RowInv, NEW i, NEW s \in {"pending", "running"}, NEW r, Insert(i, s, r)
  PROVE  /\ nextCmd \in Commands
         /\ Queue!Move({nextCmd}, {"absent"}, IF s = "pending" THEN "waiting" ELSE "held")
<1>1. nextCmd \in Commands /\ cmd[nextCmd].status = "none"
  BY FreshRow DEF TypeOK, Insert
<1>2. cmd'[nextCmd].status = s /\ nextCmd' = nextCmd + 1
  BY <1>1 DEF Insert, TypeOK, RowTypes
<1>3. QueueStatus[nextCmd] = "absent"
  BY <1>1, StatusOf DEF TypeOK, RowTypes
<1>4. QueueStatus'[nextCmd] = IF s = "pending" THEN "waiting" ELSE "held"
  BY <1>1, <1>2, StatusOf
<1>5. ASSUME NEW c \in Commands \ {nextCmd} PROVE QueueStatus'[c] = QueueStatus[c]
  <2>1. cmd'[c].status = cmd[c].status
    BY <1>5 DEF Insert, TypeOK, RowTypes
  <2>2. (c < nextCmd) <=> (c < nextCmd')
    BY <1>2, <1>5 DEF TypeOK, RowTypes, Commands
  <2> QED
    BY <2>1, <2>2, StatusKept
<1>6. \A c \in {nextCmd} : QueueStatus[c] \in {"absent"}
                           /\ QueueStatus'[c] = IF s = "pending" THEN "waiting" ELSE "held"
  BY <1>3, <1>4
<1> QED
  BY <1>1, <1>5, <1>6, MoveOf

\* A command that waits or is held, and whose row alone changes to a terminal
\* status, is settled.
LEMMA SettledRow ==
  ASSUME TypeOK, LockInv, pc \in Ran, NEW s \in Terminal, UNCHANGED nextCmd,
         cmd'[cur].status = s, \A c \in Commands \ {cur} : cmd'[c].status = cmd[c].status
  PROVE  cur \in Commands /\ Queue!Move({cur}, {"waiting", "held"}, s)
<1>1. cur \in Commands /\ cmd[cur].status \in {"pending", "running"}
  BY DEF LockInv
<1>2. \A c \in {cur} : QueueStatus[c] \in {"waiting", "held"} /\ QueueStatus'[c] = s
  BY <1>1, StatusOf
<1>3. \A c \in Commands \ {cur} : QueueStatus'[c] = QueueStatus[c]
  BY StatusKept
<1> QED
  BY <1>1, <1>2, <1>3, MoveOf

LEMMA EnqueueStep ==
  ASSUME TypeOK, RowInv, NEW i, Enqueue(i) PROVE Queue!Next
<1>1. nextCmd \in Commands /\ Queue!Move({nextCmd}, {"absent"}, "waiting")
  BY Inserted DEF Enqueue
<1>2. UNCHANGED <<autoRuns, userRuns>>
  BY DEF Enqueue
<1> QED
  BY <1>1, <1>2 DEF Queue!Next, Queue!Enqueue

\* A created and a rerun command are held from the start.
LEMMA HoldStep ==
  ASSUME TypeOK, RowInv, NEW i, NEW r, Insert(i, "running", r), Hold(nextCmd) PROVE Queue!Next
<1>1. nextCmd \in Commands /\ Queue!Move({nextCmd}, {"absent"}, "held")
  BY Inserted
<1>2. Queue!Move({nextCmd}, {"absent", "waiting"}, "held")
  BY <1>1 DEF Queue!Move
<1>3. UNCHANGED <<autoRuns, userRuns>>
  BY DEF Hold
<1> QED
  BY <1>1, <1>2, <1>3 DEF Queue!Next, Queue!Invoke

LEMMA ClaimStep ==
  ASSUME TypeOK, NEW c \in Commands, ConfirmClaim(c) PROVE Queue!Next
<1>1. cmd[c].status = "pending" /\ cmd'[c].status = "running" /\ UNCHANGED nextCmd
  BY DEF ConfirmClaim, TypeOK, RowTypes, CommandRow
<1>2. \A d \in Commands \ {c} : cmd'[d].status = cmd[d].status
  BY DEF ConfirmClaim, TypeOK, RowTypes
<1>3. \A d \in {c} : QueueStatus[d] \in {"absent", "waiting"} /\ QueueStatus'[d] = "held"
  BY <1>1, StatusOf
<1>4. \A d \in Commands \ {c} : QueueStatus'[d] = QueueStatus[d]
  BY <1>1, <1>2, StatusKept
<1>5. Queue!Move({c}, {"absent", "waiting"}, "held")
  BY <1>3, <1>4, MoveOf
<1>6. UNCHANGED <<autoRuns, userRuns>>
  BY DEF ConfirmClaim, Hold
<1> QED
  BY <1>5, <1>6 DEF Queue!Next, Queue!Invoke

\* The worker executes what waits, the pane what it holds and has not run.
LEMMA ExecuteStep ==
  ASSUME TypeOK, LockInv, UserCount, Execute PROVE Queue!Next
<1>1. cur \in Commands /\ cmd[cur].status = IF auto THEN "pending" ELSE "running"
  BY DEF Execute, LockInv, Before
<1>2. QueueStatus' = QueueStatus
  BY DEF Execute, QueueStatus
<1>3. CASE auto
  <2>1. QueueStatus[cur] = "waiting"
    BY <1>1, <1>3, StatusOf
  <2>2. autoRuns' = [autoRuns EXCEPT ![cur] = @ + 1] /\ UNCHANGED userRuns
    BY <1>3 DEF Execute, CountRun, TypeOK, RunTypes
  <2> QED
    BY <1>1, <1>2, <2>1, <2>2 DEF Queue!Next, Queue!Run
<1>4. CASE ~auto
  <2>1. QueueStatus[cur] = "held"
    BY <1>1, <1>4, StatusOf
  <2>2. userRuns[cur] = 0
    BY <1>1, <1>4 DEF UserCount, Execute, Before
  <2>3. userRuns' = [userRuns EXCEPT ![cur] = 1] /\ UNCHANGED autoRuns
    BY <1>4, <2>2 DEF Execute, CountRun, TypeOK, RunTypes
  <2> QED
    BY <1>1, <1>2, <2>1, <2>2, <2>3 DEF Queue!Next, Queue!RunHeld
<1> QED
  BY <1>3, <1>4 DEF TypeOK, FlagTypes

LEMMA DoneStep ==
  ASSUME TypeOK, LockInv, DoneRan, MarkDone PROVE Queue!Next
<1>1. cur \in Commands
  BY DEF MarkDone, LockInv, Ran
<1>2. cmd'[cur].status = "done" /\ \A c \in Commands \ {cur} : cmd'[c].status = cmd[c].status
  BY <1>1 DEF MarkDone, TypeOK, RowTypes, CommandRow
<1>3. Queue!Move({cur}, {"waiting", "held"}, "done")
  BY <1>2, SettledRow DEF MarkDone, Ran, Terminal
<1>4. autoRuns[cur] + userRuns[cur] > 0 /\ UNCHANGED <<autoRuns, userRuns>>
  BY DEF MarkDone, DoneRan, history
<1> QED
  BY <1>1, <1>3, <1>4 DEF Queue!Next, Queue!Done

LEMMA FailStep ==
  ASSUME TypeOK, LockInv, MarkFailed PROVE Queue!Next
<1>1. cur \in Commands
  BY DEF MarkFailed, LockInv, Ran
<1>2. cmd'[cur].status = "failed" /\ \A c \in Commands \ {cur} : cmd'[c].status = cmd[c].status
  BY <1>1 DEF MarkFailed, TypeOK, RowTypes, CommandRow
<1>3. Queue!Move({cur}, {"waiting", "held"}, "failed")
  BY <1>2, SettledRow DEF MarkFailed, Ran, Terminal
<1>4. UNCHANGED <<autoRuns, userRuns>>
  BY DEF MarkFailed, history
<1> QED
  BY <1>1, <1>3, <1>4 DEF Queue!Next, Queue!Fail

LEMMA RetryStep ==
  ASSUME TypeOK, LockInv, Retry PROVE UNCHANGED queueVars
<1>1. cur \in Commands
  BY DEF Retry, LockInv, Ran
<1>2. \A c \in Commands : cmd'[c].status = cmd[c].status
  BY <1>1 DEF Retry, TypeOK, RowTypes, CommandRow
<1> QED
  BY <1>2, StuttersByStatus DEF Retry, history

\* A restart fails all that was held.
LEMMA CrashStep ==
  ASSUME TypeOK, CrashRestart PROVE Queue!Next
<1> DEFINE S == {c \in Commands : cmd[c].status = "running"}
<1>1. UNCHANGED <<nextCmd, autoRuns, userRuns>>
  BY DEF CrashRestart, history
<1>2. \A c \in S : cmd'[c].status = "failed"
  BY DEF CrashRestart, Recovered, TypeOK, RowTypes, CommandRow
<1>3. \A c \in Commands \ S : cmd'[c].status = cmd[c].status
  BY DEF CrashRestart
<1>4. \A c \in S : QueueStatus[c] \in {"waiting", "held"} /\ QueueStatus'[c] = "failed"
  BY <1>2, StatusOf DEF Terminal
<1>5. \A c \in Commands \ S : QueueStatus'[c] = QueueStatus[c]
  BY <1>1, <1>3, StatusKept
<1>6. S \in SUBSET Commands
  OBVIOUS
<1> HIDE DEF S
<1>7. Queue!Move(S, {"waiting", "held"}, "failed")
  BY <1>4, <1>5, <1>6, MoveOf
<1> QED
  BY <1>1, <1>6, <1>7 DEF Queue!Next, Queue!Fail

\* Retention forgets settled commands, whose ids are below the next one.
LEMMA PruneStep ==
  ASSUME TypeOK, RowInv, Prune PROVE Queue!Next
<1>1. UNCHANGED <<nextCmd, autoRuns, userRuns>>
  BY DEF Prune, history
<1>2. \A c \in Expired : c \in Commands /\ cmd[c].status \in Terminal
  BY ExpiredFinished
<1>3. \A c \in Expired : cmd'[c].status = "none"
  BY <1>2, NoCommandType DEF Prune
<1>4. \A c \in Commands \ Expired : cmd'[c].status = cmd[c].status
  BY DEF Prune
<1>5. \A c \in Expired : c < nextCmd
  BY <1>2, UsedRow DEF TypeOK, Terminal
<1>6. \A c \in Expired : QueueStatus[c] \in {"done", "failed"} /\ QueueStatus'[c] = "gone"
  BY <1>1, <1>2, <1>3, <1>5, StatusOf DEF Terminal
<1>7. \A c \in Commands \ Expired : QueueStatus'[c] = QueueStatus[c]
  BY <1>1, <1>4, StatusKept
<1>8. Expired \in SUBSET Commands
  BY <1>2
<1>9. Queue!Move(Expired, {"done", "failed"}, "gone")
  BY <1>6, <1>7, <1>8, MoveOf
<1> QED
  BY <1>1, <1>8, <1>9 DEF Queue!Next, Queue!Forget, Queue!Settled

\* Every step of the worker is a step of the queue, or none.
LEMMA StepRefines ==
  ASSUME TypeOK, IInv, [Next]_vars
  PROVE  Queue!Next \/ UNCHANGED queueVars
<1> USE DEF IInv
<1>1. ASSUME NEW i \in Invocations, Enqueue(i) PROVE Queue!Next
  BY <1>1, EnqueueStep
<1>2. ASSUME NEW i \in Invocations, ConfirmCreate(i) PROVE Queue!Next
  BY <1>2, HoldStep DEF ConfirmCreate
<1>3. ASSUME NEW i \in Invocations, Rerun(i) PROVE Queue!Next
  BY <1>3, HoldStep DEF Rerun
<1>4. ASSUME NEW c \in Commands, ConfirmClaim(c) PROVE Queue!Next
  BY <1>4, ClaimStep
<1>5. CASE Execute
  BY <1>5, ExecuteStep
<1>6. CASE MarkDone
  BY <1>6, DoneStep
<1>7. CASE MarkFailed
  BY <1>7, FailStep
<1>8. CASE Retry
  BY <1>8, RetryStep
<1>9. CASE CrashRestart
  BY <1>9, CrashStep
<1>10. CASE Prune
  BY <1>10, PruneStep
<1>11. CASE UNCHANGED <<rows, autoRuns, userRuns>>
  BY <1>11, Stutters
<1> QED
  BY <1>1, <1>2, <1>3, <1>4, <1>5, <1>6, <1>7, <1>8, <1>9, <1>10, <1>11 DEF Next, Worker, vars,
     EditCatalog, TickBegin, TickList, TickPageEnd, TickTake, ConfirmBegin, LinkJob,
     ExecuteRefused, CloseJob, MarkWriteFails

\* All commands are absent at first, and nothing has run.
LEMMA InitRefines == Init => Queue!Init
<1> SUFFICES ASSUME Init PROVE Queue!Init
  OBVIOUS
<1>1. \A c \in Commands : cmd[c].status = "none" /\ ~(c < nextCmd)
  BY NoCommandType DEF Init, Commands
<1>2. \A c \in Commands : QueueStatus[c] = "absent"
  BY <1>1, StatusOf
<1>3. QueueStatus = [c \in Commands |-> "absent"]
  BY <1>2 DEF QueueStatus
<1> QED
  BY <1>3 DEF Queue!Init, Init

\* The queue and its worker implement the abstract action queue, for any
\* number of invocations, commands, attempts and faults.
THEOREM QueueImplemented == Spec => ImplementsQueue
<1>1. Init => Queue!Init
  BY InitRefines
<1>2. TypeOK /\ IInv /\ [Next]_vars => [Queue!Next]_<<QueueStatus, autoRuns, userRuns>>
  BY StepRefines DEF queueVars
<1> QED
  BY <1>1, <1>2, Invariance, PTL DEF Spec, ImplementsQueue, Queue!Spec, Queue!queue
=============================================================================
