------------------------------ MODULE Scheduler ------------------------------
(***************************************************************************)
(* The task scheduler of DiscoPanel (internal/scheduler/scheduler.go) with *)
(* the task RPCs that edit its table (internal/rpc/services/task.go) and   *)
(* the statements they issue (internal/db/store.go).                       *)
(*                                                                         *)
(* The actors are the ticker loop, one goroutine per execution, the RPC    *)
(* calls in flight, the event bus, the goroutine in Stop, and the clock.   *)
(* One action is one statement on the database or one change of a field    *)
(* other goroutines read.  Time is reduced to what the code compares:      *)
(* next_run is unset, ahead of now, or not ahead of now.                   *)
(***************************************************************************)
EXTENDS Naturals, FiniteSets, Functions

CONSTANTS
  Tasks,       \* identifiers of scheduled tasks
  Execs,       \* identifiers of executions (each uuid is used once)
  Submitted,   \* the settings users submit when they create or edit a task
  MaxRetry,    \* largest retry_count of a submitted task
  MaxEdits,    \* bound: RPCs that hold a row they read, at one time
  MaxCrashes,  \* bound: how often the panel dies without stopping
  MaxFaults    \* bound: how many writes of the scheduler fail

\* "repeat" stands for cron and interval tasks, which differ only in how the
\* next instant is computed, and "invalid" for those of which it cannot be: their
\* expression does not parse.
Schedules == {"repeat", "once", "event", "invalid"}

\* needsOnline: require_online is set and the task is not a webhook.
Settings == [schedule: Schedules, retries: 0..MaxRetry, needsOnline: BOOLEAN]

ASSUME TasksAssumption == Tasks # {}
ASSUME SubmittedAssumption == Submitted \subseteq Settings
ASSUME BoundsAssumption ==
  MaxRetry \in Nat /\ MaxEdits \in Nat /\ MaxCrashes \in Nat /\ MaxFaults \in Nat

VARIABLES
  stage,       \* [Tasks -> "unborn", "live" or "deleted"]: is there a row?
  row,         \* [Tasks -> Row]: the scheduled_tasks table, where live
  record,      \* [Execs -> status]: the task_executions table, "none" without row
  server,      \* what GetServer answers: "running", "offline" or "gone"
  panel,       \* the process and Stop: "off", "up", "stopping", "drained", "stopped"
  loop,        \* is the goroutine of runLoop alive?
  tracked,     \* the keys of runningExecutions
  pc,          \* [Execs -> control point of executeTask]
  job,         \* [Execs -> Job]: the task as executeTask was handed it
  ctx,         \* [Execs -> "live", "deadline" or "cancelled"]: execCtx.Err()
  attempt,     \* [Execs -> Nat]: the loop variable, also RetryNum
  ok,          \* [Execs -> BOOLEAN]: did the last attempt return no error?
  verdict,     \* [Execs -> outcome]: execution.Status before it is saved
  edits,       \* UpdateTask and ToggleTask calls that have read their row
  cancels,     \* CancelExecution calls that have cancelled and not yet answered
  unrecorded,  \* history: executions whose final record could not be written
  crashes, faults

rows    == <<stage, row>>
process == <<panel, loop>>
runs    == <<pc, job, ctx, attempt, ok, verdict>>
bounds  == <<unrecorded, crashes, faults>>
vars == <<stage, row, record, server, panel, loop, tracked, pc, job, ctx,
          attempt, ok, verdict, edits, cancels, unrecorded, crashes, faults>>

Row == [schedule: Schedules, retries: 0..MaxRetry, needsOnline: BOOLEAN,
        status: {"enabled", "disabled"}, next: {"none", "future", "due"}]

Job == [task: Tasks, settings: Settings, trigger: {"none", "scheduled", "event", "manual"}]

Outcomes == {"completed", "failed", "timeout", "cancelled"}
Statuses == {"none", "running", "skipped"} \cup Outcomes

\* Control points, in the order executeTask passes them.  "free" is an
\* identifier not yet drawn, "lost" a goroutine that died with the process.
Starting == {"spawned", "skip", "create"}
Open     == {"created", "attempt", "waiting", "retry", "finish", "record"}
Closing  == {"advance", "cleanup"}
Active   == Starting \cup Open \cup Closing
PCs      == Active \cup {"free", "done", "lost"}

BlankSettings == [schedule |-> "event", retries |-> 0, needsOnline |-> FALSE]
SettingsOf(r) == [schedule |-> r.schedule, retries |-> r.retries,
                  needsOnline |-> r.needsOnline]
RowOf(s, status, next) ==
  [schedule |-> s.schedule, retries |-> s.retries, needsOnline |-> s.needsOnline,
   status |-> status, next |-> next]

\* The row with another next_run.
WithNext(r, next) == RowOf(SettingsOf(r), r.status, next)

\* What an identifier not yet drawn holds.
BlankJob == [task |-> CHOOSE t \in Tasks : TRUE, settings |-> BlankSettings,
             trigger |-> "none"]

Free == {e \in Execs : pc[e] = "free"}

\* CalculateNextRun: the next_run of a row about to be saved.  A "once" task
\* whose run_at has passed gets none.
CalculateNextRun(schedule) ==
  {next \in {"future", "none"} : /\ schedule = "repeat" => next = "future"
                                /\ schedule \in {"event", "invalid"} => next = "none"}

\* The next_run that updateNextRun writes after an execution.
NextRunAfter(schedule) == IF schedule = "repeat" THEN "future" ELSE "none"

DueTasks == {t \in Tasks : stage[t] = "live" /\ row[t].status = "enabled"
                                             /\ row[t].next = "due"}
EventTasks == {t \in Tasks : stage[t] = "live" /\ row[t].status = "enabled"
                                               /\ row[t].schedule = "event"}

\* Mutant: wg.Add inside the goroutine, after it was started.
InGroup_AddedLate(e) ==
  pc[e] \in Active \ {"spawned"} /\ job[e].trigger # "manual"

\* The executions the WaitGroup counts: not those TriggerTask runs inline.
InGroup(e) == pc[e] \in Active /\ job[e].trigger # "manual"

Init ==
  /\ stage = [t \in Tasks |-> "unborn"]
  /\ row = [t \in Tasks |-> RowOf(BlankSettings, "disabled", "none")]
  /\ record = [e \in Execs |-> "none"]
  /\ server \in {"running", "offline"}
  /\ panel = "off" /\ loop = FALSE
  /\ tracked = {}
  /\ pc = [e \in Execs |-> "free"]
  /\ job = [e \in Execs |-> BlankJob]
  /\ ctx = [e \in Execs |-> "live"]
  /\ attempt = [e \in Execs |-> 0]
  /\ ok = [e \in Execs |-> FALSE]
  /\ verdict = [e \in Execs |-> "none"]
  /\ edits = {} /\ cancels = {} /\ unrecorded = {}
  /\ crashes = 0 /\ faults = 0

-----------------------------------------------------------------------------
(* Spawning executions.  Each task of T gets a goroutine of its own, which  *)
(* works from the row as it was listed.                                     *)

Spawn(T, trigger) ==
  \E S \in SUBSET Free : \E g \in Bijection(S, T) :
    /\ pc' = [e \in Execs |-> IF e \in S THEN "spawned" ELSE pc[e]]
    /\ job' = [e \in Execs |->
                 IF e \in S THEN [task |-> g[e], settings |-> SettingsOf(row[g[e]]),
                                  trigger |-> trigger]
                            ELSE job[e]]
    /\ UNCHANGED <<ctx, attempt, ok, verdict>>

\* Start, with the check runLoop makes before its first select.
Start ==
  /\ panel = "off"
  /\ panel' = "up" /\ loop' = TRUE
  /\ Spawn(DueTasks, "scheduled")
  /\ UNCHANGED <<rows, record, server, tracked, edits, cancels, bounds>>

\* A tick.  The ticker may still be chosen after stopChan is closed, because
\* select picks any ready case.
CheckAndRunDueTasks ==
  /\ loop
  /\ DueTasks # {}
  /\ Spawn(DueTasks, "scheduled")
  /\ UNCHANGED <<rows, record, server, process, tracked, edits, cancels, bounds>>

\* HandleServerEvent asks neither running nor stopChan.
HandleServerEvent ==
  /\ panel # "off"
  /\ EventTasks # {}
  /\ Spawn(EventTasks, "event")
  /\ UNCHANGED <<rows, record, server, process, tracked, edits, cancels, bounds>>

\* TriggerTask runs a task whatever its status.
TriggerTask(t) ==
  /\ panel # "off"
  /\ stage[t] = "live"
  /\ Spawn({t}, "manual")
  /\ UNCHANGED <<rows, record, server, process, tracked, edits, cancels, bounds>>

-----------------------------------------------------------------------------
(* executeTask, one action per step other goroutines can see.               *)

Goto(e, from, to) == pc[e] = from /\ pc' = [pc EXCEPT ![e] = to]

\* A statement on the database returns an error.
WriteFails == faults < MaxFaults /\ faults' = faults + 1

\* GetServer, and the decision it leads to.
LookUpServer(e) ==
  /\ Goto(e, "spawned",
          IF server = "gone" THEN "done"
          ELSE IF job[e].settings.needsOnline /\ server # "running" THEN "skip"
          ELSE "create")
  /\ UNCHANGED <<rows, record, server, process, tracked, job, ctx, attempt, ok, verdict,
                 edits, cancels, bounds>>

\* Mutant: a skipped run returns without updateNextRun.
Skip_NoNextRun(e) ==
  /\ Goto(e, "skip", "cleanup")
  /\ record' = [record EXCEPT ![e] = "skipped"]
  /\ UNCHANGED <<rows, server, process, tracked, job, ctx, attempt, ok, verdict,
                 edits, cancels, bounds>>

\* The record of a skipped run is created ended; its next run still advances.
Skip(e) ==
  /\ Goto(e, "skip", "advance")
  /\ record' = [record EXCEPT ![e] = "skipped"]
  /\ UNCHANGED <<rows, server, process, tracked, job, ctx, attempt, ok, verdict,
                 edits, cancels, bounds>>

\* CreateTaskExecution failed; the error is ignored.
SkipFails(e) ==
  /\ Goto(e, "skip", "advance")
  /\ WriteFails
  /\ UNCHANGED <<rows, record, server, process, tracked, job, ctx, attempt, ok, verdict,
                 edits, cancels, unrecorded, crashes>>

CreateExecution(e) ==
  /\ Goto(e, "create", "created")
  /\ record' = [record EXCEPT ![e] = "running"]
  /\ UNCHANGED <<rows, server, process, tracked, job, ctx, attempt, ok, verdict,
                 edits, cancels, bounds>>

\* CreateTaskExecution failed: return at once, next_run stays where it was.
CreateExecutionFails(e) ==
  /\ Goto(e, "create", "done")
  /\ WriteFails
  /\ UNCHANGED <<rows, record, server, process, tracked, job, ctx, attempt, ok, verdict,
                 edits, cancels, unrecorded, crashes>>

Track(e) ==
  /\ Goto(e, "created", "attempt")
  /\ tracked' = tracked \cup {e}
  /\ UNCHANGED <<rows, record, server, process, job, ctx, attempt, ok, verdict,
                 edits, cancels, bounds>>

\* Mutant: one retry too many.
FinishAttempt_OffByOne(e) ==
  \E success \in BOOLEAN :
    /\ Goto(e, "attempt",
            IF success \/ attempt[e] > job[e].settings.retries \/ ctx[e] # "live"
            THEN "finish" ELSE "waiting")
    /\ ok' = [ok EXCEPT ![e] = success]
    /\ UNCHANGED <<rows, record, server, process, tracked, job, ctx, attempt, verdict,
                   edits, cancels, bounds>>

\* Mutant: return as soon as the context is done, without a final record.
FinishAttempt_Returns(e) ==
  \E success \in BOOLEAN :
    /\ Goto(e, "attempt", IF ctx[e] # "live" THEN "cleanup" ELSE "finish")
    /\ ok' = [ok EXCEPT ![e] = success]
    /\ UNCHANGED <<rows, record, server, process, tracked, job, ctx, attempt, verdict,
                   edits, cancels, bounds>>

\* runTaskType returned: stop on success, on the last retry, or once the
\* context is done.
FinishAttempt(e) ==
  \E success \in BOOLEAN :
    /\ Goto(e, "attempt",
            IF success \/ attempt[e] >= job[e].settings.retries \/ ctx[e] # "live"
            THEN "finish" ELSE "waiting")
    /\ ok' = [ok EXCEPT ![e] = success]
    /\ UNCHANGED <<rows, record, server, process, tracked, job, ctx, attempt, verdict,
                   edits, cancels, bounds>>

\* Mutant: the delay is over only while the context lives.
EndRetryDelay_TimerOnly(e) ==
  /\ ctx[e] = "live"
  /\ Goto(e, "waiting", "retry")
  /\ UNCHANGED <<rows, record, server, process, tracked, job, ctx, attempt, ok, verdict,
                 edits, cancels, bounds>>

\* The retry delay ends, by its timer or by the context, which is then looked at.
EndRetryDelay(e) ==
  /\ Goto(e, "waiting", IF ctx[e] = "live" THEN "retry" ELSE "finish")
  /\ UNCHANGED <<rows, record, server, process, tracked, job, ctx, attempt, ok, verdict,
                 edits, cancels, bounds>>

\* The next attempt begins, also if the context has ended since it was looked at.
Retry(e) ==
  /\ Goto(e, "retry", "attempt")
  /\ attempt' = [attempt EXCEPT ![e] = @ + 1]
  /\ UNCHANGED <<rows, record, server, process, tracked, job, ctx, ok, verdict,
                 edits, cancels, bounds>>

\* Mutant: any error is recorded as a failure.
OutcomeOf_ErrorOnly(e) == IF ok[e] THEN "completed" ELSE "failed"

\* Mutant: any context that is done counts as timed out.
OutcomeOf_AnyDone(e) ==
  IF ok[e] THEN "completed" ELSE IF ctx[e] # "live" THEN "timeout" ELSE "failed"

OutcomeOf(e) ==
  IF ok[e] THEN "completed"
  ELSE IF ctx[e] = "deadline" THEN "timeout"
  ELSE IF ctx[e] = "cancelled" THEN "cancelled"
  ELSE "failed"

\* The status is chosen from the context as it is now; what ends it afterwards is
\* not recorded.
ChooseOutcome(e) ==
  /\ Goto(e, "finish", "record")
  /\ verdict' = [verdict EXCEPT ![e] = OutcomeOf(e)]
  /\ UNCHANGED <<rows, record, server, process, tracked, job, ctx, attempt, ok,
                 edits, cancels, bounds>>

\* UpdateTaskExecution is a Save: it inserts the row when there is none.
RecordOutcome(e) ==
  /\ Goto(e, "record", "advance")
  /\ record' = [record EXCEPT ![e] = verdict[e]]
  /\ UNCHANGED <<rows, server, process, tracked, job, ctx, attempt, ok, verdict,
                 edits, cancels, bounds>>

\* The error of UpdateTaskExecution is ignored.
RecordOutcomeFails(e) ==
  /\ Goto(e, "record", "advance")
  /\ WriteFails
  /\ unrecorded' = unrecorded \cup {e}
  /\ UNCHANGED <<rows, record, server, process, tracked, job, ctx, attempt, ok, verdict,
                 edits, cancels, crashes>>

\* Mutant: save the whole task as it was when the run began.
UpdateNextRun_SavesTask(e) ==
  LET t == job[e].task  s == job[e].settings IN
  /\ Goto(e, "advance", "cleanup")
  /\ row' = IF stage[t] = "live"
            THEN [row EXCEPT ![t] = RowOf(s, "enabled", NextRunAfter(s.schedule))]
            ELSE row
  /\ UNCHANGED <<stage, record, server, process, tracked, job, ctx, attempt, ok, verdict,
                 edits, cancels, bounds>>

\* updateNextRun writes next_run from the task as it was when the run began.
UpdateNextRun(e) ==
  LET t == job[e].task IN
  /\ Goto(e, "advance", "cleanup")
  /\ row' = IF stage[t] = "live"
            THEN [row EXCEPT ![t] = WithNext(@, NextRunAfter(job[e].settings.schedule))]
            ELSE row
  /\ UNCHANGED <<stage, record, server, process, tracked, job, ctx, attempt, ok, verdict,
                 edits, cancels, bounds>>

\* The error of UpdateTaskNextRun is ignored: a due task stays due.
UpdateNextRunFails(e) ==
  /\ Goto(e, "advance", "cleanup")
  /\ WriteFails
  /\ UNCHANGED <<rows, record, server, process, tracked, job, ctx, attempt, ok, verdict,
                 edits, cancels, unrecorded, crashes>>

\* The deferred call (a skipped run, never tracked, just returns).
Cleanup(e) ==
  /\ Goto(e, "cleanup", "done")
  /\ tracked' = tracked \ {e}
  /\ UNCHANGED <<rows, record, server, process, job, ctx, attempt, ok, verdict,
                 edits, cancels, bounds>>

\* context.WithTimeout: the deadline passes, unless the run was cancelled.
Expire(e) ==
  /\ pc[e] \in {"attempt", "waiting", "retry", "finish", "record"}
  /\ ctx[e] = "live"
  /\ ctx' = [ctx EXCEPT ![e] = "deadline"]
  /\ UNCHANGED <<rows, record, server, process, tracked, pc, job, attempt, ok, verdict,
                 edits, cancels, bounds>>

ExecuteTask(e) ==
  \/ LookUpServer(e) \/ Skip(e) \/ SkipFails(e)
  \/ CreateExecution(e) \/ CreateExecutionFails(e) \/ Track(e)
  \/ FinishAttempt(e) \/ EndRetryDelay(e) \/ Retry(e)
  \/ ChooseOutcome(e) \/ RecordOutcome(e) \/ RecordOutcomeFails(e)
  \/ UpdateNextRun(e) \/ UpdateNextRunFails(e) \/ Cleanup(e)

-----------------------------------------------------------------------------
(* CancelExecution: the RPC cancels, then reads the record it answers with. *)

CancelAll(S) == ctx' = [e \in Execs |-> IF e \in S /\ ctx[e] = "live"
                                        THEN "cancelled" ELSE ctx[e]]

\* Mutant: the RPC records the cancellation itself.
CancelExecution_Records(e) ==
  /\ e \in tracked \ cancels
  /\ CancelAll({e})
  /\ cancels' = cancels \cup {e}
  /\ record' = [record EXCEPT ![e] = "cancelled"]
  /\ UNCHANGED <<rows, server, process, tracked, pc, job, attempt, ok, verdict,
                 edits, bounds>>

CancelExecution(e) ==
  /\ e \in tracked \ cancels
  /\ CancelAll({e})
  /\ cancels' = cancels \cup {e}
  /\ UNCHANGED <<rows, record, server, process, tracked, pc, job, attempt, ok, verdict,
                 edits, bounds>>

CancelExecutionReply(e) ==
  /\ e \in cancels
  /\ cancels' = cancels \ {e}
  /\ UNCHANGED <<rows, record, server, process, tracked, runs, edits, bounds>>

-----------------------------------------------------------------------------
(* Stop, the end of the process, and its next start.                        *)

Stop ==
  /\ panel = "up"
  /\ panel' = "stopping"
  /\ UNCHANGED <<rows, record, server, loop, tracked, runs, edits, cancels, bounds>>

\* Mutant: stopChan is closed only after the wait for the loop.
ExitLoop_ClosedLate ==
  /\ loop /\ panel = "stopped"
  /\ loop' = FALSE
  /\ UNCHANGED <<rows, record, server, panel, tracked, runs, edits, cancels, bounds>>

\* The select of runLoop takes the closed stopChan.
ExitLoop ==
  /\ loop /\ panel = "stopping"
  /\ loop' = FALSE
  /\ UNCHANGED <<rows, record, server, panel, tracked, runs, edits, cancels, bounds>>

\* wg.Wait returns.
StopWaited ==
  /\ panel = "stopping"
  /\ ~loop /\ \A e \in Execs : ~InGroup(e)
  /\ panel' = "drained"
  /\ UNCHANGED <<rows, record, server, loop, tracked, runs, edits, cancels, bounds>>

\* Mutant: the map is replaced, nothing is cancelled.
StopCancels_Forgets ==
  /\ panel = "drained"
  /\ panel' = "stopped"
  /\ tracked' = {}
  /\ UNCHANGED <<rows, record, server, loop, runs, edits, cancels, bounds>>

\* Only then is what is still tracked cancelled, and the map replaced.
StopCancels ==
  /\ panel = "drained"
  /\ panel' = "stopped"
  /\ CancelAll(tracked)
  /\ tracked' = {}
  /\ UNCHANGED <<rows, record, server, loop, pc, job, attempt, ok, verdict,
                 edits, cancels, bounds>>

\* Goroutines and maps die with the process; the database stays.
ProcessEnds ==
  /\ panel' = "off" /\ loop' = FALSE
  /\ tracked' = {} /\ edits' = {} /\ cancels' = {}
  /\ pc' = [e \in Execs |-> IF pc[e] \in Active THEN "lost" ELSE pc[e]]
  /\ UNCHANGED <<rows, record, server, job, ctx, attempt, ok, verdict, unrecorded, faults>>

Exit  == panel = "stopped" /\ ProcessEnds /\ UNCHANGED crashes
Crash == /\ panel # "off" /\ crashes < MaxCrashes
         /\ ProcessEnds /\ crashes' = crashes + 1

-----------------------------------------------------------------------------
(* The task RPCs.  UpdateTask and ToggleTask read the row, change it, and   *)
(* Save the whole row, which inserts it if it is gone.                      *)

CreateTask(t) ==
  /\ panel # "off"
  /\ stage[t] = "unborn" /\ server # "gone"
  /\ \E s \in Submitted : \E next \in CalculateNextRun(s.schedule) :
       row' = [row EXCEPT ![t] = RowOf(s, "enabled", next)]
  /\ stage' = [stage EXCEPT ![t] = "live"]
  /\ UNCHANGED <<record, server, process, tracked, runs, edits, cancels, bounds>>

ReadForEdit(t) ==
  /\ panel # "off"
  /\ stage[t] = "live"
  /\ Cardinality(edits) < MaxEdits
  /\ edits' = edits \cup {[task |-> t, read |-> row[t]]}
  /\ UNCHANGED <<rows, record, server, process, tracked, runs, cancels, bounds>>

SaveTask(d, newRow) ==
  /\ row' = [row EXCEPT ![d.task] = newRow]
  /\ stage' = [stage EXCEPT ![d.task] = "live"]
  /\ edits' = edits \ {d}
  /\ UNCHANGED <<record, server, process, tracked, runs, cancels, bounds>>

\* UpdateTask recomputes next_run, whatever the status.
UpdateTask ==
  \E d \in edits : \E s \in Submitted : \E next \in CalculateNextRun(s.schedule) :
    SaveTask(d, RowOf(s, d.read.status, next))

\* ToggleTask recomputes next_run only when it enables.
ToggleTask ==
  \E d \in edits :
    \/ \E next \in CalculateNextRun(d.read.schedule) :
         SaveTask(d, RowOf(SettingsOf(d.read), "enabled", next))
    \/ SaveTask(d, RowOf(SettingsOf(d.read), "disabled", d.read.next))

\* DeleteScheduledTask: one transaction on both tables.
DeleteTask(t) ==
  /\ panel # "off"
  /\ stage[t] = "live"
  /\ stage' = [stage EXCEPT ![t] = "deleted"]
  /\ record' = [e \in Execs |-> IF job[e].task = t THEN "none" ELSE record[e]]
  /\ UNCHANGED <<row, server, process, tracked, runs, edits, cancels, bounds>>

-----------------------------------------------------------------------------
(* The surroundings: the clock reaches next_run; the server comes, goes,    *)
(* and is deleted.                                                          *)

BecomeDue(t) ==
  /\ stage[t] = "live" /\ row[t].next = "future"
  /\ row' = [row EXCEPT ![t] = WithNext(@, "due")]
  /\ UNCHANGED <<stage, record, server, process, tracked, runs, edits, cancels, bounds>>

ServerChanges ==
  /\ server # "gone"
  /\ server' \in {"running", "offline", "gone"} \ {server}
  /\ UNCHANGED <<rows, record, process, tracked, runs, edits, cancels, bounds>>

-----------------------------------------------------------------------------
Next ==
  \/ Start \/ CheckAndRunDueTasks \/ HandleServerEvent
  \/ Stop \/ ExitLoop \/ StopWaited \/ StopCancels \/ Exit \/ Crash
  \/ UpdateTask \/ ToggleTask \/ ServerChanges
  \/ \E t \in Tasks : TriggerTask(t) \/ CreateTask(t) \/ ReadForEdit(t)
                        \/ DeleteTask(t) \/ BecomeDue(t)
  \/ \E e \in Execs : ExecuteTask(e) \/ Expire(e)
                        \/ CancelExecution(e) \/ CancelExecutionReply(e)

\* The goroutines are scheduled, timers fire, and an attempt returns (at the
\* latest after its context is done).  Nothing is assumed of users, of the
\* server or of faults.
Fairness ==
  /\ \A e \in Execs : WF_vars(ExecuteTask(e)) /\ WF_vars(Expire(e))
  /\ WF_vars(CheckAndRunDueTasks) /\ WF_vars(ExitLoop)
  /\ WF_vars(StopWaited) /\ WF_vars(StopCancels)

Spec == Init /\ [][Next]_vars

-----------------------------------------------------------------------------
(* Properties.                                                              *)

\* The variables keep their form: in particular no run is tried more often
\* than its task says (the loop of executeTask).
TypeOK ==
  /\ stage \in [Tasks -> {"unborn", "live", "deleted"}]
  /\ row \in [Tasks -> Row]
  /\ record \in [Execs -> Statuses]
  /\ server \in {"running", "offline", "gone"}
  /\ panel \in {"off", "up", "stopping", "drained", "stopped"}
  /\ loop \in BOOLEAN
  /\ tracked \subseteq Execs
  /\ pc \in [Execs -> PCs]
  /\ job \in [Execs -> Job]
  /\ ctx \in [Execs -> {"live", "deadline", "cancelled"}]
  /\ attempt \in [Execs -> 0..MaxRetry]
  /\ ok \in [Execs -> BOOLEAN]
  /\ verdict \in [Execs -> Outcomes \cup {"none"}]
  /\ edits \subseteq [task: Tasks, read: Row]
  /\ cancels \subseteq Execs
  /\ unrecorded \subseteq Execs
  /\ crashes \in Nat /\ faults \in Nat

\* A record left at "running" belongs to a goroutine that will still end it,
\* or to one that died with the process, or its final write failed: no
\* interleaving of cancel, timeout, stop, edit and retry strands a record.
RunningRecordIsOwned ==
  \A e \in Execs : record[e] = "running" =>
    pc[e] \in Open \cup {"lost"} \/ e \in unrecorded

\* An execution still at work can be cancelled by its identifier, or its
\* context is done already: Stop, which empties the map under running
\* goroutines, leaves none behind that nobody can reach.
WorkIsCancellable ==
  \A e \in Execs : pc[e] \in {"attempt", "waiting", "retry"} /\ ctx[e] = "live" => e \in tracked

\* The recorded outcome is what happened: "failed" only after every retry was
\* spent, "timeout" and "cancelled" only if the context ended that way,
\* "completed" only if the last attempt succeeded.
OutcomeIsHonest ==
  \A e \in Execs :
    /\ record[e] = "failed" => attempt[e] = job[e].settings.retries /\ ~ok[e]
    /\ record[e] = "timeout" => ctx[e] = "deadline" /\ ~ok[e]
    /\ record[e] = "cancelled" => ctx[e] = "cancelled" /\ ~ok[e]
    /\ record[e] = "completed" => ok[e]

\* Once wg.Wait has returned, nothing the ticker started is in flight and
\* nothing will be: the loop that could start more counts in the group.
StopDrainsTicker ==
  panel \in {"drained", "stopped"} =>
    ~loop /\ \A e \in Execs : pc[e] \in Active => job[e].trigger # "scheduled"

\* A record that has an outcome never gets another one (it can only go away
\* with its task).
OutcomeIsFinal ==
  [][\A e \in Execs : record[e] \in Outcomes \cup {"skipped"} =>
                        record'[e] \in {record[e], "none"}]_vars

\* A run that ends does not undo what a user changed meanwhile: outside the
\* save of an RPC, no step alters the settings or the status of a task.
RunsKeepEdits ==
  [][edits' = edits =>
       \A t \in Tasks : stage[t] = "live" /\ stage'[t] = "live" =>
         SettingsOf(row'[t]) = SettingsOf(row[t]) /\ row'[t].status = row[t].status]_vars

\* A run that was recorded as running gets an outcome, unless the process
\* dies, the write fails, or its task is deleted.
RunEnds ==
  \A e \in Execs : record[e] = "running" ~>
    record[e] # "running" \/ pc[e] = "lost" \/ e \in unrecorded

\* An enabled task that is due is taken up and its next run moves on, unless
\* the scheduler stops or its server is deleted: a skipped run and a failed
\* write do not leave it due for good.
DueTaskAdvances ==
  \A t \in Tasks : t \in DueTasks ~>
    t \notin DueTasks \/ panel # "up" \/ server = "gone"

\* Stop returns: every goroutine it waits for ends.
StopReturns == panel = "stopping" ~> panel \in {"stopped", "off"}

-----------------------------------------------------------------------------
(* The history promised by ExecutionLedger, read off the control points.     *)

PhaseAt(point) ==
  IF point \in Starting \cup {"free"} THEN "fresh"
  ELSE IF point \in Open THEN "open"
  ELSE "closed"

Phase == [e \in Execs |-> PhaseAt(pc[e])]

Ledger == INSTANCE ExecutionLedger
            WITH ledger <- record, phase <- Phase, cause <- ctx

\* The scheduler keeps the promise of the ledger: every step of every
\* goroutine, RPC and crash is a step of the ledger, or none.
KeepsLedger == Ledger!Spec

-----------------------------------------------------------------------------
(* What comments of the code say and the code does not do.                  *)

\* "Once tasks don't repeat" (scheduler.go:440).
OnceRunsOnce ==
  \A e1, e2 \in Execs :
    /\ record[e1] # "none" /\ record[e2] # "none"
    /\ job[e1] = job[e2]
    /\ job[e1].trigger = "scheduled" /\ job[e1].settings.schedule = "once"
    => e1 = e2
=============================================================================
