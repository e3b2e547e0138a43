--------------------------- MODULE SchedulerProofs ---------------------------
(***************************************************************************)
(* Theorems about Scheduler for every set of tasks and executions and      *)
(* every value of the bounds.                                              *)
(*                                                                         *)
(* The inductive invariant adds to TypeOK what the control point of an     *)
(* execution says of its other fields (RunOK), and to StopDrainsTicker     *)
(* that the loop lives only while the scheduler has not been drained.      *)
(***************************************************************************)
EXTENDS Scheduler, TLAPS

Working == {"attempt", "waiting", "retry", "finish", "record"}

\* What the control point of an execution says of its other fields.
RunOK(e) ==
  /\ pc[e] \in Starting \cup {"free", "created"} => attempt[e] = 0 /\ ctx[e] = "live"
  /\ pc[e] \in Starting \cup {"free"} => record[e] = "none"
  /\ e \in tracked => pc[e] \in Working \cup Closing
  /\ pc[e] \in Working => attempt[e] <= job[e].settings.retries
  /\ pc[e] \in {"waiting", "retry"} => attempt[e] < job[e].settings.retries
  /\ pc[e] = "finish" => ok[e] \/ ctx[e] # "live" \/ attempt[e] = job[e].settings.retries
  /\ pc[e] = "record" => /\ verdict[e] \in Outcomes
                         /\ verdict[e] = "failed" =>
                              attempt[e] = job[e].settings.retries /\ ~ok[e]
                         /\ verdict[e] = "timeout" => ctx[e] = "deadline" /\ ~ok[e]
                         /\ verdict[e] = "cancelled" => ctx[e] = "cancelled" /\ ~ok[e]
                         /\ verdict[e] = "completed" => ok[e]
  /\ pc[e] \in Working /\ ctx[e] = "live" => e \in tracked
  /\ record[e] \in Outcomes \cup {"skipped"} => pc[e] \in Closing \cup {"done", "lost"}

RunsOK == \A e \in Execs : RunOK(e)

LoopOK == loop => panel \in {"up", "stopping"}

Inv == TypeOK /\ RunsOK /\ LoopOK /\ RunningRecordIsOwned /\ OutcomeIsHonest
         /\ StopDrainsTicker

-----------------------------------------------------------------------------
USE TasksAssumption, SubmittedAssumption, BoundsAssumption

\* The initial states satisfy the invariant.
LEMMA InitInv == Init => Inv
<1> SUFFICES ASSUME Init PROVE Inv
  OBVIOUS
<1>1. BlankSettings \in Settings
  BY DEF BlankSettings, Settings, Schedules
<1>2. BlankJob \in Job /\ RowOf(BlankSettings, "disabled", "none") \in Row
  BY <1>1 DEF BlankJob, Job, RowOf, Row, Settings
<1>3. row \in [Tasks -> Row] /\ job \in [Execs -> Job]
  BY <1>2 DEF Init
<1>4. pc \in [Execs -> PCs] /\ record \in [Execs -> Statuses]
  BY DEF Init, PCs, Statuses
<1>5. attempt \in [Execs -> 0..MaxRetry] /\ ok \in [Execs -> BOOLEAN]
  BY DEF Init
<1>6. TypeOK
  BY <1>3, <1>4, <1>5 DEF Init, TypeOK
<1> QED
  BY <1>6 DEF Init, Inv, RunsOK, RunOK, LoopOK, RunningRecordIsOwned, OutcomeIsHonest,
              StopDrainsTicker, Outcomes, Starting, Open, Closing, Active, Working

\* The settings of a row are settings.
LEMMA SettingsOfType == ASSUME NEW r \in Row PROVE SettingsOf(r) \in Settings
  BY DEF Row, Settings, SettingsOf

\* A row built of settings, a status and a next_run is a row.
LEMMA RowOfType ==
  ASSUME NEW s \in Settings, NEW status \in {"enabled", "disabled"},
         NEW next \in {"none", "future", "due"}
  PROVE  RowOf(s, status, next) \in Row
  BY DEF Row, Settings, RowOf

\* Spawning turns some free identifiers into executions of tasks of T and
\* leaves every other execution alone.
LEMMA Spawned ==
  ASSUME TypeOK, NEW T \in SUBSET Tasks, NEW trigger \in {"scheduled", "event", "manual"},
         Spawn(T, trigger)
  PROVE  /\ pc' \in [Execs -> PCs] /\ job' \in [Execs -> Job]
         /\ UNCHANGED <<ctx, attempt, ok, verdict>>
         /\ \A e \in Execs :
              \/ pc'[e] = pc[e] /\ job'[e] = job[e]
              \/ pc[e] = "free" /\ pc'[e] = "spawned" /\ job'[e].trigger = trigger
<1>0. PICK S \in SUBSET Free : \E g \in Bijection(S, T) :
        /\ pc' = [e \in Execs |-> IF e \in S THEN "spawned" ELSE pc[e]]
        /\ job' = [e \in Execs |->
                     IF e \in S THEN [task |-> g[e], settings |-> SettingsOf(row[g[e]]),
                                      trigger |-> trigger]
                                ELSE job[e]]
        /\ UNCHANGED <<ctx, attempt, ok, verdict>>
  BY DEF Spawn
<1>1. PICK g \in Bijection(S, T) :
        /\ pc' = [e \in Execs |-> IF e \in S THEN "spawned" ELSE pc[e]]
        /\ job' = [e \in Execs |->
                     IF e \in S THEN [task |-> g[e], settings |-> SettingsOf(row[g[e]]),
                                      trigger |-> trigger]
                                ELSE job[e]]
        /\ UNCHANGED <<ctx, attempt, ok, verdict>>
  BY <1>0
<1>2. g \in [S -> T] /\ S \subseteq Free
  BY DEF Bijection, Injection
<1>3. pc' \in [Execs -> PCs]
  BY <1>1 DEF TypeOK, PCs, Active, Starting
<1>4. ASSUME NEW e \in S PROVE g[e] \in Tasks /\ SettingsOf(row[g[e]]) \in Settings
  BY <1>2, SettingsOfType DEF TypeOK
<1>5. job' \in [Execs -> Job]
  BY <1>1, <1>4 DEF TypeOK, Job
<1> QED
  BY <1>1, <1>2, <1>3, <1>5 DEF Free

\* Saving a row keeps the types.
LEMMA SaveTaskType ==
  ASSUME TypeOK, NEW d \in edits, NEW r \in Row, SaveTask(d, r)
  PROVE  TypeOK'
  BY DEF TypeOK, SaveTask, process, runs, bounds

\* Every step keeps the types.
LEMMA TypeStep == Inv /\ [Next]_vars => TypeOK'
<1> SUFFICES ASSUME Inv, [Next]_vars PROVE TypeOK'
  OBVIOUS
<1> USE DEF TypeOK, rows, process, runs, bounds, Inv, Row, Job, Settings, SettingsOf, RowOf,
            Statuses, Outcomes, PCs, Active, Starting, Open, Closing, CalculateNextRun
<1>1. CASE Start
  <2>1. DueTasks \in SUBSET Tasks /\ Spawn(DueTasks, "scheduled")
    BY <1>1 DEF Start, DueTasks
  <2> QED
    BY <1>1, <2>1, Spawned, SMTT(30) DEF Start
<1>2. CASE CheckAndRunDueTasks
  <2>1. DueTasks \in SUBSET Tasks /\ Spawn(DueTasks, "scheduled")
    BY <1>2 DEF CheckAndRunDueTasks, DueTasks
  <2> QED
    BY <1>2, <2>1, Spawned, SMTT(30) DEF CheckAndRunDueTasks
<1>3. CASE HandleServerEvent
  <2>1. EventTasks \in SUBSET Tasks /\ Spawn(EventTasks, "event")
    BY <1>3 DEF HandleServerEvent, EventTasks
  <2> QED
    BY <1>3, <2>1, Spawned, SMTT(30) DEF HandleServerEvent
<1>4. CASE Stop
  BY <1>4 DEF Stop
<1>5. CASE ExitLoop
  BY <1>5 DEF ExitLoop
<1>6. CASE StopWaited
  BY <1>6 DEF StopWaited
<1>7. CASE StopCancels
  BY <1>7 DEF StopCancels, CancelAll
<1>8. CASE Exit
  BY <1>8 DEF Exit, ProcessEnds
<1>9. CASE Crash
  <2>1. pc' \in [Execs -> PCs] /\ crashes' \in Nat
    BY <1>9 DEF Crash, ProcessEnds
  <2> QED
    BY <1>9, <2>1 DEF Crash, ProcessEnds
<1>10. CASE UpdateTask
  <2>1. PICK d \in edits, s \in Submitted, next \in {"none", "future", "due"} :
          SaveTask(d, RowOf(s, d.read.status, next))
    BY <1>10 DEF UpdateTask
  <2>2. RowOf(s, d.read.status, next) \in Row
    BY <2>1, RowOfType
  <2> QED
    BY <2>1, <2>2, SaveTaskType
<1>11. CASE ToggleTask
  <2>1. PICK d \in edits, status \in {"enabled", "disabled"}, next \in {"none", "future", "due"} :
          SaveTask(d, RowOf(SettingsOf(d.read), status, next))
    BY <1>11 DEF ToggleTask
  <2>2. RowOf(SettingsOf(d.read), status, next) \in Row
    BY <2>1, RowOfType, SettingsOfType
  <2> QED
    BY <2>1, <2>2, SaveTaskType
<1>12. CASE ServerChanges
  BY <1>12 DEF ServerChanges
<1>13. ASSUME NEW t \in Tasks, TriggerTask(t) PROVE TypeOK'
  <2>1. {t} \in SUBSET Tasks /\ Spawn({t}, "manual")
    BY <1>13 DEF TriggerTask
  <2> QED
    BY <1>13, <2>1, Spawned, SMTT(30) DEF TriggerTask
<1>14. ASSUME NEW t \in Tasks, CreateTask(t) PROVE TypeOK'
  BY <1>14 DEF CreateTask
<1>15. ASSUME NEW t \in Tasks, ReadForEdit(t) PROVE TypeOK'
  BY <1>15 DEF ReadForEdit
<1>16. ASSUME NEW t \in Tasks, DeleteTask(t) PROVE TypeOK'
  BY <1>16 DEF DeleteTask
<1>17. ASSUME NEW t \in Tasks, BecomeDue(t) PROVE TypeOK'
  BY <1>17 DEF BecomeDue, WithNext
<1>18. ASSUME NEW e \in Execs, LookUpServer(e) PROVE TypeOK'
  BY <1>18 DEF LookUpServer, Goto
<1>19. ASSUME NEW e \in Execs, Skip(e) PROVE TypeOK'
  BY <1>19 DEF Skip, Goto
<1>20. ASSUME NEW e \in Execs, SkipFails(e) PROVE TypeOK'
  BY <1>20 DEF SkipFails, Goto, WriteFails
<1>21. ASSUME NEW e \in Execs, CreateExecution(e) PROVE TypeOK'
  BY <1>21 DEF CreateExecution, Goto
<1>22. ASSUME NEW e \in Execs, CreateExecutionFails(e) PROVE TypeOK'
  BY <1>22 DEF CreateExecutionFails, Goto, WriteFails
<1>23. ASSUME NEW e \in Execs, Track(e) PROVE TypeOK'
  BY <1>23 DEF Track, Goto
<1>24. ASSUME NEW e \in Execs, FinishAttempt(e) PROVE TypeOK'
  BY <1>24 DEF FinishAttempt, Goto, RunsOK, RunOK
<1>25. ASSUME NEW e \in Execs, EndRetryDelay(e) PROVE TypeOK'
  BY <1>25 DEF EndRetryDelay, Goto, RunsOK, RunOK
<1>26. ASSUME NEW e \in Execs, RecordOutcome(e) PROVE TypeOK'
  BY <1>26 DEF RecordOutcome, Goto
<1>27. ASSUME NEW e \in Execs, RecordOutcomeFails(e) PROVE TypeOK'
  BY <1>27 DEF RecordOutcomeFails, Goto, WriteFails
<1>28. ASSUME NEW e \in Execs, UpdateNextRun(e) PROVE TypeOK'
  BY <1>28 DEF UpdateNextRun, Goto, NextRunAfter, WithNext
<1>29. ASSUME NEW e \in Execs, UpdateNextRunFails(e) PROVE TypeOK'
  BY <1>29 DEF UpdateNextRunFails, Goto, WriteFails
<1>30. ASSUME NEW e \in Execs, Cleanup(e) PROVE TypeOK'
  BY <1>30 DEF Cleanup, Goto
<1>31. ASSUME NEW e \in Execs, Expire(e) PROVE TypeOK'
  BY <1>31 DEF Expire
<1>32. ASSUME NEW e \in Execs, CancelExecution(e) PROVE TypeOK'
  BY <1>32 DEF CancelExecution, CancelAll
<1>33. ASSUME NEW e \in Execs, CancelExecutionReply(e) PROVE TypeOK'
  BY <1>33 DEF CancelExecutionReply
<1>34. ASSUME NEW e \in Execs, Retry(e) PROVE TypeOK'
  BY <1>34 DEF Retry, Goto, RunsOK, RunOK, Working
<1>35. ASSUME NEW e \in Execs, ChooseOutcome(e) PROVE TypeOK'
  BY <1>35 DEF ChooseOutcome, Goto, OutcomeOf
<1>36. CASE UNCHANGED vars
  BY <1>36 DEF vars
<1> QED
  BY <1>1, <1>2, <1>3, <1>4, <1>5, <1>6, <1>7, <1>8, <1>9, <1>10, <1>11,
     <1>12, <1>13, <1>14, <1>15, <1>16, <1>17, <1>18, <1>19, <1>20, <1>21,
     <1>22, <1>23, <1>24, <1>25, <1>26, <1>27, <1>28, <1>29, <1>30, <1>31,
     <1>32, <1>33, <1>34, <1>35, <1>36 DEF Next, ExecuteTask

\* Spawning keeps the relation between a control point and the other fields.
LEMMA SpawnKeepsRuns ==
  ASSUME Inv, NEW T \in SUBSET Tasks, NEW trigger \in {"scheduled", "event", "manual"},
         Spawn(T, trigger), UNCHANGED <<record, tracked>>
  PROVE  RunsOK'
<1> SUFFICES ASSUME NEW e \in Execs PROVE RunOK(e)'
  BY DEF RunsOK
<1>1. RunOK(e) /\ UNCHANGED <<ctx, attempt, ok, verdict, record, tracked>>
  BY Spawned DEF Inv, RunsOK
<1>2. CASE pc'[e] = pc[e] /\ job'[e] = job[e]
  BY <1>1, <1>2 DEF RunOK
<1>3. CASE pc[e] = "free" /\ pc'[e] = "spawned"
  BY <1>1, <1>3 DEF RunOK, Starting, Working, Closing, Outcomes
<1> QED
  BY <1>2, <1>3, Spawned DEF Inv

\* Every step keeps the relation between a control point and the other fields.
LEMMA RunsStep == Inv /\ [Next]_vars => RunsOK'
<1> SUFFICES ASSUME Inv, [Next]_vars PROVE RunsOK'
  OBVIOUS
<1> USE DEF TypeOK, rows, process, runs, bounds, Inv, Job, Settings, Statuses, Outcomes,
            PCs, Active, Starting, Open, Closing, RunsOK, RunOK, Working
<1>1. CASE Start
  <2>1. DueTasks \in SUBSET Tasks /\ Spawn(DueTasks, "scheduled")
    BY <1>1 DEF Start, DueTasks
  <2> QED
    BY <1>1, <2>1, SpawnKeepsRuns DEF Start
<1>2. CASE CheckAndRunDueTasks
  <2>1. DueTasks \in SUBSET Tasks /\ Spawn(DueTasks, "scheduled")
    BY <1>2 DEF CheckAndRunDueTasks, DueTasks
  <2> QED
    BY <1>2, <2>1, SpawnKeepsRuns DEF CheckAndRunDueTasks
<1>3. CASE HandleServerEvent
  <2>1. EventTasks \in SUBSET Tasks /\ Spawn(EventTasks, "event")
    BY <1>3 DEF HandleServerEvent, EventTasks
  <2> QED
    BY <1>3, <2>1, SpawnKeepsRuns DEF HandleServerEvent
<1>4. CASE Stop
  BY <1>4 DEF Stop
<1>5. CASE ExitLoop
  BY <1>5 DEF ExitLoop
<1>6. CASE StopWaited
  BY <1>6 DEF StopWaited
<1>7. CASE StopCancels
  BY <1>7 DEF StopCancels, CancelAll
<1>8. CASE Exit
  BY <1>8 DEF Exit, ProcessEnds
<1>9. CASE Crash
  BY <1>9 DEF Crash, ProcessEnds
<1>10. CASE UpdateTask
  BY <1>10 DEF UpdateTask, SaveTask
<1>11. CASE ToggleTask
  BY <1>11 DEF ToggleTask, SaveTask
<1>12. CASE ServerChanges
  BY <1>12 DEF ServerChanges
<1>13. ASSUME NEW t \in Tasks, TriggerTask(t) PROVE RunsOK'
  <2>1. {t} \in SUBSET Tasks /\ Spawn({t}, "manual")
    BY <1>13 DEF TriggerTask
  <2> QED
    BY <1>13, <2>1, SpawnKeepsRuns DEF TriggerTask
<1>14. ASSUME NEW t \in Tasks, CreateTask(t) PROVE RunsOK'
  BY <1>14 DEF CreateTask
<1>15. ASSUME NEW t \in Tasks, ReadForEdit(t) PROVE RunsOK'
  BY <1>15 DEF ReadForEdit
<1>16. ASSUME NEW t \in Tasks, DeleteTask(t) PROVE RunsOK'
  BY <1>16 DEF DeleteTask
<1>17. ASSUME NEW t \in Tasks, BecomeDue(t) PROVE RunsOK'
  BY <1>17 DEF BecomeDue, WithNext
<1>18. ASSUME NEW e \in Execs, LookUpServer(e) PROVE RunsOK'
  BY <1>18 DEF LookUpServer, Goto
<1>19. ASSUME NEW e \in Execs, Skip(e) PROVE RunsOK'
  BY <1>19 DEF Skip, Goto
<1>20. ASSUME NEW e \in Execs, SkipFails(e) PROVE RunsOK'
  BY <1>20 DEF SkipFails, Goto, WriteFails
<1>21. ASSUME NEW e \in Execs, CreateExecution(e) PROVE RunsOK'
  BY <1>21 DEF CreateExecution, Goto
<1>22. ASSUME NEW e \in Execs, CreateExecutionFails(e) PROVE RunsOK'
  BY <1>22 DEF CreateExecutionFails, Goto, WriteFails
<1>23. ASSUME NEW e \in Execs, Track(e) PROVE RunsOK'
  BY <1>23 DEF Track, Goto
<1>24. ASSUME NEW e \in Execs, FinishAttempt(e) PROVE RunsOK'
  BY <1>24 DEF FinishAttempt, Goto
<1>25. ASSUME NEW e \in Execs, EndRetryDelay(e) PROVE RunsOK'
  BY <1>25 DEF EndRetryDelay, Goto
<1>26. ASSUME NEW e \in Execs, RecordOutcome(e) PROVE RunsOK'
  BY <1>26 DEF RecordOutcome, Goto
<1>27. ASSUME NEW e \in Execs, RecordOutcomeFails(e) PROVE RunsOK'
  BY <1>27 DEF RecordOutcomeFails, Goto, WriteFails
<1>28. ASSUME NEW e \in Execs, UpdateNextRun(e) PROVE RunsOK'
  BY <1>28 DEF UpdateNextRun, Goto, NextRunAfter, WithNext
<1>29. ASSUME NEW e \in Execs, UpdateNextRunFails(e) PROVE RunsOK'
  BY <1>29 DEF UpdateNextRunFails, Goto, WriteFails
<1>30. ASSUME NEW e \in Execs, Cleanup(e) PROVE RunsOK'
  BY <1>30 DEF Cleanup, Goto
<1>31. ASSUME NEW e \in Execs, Expire(e) PROVE RunsOK'
  BY <1>31 DEF Expire
<1>32. ASSUME NEW e \in Execs, CancelExecution(e) PROVE RunsOK'
  BY <1>32 DEF CancelExecution, CancelAll
<1>33. ASSUME NEW e \in Execs, CancelExecutionReply(e) PROVE RunsOK'
  BY <1>33 DEF CancelExecutionReply
<1>34. ASSUME NEW e \in Execs, Retry(e) PROVE RunsOK'
  BY <1>34 DEF Retry, Goto
<1>35. ASSUME NEW e \in Execs, ChooseOutcome(e) PROVE RunsOK'
  BY <1>35 DEF ChooseOutcome, Goto, OutcomeOf
<1>36. CASE UNCHANGED vars
  BY <1>36 DEF vars
<1> QED
  BY <1>1, <1>2, <1>3, <1>4, <1>5, <1>6, <1>7, <1>8, <1>9, <1>10, <1>11,
     <1>12, <1>13, <1>14, <1>15, <1>16, <1>17, <1>18, <1>19, <1>20, <1>21,
     <1>22, <1>23, <1>24, <1>25, <1>26, <1>27, <1>28, <1>29, <1>30, <1>31,
     <1>32, <1>33, <1>34, <1>35, <1>36 DEF Next, ExecuteTask

\* Every step keeps the loop within the life of the scheduler.
LEMMA LoopStep == Inv /\ [Next]_vars => LoopOK'
<1> SUFFICES ASSUME Inv, [Next]_vars PROVE LoopOK'
  OBVIOUS
<1> USE DEF rows, process, runs, bounds, Inv, LoopOK, TypeOK
<1>1. CASE Start
  <2>1. DueTasks \in SUBSET Tasks /\ Spawn(DueTasks, "scheduled")
    BY <1>1 DEF Start, DueTasks
  <2> QED
    BY <1>1, <2>1, Spawned, SMTT(30) DEF Start
<1>2. CASE CheckAndRunDueTasks
  <2>1. DueTasks \in SUBSET Tasks /\ Spawn(DueTasks, "scheduled")
    BY <1>2 DEF CheckAndRunDueTasks, DueTasks
  <2> QED
    BY <1>2, <2>1, Spawned, SMTT(30) DEF CheckAndRunDueTasks
<1>3. CASE HandleServerEvent
  <2>1. EventTasks \in SUBSET Tasks /\ Spawn(EventTasks, "event")
    BY <1>3 DEF HandleServerEvent, EventTasks
  <2> QED
    BY <1>3, <2>1, Spawned, SMTT(30) DEF HandleServerEvent
<1>4. CASE Stop
  BY <1>4 DEF Stop
<1>5. CASE ExitLoop
  BY <1>5 DEF ExitLoop
<1>6. CASE StopWaited
  BY <1>6 DEF StopWaited
<1>7. CASE StopCancels
  BY <1>7 DEF StopCancels, CancelAll
<1>8. CASE Exit
  BY <1>8 DEF Exit, ProcessEnds
<1>9. CASE Crash
  BY <1>9 DEF Crash, ProcessEnds
<1>10. CASE UpdateTask
  BY <1>10 DEF UpdateTask, SaveTask
<1>11. CASE ToggleTask
  BY <1>11 DEF ToggleTask, SaveTask
<1>12. CASE ServerChanges
  BY <1>12 DEF ServerChanges
<1>13. ASSUME NEW t \in Tasks, TriggerTask(t) PROVE LoopOK'
  <2>1. {t} \in SUBSET Tasks /\ Spawn({t}, "manual")
    BY <1>13 DEF TriggerTask
  <2> QED
    BY <1>13, <2>1, Spawned, SMTT(30) DEF TriggerTask
<1>14. ASSUME NEW t \in Tasks, CreateTask(t) PROVE LoopOK'
  BY <1>14 DEF CreateTask
<1>15. ASSUME NEW t \in Tasks, ReadForEdit(t) PROVE LoopOK'
  BY <1>15 DEF ReadForEdit
<1>16. ASSUME NEW t \in Tasks, DeleteTask(t) PROVE LoopOK'
  BY <1>16 DEF DeleteTask
<1>17. ASSUME NEW t \in Tasks, BecomeDue(t) PROVE LoopOK'
  BY <1>17 DEF BecomeDue, WithNext
<1>18. ASSUME NEW e \in Execs, LookUpServer(e) PROVE LoopOK'
  BY <1>18 DEF LookUpServer, Goto
<1>19. ASSUME NEW e \in Execs, Skip(e) PROVE LoopOK'
  BY <1>19 DEF Skip, Goto
<1>20. ASSUME NEW e \in Execs, SkipFails(e) PROVE LoopOK'
  BY <1>20 DEF SkipFails, Goto, WriteFails
<1>21. ASSUME NEW e \in Execs, CreateExecution(e) PROVE LoopOK'
  BY <1>21 DEF CreateExecution, Goto
<1>22. ASSUME NEW e \in Execs, CreateExecutionFails(e) PROVE LoopOK'
  BY <1>22 DEF CreateExecutionFails, Goto, WriteFails
<1>23. ASSUME NEW e \in Execs, Track(e) PROVE LoopOK'
  BY <1>23 DEF Track, Goto
<1>24. ASSUME NEW e \in Execs, FinishAttempt(e) PROVE LoopOK'
  BY <1>24 DEF FinishAttempt, Goto
<1>25. ASSUME NEW e \in Execs, EndRetryDelay(e) PROVE LoopOK'
  BY <1>25 DEF EndRetryDelay, Goto
<1>26. ASSUME NEW e \in Execs, RecordOutcome(e) PROVE LoopOK'
  BY <1>26 DEF RecordOutcome, Goto
<1>27. ASSUME NEW e \in Execs, RecordOutcomeFails(e) PROVE LoopOK'
  BY <1>27 DEF RecordOutcomeFails, Goto, WriteFails
<1>28. ASSUME NEW e \in Execs, UpdateNextRun(e) PROVE LoopOK'
  BY <1>28 DEF UpdateNextRun, Goto, NextRunAfter, WithNext
<1>29. ASSUME NEW e \in Execs, UpdateNextRunFails(e) PROVE LoopOK'
  BY <1>29 DEF UpdateNextRunFails, Goto, WriteFails
<1>30. ASSUME NEW e \in Execs, Cleanup(e) PROVE LoopOK'
  BY <1>30 DEF Cleanup, Goto
<1>31. ASSUME NEW e \in Execs, Expire(e) PROVE LoopOK'
  BY <1>31 DEF Expire
<1>32. ASSUME NEW e \in Execs, CancelExecution(e) PROVE LoopOK'
  BY <1>32 DEF CancelExecution, CancelAll
<1>33. ASSUME NEW e \in Execs, CancelExecutionReply(e) PROVE LoopOK'
  BY <1>33 DEF CancelExecutionReply
<1>34. ASSUME NEW e \in Execs, Retry(e) PROVE LoopOK'
  BY <1>34 DEF Retry, Goto
<1>35. ASSUME NEW e \in Execs, ChooseOutcome(e) PROVE LoopOK'
  BY <1>35 DEF ChooseOutcome, Goto, OutcomeOf
<1>36. CASE UNCHANGED vars
  BY <1>36 DEF vars
<1> QED
  BY <1>1, <1>2, <1>3, <1>4, <1>5, <1>6, <1>7, <1>8, <1>9, <1>10, <1>11,
     <1>12, <1>13, <1>14, <1>15, <1>16, <1>17, <1>18, <1>19, <1>20, <1>21,
     <1>22, <1>23, <1>24, <1>25, <1>26, <1>27, <1>28, <1>29, <1>30, <1>31,
     <1>32, <1>33, <1>34, <1>35, <1>36 DEF Next, ExecuteTask

\* No step strands a running record.
LEMMA OwnedStep == Inv /\ [Next]_vars => RunningRecordIsOwned'
<1> SUFFICES ASSUME Inv, [Next]_vars PROVE RunningRecordIsOwned'
  OBVIOUS
<1> USE DEF TypeOK, rows, process, runs, bounds, Inv, RunningRecordIsOwned, RunsOK, RunOK,
            Statuses, Outcomes, PCs, Active, Starting, Open, Closing, Working
<1>1. CASE Start
  <2>1. DueTasks \in SUBSET Tasks /\ Spawn(DueTasks, "scheduled")
    BY <1>1 DEF Start, DueTasks
  <2> QED
    BY <1>1, <2>1, Spawned, SMTT(30) DEF Start
<1>2. CASE CheckAndRunDueTasks
  <2>1. DueTasks \in SUBSET Tasks /\ Spawn(DueTasks, "scheduled")
    BY <1>2 DEF CheckAndRunDueTasks, DueTasks
  <2> QED
    BY <1>2, <2>1, Spawned, SMTT(30) DEF CheckAndRunDueTasks
<1>3. CASE HandleServerEvent
  <2>1. EventTasks \in SUBSET Tasks /\ Spawn(EventTasks, "event")
    BY <1>3 DEF HandleServerEvent, EventTasks
  <2> QED
    BY <1>3, <2>1, Spawned, SMTT(30) DEF HandleServerEvent
<1>4. CASE Stop
  BY <1>4 DEF Stop
<1>5. CASE ExitLoop
  BY <1>5 DEF ExitLoop
<1>6. CASE StopWaited
  BY <1>6 DEF StopWaited
<1>7. CASE StopCancels
  BY <1>7 DEF StopCancels, CancelAll
<1>8. CASE Exit
  BY <1>8 DEF Exit, ProcessEnds
<1>9. CASE Crash
  BY <1>9 DEF Crash, ProcessEnds
<1>10. CASE UpdateTask
  BY <1>10 DEF UpdateTask, SaveTask
<1>11. CASE ToggleTask
  BY <1>11 DEF ToggleTask, SaveTask
<1>12. CASE ServerChanges
  BY <1>12 DEF ServerChanges
<1>13. ASSUME NEW t \in Tasks, TriggerTask(t) PROVE RunningRecordIsOwned'
  <2>1. {t} \in SUBSET Tasks /\ Spawn({t}, "manual")
    BY <1>13 DEF TriggerTask
  <2> QED
    BY <1>13, <2>1, Spawned, SMTT(30) DEF TriggerTask
<1>14. ASSUME NEW t \in Tasks, CreateTask(t) PROVE RunningRecordIsOwned'
  BY <1>14 DEF CreateTask
<1>15. ASSUME NEW t \in Tasks, ReadForEdit(t) PROVE RunningRecordIsOwned'
  BY <1>15 DEF ReadForEdit
<1>16. ASSUME NEW t \in Tasks, DeleteTask(t) PROVE RunningRecordIsOwned'
  BY <1>16 DEF DeleteTask
<1>17. ASSUME NEW t \in Tasks, BecomeDue(t) PROVE RunningRecordIsOwned'
  BY <1>17 DEF BecomeDue, WithNext
<1>18. ASSUME NEW e \in Execs, LookUpServer(e) PROVE RunningRecordIsOwned'
  BY <1>18 DEF LookUpServer, Goto
<1>19. ASSUME NEW e \in Execs, Skip(e) PROVE RunningRecordIsOwned'
  BY <1>19 DEF Skip, Goto
<1>20. ASSUME NEW e \in Execs, SkipFails(e) PROVE RunningRecordIsOwned'
  BY <1>20 DEF SkipFails, Goto, WriteFails
<1>21. ASSUME NEW e \in Execs, CreateExecution(e) PROVE RunningRecordIsOwned'
  BY <1>21 DEF CreateExecution, Goto
<1>22. ASSUME NEW e \in Execs, CreateExecutionFails(e) PROVE RunningRecordIsOwned'
  BY <1>22 DEF CreateExecutionFails, Goto, WriteFails
<1>23. ASSUME NEW e \in Execs, Track(e) PROVE RunningRecordIsOwned'
  BY <1>23 DEF Track, Goto
<1>24. ASSUME NEW e \in Execs, FinishAttempt(e) PROVE RunningRecordIsOwned'
  BY <1>24 DEF FinishAttempt, Goto
<1>25. ASSUME NEW e \in Execs, EndRetryDelay(e) PROVE RunningRecordIsOwned'
  BY <1>25 DEF EndRetryDelay, Goto
<1>26. ASSUME NEW e \in Execs, RecordOutcome(e) PROVE RunningRecordIsOwned'
  BY <1>26 DEF RecordOutcome, Goto
<1>27. ASSUME NEW e \in Execs, RecordOutcomeFails(e) PROVE RunningRecordIsOwned'
  BY <1>27 DEF RecordOutcomeFails, Goto, WriteFails
<1>28. ASSUME NEW e \in Execs, UpdateNextRun(e) PROVE RunningRecordIsOwned'
  BY <1>28 DEF UpdateNextRun, Goto, NextRunAfter, WithNext
<1>29. ASSUME NEW e \in Execs, UpdateNextRunFails(e) PROVE RunningRecordIsOwned'
  BY <1>29 DEF UpdateNextRunFails, Goto, WriteFails
<1>30. ASSUME NEW e \in Execs, Cleanup(e) PROVE RunningRecordIsOwned'
  BY <1>30 DEF Cleanup, Goto
<1>31. ASSUME NEW e \in Execs, Expire(e) PROVE RunningRecordIsOwned'
  BY <1>31 DEF Expire
<1>32. ASSUME NEW e \in Execs, CancelExecution(e) PROVE RunningRecordIsOwned'
  BY <1>32 DEF CancelExecution, CancelAll
<1>33. ASSUME NEW e \in Execs, CancelExecutionReply(e) PROVE RunningRecordIsOwned'
  BY <1>33 DEF CancelExecutionReply
<1>34. ASSUME NEW e \in Execs, Retry(e) PROVE RunningRecordIsOwned'
  BY <1>34 DEF Retry, Goto
<1>35. ASSUME NEW e \in Execs, ChooseOutcome(e) PROVE RunningRecordIsOwned'
  BY <1>35 DEF ChooseOutcome, Goto, OutcomeOf
<1>36. CASE UNCHANGED vars
  BY <1>36 DEF vars
<1> QED
  BY <1>1, <1>2, <1>3, <1>4, <1>5, <1>6, <1>7, <1>8, <1>9, <1>10, <1>11,
     <1>12, <1>13, <1>14, <1>15, <1>16, <1>17, <1>18, <1>19, <1>20, <1>21,
     <1>22, <1>23, <1>24, <1>25, <1>26, <1>27, <1>28, <1>29, <1>30, <1>31,
     <1>32, <1>33, <1>34, <1>35, <1>36 DEF Next, ExecuteTask

\* No step makes a recorded outcome wrong.
LEMMA HonestStep == Inv /\ [Next]_vars => OutcomeIsHonest'
<1> SUFFICES ASSUME Inv, [Next]_vars PROVE OutcomeIsHonest'
  OBVIOUS
<1> USE DEF TypeOK, rows, process, runs, bounds, Inv, OutcomeIsHonest, RunsOK, RunOK, Job, Settings,
            Statuses, Outcomes, PCs, Active, Starting, Open, Closing, Working
<1>1. CASE Start
  <2>1. DueTasks \in SUBSET Tasks /\ Spawn(DueTasks, "scheduled")
    BY <1>1 DEF Start, DueTasks
  <2> QED
    BY <1>1, <2>1, Spawned, SMTT(30) DEF Start
<1>2. CASE CheckAndRunDueTasks
  <2>1. DueTasks \in SUBSET Tasks /\ Spawn(DueTasks, "scheduled")
    BY <1>2 DEF CheckAndRunDueTasks, DueTasks
  <2> QED
    BY <1>2, <2>1, Spawned, SMTT(30) DEF CheckAndRunDueTasks
<1>3. CASE HandleServerEvent
  <2>1. EventTasks \in SUBSET Tasks /\ Spawn(EventTasks, "event")
    BY <1>3 DEF HandleServerEvent, EventTasks
  <2> QED
    BY <1>3, <2>1, Spawned, SMTT(30) DEF HandleServerEvent
<1>4. CASE Stop
  BY <1>4 DEF Stop
<1>5. CASE ExitLoop
  BY <1>5 DEF ExitLoop
<1>6. CASE StopWaited
  BY <1>6 DEF StopWaited
<1>7. CASE StopCancels
  BY <1>7 DEF StopCancels, CancelAll
<1>8. CASE Exit
  BY <1>8 DEF Exit, ProcessEnds
<1>9. CASE Crash
  BY <1>9 DEF Crash, ProcessEnds
<1>10. CASE UpdateTask
  BY <1>10 DEF UpdateTask, SaveTask
<1>11. CASE ToggleTask
  BY <1>11 DEF ToggleTask, SaveTask
<1>12. CASE ServerChanges
  BY <1>12 DEF ServerChanges
<1>13. ASSUME NEW t \in Tasks, TriggerTask(t) PROVE OutcomeIsHonest'
  <2>1. {t} \in SUBSET Tasks /\ Spawn({t}, "manual")
    BY <1>13 DEF TriggerTask
  <2> QED
    BY <1>13, <2>1, Spawned, SMTT(30) DEF TriggerTask
<1>14. ASSUME NEW t \in Tasks, CreateTask(t) PROVE OutcomeIsHonest'
  BY <1>14 DEF CreateTask
<1>15. ASSUME NEW t \in Tasks, ReadForEdit(t) PROVE OutcomeIsHonest'
  BY <1>15 DEF ReadForEdit
<1>16. ASSUME NEW t \in Tasks, DeleteTask(t) PROVE OutcomeIsHonest'
  BY <1>16 DEF DeleteTask
<1>17. ASSUME NEW t \in Tasks, BecomeDue(t) PROVE OutcomeIsHonest'
  BY <1>17 DEF BecomeDue, WithNext
<1>18. ASSUME NEW e \in Execs, LookUpServer(e) PROVE OutcomeIsHonest'
  BY <1>18 DEF LookUpServer, Goto
<1>19. ASSUME NEW e \in Execs, Skip(e) PROVE OutcomeIsHonest'
  BY <1>19 DEF Skip, Goto
<1>20. ASSUME NEW e \in Execs, SkipFails(e) PROVE OutcomeIsHonest'
  BY <1>20 DEF SkipFails, Goto, WriteFails
<1>21. ASSUME NEW e \in Execs, CreateExecution(e) PROVE OutcomeIsHonest'
  BY <1>21 DEF CreateExecution, Goto
<1>22. ASSUME NEW e \in Execs, CreateExecutionFails(e) PROVE OutcomeIsHonest'
  BY <1>22 DEF CreateExecutionFails, Goto, WriteFails
<1>23. ASSUME NEW e \in Execs, Track(e) PROVE OutcomeIsHonest'
  BY <1>23 DEF Track, Goto
<1>24. ASSUME NEW e \in Execs, FinishAttempt(e) PROVE OutcomeIsHonest'
  BY <1>24 DEF FinishAttempt, Goto
<1>25. ASSUME NEW e \in Execs, EndRetryDelay(e) PROVE OutcomeIsHonest'
  BY <1>25 DEF EndRetryDelay, Goto
<1>26. ASSUME NEW e \in Execs, RecordOutcome(e) PROVE OutcomeIsHonest'
  BY <1>26 DEF RecordOutcome, Goto
<1>27. ASSUME NEW e \in Execs, RecordOutcomeFails(e) PROVE OutcomeIsHonest'
  BY <1>27 DEF RecordOutcomeFails, Goto, WriteFails
<1>28. ASSUME NEW e \in Execs, UpdateNextRun(e) PROVE OutcomeIsHonest'
  BY <1>28 DEF UpdateNextRun, Goto, NextRunAfter, WithNext
<1>29. ASSUME NEW e \in Execs, UpdateNextRunFails(e) PROVE OutcomeIsHonest'
  BY <1>29 DEF UpdateNextRunFails, Goto, WriteFails
<1>30. ASSUME NEW e \in Execs, Cleanup(e) PROVE OutcomeIsHonest'
  BY <1>30 DEF Cleanup, Goto
<1>31. ASSUME NEW e \in Execs, Expire(e) PROVE OutcomeIsHonest'
  BY <1>31 DEF Expire
<1>32. ASSUME NEW e \in Execs, CancelExecution(e) PROVE OutcomeIsHonest'
  BY <1>32 DEF CancelExecution, CancelAll
<1>33. ASSUME NEW e \in Execs, CancelExecutionReply(e) PROVE OutcomeIsHonest'
  BY <1>33 DEF CancelExecutionReply
<1>34. ASSUME NEW e \in Execs, Retry(e) PROVE OutcomeIsHonest'
  BY <1>34 DEF Retry, Goto
<1>35. ASSUME NEW e \in Execs, ChooseOutcome(e) PROVE OutcomeIsHonest'
  BY <1>35 DEF ChooseOutcome, Goto, OutcomeOf
<1>36. CASE UNCHANGED vars
  BY <1>36 DEF vars
<1> QED
  BY <1>1, <1>2, <1>3, <1>4, <1>5, <1>6, <1>7, <1>8, <1>9, <1>10, <1>11,
     <1>12, <1>13, <1>14, <1>15, <1>16, <1>17, <1>18, <1>19, <1>20, <1>21,
     <1>22, <1>23, <1>24, <1>25, <1>26, <1>27, <1>28, <1>29, <1>30, <1>31,
     <1>32, <1>33, <1>34, <1>35, <1>36 DEF Next, ExecuteTask

\* No step starts scheduled work after the drain.
LEMMA DrainStep == Inv /\ [Next]_vars => StopDrainsTicker'
<1> SUFFICES ASSUME Inv, [Next]_vars PROVE StopDrainsTicker'
  OBVIOUS
<1> USE DEF TypeOK, rows, process, runs, bounds, Inv, StopDrainsTicker, LoopOK, InGroup, Job,
            PCs, Active, Starting, Open, Closing
<1>1. CASE Start
  <2>1. DueTasks \in SUBSET Tasks /\ Spawn(DueTasks, "scheduled")
    BY <1>1 DEF Start, DueTasks
  <2> QED
    BY <1>1, <2>1, Spawned, SMTT(30) DEF Start
<1>2. CASE CheckAndRunDueTasks
  <2>1. DueTasks \in SUBSET Tasks /\ Spawn(DueTasks, "scheduled")
    BY <1>2 DEF CheckAndRunDueTasks, DueTasks
  <2> QED
    BY <1>2, <2>1, Spawned, SMTT(30) DEF CheckAndRunDueTasks
<1>3. CASE HandleServerEvent
  <2>1. EventTasks \in SUBSET Tasks /\ Spawn(EventTasks, "event")
    BY <1>3 DEF HandleServerEvent, EventTasks
  <2> QED
    BY <1>3, <2>1, Spawned, SMTT(30) DEF HandleServerEvent
<1>4. CASE Stop
  BY <1>4 DEF Stop
<1>5. CASE ExitLoop
  BY <1>5 DEF ExitLoop
<1>6. CASE StopWaited
  BY <1>6 DEF StopWaited
<1>7. CASE StopCancels
  BY <1>7 DEF StopCancels, CancelAll
<1>8. CASE Exit
  BY <1>8 DEF Exit, ProcessEnds
<1>9. CASE Crash
  BY <1>9 DEF Crash, ProcessEnds
<1>10. CASE UpdateTask
  BY <1>10 DEF UpdateTask, SaveTask
<1>11. CASE ToggleTask
  BY <1>11 DEF ToggleTask, SaveTask
<1>12. CASE ServerChanges
  BY <1>12 DEF ServerChanges
<1>13. ASSUME NEW t \in Tasks, TriggerTask(t) PROVE StopDrainsTicker'
  <2>1. {t} \in SUBSET Tasks /\ Spawn({t}, "manual")
    BY <1>13 DEF TriggerTask
  <2> QED
    BY <1>13, <2>1, Spawned, SMTT(30) DEF TriggerTask
<1>14. ASSUME NEW t \in Tasks, CreateTask(t) PROVE StopDrainsTicker'
  BY <1>14 DEF CreateTask
<1>15. ASSUME NEW t \in Tasks, ReadForEdit(t) PROVE StopDrainsTicker'
  BY <1>15 DEF ReadForEdit
<1>16. ASSUME NEW t \in Tasks, DeleteTask(t) PROVE StopDrainsTicker'
  BY <1>16 DEF DeleteTask
<1>17. ASSUME NEW t \in Tasks, BecomeDue(t) PROVE StopDrainsTicker'
  BY <1>17 DEF BecomeDue, WithNext
<1>18. ASSUME NEW e \in Execs, LookUpServer(e) PROVE StopDrainsTicker'
  BY <1>18 DEF LookUpServer, Goto
<1>19. ASSUME NEW e \in Execs, Skip(e) PROVE StopDrainsTicker'
  BY <1>19 DEF Skip, Goto
<1>20. ASSUME NEW e \in Execs, SkipFails(e) PROVE StopDrainsTicker'
  BY <1>20 DEF SkipFails, Goto, WriteFails
<1>21. ASSUME NEW e \in Execs, CreateExecution(e) PROVE StopDrainsTicker'
  BY <1>21 DEF CreateExecution, Goto
<1>22. ASSUME NEW e \in Execs, CreateExecutionFails(e) PROVE StopDrainsTicker'
  BY <1>22 DEF CreateExecutionFails, Goto, WriteFails
<1>23. ASSUME NEW e \in Execs, Track(e) PROVE StopDrainsTicker'
  BY <1>23 DEF Track, Goto
<1>24. ASSUME NEW e \in Execs, FinishAttempt(e) PROVE StopDrainsTicker'
  BY <1>24 DEF FinishAttempt, Goto
<1>25. ASSUME NEW e \in Execs, EndRetryDelay(e) PROVE StopDrainsTicker'
  BY <1>25 DEF EndRetryDelay, Goto
<1>26. ASSUME NEW e \in Execs, RecordOutcome(e) PROVE StopDrainsTicker'
  BY <1>26 DEF RecordOutcome, Goto
<1>27. ASSUME NEW e \in Execs, RecordOutcomeFails(e) PROVE StopDrainsTicker'
  BY <1>27 DEF RecordOutcomeFails, Goto, WriteFails
<1>28. ASSUME NEW e \in Execs, UpdateNextRun(e) PROVE StopDrainsTicker'
  BY <1>28 DEF UpdateNextRun, Goto, NextRunAfter, WithNext
<1>29. ASSUME NEW e \in Execs, UpdateNextRunFails(e) PROVE StopDrainsTicker'
  BY <1>29 DEF UpdateNextRunFails, Goto, WriteFails
<1>30. ASSUME NEW e \in Execs, Cleanup(e) PROVE StopDrainsTicker'
  BY <1>30 DEF Cleanup, Goto
<1>31. ASSUME NEW e \in Execs, Expire(e) PROVE StopDrainsTicker'
  BY <1>31 DEF Expire
<1>32. ASSUME NEW e \in Execs, CancelExecution(e) PROVE StopDrainsTicker'
  BY <1>32 DEF CancelExecution, CancelAll
<1>33. ASSUME NEW e \in Execs, CancelExecutionReply(e) PROVE StopDrainsTicker'
  BY <1>33 DEF CancelExecutionReply
<1>34. ASSUME NEW e \in Execs, Retry(e) PROVE StopDrainsTicker'
  BY <1>34 DEF Retry, Goto
<1>35. ASSUME NEW e \in Execs, ChooseOutcome(e) PROVE StopDrainsTicker'
  BY <1>35 DEF ChooseOutcome, Goto, OutcomeOf
<1>36. CASE UNCHANGED vars
  BY <1>36 DEF vars
<1> QED
  BY <1>1, <1>2, <1>3, <1>4, <1>5, <1>6, <1>7, <1>8, <1>9, <1>10, <1>11,
     <1>12, <1>13, <1>14, <1>15, <1>16, <1>17, <1>18, <1>19, <1>20, <1>21,
     <1>22, <1>23, <1>24, <1>25, <1>26, <1>27, <1>28, <1>29, <1>30, <1>31,
     <1>32, <1>33, <1>34, <1>35, <1>36 DEF Next, ExecuteTask

-----------------------------------------------------------------------------
(* What OutcomeIsFinal says of one step.                                    *)

FinalAction ==
  \A e \in Execs : record[e] \in Outcomes \cup {"skipped"} =>
                     record'[e] \in {record[e], "none"}

\* A goroutine that moves changes the phase of its own execution only.
LEMMA Moved ==
  ASSUME TypeOK, NEW e \in Execs, NEW from, NEW to, Goto(e, from, to)
  PROVE  Phase[e] = PhaseAt(from) /\ Phase' = [Phase EXCEPT ![e] = PhaseAt(to)]
  BY DEF TypeOK, Goto, Phase

\* The goroutines that die with the process close their executions.
LEMMA Collapsed ==
  ASSUME TypeOK, ProcessEnds
  PROVE  \E S \in SUBSET Execs :
           Phase' = [e \in Execs |-> IF e \in S THEN "closed" ELSE Phase[e]]
<1> DEFINE S == {e \in Execs : pc[e] \in Active}
<1>1. Phase' = [e \in Execs |-> IF e \in S THEN "closed" ELSE Phase[e]]
  BY DEF TypeOK, ProcessEnds, Phase, PhaseAt, Starting, Open
<1> QED
  BY <1>1

\* A step leaves a recorded outcome alone, or erases it.
LEMMA FinalStep == Inv /\ [Next]_vars => FinalAction
<1> SUFFICES ASSUME Inv, [Next]_vars PROVE FinalAction
  OBVIOUS
<1> USE DEF TypeOK, rows, process, runs, bounds, Inv, RunsOK, RunOK, FinalAction, Outcomes,
            PCs, Active, Starting, Open, Closing, Working
<1>1. CASE Start
  <2>1. DueTasks \in SUBSET Tasks /\ Spawn(DueTasks, "scheduled")
    BY <1>1 DEF Start, DueTasks
  <2> QED
    BY <1>1, <2>1, Spawned, SMTT(30) DEF Start
<1>2. CASE CheckAndRunDueTasks
  <2>1. DueTasks \in SUBSET Tasks /\ Spawn(DueTasks, "scheduled")
    BY <1>2 DEF CheckAndRunDueTasks, DueTasks
  <2> QED
    BY <1>2, <2>1, Spawned, SMTT(30) DEF CheckAndRunDueTasks
<1>3. CASE HandleServerEvent
  <2>1. EventTasks \in SUBSET Tasks /\ Spawn(EventTasks, "event")
    BY <1>3 DEF HandleServerEvent, EventTasks
  <2> QED
    BY <1>3, <2>1, Spawned, SMTT(30) DEF HandleServerEvent
<1>4. CASE Stop
  BY <1>4 DEF Stop
<1>5. CASE ExitLoop
  BY <1>5 DEF ExitLoop
<1>6. CASE StopWaited
  BY <1>6 DEF StopWaited
<1>7. CASE StopCancels
  BY <1>7 DEF StopCancels, CancelAll
<1>8. CASE Exit
  BY <1>8 DEF Exit, ProcessEnds
<1>9. CASE Crash
  BY <1>9 DEF Crash, ProcessEnds
<1>10. CASE UpdateTask
  BY <1>10 DEF UpdateTask, SaveTask
<1>11. CASE ToggleTask
  BY <1>11 DEF ToggleTask, SaveTask
<1>12. CASE ServerChanges
  BY <1>12 DEF ServerChanges
<1>13. ASSUME NEW t \in Tasks, TriggerTask(t) PROVE FinalAction
  <2>1. {t} \in SUBSET Tasks /\ Spawn({t}, "manual")
    BY <1>13 DEF TriggerTask
  <2> QED
    BY <1>13, <2>1, Spawned, SMTT(30) DEF TriggerTask
<1>14. ASSUME NEW t \in Tasks, CreateTask(t) PROVE FinalAction
  BY <1>14 DEF CreateTask
<1>15. ASSUME NEW t \in Tasks, ReadForEdit(t) PROVE FinalAction
  BY <1>15 DEF ReadForEdit
<1>16. ASSUME NEW t \in Tasks, DeleteTask(t) PROVE FinalAction
  BY <1>16 DEF DeleteTask
<1>17. ASSUME NEW t \in Tasks, BecomeDue(t) PROVE FinalAction
  BY <1>17 DEF BecomeDue, WithNext
<1>18. ASSUME NEW e \in Execs, LookUpServer(e) PROVE FinalAction
  BY <1>18 DEF LookUpServer, Goto
<1>19. ASSUME NEW e \in Execs, Skip(e) PROVE FinalAction
  BY <1>19 DEF Skip, Goto
<1>20. ASSUME NEW e \in Execs, SkipFails(e) PROVE FinalAction
  BY <1>20 DEF SkipFails, Goto, WriteFails
<1>21. ASSUME NEW e \in Execs, CreateExecution(e) PROVE FinalAction
  BY <1>21 DEF CreateExecution, Goto
<1>22. ASSUME NEW e \in Execs, CreateExecutionFails(e) PROVE FinalAction
  BY <1>22 DEF CreateExecutionFails, Goto, WriteFails
<1>23. ASSUME NEW e \in Execs, Track(e) PROVE FinalAction
  BY <1>23 DEF Track, Goto
<1>24. ASSUME NEW e \in Execs, FinishAttempt(e) PROVE FinalAction
  BY <1>24 DEF FinishAttempt, Goto
<1>25. ASSUME NEW e \in Execs, EndRetryDelay(e) PROVE FinalAction
  BY <1>25 DEF EndRetryDelay, Goto
<1>26. ASSUME NEW e \in Execs, RecordOutcome(e) PROVE FinalAction
  BY <1>26 DEF RecordOutcome, Goto
<1>27. ASSUME NEW e \in Execs, RecordOutcomeFails(e) PROVE FinalAction
  BY <1>27 DEF RecordOutcomeFails, Goto, WriteFails
<1>28. ASSUME NEW e \in Execs, UpdateNextRun(e) PROVE FinalAction
  BY <1>28 DEF UpdateNextRun, Goto, NextRunAfter, WithNext
<1>29. ASSUME NEW e \in Execs, UpdateNextRunFails(e) PROVE FinalAction
  BY <1>29 DEF UpdateNextRunFails, Goto, WriteFails
<1>30. ASSUME NEW e \in Execs, Cleanup(e) PROVE FinalAction
  BY <1>30 DEF Cleanup, Goto
<1>31. ASSUME NEW e \in Execs, Expire(e) PROVE FinalAction
  BY <1>31 DEF Expire
<1>32. ASSUME NEW e \in Execs, CancelExecution(e) PROVE FinalAction
  BY <1>32 DEF CancelExecution, CancelAll
<1>33. ASSUME NEW e \in Execs, CancelExecutionReply(e) PROVE FinalAction
  BY <1>33 DEF CancelExecutionReply
<1>34. ASSUME NEW e \in Execs, Retry(e) PROVE FinalAction
  BY <1>34 DEF Retry, Goto
<1>35. ASSUME NEW e \in Execs, ChooseOutcome(e) PROVE FinalAction
  BY <1>35 DEF ChooseOutcome, Goto, OutcomeOf
<1>36. CASE UNCHANGED vars
  BY <1>36 DEF vars
<1> QED
  BY <1>1, <1>2, <1>3, <1>4, <1>5, <1>6, <1>7, <1>8, <1>9, <1>10, <1>11,
     <1>12, <1>13, <1>14, <1>15, <1>16, <1>17, <1>18, <1>19, <1>20, <1>21,
     <1>22, <1>23, <1>24, <1>25, <1>26, <1>27, <1>28, <1>29, <1>30, <1>31,
     <1>32, <1>33, <1>34, <1>35, <1>36 DEF Next, ExecuteTask
\* Another next_run leaves the settings and the status of a row.
LEMMA OthersKept ==
  ASSUME NEW r, NEW next
  PROVE  SettingsOf(WithNext(r, next)) = SettingsOf(r) /\ WithNext(r, next).status = r.status
  BY DEF WithNext, RowOf, SettingsOf

\* Outside the save of a call, a row is created, or it gets another next_run.
EditsAction == edits' = edits =>
  \A t \in Tasks : stage[t] = "live" /\ stage'[t] = "live" =>
    SettingsOf(row'[t]) = SettingsOf(row[t]) /\ row'[t].status = row[t].status

LEMMA NextRunStep ==
  ASSUME TypeOK, NEW t \in Tasks, NEW next, row' = [row EXCEPT ![t] = WithNext(@, next)]
  PROVE  EditsAction
<1>1. \A u \in Tasks : row'[u] = row[u] \/ row'[u] = WithNext(row[u], next)
  BY DEF TypeOK
<1> QED
  BY <1>1, OthersKept DEF EditsAction

LEMMA EditsStep == Inv /\ [Next]_vars => EditsAction
<1> SUFFICES ASSUME Inv, [Next]_vars PROVE EditsAction
  OBVIOUS
<1> TypeOK
  BY DEF Inv
<1> USE DEF rows
<1>1. ASSUME UNCHANGED row PROVE EditsAction
  BY <1>1 DEF EditsAction
<1>2. CASE UNCHANGED vars
  BY <1>1, <1>2 DEF vars
<1>3. CASE \/ Start \/ CheckAndRunDueTasks \/ HandleServerEvent
           \/ Stop \/ ExitLoop \/ StopWaited \/ StopCancels \/ Exit \/ Crash \/ ServerChanges
  BY <1>1, <1>3 DEF Start, CheckAndRunDueTasks, HandleServerEvent, Stop, ExitLoop,
     StopWaited, StopCancels, Exit, Crash, ProcessEnds, ServerChanges
<1>4. CASE UpdateTask \/ ToggleTask
  <2>1. PICK d \in edits : edits' = edits \ {d}
    BY <1>4 DEF UpdateTask, ToggleTask, SaveTask
  <2> QED
    BY <2>1 DEF EditsAction
<1>5. ASSUME NEW t \in Tasks, TriggerTask(t) \/ ReadForEdit(t) \/ DeleteTask(t)
      PROVE  EditsAction
  BY <1>1, <1>5 DEF TriggerTask, ReadForEdit, DeleteTask
<1>6. ASSUME NEW t \in Tasks, CreateTask(t) PROVE EditsAction
  <2>1. stage[t] = "unborn" /\ \A u \in Tasks \ {t} : row'[u] = row[u]
    BY <1>6 DEF CreateTask, TypeOK
  <2> QED
    BY <2>1 DEF EditsAction
<1>7. ASSUME NEW t \in Tasks, BecomeDue(t) PROVE EditsAction
  BY <1>7, NextRunStep DEF BecomeDue
<1>8. ASSUME NEW e \in Execs, UpdateNextRun(e) PROVE EditsAction
  <2>1. job[e].task \in Tasks
    BY DEF TypeOK, Job
  <2> QED
    BY <1>1, <1>8, <2>1, NextRunStep DEF UpdateNextRun
<1>9. ASSUME NEW e \in Execs, ExecuteTask(e), ~UpdateNextRun(e) PROVE EditsAction
  BY <1>1, <1>9 DEF ExecuteTask, LookUpServer, Skip, SkipFails, CreateExecution, Track,
     CreateExecutionFails, FinishAttempt, EndRetryDelay, Retry, ChooseOutcome, RecordOutcome,
     RecordOutcomeFails, UpdateNextRunFails, Cleanup
<1>10. ASSUME NEW e \in Execs, Expire(e) \/ CancelExecution(e) \/ CancelExecutionReply(e)
       PROVE  EditsAction
  BY <1>1, <1>10 DEF Expire, CancelExecution, CancelExecutionReply
<1> QED
  BY <1>2, <1>3, <1>4, <1>5, <1>6, <1>7, <1>8, <1>9, <1>10 DEF Next

\* Every step of the scheduler is a step of the ledger, or none.
LEMMA LedgerStep == Inv /\ [Next]_vars => [Ledger!Next]_(Ledger!vars)
<1> SUFFICES ASSUME Inv, [Next]_vars PROVE [Ledger!Next]_(Ledger!vars)
  OBVIOUS
<1> TypeOK
  BY DEF Inv
<1>1. CASE Start
  <2>1. DueTasks \in SUBSET Tasks /\ Spawn(DueTasks, "scheduled")
    BY <1>1 DEF Start, DueTasks
  <2>2. Phase' = Phase /\ UNCHANGED ctx
    BY <2>1, Spawned DEF Inv, TypeOK, PhaseAt, Phase, Starting
  <2> QED
    BY <1>1, <2>2 DEF Start, Ledger!vars
<1>2. CASE CheckAndRunDueTasks
  <2>1. DueTasks \in SUBSET Tasks /\ Spawn(DueTasks, "scheduled")
    BY <1>2 DEF CheckAndRunDueTasks, DueTasks
  <2>2. Phase' = Phase /\ UNCHANGED ctx
    BY <2>1, Spawned DEF Inv, TypeOK, PhaseAt, Phase, Starting
  <2> QED
    BY <1>2, <2>2 DEF CheckAndRunDueTasks, Ledger!vars
<1>3. CASE HandleServerEvent
  <2>1. EventTasks \in SUBSET Tasks /\ Spawn(EventTasks, "event")
    BY <1>3 DEF HandleServerEvent, EventTasks
  <2>2. Phase' = Phase /\ UNCHANGED ctx
    BY <2>1, Spawned DEF Inv, TypeOK, PhaseAt, Phase, Starting
  <2> QED
    BY <1>3, <2>2 DEF HandleServerEvent, Ledger!vars
<1>4. CASE Stop
  BY <1>4 DEF Stop, Phase, Ledger!vars, rows, process, runs, bounds
<1>5. CASE ExitLoop
  BY <1>5 DEF ExitLoop, Phase, Ledger!vars, rows, process, runs, bounds
<1>6. CASE StopWaited
  BY <1>6 DEF StopWaited, Phase, Ledger!vars, rows, process, runs, bounds
<1>7. CASE StopCancels
  <2>1. Ledger!Interrupt
    BY <1>7 DEF StopCancels, CancelAll, TypeOK, Inv, Phase, Ledger!Interrupt, rows, process
  <2> QED
    BY <2>1 DEF Ledger!Next
<1>8. CASE Exit
  <2>1. Ledger!Collapse
    BY <1>8, TypeOK, Collapsed DEF Exit, ProcessEnds, Ledger!Collapse
  <2> QED
    BY <2>1 DEF Ledger!Next
<1>9. CASE Crash
  <2>1. Ledger!Collapse
    BY <1>9, TypeOK, Collapsed DEF Crash, ProcessEnds, Ledger!Collapse
  <2> QED
    BY <2>1 DEF Ledger!Next
<1>10. CASE UpdateTask
  BY <1>10 DEF UpdateTask, SaveTask, Phase, Ledger!vars, rows, process, runs, bounds
<1>11. CASE ToggleTask
  BY <1>11 DEF ToggleTask, SaveTask, Phase, Ledger!vars, rows, process, runs, bounds
<1>12. CASE ServerChanges
  BY <1>12 DEF ServerChanges, Phase, Ledger!vars, rows, process, runs, bounds
<1>13. ASSUME NEW t \in Tasks, TriggerTask(t) PROVE [Ledger!Next]_(Ledger!vars)
  <2>1. {t} \in SUBSET Tasks /\ Spawn({t}, "manual")
    BY <1>13 DEF TriggerTask
  <2>2. Phase' = Phase /\ UNCHANGED ctx
    BY <2>1, Spawned DEF Inv, TypeOK, PhaseAt, Phase, Starting
  <2> QED
    BY <1>13, <2>2 DEF TriggerTask, Ledger!vars
<1>14. ASSUME NEW t \in Tasks, CreateTask(t) PROVE [Ledger!Next]_(Ledger!vars)
  BY <1>14 DEF CreateTask, Phase, Ledger!vars, rows, process, runs, bounds
<1>15. ASSUME NEW t \in Tasks, ReadForEdit(t) PROVE [Ledger!Next]_(Ledger!vars)
  BY <1>15 DEF ReadForEdit, Phase, Ledger!vars, rows, process, runs, bounds
<1>16. ASSUME NEW t \in Tasks, DeleteTask(t) PROVE [Ledger!Next]_(Ledger!vars)
  <2> DEFINE S == {e \in Execs : job[e].task = t}
  <2>1. record' = [e \in Execs |-> IF e \in S THEN "none" ELSE record[e]]
    BY <1>16 DEF DeleteTask
  <2>2. Phase' = Phase /\ ctx' = ctx
    BY <1>16 DEF DeleteTask, Phase, runs
  <2>3. Ledger!Erase
    BY <2>1, <2>2 DEF Ledger!Erase
  <2> QED
    BY <2>3 DEF Ledger!Next
<1>17. ASSUME NEW t \in Tasks, BecomeDue(t) PROVE [Ledger!Next]_(Ledger!vars)
  BY <1>17 DEF BecomeDue, WithNext, Phase, Ledger!vars, rows, process, runs, bounds
<1>18. ASSUME NEW e \in Execs, LookUpServer(e) PROVE [Ledger!Next]_(Ledger!vars)
  <2>1. CASE server = "gone"
    <3>1. Phase[e] = PhaseAt("spawned") /\ Phase' = [Phase EXCEPT ![e] = PhaseAt("done")]
      BY <1>18, <2>1, TypeOK, Moved DEF LookUpServer
    <3>2. Ledger!Drop(e)
      BY <1>18, <3>1 DEF LookUpServer, PhaseAt, Starting, Open, Ledger!Drop, Ledger!Move
    <3> QED
      BY <3>2 DEF Ledger!Next
  <2>2. CASE server # "gone"
    <3>1. PICK to \in {"skip", "create"} : Goto(e, "spawned", to)
      BY <1>18, <2>2 DEF LookUpServer
    <3>2. Phase[e] = PhaseAt("spawned") /\ Phase' = [Phase EXCEPT ![e] = PhaseAt(to)]
      BY <3>1, TypeOK, Moved
    <3>3. Phase' = Phase
      BY <3>2 DEF PhaseAt, Starting, Phase
    <3> QED
      BY <1>18, <3>3 DEF LookUpServer, Ledger!vars
  <2> QED
    BY <2>1, <2>2
<1>19. ASSUME NEW e \in Execs, Skip(e) PROVE [Ledger!Next]_(Ledger!vars)
  <2>1. Phase[e] = PhaseAt("skip") /\ Phase' = [Phase EXCEPT ![e] = PhaseAt("advance")]
    BY <1>19, TypeOK, Moved DEF Skip
  <2>2. Ledger!Skip(e)
    BY <1>19, <2>1 DEF Skip, Ledger!Skip, Ledger!Move, PhaseAt, Starting, Open, rows, process, bounds
  <2> QED
    BY <2>2 DEF Ledger!Next
<1>20. ASSUME NEW e \in Execs, SkipFails(e) PROVE [Ledger!Next]_(Ledger!vars)
  <2>1. Phase[e] = PhaseAt("skip") /\ Phase' = [Phase EXCEPT ![e] = PhaseAt("advance")]
    BY <1>20, TypeOK, Moved DEF SkipFails
  <2>2. Ledger!Drop(e)
    BY <1>20, <2>1 DEF SkipFails, Ledger!Drop, Ledger!Move, PhaseAt, Starting, Open, rows, process, bounds
  <2> QED
    BY <2>2 DEF Ledger!Next
<1>21. ASSUME NEW e \in Execs, CreateExecution(e) PROVE [Ledger!Next]_(Ledger!vars)
  <2>1. Phase[e] = PhaseAt("create") /\ Phase' = [Phase EXCEPT ![e] = PhaseAt("created")]
    BY <1>21, TypeOK, Moved DEF CreateExecution
  <2>2. Ledger!Open(e)
    BY <1>21, <2>1 DEF CreateExecution, Ledger!Open, Ledger!Move, PhaseAt, Starting, Open, rows, process, bounds
  <2> QED
    BY <2>2 DEF Ledger!Next
<1>22. ASSUME NEW e \in Execs, CreateExecutionFails(e) PROVE [Ledger!Next]_(Ledger!vars)
  <2>1. Phase[e] = PhaseAt("create") /\ Phase' = [Phase EXCEPT ![e] = PhaseAt("done")]
    BY <1>22, TypeOK, Moved DEF CreateExecutionFails
  <2>2. Ledger!Drop(e)
    BY <1>22, <2>1 DEF CreateExecutionFails, Ledger!Drop, Ledger!Move, PhaseAt, Starting, Open, rows, process, bounds
  <2> QED
    BY <2>2 DEF Ledger!Next
<1>23. ASSUME NEW e \in Execs, Track(e) PROVE [Ledger!Next]_(Ledger!vars)
  <2>1. Phase[e] = PhaseAt("created") /\ Phase' = [Phase EXCEPT ![e] = PhaseAt("attempt")]
    BY <1>23, TypeOK, Moved DEF Track
  <2>2. Phase' = Phase
    BY <2>1 DEF PhaseAt, Starting, Open, Phase
  <2> QED
    BY <1>23, <2>2 DEF Track, Ledger!vars, rows, process, bounds
<1>24. ASSUME NEW e \in Execs, FinishAttempt(e) PROVE [Ledger!Next]_(Ledger!vars)
  <2>1. PICK to \in {"waiting", "finish"} : Goto(e, "attempt", to)
    BY <1>24 DEF FinishAttempt
  <2>2. Phase[e] = PhaseAt("attempt") /\ Phase' = [Phase EXCEPT ![e] = PhaseAt(to)]
    BY <2>1, TypeOK, Moved
  <2>3. Phase' = Phase
    BY <2>2 DEF PhaseAt, Starting, Open, Phase
  <2> QED
    BY <1>24, <2>3 DEF FinishAttempt, Ledger!vars, rows, process, bounds
<1>25. ASSUME NEW e \in Execs, EndRetryDelay(e) PROVE [Ledger!Next]_(Ledger!vars)
  <2>1. PICK to \in {"retry", "finish"} : Goto(e, "waiting", to)
    BY <1>25 DEF EndRetryDelay
  <2>2. Phase[e] = PhaseAt("waiting") /\ Phase' = [Phase EXCEPT ![e] = PhaseAt(to)]
    BY <2>1, TypeOK, Moved
  <2>3. Phase' = Phase
    BY <2>2 DEF PhaseAt, Starting, Open, Phase
  <2> QED
    BY <1>25, <2>3 DEF EndRetryDelay, Ledger!vars, rows, process, bounds
<1>26. ASSUME NEW e \in Execs, RecordOutcome(e) PROVE [Ledger!Next]_(Ledger!vars)
  <2>1. Phase[e] = PhaseAt("record") /\ Phase' = [Phase EXCEPT ![e] = PhaseAt("advance")]
    BY <1>26, TypeOK, Moved DEF RecordOutcome
  <2>2. /\ verdict[e] \in Outcomes
        /\ verdict[e] = "timeout" => ctx[e] = "deadline"
        /\ verdict[e] = "cancelled" => ctx[e] = "cancelled"
    BY <1>26 DEF RecordOutcome, Goto, Inv, RunsOK, RunOK
  <2>3. record' = [record EXCEPT ![e] = verdict[e]] /\ UNCHANGED ctx
    BY <1>26 DEF RecordOutcome
  <2>4. Ledger!Move(e, "open", "closed")
    BY <2>1 DEF Ledger!Move, PhaseAt, Starting, Open
  <2>5. Ledger!Close(e)
    BY <2>2, <2>3, <2>4 DEF Ledger!Close, Outcomes
  <2> QED
    BY <2>5 DEF Ledger!Next
<1>27. ASSUME NEW e \in Execs, RecordOutcomeFails(e) PROVE [Ledger!Next]_(Ledger!vars)
  <2>1. Phase[e] = PhaseAt("record") /\ Phase' = [Phase EXCEPT ![e] = PhaseAt("advance")]
    BY <1>27, TypeOK, Moved DEF RecordOutcomeFails
  <2>2. Ledger!Forfeit(e)
    BY <1>27, <2>1 DEF RecordOutcomeFails, Ledger!Forfeit, Ledger!Move, PhaseAt, Starting, Open, rows, process, bounds
  <2> QED
    BY <2>2 DEF Ledger!Next
<1>28. ASSUME NEW e \in Execs, UpdateNextRun(e) PROVE [Ledger!Next]_(Ledger!vars)
  <2>1. Phase[e] = PhaseAt("advance") /\ Phase' = [Phase EXCEPT ![e] = PhaseAt("cleanup")]
    BY <1>28, TypeOK, Moved DEF UpdateNextRun
  <2>2. Phase' = Phase
    BY <2>1 DEF PhaseAt, Starting, Open, Phase
  <2> QED
    BY <1>28, <2>2 DEF UpdateNextRun, Ledger!vars, rows, process, bounds
<1>29. ASSUME NEW e \in Execs, UpdateNextRunFails(e) PROVE [Ledger!Next]_(Ledger!vars)
  <2>1. Phase[e] = PhaseAt("advance") /\ Phase' = [Phase EXCEPT ![e] = PhaseAt("cleanup")]
    BY <1>29, TypeOK, Moved DEF UpdateNextRunFails
  <2>2. Phase' = Phase
    BY <2>1 DEF PhaseAt, Starting, Open, Phase
  <2> QED
    BY <1>29, <2>2 DEF UpdateNextRunFails, Ledger!vars, rows, process, bounds
<1>30. ASSUME NEW e \in Execs, Cleanup(e) PROVE [Ledger!Next]_(Ledger!vars)
  <2>1. Phase[e] = PhaseAt("cleanup") /\ Phase' = [Phase EXCEPT ![e] = PhaseAt("done")]
    BY <1>30, TypeOK, Moved DEF Cleanup
  <2>2. Phase' = Phase
    BY <2>1 DEF PhaseAt, Starting, Open, Phase
  <2> QED
    BY <1>30, <2>2 DEF Cleanup, Ledger!vars, rows, process, bounds
<1>31. ASSUME NEW e \in Execs, Expire(e) PROVE [Ledger!Next]_(Ledger!vars)
  <2>1. Ledger!Interrupt
    BY <1>31 DEF Expire, CancelAll, TypeOK, Inv, Phase, Ledger!Interrupt, rows, process
  <2> QED
    BY <2>1 DEF Ledger!Next
<1>32. ASSUME NEW e \in Execs, CancelExecution(e) PROVE [Ledger!Next]_(Ledger!vars)
  <2>1. Ledger!Interrupt
    BY <1>32 DEF CancelExecution, CancelAll, TypeOK, Inv, Phase, Ledger!Interrupt, rows, process
  <2> QED
    BY <2>1 DEF Ledger!Next
<1>33. ASSUME NEW e \in Execs, CancelExecutionReply(e) PROVE [Ledger!Next]_(Ledger!vars)
  BY <1>33 DEF CancelExecutionReply, Phase, Ledger!vars, rows, process, runs, bounds
<1>34. ASSUME NEW e \in Execs, Retry(e) PROVE [Ledger!Next]_(Ledger!vars)
  <2>1. Phase[e] = PhaseAt("retry") /\ Phase' = [Phase EXCEPT ![e] = PhaseAt("attempt")]
    BY <1>34, TypeOK, Moved DEF Retry
  <2>2. Phase' = Phase
    BY <2>1 DEF PhaseAt, Starting, Open, Phase
  <2> QED
    BY <1>34, <2>2 DEF Retry, Ledger!vars, rows, process, bounds
<1>35. ASSUME NEW e \in Execs, ChooseOutcome(e) PROVE [Ledger!Next]_(Ledger!vars)
  <2>1. Phase[e] = PhaseAt("finish") /\ Phase' = [Phase EXCEPT ![e] = PhaseAt("record")]
    BY <1>35, TypeOK, Moved DEF ChooseOutcome
  <2>2. Phase' = Phase
    BY <2>1 DEF PhaseAt, Starting, Open, Phase
  <2> QED
    BY <1>35, <2>2 DEF ChooseOutcome, Ledger!vars, rows, process, bounds
<1>36. CASE UNCHANGED vars
  BY <1>36 DEF vars, Phase, Ledger!vars
<1> QED
  BY <1>1, <1>2, <1>3, <1>4, <1>5, <1>6, <1>7, <1>8, <1>9, <1>10, <1>11,
     <1>12, <1>13, <1>14, <1>15, <1>16, <1>17, <1>18, <1>19, <1>20, <1>21,
     <1>22, <1>23, <1>24, <1>25, <1>26, <1>27, <1>28, <1>29, <1>30, <1>31,
     <1>32, <1>33, <1>34, <1>35, <1>36 DEF Next, ExecuteTask

\* The invariant is inductive.
LEMMA InvStep == Inv /\ [Next]_vars => Inv'
<1> SUFFICES ASSUME Inv, [Next]_vars PROVE Inv'
  OBVIOUS
<1> QED
  BY TypeStep, RunsStep, LoopStep, OwnedStep, HonestStep, DrainStep DEF Inv

\* The invariant holds in every reachable state.
LEMMA Invariance == Spec => []Inv
  BY InitInv, InvStep, PTL DEF Spec

-----------------------------------------------------------------------------
\* Every variable keeps its type in every behaviour of the scheduler.
THEOREM TypeCorrect == Spec => []TypeOK
<1>1. Inv => TypeOK
  BY DEF Inv
<1> QED
  BY <1>1, Invariance, PTL

\* Whatever interleaving of ticks, events, cancels, timeouts, edits, stops and
\* crashes: a record that says "running" is owned by a goroutine that will end
\* it, or its goroutine died with the process, or its last write failed.
THEOREM RecordsOwned == Spec => []RunningRecordIsOwned
<1>1. Inv => RunningRecordIsOwned
  BY DEF Inv
<1> QED
  BY <1>1, Invariance, PTL

\* Every outcome in the history is what happened to the run.
THEOREM HonestOutcomes == Spec => []OutcomeIsHonest
<1>1. Inv => OutcomeIsHonest
  BY DEF Inv
<1> QED
  BY <1>1, Invariance, PTL

\* A run at work whose context lives can be cancelled by its identifier, also
\* after Stop has emptied the map.
THEOREM CancellableWork == Spec => []WorkIsCancellable
<1>1. Inv => WorkIsCancellable
  BY DEF Inv, RunsOK, RunOK, WorkIsCancellable, Working
<1> QED
  BY <1>1, Invariance, PTL

\* After wg.Wait has returned, nothing the ticker started is in flight or will
\* be started.
THEOREM DrainedTicker == Spec => []StopDrainsTicker
<1>1. Inv => StopDrainsTicker
  BY DEF Inv
<1> QED
  BY <1>1, Invariance, PTL

\* A record that has an outcome never gets another one.
THEOREM FinalOutcomes == Spec => OutcomeIsFinal
<1>1. Inv /\ [Next]_vars => [\A e \in Execs : record[e] \in Outcomes \cup {"skipped"} =>
                                  record'[e] \in {record[e], "none"}]_vars
  BY FinalStep DEF FinalAction
<1> QED
  BY <1>1, Invariance, PTL DEF Spec, OutcomeIsFinal

\* A run that ends does not undo what a user changed meanwhile: only the save of a
\* call changes the settings or the status of a task (updateNextRun writes two
\* columns of the row and not the copy it was handed).
THEOREM EditsSurviveRuns == Spec => RunsKeepEdits
<1>1. Inv /\ [Next]_vars => [EditsAction]_vars
  BY EditsStep
<1>2. Spec => [][EditsAction]_vars
  BY <1>1, Invariance, PTL DEF Spec
<1> QED
  BY <1>2 DEF RunsKeepEdits, EditsAction

\* The scheduler implements the ledger of executions: each is opened at most
\* once, closed at most once, and closed with the cause that ended it.
THEOREM ImplementsLedger == Spec => KeepsLedger
<1>1. Init => Ledger!Init
  BY DEF Init, Ledger!Init, Phase, PhaseAt
<1>2. Inv /\ [Next]_vars => [Ledger!Next]_(Ledger!vars)
  BY LedgerStep
<1> QED
  BY <1>1, <1>2, Invariance, PTL DEF Spec, KeepsLedger, Ledger!Spec
=============================================================================
