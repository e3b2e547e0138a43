------------------------------ MODULE TaskPage ------------------------------
(***************************************************************************)
(* The task tab of a server page: the list, the dialog that makes and      *)
(* edits a task, the history dialog, and the calls they make.              *)
(*                                                                         *)
(* The dialog keeps every field of every task type; a configuration is     *)
(* made from the fields of the chosen type when the task is saved, and     *)
(* taken apart into them when it is edited.  It is edited as the list has  *)
(* it, and the list is as old as the last answer.  A script's arguments    *)
(* and a backup's paths are one text in the form and a list in the         *)
(* configuration: an entry of it is here the sequence of what lies between *)
(* blanks, or commas.  A template is one up to the blanks around it.       *)
(***************************************************************************)
EXTENDS Naturals, Sequences, FiniteSets

CONSTANTS TaskIds, TaskServers, HomeServer,
          Urls,          \* webhook addresses
          PresetOf,      \* the preset that goes with an address
          StoredTasks,   \* configurations tasks may have at the start
          MaxTaskEdits,  \* bound: edits of fields that are made in all
          NoTask

VARIABLES taskRows,     \* the tasks at the backend
          taskTab,    \* the component: list, flags, which dialogs are open
          taskForm,     \* the fields of the dialog
          taskCalls      \* calls on their way: records with an `op'

tpVars == <<taskRows, taskTab, taskForm, taskCalls>>

TaskTypes == {"command", "script", "backup", "webhook", "restart"}
DialogSections(type) == {"general", "schedule", "advanced"}
                            \cup IF type = "webhook" THEN {"payload"} ELSE {}
\* Missing is a cron expression, or any event; an interval and a time are always given.
Schedules == {"missing", "given"}
Generic == "generic"                        \* the preset of an address of no known service
Custom == "custom"                          \* a template of the user's own
Unset == ""                                 \* a field that is left empty
Payloads == {PresetOf[u] : u \in Urls} \cup {Generic, Custom}

\* Configurations, by task type.
CommandConfig(c) == [type |-> "command", command |-> c]
ScriptConfig(path, args) == [type |-> "script", path |-> path, args |-> args]
BackupConfig(paths, days, min) == [type |-> "backup", paths |-> paths, days |-> days, min |-> min]
WebhookConfig(u, s, t, h) == [type |-> "webhook", url |-> u, secret |-> s, template |-> t, headers |-> h]
EmptyConfig == [type |-> "restart"]

IsTaskConfig(c) ==
    \/ c.type = "command" /\ c = CommandConfig(c.command)
    \/ c.type = "script" /\ c = ScriptConfig(c.path, c.args)
    \/ c.type = "backup" /\ c = BackupConfig(c.paths, c.days, c.min)
    \/ /\ c.type = "webhook" /\ c = WebhookConfig(c.url, c.secret, c.template, c.headers)
       /\ c.template \in Payloads \cup {Unset}
    \/ c = EmptyConfig

ASSUME StoredAssumption == HomeServer \in TaskServers /\ \A c \in StoredTasks : IsTaskConfig(c)

TaskPageTypeOK ==
    /\ \A k \in TaskIds : taskRows[k] # NoTask => taskRows[k].server \in TaskServers
    /\ taskTab.server \in TaskServers
    /\ \A k \in TaskIds : taskTab.tasks[k] # NoTask => taskTab.tasks[k].server \in TaskServers
    /\ {taskTab.loading, taskTab.creating, taskTab.showCreate, taskTab.historyLoading,
        taskForm.touched} \subseteq BOOLEAN
    /\ {taskTab.historyOf, taskForm.selected} \subseteq TaskIds \cup {NoTask}
    /\ taskForm.schedule \in Schedules /\ taskForm.type \in TaskTypes /\ taskForm.template \in Payloads \cup {Unset}
    /\ \A c \in taskCalls : c.op \in {"list", "save", "history"}

\* resetForm; the default event and times are left out.
BlankTaskForm == [selected |-> NoTask, stored |-> EmptyConfig, type |-> "command",
              schedule |-> "missing", command |-> Unset, path |-> Unset, args |-> <<>>,
              paths |-> <<>>, days |-> 7, min |-> 3, url |-> Unset, secret |-> Unset, hasSecret |-> FALSE,
              custom |-> FALSE, template |-> Unset, touched |-> FALSE]

NothingListed == [k \in TaskIds |-> NoTask]

TaskPageInit ==
    /\ taskRows \in [TaskIds -> {NoTask} \cup
                    [server : {HomeServer}, config : StoredTasks]]
    /\ taskTab = [server |-> HomeServer, tasks |-> NothingListed, loading |-> TRUE, creating |-> FALSE,
                showCreate |-> FALSE, historyOf |-> NoTask,
                historyLoading |-> FALSE, edits |-> 0]
    /\ taskForm = BlankTaskForm
    /\ taskCalls = {[op |-> "list", server |-> HomeServer]}

(***************************************************************************)
(* The conversions between a task and the form                             *)
(***************************************************************************)
\* An address of no known service has the generic preset.
DefaultTemplate(u) == IF u \in Urls THEN PresetOf[u] ELSE Generic

\* Arguments joined by blanks and paths by commas, and the text split there.
JoinArgs(args) ==
    LET joined[n \in 0..Len(args)] == IF n = 0 THEN <<>> ELSE joined[n - 1] \o args[n]
    IN  joined[Len(args)]
SplitArgs(text) == [i \in DOMAIN text |-> <<text[i]>>]

\* openEditDialog, on the form that resetForm leaves: the copy in the list is what is edited.
\* Days and minimum are those of a backup, or none.
FormOf(k) ==
    LET c == taskTab.tasks[k].config
        f == [BlankTaskForm EXCEPT !.selected = k, !.stored = c, !.type = c.type, !.schedule = "given",
                                   !.days = 0, !.min = 0]
    IN  CASE c.type = "command" -> [f EXCEPT !.command = c.command]
          [] c.type = "script"  -> [f EXCEPT !.path = c.path, !.args = JoinArgs(c.args)]
          [] c.type = "backup"  -> [f EXCEPT !.paths = JoinArgs(c.paths), !.days = c.days, !.min = c.min]
          [] c.type = "webhook" -> [f EXCEPT !.url = c.url, !.hasSecret = c.secret # Unset,
                                             !.template = c.template,
                                             !.custom = c.template \notin {Unset, DefaultTemplate(c.url)}]
          [] OTHER -> f

TypedTemplate == IF taskForm.custom THEN taskForm.template ELSE DefaultTemplate(taskForm.url)

\* Mutant: an empty secret field is an empty secret.
WebhookAsTyped == WebhookConfig(taskForm.url, taskForm.secret, TypedTemplate, Unset)

\* The secret is that of the copy unless one was typed; headers are not carried over.
BuildWebhookConfig ==
    WebhookConfig(taskForm.url,
                  IF taskForm.secret # Unset THEN taskForm.secret
                  ELSE IF taskForm.selected # NoTask /\ taskForm.hasSecret THEN taskForm.stored.secret
                  ELSE Unset,
                  TypedTemplate, Unset)

BuildTaskConfig ==
    CASE taskForm.type = "command" -> CommandConfig(taskForm.command)
      [] taskForm.type = "script"  -> ScriptConfig(taskForm.path, SplitArgs(taskForm.args))
      [] taskForm.type = "backup"  -> BackupConfig(SplitArgs(taskForm.paths), taskForm.days, taskForm.min)
      [] taskForm.type = "webhook" -> BuildWebhookConfig
      [] OTHER -> EmptyConfig

\* What saveTask insists on.
FormIsValid ==
    /\ taskForm.schedule = "given"
    /\ taskForm.type = "command" => taskForm.command # Unset
    /\ taskForm.type = "script" => taskForm.path # Unset
    /\ taskForm.type = "webhook" => taskForm.url # Unset

(***************************************************************************)
(* Loading the list                                                        *)
(***************************************************************************)
Call(c) == taskCalls' = taskCalls \cup {c}
TaskListCall(s) == [op |-> "list", server |-> s]

LoadTasks ==
    /\ taskTab' = [taskTab EXCEPT !.loading = TRUE]
    /\ Call(TaskListCall(taskTab.server))
    /\ UNCHANGED <<taskRows, taskForm>>

\* The effect on server.id.  The dialogs are modal: none is open then.
TaskServerChanges(s) ==
    /\ taskTab.server = HomeServer /\ s # HomeServer         \* bound: the user leaves it once
    /\ ~taskTab.showCreate /\ taskTab.historyOf = NoTask /\ Cardinality(taskCalls) <= 1
    /\ taskTab' = [taskTab EXCEPT !.server = s, !.tasks = NothingListed, !.loading = TRUE]
    /\ Call(TaskListCall(s))
    /\ UNCHANGED <<taskRows, taskForm>>

TasksArrive(c) ==
    /\ c \in taskCalls /\ c.op = "list"
    /\ taskCalls' = taskCalls \ {c}
    /\ \/ taskTab' = [taskTab EXCEPT !.loading = FALSE,
                      !.tasks = [k \in TaskIds |-> IF taskRows[k] # NoTask /\ taskRows[k].server = c.server
                                                  THEN taskRows[k] ELSE NoTask]]
       \/ taskTab' = [taskTab EXCEPT !.loading = FALSE]
    /\ UNCHANGED <<taskRows, taskForm>>

(***************************************************************************)
(* The dialog                                                              *)
(***************************************************************************)
\* The cards are shown while nothing loads and no dialog covers them.
CardsShown == ~taskTab.loading /\ ~taskTab.showCreate /\ taskTab.historyOf = NoTask

OpenCreateDialog ==
    /\ CardsShown
    /\ taskTab' = [taskTab EXCEPT !.showCreate = TRUE]
    /\ taskForm' = BlankTaskForm
    /\ UNCHANGED <<taskRows, taskCalls>>

OpenEditDialog(k) ==
    /\ CardsShown /\ taskTab.tasks[k] # NoTask
    /\ taskTab' = [taskTab EXCEPT !.showCreate = TRUE]
    /\ taskForm' = FormOf(k)
    /\ UNCHANGED <<taskRows, taskCalls>>

\* Cancel and the cross reset the form; escape leaves it to be reset when it is opened.
CloseTaskDialog ==
    /\ taskTab.showCreate
    /\ taskTab' = [taskTab EXCEPT !.showCreate = FALSE]
    /\ taskForm' = BlankTaskForm
    /\ UNCHANGED <<taskRows, taskCalls>>

EditTask(f) ==
    /\ taskTab.showCreate /\ taskTab.edits < MaxTaskEdits
    /\ taskForm' = [f EXCEPT !.touched = TRUE]
    /\ taskTab' = [taskTab EXCEPT !.edits = @ + 1]
    /\ UNCHANGED <<taskRows, taskCalls>>

\* The type and its fields.
EditGeneral ==
    \/ \E t \in TaskTypes : EditTask([taskForm EXCEPT !.type = t])
    \/ taskForm.type = "command" /\ EditTask([taskForm EXCEPT !.command = "w"])
    \/ taskForm.type = "script" /\ EditTask([taskForm EXCEPT !.path = "w"])
    \/ taskForm.type = "script" /\ EditTask([taskForm EXCEPT !.args = <<"w", "x">>])
    \/ taskForm.type = "backup" /\ EditTask([taskForm EXCEPT !.paths = <<"w">>])
    \/ taskForm.type = "backup" /\ \E d \in {0, 7} : EditTask([taskForm EXCEPT !.days = d])
    \/ taskForm.type = "backup" /\ taskForm.days > 0 /\ EditTask([taskForm EXCEPT !.min = 1])
    \/ taskForm.type = "webhook" /\ \E u \in Urls : EditTask([taskForm EXCEPT !.url = u])

\* The payload: switching the customisation on starts from the preset of the address.
EditPayload ==
    /\ "payload" \in DialogSections(taskForm.type)
    /\ \/ EditTask([taskForm EXCEPT !.custom = ~@,
                       !.template = IF ~taskForm.custom /\ @ = Unset THEN DefaultTemplate(taskForm.url) ELSE @])
       \/ taskForm.custom /\ \E p \in Payloads \cup {Unset} : EditTask([taskForm EXCEPT !.template = p])

EditSchedule ==
    /\ taskTab.showCreate
    /\ \E to \in Schedules \ {taskForm.schedule} : taskForm' = [taskForm EXCEPT !.schedule = to]
    /\ UNCHANGED <<taskRows, taskTab, taskCalls>>

\* The advanced section, of a webhook.
EditSecret == taskForm.secret = Unset /\ taskForm.type = "webhook" /\ EditTask([taskForm EXCEPT !.secret = "s"])

(***************************************************************************)
(* Calls                                                                   *)
(***************************************************************************)
\* saveTask: the fields are read now; the button is off while a save is on its way.
SaveTask ==
    /\ taskTab.showCreate /\ ~taskTab.creating
    /\ FormIsValid
    /\ taskTab' = [taskTab EXCEPT !.creating = TRUE]
    /\ Call([op |-> "save", task |-> taskForm.selected, server |-> taskTab.server,
             config |-> BuildTaskConfig, was |-> taskForm.stored, touched |-> taskForm.touched])
    /\ UNCHANGED <<taskRows, taskForm>>

\* The backend takes it: the dialog, whichever is open now, is closed and the form reset.
SaveAccepted(c) ==
    /\ c \in taskCalls /\ c.op = "save"
    /\ IF c.task = NoTask
       THEN \E k \in TaskIds : taskRows[k] = NoTask /\
               taskRows' = [taskRows EXCEPT ![k] =
                          [server |-> c.server, config |-> c.config]]
       ELSE taskRows[c.task] # NoTask /\ taskRows' = [taskRows EXCEPT ![c.task].config = c.config]
    /\ taskTab' = [taskTab EXCEPT !.creating = FALSE, !.showCreate = FALSE, !.loading = TRUE]
    /\ taskForm' = BlankTaskForm
    /\ taskCalls' = (taskCalls \ {c}) \cup {TaskListCall(taskTab.server)}

SaveRefused(c) ==
    /\ c \in taskCalls /\ c.op = "save"
    /\ taskCalls' = taskCalls \ {c}
    /\ taskTab' = [taskTab EXCEPT !.creating = FALSE]
    /\ UNCHANGED <<taskRows, taskForm>>

\* The answer to a toggle, a trigger or a delete of a task that was shown.
ChangeAnswered(k) ==
    /\ taskTab.tasks[k] # NoTask /\ taskRows[k] # NoTask
    /\ taskRows' \in {taskRows, [taskRows EXCEPT ![k] = NoTask]}
    /\ taskTab' = [taskTab EXCEPT !.loading = TRUE]
    /\ Call(TaskListCall(taskTab.server))
    /\ UNCHANGED taskForm

\* Bound: while no other call is on its way; the history shares nothing with the others.
ViewHistory(k) ==
    /\ CardsShown /\ taskTab.tasks[k] # NoTask /\ taskCalls = {}
    /\ taskTab' = [taskTab EXCEPT !.historyOf = k, !.historyLoading = TRUE]
    /\ Call([op |-> "history", task |-> k])
    /\ UNCHANGED <<taskRows, taskForm>>

HistoryArrives(c) ==
    /\ c \in taskCalls /\ c.op = "history"
    /\ taskCalls' = taskCalls \ {c}
    /\ taskTab' = [taskTab EXCEPT !.historyLoading = FALSE]
    /\ UNCHANGED <<taskRows, taskForm>>

CloseHistory ==
    /\ taskTab.historyOf # NoTask
    /\ taskTab' = [taskTab EXCEPT !.historyOf = NoTask]
    /\ UNCHANGED <<taskRows, taskForm, taskCalls>>

TaskAnswer == \E c \in taskCalls : TasksArrive(c) \/ SaveAccepted(c) \/ SaveRefused(c)
                                 \/ HistoryArrives(c)

TaskPageNext ==
    \/ LoadTasks \/ \E s \in TaskServers : TaskServerChanges(s)
    \/ OpenCreateDialog \/ CloseTaskDialog
    \/ EditGeneral \/ EditPayload \/ EditSchedule \/ EditSecret \/ SaveTask \/ CloseHistory
    \/ \E k \in TaskIds : OpenEditDialog(k) \/ ViewHistory(k) \/ ChangeAnswered(k)
    \/ TaskAnswer

\* A call is answered or fails, so the saving of a task and the loading of a list end.
TaskPageFairness ==
    /\ WF_tpVars(\E c \in taskCalls : SaveAccepted(c) \/ SaveRefused(c))
    /\ \A s \in TaskServers : WF_tpVars(TasksArrive(TaskListCall(s)))

TaskPageSpec == TaskPageInit /\ [][TaskPageNext]_tpVars /\ TaskPageFairness

(***************************************************************************)
(* Properties                                                              *)
(***************************************************************************)
\* A task that is opened and saved as it came is sent as the list has it: the arguments and the
\* paths, the address, the secret that the form does not show, the template whether or not it is
\* the preset of the address.  Two things of a webhook are excepted, see WholeConfigIsKept.
EditKeepsConfig ==
    \A c \in taskCalls : c.op = "save" /\ c.task # NoTask /\ ~c.touched
        => IF c.was.type # "webhook" THEN c.config = c.was
           ELSE /\ c.config.type = "webhook" /\ c.config.url = c.was.url
                /\ c.config.secret = c.was.secret
                /\ c.was.template # Unset => c.config.template = c.was.template

\* The code breaks this: headers of a webhook that the form does not know are deleted by any save,
\* and the preset takes the place of an empty template, which means the generic payload.
WholeConfigIsKept ==
    \A c \in taskCalls : c.op = "save" /\ c.task # NoTask /\ ~c.touched => c.config = c.was

\* The secret of the webhook in the list survives any edit of it that leaves it a webhook.
SecretIsKept ==
    \A c \in taskCalls : c.op = "save" /\ c.task # NoTask /\ c.was.type = "webhook"
                       /\ c.config.type = "webhook" /\ c.was.secret # Unset => c.config.secret # Unset

\* The code breaks this: the same for the secret the backend has.  When the list could not be
\* loaded after a save, the next edit is made of the copy from before it.
StoredSecretIsKept ==
    \A c \in taskCalls :
        c.op = "save" /\ c.task # NoTask /\ c.config.type = "webhook" /\ taskRows[c.task] # NoTask
          => LET had == taskRows[c.task].config
             IN  had.type = "webhook" /\ had.secret # Unset => c.config.secret # Unset

\* A dialog that was cancelled and opened again cannot send a second save while the first
\* is on its way: one press makes one task.
OneSave ==
    /\ Cardinality({c \in taskCalls : c.op = "save"}) <= 1
    /\ (\E c \in taskCalls : c.op = "save") => taskTab.creating
=============================================================================
