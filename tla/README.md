# A verification of DiscoPanel in TLA+

DiscoPanel is a panel for Minecraft servers: a Go program that keeps servers in a
SQLite database, runs each in a Docker container of its own, and adds scheduled tasks,
backups, a log viewer, a proxy for player connections, uploads, helper containers
("modules"), users, and a web panel in Svelte that talks to it by calls and one WebSocket.
This directory holds TLA+ models of the parts of both halves that carry state and
concurrency, configurations that check them with TLC, and theorems about all of them
checked by TLAPS. File names of Go are below `src/internal` of the repository
unless they begin with `pkg/` or `cmd/`; those of the web panel (`.svelte`, `.ts`) are below
`src/web/discopanel/src`, in `lib/components` if they have no directory.

1. [The system](#1-the-system) - components, their state, how they interact
2. [What is modelled](#2-what-is-modelled) - modules against code
3. [The runs](#3-the-runs) - what each checks, its bounds, the fairness assumed
4. [The proofs](#4-the-proofs)
5. [Disagreements](#5-disagreements) - where code and its own words part
6. [Limits](#6-limits) - what is only checked on instances, what is not modelled
7. [The plan](#7-the-plan) - modules, runs and theorems to come

To check a module `M` with configuration `X.cfg`: `tlc -config X.cfg M`. To check the
proofs of a module: `tlapm MProofs.tla` (between half a minute and ten minutes each).

## 1. The system

The backend is one process (`cmd/discopanel/main.go`) that holds all of its components. It shares three
things with the rest of the world: the database, the Docker daemon, and the directories
of the servers. Almost every hard behaviour of it comes from one habit: a call reads a row,
works for seconds or minutes with Docker or the network, and then saves the *whole* row
(gorm's `Save`, which also inserts a row that is gone), without a lock or a version.

The web panel has the same habit on the other side of the network: a page sends a call, the
user goes on to another server, tab, dialog or account, and the answer is written into
whatever is shown by then. Some pages compare what they asked for with what they show when the
answer arrives, some empty themselves when the server changes, some do neither. Nothing
cancels a call.

| Component | State | Operations | What must hold |
|---|---|---|---|
| **Task scheduler** `scheduler/scheduler.go`, `rpc/services/task.go` | tables of tasks and executions; map of cancel functions; ticker goroutine, wait group, stop channel | tick, event, manual trigger, run with retries, cancel, timeout, stop, task calls | an execution gets one honest, final outcome; nothing due is forgotten; edits survive runs; Stop ends |
| **Server lifecycle** `rpc/services/server.go`, `config.go`, `proxy.go`, `docker/client.go`, `docker/cleanup.go`, `main.go` | the server's row; its container in Docker | create, update, delete, start, stop, restart, recreate, monitor, auto-start, boot, shutdown | row and container agree in the end; no container is lost; edits survive; detached servers are left alone |
| **World saves** `scheduler/backup.go`, `command/sender.go`, `rcon/rcon.go` | whether the Minecraft server saves by itself | save-off, flush, archive, save-on | a world is not written while it is archived; saving comes back on |
| **Backup retention** `scheduler/backup.go`, `pkg/files/files.go` | archives in a directory | write, prune by number and age | the newest stays; cap, minimum and age as documented; other tasks' archives stay |
| **Log streams and hub** `pkg/logger/log_streamer.go`, `ws/hub.go` | streams by container, channels by subscriber, subscriptions by browser | stream, broadcast, subscribe, unsubscribe, migrate | no line is lost silently; subscriptions end with their browser; closing meets no sender |
| **Command sender, RCON** `command/sender.go` | none | RCON, then docker exec | a command is carried out once |
| **Proxy** `proxy/*.go`, `rpc/services/proxy.go` | listeners, route tables, UDP sessions | add, update and remove routes, reload, forward | the tables equal what the rows say |
| **Ports** `db/store.go`, `rpc/services/server.go` | three tables of rows with ports | find a free port, save a row | no port is given twice |
| **Uploads** `pkg/upload/upload.go`, `utils/chunked-upload.ts` | sessions with a temporary file and a count; the sessions a browser remembers | init, stream, status, cancel, sweep, save | what is saved is whole, once; an upload ends |
| **Modules, hooks** `module/*.go`, `docker/module.go` | module rows and containers, dependencies | start with dependencies, stop, recreate, hooks on events | dependencies before dependents; no endless start |
| **Event bus, webhooks** `events/bus.go`, `webhook/webhook.go` | list of handlers | emit | every handler is called |
| **Metrics** `metrics/collector.go` | last sampling per server | sample, derive healthy, join and leave events | every join has its leave |
| **Sessions, tokens, invites** `auth/manager.go`, `rpc/services/auth.go`, `user.go` | sessions, tokens, invites, recovery key | login, register, redeem, expire | an invite is used as often as it says; one first user |
| **OIDC, RBAC** `auth/oidc.go`, `rbac/*.go` | login states; casbin's policy | login, enforce | - (an external protocol and library) |
| **Cache, store, migrations, configuration, aliases** | maps, tables | get, put, migrate, substitute | - (part of the components that use them) |
| **Modpacks, files, downloads, support, Minecraft helpers, RPC wiring, status page** | files | requests and conversions | - (I/O and parsing) |
| **Panel: session** `lib/stores/auth.ts`, `lib/api/rpc-client.ts`, `routes/+layout.svelte`, `routes/login` | token and account in the store, token in the browser | login, register, logout, validate, the interceptor of rejected calls | an ended session is noticed each time; the login page stops waiting |
| **Panel: pages of servers** `routes/servers/[id]`, `routes/servers`, `routes/+page.svelte`, `lib/stores/servers.ts` | store of servers; the server shown; its polls | navigate, poll, act, delete | a page shows the server of its address; buttons come back |
| **Panel: settings, configuration, routing, mods** `server-settings.svelte` ... | one form per tab, kept while servers change | load, edit, save, import | what is sent belongs where it is sent |
| **Panel: files, editor** `files/*.svelte` | listing, selection, dialogs, extraction poll, editor | list, select, move, drop, extract, edit | the selection belongs to the server; an extraction that is shown is followed |
| **Panel: tasks** `server-tasks.svelte` | list, a dialog with the fields of every type | create, edit, toggle, trigger, history | an edit keeps what was not touched |
| **Panel: console, socket** `server-console.svelte`, `lib/stores/websocket.svelte.ts` | connection, subscriptions, line buffer, timers | connect, authenticate, subscribe, reconnect, command | the hub sends what the page listens to; attempts end |
| **Panel: modules** `server/*.svelte`, `routes/modules` | rows, poll, log dialog, two forms | list, act, create, fill from a template | no timer without its tab; buttons come back |
| **Panel: administration, profile, new server** `user-settings.svelte`, `role-settings.svelte`, `routes/profile`, `routes/servers/new` | lists, dialogs, forms | edit, save, delete, choose a modpack | nothing changes that was left alone |
| **Panel: other pages** `routes/modpacks`, `routes/settings`, kit of elements | forms | load, edit, save | - (not modelled) |

How they interact:

- *Calls.* The panel's pages call the RPC services, upload by a PUT, and listen on one WebSocket; services call Docker, the database, the
  proxy manager, the log streamer. Every RPC runs in a goroutine of its own, and
  `CreateServer` goes on in one after it has answered.
- *Shared rows.* Server rows are saved by the services, the scheduler's start, stop and
  restart tasks, the status monitor, the auto-start goroutine and module code, all
  without coordination.
- *Callbacks.* The event bus calls the scheduler's `HandleServerEvent` and the module
  hooks inside the call that emitted the event.
- *Channels.* Log lines go from a container's stream to a channel per subscription and
  from there to the channel of the socket; the hub closes the latter.
- *Time.* The scheduler ticks, the monitor polls, uploads and sessions are swept,
  executions and commands have timeouts; every page that shows something polls for it.
- *One page, many servers.* The tabs of a server stay mounted when another server is chosen in the
  sidebar: their prop changes under the calls, timers and forms they have open.

Hard behaviours: stale copies of rows; a tick that lists what is being run; a context
that ends between two checks; the panel dying between a Docker call and the save after
it; failures of Docker and the database half way; commands that are carried out after
they were given up; channels closed between the copy of a set and the send; names and
identifiers looked up under what is current rather than what was used; answers that
arrive for a page, a dialog or an account that is gone; timers whose body waits. `PROJECT.json`
lists them one by one, with the properties aimed at them.

## 2. What is modelled

`X` and `MCX` belong together: `X` translates the code and states the properties, `MCX`
extends it with the sets of values a configuration needs. A definition named `Y_Word`
stands before a `Y` and is `Y` with a plausible mistake; in the modules of the panel it has a name of its
own, under a comment that begins with "Mutant:". Nothing uses it
unless it is put in `Y`'s place to see that a property notices. Definitions keep the names of
the code's functions, in the capitals TLA+ actions have. `MProofs` holds the theorems about `M`
and extends nothing but it and the library; the pages of the panel have two, `ServerTabsProofs` and
`PanelPagesProofs`, which extend the modules that compose them.

### Scheduler and ExecutionLedger

`Scheduler` is the ticker (`Start`, `CheckAndRunDueTasks`, `ExitLoop`), the event bus and
the manual trigger (`HandleServerEvent`, `TriggerTask`), one goroutine per execution
(`LookUpServer` ... `Cleanup`, by the control point `pc`), `Stop` in its three parts, the
death of the process, the task calls (`CreateTask`, `ReadForEdit` with `UpdateTask` or
`ToggleTask`, `DeleteTask`, `CancelExecution` and its reply) and what surrounds it
(`BecomeDue`, `ServerChanges`, `Expire`). One action is one statement on the database or
one change of a field that another goroutine reads.

- `row`, `record` and `stage` are the tables; `tracked` is `runningExecutions`; `ctx` is
  what `execCtx.Err()` would say; `job` is the task as `executeTask` was handed it, which
  is what `updateNextRun` works from minutes later.
- Time is what the code compares: `next_run` is unset, ahead, or due. Cron and interval
  tasks are one kind, "repeat". What a task does (command, backup, webhook) is success
  or failure; a backup's own steps are in `WorldSaves` and `Retention`.
- The wait group counts what `checkAndRunDueTasks` and `HandleServerEvent` start, not
  `TriggerTask`'s run: `InGroup`.
- Writes can fail (`...Fails`), as often as `MaxFaults` says; all but one of these errors
  are dropped by the code, and so by the actions.

`ExecutionLedger` is what the history of executions promises its reader, without saying
who runs what: an execution is opened once and closed once, and an outcome that blames
the context names what ended it. `Scheduler` implements it (`KeepsLedger`): the phase of
an execution is read off its control point.

### ServerLifecycle

One server: its `row`, the containers of its name in `docker`, and up to `Calls` calls
in flight, each with its own copy of the row. Nine RPCs, three task executors, the
monitor's tick and the auto-start goroutine begin with an action of their own and then
take the shared steps below (`CreateContainer`, `StartContainer`, `StopContainer`, the
steps of `RecreateContainer`, the saves), each with its failure. `settings` stands for
all columns that a call copies without meaning to change them; that it is overwritten is
what an edit undone means. `Boot` is the orphan cleanup of `main.go` with the list it
works from, `Shutdown` the listing of the servers at the end and `StopListed` the loop over what
was `listed`; calls are served in between. Calls in flight die with the process. `Kinds` restricts the calls a configuration makes.

`Detached` names the settings with which the server is detached, so that an edit may
attach or detach it. Docker is external: it issues identifiers, refuses a second container
of a name, reports health (`HealthChanges`), and a user may remove a container
(`Vanish`).

### WorldSaves

One server's `saves` flag and up to `Runs` backups, which pass `executeBackupTask`:
decide from the row, save-off, flush, settle, archive, and the deferred save-on with a
context of its own. `SendCommand` is RCON with the fall-back to docker exec: a command
is carried out and reported, lost, reported as failed although it will be carried out
(`late`, `ObeyLate`), or carried out twice. The task is cancelled or times out between
its commands (`Cancel`) or while one is on the wire (`Interrupted`: `SendCommand` returns
the context's error, the server may carry the command out all the same). The server
restarts, the panel dies. `torn` notes that the world was written while a run archived it.
`alone` is history: no other run was in flight with this one.

### Retention

The archives of one directory with name, second and modification time, and the backups in
flight (`Runs`, of which `pc` says how far each is), which interleave at every call of the
file system. A backup creates its archive, truncating one of its name and second that
another may be writing (then the content is `mixed`), writes it (`WriteMore`, `EndArchive`),
or fails and removes it. Then `pruneBackups`: `List` reads the names, `Look` the times, one
file after the other, leaving out those that are gone; `Select` sorts and counts what was
seen (`OverCap`, `Expired`); `Delete` removes by name, one after the other in any order, and
goes on after one that cannot be removed. `linked` tells whose file is still in the
directory: what is written to a file deleted meanwhile is lost. A panel that dies leaves
a part of an archive.

### LogHub

Containers that come and go (`docker`), streams that read their logs, channels, and
browsers that subscribe and leave. `handleSubscribe` is three steps after the read of
the row (`After`), `broadcast` copies the channels and then sends to each without its
lock, `forwardLogs` drains a channel, also after it was closed, and the hub closes the
socket's channel last. A send on a closed channel ends the process: `panicked`, after
which nothing moves. `ReplaceContainer` is either `RecreateContainer`, which migrates
the subscribers, or `recreateContainer` of the configuration service, which does not.
`missed` holds the lines a full channel skipped: the code drops those on purpose.

### FileUpload

Both ends of an upload. `handleFileSelect` is a task per choice of files, which uploads
them one by one; `uploadFile` looks in the browser's storage (`StoredSession`), asks for
the state (`ResumeFrom`, `ResumeFails`), opens a session (`InitSession`, `InitFails`),
sends the rest in one PUT (`SendBlob`) and has it saved (`AskToSave`). The server's
stream begins, writes piece by piece, and ends or breaks on its own (`StreamBegins`,
`StreamWrites`, `StreamEnds`, `StreamBreaks`), after the browser has long given up; `CancelArrives` and
`SessionExpires` discard a session. `saving` is the handler of `SaveUploadedFile`, which goes on whatever the browser does: it looks the
session up, renames (`SaveRenames`) or, to a server that is not in `OneVolume`, copies (`CopyBegins`, `CopyWrites`, `CopyEnds`) and removes the
temporary file (`TempRemoved`), and ends the session (`SessionEnds`); it fails anywhere (`SaveFails`; a panel that dies while it copies
leaves the same). `disk` is what is in the servers' directories.
`page` is the tab, which is loaded again (`Reload`) or shows another
server while tasks run. It holds one `controller`, that of the last choice, which the end of any choice clears; a file is
given the `signal` of the controller that is held when its upload begins (`BeginFile`), and `aborted` are those the
cancel button has hit. A file is `Size` pieces, each with the file it came from, so a file made of two is seen.

### The tabs of a server, and MCServerTabs

Nine parts of the page of a server in eight modules. In all of them an element of a set
named `...Calls` (or `asked`, `lists`, `reads`, `writes`, `rpcs`) is a call on its way; it keeps what it was sent with;
its answer is an action that reads what the page shows by then; a call may fail.

- `ServerPage`: dashboard, list and page of a server over `park`, the store of servers. `GetArrives` has the
  page's comparison of the requested and the shown identifier, for each of the calls that end in a read
  (first load, poll, after an action, of a page that was left); `rack` is the backend, whose servers change and go.
- `FileBrowser`: listing, selection, menu, dialogs, drag and drop, loops of moves and copies (`batch`), and extraction.
  The timer of an extraction asks every two seconds whether or not the last
  answer has come, so there may be several calls for one (`asked`) and answers after its end.
- `FileEditor`: the editor's dialog, which loads, edits and saves; a text is the file it was read from and the edits since.
- `TaskPage`: `FormOf` takes a stored task apart into the fields of the dialog, `BuildTaskConfig` and
  `BuildWebhookConfig` make a configuration of them again: conversions are modelled by what they do (arguments are joined
  and split at blanks, paths at commas, a secret is not shown, an empty secret keeps that of the list's copy, an empty template counts
  as the preset, headers are not carried over). The copy is as old as the list, which a failed load leaves as it was.
- `ConsoleSocket`: the WebSocket client with state, timers, subscriptions and buffer (`ws`), the console (`console`), two
  channels and the hub's end. What became of a subscription there is `hubEnd.log`: a server the hub does not let the user
  see is refused, one without a container is answered and not followed (`bare`), also when it has one later (`ContainerAppears`).
- `ModulePanel` and `ModuleForms`: the tab's effects run again when what they read has changed (`Effect`), which
  is why `reads` is state; the forms keep what their checks and conversions tell apart; `AssignPorts` is the numbering of
  the ports of a template.
- `ServerForms`: settings (`$effect` on the identifier empties the form), configuration, routing and mods, with the
  answers of the former server. A form's `of` is the server its fields came from; a call's `at` is the one it goes to.

`MCServerTabs` composes them: a behaviour is that of one tab while the others are as they
were before they were opened, since tabs share no state but the server that is shown, which each of them has as its prop.
It states what is required of all tabs alike: `ShowsItsOwn`, `NothingLeftRunning`, `FormsSendWhatTheyShow`, `WaitingEnds`,
each a conjunction, or a case per tab, of parts defined in the modules.

### The other pages, and MCPanelPages

- `AuthSession`: store (`auth`), layout and interceptor (`shell`), login page, and calls with the token
  they were made with. `LogsOut` is the interceptor: one logout at a time, none at the login page. `desk` is the
  backend: settings, live sessions, whether there are users. A token stands for the account it was issued to. `auth.stored` is the token in
  `localStorage`: another tab may remove or replace it (`OtherTab`), and a page reads it only when it is loaded.
- `UserAdmin`, `RoleAdmin`: lists, dialogs and calls, with what the services make of them: an update
  leaves out what is empty, saving permissions replaces all of a role's, and a save is over when the table has been loaded again.
- `ProfilePage`: API tokens, made in a dialog that can be closed meanwhile, and the password.
- `NewServer`: the form of a new server and its three other writers, the calls made when it is opened, the
  configuration of the chosen modpack, and its versions.

`MCPanelPages` composes these in the same way.

## 3. The runs

| Run | Properties | Instance | States |
|---|---|---|---|
| `SchedulerRuns` | `TypeOK` `WorkIsCancellable` `OutcomeIsHonest` `StopDrainsTicker` `RunningRecordIsOwned` `OutcomeIsFinal` `KeepsLedger` `RunsKeepEdits` | one task, submitted as retrying or event-triggered; one execution; one edit in flight, one crash, one failed write | 2 451 000 |
| `SchedulerLive` | `DueTaskAdvances` `StopReturns` `RunEnds` | one repeating task that needs its server and retries once, or one whose expression is invalid; two executions in flight; one failed write | 139 000 |
| `LifecycleAlone` | `TypeOK` `NoErrorWithoutFault` `TracksContainer` | one call at a time, four calls of every kind, two crashes at any step, two changes of health | 199 000 |
| `LifecycleLive` | `StatusConverges` `AutoStarted` `DetachedKeepsRunning` | two overlapping calls of every kind, beside monitor and auto-start; one failure of any kind | 426 000 |
| `Saves` | `TypeOK` `PausedStaysOff` `SavesComeBack` | two backups, again and again; two boots of the server, two cancels, one crash, one lost or late command | 457 000 |
| `Retention` | `TypeOK` `NewestKept` `OptionsCombine` | two tasks, one name beginning with the other; up to three earlier archives, one of them a part; two backups in flight, five ticks, one fault | 1 216 000 |
| `LogHub` | `TypeOK` `NoLineIsLost` `LinesArrive` | one browser that comes and goes, two containers, two streams, a channel of one line, one change of any kind | 402 000 |
| `Upload` | `UploadTypeOK` `SavedWhole` `SavedOnce` | two choices of one file each or one of two, files of two pieces, two sessions, two servers, one of them on another volume; any number of breaks, cancels, reloads | 1 172 000 |
| `UploadQueue` | `UploadEnds` | two choices of three files in all, two sessions, one server; any number of breaks, cancels, reloads | 627 000 |
| `ServerTabs` | `TabsTypeOK` `ShowsItsOwn` `NothingLeftRunning` `FormsSendWhatTheyShow` `WaitingEnds` | two servers, a directory with an archive, two files, one task of three kinds, two modules, two templates, two fields, two attempts to reconnect | 602 000 |
| `PanelPages` | `PanelPagesTypeOK` `InterceptorListens` `NothingUnasked` `PageWaitingEnds` | two sessions, two users, one invite, two roles with two actions and one object, two modpacks, two API tokens | 396 000 |
| `SchedulerOnce` | `OnceRunsOnce` violated | one once task, two executions | |

**What they show.**

- *Scheduler.* Whatever the interleaving of retries, the deadline, a cancel, `Stop`, a
  crash, edits and a deletion, an execution's record is closed by its own goroutine, or
  its goroutine died or could not write (`RunningRecordIsOwned`); the outcome is what
  happened (`OutcomeIsHonest`) and stays (`OutcomeIsFinal`); a run that is at work can be
  cancelled, also after `Stop` has emptied the map under it (`WorkIsCancellable`);
  `wg.Wait` leaves nothing of the ticker behind (`StopDrainsTicker`); a run does not
  undo edits made meanwhile (`RunsKeepEdits`, because `UpdateTaskNextRun` writes two
  columns and not the row). And in time: a skipped run and a failed write do not leave a
  due task behind (`DueTaskAdvances`), runs end, Stop returns.
- *Lifecycle.* When calls come one at a time, the panel always knows its container
  between them: a crash anywhere leaves nothing the next boot does not remove, and no
  error appears without a failure. When they overlap, the monitor makes the status
  converge, an auto-started server comes up, and neither the end nor the start of the
  panel takes a server down that is detached as far as they were told.
- *Saves.* A backup whose save-off was confirmed and that is alone archives a world
  nobody writes, wherever it is cancelled and whichever command is lost; and saving comes
  back on, also when backups overlap or the task's context is gone, unless a save-off was
  given up on that the server carries out for nobody (`CancelledSavesComeBack`, section 5).
- *Retention.* Of the archives it has seen, a pruning leaves no more than the cap, keeps the minimum from
  age, and selects nothing young within the cap, also when others write, delete and fail between its
  `Look`s. A backup that meets no other keeps its archive and leaves the directory within the cap,
  whatever earlier ones, overlapping or dead, have left. Two that overlap can delete what they should keep (`RecentKept`, section 5).
- *Log hub.* A line is in the log sent at subscription, or comes by the channel, or
  met a full channel; the order in `handleSubscribe` (register, then send) is what makes
  it so.
- *Uploads.* Whatever breaks, is cancelled, expires, or is resumed by a later page, what stands under a name in a server's
  directory is one file of that name, with every piece of it if it was moved there, and with no piece of another if it was copied (`SavedWhole`); of
  the saves of one session only one moves its file (`SavedOnce`); an upload ends unless the controller whose signal its file was given is
  aborted (`UploadEnds`), which may be another choice's.
- *Tabs.* `ShowsItsOwn`: the page of a server never shows another one once it has loaded, a bulk action never has
  paths chosen on another server (unless its menu was open when the server changed), the socket subscribes to what is shown, and the dashboard counts each running server
  in exactly one group. `NothingLeftRunning`: one save of a task or of a configuration however often
  servers change, no poll of the modules' tab or its dialogs once they are closed (that of an extraction runs on), a hub that follows, through every
  reconnection, no log but those of the page, and these if it let the user and they had a container, and an extraction bar only while something is left to take it back. `FormsSendWhatTheyShow`: opening and saving a
  task sends what the list has of it, but for the headers and the empty template of a webhook, and keeps the secret of the list's copy; settings go to the server they were made of; a drop never moves a directory into itself;
  a module with an unreachable port is made only after a question. `WaitingEnds`: each of these waits ends, also if calls fail.
- *Pages.* The interceptor of rejected calls is never left deaf: it lets them pass exactly as long as the one logout it began is on its way,
  through overtaken logins, logouts, recoveries and reloads (`InterceptorListens`);
  saving a role that was only opened changes none of the permissions it has, also those on objects that are gone or that are not shown,
  as long as it still has what the table said when it was opened, a detached server is never created to be auto-started, and one click makes
  one API token (`NothingUnasked`); every page stops waiting (`PageWaitingEnds`).

**Bounds.** The hazards need few actors: two executions (a tick that lists what is being
run), two calls with one copy each, two backups, one browser against streams that change.
One execution suffices in `SchedulerRuns` because its properties speak of one execution at
a time and executions share only the map, the wait group and the task's row; the proofs cover
any number. In `SchedulerLive` a finished execution is forgotten and its identifier
drawn again (`Recycle`), so that behaviours are infinite. `MaxRetry` 1 has a first, a last
and no retry. In `LifecycleAlone` four calls reach every pair of a
call that leaves something behind and one that meets it; identifiers of containers are
drawn again once nothing names them. In `LifecycleLive` the creation counts as one of the two
calls, and the monitor, the auto-start, the shutdown and the boot are not counted.
`Retention` begins with up to three archives and has five ticks more: five archives, against a cap of
three and ages of four and two; two writes never fall on one tick, and two ticks make the second that
a file name tells apart. A channel of one line is full as soon as it holds
anything. Every bound is a constant named in the module that uses it. Most occur only in guards of
what users, faults and the surroundings do; a step of the code that needs a fresh identifier
(execution, container, stream, channel) waits until there is one, and in `Retention` no
archive is written after the last tick.

In the modules of the panel the hazard is one answer against one change of what is shown, so two of everything suffice: two
servers, of which the first is left once; one or two calls on their way when another is made (`MaxTabCalls`, and the guards marked
"bound"); two extractions and two calls for the state of each; two attempts to reconnect where
the code has five, the first and the last. Sequences are not bounded: most pages come back to rest and go on for ever.
In `FileBrowser` the user does little beside an extraction and has no second loop of moves, and `ServerForms` shows one of its tabs per behaviour, since they share nothing.
`Upload` needs files of two pieces (a first and a rest), two sessions (the one that is resumed and a new one) and two tasks; `UploadQueue`
needs a choice with a second file while another choice begins and ends, and no more than one piece.
`TpsSamples` holds the values on both sides of each threshold of the dashboard.

**Fairness.** Of goroutines: `WF` of `ExecuteTask`, of a call's `Proceed`, of a backup's
`Proceed`, of streams, of `forwardLogs` and of the steps of a handler: Go schedules them,
and each wait in them has a timer or a timeout. Of timers: `Expire`
(`context.WithTimeout`), the tick of the scheduler and the tick of the monitor. Of
`select`: once `stopChan` is closed, `ExitLoop` is taken although ticks keep coming
(Go's choice among ready cases is random, so weak fairness of a case that stays ready is
justified). Nothing is assumed of users, of Docker, of the Minecraft server or of
faults. `LinesArrive` assumes that browsers read what they are sent.

In the panel, `WF` is on answers and timers alone: a browser's call ends with an answer or an
error, and never silently, and `setTimeout` and `setInterval` fire. It is one condition per kind of call, with all its outcomes in
it, so that nothing assumes that a call succeeds. An extraction and a stream that the server has begun come to their end.
Nothing is assumed of users. `MCServerTabs` and `MCPanelPages` repeat the conditions of the modules, for the page that is shown where the
module's own would be about calls that other pages do not make.

**Deadlock** is checked in the run of `WorldSaves`, where a backup may always begin. Everywhere else
bounded users, clocks or changes come to rest, and the configurations say so.

**Mutants.** Each property of a passing run has a mutant of the code that it
catches (`PROJECT.json`, "mutants"): a dropped check of the context, `wg.Add` inside the
goroutine, a resume with the task's context, an unsorted list, the log sent before the channel is
registered, a page that takes every answer, an empty secret sent as one, subscriptions not renewed after a
reconnection, a flag not taken back when a call fails.

## 4. The proofs

Every invariant, every action property and the refinement that a passing run checks is also a
theorem, for every set of tasks, calls, containers, files, servers, users ... and every value of
the bounds. The theorems stand in eight modules, one per model or composition.

| Module | Theorem | States |
|---|---|---|
| `SchedulerProofs` | `TypeCorrect` | `Spec => []TypeOK` |
| | `RecordsOwned` | `Spec => []RunningRecordIsOwned` |
| | `HonestOutcomes` | `Spec => []OutcomeIsHonest` |
| | `CancellableWork` | `Spec => []WorkIsCancellable` |
| | `DrainedTicker` | `Spec => []StopDrainsTicker` |
| | `FinalOutcomes` | `Spec => OutcomeIsFinal` |
| | `EditsSurviveRuns` | `Spec => RunsKeepEdits` |
| | `ImplementsLedger` | `Spec => KeepsLedger` |
| `ServerLifecycleProofs` | `TypeCorrect` | `Spec => []TypeOK` |
| | `OneCallRecordsNoError` | `Serial => (Spec => []NoErrorWithoutFault)` |
| | `OneCallTracksContainer` | `Serial => (Spec => [](faults = 0 => TracksContainer))` |
| | `DetachedIsLeftRunning` | `Spec => DetachedKeepsRunning` |
| `WorldSavesProofs` | `TypeCorrect` | `Spec => []TypeOK` |
| | `ConfirmedPauseHolds` | `Spec => []PausedStaysOff` |
| `RetentionProofs` | `TypeCorrect` | `Spec => []TypeOK` |
| | `NewestIsKept` | `Spec => NewestKept` |
| | `OptionsKeepTheirPromises` | `Spec => OptionsCombine` |
| `LogHubProofs` | `TypeCorrect` | `Spec => []TypeOK` |
| | `NothingFallsBetween` | `Spec => []NoLineIsLost` |
| `FileUploadProofs` | `UploadTypes` | `UploadSpec => []UploadTypeOK` |
| | `SavedAtMostOnce` | `UploadSpec => []SavedOnce` |
| | `SavedFilesAreWhole` | `NamesDiffer`: `UploadSpec => []SavedWhole` |
| `ServerTabsProofs` | `TabsTypeCorrect` | `TabsSpec => []TabsTypeOK` |
| | `PagesShowTheirOwn` | `TabsSpec => []ShowsItsOwn` |
| | `NothingIsLeftRunning` | `TabsSpec => []NothingLeftRunning` |
| | `FormsAreHonest` | `NoBlanks`: `TabsSpec => []FormsSendWhatTheyShow` |
| `PanelPagesProofs` | `PagesTypeCorrect` | `PanelPagesSpec => []PanelPagesTypeOK` |
| | `OneLogout` | `PanelPagesSpec => []InterceptorListens` |
| | `NothingUnaskedHappens` | `PanelPagesSpec => []NothingUnasked` |

**Assumptions.** Of constants, what the modules assume by name: bounds are numbers, "none" is no
member, what is chosen at the start is one of the set, an index by names exists, stored
configurations have the form of their type. TLC evaluates these in the runs. Four theorems need
more, and say so in their statement:

- `Serial`, that calls run one at a time, is what `LifecycleAlone` checks. With two calls the
  code breaks both properties (section 5). Both speak of states before anything has failed: `LifecycleAlone` has no faults, and
  `NoErrorWithoutFault` says so itself.
- `NamesDiffer`: the browser takes an upload up again by the name and size of its file.
  Without it two files are mixed (section 5). The run has it for its two files.
- `NoBlanks`: a stored script argument has no blank in it and is not empty, and so has a path of a backup no comma, as a user types
  them. Those that are not so do not survive the dialog (section 5).

**Scheduler.** None of the properties is inductive alone: that an outcome is honest needs to know what
was true at the control point before it was written. `Inv` therefore adds two parts to `TypeOK`,
`RunningRecordIsOwned`, `OutcomeIsHonest` and `StopDrainsTicker`. `RunOK` says what the
control point of an execution tells of its other fields: before it is tracked its context
is live and nothing was tried; while it waits, and until the next attempt, retries are left; when it is
about to choose its outcome, it succeeded, its context is done, or its retries are spent; when it is about to write
the outcome it chose, that outcome is true; while it works and
its context lives it is tracked; before it is created it has no record, and a record
that is final belongs to one that is past recording. `LoopOK` says the ticker's
goroutine lives only until `Stop` has waited for it. `TypeStep`, `RunsStep`, `LoopStep`,
`OwnedStep`, `HonestStep` and `DrainStep` show that a step keeps each part, with one
case per action. `Spawned` says once what starting executions
does (some free identifiers become runs, nothing else moves). `FinalStep` and `EditsStep` are the
action properties, under the invariant. For `ImplementsLedger`, `Moved` and `Collapsed` say what a change of
one control point, and the end of the process, do to the phases; `LedgerStep` then
maps each action to its step of the ledger: `CreateExecution` opens, `RecordOutcome` closes with an
outcome that was chosen before (this is where `RunOK` is needed: a chosen "timeout" or "cancelled" is still
the cause when it is written), failed writes forfeit or drop, `ProcessEnds` collapses, cancels
and deadlines interrupt, `DeleteTask` erases, and everything else stutters.

**Lifecycle.** `TracksContainer` speaks of the moments between calls. `Keeps` says what holds at each point
within one: which containers can exist there, as its copy of the row or the result of the
recreation names them, and whether the row names them too. `Inv` is `TypeOK`, and for serial calls
that nothing happens before the creation and after the end of the process (`Begun`) and, as long as nothing has
failed, `Healthy` (the row shows no error), `TracksContainer` and `Keeps` (`Faultless`). Each step is
one of a few transitions (`Continues`, `Ends`, `GivesUp`, `Failing`), proved once; the step's lemma says which. A crash at any
point leaves a container nobody remembers; `BootStep` shows that the cleanup removes it.
`DetachedIsLeftRunning` needs no `Serial`: only `Boot`, `Shutdown`, `StopListed` and the end of the process move
`panel` (`PanelMoves`), and each is looked at.

**Saves.** That a confirmed save-off stays in force rests on three facts: a pause belongs to this boot
of the server or an earlier one (`PausesArePast`), a run that was always alone is alone now (`AloneOK`), and no world is torn
under a run that does not archive yet (`Untorn`). `Sent` says what a command does
to these, whichever of its outcomes it has; once one is late the property says nothing more (`Punctual`).

**Retention.** No two archives of a directory were last written to at one moment, and none later than now
(`Good`); nor were two that one pruning has seen at different moments, because what is written later has a later
time than everything seen before (`Agree`, `SeenStays`, `LookAdds`). So the number of archives newer than a given one maps those a pruning
sorts one to one to `0..n-1` (`RankIsOneToOne`), and "the newest k" has k members (`NewestAreCounted`). From that follow the three promises of
the options: `CapIsHard`, `MinimumIsKept`, `DeletedForAReason`, which are lemmas about `pruneBackups` on any list.
`Undisturbed` follows a backup that meets no other: its archive is the newest, what it has seen is what is there, and what
it spares is within the cap.

**Log hub.** `NoLineIsLost` holds between the steps of a subscription and not within it: after the channel is
registered and before the log is sent, old lines are neither. `Delivered` is the same with that
browser and container left out, and is inductive with the types, in which a stream that keeps the log of
a container is of that container, and a channel is registered once and belongs to its browser. The proof shows the
order of the two steps to be enough: what the stream reads after the registration comes by the channel, what it had read
before is in the log.

**Uploads.** What is true of a session in the hands of a task: it was opened for the name of the task's
file; a stream stands behind pieces that have all been written; a session that counts as complete has
every piece and takes no more of them; a file that was moved is gone. A save knows that the session it found is complete as long
as its temporary file is there (`SavingOK`), also when another save or a cancel ends the session between its steps; and what it copies is
that session's pieces. That a piece belongs to a file *of the name* is the invariant for any files (`DiskOK`); `NamesDiffer` makes it that
file.

**Tabs of a server.** Each page has an invariant and a step lemma of its own (`FileStep`, `EditorStep`, `TaskStep`, `PageStep`,
`ConsoleStep`, `PanelStep`, `FormStep`, `TabStep`); `InvStep` puts them together for the page that is shown. The
hard ones:

- *Console.* `HubFollows` speaks of a queue that has been read to its end. The invariant (`Agrees`) speaks of the queue as it
  is: the last word in it about a server is "subscribe" exactly if the page wants that server, and if there is none, the hub follows nothing
  else and has what the page wants, refused it, or found no container. `Talk` says what can be on its way in each state of the connection.
- *Tasks.* That an edit keeps what it does not touch needs `SplitArgs(JoinArgs(a)) = a` for every list of arguments (`JoinIs`,
  `SplitIs`). `JoinArgs` is a recursive function; that its value at `n` is the text of the first `n` arguments is shown
  by a set without a least member (`NoLeastMember`), whose proof counts the members of an interval: the library's induction
  theorems take an operator as their parameter, which the provers here cannot instantiate.
  `FormAgrees` then relates the dialog to the copy it was opened on, which is kept with the form: list and row may change behind it.
- *Dashboard.* The three groups are disjoint and cover every server for *any* readings (`ThreeGroups`, `OneGroup`).
- *Files.* An extraction bar is owned by a call that starts it or by a poll that will ask again.

**Other pages.** Again one invariant per page. What is sent is what the form held when it was sent, so a property of
a call on its way is proved from one of the form, and one of the backend from one of the calls. In `AuthSession` the flag of the interceptor and its logout
are one invariant: every answer leaves both, begins both, or ends both, and no second logout is begun while there is one (`AfterListens`).

For the proofs the model was changed where it could not be reasoned about, not in what it does: `AssignPorts` counts the ports before the one it numbers instead of
folding, an empty field has a name (`Unset`), and assumptions on constants were given names.

Not proved: the liveness properties (`DueTaskAdvances`, `StopReturns`, `RunEnds`, `StatusConverges`, `AutoStarted`, `SavesComeBack`,
`LinesArrive`, `UploadEnds`, `WaitingEnds`, `PageWaitingEnds`), which rest on fairness and `ENABLED`, out of TLAPS's reach here. TLC checks them.

## 5. Disagreements

The code contradicts these sentences of its comments or of its documentation. The first has a run of
its own, whose counterexample is on purpose. For the others, and for whatever else a module states under the comment
"The code breaks this", TLC finds the counterexample when the property takes the place of the
properties in the configuration named; each was found that way.

| Property, run | Says | Does |
|---|---|---|
| `OnceRunsOnce`, `SchedulerOnce` | `scheduler/scheduler.go:440` "Once tasks don't repeat, disable after execution" | `next_run` is cleared at the end of a run, so every tick during it starts the task again |
| `DetachedIsSpared`, `LifecycleLive` | `db/models.go:92` "Detach server container from DiscoPanel lifecycle" | the shutdown reads the flag from the list it made at its beginning; a server made detached while others are being stopped is stopped too |
| `BackupIsConsistent`, `Saves` | the backup guide, "so the backup is consistent and your server keeps running" | the first of two overlapping backups turns saving on under the second |
| `CancelledSavesComeBack`, `Saves` | `scheduler/backup.go:161` "saves are re-enabled even if the task was cancelled or timed out" | a cancel while save-off is on the wire is taken for a failure of the command, and nothing is re-enabled |
| `RecentKept`, `Retention` | `scheduler/backup.go:171` "at minimum the most recent backup is always kept", and the backup guide | an archive another backup is still writing counts as the newest, and the only complete one is deleted for it |
| `StartedIsFollowed`, `ServerTabs` | `ws/hub.go:308` "The client will re-subscribe when the server status changes" | it subscribes when the tab is shown, the server is another, or the number of lines changes; the log of a server's first start does not arrive |
| `MovedWhole`, `Upload` | `rpc/services/file.go:198` "Move file from temp location to destination" | across volumes, such as the separate mounts of `docker-compose.yml:35`, it is copied, and a copy that fails leaves a part of it, in the place of what stood there |
| `StoredSecretIsKept`, `ServerTabs` | `server-tasks.svelte:503` "Preserve existing secret on edit unless user typed a new one" | after a save whose reload failed, the next edit is made of the older copy and deletes the secret stored meanwhile |

The models contain more.

*Backend.*

- *Scheduler.* A run that began before its task was made event-triggered gives it a
  `next_run` (`scheduler.go:448`), after which the clock runs it. `CancelExecution` answers
  with a record that may still say running (`task.go:566`). `UpdateTaskExecution` and
  `UpdateScheduledTask` are `Save`s: a run that ends after its task was deleted inserts its
  record again, and an edit that read the task before inserts the task again.
- *Lifecycle.* The monitor, which is there to "Update status for all servers with containers"
  (`cmd/discopanel/main.go:319`), saves the whole row it listed and undoes an edit saved meanwhile (`EditsSurvive`, `LifecycleLive`).
  `CreateServer`'s goroutine, the monitor or any other call brings a
  deleted server back the same way (`server.go:692`). `StartServer` on a row whose container is gone
  creates one, starts nothing, and records starting (`server.go:1079`). A call that read the row
  before its container was recorded makes the row forget it (`TracksContainer` is therefore
  about calls that run one at a time). `RecreateContainer` removes a container whose first health check
  is pending and does not start the new one (`client.go:598`). The shutdown leaves
  a server up that is starting or unhealthy (`main.go:389`). When the servers cannot be listed at
  boot, every container counts as an orphan (`main.go:92`; `DetachedKeepsRunning` excepts steps
  that fail).
- *Saves.* A save-off that is carried out after it was reported failed, or given up on by a
  cancel, is undone by nobody (`backup.go:145`), which is why `SavesComeBack` excepts both.
- *Retention.* The backup guide says that tasks "never prune each other's archives"; archives are matched by prefix,
  and `world` prunes `world_full` (`OthersKept`, `Retention`).
- *Log hub.* "cleanup removes all subscriptions when client disconnects" (`ws/hub.go:438`): the channel is looked up under
  the current container, and stays after a change of the configuration (`SubscriptionsRemoved`, `LogHub`).
  `broadcast` sends outside its lock, and `Unsubscribe` closes the
  channel: the send may panic, and so may `forwardLogs` after the hub has closed
  the socket (`log_streamer.go:419`, `hub.go:341`). A browser that subscribes again after a change of
  the configuration keeps the channel of the replaced container and gets nothing
  (`hub.go:322`).

*Uploads* (`Upload`). A session is remembered by name and size: two different files that have
both in common are mixed when one is resumed with the other (`SavedWhole` fails if `NameOf` gives both files one name). The file is saved to
the server that is shown when its upload ends, not to the one it was chosen for (`server-files.svelte:766`). Across volumes two tasks that found one session complete
may both save it (`MovedOnce`). When two choices run, the end of one takes the tab's controller away and with it the signal for the
other's next file, which fails (`server-files.svelte:762`, 784); its cancel button is gone before, and a cancel may hit the other's file. An upload that is cancelled
between the state and the PUT hangs: an unsent request that is aborted calls nobody back (`CancelEnds`, `chunked-upload.ts:201`).

*Tabs of a server* (`ServerTabs`).

- *Files.* The dialogs move a directory into itself, which a drop prevents (`server-files.svelte:370`; `MoveNeverIntoItself`). A menu that is open when the server
  changes stays open, and its entries act on the path of the row of the former server (`server-files.svelte:149`). Answers
  of the former server fill the tree of the new one (`RowsAreOwn`). The timer of an extraction asks without waiting for the
  last answer; one that is left over takes the flag back under the next extraction, and two are followed at once (`OnePoll`).
  The bar extracts the row of the last menu rather than the selection, also after a change of server. The timer is not cleared when the page is left.
- *Editor.* A file opened while the read of another one is on its way gets that one's text, and saving writes it there
  (`SavesItsOwnText`); what is typed while a save is on its way counts as saved with its answer (`CleanMeansSaved`).
- *Tasks.* Any save of a webhook deletes its headers, which the form does not know, and puts the preset of the address in the place of an
  empty template (`server-tasks.svelte:496`; `WholeConfigIsKept`). Arguments with blanks and paths with commas are split by an edit. The time of a task that runs once is shown in UTC and read in the zone of
  the browser, so that saving shifts it (`server-tasks.svelte:406`). The answer to a save closes whichever dialog is open by then, and a late history is
  shown under another task.
- *Console.* A command whose answer is lost with the socket disables the field for good; after a refused authentication
  the socket stays open and unauthenticated until the page is loaded again; a line may be shown twice, in the snapshot and from the buffer.
- *Pages.* While the first answer for a server is awaited its page shows the former one, and the buttons act on that.
- *Modules.* A tab may stay loading for ever and its poll may stop, because the effect that starts them is cleaned up when the
  server is replaced by a poll of the page (`TabLoads`, `PollingGoesOn`). A late template fills a form that is for another one (`MadeOfItsTemplate`), ports
  that are filled in may collide (`FilledPortsDiffer`), some templates cannot be saved as they were read (`TemplatesCanBeSaved`).
- *Settings and the rest.* A configuration, a host name or mods of the former server arrive late and are shown, saved or
  imported under the new one (`ConfigIsOwn`, `RoutingIsOwn`, `ModsAreOwn`); a failed load leaves the former configuration as it is. Settings send every field,
  and so undo what another client changed meanwhile (`OnlyEditsAreSaved`). The mods of a server chosen after a poll are not loaded (`ModsAreAsked`).
  Edits made while a configuration is saved are lost.

*Other pages* (`PanelPages`).

- *Session.* "If already authenticated, redirect to home" (`routes/login/+page.svelte:72`) is looked at once, before
  the session is known (`LoginRedirects`). A late account after a logout leaves the store authenticated without a token; a late logout,
  or a late rejection of an old call, ends the session that was begun since; a status that fails is taken for a panel without
  authentication. The list of the sidebar is never polled if the panel was opened at the login page.
  The token is read from the browser only when a page is loaded (`lib/stores/auth.ts:60`): after a logout or a login in a second tab (`OtherTab`) the
  first goes on with its old token until it is rejected, and then removes what the second has stored (`TokensAgree`).
- *Users.* What an edit left empty stays as it was (`EditTakesEffect`); lists that answer out of order stay stale (`ListIsCurrent`).
- *Roles.* The table is left as it was when its reload fails (`role-settings.svelte:149`), also that of an accepted save: the role that is opened next and saved
  untouched gets back the permissions it had before (`SaveKeepsGrants`). A save replaces everything, so what another administrator granted meanwhile is lost as well.
- *Profile.* A token may be shown that was deleted meanwhile (`ShownTokenExists`), deleted twice, because one field says which row is
  being deleted (`DeletedOnce`), or be missing in the table (`TableIsCurrent`); if the answer is lost, so is the plaintext of a token that exists.
- *New server.* Detached mode is "not available for proxied servers" (`routes/servers/new/+page.svelte:906`), but choosing the
  proxy after it does not take it back (`ProxiedNeverDetached`). "Manual Configuration" keeps the version of the modpack it
  drops, and the versions of one modpack are offered until the configuration of the next has come (`VersionOfItsPack`); the free port replaces the one the user has typed (`TypedPortStays`).

## 6. Limits

*Checked on instances only:* all liveness.

*Abstracted.* Durations: a retry delay, a deadline, a tick or an answer may come at any moment, so that
what depends on one being shorter than the other (that `Stop` waits as long as the longest
task, for instance) cannot be said. Data: what a command, a webhook, a log line, a file or
an archive contains. Failures: Docker and the database fail by refusing a call, not by
carrying it out and reporting an error, with the exception of commands to the Minecraft
server; calls of the panel fail in either way where the module says so. The orphan cleanup is one step although it stops containers one by one. Routes,
metrics and events that the server calls also touch are left to the modules planned.
The hub of `ConsoleSocket` is a simple one that answers in order, not `LogHub`; the backend of each page is the table the page
sees, not the module of that component.

*Not modelled in the modules of the panel:* texts, icons, sorting, search and filters; lists of versions, loaders and images and the
validation of host names; the editors of ports, volumes and Docker overrides; the time between `close()` and the end of a socket; the upload of a
log to mclo.gs; charts of the dashboard; that a page under which a form is open is left altogether.

*Hazards without a property.* Some entries of `PROJECT.json` carry a note instead: the code breaks what one
would ask (listed above), or the module is not written. The list leaves out some that are like others on it: a UDP session swept while it is
used (`proxy/udp.go:204`), the joins derived from a list that is at times unknown (`metrics/collector.go:583`), the free port that two
creations find (`db/store.go:643`), and the row that says creating for good
when the panel dies in `CreateServer`'s goroutine.

*Not modelled:* see the components in `PROJECT.json`. Conversions and I/O without state of
their own (Minecraft helpers, modpack indexers, downloads, support bundles), wiring
(RPC server), external protocols and libraries (OIDC, casbin), the pages of the panel that load and save one record,
and the two programs that run inside module containers.

## 7. The plan

1. `ProxyRoutes`: rows of servers and modules, the tables of the listeners, and
   the calls that update them; refinement of a table that is a function of the rows. Properties:
   a route leads where a row says, a removed server has none, two servers do not share one.
   UDP sessions, which are found, used and swept under different locks.
2. `ModuleManager`: start with dependencies, stop, recreate and hooks, over the event bus; no
   module runs before what it depends on, a start ends.
3. `PortAllocation`: find and save, against two concurrent creations; with the
   listeners' and modules' ports.
4. `Registration`: invites, the first user and the recovery key, under `AuthSession` and `UserAdmin`.
5. `LifecycleEvents`: the collector's samplings and the events derived from them; join and leave alternate.
6. `CommandSender`: RCON, its timeout and docker exec; a command that is not idempotent.
7. Compositions across the network: `ConsoleSocket` with `LogHub` (what a line goes through until it is shown), `ServerPage`
   with `ServerLifecycle`, `TaskPage` with `Scheduler`; and `Scheduler` with `WorldSaves` (a run that is
   cancelled between save-off and save-on).

Theorems to come: with each of these modules its type invariant and first safety property; for the compositions, that the
abstract hub of `ConsoleSocket` is implemented by `LogHub`; of the modules there are, what is proved here and not yet a property:
that a channel of `LogHub` is registered once, and that a stream of `FileUpload` writes from where its session counts.
