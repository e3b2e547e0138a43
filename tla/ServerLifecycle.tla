--------------------------- MODULE ServerLifecycle ---------------------------
(***************************************************************************)
(* The life of one game server: its row in the database, the container of  *)
(* its name in Docker, and the calls that move both: the RPCs of           *)
(* internal/rpc/services (server.go, config.go, proxy.go), the task        *)
(* executors of internal/scheduler/scheduler.go, and the start, monitor    *)
(* and shutdown of cmd/discopanel/main.go, over internal/docker/client.go. *)
(*                                                                         *)
(* Every call reads the row once, works on its own copy, and Saves the     *)
(* whole copy.  One action is one call of Docker or one statement on the   *)
(* database together with the local work up to the next one.               *)
(***************************************************************************)
EXTENDS Naturals, FiniteSets

CONSTANTS
  Containers,   \* identifiers for containers
  NoContainer,
  Calls,        \* bound: the calls that can be in flight at one time
  Kinds,        \* the kinds of call that are made
  AutoStart,    \* is the server started with the panel?
  Detached,     \* the settings with which it is detached from the panel
  FaultKinds,   \* what may fail: "docker", "db", "list", "vanish"
  MaxFaults,    \* bound: how many failures
  MaxCrashes,   \* bound: how often the panel dies without shutting down
  MaxRequests,  \* bound: how many calls users and tasks make
  MaxHealth     \* bound: how often the container's health changes by itself

AllKinds == {"create", "rename", "update", "routing", "config", "delete", "start",
             "stop", "restart", "recreate", "taskStart", "taskStop", "taskRestart",
             "monitor", "autostart"}

ASSUME KindsAssumption == Kinds \subseteq AllKinds
ASSUME FlagsAssumption == AutoStart \in BOOLEAN /\ Detached \subseteq {"old", "new"}
ASSUME NoneAssumption  == NoContainer \notin Containers
ASSUME LimitAssumption == {MaxFaults, MaxCrashes, MaxRequests, MaxHealth} \subseteq Nat

VARIABLES
  docker,    \* [Containers -> state]
  row,       \* NoRow, or what the servers table holds
  born,      \* was the server ever created?
  panel,     \* "off", "up", "leaving" once the shutdown has listed the servers, or
             \* "closing" once it has stopped containers
  listed,    \* the row as the shutdown listed it, if the server ran
  call,      \* [Calls -> NoCall, or where the call is and what it remembers]
  requests, health, crashes, faults

limits == <<requests, health, crashes, faults>>
vars   == <<docker, row, born, panel, listed, call, requests, health, crashes, faults>>

Up     == {"starting", "running", "unhealthy"}
Exists == {"created", "exited"} \cup Up

Statuses == {"creating", "stopped", "starting", "running", "unhealthy", "stopping", "error"}

\* settings stands for every column a call copies but does not mean to change.
Row == [container: Containers \cup {NoContainer}, status: Statuses,
        settings: {"old", "new"}]
NoRow == [container |-> NoContainer]

Points == {"create", "saveId", "start", "stop", "inspect", "halt", "remove", "createNew",
           "startNew", "saveNew", "edit", "erase", "observe", "save"}

\* was and made are the WasRunning and NewContainerID of RecreateContainer.
Call == [kind: AllKinds, at: Points, copy: Row, was: BOOLEAN,
         made: Containers \cup {NoContainer}]
NoCall == [at |-> "idle"]

Idle == \A a \in Calls : call[a] = NoCall

With(r, container, status) ==
  [container |-> container, status |-> status, settings |-> r.settings]

\* A container nothing has created, or that was removed, is "none".
DockerState(c) == IF c = NoContainer THEN "none" ELSE docker[c]

Existing == {c \in Containers : docker[c] \in Exists}

\* Mutant: the state is reported as it is.
StatusOf_Raw(state) == state

\* GetContainerStatus of a container that exists.
StatusOf(state) == IF state \in Up THEN state ELSE "stopped"

Fails(what) == what \in FaultKinds /\ faults < MaxFaults /\ faults' = faults + 1

Init ==
  /\ docker = [c \in Containers |-> "none"]
  /\ row = NoRow /\ born = FALSE
  /\ panel = "off" /\ listed = NoRow
  /\ call = [a \in Calls |-> NoCall]
  /\ requests = 0 /\ health = 0 /\ crashes = 0 /\ faults = 0

-----------------------------------------------------------------------------
(* A call begins.                                                           *)

\* A call enters with its copy of the row, at its first control point.
Enter(a, k, point, copy, was) ==
  /\ call[a] = NoCall
  /\ call' = [call EXCEPT ![a] = [kind |-> k, at |-> point, copy |-> copy, was |-> was,
                                  made |-> NoContainer]]

Request ==
  /\ panel # "off" /\ requests < MaxRequests
  /\ requests' = requests + 1
  /\ UNCHANGED <<docker, panel, listed, health, crashes, faults>>

\* CreateServer answers once the row is saved; the rest runs on its own.
CreateServer(a) ==
  LET new == [container |-> NoContainer, status |-> "creating", settings |-> "old"] IN
  /\ "create" \in Kinds /\ ~born
  /\ Request
  /\ row' = new /\ born' = TRUE
  /\ Enter(a, "create", "create", new, FALSE)

\* Every other RPC and task reads the row first.
Begin(k) ==
  /\ k \in Kinds /\ row # NoRow
  /\ Request
  /\ UNCHANGED <<row, born>>

HasContainer == row.container # NoContainer

Edited(settings) ==
  [container |-> row.container, status |-> row.status, settings |-> settings]

\* An edit that leaves the container as it is, or one that recreates it.
UpdateServer(a) ==
  \E k \in {"rename", "update"}, settings \in {"old", "new"} :
    /\ Begin(k)
    /\ settings # row.settings
    /\ Enter(a, k, "edit", Edited(settings), FALSE)

\* UpdateServerRouting saves only after the container was recreated.
UpdateServerRouting(a) ==
  \E settings \in {"old", "new"}, recreates \in BOOLEAN :
    /\ Begin("routing")
    /\ settings # row.settings
    /\ Enter(a, "routing", IF recreates /\ HasContainer THEN "inspect" ELSE "save",
             Edited(settings), FALSE)

\* recreateContainer of config.go trusts the status of the row.
UpdateServerConfig(a) ==
  /\ Begin("config")
  /\ HasContainer
  /\ Enter(a, "config", IF row.status = "running" THEN "halt" ELSE "remove", row,
           row.status = "running")

DeleteServer(a) ==
  /\ Begin("delete")
  /\ Enter(a, "delete", IF HasContainer THEN "stop" ELSE "erase", row, FALSE)

StartServer(a) ==
  /\ Begin("start")
  /\ Enter(a, "start", IF HasContainer THEN "start" ELSE "create", row, FALSE)

StopServer(a) ==
  /\ Begin("stop")
  /\ IF HasContainer
     THEN Enter(a, "stop", "stop", row, FALSE)
     ELSE Enter(a, "stop", "save", With(row, NoContainer, "stopped"), FALSE)

RestartServer(a) ==
  /\ Begin("restart")
  /\ Enter(a, "restart", IF HasContainer THEN "stop" ELSE "create", row, FALSE)

RecreateServer(a) ==
  /\ Begin("recreate")
  /\ Enter(a, "recreate", "inspect", row, FALSE)

\* executeStartTask, executeStopTask and executeRestartTask.
ExecuteTask(a) ==
  \E k \in {"taskStart", "taskStop", "taskRestart"} :
    /\ Begin(k)
    /\ HasContainer
    /\ Enter(a, k, IF k = "taskStart" THEN "start" ELSE "stop", row, FALSE)

\* The one status monitor lists the servers.
MonitorTick(a) ==
  /\ panel # "off" /\ "monitor" \in Kinds
  /\ row # NoRow /\ HasContainer
  /\ \A b \in Calls : call[b] # NoCall => call[b].kind # "monitor"
  /\ Enter(a, "monitor", "observe", row, FALSE)
  /\ UNCHANGED <<docker, row, born, panel, listed, limits>>

-----------------------------------------------------------------------------
(* The steps of a call.                                                      *)

Is(a, kinds, point) == call[a].at = point /\ call[a].kind \in kinds

\* The call goes on with this copy, with its own, or returns.
GoesWith(a, to, copy) ==
  call' = [call EXCEPT ![a] = [kind |-> call[a].kind, at |-> to, copy |-> copy,
                               was |-> call[a].was, made |-> call[a].made]]
Goes(a, to) == GoesWith(a, to, call[a].copy)
Returns(a)  == call' = [call EXCEPT ![a] = NoCall]

Copy(a, container, status) == With(call[a].copy, container, status)
Of(a) == call[a].copy.container

Local == UNCHANGED <<born, panel, listed, requests, health, crashes>>

\* An identifier nothing names any more stands for one Docker never issued.
Named == {row.container} \cup UNION {{Of(a), call[a].made} : a \in {b \in Calls : call[b] # NoCall}}
Free  == {c \in Containers : docker[c] = "none" /\ c \notin Named}
Fresh == CHOOSE c \in Free : TRUE

\* Names are unique: Docker refuses a second container for the server.
Issue ==
  /\ Existing = {} /\ Free # {}
  /\ docker' = [docker EXCEPT ![Fresh] = "created"]

IssueRefused ==
  /\ UNCHANGED docker
  /\ \/ Existing # {} /\ UNCHANGED faults
     \/ Fails("docker")

CreateContainer(a) ==
  /\ call[a].at = "create"
  /\ Issue
  /\ GoesWith(a, "saveId", Copy(a, Fresh, call[a].copy.status))
  /\ Local /\ UNCHANGED <<row, faults>>

\* Only CreateServer records the failure.
CreateContainerFails(a) ==
  /\ call[a].at = "create"
  /\ IssueRefused
  /\ IF call[a].kind = "create" THEN GoesWith(a, "save", Copy(a, NoContainer, "error"))
                                ELSE Returns(a)
  /\ Local /\ UNCHANGED row

\* The new container is recorded before it is started.  CreateServer may
\* have been asked not to start it.
SaveContainer(a) ==
  /\ call[a].at = "saveId"
  /\ row' = call[a].copy
  /\ \/ Goes(a, "start")
     \/ call[a].kind = "create" /\ GoesWith(a, "save", Copy(a, Of(a), "stopped"))
  /\ Local /\ UNCHANGED <<docker, faults>>

\* ContainerStart: a container that is up stays as it is.
Started(c) ==
  /\ DockerState(c) \in Exists
  /\ docker' = IF docker[c] \in Up THEN docker ELSE [docker EXCEPT ![c] = "starting"]

StartRefused(c) ==
  /\ UNCHANGED docker
  /\ \/ DockerState(c) \notin Exists /\ UNCHANGED faults
     \/ Fails("docker")

StartContainer(a) ==
  /\ call[a].at = "start"
  /\ Started(Of(a))
  /\ GoesWith(a, "save",
              Copy(a, Of(a), IF call[a].kind = "autostart" THEN "running" ELSE "starting"))
  /\ Local /\ UNCHANGED <<row, faults>>

\* StartServer goes on to recreate, CreateServer records, the others give up.
StartContainerFails(a) ==
  /\ call[a].at = "start"
  /\ StartRefused(Of(a))
  /\ \/ Is(a, {"start"}, "start") /\ Goes(a, "inspect")
     \/ Is(a, {"create"}, "start") /\ GoesWith(a, "save", Copy(a, Of(a), "error"))
     \/ Is(a, AllKinds \ {"start", "create"}, "start") /\ Returns(a)
  /\ Local /\ UNCHANGED row

\* ContainerStop: what is not up stays as it is.
Stopped(c) ==
  docker' = IF DockerState(c) \in Up THEN [docker EXCEPT ![c] = "exited"] ELSE docker

StopContainer(a) ==
  LET found == DockerState(Of(a)) \in Exists IN
  /\ call[a].at = "stop"
  /\ Stopped(Of(a))
  /\ \/ found /\ Is(a, {"stop", "taskStop"}, "stop")
        /\ GoesWith(a, "save", Copy(a, Of(a), "stopping"))
     \/ ~found /\ Is(a, {"stop", "taskStop", "taskRestart"}, "stop")
        /\ GoesWith(a, "save", Copy(a, NoContainer, "stopped"))
     \/ found /\ Is(a, {"taskRestart"}, "stop") /\ Goes(a, "start")
     \/ Is(a, {"restart"}, "stop") /\ Goes(a, "start")
     \/ Is(a, {"delete"}, "stop") /\ Goes(a, "remove")
  /\ Local /\ UNCHANGED <<row, faults>>

\* DeleteServer logs the failure and goes on.
StopContainerFails(a) ==
  /\ call[a].at = "stop"
  /\ Fails("docker")
  /\ IF call[a].kind = "delete" THEN Goes(a, "remove") ELSE Returns(a)
  /\ Local /\ UNCHANGED <<docker, row>>

-----------------------------------------------------------------------------
(* RecreateContainer, and what its callers make of the result; the          *)
(* container of UpdateServerConfig takes the same path with its own ends.   *)

Remembers(a, to, was, made) ==
  call' = [call EXCEPT ![a] = [kind |-> call[a].kind, at |-> to, copy |-> call[a].copy,
                               was |-> was, made |-> made]]

\* Only a container seen running is stopped first and started again.
InspectOld(a) ==
  LET runs == DockerState(Of(a)) \in {"running", "unhealthy"} IN
  /\ call[a].at = "inspect"
  /\ Remembers(a, IF Of(a) = NoContainer THEN "createNew" ELSE IF runs THEN "halt" ELSE "remove",
               runs, NoContainer)
  /\ Local /\ UNCHANGED <<docker, row, faults>>

InspectOldFails(a) ==
  /\ call[a].at = "inspect" /\ Of(a) # NoContainer
  /\ Fails("docker")
  /\ Goes(a, "remove")
  /\ Local /\ UNCHANGED <<docker, row>>

\* The result as its callers record it: a container (or none), and success.
Recreated(a, container, ok) ==
  \/ /\ call[a].kind \in {"update", "routing", "start"}
     /\ GoesWith(a, IF call[a].kind = "start" THEN "saveNew" ELSE "save",
                 Copy(a, container, IF ~ok THEN "error"
                                    ELSE IF call[a].was THEN "running" ELSE "stopped"))
  \/ /\ call[a].kind = "recreate"
     /\ GoesWith(a, "save", IF ok THEN Copy(a, container, "starting")
                                  ELSE Copy(a, Of(a), "error"))

HaltOld(a) ==
  /\ call[a].at = "halt"
  /\ Stopped(Of(a))
  /\ Goes(a, "remove")
  /\ Local /\ UNCHANGED <<row, faults>>

HaltOldFails(a) ==
  /\ call[a].at = "halt"
  /\ Fails("docker")
  /\ IF call[a].kind = "config" THEN Returns(a) ELSE Recreated(a, NoContainer, FALSE)
  /\ Local /\ UNCHANGED <<docker, row>>

Discarded(c) == docker' = IF docker[c] \in Exists THEN [docker EXCEPT ![c] = "none"] ELSE docker

\* Mutant: the old container is left where it is when it does not run.
RemoveOld_RunningOnly(a) ==
  /\ call[a].at = "remove"
  /\ IF call[a].was \/ call[a].kind = "delete" THEN Discarded(Of(a)) ELSE UNCHANGED docker
  /\ Goes(a, IF call[a].kind = "delete" THEN "erase" ELSE "createNew")
  /\ Local /\ UNCHANGED <<row, faults>>

\* Only UpdateServerConfig minds that the container is gone already.
RemoveOld(a) ==
  /\ call[a].at = "remove"
  /\ call[a].kind = "config" => docker[Of(a)] \in Exists
  /\ Discarded(Of(a))
  /\ Goes(a, IF call[a].kind = "delete" THEN "erase" ELSE "createNew")
  /\ Local /\ UNCHANGED <<row, faults>>

RemoveOldFails(a) ==
  /\ call[a].at = "remove"
  /\ \/ call[a].kind = "config" /\ docker[Of(a)] \notin Exists /\ UNCHANGED faults
     \/ Fails("docker")
  /\ IF call[a].kind = "config" THEN Returns(a)
     ELSE Goes(a, IF call[a].kind = "delete" THEN "erase" ELSE "createNew")
  /\ Local /\ UNCHANGED <<docker, row>>

CreateNew(a) ==
  /\ call[a].at = "createNew"
  /\ Issue
  /\ \/ call[a].kind = "config" /\ GoesWith(a, "saveNew", Copy(a, Fresh, call[a].copy.status))
     \/ call[a].kind # "config" /\ call[a].was /\ Remembers(a, "startNew", TRUE, Fresh)
     \/ ~call[a].was /\ Recreated(a, Fresh, TRUE)
  /\ Local /\ UNCHANGED <<row, faults>>

CreateNewFails(a) ==
  /\ call[a].at = "createNew"
  /\ IssueRefused
  /\ IF call[a].kind = "config" THEN Returns(a) ELSE Recreated(a, NoContainer, FALSE)
  /\ Local /\ UNCHANGED row

StartNew(a) ==
  /\ call[a].at = "startNew"
  /\ Started(call[a].made)
  /\ Recreated(a, call[a].made, TRUE)
  /\ Local /\ UNCHANGED <<row, faults>>

StartNewFails(a) ==
  /\ call[a].at = "startNew"
  /\ StartRefused(call[a].made)
  /\ Recreated(a, call[a].made, FALSE)
  /\ Local /\ UNCHANGED row

\* StartServer saves the result and then sets "starting" over it.
SaveRecreated(a) ==
  /\ call[a].at = "saveNew"
  /\ row' = call[a].copy
  /\ \/ call[a].kind = "start" /\ GoesWith(a, "save", Copy(a, Of(a), "starting"))
     \/ call[a].kind = "config" /\ IF call[a].was THEN Goes(a, "start") ELSE Returns(a)
  /\ Local /\ UNCHANGED <<docker, faults>>

-----------------------------------------------------------------------------
(* The statements on the database.                                          *)

\* UpdateServer saves the edit before it recreates.
SaveEdit(a) ==
  /\ call[a].at = "edit"
  /\ row' = call[a].copy
  /\ IF call[a].kind = "update" THEN Goes(a, "inspect") ELSE Returns(a)
  /\ Local /\ UNCHANGED <<docker, faults>>

\* Save inserts the row when it is gone.
SaveServer(a) ==
  /\ call[a].at = "save"
  /\ row' = call[a].copy
  /\ Returns(a)
  /\ Local /\ UNCHANGED <<docker, faults>>

EraseServer(a) ==
  /\ call[a].at = "erase"
  /\ row' = NoRow
  /\ Returns(a)
  /\ Local /\ UNCHANGED <<docker, faults>>

\* A save fails, or the read of the configuration before Docker is called.
StatementFails(a) ==
  /\ Fails("db")
  /\ \/ call[a].at \in {"saveId", "saveNew", "edit", "save", "erase", "inspect"}
     \/ Is(a, {"start", "restart"}, "create")
     \/ Is(a, {"autostart"}, "observe")
  /\ Returns(a)
  /\ Local /\ UNCHANGED <<docker, row>>

-----------------------------------------------------------------------------
(* The background of main.go: monitor, start and end of the panel.          *)

\* Mutant: the monitor skips servers whose status says they are busy.
Observe_SkipsBusy(a) ==
  LET state == DockerState(Of(a)) IN
  /\ Is(a, {"monitor"}, "observe")
  /\ IF state \in Exists /\ StatusOf(state) # call[a].copy.status
        /\ call[a].copy.status \notin {"starting", "stopping"}
     THEN GoesWith(a, "save", Copy(a, Of(a), StatusOf(state))) ELSE Returns(a)
  /\ Local /\ UNCHANGED <<docker, row, faults>>

\* The monitor compares the status it listed with the container's.
Observe(a) ==
  LET state == DockerState(Of(a)) IN
  /\ Is(a, {"monitor"}, "observe")
  /\ IF state \in Exists /\ StatusOf(state) # call[a].copy.status
     THEN GoesWith(a, "save", Copy(a, Of(a), StatusOf(state))) ELSE Returns(a)
  /\ Local /\ UNCHANGED <<docker, row, faults>>

\* Mutant: only a container that has run before is started.
ObserveAutoStart_ExitedOnly(a) ==
  LET state == DockerState(Of(a)) IN
  /\ Is(a, {"autostart"}, "observe")
  /\ IF state = "exited" THEN Goes(a, "start")
     ELSE IF state \in Exists THEN GoesWith(a, "save", Copy(a, Of(a), "running"))
     ELSE Returns(a)
  /\ Local /\ UNCHANGED <<docker, row, faults>>

\* An auto-started server is started if it is stopped, and saved as running.
ObserveAutoStart(a) ==
  LET state == DockerState(Of(a)) IN
  /\ Is(a, {"autostart"}, "observe")
  /\ IF state \in {"created", "exited"} THEN Goes(a, "start")
     ELSE IF state \in Up THEN GoesWith(a, "save", Copy(a, Of(a), "running"))
     ELSE Returns(a)
  /\ Local /\ UNCHANGED <<docker, row, faults>>

ObserveFails(a) ==
  /\ call[a].at = "observe"
  /\ Fails("docker")
  /\ Returns(a)
  /\ Local /\ UNCHANGED <<docker, row>>

Tracked == IF row = NoRow THEN {} ELSE {row.container}

\* CleanupOrphanedContainers.
CleanUp(tracked) ==
  docker' = [c \in Containers |-> IF c \in Existing \ tracked THEN "none" ELSE docker[c]]

\* The servers to start are listed when the panel is up.
AutoStarts ==
  IF row # NoRow /\ AutoStart /\ row.settings \notin Detached
  THEN \E a \in Calls : Enter(a, "autostart", "observe", row, FALSE)
  ELSE UNCHANGED call

\* Mutant: the panel starts without looking for orphans.
Boot_NoCleanup ==
  /\ panel = "off" /\ panel' = "up"
  /\ UNCHANGED <<docker, faults>>
  /\ AutoStarts
  /\ UNCHANGED <<row, born, listed, requests, health, crashes>>

\* A list of servers that cannot be read counts as an empty one.
Boot ==
  /\ panel = "off" /\ panel' = "up"
  /\ \/ CleanUp(Tracked) /\ UNCHANGED faults
     \/ Fails("list") /\ CleanUp({})
     \/ Fails("docker") /\ UNCHANGED docker
  /\ AutoStarts
  /\ UNCHANGED <<row, born, listed, requests, health, crashes>>

\* The shutdown lists the servers once, and minds those that run.  Calls are served
\* until it has gone through them.
Shutdown ==
  /\ panel = "up" /\ panel' = "leaving"
  /\ \/ listed' = (IF row # NoRow /\ row.status = "running" THEN row ELSE NoRow) /\ UNCHANGED faults
     \/ Fails("list") /\ listed' = NoRow
  /\ UNCHANGED <<docker, row, born, call, requests, health, crashes>>

\* Mutant: the flag is not looked at.
StopListed_Detached ==
  /\ panel = "leaving" /\ panel' = "closing"
  /\ IF listed # NoRow THEN Stopped(listed.container) ELSE UNCHANGED docker
  /\ listed' = NoRow
  /\ UNCHANGED <<row, born, call, limits>>

\* It stops the container of such a server, unless it was listed as detached.
StopListed ==
  /\ panel = "leaving" /\ panel' = "closing"
  /\ \/ /\ IF listed # NoRow /\ listed.settings \notin Detached
           THEN Stopped(listed.container) ELSE UNCHANGED docker
        /\ UNCHANGED faults
     \/ Fails("docker") /\ UNCHANGED docker
  /\ listed' = NoRow
  /\ UNCHANGED <<row, born, call, requests, health, crashes>>

\* Calls in flight die with the process.
ProcessEnds ==
  /\ panel' = "off" /\ listed' = NoRow
  /\ call' = [a \in Calls |-> NoCall]
  /\ UNCHANGED <<docker, row, born, requests, health, faults>>

Exit  == panel = "closing" /\ ProcessEnds /\ UNCHANGED crashes
Crash == panel # "off" /\ crashes < MaxCrashes /\ crashes' = crashes + 1 /\ ProcessEnds

\* What Docker does by itself: health checks, and a restart after a crash.
HealthChanges(c) ==
  /\ docker[c] \in Up /\ health < MaxHealth
  /\ health' = health + 1
  /\ \E state \in Up \ {docker[c]} : docker' = [docker EXCEPT ![c] = state]
  /\ UNCHANGED <<row, born, panel, listed, call, requests, crashes, faults>>

\* Somebody removes the container by hand.
Vanish(c) ==
  /\ docker[c] \in Exists /\ Fails("vanish")
  /\ docker' = [docker EXCEPT ![c] = "none"]
  /\ UNCHANGED <<row, born, panel, listed, call, requests, health, crashes>>

-----------------------------------------------------------------------------
Proceed(a) ==
  \/ CreateContainer(a) \/ CreateContainerFails(a) \/ SaveContainer(a)
  \/ StartContainer(a) \/ StartContainerFails(a)
  \/ StopContainer(a) \/ StopContainerFails(a)
  \/ InspectOld(a) \/ InspectOldFails(a) \/ HaltOld(a) \/ HaltOldFails(a)
  \/ RemoveOld(a) \/ RemoveOldFails(a) \/ CreateNew(a) \/ CreateNewFails(a)
  \/ StartNew(a) \/ StartNewFails(a) \/ SaveRecreated(a)
  \/ SaveEdit(a) \/ SaveServer(a) \/ EraseServer(a) \/ StatementFails(a)
  \/ Observe(a) \/ ObserveAutoStart(a) \/ ObserveFails(a)

Receive(a) ==
  \/ CreateServer(a) \/ UpdateServer(a) \/ UpdateServerRouting(a) \/ UpdateServerConfig(a)
  \/ DeleteServer(a) \/ StartServer(a) \/ StopServer(a) \/ RestartServer(a)
  \/ RecreateServer(a) \/ ExecuteTask(a)

Next ==
  \/ Boot \/ Shutdown \/ StopListed \/ Exit \/ Crash
  \/ \E a \in Calls : Receive(a) \/ MonitorTick(a) \/ Proceed(a)
  \/ \E c \in Containers : HealthChanges(c) \/ Vanish(c)

Spec == Init /\ [][Next]_vars

\* Calls that have begun go on, and the monitor's ticker fires.
FairSpec == Spec /\ WF_vars(\E a \in Calls : MonitorTick(a))
                 /\ \A a \in Calls : WF_vars(Proceed(a))

-----------------------------------------------------------------------------
(* Properties.                                                              *)

\* The row, the containers and the calls keep their form.
TypeOK ==
  /\ docker \in [Containers -> {"none"} \cup Exists]
  /\ row \in Row \cup {NoRow} /\ born \in BOOLEAN
  /\ panel \in {"off", "up", "leaving", "closing"}
  /\ listed \in Row \cup {NoRow}
  /\ call \in [Calls -> Call \cup {NoCall}]
  /\ requests \in 0..MaxRequests /\ health \in 0..MaxHealth
  /\ crashes \in 0..MaxCrashes /\ faults \in 0..MaxFaults

\* Between calls, a panel that is up knows every container it made: crashes in
\* the middle of a call leave none behind that the next start does not remove
\* (CleanupOrphanedContainers), and no recreation leaves the old one.
TracksContainer == panel # "off" /\ Idle => Existing \subseteq Tracked

\* Calls that run one at a time and meet no failure never record an error,
\* whatever a crash left behind.
NoErrorWithoutFault == row # NoRow /\ faults = 0 => row.status # "error"

\* What the panel goes by: the row as its shutdown listed it, or the row itself.
Told == IF panel = "leaving" THEN listed ELSE row

\* The panel's own comings and goings leave the container of a server up that is
\* detached as far as they were told, also when it is no longer or has just become so:
\* its shutdown, its end, and its start, which removes orphans, if it can list the servers.
DetachedKeepsRunning ==
  [][panel' # panel /\ Told # NoRow /\ Told.settings \in Detached /\ faults' = faults =>
       \A c \in Containers : Told.container = c /\ docker[c] \in Up => docker'[c] \in Up]_vars

\* The status a user sees settles on what the container does, whatever calls
\* and the monitor overwrote in between.
StatusConverges ==
  []<>(\/ panel = "off" \/ row = NoRow
       \/ DockerState(row.container) \notin Exists
       \/ row.status = StatusOf(docker[row.container]))

\* A server listed for auto-start comes up, unless its container is gone, a
\* failure intervenes or the panel ends.
AutoStarted ==
  (/\ faults = 0
   /\ \E a \in Calls : Is(a, {"autostart"}, "observe") /\ DockerState(Of(a)) \in Exists)
    ~> (\/ \E c \in Containers : docker[c] \in Up
        \/ Existing = {} \/ faults > 0 \/ panel = "off")

\* The code breaks this: only an edit changes the settings of a server; main.go's monitor is there to
\* "Update status for all servers with containers".
EditsSurvive ==
  [][row # NoRow /\ row' # NoRow /\ row'.settings # row.settings =>
       \E a \in Calls : call[a] # NoCall /\ call'[a] # call[a]
                        /\ call[a].kind \in {"rename", "update", "routing"}]_vars

\* The code breaks this: the shutdown spares a server that is detached when its turn
\* comes; models.go calls the flag "Detach server container from DiscoPanel lifecycle".
DetachedIsSpared ==
  [][panel' # panel /\ row # NoRow /\ row.settings \in Detached =>
       \A c \in Containers : row.container = c /\ docker[c] \in Up => docker'[c] \in Up]_vars
=============================================================================
