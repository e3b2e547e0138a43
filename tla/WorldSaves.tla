------------------------------ MODULE WorldSaves ------------------------------
(***************************************************************************)
(* How a backup task keeps a running server from writing its world while   *)
(* the world is archived: executeBackupTask and pauseWorldSaves of         *)
(* internal/scheduler/backup.go over SendCommand of internal/command.      *)
(*                                                                         *)
(* Several tasks can back one server up at a time.  A command goes over    *)
(* RCON with a timeout of one second and, if that fails, through docker    *)
(* exec; an RCON command that timed out, or whose task was cancelled, can   *)
(* still be carried out later.                                             *)
(***************************************************************************)
EXTENDS Naturals, FiniteSets

CONSTANTS
  Runs,        \* bound: backup runs in flight at one time
  FaultKinds,  \* what may happen to a command: "lost", "late"
  MaxFaults,   \* bound: how many commands meet that
  MaxBoots,    \* bound: how often the server starts
  MaxCancels,  \* bound: how many runs are cancelled or time out
  MaxCrashes   \* bound: how often the panel dies

ASSUME FaultAssumption == FaultKinds \subseteq {"lost", "late"}
ASSUME BoundAssumption == {MaxFaults, MaxBoots, MaxCancels, MaxCrashes} \subseteq Nat

VARIABLES
  up,       \* does the server run?
  boots,    \* how often it has started
  saves,    \* does the server save its world by itself?
  late,     \* [Commands -> "never", "coming" (given up on, the server may yet carry it
            \* out), or "over"]
  at,       \* [Runs -> control point of executeBackupTask]
  paused,   \* [Runs -> the boot in which save-off was confirmed, 0 if none was]
  torn,     \* [Runs -> was the world written while it was archived?]
  live,     \* [Runs -> is the task's context live?]
  alone,    \* history: [Runs -> was no other run in flight since it began?]
  faults, cancels, crashes

world  == <<up, boots, saves, torn>>
vars   == <<up, boots, saves, late, at, paused, torn, live, alone, faults, cancels, crashes>>

Points == {"idle", "saveOff", "flush", "settle", "archive", "saveOn"}

Commands == {"save-off", "save-all flush", "save-on"}

Archiving == {r \in Runs : at[r] = "archive"}

Tear == torn' = [r \in Runs |-> torn[r] \/ r \in Archiving]

Init ==
  /\ up = FALSE /\ boots = 0 /\ saves = TRUE /\ late = [command \in Commands |-> "never"]
  /\ at = [r \in Runs |-> "idle"]
  /\ paused = [r \in Runs |-> 0]
  /\ torn = [r \in Runs |-> FALSE]
  /\ live = [r \in Runs |-> TRUE] /\ alone = [r \in Runs |-> TRUE]
  /\ faults = 0 /\ cancels = 0 /\ crashes = 0

-----------------------------------------------------------------------------
(* Commands.                                                                *)

\* The server carries a command out; a flush writes the world.
Obeys(command) ==
  /\ saves' = IF command = "save-all flush" THEN saves ELSE command = "save-on"
  /\ IF command = "save-all flush" THEN Tear ELSE UNCHANGED torn

Ignores == UNCHANGED <<saves, torn>>

Fault(what) == what \in FaultKinds /\ faults < MaxFaults /\ faults' = faults + 1

\* SendCommand, and whether it reports success.  A context that is done
\* stops it before anything is sent.
SendCommand(command, open, succeeds) ==
  \/ /\ succeeds /\ open /\ up
     /\ Obeys(command)
     /\ UNCHANGED <<late, faults>>
  \/ /\ ~succeeds /\ ~(open /\ up)
     /\ Ignores
     /\ UNCHANGED <<late, faults>>
  \/ /\ ~succeeds /\ open /\ Fault("lost")
     /\ Ignores
     /\ UNCHANGED late
  \/ /\ open /\ up /\ Fault("late")
     /\ late' = [late EXCEPT ![command] = "coming"]
     /\ IF succeeds THEN Obeys(command) ELSE Ignores

\* The task is cancelled or times out while its command is on the wire: SendCommand
\* returns the error of the context, and the server may yet carry the command out.
Interrupted(r, command) ==
  /\ up /\ live[r] /\ cancels < MaxCancels
  /\ live' = [live EXCEPT ![r] = FALSE]
  /\ cancels' = cancels + 1
  /\ late' = [late EXCEPT ![command] = "coming"]
  /\ Ignores
  /\ UNCHANGED <<up, boots, alone, faults, crashes>>

\* Nobody will carry out what was given up on.
Forgets == late' = [command \in Commands |-> IF late[command] = "never" THEN "never" ELSE "over"]

\* The server carries out an RCON command nobody waits for any more.
ObeyLate ==
  \E command \in Commands :
    /\ up /\ late[command] = "coming"
    /\ Obeys(command)
    /\ late' = [late EXCEPT ![command] = "over"]
    /\ UNCHANGED <<up, boots, at, paused, live, alone, faults, cancels, crashes>>

-----------------------------------------------------------------------------
(* A backup run.                                                            *)

Goto(r, from, to) == at[r] = from /\ at' = [at EXCEPT ![r] = to]

Rest == UNCHANGED <<up, boots, live, alone, cancels, crashes>>

\* The row the task was given says running or not, and may lag behind.
ExecuteBackupTask(r) ==
  /\ \E seen \in BOOLEAN : Goto(r, "idle", IF seen THEN "saveOff" ELSE "archive")
  /\ torn' = [torn EXCEPT ![r] = FALSE]
  /\ live' = [live EXCEPT ![r] = TRUE]
  /\ alone' = [q \in Runs |-> IF at[q] # "idle" THEN FALSE
                              ELSE IF q = r THEN \A p \in Runs : at[p] = "idle" ELSE alone[q]]
  /\ UNCHANGED <<up, boots, saves, late, paused, faults, cancels, crashes>>

\* Mutant: the error of save-off is not looked at.
SaveOff_IgnoresError(r) ==
  /\ \E succeeds \in BOOLEAN : SendCommand("save-off", live[r], succeeds)
  /\ Goto(r, "saveOff", "flush")
  /\ paused' = [paused EXCEPT ![r] = boots]
  /\ Rest

\* Without a confirmation the archive is made anyway, and nothing is undone.
SaveOff(r) ==
  /\ \/ /\ SendCommand("save-off", live[r], TRUE)
        /\ Goto(r, "saveOff", "flush")
        /\ paused' = [paused EXCEPT ![r] = boots]
        /\ Rest
     \/ /\ \/ SendCommand("save-off", live[r], FALSE) /\ Rest
           \/ Interrupted(r, "save-off")
        /\ Goto(r, "saveOff", "archive")
        /\ UNCHANGED paused

Flush(r) ==
  /\ \/ SendCommand("save-all flush", live[r], TRUE) /\ Goto(r, "flush", "settle") /\ Rest
     \/ SendCommand("save-all flush", live[r], FALSE) /\ Goto(r, "flush", "archive") /\ Rest
     \/ Interrupted(r, "save-all flush") /\ Goto(r, "flush", "archive")
  /\ UNCHANGED paused

\* Three seconds, or the end of the context.
Settle(r) ==
  /\ Goto(r, "settle", "archive")
  /\ UNCHANGED <<up, boots, saves, late, paused, torn, live, alone, faults, cancels, crashes>>

\* Whether the archive was made or not, the deferred resume follows.
Archive(r) ==
  /\ Goto(r, "archive", IF paused[r] = 0 THEN "idle" ELSE "saveOn")
  /\ UNCHANGED <<up, boots, saves, late, paused, torn, live, alone, faults, cancels, crashes>>

\* Mutant: the resume uses the task's own context.
ResumeSaves_TaskContext(r) ==
  /\ \E succeeds \in BOOLEAN : SendCommand("save-on", live[r], succeeds)
  /\ Goto(r, "saveOn", "idle")
  /\ paused' = [paused EXCEPT ![r] = 0]
  /\ Rest

\* Mutant: a resume that failed is to be tried again by the next run.
ResumeSaves_Keeps(r) ==
  /\ \E succeeds \in BOOLEAN :
       /\ SendCommand("save-on", TRUE, succeeds)
       /\ paused' = [paused EXCEPT ![r] = IF succeeds THEN 0 ELSE @]
  /\ Goto(r, "saveOn", "idle")
  /\ Rest

\* The resume has a context of its own.
ResumeSaves(r) ==
  /\ \E succeeds \in BOOLEAN : SendCommand("save-on", TRUE, succeeds)
  /\ Goto(r, "saveOn", "idle")
  /\ paused' = [paused EXCEPT ![r] = 0]
  /\ Rest

-----------------------------------------------------------------------------
(* The surroundings.                                                        *)

\* The task is cancelled or times out between its commands.
Cancel(r) ==
  /\ at[r] # "idle" /\ live[r] /\ cancels < MaxCancels
  /\ live' = [live EXCEPT ![r] = FALSE]
  /\ cancels' = cancels + 1
  /\ UNCHANGED <<up, boots, saves, late, at, paused, torn, alone, faults, crashes>>

\* A server that starts saves its world; what it was told before is forgotten.
ServerStarts ==
  /\ ~up /\ up' = TRUE
  /\ boots < MaxBoots /\ boots' = boots + 1
  /\ saves' = TRUE
  /\ UNCHANGED <<late, at, paused, torn, live, alone, faults, cancels, crashes>>

ServerStops ==
  /\ up /\ up' = FALSE
  /\ Forgets
  /\ UNCHANGED <<boots, saves, at, paused, torn, live, alone, faults, cancels, crashes>>

ServerSaves ==
  /\ up /\ saves
  /\ Archiving # {} /\ Tear
  /\ UNCHANGED <<up, boots, saves, late, at, paused, live, alone, faults, cancels, crashes>>

\* The panel dies and comes back without its runs.
Crash ==
  /\ crashes < MaxCrashes /\ crashes' = crashes + 1
  /\ at' = [r \in Runs |-> "idle"]
  /\ paused' = [r \in Runs |-> 0]
  /\ Forgets
  /\ UNCHANGED <<up, boots, saves, torn, live, alone, faults, cancels>>

Proceed(r) == SaveOff(r) \/ Flush(r) \/ Settle(r) \/ Archive(r) \/ ResumeSaves(r)

Next ==
  \/ \E r \in Runs : ExecuteBackupTask(r) \/ Proceed(r) \/ Cancel(r)
  \/ ObeyLate \/ ServerStarts \/ ServerStops \/ ServerSaves \/ Crash

Spec == Init /\ [][Next]_vars

\* A run, once begun, goes on: every wait in it has a timeout.
FairSpec == Spec /\ \A r \in Runs : WF_vars(Proceed(r))

-----------------------------------------------------------------------------
(* Properties.                                                              *)

\* The variables keep their form, and only a run in flight holds a pause.
TypeOK ==
  /\ \A r \in Runs : at[r] \in {"idle", "saveOff"} => paused[r] = 0
  /\ up \in BOOLEAN /\ saves \in BOOLEAN /\ boots \in 0..MaxBoots
  /\ late \in [Commands -> {"never", "coming", "over"}]
  /\ at \in [Runs -> Points]
  /\ paused \in [Runs -> 0..MaxBoots]
  /\ torn \in [Runs -> BOOLEAN] /\ live \in [Runs -> BOOLEAN]
  /\ alone \in [Runs -> BOOLEAN]
  /\ faults \in 0..MaxFaults /\ cancels \in 0..MaxCancels /\ crashes \in 0..MaxCrashes

\* A run that had save-off confirmed archives a world nobody writes, as long as
\* it is the only one, no command comes late and the server is not restarted
\* under it, whichever commands are lost and whenever it is cancelled
\* (pauseWorldSaves).
PausedStaysOff ==
  \A r \in Runs :
    /\ alone[r] /\ paused[r] = boots /\ boots > 0
    /\ \A command \in Commands : late[command] = "never"
    => ~saves /\ (at[r] = "archive" => ~torn[r])

\* Saving comes back on: no end of a run, cancelled at any point or overlapped by
\* others, leaves it off, if no command is lost, the panel lives, and no save-off was
\* given up on that the server may carry out for nobody.
SavesComeBack ==
  ~saves ~> (saves \/ ~up \/ faults > 0 \/ crashes > 0 \/ late["save-off"] # "never")

\* The code breaks this: "saves are re-enabled even if the task was cancelled or timed out".
CancelledSavesComeBack == ~saves ~> (saves \/ ~up \/ faults > 0 \/ crashes > 0)

\* "The backup is consistent": what a run archived after a confirmed save-off
\* was not written meanwhile, unless the server was restarted.
BackupIsConsistent ==
  \A r \in Runs : at[r] = "saveOn" /\ paused[r] = boots => ~torn[r]
=============================================================================
