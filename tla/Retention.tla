------------------------------ MODULE Retention ------------------------------
(***************************************************************************)
(* The archives of one server's backup directory: executeBackupTask writes *)
(* <name>_<second>.zip, and pruneBackups, at the end of every backup that  *)
(* succeeded, lists the directory and deletes archives by number and age   *)
(* (internal/scheduler/backup.go, CreateZipArchive of pkg/files/files.go). *)
(* Backups of one server, and of one task, may overlap at any step.        *)
(***************************************************************************)
EXTENDS Naturals, FiniteSets

CONSTANTS
  Runs,      \* backups in flight
  Names,     \* sanitized backup names, one per task
  Extends,   \* the pairs of names <<n, m>> where m begins with n and "_"
  Retain,    \* [Names -> age at which an archive is old, 0 for never]
  MinBackups, MaxBackups,  \* [Names -> Nat]
  Second,    \* ticks of the clock in the one second a file name tells apart
  Earlier,   \* archives the directory may hold when the panel starts
  Start,     \* the moment it starts
  MaxClock,  \* bound: the ticks of the clock
  MaxFaults  \* bound: calls of the file system that fail and crashes of the panel

ASSUME NamesAssumption == Names # {} /\ Extends \subseteq Names \X Names
ASSUME OptionsAssumption == {Retain, MinBackups, MaxBackups} \subseteq [Names -> Nat]
ASSUME ClockAssumption ==
  Second \in Nat \ {0} /\ Start \in Nat /\ MaxClock \in Nat /\ Start <= MaxClock /\ MaxFaults \in Nat

VARIABLES
  files,    \* the archives in the directory
  pc,       \* how far each backup is
  target,   \* the archive it makes
  linked,   \* those that write a file which is still in the directory
  unread,   \* what a pruning has listed and not looked at
  seen,     \* the archives it has looked at, as they were then
  doomed,   \* those it has still to delete
  alone,    \* history: the backups in flight that have met no other
  clock, faults

vars == <<files, pc, target, linked, unread, seen, doomed, alone, clock, faults>>
pruning == <<unread, seen, doomed>>

\* A file is known by name and second; mod is when it was last written to,
\* finer than any two writes.  Two backups that write one file mix its content.
File == [name: Names, second: Nat, mod: Nat, content: {"part", "mixed", "whole"}]
Id   == [name: Names, second: Nat]

IdOf(f) == [name |-> f.name, second |-> f.second]
None    == [name |-> CHOOSE name \in Names : TRUE, second |-> 0]
ASSUME EarlierAssumption ==
  /\ IsFiniteSet(Earlier) /\ Earlier \subseteq File
  /\ \A f, g \in Earlier : IdOf(f) = IdOf(g) \/ f.mod = g.mod => f = g
  /\ \A f \in Earlier : f.mod < Start

InFlight == {r \in Runs : pc[r] # "idle"}

Larger(m, n) == IF m > n THEN m ELSE n

\* The archives whose name begins with prefix and "_".
Matching(prefix, all) == {f \in all : f.name = prefix \/ <<prefix, f.name>> \in Extends}

\* Mutant: the candidates are sorted oldest first.
Newer_Oldest(f, all) == {g \in all : g.mod < f.mod}

\* Those before f when the newest come first.
Newer(f, all) == {g \in all : g.mod > f.mod}

\* The sorted candidates beyond the cap.
OverCap(name, candidates) ==
  {f \in candidates : MaxBackups[name] > 0 /\ Cardinality(Newer(f, candidates)) >= MaxBackups[name]}

\* Mutant: the option for the least number is not looked at.
Expired_OneOnly(name, candidates) ==
  {f \in candidates : Retain[name] > 0
                      /\ Cardinality(Newer(f, candidates)) >= 1
                      /\ f.mod + Retain[name] < clock}

\* The sorted candidates beyond the protected ones that are old.
Expired(name, candidates) ==
  {f \in candidates : Retain[name] > 0
                      /\ Cardinality(Newer(f, candidates)) >= Larger(MinBackups[name], 1)
                      /\ f.mod + Retain[name] < clock}

ToDelete(name, candidates) == OverCap(name, candidates) \cup Expired(name, candidates)

Init ==
  /\ files \in SUBSET Earlier /\ linked = {} /\ alone = {} /\ clock = Start /\ faults = 0
  /\ pc = [r \in Runs |-> "idle"] /\ target = [r \in Runs |-> None]
  /\ unread = [r \in Runs |-> {}] /\ seen = unread /\ doomed = unread

Passes == clock < MaxClock /\ clock' = clock + 1
Goto(r, step) == pc' = [pc EXCEPT ![r] = step]
Fault == faults < MaxFaults /\ faults' = faults + 1

\* The backup is over.
Ends(r) ==
  /\ Goto(r, "idle")
  /\ target' = [target EXCEPT ![r] = None] /\ seen' = [seen EXCEPT ![r] = {}]
  /\ alone' = alone \ {r}
  /\ UNCHANGED <<unread, doomed>>

\* Time goes by.
Tick == Passes /\ UNCHANGED <<files, pc, target, linked, pruning, alone, faults>>

\* Backup r begins, beside those in flight.
Begins(r, id) ==
  /\ pc[r] = "idle" /\ Goto(r, "write")
  /\ Passes
  /\ target' = [target EXCEPT ![r] = id]
  /\ linked' = linked \cup {r}
  /\ alone' = IF InFlight = {} THEN {r} ELSE {}
  /\ UNCHANGED <<pruning, faults>>

Created(id) ==
  [name |-> id.name, second |-> id.second, mod |-> clock,
   content |-> IF \E q \in linked : target[q] = id THEN "mixed" ELSE "part"]

\* Mutant: the archive is put beside one that has its name.
CreateArchive_Twice(r, name) ==
  LET id == [name |-> name, second |-> clock \div Second] IN
  Begins(r, id) /\ files' = files \cup {Created(id)}

\* The file is created; one of the same name is truncated, whoever writes it.
CreateArchive(r, name) ==
  LET id == [name |-> name, second |-> clock \div Second] IN
  Begins(r, id) /\ files' = {f \in files : IdOf(f) # id} \cup {Created(id)}

Written(f, end) ==
  [f EXCEPT !.mod = clock, !.content = IF end /\ @ = "part" THEN "whole" ELSE @]

\* The file of r is written to, unless it was deleted; perhaps to its end.
Writes(r, end) ==
  /\ pc[r] = "write"
  /\ Passes
  /\ files' = IF r \in linked
              THEN {IF IdOf(f) = target[r] THEN Written(f, end) ELSE f : f \in files}
              ELSE files
  /\ UNCHANGED faults

\* The archive grows.
WriteMore(r) ==
  /\ Writes(r, FALSE)
  /\ UNCHANGED <<pc, target, linked, pruning, alone>>

\* The archive is complete. Without an option there is nothing to prune.
EndArchive(r) ==
  /\ Writes(r, TRUE)
  /\ linked' = linked \ {r}
  /\ IF Retain[target[r].name] = 0 /\ MaxBackups[target[r].name] = 0
     THEN Ends(r)
     ELSE Goto(r, "list") /\ UNCHANGED <<target, pruning, alone>>

\* The file of that name goes, whoever made it or writes it.
Unlink(id) ==
  /\ files' = {f \in files : IdOf(f) # id}
  /\ linked' = {q \in linked : target[q] # id}

\* An archive that cannot be made is removed, and nothing is pruned.
BackupFails(r) ==
  /\ pc[r] = "write"
  /\ files' = {f \in files : IdOf(f) # target[r]}
  /\ linked' = {q \in linked \ {r} : target[q] # target[r]}
  /\ Ends(r)
  /\ UNCHANGED <<clock, faults>>

\* pruneBackups reads the names in the directory, or cannot.
List(r) ==
  /\ pc[r] = "list"
  /\ \/ /\ unread' = [unread EXCEPT ![r] = {IdOf(f) : f \in Matching(target[r].name, files)}]
        /\ Goto(r, "look")
        /\ UNCHANGED <<target, seen, doomed, alone, faults>>
     \/ Ends(r) /\ Fault
  /\ UNCHANGED <<files, linked, clock>>

\* It looks at one of them as it is now; one that is gone is left out.
Look(r) ==
  /\ pc[r] = "look"
  /\ \E id \in unread[r] :
       /\ unread' = [unread EXCEPT ![r] = @ \ {id}]
       /\ seen' = [seen EXCEPT ![r] = @ \cup {f \in files : IdOf(f) = id}]
  /\ UNCHANGED <<files, pc, target, linked, doomed, alone, clock, faults>>

\* It sorts what it saw, and selects by number and age.
Select(r) ==
  /\ pc[r] = "look" /\ unread[r] = {}
  /\ doomed' = [doomed EXCEPT ![r] = {IdOf(f) : f \in ToDelete(target[r].name, seen[r])}]
  /\ Goto(r, "delete")
  /\ UNCHANGED <<files, target, linked, unread, seen, alone, clock, faults>>

\* It deletes the file that has the name now, if there is one, and stops at
\* none that it cannot delete.
Delete(r) ==
  /\ pc[r] = "delete"
  /\ \E id \in doomed[r] :
       /\ doomed' = [doomed EXCEPT ![r] = @ \ {id}]
       /\ \/ Unlink(id) /\ UNCHANGED faults
          \/ Fault /\ UNCHANGED <<files, linked>>
  /\ UNCHANGED <<pc, target, unread, seen, alone, clock>>

\* The backup is over when nothing is left to delete.
FinishBackup(r) ==
  /\ pc[r] = "delete" /\ doomed[r] = {}
  /\ Ends(r)
  /\ UNCHANGED <<files, linked, clock, faults>>

\* The panel dies: what was being written stays as it is.
Crash ==
  /\ InFlight # {} /\ pc' = [r \in Runs |-> "idle"]
  /\ target' = [r \in Runs |-> None] /\ linked' = {} /\ alone' = {}
  /\ unread' = [r \in Runs |-> {}] /\ seen' = unread' /\ doomed' = unread'
  /\ Fault
  /\ UNCHANGED <<files, clock>>

Next ==
  \/ Tick \/ Crash
  \/ \E r \in Runs :
       \/ \E name \in Names : CreateArchive(r, name)
       \/ WriteMore(r) \/ EndArchive(r) \/ BackupFails(r)
       \/ List(r) \/ Look(r) \/ Select(r) \/ Delete(r) \/ FinishBackup(r)

Spec == Init /\ [][Next]_vars

-----------------------------------------------------------------------------
(* Properties.                                                              *)

\* The variables keep their form, a file name is one file, and no two files
\* were last written at the same moment, so that the newest are well defined;
\* nor were two that one pruning has seen at different moments.
TypeOK ==
  /\ \A f, g \in files : IdOf(f) = IdOf(g) \/ f.mod = g.mod => f = g
  /\ \A r \in Runs : \A f, g \in seen[r] : IdOf(f) = IdOf(g) \/ f.mod = g.mod => f = g
  /\ files \subseteq File
  /\ pc \in [Runs -> {"idle", "write", "list", "look", "delete"}]
  /\ target \in [Runs -> Id]
  /\ seen \in [Runs -> SUBSET File] /\ {unread, doomed} \subseteq [Runs -> SUBSET Id]
  /\ linked \subseteq {r \in Runs : pc[r] = "write"} /\ alone \subseteq InFlight
  /\ clock \in Start..MaxClock /\ faults \in 0..MaxFaults

\* "The most recent backup is always kept", of a backup that met no other: from
\* the end of its archive to its own end the archive is there and complete, whatever
\* the options are and whatever earlier backups, failures and crashes have left.
NewestKept ==
  \A r \in alone : pc[r] # "write" => \E f \in files : IdOf(f) = target[r] /\ f.content = "whole"

\* What a pruning leaves of the archives it has seen.
Left(r) == {f \in seen[r] : IdOf(f) \notin doomed'[r]}

\* Max Backups is a hard cap, whatever the other options say.
CapHolds(name, left) == MaxBackups[name] > 0 => Cardinality(left) <= MaxBackups[name]

\* "Age-based expiry never reduces the backup count below" Min Backups: a
\* pruning that leaves fewer, and fewer than it saw, does so for the cap alone.
MinimumHolds(name, all, left) ==
  Cardinality(left) < Cardinality(all) =>
    \/ Cardinality(left) >= Larger(MinBackups[name], 1)
    \/ MaxBackups[name] > 0 /\ Cardinality(left) >= MaxBackups[name]

\* Nothing that is neither old nor beyond the cap is deleted.
YoungKept(name, all, left) ==
  \A f \in all \ left :
    \/ Retain[name] > 0 /\ f.mod + Retain[name] < clock
    \/ MaxBackups[name] > 0 /\ Cardinality(left) >= MaxBackups[name]

\* The three options keep what they promise together: every pruning, also one
\* that others write and delete under, as to the archives it has seen; one that met no
\* other, and nothing that failed, leaves the directory itself within the cap.
OptionsCombine ==
  [][\A r \in Runs :
       /\ Select(r) => /\ CapHolds(target[r].name, Left(r))
                       /\ MinimumHolds(target[r].name, seen[r], Left(r))
                       /\ YoungKept(target[r].name, seen[r], Left(r))
       /\ FinishBackup(r) /\ r \in alone /\ faults = 0 =>
            CapHolds(target[r].name, Matching(target[r].name, files))]_vars

\* The code breaks this: "always at least the most recent backup".  A pruning leaves
\* a complete archive of every task it deletes a complete one of.
RecentKept ==
  [][\A r \in Runs : Delete(r) =>
       \A f \in files \ files' : f.content = "whole" =>
         \E g \in files' : g.name = f.name /\ g.content = "whole"]_vars

\* The code breaks this (the backup guide): "Multiple backup tasks for the same server never prune each other's archives".
OthersKept ==
  [][\A r \in Runs : Delete(r) => \A f \in files \ files' : f.name = target[r].name]_vars
=============================================================================
