--------------------------- MODULE WorldSavesProofs ---------------------------
(***************************************************************************)
(* Theorems about WorldSaves for every set of runs and every value of the  *)
(* bounds.                                                                 *)
(*                                                                         *)
(* That a confirmed save-off stays in force is not inductive alone.  It    *)
(* rests on three facts: a pause belongs to this boot or an earlier one    *)
(* (PausesArePast), a run that was always alone is alone now (AloneOK),    *)
(* and the world is torn under no run that does not archive yet (Untorn).  *)
(***************************************************************************)
EXTENDS WorldSaves, TLAPS

PausesArePast == \A r \in Runs : paused[r] <= boots

AloneOK == \A r \in Runs : alone[r] /\ at[r] # "idle" => \A q \in Runs \ {r} : at[q] = "idle"

Untorn == \A r \in Runs : at[r] \in {"saveOff", "flush", "settle"} => ~torn[r]

Inv == TypeOK /\ PausesArePast /\ AloneOK /\ Untorn /\ PausedStaysOff

-----------------------------------------------------------------------------
\* The bounds are numbers, one by one.
LEMMA Bounds == MaxFaults \in Nat /\ MaxBoots \in Nat /\ MaxCancels \in Nat /\ MaxCrashes \in Nat
  BY BoundAssumption

USE Bounds

\* The initial states satisfy the invariant.
LEMMA InitInv == Init => Inv
<1> SUFFICES ASSUME Init PROVE Inv
  OBVIOUS
<1>1. TypeOK
  <2>1. late \in [Commands -> {"never", "coming", "over"}] /\ at \in [Runs -> Points]
    BY DEF Init, Points
  <2>2. torn \in [Runs -> BOOLEAN] /\ live \in [Runs -> BOOLEAN] /\ alone \in [Runs -> BOOLEAN]
    BY DEF Init
  <2>3. up \in BOOLEAN /\ saves \in BOOLEAN
    BY DEF Init
  <2>4. paused \in [Runs -> 0..MaxBoots] /\ \A r \in Runs : paused[r] = 0
    BY DEF Init
  <2>5. boots \in 0..MaxBoots /\ faults \in 0..MaxFaults /\ cancels \in 0..MaxCancels
        /\ crashes \in 0..MaxCrashes
    BY DEF Init
  <2> QED
    BY <2>1, <2>2, <2>3, <2>4, <2>5 DEF TypeOK
<1>2. PausesArePast /\ AloneOK /\ Untorn
  BY DEF Init, PausesArePast, AloneOK, Untorn
<1>3. PausedStaysOff
  BY DEF Init, PausedStaysOff
<1> QED
  BY <1>1, <1>2, <1>3 DEF Inv

-----------------------------------------------------------------------------
(* Commands.                                                                *)

\* No command has come late.
Punctual == \A command \in Commands : late[command] = "never"

\* A command leaves the variables typed.  If all commands so far were carried
\* out when they were sent, the server ignored this one or carried it out;
\* the world is torn only under runs that archive, and only by a flush.
LEMMA Sent ==
  ASSUME TypeOK, NEW command \in Commands, NEW open, NEW succeeds \in BOOLEAN,
         SendCommand(command, open, succeeds)
  PROVE  /\ saves' \in BOOLEAN /\ torn' \in [Runs -> BOOLEAN]
         /\ late' \in [Commands -> {"never", "coming", "over"}] /\ faults' \in 0..MaxFaults
         /\ Punctual' => Punctual
         /\ Punctual' => \/ ~succeeds /\ saves' = saves
                         \/ /\ succeeds
                            /\ saves' = IF command = "save-all flush" THEN saves
                                        ELSE command = "save-on"
         /\ \A r \in Runs : at[r] # "archive" \/ command # "save-all flush" => torn'[r] = torn[r]
<1>1. CASE /\ succeeds /\ open /\ up
           /\ Obeys(command)
           /\ UNCHANGED <<late, faults>>
  BY <1>1 DEF TypeOK, Obeys, Tear, Archiving, Punctual
<1>2. CASE Ignores /\ UNCHANGED late /\ ~succeeds /\ (UNCHANGED faults \/ Fault("lost"))
  <2>1. saves' = saves /\ torn' = torn /\ late' = late
    BY <1>2 DEF Ignores
  <2>2. faults' \in 0..MaxFaults
    BY <1>2 DEF TypeOK, Fault
  <2> QED
    BY <1>2, <2>1, <2>2 DEF TypeOK, Punctual
<1>3. CASE /\ open /\ up /\ Fault("late")
           /\ late' = [late EXCEPT ![command] = "coming"]
           /\ IF succeeds THEN Obeys(command) ELSE Ignores
  <2>1. ~Punctual' /\ late' \in [Commands -> {"never", "coming", "over"}]
    BY <1>3 DEF TypeOK, Punctual
  <2>2. faults' \in 0..MaxFaults
    BY <1>3 DEF TypeOK, Fault
  <2>3. CASE succeeds
    BY <1>3, <2>1, <2>2, <2>3 DEF TypeOK, Obeys, Tear, Archiving
  <2>4. CASE ~succeeds
    BY <1>3, <2>1, <2>2, <2>4 DEF TypeOK, Ignores
  <2> QED
    BY <2>3, <2>4
<1> QED
  BY <1>1, <1>2, <1>3 DEF SendCommand

\* Nor does an interrupted command disturb anything but the context, before it comes.
LEMMA Abandoned ==
  ASSUME Inv, NEW r \in Runs, NEW command \in Commands, Interrupted(r, command),
         at[r] \notin {"archive", "idle"}, Goto(r, at[r], "archive"), UNCHANGED paused
  PROVE  Inv'
<1> USE DEF Inv, Interrupted
<1>1. /\ late' \in [Commands -> {"never", "coming", "over"}]
      /\ late'[command] = "coming"
  BY DEF TypeOK
<1>2. live' \in [Runs -> BOOLEAN] /\ cancels' \in 0..MaxCancels
  BY DEF TypeOK
<1>3. UNCHANGED <<up, boots, saves, torn, alone, paused, faults, crashes>>
  BY DEF Ignores
<1>4. /\ at' \in [Runs -> Points] /\ at'[r] = "archive"
      /\ \A q \in Runs \ {r} : at'[q] = at[q]
  BY DEF TypeOK, Goto, Points
<1>5. TypeOK'
  BY <1>1, <1>2, <1>3, <1>4 DEF TypeOK
<1>6. PausesArePast' /\ Untorn'
  BY <1>3, <1>4 DEF PausesArePast, Untorn
<1>7. AloneOK'
  BY <1>3, <1>4 DEF AloneOK
<1>8. PausedStaysOff'
  BY <1>1 DEF PausedStaysOff
<1> QED
  BY <1>5, <1>6, <1>7, <1>8

\* What is forgotten does not count as punctual again.
LEMMA Forgotten ==
  ASSUME TypeOK, Forgets
  PROVE  /\ late' \in [Commands -> {"never", "coming", "over"}]
         /\ Punctual' => Punctual
  BY DEF TypeOK, Forgets, Punctual

-----------------------------------------------------------------------------
(* The steps of a run.                                                      *)

\* What PausedStaysOff says of one run.
Stays(r) ==
  (alone[r] /\ paused[r] = boots /\ boots > 0 /\ Punctual)
    => ~saves /\ (at[r] = "archive" => ~torn[r])

LEMMA StaysOff == PausedStaysOff <=> \A r \in Runs : Stays(r)
  BY DEF PausedStaysOff, Stays, Punctual

\* A run begins: it is alone if nobody else is in flight, and those that are
\* in flight are alone no more.
LEMMA BeginStep == ASSUME Inv, NEW r \in Runs, ExecuteBackupTask(r) PROVE Inv'
<1> USE DEF Inv, ExecuteBackupTask
<1>1. at' \in [Runs -> Points] /\ \A q \in Runs \ {r} : at'[q] = at[q]
  BY DEF TypeOK, Goto, Points
<1>2. at[r] = "idle" /\ paused[r] = 0 /\ at'[r] \in {"saveOff", "archive"}
  BY DEF TypeOK, Goto
<1>3. torn' \in [Runs -> BOOLEAN] /\ ~torn'[r] /\ \A q \in Runs \ {r} : torn'[q] = torn[q]
  BY DEF TypeOK
<1>4. live' \in [Runs -> BOOLEAN] /\ alone' \in [Runs -> BOOLEAN]
  BY DEF TypeOK
<1>5. TypeOK'
  BY <1>1, <1>2, <1>3, <1>4 DEF TypeOK
<1>6. PausesArePast' /\ Untorn'
  BY <1>1, <1>2, <1>3 DEF PausesArePast, Untorn, TypeOK
<1>7. AloneOK'
  <2> SUFFICES ASSUME NEW p \in Runs, alone'[p], at'[p] # "idle", NEW q \in Runs \ {p}
               PROVE  at'[q] = "idle"
    BY DEF AloneOK
  <2>1. p = r /\ \A o \in Runs : at[o] = "idle"
    BY <1>1, <1>2 DEF TypeOK
  <2> QED
    BY <2>1, <1>1
<1>8. PausedStaysOff'
  <2> SUFFICES ASSUME NEW q \in Runs PROVE Stays(q)'
    BY DEF PausedStaysOff, Stays, Punctual
  <2>1. CASE q = r
    BY <1>2, <2>1 DEF Stays
  <2>2. CASE q # r /\ at[q] # "idle"
    BY <1>2, <2>2 DEF Stays, TypeOK
  <2>3. CASE q # r /\ at[q] = "idle"
    BY <1>1, <2>3 DEF Stays, TypeOK
  <2> QED
    BY <2>1, <2>2, <2>3
<1> QED
  BY <1>5, <1>6, <1>7, <1>8

\* A confirmed save-off is of this boot, and no other run is there to undo it.
LEMMA SaveOffStep == ASSUME Inv, NEW r \in Runs, SaveOff(r) PROVE Inv'
<1> USE DEF Inv, Rest
<1>0. CASE Interrupted(r, "save-off") /\ Goto(r, "saveOff", "archive") /\ UNCHANGED paused
  BY <1>0, Abandoned DEF Commands, Goto
<1> SUFFICES ASSUME NEW succeeds \in BOOLEAN,
                    SendCommand("save-off", live[r], succeeds),
                    Goto(r, "saveOff", IF succeeds THEN "flush" ELSE "archive"),
                    paused' = IF succeeds THEN [paused EXCEPT ![r] = boots] ELSE paused,
                    Rest
             PROVE  Inv'
  BY <1>0 DEF SaveOff
<1>2. UNCHANGED <<up, boots, live, alone, cancels, crashes>>
  OBVIOUS
<1>3. /\ saves' \in BOOLEAN /\ torn' \in [Runs -> BOOLEAN]
      /\ late' \in [Commands -> {"never", "coming", "over"}] /\ faults' \in 0..MaxFaults
      /\ Punctual' => Punctual
      /\ Punctual' => (saves' = IF succeeds THEN FALSE ELSE saves)
      /\ \A q \in Runs : torn'[q] = torn[q]
  BY Sent DEF Commands
<1>4. /\ at' \in [Runs -> Points] /\ at[r] = "saveOff"
      /\ at'[r] = (IF succeeds THEN "flush" ELSE "archive")
      /\ \A q \in Runs \ {r} : at'[q] = at[q]
  BY DEF TypeOK, Goto, Points
<1>5. /\ paused' \in [Runs -> 0..MaxBoots] /\ paused[r] = 0
      /\ paused'[r] = (IF succeeds THEN boots ELSE 0)
      /\ \A q \in Runs \ {r} : paused'[q] = paused[q]
  BY <1>4 DEF TypeOK
<1>6. TypeOK'
  BY <1>2, <1>3, <1>4, <1>5 DEF TypeOK
<1>7. PausesArePast' /\ AloneOK' /\ Untorn'
  BY <1>2, <1>3, <1>4, <1>5 DEF PausesArePast, AloneOK, Untorn, TypeOK
<1>8. PausedStaysOff'
  <2> SUFFICES ASSUME NEW q \in Runs, alone[q], paused'[q] = boots, boots > 0, Punctual'
               PROVE  ~saves' /\ (at'[q] = "archive" => ~torn'[q])
    BY <1>2 DEF PausedStaysOff, Punctual
  <2>1. CASE q = r
    <3>1. succeeds
      BY <1>5, <2>1
    <3>2. at'[q] = "flush" /\ saves' = FALSE
      BY <1>3, <1>4, <2>1, <3>1
    <3> QED
      BY <3>2
  <2>2. CASE q # r
    <3>1. Stays(q) /\ paused[q] = boots /\ at'[q] = at[q]
      BY <2>2, <1>4, <1>5, StaysOff
    <3> QED
      BY <3>1, <1>3 DEF Stays
  <2> QED
    BY <2>1, <2>2
<1> QED
  BY <1>6, <1>7, <1>8

\* A flush writes the world, but under a run that is not alone.
LEMMA FlushStep == ASSUME Inv, NEW r \in Runs, Flush(r) PROVE Inv'
<1> USE DEF Inv, Rest
<1>0. CASE Interrupted(r, "save-all flush") /\ Goto(r, "flush", "archive") /\ UNCHANGED paused
  BY <1>0, Abandoned DEF Commands, Goto
<1> SUFFICES ASSUME NEW succeeds \in BOOLEAN,
                    SendCommand("save-all flush", live[r], succeeds),
                    Goto(r, "flush", IF succeeds THEN "settle" ELSE "archive"),
                    UNCHANGED paused, Rest
             PROVE  Inv'
  BY <1>0 DEF Flush
<1>2. UNCHANGED <<up, boots, live, alone, cancels, crashes, paused>>
  OBVIOUS
<1>3. /\ saves' \in BOOLEAN /\ torn' \in [Runs -> BOOLEAN]
      /\ late' \in [Commands -> {"never", "coming", "over"}] /\ faults' \in 0..MaxFaults
      /\ Punctual' => Punctual
      /\ Punctual' => saves' = saves
      /\ \A q \in Runs : at[q] # "archive" => torn'[q] = torn[q]
  BY Sent DEF Commands
<1>4. /\ at' \in [Runs -> Points] /\ at[r] = "flush"
      /\ at'[r] = (IF succeeds THEN "settle" ELSE "archive")
      /\ \A q \in Runs \ {r} : at'[q] = at[q]
  BY DEF TypeOK, Goto, Points
<1>5. TypeOK'
  BY <1>2, <1>3, <1>4 DEF TypeOK
<1>6. PausesArePast' /\ AloneOK' /\ Untorn'
  BY <1>2, <1>3, <1>4 DEF PausesArePast, AloneOK, Untorn, TypeOK
<1>7. PausedStaysOff'
  <2> SUFFICES ASSUME NEW q \in Runs, alone[q], paused[q] = boots, boots > 0, Punctual'
               PROVE  ~saves' /\ (at'[q] = "archive" => ~torn'[q])
    BY <1>2 DEF PausedStaysOff, Punctual
  <2>1. ~saves'
    BY <1>3, StaysOff DEF Stays
  <2>2. CASE q = r
    BY <1>3, <1>4, <2>1, <2>2 DEF Untorn
  <2>3. CASE q # r
    BY <1>2, <1>4, <2>1, <2>3 DEF AloneOK, TypeOK
  <2> QED
    BY <2>2, <2>3
<1> QED
  BY <1>5, <1>6, <1>7

\* The wait, and the end of the archive, change nothing but the control point.
LEMMA MoveStep ==
  ASSUME Inv, NEW r \in Runs, Settle(r) \/ Archive(r)
  PROVE  Inv'
<1> USE DEF Inv
<1>1. PICK from \in {"settle", "archive"}, to \in {"archive", "idle", "saveOn"} :
        /\ Goto(r, from, to)
        /\ from = "settle" <=> to = "archive"
        /\ to = "idle" => paused[r] = 0
  BY DEF Settle, Archive
<1>2. UNCHANGED <<up, boots, saves, late, paused, torn, live, alone, faults, cancels, crashes>>
  BY DEF Settle, Archive
<1>3. /\ at' \in [Runs -> Points] /\ at[r] = from /\ at'[r] = to
      /\ \A q \in Runs \ {r} : at'[q] = at[q]
  BY <1>1 DEF TypeOK, Goto, Points
<1>4. TypeOK'
  BY <1>1, <1>2, <1>3 DEF TypeOK
<1>5. PausesArePast' /\ AloneOK' /\ Untorn'
  BY <1>1, <1>2, <1>3 DEF PausesArePast, AloneOK, Untorn, TypeOK
<1>6. PausedStaysOff'
  <2> SUFFICES ASSUME NEW q \in Runs PROVE Stays(q)'
    BY DEF PausedStaysOff, Stays, Punctual
  <2>1. Stays(q) /\ (at[q] = "settle" => ~torn[q])
    BY StaysOff DEF Untorn
  <2> QED
    BY <1>1, <1>2, <1>3, <2>1 DEF Stays, Punctual
<1> QED
  BY <1>4, <1>5, <1>6

\* Whoever resumes is not alone with another run that holds a pause.
LEMMA ResumeStep == ASSUME Inv, NEW r \in Runs, ResumeSaves(r) PROVE Inv'
<1> USE DEF Inv, Rest
<1>1. PICK succeeds \in BOOLEAN : SendCommand("save-on", TRUE, succeeds)
  BY DEF ResumeSaves
<1>2. UNCHANGED <<up, boots, live, alone, cancels, crashes>>
  BY DEF ResumeSaves
<1>3. /\ saves' \in BOOLEAN /\ torn' \in [Runs -> BOOLEAN]
      /\ late' \in [Commands -> {"never", "coming", "over"}] /\ faults' \in 0..MaxFaults
      /\ Punctual' => Punctual
      /\ \A q \in Runs : torn'[q] = torn[q]
  BY <1>1, Sent DEF Commands
<1>4. /\ at' \in [Runs -> Points] /\ at[r] = "saveOn" /\ at'[r] = "idle"
      /\ \A q \in Runs \ {r} : at'[q] = at[q]
  BY DEF TypeOK, ResumeSaves, Goto, Points
<1>5. /\ paused' \in [Runs -> 0..MaxBoots] /\ paused'[r] = 0
      /\ \A q \in Runs \ {r} : paused'[q] = paused[q]
  BY DEF TypeOK, ResumeSaves
<1>6. TypeOK'
  BY <1>2, <1>3, <1>4, <1>5 DEF TypeOK
<1>7. PausesArePast' /\ AloneOK' /\ Untorn'
  BY <1>2, <1>3, <1>4, <1>5 DEF PausesArePast, AloneOK, Untorn, TypeOK
<1>8. PausedStaysOff'
  <2> SUFFICES ASSUME NEW q \in Runs, alone[q], paused'[q] = boots, boots > 0 PROVE FALSE
    BY <1>2 DEF PausedStaysOff, Punctual
  <2>1. q # r /\ paused[q] > 0
    BY <1>5
  <2>2. at[q] # "idle"
    BY <2>1 DEF TypeOK
  <2> QED
    BY <1>4, <2>1, <2>2 DEF AloneOK
<1> QED
  BY <1>6, <1>7, <1>8

-----------------------------------------------------------------------------
(* The surroundings.                                                        *)

\* A late command is carried out only when one has come late.
LEMMA LateStep == ASSUME Inv, ObeyLate PROVE Inv'
<1> USE DEF Inv
<1>1. PICK command \in Commands : Obeys(command) /\ late' = [late EXCEPT ![command] = "over"]
  BY DEF ObeyLate
<1>2. UNCHANGED <<up, boots, at, paused, live, alone, faults, cancels, crashes>>
  BY DEF ObeyLate
<1>3. late' \in [Commands -> {"never", "coming", "over"}] /\ ~Punctual'
  BY <1>1 DEF TypeOK, Punctual
<1>4. saves' \in BOOLEAN
  BY <1>1 DEF Obeys, TypeOK
<1>5. torn' \in [Runs -> BOOLEAN] /\ \A r \in Runs : at[r] # "archive" => torn'[r] = torn[r]
  BY <1>1 DEF Obeys, Tear, Archiving, TypeOK
<1>6. TypeOK'
  BY <1>2, <1>3, <1>4, <1>5 DEF TypeOK
<1>7. PausesArePast' /\ AloneOK' /\ Untorn'
  BY <1>2, <1>5 DEF PausesArePast, AloneOK, Untorn
<1>8. PausedStaysOff'
  BY <1>3 DEF PausedStaysOff, Punctual
<1> QED
  BY <1>6, <1>7, <1>8

\* A start forgets every pause, for none was confirmed in the boot that begins.
LEMMA ServerStartsStep == ASSUME Inv, ServerStarts PROVE Inv'
<1> USE DEF Inv, ServerStarts
<1>1. up' = TRUE /\ saves' = TRUE /\ boots' = boots + 1 /\ boots' \in 0..MaxBoots
  BY DEF TypeOK
<1>2. TypeOK'
  BY <1>1 DEF TypeOK
<1>3. PausesArePast'
  BY <1>1 DEF PausesArePast, TypeOK
<1>4. AloneOK' /\ Untorn'
  BY DEF AloneOK, Untorn
<1>5. PausedStaysOff'
  <2>1. \A r \in Runs : paused'[r] # boots'
    BY <1>1 DEF PausesArePast, TypeOK
  <2> QED
    BY <2>1 DEF PausedStaysOff
<1> QED
  BY <1>2, <1>3, <1>4, <1>5

LEMMA ServerStopsStep == ASSUME Inv, ServerStops PROVE Inv'
<1> USE DEF Inv, ServerStops
<1>1. /\ late' \in [Commands -> {"never", "coming", "over"}]
      /\ Punctual' => Punctual
  BY Forgotten
<1>2. TypeOK'
  BY <1>1 DEF TypeOK
<1>3. PausesArePast' /\ AloneOK' /\ Untorn'
  BY DEF PausesArePast, AloneOK, Untorn
<1>4. PausedStaysOff'
  <2> SUFFICES ASSUME NEW r \in Runs PROVE Stays(r)'
    BY DEF PausedStaysOff, Stays, Punctual
  <2> QED
    BY <1>1, StaysOff DEF Stays
<1> QED
  BY <1>2, <1>3, <1>4

\* A server that saves tears an archive, but not while a pause is in force.
LEMMA ServerSavesStep == ASSUME Inv, ServerSaves PROVE Inv'
<1> USE DEF Inv, ServerSaves
<1>1. torn' \in [Runs -> BOOLEAN] /\ \A r \in Runs : at[r] # "archive" => torn'[r] = torn[r]
  BY DEF Tear, Archiving, TypeOK
<1>2. TypeOK'
  BY <1>1 DEF TypeOK
<1>3. PausesArePast' /\ AloneOK' /\ Untorn'
  BY <1>1 DEF PausesArePast, AloneOK, Untorn
<1>4. PausedStaysOff'
  BY DEF PausedStaysOff
<1> QED
  BY <1>2, <1>3, <1>4

LEMMA CancelStep == ASSUME Inv, NEW r \in Runs, Cancel(r) PROVE Inv'
<1> USE DEF Inv, Cancel
<1>1. live' \in [Runs -> BOOLEAN] /\ cancels' \in 0..MaxCancels
  BY DEF TypeOK
<1>2. TypeOK'
  BY <1>1 DEF TypeOK
<1>3. PausesArePast' /\ AloneOK' /\ Untorn' /\ PausedStaysOff'
  BY DEF PausesArePast, AloneOK, Untorn, PausedStaysOff
<1> QED
  BY <1>2, <1>3

\* A panel that dies leaves no pause it remembers.
LEMMA CrashStep == ASSUME Inv, Crash PROVE Inv'
<1> USE DEF Inv, Crash
<1>1. late' \in [Commands -> {"never", "coming", "over"}]
  BY Forgotten
<1>2. at' \in [Runs -> Points] /\ \A r \in Runs : at'[r] = "idle"
  BY DEF Points
<1>3. paused' \in [Runs -> 0..MaxBoots] /\ \A r \in Runs : paused'[r] = 0
  OBVIOUS
<1>4. TypeOK'
  BY <1>1, <1>2, <1>3 DEF TypeOK
<1>5. PausesArePast' /\ AloneOK' /\ Untorn'
  BY <1>2, <1>3 DEF PausesArePast, AloneOK, Untorn, TypeOK
<1>6. PausedStaysOff'
  BY <1>3 DEF PausedStaysOff
<1> QED
  BY <1>4, <1>5, <1>6

LEMMA InvStep == Inv /\ [Next]_vars => Inv'
<1> SUFFICES ASSUME Inv, [Next]_vars PROVE Inv'
  OBVIOUS
<1>1. CASE UNCHANGED vars
  BY <1>1 DEF vars, Inv, TypeOK, PausesArePast, AloneOK, Untorn, PausedStaysOff
<1>2. ASSUME NEW r \in Runs, ExecuteBackupTask(r) \/ Proceed(r) \/ Cancel(r) PROVE Inv'
  BY <1>2, BeginStep, SaveOffStep, FlushStep, MoveStep, ResumeStep, CancelStep DEF Proceed
<1>3. CASE ObeyLate \/ ServerStarts \/ ServerStops \/ ServerSaves \/ Crash
  BY <1>3, LateStep, ServerStartsStep, ServerStopsStep, ServerSavesStep, CrashStep
<1> QED
  BY <1>1, <1>2, <1>3 DEF Next

LEMMA Invariance == Spec => []Inv
  BY InitInv, InvStep, PTL DEF Spec

-----------------------------------------------------------------------------
(* The theorems.                                                            *)

\* Every variable keeps its type, and only a run in flight holds a pause
\* (executeBackupTask, pauseWorldSaves).
THEOREM TypeCorrect == Spec => []TypeOK
<1>1. Inv => TypeOK
  BY DEF Inv
<1> QED
  BY <1>1, Invariance, PTL

\* A run that had save-off confirmed archives a world nobody writes, for any
\* number of runs, boots, cancellations, lost commands and crashes, as long as
\* it is alone, no command comes late and the server is not restarted
\* (pauseWorldSaves, executeBackupTask).
THEOREM ConfirmedPauseHolds == Spec => []PausedStaysOff
<1>1. Inv => PausedStaysOff
  BY DEF Inv
<1> QED
  BY <1>1, Invariance, PTL
=============================================================================
