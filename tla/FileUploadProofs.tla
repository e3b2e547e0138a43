-------------------------- MODULE FileUploadProofs --------------------------
(***************************************************************************)
(* Theorems about FileUpload for every set of files, names, servers and    *)
(* tasks and every value of the bounds: one session becomes one file       *)
(* within the volume of the temporary files, and what is under a name      *)
(* consists of pieces of files of that name, which is that file if names   *)
(* tell files apart, all of it where it was moved and not copied.          *)
(*                                                                         *)
(* Both rest on what is true of a session in the hands of a task: it was   *)
(* opened for the name of the task's file, a stream stands behind pieces   *)
(* that have all been written, a session that counts as complete has every *)
(* piece and takes no more of them, and a file that was moved is gone.     *)
(***************************************************************************)
EXTENDS FileUpload, TLAPS

PCs == Running \cup {"idle", "ended", "hung"}
Phases == {"off", "sent", "writing", "refused", "answered"}
SessionIds == {NoSession} \cup Ids

TaskRecords ==
    [pc : PCs, queue : Seq(Files), at : Nat \ {0}, sess : SessionIds, signal : Tasks]
StreamRecords == [phase : Phases, pos : 0..Size, cut : BOOLEAN]
PageRecords == [server : Servers, uploading : BOOLEAN, controller : Tasks \cup {None},
                progress : SessionIds, aborted : SUBSET Tasks]
SavePhases == {"off", "asked", "found", "copying", "copied", "placed", "done", "failed"}
SaveRecords == [phase : SavePhases, to : Servers \cup {None}, from : Contents, pos : 0..Size]

SessionsTyped == sessions \in [Ids -> {None} \cup SessionRecords]
StoredTyped == stored \in [Names -> SessionIds]
TasksTyped == task \in [Tasks -> TaskRecords]
StreamsTyped == stream \in [Tasks -> StreamRecords]
SavesTyped == saving \in [Tasks -> SaveRecords] /\ disk \in [Servers -> [Names -> {None} \cup Contents]]

Types ==
    /\ SessionsTyped /\ StoredTyped /\ TasksTyped /\ StreamsTyped
    /\ page \in PageRecords /\ cancels \subseteq Ids /\ SavesTyped

\* A session that was opened, whatever has become of it.
Opened(n) == n \in Ids /\ sessions[n] # None

\* The piece was written, from a file of the session's name.
Good(n, i) ==
    sessions[n].data[i] \in Files /\ NameOf[sessions[n].data[i]] = sessions[n].name

\* What is counted was written; a complete session has every piece and is closed.
SessionOK(n) ==
    sessions[n] # None =>
        /\ sessions[n].open => sessions[n].temp
        /\ sessions[n].listed /\ ~sessions[n].completed => sessions[n].temp
        /\ sessions[n].completed => ~sessions[n].open
        /\ \A i \in 1..sessions[n].bytes : Good(n, i)
        /\ sessions[n].completed => \A i \in Pieces : Good(n, i)

OnItsWay(t) == stream[t].phase \in {"sent", "writing"}
Holds(t) == task[t].pc \in {"status", "put"} \/ OnItsWay(t)

\* A task's session is that of its file, and its stream stands behind what was written.
TaskOK(t) ==
    /\ task[t].pc # "idle" => task[t].at \in DOMAIN task[t].queue
    /\ OnItsWay(t) => task[t].pc \in {"put", "ended"}
    /\ Holds(t) => Opened(task[t].sess) /\ sessions[task[t].sess].name = NameOf[FileOf(t)]
    /\ OnItsWay(t) /\ sessions[task[t].sess].temp =>
           \A i \in 1..stream[t].pos : Good(task[t].sess, i)

StoredOK ==
    \A m \in Names : stored[m] # NoSession => Opened(stored[m]) /\ sessions[stored[m]].name = m

\* A cancel button that is shown has the controller of a task that has begun.
PageOK == page.uploading => page.controller \in Tasks /\ task[page.controller].pc # "idle"

\* A save is of the file and the session of its task, which waits for it or has ended.
Named(f, t) == f \in Files /\ NameOf[f] = NameOf[FileOf(t)]
SavingOK(t) ==
    /\ saving[t].phase # "off" => task[t].pc \in {"save", "ended"}
    /\ saving[t].phase \in {"asked", "found", "copying", "copied", "placed"} =>
         Opened(task[t].sess) /\ sessions[task[t].sess].name = NameOf[FileOf(t)]
    /\ saving[t].phase \in {"asked", "found", "copying"} => saving[t].to \in Servers
    /\ saving[t].phase \in {"found", "copied"} /\ sessions[task[t].sess].temp =>
         sessions[task[t].sess].completed
    /\ saving[t].phase = "copying" =>
         /\ saving[t].to \notin OneVolume
         /\ disk[saving[t].to][NameOf[FileOf(t)]] # None
         /\ sessions[task[t].sess].temp => sessions[task[t].sess].completed
         /\ \A i \in Pieces : Named(saving[t].from[i], t)

\* What is in a directory has its pieces from files of its name, and where it was moved to
\* it has them all.
DiskOK ==
    \A s \in Servers, m \in Names : disk[s][m] # None =>
        \A i \in Pieces : \/ disk[s][m][i] \in Files /\ NameOf[disk[s][m][i]] = m
                          \/ s \notin OneVolume /\ disk[s][m][i] = None

\* A file that was moved has left nothing behind.
SavedOK ==
    \A x \in saved : Opened(x.sess) /\ (x.server \in OneVolume => ~sessions[x.sess].temp)

Inv ==
    /\ Types /\ StoredOK /\ PageOK /\ SavedOK /\ SavedOnce /\ DiskOK
    /\ \A n \in Ids : SessionOK(n)
    /\ \A t \in Tasks : TaskOK(t) /\ SavingOK(t)

-----------------------------------------------------------------------------
\* The parts of the assumption the proofs need.
LEMMA Constants ==
    /\ Size \in Nat /\ Size > 0 /\ MaxSessions \in Nat /\ First \in Servers /\ OneVolume \subseteq Servers
    /\ None \notin SessionRecords /\ None \notin Contents
  BY UploadAssumption

USE Constants

\* The invariant's types are those the checked invariant asks for.
LEMMA TypesImply == Types => UploadTypeOK
<1> SUFFICES ASSUME Types PROVE UploadTypeOK
  OBVIOUS
<1>1. \A t \in Tasks : /\ task[t].pc \in Running \cup {"idle", "ended", "hung"}
                       /\ task[t].sess \in {NoSession} \cup Ids
                       /\ task[t].queue \in Seq(Files)
  BY DEF Types, TasksTyped, TaskRecords, PCs, SessionIds
<1>2. \A t \in Tasks : stream[t].phase \in {"off", "sent", "writing", "refused", "answered"}
  BY DEF Types, StreamsTyped, StreamRecords, Phases
<1>3. \A t \in Tasks :
        saving[t].phase \in {"off", "asked", "found", "copying", "copied", "placed", "done", "failed"}
  BY DEF Types, SavesTyped, SaveRecords, SavePhases
<1> QED
  BY <1>1, <1>2, <1>3
     DEF UploadTypeOK, Types, SessionsTyped, StoredTyped, PageRecords, SessionIds, SavesTyped

LEMMA NoSaveTyped == Blank \in Contents /\ NoSave \in SaveRecords
<1>1. Blank \in Contents
  BY DEF Blank, Contents
<1>2. 0 \in 0..Size
  OBVIOUS
<1> QED
  BY <1>1, <1>2 DEF NoSave, SaveRecords, SavePhases

LEMMA InitInv == UploadInit => Inv
<1> SUFFICES ASSUME UploadInit PROVE Inv
  OBVIOUS
<1>1. SessionsTyped /\ StoredTyped /\ cancels \subseteq Ids
  BY DEF UploadInit, SessionsTyped, StoredTyped, SessionIds
<1>2. TasksTyped
  BY DEF UploadInit, TasksTyped, TaskRecords, PCs, SessionIds
<1>3. StreamsTyped
  BY DEF UploadInit, StreamsTyped, StreamRecords, Phases
<1>4. page \in PageRecords
  BY DEF UploadInit, PageRecords, SessionIds
<1>5. StoredOK /\ PageOK /\ SavedOK /\ SavedOnce /\ DiskOK
  BY DEF UploadInit, StoredOK, PageOK, SavedOK, SavedOnce, DiskOK
<1>6. \A n \in Ids : SessionOK(n)
  BY DEF UploadInit, SessionOK
<1>7. \A t \in Tasks : TaskOK(t)
  BY DEF UploadInit, TaskOK, OnItsWay, Holds
<1>8. SavesTyped
  BY NoSaveTyped DEF UploadInit, SavesTyped
<1>9. \A t \in Tasks : SavingOK(t)
  BY DEF UploadInit, SavingOK, NoSave
<1> QED
  BY <1>1, <1>2, <1>3, <1>4, <1>5, <1>6, <1>7, <1>8, <1>9 DEF Inv, Types

-----------------------------------------------------------------------------
(* What becomes of the sessions.                                            *)

\* A session keeps its name and, as long as it keeps its temporary file, what
\* was written to it.
SessionsGoOn ==
    \A n \in Ids : sessions[n] # None =>
        /\ sessions'[n] # None /\ sessions'[n].name = sessions[n].name
        /\ sessions'[n].temp => /\ sessions[n].temp
                                /\ sessions[n].completed => sessions'[n].completed
                                /\ \A i \in Pieces : Good(n, i) => Good(n, i)'

\* The sessions after a step.
SessionsKept == SessionsTyped' /\ SessionsGoOn /\ \A n \in Ids : SessionOK(n)'

LEMMA SessionsRest == ASSUME Inv, UNCHANGED sessions PROVE SessionsKept
  BY DEF Inv, Types, SessionsKept, SessionsTyped, SessionsGoOn, SessionOK, Good

\* A new session is a session, of the name of its file.
LEMMA SessionTyped ==
  ASSUME NEW f \in Files
  PROVE  Session(f) \in SessionRecords /\ Session(f).name = NameOf[f]
<1>1. NameOf[f] \in Names
  BY DEF Names
<1> QED
  BY <1>1, NoSaveTyped DEF Session, SessionRecords

\* A session is opened under an identifier nobody has.
LEMMA SessionOpens ==
  ASSUME Inv, NEW n \in Ids, sessions[n] = None, NEW f \in Files,
         sessions' = [sessions EXCEPT ![n] = Session(f)]
  PROVE  SessionsKept /\ Opened(n)' /\ sessions'[n].name = NameOf[f]
<1>1. /\ sessions'[n] = Session(f) /\ Session(f) # None
      /\ \A m \in Ids \ {n} : sessions'[m] = sessions[m]
  BY SessionTyped DEF Inv, Types, SessionsTyped
<1>2. SessionsTyped'
  BY SessionTyped DEF Inv, Types, SessionsTyped
<1>3. SessionsGoOn
  BY <1>1 DEF SessionsGoOn, Good
<1>4. \A m \in Ids : SessionOK(m)'
  <2>1. SessionOK(n)'
    BY <1>1 DEF SessionOK, Session
  <2>2. ASSUME NEW m \in Ids \ {n} PROVE SessionOK(m)'
    BY <1>1, <2>2 DEF Inv, SessionOK, Good
  <2> QED
    BY <2>1, <2>2
<1> QED
  BY <1>1, <1>2, <1>3, <1>4, SessionTyped DEF SessionsKept, Opened

\* A session that is discarded keeps its name and nothing else.
LEMMA SessionDiscarded ==
  ASSUME Inv, NEW n \in Ids, sessions[n] # None, Discard(n)
  PROVE  /\ SessionsKept
         /\ sessions'[n] # None /\ ~sessions'[n].temp
         /\ \A m \in Ids \ {n} : sessions'[m] = sessions[m]
<1> DEFINE f == CHOOSE g \in Files : NameOf[g] = sessions[n].name
           r == [Session(f) EXCEPT !.listed = FALSE, !.open = FALSE, !.temp = FALSE]
<1>1. sessions[n] \in SessionRecords
  BY DEF Inv, Types, SessionsTyped
<1>2. f \in Files /\ NameOf[f] = sessions[n].name
  BY <1>1 DEF SessionRecords, Names
<1>3. r \in SessionRecords /\ r.name = sessions[n].name /\ ~r.temp /\ ~r.open /\ ~r.listed
      /\ ~r.completed /\ r.bytes = 0
  <2>1. Session(f) \in SessionRecords /\ Session(f).name = sessions[n].name
    BY <1>2, SessionTyped
  <2>2. Session(f).bytes = 0 /\ ~Session(f).completed
    BY DEF Session
  <2> HIDE DEF f
  <2> QED
    BY <2>1, <2>2 DEF SessionRecords
<1>4. sessions' = [sessions EXCEPT ![n] = r]
  BY DEF Discard
<1> HIDE DEF r, f
<1>5. sessions'[n] = r /\ r # None /\ \A m \in Ids \ {n} : sessions'[m] = sessions[m]
  BY <1>3, <1>4 DEF Inv, Types, SessionsTyped
<1>6. SessionsTyped'
  BY <1>3, <1>4 DEF Inv, Types, SessionsTyped
<1>7. SessionsGoOn
  BY <1>3, <1>5 DEF SessionsGoOn, Good
<1>8. \A m \in Ids : SessionOK(m)'
  <2>1. SessionOK(n)'
    BY <1>3, <1>5 DEF SessionOK
  <2>2. ASSUME NEW m \in Ids \ {n} PROVE SessionOK(m)'
    BY <1>5, <2>2 DEF Inv, SessionOK, Good
  <2> QED
    BY <2>1, <2>2
<1> QED
  BY <1>3, <1>5, <1>6, <1>7, <1>8 DEF SessionsKept

\* A file that has been chosen has a name that can be stored.
LEMMA ChosenFile ==
  ASSUME Inv, NEW t \in Tasks, task[t].pc # "idle"
  PROVE  FileOf(t) \in Files /\ NameOf[FileOf(t)] \in Names
<1>1. task[t].queue \in Seq(Files) /\ task[t].at \in DOMAIN task[t].queue
  BY DEF Inv, Types, TasksTyped, TaskRecords, TaskOK
<1>2. FileOf(t) \in Files
  BY <1>1 DEF FileOf
<1> QED
  BY <1>2 DEF Names

\* A piece is written, and it is counted up to there.
Writes(n, p, f) == sessions' = [sessions EXCEPT ![n].data[p] = f, ![n].bytes = p]

Completes(n) == sessions' = [sessions EXCEPT ![n].completed = TRUE, ![n].open = FALSE]

\* A piece is written behind those the stream stands at.
LEMMA PieceWritten ==
  ASSUME Inv, NEW t \in Tasks, stream[t].phase = "writing",
         NEW n \in Ids, n = task[t].sess, NEW p \in Pieces, p = stream[t].pos + 1,
         sessions[n].open, Writes(n, p, FileOf(t))
  PROVE  SessionsKept /\ \A i \in 1..p : Good(n, i)'
<1>1. /\ sessions[n] # None /\ sessions[n].name = NameOf[FileOf(t)]
      /\ task[t].pc # "idle"
      /\ sessions[n].temp => \A i \in 1..stream[t].pos : Good(n, i)
  BY DEF Inv, TaskOK, OnItsWay, Holds, Opened
<1>2. FileOf(t) \in Files
  BY <1>1, ChosenFile
<1>3. p \in 1..Size /\ stream[t].pos \in 0..Size
  BY DEF Inv, Types, StreamsTyped, StreamRecords, Pieces
<1>4. sessions[n] \in SessionRecords
  BY <1>1 DEF Inv, Types, SessionsTyped
<1>5. sessions[n].temp /\ ~sessions[n].completed
  BY <1>1 DEF Inv, SessionOK
<1>6. sessions' = [sessions EXCEPT ![n] = [sessions[n] EXCEPT
                       !.data = [sessions[n].data EXCEPT ![p] = FileOf(t)], !.bytes = p]]
  BY <1>1 DEF Inv, Types, SessionsTyped, Writes
<1> DEFINE r == [sessions[n] EXCEPT !.data = [sessions[n].data EXCEPT ![p] = FileOf(t)],
                                    !.bytes = p]
<1>7. r \in SessionRecords
  <2>1. [sessions[n].data EXCEPT ![p] = FileOf(t)] \in Contents
    BY <1>2, <1>3, <1>4 DEF SessionRecords, Contents
  <2>2. p \in 0..Size
    BY <1>3
  <2> QED
    BY <2>1, <2>2, <1>4 DEF SessionRecords
<1>8. /\ r.name = sessions[n].name /\ r.temp = sessions[n].temp
      /\ r.open = sessions[n].open /\ r.listed = sessions[n].listed
      /\ r.completed = sessions[n].completed /\ r.bytes = p
      /\ r.data[p] = FileOf(t)
      /\ \A i \in Pieces \ {p} : r.data[i] = sessions[n].data[i]
  BY <1>3, <1>4 DEF SessionRecords, Contents
<1> HIDE DEF r
<1>9. /\ sessions'[n] = r /\ r # None
      /\ \A m \in Ids \ {n} : sessions'[m] = sessions[m]
  BY <1>1, <1>6, <1>7 DEF Inv, Types, SessionsTyped, r
<1>10. SessionsTyped'
  BY <1>1, <1>6, <1>7 DEF Inv, Types, SessionsTyped, r
<1>11. Good(n, p)' /\ \A i \in Pieces \ {p} : Good(n, i) => Good(n, i)'
  BY <1>1, <1>2, <1>8, <1>9 DEF Good
<1>12. SessionsGoOn
  BY <1>5, <1>8, <1>9, <1>11 DEF SessionsGoOn, Good
<1>13. \A i \in 1..p : Good(n, i)'
  BY <1>1, <1>3, <1>5, <1>11 DEF Pieces
<1>14. \A m \in Ids : SessionOK(m)'
  <2>1. SessionOK(n)'
    BY <1>1, <1>5, <1>8, <1>9, <1>13 DEF Inv, SessionOK
  <2>2. ASSUME NEW m \in Ids \ {n} PROVE SessionOK(m)'
    BY <1>9, <2>2 DEF Inv, SessionOK, Good
  <2> QED
    BY <2>1, <2>2
<1> QED
  BY <1>10, <1>12, <1>13, <1>14 DEF SessionsKept

\* A session is complete only when it counts, and so has, every piece.
LEMMA SessionCompletes ==
  ASSUME Inv, NEW n \in Ids, sessions[n] # None, sessions[n].bytes >= Size, Completes(n)
  PROVE  SessionsKept
<1>1. sessions[n] \in SessionRecords
  BY DEF Inv, Types, SessionsTyped
<1> DEFINE r == [sessions[n] EXCEPT !.completed = TRUE, !.open = FALSE]
<1>2. sessions' = [sessions EXCEPT ![n] = r]
  BY DEF Inv, Types, SessionsTyped, Completes
<1>3. /\ r \in SessionRecords /\ r.name = sessions[n].name /\ r.temp = sessions[n].temp
      /\ r.listed = sessions[n].listed /\ r.data = sessions[n].data /\ r.bytes = sessions[n].bytes
      /\ r.completed /\ ~r.open
  BY <1>1 DEF SessionRecords
<1> HIDE DEF r
<1>4. sessions'[n] = r /\ r # None /\ \A m \in Ids \ {n} : sessions'[m] = sessions[m]
  BY <1>2, <1>3 DEF Inv, Types, SessionsTyped
<1>5. SessionsTyped'
  BY <1>2, <1>3 DEF Inv, Types, SessionsTyped
<1>6. \A m \in Ids, i \in Pieces : Good(m, i)' <=> Good(m, i)
  BY <1>3, <1>4 DEF Good
<1>7. SessionsGoOn
  BY <1>3, <1>4, <1>6 DEF SessionsGoOn
<1>8. sessions[n].bytes = Size
  BY <1>1 DEF SessionRecords
<1>9. \A i \in Pieces : Good(n, i)
  BY <1>8 DEF Inv, SessionOK, Pieces
<1>10. SessionOK(n)'
  BY <1>3, <1>4, <1>6, <1>8, <1>9 DEF Inv, SessionOK, Pieces
<1>11. ASSUME NEW m \in Ids \ {n} PROVE SessionOK(m)'
  BY <1>4, <1>11 DEF Inv, SessionOK, Good
<1> QED
  BY <1>5, <1>7, <1>10, <1>11 DEF SessionsKept

\* The temporary file of a complete session is moved or removed.
LEMMA TempGoes ==
  ASSUME Inv, NEW n \in Ids, sessions[n] # None, sessions[n].temp => sessions[n].completed,
         sessions' = [sessions EXCEPT ![n].temp = FALSE]
  PROVE  SessionsKept /\ ~sessions'[n].temp
<1>1. sessions[n] \in SessionRecords
  BY DEF Inv, Types, SessionsTyped
<1> DEFINE r == [sessions[n] EXCEPT !.temp = FALSE]
<1>2. sessions' = [sessions EXCEPT ![n] = r]
  BY DEF Inv, Types, SessionsTyped
<1>3. /\ r \in SessionRecords /\ r.name = sessions[n].name /\ r.completed = sessions[n].completed
      /\ r.listed = sessions[n].listed /\ r.data = sessions[n].data /\ r.bytes = sessions[n].bytes
      /\ ~r.temp /\ r.open = sessions[n].open
  BY <1>1 DEF SessionRecords
<1> HIDE DEF r
<1>4. sessions'[n] = r /\ r # None /\ \A m \in Ids \ {n} : sessions'[m] = sessions[m]
  BY <1>2, <1>3 DEF Inv, Types, SessionsTyped
<1>5. SessionsTyped'
  BY <1>2, <1>3 DEF Inv, Types, SessionsTyped
<1>6. \A m \in Ids, i \in Pieces : Good(m, i)' <=> Good(m, i)
  BY <1>3, <1>4 DEF Good
<1>7. SessionsGoOn
  BY <1>3, <1>4, <1>6 DEF SessionsGoOn
<1>8. SessionOK(n)'
  <2>1. sessions[n].bytes \in 0..Size
    BY <1>1 DEF SessionRecords
  <2> QED
    BY <1>3, <1>4, <1>6, <2>1 DEF Inv, SessionOK, Pieces
<1>9. ASSUME NEW m \in Ids \ {n} PROVE SessionOK(m)'
  BY <1>4, <1>9 DEF Inv, SessionOK, Good
<1> QED
  BY <1>3, <1>4, <1>5, <1>7, <1>8, <1>9 DEF SessionsKept

-----------------------------------------------------------------------------
(* What becomes of the tasks, and of what refers to sessions.               *)

\* What is sent stands where it stood, or is over.
Fades(t) == OnItsWay(t)' => OnItsWay(t) /\ stream'[t].pos = stream[t].pos

SameFile(t) ==
    /\ task'[t].sess = task[t].sess /\ task'[t].queue = task[t].queue
    /\ task'[t].at = task[t].at

\* A task keeps to its file while it is being saved.
Waits(t) == saving[t].phase # "off" => SameFile(t) /\ task'[t].pc \in {"save", "ended"}
GoesOn(t) == TaskOK(t)' /\ Waits(t)

\* A task that keeps to its file and session is right if its new control point is.
LEMMA TaskGoes ==
  ASSUME Inv, SessionsKept, NEW t \in Tasks, SameFile(t), Fades(t), task[t].pc # "idle",
         OnItsWay(t)' => task'[t].pc \in {"put", "ended"},
         Holds(t)' => Holds(t), saving[t].phase # "off" => task'[t].pc \in {"save", "ended"}
  PROVE  GoesOn(t)
<1>1. task'[t].pc # "idle" => task'[t].at \in DOMAIN task'[t].queue
  BY DEF Inv, TaskOK, SameFile
<1>2. FileOf(t)' = FileOf(t)
  BY DEF FileOf, SameFile
<1>3. (Holds(t) => Opened(task[t].sess) /\ sessions[task[t].sess].name = NameOf[FileOf(t)])'
  <2>1. Holds(t) => Opened(task[t].sess) /\ sessions[task[t].sess].name = NameOf[FileOf(t)]
    BY DEF Inv, TaskOK
  <2> QED
    BY <1>2, <2>1 DEF SessionsKept, SessionsGoOn, Opened, SameFile
<1>4. ASSUME OnItsWay(t)', sessions'[task'[t].sess].temp, NEW i \in 1..stream'[t].pos
      PROVE  Good(task[t].sess, i)'
  <2>1. OnItsWay(t) /\ stream'[t].pos = stream[t].pos /\ task'[t].sess = task[t].sess
    BY <1>4 DEF Fades, SameFile
  <2>2. PICK n \in Ids : n = task[t].sess /\ sessions[n] # None
    BY <2>1 DEF Inv, TaskOK, Holds, Opened
  <2>3. i \in Pieces
    BY <2>1 DEF Inv, Types, StreamsTyped, StreamRecords, Pieces
  <2>4. sessions[n].temp
    BY <1>4, <2>1, <2>2 DEF SessionsKept, SessionsGoOn
  <2>5. Good(n, i)
    BY <2>1, <2>2, <2>4 DEF Inv, TaskOK
  <2>6. Good(n, i)'
    BY <1>4, <2>1, <2>2, <2>3, <2>5 DEF SessionsKept, SessionsGoOn
  <2> QED
    BY <2>1, <2>2, <2>6 DEF Good
<1> QED
  BY <1>1, <1>3, <1>4 DEF TaskOK, SameFile, GoesOn, Waits

\* A task nothing happens to stays right.
LEMMA TaskStays ==
  ASSUME Inv, SessionsKept, NEW t \in Tasks, task'[t] = task[t], Fades(t)
  PROVE  GoesOn(t)
<1>1. CASE task[t].pc = "idle"
  BY <1>1 DEF Inv, TaskOK, SavingOK, Fades, Holds, GoesOn, Waits
<1>2. CASE task[t].pc # "idle"
  <2>1. SameFile(t) /\ (OnItsWay(t)' => task'[t].pc \in {"put", "ended"}) /\ (Holds(t)' => Holds(t))
    BY DEF Inv, TaskOK, SameFile, Fades, Holds
  <2>2. saving[t].phase # "off" => task'[t].pc \in {"save", "ended"}
    BY DEF Inv, SavingOK
  <2> QED
    BY <1>2, <2>1, <2>2, TaskGoes
<1> QED
  BY <1>1, <1>2

\* A task that has ended needs no session, but for what is still on its way.
LEMMA TaskStops ==
  ASSUME Inv, SessionsKept, NEW t \in Tasks, SameFile(t), Fades(t), task[t].pc # "idle",
         task'[t].pc = "ended"
  PROVE  GoesOn(t)
  BY TaskGoes DEF Fades, Holds

\* What is stored under a name stays right if it is not replaced by something else.
LEMMA StoredStays ==
  ASSUME Inv, SessionsKept,
         \A m \in Names : \/ stored'[m] \in {stored[m], NoSession}
                          \/ (Opened(stored[m]) /\ sessions[stored[m]].name = m)'
  PROVE  StoredOK'
  BY DEF Inv, StoredOK, SessionsKept, SessionsGoOn, Opened

\* What was saved stays right.
LEMMA SavedStays == ASSUME Inv, SessionsKept, UNCHANGED saved PROVE SavedOK' /\ SavedOnce'
  BY DEF Inv, SavedOK, SavedOnce, SessionsKept, SessionsGoOn, Opened

\* A save that nothing happens to stays right, if no file disappears.
LEMMA SavingStays ==
  ASSUME Inv, SessionsKept, NEW t \in Tasks, saving'[t] = saving[t], Waits(t),
         \A s \in Servers, m \in Names : disk[s][m] # None => disk'[s][m] # None
  PROVE  SavingOK(t)'
<1>1. CASE saving[t].phase = "off"
  BY <1>1 DEF SavingOK
<1>2. CASE saving[t].phase # "off"
  <2>1. /\ task'[t].sess = task[t].sess /\ FileOf(t)' = FileOf(t)
        /\ task'[t].pc \in {"save", "ended"} /\ task[t].pc # "idle"
    BY <1>2 DEF Inv, SavingOK, Waits, SameFile, FileOf
  <2>2. FileOf(t) \in Files /\ NameOf[FileOf(t)] \in Names
    BY <2>1, ChosenFile
  <2>3. saving[t].phase \in {"asked", "found", "copying", "copied", "placed"} =>
          (Opened(task[t].sess) /\ sessions[task[t].sess].name = NameOf[FileOf(t)])'
    BY <2>1 DEF Inv, SavingOK, Opened, SessionsKept, SessionsGoOn
  <2>4. saving[t].phase \in {"found", "copied", "copying"} =>
          (sessions[task[t].sess].temp => sessions[task[t].sess].completed)'
    BY <2>1 DEF Inv, SavingOK, Opened, SessionsKept, SessionsGoOn
  <2>5. saving[t].phase = "copying" =>
          /\ disk'[saving[t].to][NameOf[FileOf(t)]] # None
          /\ \A i \in Pieces : Named(saving[t].from[i], t)'
    BY <2>1, <2>2 DEF Inv, SavingOK, Named
  <2>6. /\ saving[t].phase \in {"asked", "found", "copying"} => saving[t].to \in Servers
        /\ saving[t].phase = "copying" => saving[t].to \notin OneVolume
    BY DEF Inv, SavingOK
  <2> QED
    BY <2>1, <2>3, <2>4, <2>5, <2>6 DEF SavingOK
<1> QED
  BY <1>1, <1>2

\* The cancel button stays right if no task is taken back and the tab clears it.
LEMMA PageStays ==
  ASSUME Inv, \A t \in Tasks : task[t].pc # "idle" => task'[t].pc # "idle",
         page'.uploading => page.uploading /\ page'.controller = page.controller
  PROVE  PageOK'
  BY DEF Inv, PageOK

\* A task ends, with what the tab shows of it.
LEMMA Ends ==
  ASSUME Inv, NEW t \in Tasks, task[t].pc # "idle", End(t)
  PROVE  /\ TasksTyped' /\ page' \in PageRecords /\ PageOK'
         /\ SameFile(t) /\ task'[t].pc = "ended"
         /\ \A u \in Tasks \ {t} : task'[u] = task[u]
<1>1. task[t] \in TaskRecords
  BY DEF Inv, Types, TasksTyped
<1> DEFINE r == Over(task[t])
<1>2. task' = [task EXCEPT ![t] = r]
  BY DEF End, Inv, Types, TasksTyped
<1>3. r \in TaskRecords
  BY <1>1 DEF TaskRecords, PCs, Over
<1>4. r.pc = "ended" /\ r.sess = task[t].sess /\ r.queue = task[t].queue /\ r.at = task[t].at
  BY <1>1 DEF TaskRecords, Over
<1> HIDE DEF r
<1>5. TasksTyped' /\ SameFile(t) /\ task'[t].pc = "ended" /\ \A u \in Tasks \ {t} : task'[u] = task[u]
  BY <1>2, <1>3, <1>4 DEF Inv, Types, TasksTyped, SameFile
<1>6. page' \in PageRecords /\ page'.uploading = FALSE
  BY DEF End, Cleared, Inv, Types, PageRecords, SessionIds
<1> QED
  BY <1>5, <1>6 DEF PageOK

\* Connections that break only take away.
LEMMA Cuts ==
  ASSUME Inv, NEW broken, Cut(broken)
  PROVE  StreamsTyped' /\ \A t \in Tasks : Fades(t)
<1>1. ASSUME NEW t \in Tasks
      PROVE  /\ stream'[t] \in StreamRecords
             /\ OnItsWay(t)' => OnItsWay(t) /\ stream'[t].pos = stream[t].pos
  <2> DEFINE old == stream[t]
  <2>1. old \in StreamRecords
    BY DEF Inv, Types, StreamsTyped
  <2>2. \/ stream'[t] = old
        \/ stream'[t] = [old EXCEPT !.cut = TRUE]
        \/ stream'[t] = [phase |-> "off", pos |-> 0, cut |-> FALSE]
    BY DEF Cut
  <2>3. CASE stream'[t] = old
    BY <2>1, <2>3 DEF OnItsWay
  <2>4. CASE stream'[t] = [old EXCEPT !.cut = TRUE]
    BY <2>1, <2>4 DEF OnItsWay, StreamRecords
  <2>5. CASE stream'[t] = [phase |-> "off", pos |-> 0, cut |-> FALSE]
    BY <2>5 DEF OnItsWay, StreamRecords, Phases
  <2> QED
    BY <2>2, <2>3, <2>4, <2>5
<1> QED
  BY <1>1 DEF StreamsTyped, Fades, Cut

\* A stream changes its phase.
LEMMA Phased ==
  ASSUME Inv, NEW t \in Tasks, NEW p \in Phases, Phase(t, p)
  PROVE  /\ StreamsTyped' /\ stream'[t].phase = p
         /\ p = "writing" => stream'[t].pos = stream[t].pos
         /\ \A u \in Tasks \ {t} : stream'[u] = stream[u]
<1> DEFINE r == [stream[t] EXCEPT !.phase = p, !.pos = IF p = "writing" THEN @ ELSE 0,
                                  !.cut = @ /\ p = "writing"]
<1>1. stream[t] \in StreamRecords
  BY DEF Inv, Types, StreamsTyped
<1>2. stream' = [stream EXCEPT ![t] = r]
  BY DEF Phase, Inv, Types, StreamsTyped
<1>3. /\ r.phase = p /\ r.phase \in Phases
      /\ r.pos = (IF p = "writing" THEN stream[t].pos ELSE 0) /\ r.pos \in 0..Size
      /\ r.cut \in BOOLEAN
  BY <1>1 DEF StreamRecords
<1>4. r \in StreamRecords
  BY <1>1, <1>3 DEF StreamRecords
<1> HIDE DEF r
<1> QED
  BY <1>2, <1>3, <1>4 DEF Inv, Types, StreamsTyped

\* A task begins a file: the session it asks for was opened under the file's name.
LEMMA Begins ==
  ASSUME Inv, NEW t \in Tasks, NEW q \in Seq(Files), NEW i \in DOMAIN q,
         NEW c \in Tasks, BeginFile(t, q, i, c), ~OnItsWay(t),
         UNCHANGED <<sessions, stored, stream>>
  PROVE  /\ TasksTyped' /\ TaskOK(t)' /\ \A u \in Tasks \ {t} : GoesOn(u)
         /\ \A u \in Tasks : u = t \/ task[u].pc # "idle" => task'[u].pc # "idle"
<1>1. PICK n \in StoredSession(q[i]) :
        task' = [task EXCEPT ![t] = [@ EXCEPT !.queue = q, !.at = i, !.sess = n, !.signal = c,
                                              !.pc = IF n = NoSession THEN "init" ELSE "status"]]
  BY DEF BeginFile
<1>2. q[i] \in Files /\ i \in Nat \ {0} /\ NameOf[q[i]] \in Names
  BY DEF Names
<1>3. n \in SessionIds /\ (n # NoSession => Opened(n) /\ sessions[n].name = NameOf[q[i]])
  BY <1>2 DEF StoredSession, Inv, Types, StoredTyped, StoredOK, SessionIds
<1> DEFINE p == IF n = NoSession THEN "init" ELSE "status"
           r == [task[t] EXCEPT !.queue = q, !.at = i, !.sess = n, !.signal = c, !.pc = p]
<1>4. task[t] \in TaskRecords /\ p \in PCs /\ p \in {"init", "status"}
  BY DEF Inv, Types, TasksTyped, PCs, Running
<1>5. task' = [task EXCEPT ![t] = r]
  BY <1>1 DEF Inv, Types, TasksTyped
<1>6. n # NoSession <=> p = "status"
  OBVIOUS
<1> HIDE DEF p
<1>7. r.queue = q /\ r.at = i /\ r.sess = n /\ r.pc = p
  BY <1>4 DEF TaskRecords
<1>8. r \in TaskRecords
  BY <1>2, <1>3, <1>4 DEF TaskRecords
<1> HIDE DEF r
<1>9. task'[t] = r /\ (\A u \in Tasks \ {t} : task'[u] = task[u]) /\ TasksTyped'
  BY <1>5, <1>8 DEF Inv, Types, TasksTyped
<1>10. TaskOK(t)'
  BY <1>3, <1>4, <1>6, <1>7, <1>9 DEF TaskOK, OnItsWay, Holds, Opened, FileOf
<1>11. ASSUME NEW u \in Tasks \ {t} PROVE GoesOn(u)
  BY <1>9, <1>11, SessionsRest, TaskStays DEF Fades, OnItsWay
<1> QED
  BY <1>4, <1>7, <1>9, <1>10, <1>11

\* What is left of a file is sent from where all before it was written.
LEMMA Sends ==
  ASSUME Inv, SessionsKept, NEW t \in Tasks, task[t].pc \in {"status", "init"}, NEW n \in Ids,
         NEW from \in 0..Size, SendBlob(t, n, from), Opened(n)',
         sessions'[n].name = NameOf[FileOf(t)], \A i \in 1..from : Good(n, i)'
  PROVE  /\ TasksTyped' /\ StreamsTyped' /\ page' \in PageRecords /\ PageOK'
         /\ \A u \in Tasks : GoesOn(u)
<1> DEFINE r == [task[t] EXCEPT !.pc = IF task[t].signal \in page.aborted THEN "hung" ELSE "put", !.sess = n]
<1>1. task[t] \in TaskRecords /\ page \in PageRecords
  BY DEF Inv, Types, TasksTyped
<1>2. /\ r \in TaskRecords /\ r.sess = n /\ r.queue = task[t].queue /\ r.at = task[t].at
      /\ r.pc = (IF task[t].signal \in page.aborted THEN "hung" ELSE "put")
  BY <1>1 DEF TaskRecords, PCs, Running, SessionIds
<1>3. task' = [task EXCEPT ![t] = r]
  BY DEF SendBlob, Inv, Types, TasksTyped
<1> HIDE DEF r
<1>4. task'[t] = r /\ (\A u \in Tasks \ {t} : task'[u] = task[u]) /\ TasksTyped'
  BY <1>2, <1>3 DEF Inv, Types, TasksTyped
<1>5. page' \in PageRecords /\ page'.uploading = page.uploading /\ page'.controller = page.controller
  BY <1>1 DEF SendBlob, PageRecords, SessionIds
<1>6. PageOK'
  BY <1>2, <1>4, <1>5, PageStays
<1>7. StreamsTyped' /\ \A u \in Tasks \ {t} : stream'[u] = stream[u]
  <2>1. [phase |-> "sent", pos |-> from, cut |-> FALSE] \in StreamRecords
    BY DEF StreamRecords, Phases
  <2> QED
    BY <2>1 DEF SendBlob, Inv, Types, StreamsTyped
<1>8. TaskOK(t)'
  <2>1. task[t].at \in DOMAIN task[t].queue /\ FileOf(t)' = FileOf(t)
    BY <1>2, <1>4 DEF Inv, TaskOK, FileOf
  <2>2. CASE task[t].signal \in page.aborted
    <3>1. task'[t].pc = "hung" /\ ~OnItsWay(t)'
      BY <1>2, <1>4, <2>2 DEF SendBlob, Inv, TaskOK, OnItsWay
    <3> QED
      BY <1>2, <1>4, <2>1, <3>1 DEF TaskOK, Holds
  <2>3. CASE ~task[t].signal \in page.aborted
    <3>1. task'[t].pc = "put" /\ stream'[t].phase = "sent" /\ stream'[t].pos = from
      BY <1>2, <1>4, <2>3 DEF SendBlob, Inv, Types, StreamsTyped
    <3> QED
      BY <1>2, <1>4, <2>1, <3>1 DEF TaskOK, Holds, OnItsWay, Opened, Good
  <2> QED
    BY <2>2, <2>3
<1>9. ASSUME NEW u \in Tasks \ {t} PROVE GoesOn(u)
  BY <1>4, <1>7, <1>9, TaskStays DEF Fades, OnItsWay
<1>10. Waits(t)
  BY DEF Inv, SavingOK, Waits
<1> QED
  BY <1>4, <1>5, <1>6, <1>7, <1>8, <1>9, <1>10 DEF GoesOn

-----------------------------------------------------------------------------
(* The client's steps.                                                      *)

\* A step that leaves the sessions, what is stored and the saves alone.
LEMMA ClientStep ==
  ASSUME Inv, UNCHANGED <<sessions, stored, saving, disk, saved>>, TasksTyped', StreamsTyped',
         page' \in PageRecords, cancels' \subseteq Ids, PageOK', \A t \in Tasks : GoesOn(t)
  PROVE  Inv'
<1>1. SessionsKept
  BY SessionsRest
<1>2. StoredOK' /\ SavedOK' /\ SavedOnce'
  BY <1>1, StoredStays, SavedStays
<1>3. Types'
  BY <1>1 DEF Inv, Types, SessionsKept, StoredTyped, SavesTyped
<1>4. \A t \in Tasks : SavingOK(t)'
  BY <1>1, SavingStays DEF GoesOn
<1>5. DiskOK'
  BY DEF Inv, DiskOK
<1> QED
  BY <1>1, <1>2, <1>3, <1>4, <1>5 DEF Inv, SessionsKept, GoesOn

\* A step by which only one task ends.
LEMMA EndStep ==
  ASSUME Inv, NEW t \in Tasks, task[t].pc # "idle", End(t), StreamsTyped', \A u \in Tasks : Fades(u),
         UNCHANGED <<sessions, stored, saving, disk, saved>>, cancels' \subseteq Ids
  PROVE  Inv'
<1>1. SessionsKept
  BY SessionsRest
<1>2. /\ TasksTyped' /\ page' \in PageRecords /\ PageOK'
      /\ SameFile(t) /\ task'[t].pc = "ended"
      /\ \A u \in Tasks \ {t} : task'[u] = task[u]
  BY Ends
<1>3. ASSUME NEW u \in Tasks PROVE GoesOn(u)
  BY <1>1, <1>2, TaskStops, TaskStays
<1> QED
  BY <1>2, <1>3, ClientStep

LEMMA SelectStep ==
  ASSUME Inv, NEW t \in Tasks, NEW q \in Choices, HandleFileSelect(t, q) PROVE Inv'
<1> USE DEF HandleFileSelect
<1>1. PICK k \in 1..MaxSelect : q \in [1..k -> Files]
  BY DEF Choices
<1>2. q \in Seq(Files) /\ 1 \in DOMAIN q
  BY <1>1
<1>3. ~OnItsWay(t) /\ saving[t].phase = "off"
  BY DEF Inv, TaskOK, SavingOK
<1>4. TasksTyped' /\ (\A u \in Tasks : GoesOn(u)) /\ task'[t].pc # "idle"
  BY <1>2, <1>3, Begins DEF GoesOn, Waits
<1>5. page' \in PageRecords /\ PageOK'
  BY <1>4 DEF Inv, Types, PageRecords, PageOK, SessionIds
<1> QED
  BY <1>4, <1>5, ClientStep DEF Inv, Types, StreamsTyped, saveVars

\* A task goes to another control point.
LEMMA Moves ==
  ASSUME Inv, NEW t \in Tasks, NEW p \in PCs, task' = [task EXCEPT ![t].pc = p]
  PROVE  /\ TasksTyped' /\ SameFile(t) /\ task'[t].pc = p
         /\ \A u \in Tasks \ {t} : task'[u] = task[u]
<1> DEFINE r == [task[t] EXCEPT !.pc = p]
<1>1. task[t] \in TaskRecords /\ task' = [task EXCEPT ![t] = r]
  BY DEF Inv, Types, TasksTyped
<1>2. /\ r \in TaskRecords /\ r.pc = p
      /\ r.sess = task[t].sess /\ r.queue = task[t].queue /\ r.at = task[t].at
  BY <1>1 DEF TaskRecords
<1> HIDE DEF r
<1> QED
  BY <1>1, <1>2 DEF Inv, Types, TasksTyped, SameFile

\* The saves after a step of one of them.
LEMMA SavesStep ==
  ASSUME Inv, SessionsKept, NEW t \in Tasks, NEW new \in SaveRecords,
         saving' = [saving EXCEPT ![t] = new], SavingOK(t)',
         disk' \in [Servers -> [Names -> {None} \cup Contents]],
         \A s \in Servers, m \in Names : disk[s][m] # None => disk'[s][m] # None,
         \A u \in Tasks \ {t} : Waits(u)
  PROVE  SavesTyped' /\ \A u \in Tasks : SavingOK(u)'
<1>1. /\ saving' \in [Tasks -> SaveRecords]
      /\ \A u \in Tasks \ {t} : saving'[u] = saving[u]
  BY DEF Inv, Types, SavesTyped
<1>2. ASSUME NEW u \in Tasks \ {t} PROVE SavingOK(u)'
  BY <1>1, <1>2, SavingStays
<1> QED
  BY <1>1, <1>2 DEF SavesTyped

\* A step that leaves the sessions and streams alone and takes a task to its save.
LEMMA SaveStep ==
  ASSUME Inv, NEW t \in Tasks, task[t].pc \in {"status", "put"}, ~OnItsWay(t),
         AskToSave(t), UNCHANGED <<sessions, stream, page, cancels, disk, saved>>
  PROVE  Inv'
<1>1. SessionsKept
  BY SessionsRest
<1>2. /\ TasksTyped' /\ SameFile(t) /\ task'[t].pc = "save"
      /\ \A u \in Tasks \ {t} : task'[u] = task[u]
  BY Moves DEF AskToSave, PCs, Running
<1>3. StoredTyped' /\ StoredOK'
  <2>1. StoredTyped' /\ \A k \in Names : stored'[k] \in {stored[k], NoSession}
    BY DEF AskToSave, Inv, Types, StoredTyped, SessionIds
  <2> QED
    BY <1>1, <2>1, StoredStays
<1>4. PageOK' /\ SavedOK' /\ SavedOnce'
  BY <1>1, <1>2, PageStays, SavedStays
<1>5. GoesOn(t)
  <2>1. Holds(t) /\ Fades(t) /\ ~OnItsWay(t)'
    BY DEF Holds, Fades, OnItsWay
  <2> QED
    BY <1>1, <1>2, <2>1, TaskGoes
<1>6. ASSUME NEW u \in Tasks \ {t} PROVE GoesOn(u)
  BY <1>1, <1>2, <1>6, TaskStays DEF Fades, OnItsWay
<1> DEFINE new == [NoSave EXCEPT !.phase = "asked", !.to = page.server]
<1>7. /\ new \in SaveRecords /\ new.phase = "asked" /\ new.to = page.server
      /\ page.server \in Servers /\ saving' = [saving EXCEPT ![t] = new]
  BY NoSaveTyped DEF AskToSave, Inv, Types, PageRecords, SaveRecords, SavePhases
<1> HIDE DEF new
<1>8. SavingOK(t)'
  <2>1. saving'[t].phase = "asked" /\ saving'[t].to \in Servers
    BY <1>7 DEF Inv, Types, SavesTyped
  <2>2. Opened(task[t].sess) /\ sessions[task[t].sess].name = NameOf[FileOf(t)]
    BY DEF Inv, TaskOK, Holds
  <2>3. (Opened(task[t].sess) /\ sessions[task[t].sess].name = NameOf[FileOf(t)])'
    BY <1>2, <2>2 DEF Opened, SameFile, FileOf
  <2> QED
    BY <1>2, <2>1, <2>3 DEF SavingOK
<1>9. SavesTyped' /\ \A u \in Tasks : SavingOK(u)'
  BY <1>1, <1>6, <1>7, <1>8, SavesStep DEF Inv, Types, SavesTyped, GoesOn
<1>10. DiskOK'
  BY DEF Inv, DiskOK
<1> QED
  BY <1>1, <1>2, <1>3, <1>4, <1>5, <1>6, <1>9, <1>10
     DEF Inv, Types, SessionsKept, StreamsTyped, GoesOn

LEMMA ResumeStep == ASSUME Inv, NEW t \in Tasks, ResumeFrom(t) PROVE Inv'
<1> USE DEF ResumeFrom
<1>1. PICK n \in Ids : n = task[t].sess /\ sessions[n] # None
  BY DEF Inv, TaskOK, Holds, Opened
<1>2. /\ sessions[n] \in SessionRecords /\ sessions[n].name = NameOf[FileOf(t)]
      /\ ~OnItsWay(t)
  BY <1>1 DEF Inv, Types, SessionsTyped, TaskOK, Holds
<1>3. CASE sessions[n].completed
  BY <1>1, <1>2, <1>3, SaveStep
<1>4. CASE ~sessions[n].completed
  <2>1. SendBlob(t, n, sessions[n].bytes) /\ sessions[n].bytes \in 0..Size
    BY <1>1, <1>2, <1>4 DEF SessionRecords
  <2>2. SessionsKept
    BY SessionsRest
  <2>3. Opened(n)' /\ sessions'[n].name = NameOf[FileOf(t)]
    BY <1>1, <1>2 DEF Opened
  <2>4. \A i \in 1..sessions[n].bytes : Good(n, i)'
    BY <1>1 DEF Inv, SessionOK, Good
  <2>5. /\ TasksTyped' /\ StreamsTyped' /\ page' \in PageRecords /\ PageOK'
        /\ \A u \in Tasks : GoesOn(u)
    BY <2>1, <2>2, <2>3, <2>4, Sends
  <2> QED
    BY <1>1, <1>4, <2>5, ClientStep DEF Inv, Types
<1> QED
  BY <1>3, <1>4

LEMMA ResumeFailsStep == ASSUME Inv, NEW t \in Tasks, ResumeFails(t) PROVE Inv'
<1> USE DEF ResumeFails
<1> DEFINE r == [task[t] EXCEPT !.pc = "init", !.sess = NoSession]
<1>1. task[t] \in TaskRecords /\ task' = [task EXCEPT ![t] = r]
  BY DEF Inv, Types, TasksTyped
<1>2. /\ r \in TaskRecords /\ r.pc = "init" /\ r.queue = task[t].queue /\ r.at = task[t].at
  BY <1>1 DEF TaskRecords, PCs, Running, SessionIds
<1> HIDE DEF r
<1>3. TasksTyped' /\ task'[t] = r /\ \A u \in Tasks \ {t} : task'[u] = task[u]
  BY <1>1, <1>2 DEF Inv, Types, TasksTyped
<1>4. GoesOn(t)
  <2>1. ~OnItsWay(t) /\ ~OnItsWay(t)' /\ task[t].at \in DOMAIN task[t].queue /\ saving[t].phase = "off"
    BY DEF Inv, TaskOK, SavingOK, OnItsWay
  <2> QED
    BY <1>2, <1>3, <2>1 DEF TaskOK, Holds, GoesOn, Waits
<1>5. ASSUME NEW u \in Tasks \ {t} PROVE GoesOn(u)
  BY <1>3, <1>5, SessionsRest, TaskStays DEF Fades, OnItsWay
<1>6. PageOK'
  BY <1>2, <1>3, PageStays
<1> QED
  BY <1>3, <1>4, <1>5, <1>6, ClientStep DEF Inv, Types, StreamsTyped, saveVars

\* initUpload opens a session of its own for the file.
LEMMA InitSessionStep == ASSUME Inv, NEW t \in Tasks, InitSession(t) PROVE Inv'
<1> USE DEF InitSession
<1>1. PICK n \in Ids : /\ sessions[n] = None
                       /\ sessions' = [sessions EXCEPT ![n] = Session(FileOf(t))]
                       /\ stored' = [stored EXCEPT ![NameOf[FileOf(t)]] = n]
                       /\ SendBlob(t, n, 0)
  OBVIOUS
<1>2. FileOf(t) \in Files /\ NameOf[FileOf(t)] \in Names
  BY ChosenFile
<1>3. SessionsKept /\ Opened(n)' /\ sessions'[n].name = NameOf[FileOf(t)]
  BY <1>1, <1>2, SessionOpens
<1>4. /\ TasksTyped' /\ StreamsTyped' /\ page' \in PageRecords /\ PageOK'
      /\ \A u \in Tasks : GoesOn(u)
  <2>1. \A i \in 1..0 : Good(n, i)'
    OBVIOUS
  <2> QED
    BY <1>1, <1>3, <2>1, Sends
<1>5. StoredTyped' /\ StoredOK'
  <2>1. StoredTyped'
    BY <1>1, <1>2 DEF Inv, Types, StoredTyped, SessionIds
  <2>2. ASSUME NEW m \in Names
        PROVE  \/ stored'[m] \in {stored[m], NoSession}
               \/ (Opened(stored[m]) /\ sessions[stored[m]].name = m)'
    <3>1. CASE m = NameOf[FileOf(t)]
      <4>1. stored'[m] = n
        BY <1>1, <3>1 DEF Inv, Types, StoredTyped
      <4> QED
        BY <1>3, <3>1, <4>1 DEF Opened
    <3>2. CASE m # NameOf[FileOf(t)]
      BY <1>1, <3>2 DEF Inv, Types, StoredTyped
    <3> QED
      BY <3>1, <3>2
  <2> QED
    BY <1>3, <2>1, <2>2, StoredStays
<1>6. SavedOK' /\ SavedOnce'
  BY <1>3, SavedStays DEF saveVars
<1>7. SavesTyped' /\ DiskOK' /\ \A u \in Tasks : SavingOK(u)'
  BY <1>3, <1>4, SavingStays DEF saveVars, GoesOn, Inv, Types, SavesTyped, DiskOK
<1> QED
  BY <1>3, <1>4, <1>5, <1>6, <1>7 DEF Inv, Types, SessionsKept, GoesOn

LEMMA AnsweredStep == ASSUME Inv, NEW t \in Tasks, UploadAnswered(t) PROVE Inv'
<1> USE DEF UploadAnswered
<1>1. CASE stream[t].phase = "answered"
  BY <1>1, SaveStep DEF OnItsWay
<1>2. CASE stream[t].phase = "refused"
  BY <1>2, EndStep DEF Fades, OnItsWay, Inv, Types, StreamsTyped
<1> QED
  BY <1>1, <1>2

LEMMA NetworkErrorStep == ASSUME Inv, NEW t \in Tasks, NetworkError(t) PROVE Inv'
<1>1. StreamsTyped' /\ \A u \in Tasks : Fades(u)
  BY Cuts DEF NetworkError
<1> QED
  BY <1>1, EndStep DEF NetworkError, Inv, Types, saveVars

\* A task ends when its PUT is broken off or the page is left.
LEMMA OverTask ==
  ASSUME Inv, NEW t \in Tasks, task[t].pc # "idle", task'[t] = Over(task[t])
  PROVE  task'[t] \in TaskRecords /\ SameFile(t) /\ task'[t].pc = "ended"
<1>1. task[t] \in TaskRecords
  BY DEF Inv, Types, TasksTyped
<1> QED
  BY <1>1 DEF TaskRecords, PCs, SameFile, Over

\* The controller that is aborted breaks off the PUTs that have its signal.
LEMMA CancelStep == ASSUME Inv, CancelCurrentUpload PROVE Inv'
<1> USE DEF CancelCurrentUpload
<1> DEFINE broken == {t \in Tasks : task[t].pc = "put" /\ task[t].signal = page.controller}
<1>1. cancels' \subseteq Ids /\ page.controller \in Tasks
  BY DEF Inv, Types, PageRecords, SessionIds, PageOK
<1>2. StreamsTyped' /\ \A u \in Tasks : Fades(u)
  BY Cuts
<1>3. ASSUME NEW t \in Tasks
      PROVE  /\ task'[t] \in TaskRecords /\ GoesOn(t)
             /\ task[t].pc # "idle" => task'[t].pc # "idle"
  <2>1. task[t] \in TaskRecords
    BY DEF Inv, Types, TasksTyped
  <2>2. CASE t \in broken
    BY <1>2, <2>2, OverTask, SessionsRest, TaskStops
  <2>3. CASE t \notin broken
    BY <1>2, <2>1, <2>3, SessionsRest, TaskStays
  <2> QED
    BY <2>2, <2>3
<1>4. TasksTyped'
  BY <1>3 DEF TasksTyped
<1>5. /\ page' \in PageRecords
      /\ page'.uploading => page.uploading /\ page'.controller = page.controller
  <2>1. page \in PageRecords /\ NoSession \in SessionIds
    BY DEF Inv, Types, SessionIds
  <2>2. CASE broken = {}
    <3>1. page' = [page EXCEPT !.aborted = @ \cup {page.controller}]
      BY <2>2
    <3> QED
      BY <1>1, <2>1, <3>1 DEF PageRecords
  <2>3. CASE broken # {}
    <3>1. PICK clear \in PageRecords : clear = Cleared
      BY <2>1 DEF PageRecords, Cleared
    <3>2. clear.uploading = FALSE
      BY <2>1, <3>1 DEF PageRecords, Cleared
    <3>3. page' = [clear EXCEPT !.aborted = @ \cup {page.controller}]
      BY <2>3, <3>1
    <3> QED
      BY <1>1, <3>2, <3>3 DEF PageRecords
  <2> QED
    BY <2>2, <2>3
<1>6. PageOK'
  BY <1>3, <1>5, PageStays
<1> QED
  BY <1>1, <1>2, <1>3, <1>4, <1>5, <1>6, ClientStep DEF saveVars

\* The next file is begun, the list is read, or the task is over; the save is forgotten.
LEMMA SaveAnsweredStep == ASSUME Inv, NEW t \in Tasks, SaveAnswered(t) PROVE Inv'
<1> USE DEF SaveAnswered
<1>1. /\ task[t] \in TaskRecords /\ task[t].queue \in Seq(Files) /\ page \in PageRecords
      /\ task[t].at \in DOMAIN task[t].queue /\ ~OnItsWay(t)
  BY DEF Inv, Types, TasksTyped, TaskRecords, TaskOK
<1>2. \A u \in Tasks : Fades(u)
  BY DEF Fades, OnItsWay
<1>3. /\ TasksTyped' /\ page' \in PageRecords /\ PageOK'
      /\ TaskOK(t)' /\ \A u \in Tasks \ {t} : GoesOn(u)
  <2>1. CASE /\ task[t].at < Len(task[t].queue) /\ page.controller # None
             /\ BeginFile(t, task[t].queue, task[t].at + 1, page.controller)
             /\ page' = [page EXCEPT !.progress = NoSession]
    <3>1. task[t].at + 1 \in DOMAIN task[t].queue /\ page.controller \in Tasks
      BY <1>1, <2>1 DEF TaskRecords, PageRecords
    <3>2. /\ TasksTyped' /\ TaskOK(t)' /\ \A u \in Tasks \ {t} : GoesOn(u)
          /\ \A u \in Tasks : task[u].pc # "idle" => task'[u].pc # "idle"
      BY <1>1, <2>1, <3>1, Begins
    <3>3. page' \in PageRecords /\ PageOK'
      BY <1>1, <2>1, <3>2 DEF Inv, PageRecords, PageOK, SessionIds
    <3> QED
      BY <3>2, <3>3
  <2>2. CASE task' = [task EXCEPT ![t].pc = "list"] /\ UNCHANGED page
    <3>1. /\ TasksTyped' /\ SameFile(t) /\ task'[t].pc = "list"
          /\ \A u \in Tasks \ {t} : task'[u] = task[u]
      BY <2>2, Moves DEF PCs, Running
    <3>2. PageOK'
      BY <2>2, <3>1, PageStays
    <3>3. TaskOK(t)'
      BY <1>1, <3>1 DEF TaskOK, Holds, OnItsWay, SameFile
    <3>4. ASSUME NEW u \in Tasks \ {t} PROVE GoesOn(u)
      BY <1>2, <3>1, <3>4, SessionsRest, TaskStays
    <3> QED
      BY <1>1, <2>2, <3>1, <3>2, <3>3, <3>4
  <2>3. CASE End(t)
    <3>1. /\ TasksTyped' /\ page' \in PageRecords /\ PageOK'
          /\ SameFile(t) /\ task'[t].pc = "ended"
          /\ \A u \in Tasks \ {t} : task'[u] = task[u]
      BY <2>3, Ends
    <3> QED
      BY <1>2, <3>1, SessionsRest, TaskStops, TaskStays DEF GoesOn
  <2> QED
    BY <2>1, <2>2, <2>3
<1>4. saving'[t] = NoSave /\ \A u \in Tasks \ {t} : saving'[u] = saving[u]
  BY DEF Inv, Types, SavesTyped
<1>5. SavingOK(t)'
  BY <1>4 DEF SavingOK, NoSave
<1>6. SavesTyped' /\ \A u \in Tasks : SavingOK(u)'
  BY <1>3, <1>5, NoSaveTyped, SessionsRest, SavesStep DEF Inv, Types, SavesTyped, GoesOn
<1>7. SessionsKept /\ StoredOK' /\ SavedOK' /\ SavedOnce' /\ DiskOK'
  BY SessionsRest, StoredStays, SavedStays DEF Inv, DiskOK
<1> QED
  BY <1>3, <1>6, <1>7 DEF Inv, Types, SessionsKept, StoredTyped, StreamsTyped, GoesOn

\* A call that fails, and the last answer, end the task.
LEMMA OverStep ==
  ASSUME Inv, NEW t \in Tasks, InitFails(t) \/ FilesListed(t) \/ SaveLost(t) PROVE Inv'
  BY EndStep DEF InitFails, FilesListed, SaveLost, Fades, OnItsWay, Inv, Types, StreamsTyped, saveVars

\* What only the tab shows.
LEMMA PageStep ==
  ASSUME Inv, page' \in PageRecords, page'.uploading => page.uploading,
         page'.controller = page.controller,
         UNCHANGED <<sessions, stored, task, stream, cancels, saveVars>>
  PROVE  Inv'
<1>1. ASSUME NEW u \in Tasks PROVE GoesOn(u)
  BY SessionsRest, TaskStays DEF Fades, OnItsWay
<1>2. PageOK'
  BY PageStays
<1> QED
  BY <1>1, <1>2, ClientStep DEF Inv, Types, TasksTyped, StreamsTyped, saveVars

LEMMA ProgressStep == ASSUME Inv, NEW t \in Tasks, ProgressEvent(t) PROVE Inv'
<1>1. task[t].sess \in SessionIds
  BY DEF Inv, Types, TasksTyped, TaskRecords
<1>2. page' \in PageRecords /\ page'.uploading = page.uploading /\ page'.controller = page.controller
  BY <1>1 DEF ProgressEvent, Inv, Types, PageRecords
<1> QED
  BY <1>2, PageStep DEF ProgressEvent

LEMMA SwitchStep == ASSUME Inv, NEW s \in Servers, SwitchServer(s) PROVE Inv'
<1>1. page' \in PageRecords /\ ~page'.uploading /\ page'.controller = page.controller
  BY DEF SwitchServer, Inv, Types, PageRecords
<1> QED
  BY <1>1, PageStep DEF SwitchServer

\* A page that is loaded anew ends every task and breaks every connection.
LEMMA ReloadStep == ASSUME Inv, Reload PROVE Inv'
<1> USE DEF Reload
<1>1. StreamsTyped' /\ \A t \in Tasks : Fades(t)
  BY Cuts
<1>2. ASSUME NEW t \in Tasks
      PROVE  task'[t] \in TaskRecords /\ GoesOn(t)
  <2>1. task[t] \in TaskRecords
    BY DEF Inv, Types, TasksTyped
  <2>2. CASE task[t].pc = "idle"
    <3>1. task'[t] = task[t]
      BY <2>2
    <3> QED
      BY <1>1, <2>1, <3>1, SessionsRest, TaskStays
  <2>3. CASE task[t].pc # "idle"
    BY <1>1, <2>3, OverTask, SessionsRest, TaskStops
  <2> QED
    BY <2>2, <2>3
<1>3. TasksTyped'
  BY <1>2 DEF TasksTyped
<1>4. page' \in PageRecords /\ PageOK'
  <2>1. page' \in PageRecords /\ page'.uploading = FALSE
    BY DEF Cleared, Inv, Types, PageRecords, SessionIds
  <2> QED
    BY <2>1 DEF PageOK
<1> QED
  BY <1>1, <1>2, <1>3, <1>4, ClientStep DEF Inv, Types, saveVars

-----------------------------------------------------------------------------
(* The server's steps.                                                      *)

\* A step that leaves the browser and what it stored alone.
LEMMA ServerStep ==
  ASSUME Inv, SessionsKept, StreamsTyped', cancels' \subseteq Ids, \A t \in Tasks : TaskOK(t)',
         UNCHANGED <<stored, task, page, saveVars>>
  PROVE  Inv'
<1>1. StoredOK' /\ SavedOK' /\ SavedOnce' /\ PageOK'
  BY StoredStays, SavedStays, PageStays DEF saveVars
<1>2. \A t \in Tasks : SavingOK(t)'
  BY SavingStays DEF Inv, SavingOK, Waits, SameFile, saveVars
<1>3. SavesTyped' /\ DiskOK'
  BY DEF Inv, Types, SavesTyped, DiskOK, saveVars
<1> QED
  BY <1>1, <1>2, <1>3 DEF Inv, Types, SessionsKept, StoredTyped, TasksTyped

\* A stream that begins to write, is refused, or is cut.
LEMMA PhaseStep ==
  ASSUME Inv, NEW t \in Tasks, NEW p \in Phases \ {"sent"}, Phase(t, p), p = "writing" => OnItsWay(t),
         SessionsKept, UNCHANGED <<stored, task, page, cancels, saveVars>>
  PROVE  Inv'
<1>1. /\ StreamsTyped' /\ stream'[t].phase = p
      /\ p = "writing" => stream'[t].pos = stream[t].pos
      /\ \A u \in Tasks \ {t} : stream'[u] = stream[u]
  BY Phased
<1>2. \A u \in Tasks : Fades(u)
  BY <1>1 DEF Fades, OnItsWay
<1>3. ASSUME NEW u \in Tasks PROVE TaskOK(u)'
  BY <1>2, TaskStays DEF GoesOn
<1> QED
  BY <1>1, <1>3, ServerStep DEF Inv, Types

LEMMA StreamBeginsStep == ASSUME Inv, NEW t \in Tasks, StreamBegins(t) PROVE Inv'
<1>1. PICK p \in {"writing", "refused"} : Phase(t, p)
  BY DEF StreamBegins
<1> QED
  BY <1>1, SessionsRest, PhaseStep DEF StreamBegins, Phases, OnItsWay

LEMMA StreamBreaksStep == ASSUME Inv, NEW t \in Tasks, StreamBreaks(t) PROVE Inv'
  BY SessionsRest, PhaseStep DEF StreamBreaks, Phases

\* The stream has what it wrote behind it, whatever other streams count.
LEMMA StreamWritesStep == ASSUME Inv, NEW t \in Tasks, StreamWrites(t) PROVE Inv'
<1> USE DEF StreamWrites
<1>1. PICK n \in Ids : n = task[t].sess /\ sessions[n] # None
  BY DEF Inv, TaskOK, OnItsWay, Holds, Opened
<1>2. stream[t] \in StreamRecords /\ stream[t].pos + 1 <= Size
  BY DEF Inv, Types, StreamsTyped
<1>3. PICK p \in Pieces : p = stream[t].pos + 1
  BY <1>2 DEF StreamRecords, Pieces
<1>4. CASE sessions[n].open
  <2>1. Writes(n, p, FileOf(t)) /\ stream' = [stream EXCEPT ![t].pos = p]
    BY <1>1, <1>3, <1>4 DEF Writes
  <2>2. SessionsKept /\ \A i \in 1..p : Good(n, i)'
    BY <1>1, <1>3, <1>4, <2>1, PieceWritten
  <2> DEFINE r == [stream[t] EXCEPT !.pos = p]
  <2>3. r \in StreamRecords /\ r.phase = stream[t].phase /\ r.pos = p
    BY <1>2, <1>3 DEF StreamRecords, Pieces
  <2>4. stream' = [stream EXCEPT ![t] = r]
    BY <2>1 DEF Inv, Types, StreamsTyped
  <2> HIDE DEF r
  <2>5. /\ StreamsTyped' /\ stream'[t].phase = stream[t].phase /\ stream'[t].pos = p
        /\ \A u \in Tasks \ {t} : stream'[u] = stream[u]
    BY <2>3, <2>4 DEF Inv, Types, StreamsTyped
  <2>6. TaskOK(t)'
    <3>1. /\ task[t].pc # "idle" => task[t].at \in DOMAIN task[t].queue
          /\ task[t].pc \in {"put", "ended"}
          /\ sessions[n].name = NameOf[FileOf(t)]
      BY <1>1 DEF Inv, TaskOK, OnItsWay, Holds
    <3>2. sessions'[n] # None /\ sessions'[n].name = NameOf[FileOf(t)] /\ FileOf(t)' = FileOf(t)
      BY <1>1, <2>2, <3>1 DEF SessionsKept, SessionsGoOn, FileOf
    <3>3. task'[t] = task[t] /\ task[t].sess = n
      BY <1>1
    <3> QED
      BY <2>2, <2>5, <3>1, <3>2, <3>3 DEF TaskOK, OnItsWay, Holds, Opened, Good
  <2>7. ASSUME NEW u \in Tasks \ {t} PROVE TaskOK(u)'
    BY <2>2, <2>5, <2>7, TaskStays DEF Fades, OnItsWay, GoesOn
  <2> QED
    BY <2>2, <2>5, <2>6, <2>7, ServerStep DEF Inv, Types
<1>5. CASE ~sessions[n].open
  BY <1>1, <1>5, SessionsRest, PhaseStep DEF Phases
<1> QED
  BY <1>4, <1>5

LEMMA StreamEndsStep == ASSUME Inv, NEW t \in Tasks, StreamEnds(t) PROVE Inv'
<1> USE DEF StreamEnds
<1>1. PICK n \in Ids : n = task[t].sess /\ sessions[n] # None
  BY DEF Inv, TaskOK, OnItsWay, Holds, Opened
<1>2. UNCHANGED sessions \/ (sessions[n].bytes >= Size /\ Completes(n))
  BY <1>1 DEF Completes
<1>3. SessionsKept
  BY <1>1, <1>2, SessionsRest, SessionCompletes
<1> QED
  BY <1>3, PhaseStep DEF Phases

\* cleanupSession, by a cancellation or by the age of the session.
LEMMA CleanupStep == ASSUME Inv, NEW n \in Ids, CancelArrives(n) \/ SessionExpires(n) PROVE Inv'
<1> USE DEF CancelArrives, SessionExpires
<1>1. SessionsKept
  BY SessionsRest, SessionDiscarded DEF Listed
<1>2. ASSUME NEW t \in Tasks PROVE TaskOK(t)'
  BY <1>1, TaskStays DEF Fades, OnItsWay, GoesOn
<1>3. StreamsTyped' /\ cancels' \subseteq Ids
  BY DEF Inv, Types, StreamsTyped
<1> QED
  BY <1>1, <1>2, <1>3, ServerStep

-----------------------------------------------------------------------------
(* The steps of a save.                                                     *)

\* A step of a save that leaves the browser, what it stored and the streams alone.
LEMMA SaverStep ==
  ASSUME Inv, SessionsKept, NEW t \in Tasks, NEW new \in SaveRecords,
         saving' = [saving EXCEPT ![t] = new],
         SavingOK(t)', SavedOK', SavedOnce', DiskOK',
         disk' \in [Servers -> [Names -> {None} \cup Contents]],
         \A s \in Servers, m \in Names : disk[s][m] # None => disk'[s][m] # None,
         ServerRest
  PROVE  Inv'
<1> USE DEF ServerRest
<1>1. \A u \in Tasks : TaskOK(u)' /\ Waits(u)
  BY TaskStays DEF Fades, OnItsWay, GoesOn
<1>2. SavesTyped' /\ \A u \in Tasks : SavingOK(u)'
  BY <1>1, SavesStep
<1>3. StoredOK' /\ PageOK'
  BY StoredStays, PageStays
<1> QED
  BY <1>1, <1>2, <1>3 DEF Inv, Types, SessionsKept, StoredTyped, TasksTyped, StreamsTyped

\* The pieces of a file of a name, which may be missing where it is copied.
PartOf(d, s, m) == \A i \in Pieces : \/ d[i] \in Files /\ NameOf[d[i]] = m
                                     \/ s \notin OneVolume /\ d[i] = None
LandsAt(s, m, d) == disk' = [disk EXCEPT ![s][m] = d]
\* Nothing that was there is gone.
NoneGone == \A s \in Servers, m \in Names : disk[s][m] # None => disk'[s][m] # None
DiskStays == DiskOK' /\ disk' \in [Servers -> [Names -> {None} \cup Contents]] /\ NoneGone

\* A file lands under a name.
LEMMA DiskLands ==
  ASSUME Inv, NEW s \in Servers, NEW m \in Names, NEW d \in Contents, LandsAt(s, m, d), PartOf(d, s, m)
  PROVE  DiskStays /\ disk'[s][m] = d /\ d # None
<1>1. disk \in [Servers -> [Names -> {None} \cup Contents]] /\ d # None
  BY DEF Inv, Types, SavesTyped
<1>2. /\ disk' \in [Servers -> [Names -> {None} \cup Contents]]
      /\ \A w \in Servers, k \in Names : disk'[w][k] = IF w = s /\ k = m THEN d ELSE disk[w][k]
  BY <1>1 DEF LandsAt
<1>3. DiskOK'
  BY <1>1, <1>2 DEF Inv, DiskOK, PartOf
<1> QED
  BY <1>1, <1>2, <1>3 DEF DiskStays, NoneGone

\* What a save of a task knows: its record, its session and the name of its file.
LEMMA Saver ==
  ASSUME Inv, NEW t \in Tasks, saving[t].phase \in {"asked", "found", "copying", "copied", "placed"}
  PROVE  /\ saving[t] \in SaveRecords /\ saving \in [Tasks -> SaveRecords]
         /\ disk \in [Servers -> [Names -> {None} \cup Contents]]
         /\ task[t].sess \in Ids /\ sessions[task[t].sess] # None
         /\ sessions[task[t].sess].name = NameOf[FileOf(t)]
         /\ FileOf(t) \in Files /\ NameOf[FileOf(t)] \in Names
         /\ task[t].pc \in {"save", "ended"}
<1>1. saving[t] \in SaveRecords /\ saving \in [Tasks -> SaveRecords]
      /\ disk \in [Servers -> [Names -> {None} \cup Contents]]
  BY DEF Inv, Types, SavesTyped
<1>2. /\ Opened(task[t].sess) /\ sessions[task[t].sess].name = NameOf[FileOf(t)]
      /\ task[t].pc \in {"save", "ended"}
  BY DEF Inv, SavingOK
<1>3. FileOf(t) \in Files /\ NameOf[FileOf(t)] \in Names
  BY <1>2, ChosenFile
<1> QED
  BY <1>1, <1>2, <1>3 DEF Opened

\* A save goes on only with a session that is complete.
LEMMA LooksUpStep == ASSUME Inv, NEW t \in Tasks, SaveLooksUp(t) PROVE Inv'
<1> USE DEF SaveLooksUp, SaveGoes, ServerRest
<1> DEFINE p == IF Listed(task[t].sess) /\ TakesFrom(t).completed THEN "found" ELSE "failed"
           new == [saving[t] EXCEPT !.phase = p]
<1>1. saving[t] \in SaveRecords /\ saving[t].to \in Servers
  BY Saver DEF Inv, SavingOK
<1>2. new \in SaveRecords /\ saving' = [saving EXCEPT ![t] = new] /\ new.phase = p /\ new.to = saving[t].to
  BY <1>1, Saver DEF SaveRecords, SavePhases
<1>3. p = "failed" \/ (p = "found" /\ sessions[task[t].sess].completed)
  BY DEF TakesFrom
<1> HIDE DEF p, new
<1>4. saving'[t] = new
  BY <1>2, Saver
<1>5. SavingOK(t)'
  BY <1>1, <1>2, <1>3, <1>4 DEF Inv, SavingOK, Opened, FileOf
<1>6. SessionsKept /\ SavedOK' /\ SavedOnce' /\ DiskOK'
  BY SessionsRest, SavedStays DEF Inv, DiskOK
<1> QED
  BY <1>2, <1>5, <1>6, Saver, SaverStep

\* A file lands whole within the volume, and leaves a session without its temporary file, so
\* that it is not moved again.
LEMMA RenamesStep == ASSUME Inv, NEW t \in Tasks, SaveRenames(t) PROVE Inv'
<1> USE DEF SaveRenames, SaveGoes
<1> DEFINE new == [saving[t] EXCEPT !.phase = "placed"]
<1>1. PICK n \in Ids, m \in Names, s \in Servers, f \in Files :
        /\ n = task[t].sess /\ m = NameOf[FileOf(t)] /\ s = saving[t].to /\ f = FileOf(t)
        /\ sessions[n] # None /\ sessions[n].temp /\ sessions[n].completed /\ sessions[n].name = m
  BY Saver DEF Inv, SavingOK, TakesFrom
<1>2. SessionsKept /\ ~sessions'[n].temp
  BY <1>1, TempGoes
<1>3. PICK d \in Contents : d = sessions[n].data /\ \A i \in Pieces : d[i] \in Files /\ NameOf[d[i]] = m
  BY <1>1 DEF Inv, Types, SessionsTyped, SessionRecords, SessionOK, Good
<1>4. PICK x : x = [by |-> t, sess |-> n, file |-> f, server |-> s]
  OBVIOUS
<1>5. /\ LandsAt(s, m, d) /\ saved' = saved \cup {x}
      /\ saving' = [saving EXCEPT ![t] = new] /\ ServerRest
  BY <1>1, <1>3, <1>4 DEF Lands, LandsAt, Saves, TakesFrom
<1>6. new \in SaveRecords /\ new.phase = "placed"
  BY Saver DEF SaveRecords, SavePhases
<1>7. x.sess = n /\ s \in OneVolume
  BY <1>1, <1>4
<1> HIDE DEF new
<1>8. SavedOK' /\ SavedOnce'
  <2>1. \A y \in saved : y.server \in OneVolume => y.sess # n
    BY <1>1 DEF Inv, SavedOK
  <2>2. SavedOnce'
    BY <1>5, <1>7, <2>1 DEF Inv, SavedOnce
  <2>3. ASSUME NEW y \in saved PROVE (Opened(y.sess) /\ (y.server \in OneVolume => ~sessions[y.sess].temp))'
    BY <1>2 DEF Inv, SavedOK, SessionsKept, SessionsGoOn, Opened
  <2>4. (Opened(x.sess) /\ ~sessions[x.sess].temp)'
    BY <1>1, <1>2, <1>7 DEF SessionsKept, SessionsGoOn, Opened
  <2> QED
    BY <1>5, <2>2, <2>3, <2>4 DEF SavedOK
<1>9. DiskStays
  <2>1. PartOf(d, s, m)
    BY <1>3 DEF PartOf
  <2> QED
    BY <1>5, <2>1, DiskLands
<1>10. SavingOK(t)'
  <2>1. saving'[t].phase = "placed"
    BY <1>5, <1>6, Saver
  <2>2. task' = task /\ FileOf(t)' = FileOf(t)
    BY <1>5 DEF ServerRest, FileOf
  <2>3. (Opened(n) /\ sessions[n].name = m)'
    BY <1>1, <1>2 DEF SessionsKept, SessionsGoOn, Opened
  <2> QED
    BY <1>1, <2>1, <2>2, <2>3, Saver DEF SavingOK
<1> QED
  BY <1>2, <1>5, <1>6, <1>8, <1>9, <1>10, SaverStep DEF DiskStays, NoneGone

\* A save that copies knows the pieces it writes.
Follows(from, t) == \A i \in Pieces : Named(from[i], t)

LEMMA Copies ==
  ASSUME Inv, NEW t \in Tasks, saving[t].phase \in {"found", "copying"}, NEW new \in SaveRecords,
         new.phase = "copying", new.to = saving[t].to, new.to \notin OneVolume,
         Follows(new.from, t), saving'[t] = new, UNCHANGED sessions, ServerRest,
         disk'[new.to][NameOf[FileOf(t)]] # None
  PROVE  SavingOK(t)'
<1> DEFINE n == task[t].sess
<1>1. /\ Opened(n) /\ sessions[n].name = NameOf[FileOf(t)] /\ task[t].pc \in {"save", "ended"}
      /\ sessions[n].temp => sessions[n].completed
      /\ new.to \in Servers
  BY DEF Inv, SavingOK
<1>2. task' = task
  BY DEF ServerRest
<1>3. FileOf(t)' = FileOf(t) /\ Opened(n)'
  BY <1>1, <1>2 DEF FileOf, Opened
<1>4. (\A i \in Pieces : Named(saving[t].from[i], t))'
  BY <1>2, <1>3 DEF Follows, Named
<1> QED
  BY <1>1, <1>2, <1>3, <1>4 DEF SavingOK

\* The copy starts from nothing.
LEMMA CopyBeginsStep == ASSUME Inv, NEW t \in Tasks, CopyBegins(t) PROVE Inv'
<1> USE DEF CopyBegins
<1> DEFINE new == [saving[t] EXCEPT !.phase = "copying", !.from = TakesFrom(t).data]
<1>1. PICK n \in Ids, m \in Names, s \in Servers :
        /\ n = task[t].sess /\ m = NameOf[FileOf(t)] /\ s = saving[t].to
        /\ sessions[n] # None /\ sessions[n].temp /\ sessions[n].completed /\ sessions[n].name = m
  BY Saver DEF Inv, SavingOK, TakesFrom
<1>2. /\ sessions[n].data \in Contents
      /\ \A i \in Pieces : sessions[n].data[i] \in Files /\ NameOf[sessions[n].data[i]] = m
  BY <1>1 DEF Inv, Types, SessionsTyped, SessionRecords, SessionOK, Good
<1>3. /\ new \in SaveRecords /\ new.phase = "copying" /\ new.from = sessions[n].data /\ new.to = s
  BY <1>1, <1>2, Saver DEF SaveRecords, SavePhases, TakesFrom
<1>4. /\ LandsAt(s, m, Blank) /\ saving' = [saving EXCEPT ![t] = new]
      /\ ServerRest
  BY <1>1 DEF Lands, LandsAt
<1> HIDE DEF new
<1>5. PartOf(Blank, s, m)
  BY <1>1 DEF Blank, PartOf
<1>6. DiskStays /\ disk'[s][m] # None
  BY <1>4, <1>5, NoSaveTyped, DiskLands
<1>7. SavingOK(t)'
  <2>1. Follows(new.from, t) /\ saving'[t] = new
    BY <1>1, <1>2, <1>3, <1>4, Saver DEF Follows, Named
  <2>2. disk'[new.to][NameOf[FileOf(t)]] # None
    BY <1>1, <1>3, <1>6
  <2> QED
    BY <1>1, <1>3, <1>4, <2>1, <2>2, Copies
<1>8. SessionsKept /\ SavedOK' /\ SavedOnce'
  BY SessionsRest, SavedStays
<1> QED
  BY <1>3, <1>4, <1>6, <1>7, <1>8, SaverStep DEF DiskStays, NoneGone

\* A piece of the file of that name is written under it.
LEMMA CopyWritesStep == ASSUME Inv, NEW t \in Tasks, CopyWrites(t) PROVE Inv'
<1> USE DEF CopyWrites
<1>1. PICK m \in Names, s \in Servers, f \in Contents :
        /\ m = NameOf[FileOf(t)] /\ s = saving[t].to /\ f = saving[t].from
        /\ s \notin OneVolume /\ saving[t] \in SaveRecords
        /\ disk[s][m] # None /\ \A i \in Pieces : Named(f[i], t)
        /\ disk \in [Servers -> [Names -> {None} \cup Contents]]
  BY Saver DEF Inv, SavingOK, SaveRecords
<1>2. PICK p \in Pieces : p = saving[t].pos + 1 /\ p \in 0..Size /\ disk[s][m] \in Contents
  BY <1>1 DEF SaveRecords, Pieces
<1> DEFINE new == [saving[t] EXCEPT !.pos = p]
<1>3. f[p] \in Files /\ NameOf[f[p]] = m
  BY <1>1, <1>2 DEF Named
<1>4. new \in SaveRecords /\ new.phase = "copying" /\ new.from = f /\ new.to = s
  BY <1>1, <1>2 DEF SaveRecords
<1>5. PICK old \in Contents, piece \in Files : old = disk[s][m] /\ piece = f[p]
  BY <1>2, <1>3
<1>6. PICK d \in Contents : d = [old EXCEPT ![p] = piece]
  BY DEF Contents
<1>7. LandsAt(s, m, d) /\ PartOf(d, s, m) /\ saving' = [saving EXCEPT ![t] = new] /\ ServerRest
  <2>1. LandsAt(s, m, d) /\ saving' = [saving EXCEPT ![t] = new] /\ ServerRest
    BY <1>1, <1>2, <1>5, <1>6 DEF LandsAt
  <2>2. ASSUME NEW i \in Pieces
        PROVE  (d[i] \in Files /\ NameOf[d[i]] = m) \/ (s \notin OneVolume /\ d[i] = None)
    <3>1. (old[i] \in Files /\ NameOf[old[i]] = m) \/ old[i] = None
      BY <1>1, <1>5 DEF Inv, DiskOK
    <3>2. d[i] = IF i = p THEN piece ELSE old[i]
      BY <1>6 DEF Contents
    <3> QED
      BY <1>1, <1>3, <1>5, <3>1, <3>2
  <2> QED
    BY <2>1, <2>2 DEF PartOf
<1> HIDE DEF new
<1>8. DiskStays /\ disk'[s][m] # None
  BY <1>7, DiskLands
<1>9. SavingOK(t)'
  <2>1. Follows(new.from, t) /\ saving'[t] = new
    BY <1>1, <1>4, <1>7, Saver DEF Follows
  <2>2. disk'[new.to][NameOf[FileOf(t)]] # None
    BY <1>1, <1>4, <1>8
  <2> QED
    BY <1>1, <1>4, <1>7, <2>1, <2>2, Copies
<1>10. SessionsKept /\ SavedOK' /\ SavedOnce'
  BY SessionsRest, SavedStays
<1> QED
  BY <1>4, <1>7, <1>8, <1>9, <1>10, SaverStep DEF DiskStays, NoneGone

\* A copy is counted where nothing is claimed of how often it is made.
LEMMA CopyEndsStep == ASSUME Inv, NEW t \in Tasks, CopyEnds(t) PROVE Inv'
<1> USE DEF CopyEnds
<1> DEFINE new == [NoSave EXCEPT !.phase = "copied"]
           x == [by |-> t, sess |-> task[t].sess, file |-> FileOf(t), server |-> saving[t].to]
<1>1. new \in SaveRecords /\ new.phase = "copied"
  BY NoSaveTyped DEF SaveRecords, SavePhases
<1>2. saving' = [saving EXCEPT ![t] = new] /\ saved' = saved \cup {x} /\ x.server \notin OneVolume
      /\ x.sess = task[t].sess
  BY DEF Saves, Inv, SavingOK
<1> HIDE DEF new, x
<1>3. SessionsKept /\ DiskOK'
  BY SessionsRest DEF Inv, DiskOK
<1>4. SavedOK' /\ SavedOnce'
  <2>1. Opened(x.sess)
    BY <1>2, Saver DEF Opened
  <2> QED
    BY <1>2, <2>1 DEF Inv, SavedOK, SavedOnce, Opened
<1>5. SavingOK(t)'
  <2>1. saving'[t] = new /\ task'[t] = task[t] /\ FileOf(t)' = FileOf(t)
    BY <1>2, Saver DEF ServerRest, FileOf
  <2> QED
    BY <1>1, <2>1, Saver DEF Inv, SavingOK, Opened
<1> QED
  BY <1>1, <1>2, <1>3, <1>4, <1>5, Saver, SaverStep

LEMMA RemovedStep == ASSUME Inv, NEW t \in Tasks, TempRemoved(t) PROVE Inv'
<1> USE DEF TempRemoved, SaveGoes
<1> DEFINE new == [saving[t] EXCEPT !.phase = "placed"]
<1>1. /\ new \in SaveRecords /\ new.phase = "placed" /\ saving' = [saving EXCEPT ![t] = new]
  BY Saver DEF SaveRecords, SavePhases
<1> HIDE DEF new
<1>2. SessionsKept
  BY Saver, TempGoes DEF Inv, SavingOK
<1>3. SavedOK' /\ SavedOnce' /\ DiskOK'
  BY <1>2, SavedStays DEF Inv, DiskOK
<1>4. SavingOK(t)'
  <2>1. saving'[t] = new /\ task'[t] = task[t] /\ FileOf(t)' = FileOf(t)
    BY <1>1, Saver DEF ServerRest, FileOf
  <2>2. (Opened(task[t].sess) /\ sessions[task[t].sess].name = NameOf[FileOf(t)])'
    BY <1>2, <2>1, Saver DEF SessionsKept, SessionsGoOn, Opened
  <2> QED
    BY <1>1, <2>1, <2>2, Saver DEF SavingOK
<1> QED
  BY <1>1, <1>2, <1>3, <1>4, Saver, SaverStep

\* A save that fails or is over holds nothing.
LEMMA SaveEndsStep == ASSUME Inv, NEW t \in Tasks, SaveFails(t) \/ SessionEnds(t) PROVE Inv'
<1> USE DEF SaveFails, SessionEnds
<1>1. PICK p \in {"failed", "done"} : saving' = [saving EXCEPT ![t] = [NoSave EXCEPT !.phase = p]]
  OBVIOUS
<1> DEFINE new == [NoSave EXCEPT !.phase = p]
<1>2. new \in SaveRecords /\ new.phase = p
  BY NoSaveTyped DEF SaveRecords, SavePhases
<1> HIDE DEF new
<1>3. SessionsKept
  BY Saver, SessionsRest, SessionDiscarded
<1>4. SavedOK' /\ SavedOnce' /\ DiskOK'
  BY <1>3, SavedStays DEF Inv, DiskOK
<1>5. SavingOK(t)'
  <2>1. saving'[t] = new /\ task'[t] = task[t]
    BY <1>1, Saver DEF ServerRest, new
  <2> QED
    BY <1>2, <2>1, Saver DEF SavingOK
<1> QED
  BY <1>1, <1>2, <1>3, <1>4, <1>5, Saver, SaverStep DEF new

LEMMA InvStep == Inv /\ [UploadNext]_upVars => Inv'
<1> SUFFICES ASSUME Inv, [UploadNext]_upVars PROVE Inv'
  OBVIOUS
<1>1. CASE UNCHANGED upVars
  <2>1. UNCHANGED <<sessions, stored, task, stream, page, cancels, saveVars>>
    BY <1>1 DEF upVars, saveVars
  <2> QED
    BY <2>1, PageStep DEF Inv, Types
<1>2. CASE UploadUser
  BY <1>2, SelectStep, CancelStep, SwitchStep, ReloadStep DEF UploadUser
<1>3. ASSUME NEW t \in Tasks, TaskStep(t) PROVE Inv'
  BY <1>3, ResumeStep, InitSessionStep, AnsweredStep, SaveAnsweredStep, OverStep, StreamBeginsStep,
     StreamWritesStep, StreamEndsStep, LooksUpStep, RenamesStep, CopyBeginsStep, CopyWritesStep,
     CopyEndsStep, RemovedStep, SaveEndsStep DEF TaskStep
<1>4. ASSUME NEW t \in Tasks, TaskFault(t) \/ ProgressEvent(t) PROVE Inv'
  BY <1>4, ResumeFailsStep, OverStep, NetworkErrorStep, StreamBreaksStep, SaveEndsStep, ProgressStep
     DEF TaskFault
<1>5. ASSUME NEW n \in Ids, CancelArrives(n) \/ SessionExpires(n) PROVE Inv'
  BY <1>5, CleanupStep
<1> QED
  BY <1>1, <1>2, <1>3, <1>4, <1>5 DEF UploadNext

LEMMA Invariance == UploadSpec => []Inv
<1>1. UploadSpec => UploadInit /\ [][UploadNext]_upVars
  BY PTL DEF UploadSpec
<1> QED
  BY <1>1, InitInv, InvStep, PTL

-----------------------------------------------------------------------------
(* The theorems.                                                            *)

\* Sessions, tasks, streams and the tab keep their types, whichever steps of
\* the browser and the upload manager interleave (uploadFile, Manager).
THEOREM UploadTypes == UploadSpec => []UploadTypeOK
<1>1. Inv => UploadTypeOK
  BY TypesImply DEF Inv
<1> QED
  BY <1>1, Invariance, PTL

\* One upload session becomes at most one saved file where the temporary file can be moved,
\* for any number of tasks that resume it, saves that find it complete, and ends of sessions
\* between the steps of a save (SaveUploadedFile, CleanupSession, cleanupExpired).
THEOREM SavedAtMostOnce == UploadSpec => []SavedOnce
<1>1. Inv => SavedOnce
  BY DEF Inv
<1> QED
  BY <1>1, Invariance, PTL

\* An unfinished session is taken up again by the name and size of its file alone
\* (getUploadStatus), so that these must tell the files apart.
NamesDiffer == \A f, g \in Files : NameOf[f] = NameOf[g] => f = g

\* If no two files have a name and a size in common, what is in a server's directory is one
\* file, every piece of it where it was moved to, and nothing else's where it was copied,
\* after any interruptions, resumptions, concurrent streams into one session and saves that
\* overtake each other or fail (WriteStream, getUploadStatus, SaveUploadedFile, CopyFile).
THEOREM SavedFilesAreWhole == ASSUME NamesDiffer PROVE UploadSpec => []SavedWhole
<1>1. ASSUME Inv PROVE SavedWhole
  <2>1. ASSUME NEW s \in Servers, NEW m \in Names, disk[s][m] # None
        PROVE  \E f \in Files : /\ NameOf[f] = m
                                /\ \A i \in Pieces : \/ disk[s][m][i] = f
                                                     \/ s \notin OneVolume /\ disk[s][m][i] = None
    <3>1. PICK f \in Files : NameOf[f] = m
      BY DEF Names
    <3>2. ASSUME NEW i \in Pieces
          PROVE  disk[s][m][i] = f \/ (s \notin OneVolume /\ disk[s][m][i] = None)
      BY <1>1, <2>1, <3>1, NamesDiffer DEF Inv, DiskOK, NamesDiffer
    <3> QED
      BY <3>1, <3>2
  <2> QED
    BY <2>1 DEF SavedWhole
<1> QED
  BY <1>1, Invariance, PTL
=============================================================================
