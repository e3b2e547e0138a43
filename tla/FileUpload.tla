----------------------------- MODULE FileUpload -----------------------------
(***************************************************************************)
(* Uploading files from the browser: the client's uploadFile and the       *)
(* server's upload sessions, composed.                                     *)
(*                                                                         *)
(* The file tab lets the user choose files (handleFileSelect); each        *)
(* choice is a task that uploads its files one after the other: it looks   *)
(* for a session to resume, opens one if there is none, sends the rest of  *)
(* the file in one PUT, and asks the server to move the result into place, *)
(* which is a copy where the two are on different volumes.                 *)
(* The session table of the server outlives the page, and so does the map  *)
(* from file names to sessions in the browser's storage.                   *)
(***************************************************************************)
EXTENDS Naturals, Sequences, FiniteSets

CONSTANTS Files,        \* files on the user's disk, each with its content
          NameOf,       \* the name and size a file goes under
          Servers,      \* servers whose page can be shown
          First,        \* the one shown at first; bound: the user leaves it once
          Tasks,        \* calls of handleFileSelect, numbered as they begin
          MaxSessions,  \* bound: sessions the server opens
          MaxSelect,    \* bound: files chosen, over all tasks
          Size,         \* pieces of a file
          OneVolume,    \* servers whose directory is on the volume of the temporary files
          None

VARIABLES sessions,  \* the upload manager's sessions
          stored,    \* localStorage: the session last opened under a name
          task,      \* the tasks of the browser
          stream,    \* for each task, the PUT it has sent, at the server
          page,      \* the file tab: its server and what it shows
          cancels,   \* cancelUpload calls on their way
          saving,    \* for each task, the SaveUploadedFile it has asked for, at the server
          disk,      \* what is in the servers' directories; bound: all goes into one of each
          saved      \* the saves that put a file there

upVars == <<sessions, stored, task, stream, page, cancels, saving, disk, saved>>
saveVars == <<saving, disk, saved>>

Names == {NameOf[f] : f \in Files}
Pieces == 1..Size
NoSession == 0
Ids == 1..MaxSessions

Running == {"status", "init", "put", "save", "list"}
Contents == [Pieces -> Files \cup {None}]
Blank == [i \in Pieces |-> None]

SessionRecords ==
    [name : Names, listed : BOOLEAN, open : BOOLEAN, temp : BOOLEAN,
     completed : BOOLEAN, bytes : 0..Size, data : Contents]

ASSUME UploadAssumption ==
    /\ Size \in Nat \ {0} /\ MaxSessions \in Nat \ {0} /\ MaxSelect \in Nat
    /\ First \in Servers /\ OneVolume \subseteq Servers
    /\ None \notin SessionRecords /\ None \notin Contents

UploadTypeOK ==
    /\ sessions \in [Ids -> {None} \cup SessionRecords]
    /\ stored \in [Names -> {NoSession} \cup Ids]
    /\ \A t \in Tasks :
          /\ task[t].pc \in Running \cup {"idle", "ended", "hung"}
          /\ task[t].sess \in {NoSession} \cup Ids
          /\ task[t].queue \in Seq(Files)
          /\ stream[t].phase \in {"off", "sent", "writing", "refused", "answered"}
          /\ saving[t].phase \in {"off", "asked", "found", "copying", "copied", "placed", "done", "failed"}
    /\ page \in [server : Servers, uploading : BOOLEAN, controller : Tasks \cup {None},
                 progress : {NoSession} \cup Ids, aborted : SUBSET Tasks]
    /\ cancels \subseteq Ids
    /\ disk \in [Servers -> [Names -> {None} \cup Contents]]

Session(f) == [name |-> NameOf[f], listed |-> TRUE, open |-> TRUE, temp |-> TRUE,
               completed |-> FALSE, bytes |-> 0, data |-> Blank]

NoSave == [phase |-> "off", to |-> None, from |-> Blank, pos |-> 0]

UploadInit ==
    /\ sessions = [n \in Ids |-> None]
    /\ stored = [m \in Names |-> NoSession]
    /\ task = [t \in Tasks |-> [pc |-> "idle", queue |-> <<>>, at |-> 1, sess |-> NoSession,
                                signal |-> t]]
    /\ stream = [t \in Tasks |-> [phase |-> "off", pos |-> 0, cut |-> FALSE]]
    /\ page = [server |-> First, uploading |-> FALSE, controller |-> None,
               progress |-> NoSession, aborted |-> {}]
    /\ cancels = {}
    /\ saving = [t \in Tasks |-> NoSave]
    /\ disk = [s \in Servers |-> [m \in Names |-> None]]
    /\ saved = {}

FileOf(t) == task[t].queue[task[t].at]
Listed(n) == n # NoSession /\ sessions[n] # None /\ sessions[n].listed

(***************************************************************************)
(* The client                                                              *)
(***************************************************************************)
\* Mutant: any session that is stored, whatever the name.
StoredAny(f) == {NoSession} \cup {stored[m] : m \in Names}

\* The file's session of an earlier attempt, unless it is older than four hours.
StoredSession(f) == {NoSession, stored[NameOf[f]]}

\* uploadFile begins, with the signal of a controller: ask for the status of a session to
\* resume, or open one.
BeginFile(t, queue, i, controller) ==
    \E n \in StoredSession(queue[i]) :
       task' = [task EXCEPT ![t] = [@ EXCEPT
                  !.queue = queue, !.at = i, !.sess = n, !.signal = controller,
                  !.pc = IF n = NoSession THEN "init" ELSE "status"]]

\* The finally block of handleFileSelect, which is about the tab and not the task.
Cleared == [page EXCEPT !.uploading = FALSE, !.progress = NoSession, !.controller = None]
Over(r) == [r EXCEPT !.pc = "ended"]

\* A task stops, because it is through or because a call of it failed.
End(t) ==
    /\ task' = [task EXCEPT ![t] = Over(@)]
    /\ page' = Cleared

\* The connections of some tasks break: what the server still holds of a body it may read.
Cut(broken) ==
    stream' = [t \in Tasks |->
                 IF t \notin broken THEN stream[t]
                 ELSE IF stream[t].phase \in {"sent", "writing"} THEN [stream[t] EXCEPT !.cut = TRUE]
                 ELSE [phase |-> "off", pos |-> 0, cut |-> FALSE]]

Picked == UNION {{t} \X DOMAIN task[t].queue : t \in Tasks}

HandleFileSelect(t, q) ==
    /\ task[t].pc = "idle" /\ \A u \in Tasks : u < t => task[u].pc # "idle"
    /\ Cardinality(Picked) + Len(q) <= MaxSelect
    /\ BeginFile(t, q, 1, t)
    /\ page' = [page EXCEPT !.uploading = TRUE, !.controller = t, !.progress = NoSession]
    /\ UNCHANGED <<sessions, stored, stream, cancels, saveVars>>

\* Report the session, then send the rest of the file.  With the signal aborted
\* already the request is aborted before it was sent, which fires no event: the
\* promise is never settled.
SendBlob(t, n, from) ==
    /\ page' = [page EXCEPT !.progress = n]
    /\ IF task[t].signal \in page.aborted
       THEN /\ task' = [task EXCEPT ![t].pc = "hung", ![t].sess = n]
            /\ UNCHANGED stream
       ELSE /\ task' = [task EXCEPT ![t].pc = "put", ![t].sess = n]
            /\ stream' = [stream EXCEPT ![t] = [phase |-> "sent", pos |-> from, cut |-> FALSE]]

\* Ask for the file to be saved on the server the tab shows now.
AskToSave(t) ==
    /\ stored' = [stored EXCEPT ![NameOf[FileOf(t)]] = NoSession]
    /\ task' = [task EXCEPT ![t].pc = "save"]
    /\ saving' = [saving EXCEPT ![t] = [NoSave EXCEPT !.phase = "asked", !.to = page.server]]

\* Mutant: the piece that was counted last is not counted as received, but skipped.
ResumeAfter(t) ==
    /\ task[t].pc = "status" /\ Listed(task[t].sess) /\ ~sessions[task[t].sess].completed
    /\ LET n == task[t].sess
       IN SendBlob(t, n, IF sessions[n].bytes < Size THEN sessions[n].bytes + 1 ELSE Size)
    /\ UNCHANGED <<sessions, stored, cancels, saveVars>>

\* The answer of getUploadStatus: what was received is where the sending resumes.
ResumeFrom(t) ==
    LET n == task[t].sess
        s == sessions[n]
    IN  /\ task[t].pc = "status"
        /\ Listed(n)
        /\ IF s.completed
           THEN AskToSave(t) /\ UNCHANGED <<stream, page>>
           ELSE SendBlob(t, n, s.bytes) /\ UNCHANGED <<stored, saving>>
        /\ UNCHANGED <<sessions, cancels, disk, saved>>

\* The session is gone, or the call failed: start fresh.
ResumeFails(t) ==
    /\ task[t].pc = "status"
    /\ task' = [task EXCEPT ![t].pc = "init", ![t].sess = NoSession]
    /\ UNCHANGED <<sessions, stored, stream, page, cancels, saveVars>>

\* initUpload: the manager makes a session and its temporary file of full size.
InitSession(t) ==
    LET n == CHOOSE k \in Ids : sessions[k] = None
    IN  /\ task[t].pc = "init"
        /\ \E k \in Ids : sessions[k] = None
        /\ sessions' = [sessions EXCEPT ![n] = Session(FileOf(t))]
        /\ stored' = [stored EXCEPT ![NameOf[FileOf(t)]] = n]
        /\ SendBlob(t, n, 0)
        /\ UNCHANGED <<cancels, saveVars>>

InitFails(t) ==
    /\ task[t].pc = "init"
    /\ End(t)
    /\ UNCHANGED <<sessions, stored, stream, cancels, saveVars>>

ProgressEvent(t) ==
    /\ task[t].pc = "put"
    /\ page' = [page EXCEPT !.progress = task[t].sess]
    /\ UNCHANGED <<sessions, stored, task, stream, cancels, saveVars>>

\* Mutant: only a good answer settles the promise.
UploadAnsweredIfGood(t) ==
    /\ task[t].pc = "put" /\ stream[t].phase = "answered"
    /\ AskToSave(t)
    /\ UNCHANGED <<page, sessions, stream, cancels, disk, saved>>

\* The PUT was answered: forget the stored session and go on to the saving.
UploadAnswered(t) ==
    /\ task[t].pc = "put"
    /\ \/ /\ stream[t].phase = "answered"
          /\ AskToSave(t)
          /\ UNCHANGED page
       \/ /\ stream[t].phase = "refused"
          /\ End(t)
          /\ UNCHANGED <<stored, saving>>
    /\ UNCHANGED <<sessions, stream, cancels, disk, saved>>

\* The connection breaks: the client gives up, the server may still read what it holds.
NetworkError(t) ==
    /\ task[t].pc = "put"
    /\ End(t)
    /\ Cut({t})
    /\ UNCHANGED <<sessions, stored, cancels, saveVars>>

\* The cancel button of the progress bar: abort the controller the tab holds, which breaks
\* off the PUTs that were given its signal, and cancel the session the progress names.
CancelCurrentUpload ==
    LET broken == {t \in Tasks : task[t].pc = "put" /\ task[t].signal = page.controller}
    IN  /\ page.uploading /\ page.progress # NoSession
        /\ cancels' = cancels \cup {page.progress}
        /\ task' = [t \in Tasks |-> IF t \in broken THEN Over(task[t]) ELSE task[t]]
        /\ Cut(broken)
        /\ page' = [IF broken = {} THEN page ELSE Cleared
                      EXCEPT !.aborted = @ \cup {page.controller}]
        /\ UNCHANGED <<sessions, stored, saveVars>>

\* The answer of saveUploadedFile: on with the next file, or read the directory again.  The
\* next file takes the signal of the controller the tab holds by now, which may be that of
\* another choice; if another choice has ended there is none, and reading its signal fails.
SaveAnswered(t) ==
    /\ task[t].pc = "save"
    /\ \/ /\ saving[t].phase = "done" /\ task[t].at < Len(task[t].queue)
          /\ IF page.controller = None
             THEN End(t)
             ELSE /\ BeginFile(t, task[t].queue, task[t].at + 1, page.controller)
                  /\ page' = [page EXCEPT !.progress = NoSession]
       \/ /\ saving[t].phase = "done" /\ task[t].at = Len(task[t].queue)
          /\ task' = [task EXCEPT ![t].pc = "list"]
          /\ UNCHANGED page
       \/ saving[t].phase = "failed" /\ End(t)
    /\ saving' = [saving EXCEPT ![t] = NoSave]
    /\ UNCHANGED <<sessions, stored, stream, cancels, disk, saved>>

\* The answer is lost; the server goes on.
SaveLost(t) ==
    /\ task[t].pc = "save"
    /\ End(t)
    /\ UNCHANGED <<sessions, stored, stream, cancels, saveVars>>

FilesListed(t) ==
    /\ task[t].pc = "list"
    /\ End(t)
    /\ UNCHANGED <<sessions, stored, stream, cancels, saveVars>>

\* Another server is chosen in the sidebar: the tab is kept, its prop changes.
SwitchServer(s) ==
    /\ page.server = First /\ s # First
    /\ page' = [page EXCEPT !.server = s, !.uploading = FALSE]
    /\ UNCHANGED <<sessions, stored, task, stream, cancels, saveVars>>

\* The browser loads the page anew: only the storage is left of the client.
Reload ==
    /\ \E t \in Tasks : task[t].pc \in Running \cup {"hung"}
    /\ task' = [t \in Tasks |-> IF task[t].pc = "idle" THEN task[t] ELSE Over(task[t])]
    /\ Cut(Tasks)
    /\ page' = [Cleared EXCEPT !.aborted = {}]
    /\ UNCHANGED <<sessions, stored, cancels, saveVars>>

(***************************************************************************)
(* The server                                                              *)
(***************************************************************************)
\* Where a stream stands matters while it writes.
Phase(t, p) == stream' = [stream EXCEPT ![t].phase = p,
                                        ![t].pos = IF p = "writing" THEN @ ELSE 0,
                                        ![t].cut = @ /\ p = "writing"]

\* WriteStream looks the session up.
StreamBegins(t) ==
    /\ stream[t].phase = "sent"
    /\ LET n == task[t].sess
       IN Phase(t, IF Listed(n) /\ ~sessions[n].completed /\ sessions[n].open
                   THEN "writing" ELSE "refused")
    /\ UNCHANGED <<sessions, stored, task, page, cancels, saveVars>>

\* Mutant: the count takes every buffer, not where it ends.
StreamCounts(t) ==
    LET n == task[t].sess
        p == stream[t].pos + 1
    IN  /\ stream[t].phase = "writing" /\ p <= Size /\ sessions[n].open
        /\ sessions' = [sessions EXCEPT ![n].data[p] = FileOf(t), ![n].bytes = @ + 1]
        /\ stream' = [stream EXCEPT ![t].pos = p]
        /\ UNCHANGED <<stored, task, page, cancels, saveVars>>

\* One buffer is written where this stream stands, and the count is set to that place,
\* whatever another stream of the session has counted.
StreamWrites(t) ==
    LET n == task[t].sess
        p == stream[t].pos + 1
    IN  /\ stream[t].phase = "writing" /\ p <= Size
        /\ IF sessions[n].open
           THEN /\ sessions' = [sessions EXCEPT ![n].data[p] = FileOf(t), ![n].bytes = p]
                /\ stream' = [stream EXCEPT ![t].pos = p]
           ELSE /\ Phase(t, "refused")
                /\ UNCHANGED sessions
        /\ UNCHANGED <<stored, task, page, cancels, saveVars>>

\* The body is read to its end: the session is complete when the count says so.
StreamEnds(t) ==
    LET n == task[t].sess
    IN  /\ stream[t].phase = "writing" /\ stream[t].pos = Size
        /\ sessions' = IF sessions[n].bytes >= Size /\ ~sessions[n].completed
                       THEN [sessions EXCEPT ![n].completed = TRUE, ![n].open = FALSE]
                       ELSE sessions
        /\ Phase(t, "answered")
        /\ UNCHANGED <<stored, task, page, cancels, saveVars>>

\* The body of a broken connection ends early.
StreamBreaks(t) ==
    /\ stream[t].cut /\ stream[t].phase \in {"sent", "writing"}
    /\ Phase(t, "off")
    /\ UNCHANGED <<sessions, stored, task, page, cancels, saveVars>>

\* cleanupSession: the entry, the handle and the temporary file go.
Discard(n) ==
    sessions' = [sessions EXCEPT ![n] = [Session(CHOOSE f \in Files : NameOf[f] = @.name)
                    EXCEPT !.listed = FALSE, !.open = FALSE, !.temp = FALSE]]

\* A call that is lost is one that never arrives.
CancelArrives(n) ==
    /\ n \in cancels
    /\ cancels' = cancels \ {n}
    /\ IF Listed(n) THEN Discard(n) ELSE UNCHANGED sessions
    /\ UNCHANGED <<stored, task, stream, page, saveVars>>

\* The session outlived its time to live.
SessionExpires(n) ==
    /\ Listed(n)
    /\ Discard(n)
    /\ UNCHANGED <<stored, task, stream, page, cancels, saveVars>>

(***************************************************************************)
(* SaveUploadedFile, which no reload or cancel of the browser stops        *)
(***************************************************************************)
SaveGoes(t, p) == saving' = [saving EXCEPT ![t].phase = p]
ServerRest == UNCHANGED <<stored, task, stream, page, cancels>>
TakesFrom(t) == sessions[task[t].sess]
Lands(t, d) == disk' = [disk EXCEPT ![saving[t].to][NameOf[FileOf(t)]] = d]
Saves(t) == saved' = saved \cup {[by |-> t, sess |-> task[t].sess, file |-> FileOf(t),
                                  server |-> saving[t].to]}

\* The temporary path of a complete session.
SaveLooksUp(t) ==
    /\ saving[t].phase = "asked"
    /\ SaveGoes(t, IF Listed(task[t].sess) /\ TakesFrom(t).completed THEN "found" ELSE "failed")
    /\ UNCHANGED <<sessions, disk, saved>> /\ ServerRest

\* Mutant: the temporary file stays.
SaveCopies(t) ==
    /\ saving[t].phase = "found" /\ saving[t].to \in OneVolume /\ TakesFrom(t).temp
    /\ Lands(t, TakesFrom(t).data) /\ Saves(t)
    /\ SaveGoes(t, "placed")
    /\ UNCHANGED sessions /\ ServerRest

\* os.Rename, within a volume.
SaveRenames(t) ==
    /\ saving[t].phase = "found" /\ saving[t].to \in OneVolume /\ TakesFrom(t).temp
    /\ Lands(t, TakesFrom(t).data) /\ Saves(t)
    /\ sessions' = [sessions EXCEPT ![task[t].sess].temp = FALSE]
    /\ SaveGoes(t, "placed")
    /\ ServerRest

\* Across volumes the rename fails and the file is copied: os.Create truncates what stands
\* under the name, ...
CopyBegins(t) ==
    /\ saving[t].phase = "found" /\ saving[t].to \notin OneVolume /\ TakesFrom(t).temp
    /\ Lands(t, Blank)
    /\ saving' = [saving EXCEPT ![t].phase = "copying", ![t].from = TakesFrom(t).data]
    /\ UNCHANGED <<sessions, saved>> /\ ServerRest

\* ... the pieces are written one by one from the file that was opened, ...
CopyWrites(t) ==
    LET p == saving[t].pos + 1
    IN  /\ saving[t].phase = "copying" /\ p <= Size
        /\ disk' = [disk EXCEPT ![saving[t].to][NameOf[FileOf(t)]][p] = saving[t].from[p]]
        /\ saving' = [saving EXCEPT ![t].pos = p]
        /\ UNCHANGED <<sessions, saved>> /\ ServerRest

CopyEnds(t) ==
    /\ saving[t].phase = "copying" /\ saving[t].pos = Size
    /\ Saves(t)
    /\ saving' = [saving EXCEPT ![t] = [NoSave EXCEPT !.phase = "copied"]]
    /\ UNCHANGED <<sessions, disk>> /\ ServerRest

\* ... and the temporary file is removed.
TempRemoved(t) ==
    /\ saving[t].phase = "copied"
    /\ sessions' = [sessions EXCEPT ![task[t].sess].temp = FALSE]
    /\ SaveGoes(t, "placed")
    /\ UNCHANGED <<disk, saved>> /\ ServerRest

\* The temporary file is gone, the directory cannot be made, or the copying breaks off and
\* leaves what it has written; the session stays.
SaveFails(t) ==
    /\ saving[t].phase \in {"found", "copying"}
    /\ saving' = [saving EXCEPT ![t] = [NoSave EXCEPT !.phase = "failed"]]
    /\ UNCHANGED <<sessions, disk, saved>> /\ ServerRest

\* CleanupSession, and the answer.
SessionEnds(t) ==
    /\ saving[t].phase = "placed"
    /\ IF Listed(task[t].sess) THEN Discard(task[t].sess) ELSE UNCHANGED sessions
    /\ saving' = [saving EXCEPT ![t] = [NoSave EXCEPT !.phase = "done"]]
    /\ UNCHANGED <<disk, saved>> /\ ServerRest

(***************************************************************************)
(* The specification                                                       *)
(***************************************************************************)
Choices == {q \in UNION {[1..k -> Files] : k \in 1..MaxSelect} :
               \A i, j \in DOMAIN q : q[i] = q[j] => i = j}

\* What a task and the server do for it when nothing goes wrong from outside.
TaskStep(t) ==
    \/ ResumeFrom(t) \/ InitSession(t) \/ UploadAnswered(t) \/ SaveAnswered(t)
    \/ FilesListed(t) \/ StreamBegins(t) \/ StreamWrites(t) \/ StreamEnds(t)
    \/ SaveLooksUp(t) \/ SaveRenames(t) \/ CopyBegins(t) \/ CopyWrites(t) \/ CopyEnds(t)
    \/ TempRemoved(t) \/ SessionEnds(t)

\* A call that cannot be answered fails.
TaskFault(t) ==
    \/ ResumeFails(t) \/ InitFails(t) \/ NetworkError(t) \/ StreamBreaks(t)
    \/ SaveLost(t) \/ SaveFails(t)

UploadUser ==
    \/ \E t \in Tasks, q \in Choices : HandleFileSelect(t, q)
    \/ CancelCurrentUpload
    \/ \E s \in Servers : SwitchServer(s)
    \/ Reload

UploadNext ==
    \/ UploadUser
    \/ \E t \in Tasks : TaskStep(t) \/ TaskFault(t) \/ ProgressEvent(t)
    \/ \E n \in Ids : CancelArrives(n) \/ SessionExpires(n)

\* Every call is answered or fails: the browser and the server keep working on a task.
UploadSpec ==
    /\ UploadInit /\ [][UploadNext]_upVars
    /\ \A t \in Tasks : WF_upVars(TaskStep(t) \/ ResumeFails(t) \/ InitFails(t) \/ SaveFails(t))

(***************************************************************************)
(* Properties                                                              *)
(***************************************************************************)
\* What is under a name in a server's directory is one file of that name, every piece of it,
\* in spite of interrupted sendings that were resumed and of two streams into one session.
\* Where the directory is on another volume pieces may be missing, but none is of another file.
SavedWhole ==
    \A s \in Servers, m \in Names : disk[s][m] # None =>
        \E f \in Files : /\ NameOf[f] = m
                         /\ \A i \in Pieces : \/ disk[s][m][i] = f
                                              \/ s \notin OneVolume /\ disk[s][m][i] = None

\* One session becomes one file: of two tasks that both found it complete, or that resumed
\* it together, only one moves it.
SavedOnce ==
    \A x, y \in saved : x.sess = y.sess /\ {x.server, y.server} \subseteq OneVolume => x = y

\* The code breaks this: a file is moved, as the comment in SaveUploadedFile says, so that it
\* is there whole or not at all whatever fails.  Across volumes a copying that breaks off
\* leaves what it has written under the name, and it may have truncated a good file.
MovedWhole ==
    (\A t \in Tasks : saving[t].phase # "copying") =>
        \A s \in Servers, m \in Names : disk[s][m] # None => \A i \in Pieces : disk[s][m][i] # None

\* The code breaks this too: across volumes two tasks may each copy the file of one session.
MovedOnce == \A x, y \in saved : x.sess = y.sess => x = y

\* A task comes to an end, unless the controller whose signal its file was given is aborted:
\* the tab does not show it for ever.
UploadEnds ==
    \A t \in Tasks : task[t].pc \in Running ~> (task[t].pc = "ended" \/ task[t].signal \in page.aborted)

\* The code breaks this: a cancelled upload comes to an end.
CancelEnds == \A t \in Tasks : t \in page.aborted ~> task[t].pc = "ended"
=============================================================================
