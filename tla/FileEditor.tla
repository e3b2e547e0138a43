----------------------------- MODULE FileEditor -----------------------------
(***************************************************************************)
(* The editor dialog of the file tab: it loads a file when it is opened,   *)
(* makes an editor of it, tracks changes and saves.                        *)
(*                                                                         *)
(* A text is the file it was read from and the number of edits since.      *)
(***************************************************************************)
EXTENDS Naturals

CONSTANTS EditFiles, MaxEdits, NoText

ASSUME EditorAssumption == MaxEdits \in Nat

VARIABLES dialog,   \* the component
          reads,    \* files a getFile call is on its way for
          writes,   \* updateFile calls on their way: the file and the text
          onDisk    \* the text of each file at the server

edVars == <<dialog, reads, writes, onDisk>>

Texts == [of : EditFiles, edits : 0..MaxEdits]
Empty == NoText

FileEditorTypeOK ==
    /\ dialog \in [open : BOOLEAN, file : EditFiles \cup {NoText},
                   loadedPath : EditFiles \cup {NoText}, contentLoaded : BOOLEAN,
                   loading : BOOLEAN, saving : BOOLEAN,
                   content : Texts \cup {Empty}, original : Texts \cup {Empty},
                   editor : Texts \cup {NoText}]
    /\ reads \subseteq EditFiles
    /\ writes \subseteq [file : EditFiles, text : Texts]
    /\ onDisk \in [EditFiles -> Texts]

Closed == [open |-> FALSE, file |-> NoText, loadedPath |-> NoText, contentLoaded |-> FALSE,
           loading |-> FALSE, saving |-> FALSE, content |-> Empty, original |-> Empty,
           editor |-> NoText]

FileEditorInit ==
    /\ dialog = Closed
    /\ reads = {} /\ writes = {}
    /\ onDisk = [f \in EditFiles |-> [of |-> f, edits |-> 0]]

IsDirty == dialog.content # dialog.original

\* The effect that resets the state when the dialog closes; calls go on.
Reset(d) == [Closed EXCEPT !.loading = d.loading, !.saving = d.saving]

\* The effect that makes the editor once the text is there; it is never given another text.
WithEditor(d) ==
    IF d.open /\ d.contentLoaded /\ ~d.loading /\ d.editor = NoText
    THEN [d EXCEPT !.editor = d.content] ELSE d

\* The dialog opens for a file: it is read unless it was the last one read.
EditorOpens(f) ==
    /\ ~dialog.open
    /\ IF f # dialog.loadedPath
       THEN /\ dialog' = [dialog EXCEPT !.open = TRUE, !.file = f, !.loadedPath = f,
                                        !.loading = TRUE]
            /\ reads' = reads \cup {f}
       ELSE /\ dialog' = WithEditor([dialog EXCEPT !.open = TRUE, !.file = f])
            /\ UNCHANGED reads
    /\ UNCHANGED <<writes, onDisk>>

LoadFileContent(f) ==
    /\ f \in reads
    /\ reads' = reads \ {f}
    /\ dialog' = WithEditor([dialog EXCEPT !.content = onDisk[f], !.original = onDisk[f],
                                           !.contentLoaded = TRUE, !.loading = FALSE])
    /\ UNCHANGED <<writes, onDisk>>

LoadFails(f) ==
    /\ f \in reads
    /\ reads' = reads \ {f}
    /\ dialog' = [Reset(dialog) EXCEPT !.loading = FALSE]
    /\ UNCHANGED <<writes, onDisk>>

EditText ==
    /\ dialog.open /\ dialog.editor # NoText /\ dialog.editor.edits < MaxEdits
    /\ LET text == [dialog.editor EXCEPT !.edits = @ + 1]
       IN  dialog' = [dialog EXCEPT !.editor = text, !.content = text]
    /\ UNCHANGED <<reads, writes, onDisk>>

\* The button is off while a save is on its way, the key of the editor is not.
HandleSave ==
    /\ dialog.open /\ dialog.editor # NoText
    /\ IsDirty
    /\ dialog' = [dialog EXCEPT !.saving = TRUE]
    /\ writes' = writes \cup {[file |-> dialog.file, text |-> dialog.content]}
    /\ UNCHANGED <<reads, onDisk>>

\* What counts as saved is the text at the time of the answer.
SaveIsAnswered(w) ==
    /\ w \in writes
    /\ writes' = writes \ {w}
    /\ \/ /\ onDisk' = [onDisk EXCEPT ![w.file] = w.text]
          /\ dialog' = [dialog EXCEPT !.saving = FALSE, !.original = dialog.content]
       \/ /\ dialog' = [dialog EXCEPT !.saving = FALSE]
          /\ UNCHANGED onDisk
    /\ UNCHANGED reads

\* With changes the user is asked, and may stay.
HandleClose ==
    /\ dialog.open
    /\ dialog' = Reset(dialog)
    /\ UNCHANGED <<reads, writes, onDisk>>

FileEditorNext ==
    \/ \E f \in EditFiles : EditorOpens(f) \/ LoadFileContent(f) \/ LoadFails(f)
    \/ EditText \/ HandleSave \/ HandleClose
    \/ \E w \in writes : SaveIsAnswered(w)

FileEditorFairness == \A f \in EditFiles : WF_edVars(LoadFileContent(f) \/ LoadFails(f))

FileEditorSpec == FileEditorInit /\ [][FileEditorNext]_edVars /\ FileEditorFairness

\* The code breaks these: what is saved in a file was made from that file; without changes and
\* calls on their way, the file holds what the editor shows.
SavesItsOwnText == \A f \in EditFiles : onDisk[f].of = f
CleanMeansSaved ==
    dialog.open /\ dialog.editor # NoText /\ ~IsDirty /\ writes = {}
        => onDisk[dialog.file] = dialog.editor
=============================================================================
