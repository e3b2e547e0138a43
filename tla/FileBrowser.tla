---------------------------- MODULE FileBrowser ----------------------------
(***************************************************************************)
(* The file tab of a server page: the listing, the selection, the menus    *)
(* and dialogs, moves and copies of several paths, and the extraction of   *)
(* archives.  Uploads are in FileUpload, the editor is in FileEditor.      *)
(*                                                                         *)
(* A path is the sequence of its names.  What a directory holds is up to   *)
(* the game server too, so a listing may bring any of Trees.  The tab      *)
(* stays when another server is chosen: its prop `server' changes under    *)
(* calls that are on their way.                                            *)
(***************************************************************************)
EXTENDS Naturals, Sequences, FiniteSets

CONSTANTS FilePaths, Directories, Archives,
          Trees,        \* listings the server may answer with
          FileServers,
          FirstServer,  \* the one shown at first; bound: the user leaves it once
          NoFile

ASSUME TreesAssumption == Trees \subseteq SUBSET FilePaths /\ FirstServer \in FileServers

VARIABLES tab,      \* the state of the component
          lists,    \* the servers a listFiles call is on its way to
          batch,    \* the loop of a move or a copy, or NoFile
          extract   \* the flag, the calls and polls of extractions, and those the server runs

fbVars == <<tab, lists, batch, extract>>

\* "name" is the dialog for a new file, for a new folder or for another name.
Dialogs == {"none", "name", "move", "copy"}
Extractions == 1 .. 2       \* bound: extractions at once, and
MaxStatusCalls == 2         \* bound: calls for the state of one on their way

FileBrowserTypeOK ==
    /\ tab.server \in FileServers /\ tab.active \in BOOLEAN /\ tab.hasLoaded \in BOOLEAN
    /\ tab.owner \in FileServers /\ tab.files \in Trees \cup {{}}
    /\ tab.loading \in BOOLEAN /\ tab.expanded \subseteq Directories
    /\ tab.selected \subseteq FilePaths /\ tab.chosenOn \in FileServers
    /\ tab.menu \in FilePaths \cup {NoFile} /\ {tab.menuOpen, tab.late} \subseteq BOOLEAN
    /\ tab.dialog \in Dialogs
    /\ lists \subseteq FileServers
    /\ extract \in [extracting : BOOLEAN, starting : 0 .. Cardinality(Extractions),
                    polls : SUBSET Extractions, asked : [Extractions -> 0 .. MaxStatusCalls],
                    running : SUBSET Extractions]

Under(p, dir) == Len(p) >= Len(dir) /\ SubSeq(p, 1, Len(dir)) = dir
Parent(p) == SubSeq(p, 1, Len(p) - 1)

FileBrowserInit ==
    /\ tab = [server |-> FirstServer, active |-> FALSE, hasLoaded |-> FALSE,
              owner |-> FirstServer, files |-> {}, loading |-> TRUE, expanded |-> {},
              selected |-> {}, chosenOn |-> FirstServer, menu |-> NoFile,
              menuOpen |-> FALSE, dialog |-> "none", late |-> FALSE]
    /\ lists = {}
    /\ batch = NoFile
    /\ extract = [extracting |-> FALSE, starting |-> 0, polls |-> {},
                  asked |-> [x \in Extractions |-> 0], running |-> {}]

\* The rows of the tree: what lies in an expanded directory or at the top.
FlatFiles == {p \in tab.files : Len(p) = 1 \/ Parent(p) \in tab.expanded}

\* What is still there of the selection, which keeps paths that are gone.
SelectedFiles == tab.files \cap tab.selected

\* Extractions that are over, or not begun.
Idle == {x \in Extractions : x \notin extract.polls \cup extract.running /\ extract.asked[x] = 0}

CanExtractSelection == Cardinality(SelectedFiles) = 1 /\ SelectedFiles \subseteq Archives

(***************************************************************************)
(* Loading                                                                 *)
(***************************************************************************)
\* loadFiles, with what else the step does to the tab.
LoadWith(t) ==
    /\ tab' = [t EXCEPT !.loading = TRUE]
    /\ lists' = lists \cup {t.server}

\* The context menu lies over the page until it is left.
SetActive(b) ==
    /\ tab.active # b /\ ~tab.menuOpen
    /\ IF b /\ ~tab.hasLoaded
       THEN LoadWith([tab EXCEPT !.active = TRUE, !.hasLoaded = TRUE])
       ELSE tab' = [tab EXCEPT !.active = b] /\ UNCHANGED lists
    /\ UNCHANGED <<batch, extract>>

\* The effect on server.id: the tab is emptied, and filled again if it is shown; a menu stays
\* open, and is then about a row of the server that was left (`late').
ServerChanges(s) ==
    LET empty == [tab EXCEPT !.server = s, !.files = {}, !.owner = FirstServer,
                             !.loading = TRUE, !.expanded = {}, !.selected = {},
                             !.chosenOn = FirstServer, !.hasLoaded = tab.active,
                             !.late = tab.menuOpen]
    IN  /\ s # tab.server /\ tab.server = FirstServer
        /\ IF tab.active THEN LoadWith(empty) ELSE tab' = empty /\ UNCHANGED lists
        /\ UNCHANGED <<batch, extract>>

RefreshFiles ==
    /\ tab.active /\ ~tab.menuOpen
    /\ LoadWith(tab)
    /\ UNCHANGED <<batch, extract>>

\* The answer is taken whatever server is shown by then.
FilesArrive(s) ==
    /\ s \in lists
    /\ lists' = lists \ {s}
    /\ \/ \E tree \in Trees : tab' = [tab EXCEPT !.files = tree, !.loading = FALSE,
                                                !.owner = IF tree = {} THEN FirstServer ELSE s]
       \/ tab' = [tab EXCEPT !.loading = FALSE]
    /\ UNCHANGED <<batch, extract>>

(***************************************************************************)
(* Selection and tree                                                      *)
(***************************************************************************)
SetTab(t) == tab' = t /\ UNCHANGED <<lists, batch, extract>>
Selecting(paths) == [tab EXCEPT !.selected = paths,
                                !.chosenOn = IF paths = {} THEN FirstServer ELSE tab.server]
Toggle(set, x) == IF x \in set THEN set \ {x} ELSE set \cup {x}

\* The tree takes clicks and keys while it is shown.
TreeShown == tab.active /\ ~tab.loading /\ tab.dialog = "none" /\ ~tab.menuOpen

\* A click: toggle with control, a range of rows with shift, or go into a directory.
HandleSelect(p) ==
    /\ TreeShown /\ p \in FlatFiles
    /\ \/ SetTab(Selecting(Toggle(tab.selected, p)))
       \/ \E from \in FlatFiles : SetTab(Selecting(tab.selected \cup {from, p}))
       \/ /\ p \in Directories
          /\ SetTab([Selecting({}) EXCEPT !.expanded = Toggle(@, p)])
       \/ /\ p \notin Directories
          /\ SetTab(Selecting({}))

HandleCheckboxToggle(p) ==
    /\ TreeShown /\ p \in FlatFiles
    /\ SetTab(Selecting(Toggle(tab.selected, p)))

HandleSelectAll ==
    /\ TreeShown
    /\ SetTab(Selecting(IF Cardinality(tab.selected) = Cardinality(FlatFiles) THEN {} ELSE FlatFiles))

\* The bar over the tree is there while something is selected.
BarOffers == tab.active /\ tab.selected # {} /\ tab.dialog = "none" /\ ~tab.menuOpen

ClearSelection == BarOffers /\ SetTab(Selecting({}))

ToggleExpand(d) ==
    /\ TreeShown /\ d \in Directories \cap FlatFiles
    /\ SetTab([tab EXCEPT !.expanded = Toggle(@, d)])

\* The breadcrumb leads to the root or to a directory above the row in focus: only the
\* directories on the way stay open.
HandleBreadcrumbNavigate ==
    /\ tab.active /\ tab.dialog = "none" /\ ~tab.menuOpen
    /\ \E to \in Directories \cup {<<>>} :
          SetTab([tab EXCEPT !.expanded = {d \in Directories : Under(to, d)}])

HandleContextMenu(p) ==
    /\ TreeShown /\ p \in FlatFiles
    /\ SetTab([tab EXCEPT !.menu = p, !.menuOpen = TRUE])

\* The row the menu was opened on is remembered when the menu is left.
CloseMenu == tab.menuOpen /\ SetTab([tab EXCEPT !.menuOpen = FALSE])

\* What the menu offers of a row: to extract an archive, and the rest of any row.
MenuOffers(op) == tab.menuOpen /\ (op = "extract" => tab.menu \in Archives)

\* Every entry of the menu closes it.
HandleAction(t) == [t EXCEPT !.menuOpen = FALSE]

\* Copy, move and compress of the menu act on the selection, or on the row if there is none.
CtxPaths == IF tab.selected # {} THEN tab.selected ELSE {tab.menu}
CtxSelecting == [Selecting(CtxPaths) EXCEPT !.chosenOn = IF tab.late THEN FirstServer ELSE @]

(***************************************************************************)
(* Dialogs and single calls                                                *)
(***************************************************************************)
BulkMove ==
    /\ BarOffers
    /\ SetTab([tab EXCEPT !.dialog = "move"])

CtxCopyOrMove(kind) ==
    /\ MenuOffers(kind)
    /\ SetTab(HandleAction([CtxSelecting EXCEPT !.dialog = kind]))

\* A new file or folder from the toolbar or the menu, another name from the menu.
OpenNameDialog ==
    /\ tab.active /\ tab.dialog = "none"
    /\ SetTab(HandleAction([tab EXCEPT !.dialog = "name"]))

CloseDialog == tab.dialog # "none" /\ SetTab([tab EXCEPT !.dialog = "none"])

\* createFile, createFolder and rename close their dialog and list again when the call is
\* answered; a failed one leaves the dialog as it is.
NameDialogAnswered ==
    /\ tab.dialog = "name"
    /\ LoadWith([tab EXCEPT !.dialog = "none"])
    /\ UNCHANGED <<batch, extract>>

\* A confirmed delete of the row of the menu, when its call is answered.
DeleteFile ==
    /\ MenuOffers("delete") /\ tab.selected = {}
    /\ LoadWith(HandleAction(tab))
    /\ UNCHANGED <<batch, extract>>

\* A confirmed delete of the selection, from the bar or from the menu.
BulkDelete ==
    /\ tab.selected # {}
    /\ BarOffers \/ MenuOffers("delete")
    /\ LoadWith(HandleAction([tab EXCEPT !.selected = {}]))
    /\ UNCHANGED <<batch, extract>>

BulkCompress ==
    /\ \/ BarOffers /\ LoadWith(tab)
       \/ MenuOffers("compress") /\ LoadWith(HandleAction(CtxSelecting))
    /\ UNCHANGED <<batch, extract>>

(***************************************************************************)
(* Moves and copies of several paths                                       *)
(***************************************************************************)
\* A loop of awaited calls, with the paths it has still to go through.  Bound: there is no
\* second loop.
BeginBatch(by, paths, into) ==
    /\ batch = NoFile
    /\ batch' = [by |-> by, todo |-> paths, into |-> into]

\* A drop checks every path before the first call.
HandleDrop(p, dir) ==
    LET paths == IF p \in tab.selected THEN tab.selected ELSE {p}
    IN  /\ TreeShown
        /\ p \in FlatFiles /\ dir \in FlatFiles \cap Directories
        /\ \A x \in paths : ~Under(dir, x)
        /\ BeginBatch("drop", paths, dir)
        /\ UNCHANGED <<tab, lists, extract>>

\* The dialogs offer every directory, the chosen ones too.
ConfirmMoveOrCopy(dir) ==
    /\ tab.dialog \in {"move", "copy"}
    /\ dir \in (tab.files \cap Directories) \cup {<<>>}
    /\ BeginBatch(tab.dialog, tab.selected, dir)
    /\ tab' = [tab EXCEPT !.dialog = "none"]
    /\ UNCHANGED <<lists, extract>>

\* One call of the loop is answered; a failed one ends it.
BatchAnswered ==
    /\ batch # NoFile
    /\ \/ \E p \in batch.todo :
             batch' = [batch EXCEPT !.todo = @ \ {p}] /\ UNCHANGED <<tab, lists>>
       \/ /\ batch.todo = {}
          /\ batch' = NoFile
          /\ LoadWith(IF batch.by = "move" THEN [tab EXCEPT !.selected = {}] ELSE tab)
       \/ batch' = NoFile /\ UNCHANGED <<tab, lists>>
    /\ UNCHANGED extract

(***************************************************************************)
(* Extraction: a call that starts it, then a timer that asks for its state *)
(* every two seconds, whether or not the last answer has come.             *)
(***************************************************************************)
\* From the bar, offered for a selected archive, or from the menu of an archive.  The call
\* names the row of the last menu before the selection: it may be no archive, and is refused.
ExtractArchive ==
    /\ ~extract.extracting /\ batch = NoFile
    /\ extract.starting < Cardinality(Idle)
    /\ (BarOffers /\ CanExtractSelection) \/ MenuOffers("extract")
    /\ extract' = [extract EXCEPT !.extracting = TRUE, !.starting = @ + 1]
    /\ tab' = HandleAction(tab)
    /\ UNCHANGED <<lists, batch>>

ExtractStarted ==
    /\ extract.starting > 0
    /\ LET x == CHOOSE x \in Idle : \A y \in Idle : x <= y
       IN  extract' = [extract EXCEPT !.starting = @ - 1, !.polls = @ \cup {x}, !.running = @ \cup {x}]
    /\ UNCHANGED <<tab, lists, batch>>

ExtractRefused ==
    /\ extract.starting > 0
    /\ extract' = [extract EXCEPT !.starting = @ - 1, !.extracting = FALSE]
    /\ UNCHANGED <<tab, lists, batch>>

\* The archive is read to its end, or an error is found in it.
ExtractionFinishes(x) ==
    /\ x \in extract.running
    /\ extract' = [extract EXCEPT !.running = @ \ {x}]
    /\ UNCHANGED <<tab, lists, batch>>

PollTick(x) ==
    /\ x \in extract.polls /\ extract.asked[x] < MaxStatusCalls
    /\ extract' = [extract EXCEPT !.asked[x] = @ + 1]
    /\ UNCHANGED <<tab, lists, batch>>

\* An answer that ends the poll x, after which nobody waits for the extraction; the flag is taken back whatever else is being extracted.
PollEnds(x) ==
    [extract EXCEPT !.asked[x] = @ - 1, !.polls = @ \ {x}, !.running = @ \ {x}, !.extracting = FALSE]

\* The poll goes on while the extraction runs, and ends when that is through or when its state
\* cannot be had.  An answer that comes after the end of its poll may say any of it.
PollAnswered(x) ==
    /\ extract.asked[x] > 0
    /\ \/ /\ x \in extract.running \/ x \notin extract.polls
          /\ extract' = [extract EXCEPT !.asked[x] = @ - 1]
          /\ UNCHANGED <<tab, lists>>
       \/ /\ x \notin extract.running
          /\ extract' = PollEnds(x)
          /\ LoadWith(tab) \/ UNCHANGED <<tab, lists>>        \* completed, or failed
       \/ /\ extract' = PollEnds(x)
          /\ UNCHANGED <<tab, lists>>                         \* lost
    /\ UNCHANGED batch

\* Bound: beside an extraction the user shows another tab or server, and extracts again.
ExtractionsRest == Idle = Extractions /\ extract.starting = 0

FileBrowserUser ==
    \/ \E b \in BOOLEAN : SetActive(b)
    \/ \E s \in FileServers : ServerChanges(s)
    \/ ExtractArchive
    \/ \E p \in FilePaths : HandleContextMenu(p)
    \/ CloseMenu
    \/ /\ ExtractionsRest
       /\ \/ RefreshFiles \/ HandleSelectAll \/ ClearSelection \/ HandleBreadcrumbNavigate
          \/ \E d \in Directories : ToggleExpand(d)
          \/ \E p \in FilePaths : HandleSelect(p) \/ HandleCheckboxToggle(p)
          \/ BulkMove \/ \E k \in {"move", "copy"} : CtxCopyOrMove(k)
          \/ OpenNameDialog \/ CloseDialog \/ NameDialogAnswered
          \/ DeleteFile \/ BulkDelete \/ BulkCompress
          \/ \E p \in FilePaths, d \in Directories : HandleDrop(p, d)
          \/ \E d \in Directories \cup {<<>>} : ConfirmMoveOrCopy(d)

FileBrowserNext ==
    \/ FileBrowserUser
    \/ \E s \in FileServers : FilesArrive(s)
    \/ BatchAnswered
    \/ ExtractStarted \/ ExtractRefused
    \/ \E x \in Extractions : PollTick(x) \/ PollAnswered(x) \/ ExtractionFinishes(x)

\* Calls are answered or fail, timers fire, and an extraction comes to its end.
FileBrowserFairness ==
    /\ \A s \in FileServers : WF_fbVars(FilesArrive(s))
    /\ WF_fbVars(ExtractStarted \/ ExtractRefused)
    /\ \A x \in Extractions :
         WF_fbVars(PollTick(x)) /\ WF_fbVars(PollAnswered(x)) /\ WF_fbVars(ExtractionFinishes(x))

FileBrowserSpec == FileBrowserInit /\ [][FileBrowserNext]_fbVars /\ FileBrowserFairness

(***************************************************************************)
(* Properties                                                              *)
(***************************************************************************)
\* The tab says that it extracts only while a call or a poll is left to take that back.
ExtractingIsFollowed == extract.extracting => extract.starting > 0 \/ extract.polls # {}

\* The code breaks this: one extraction is followed at a time.  An answer that is left over from the
\* last extraction takes the flag back under the next one, and a third can be begun.
OnePoll == extract.starting + Cardinality(extract.polls) <= 1

\* A drop never carries a directory into itself, whatever else is dragged along: such a
\* call makes the server nest copies until the path is too long.
DropNeverIntoItself ==
    batch # NoFile /\ batch.by = "drop" => \A p \in batch.todo : ~Under(batch.into, p)

\* The code breaks this: the same for the dialogs, which do not look (the drop has a
\* comment, server-files.svelte:370, "Prevent dropping into self or children").
MoveNeverIntoItself ==
    batch # NoFile => \A p \in batch.todo : ~Under(batch.into, p)

\* Paths chosen on one server are never kept for another: a bulk delete would act there.  A menu
\* that was open when the server changed is excepted: its entries act on the row of the old server.
SelectionIsOwn == tab.selected # {} /\ ~tab.late => tab.chosenOn = tab.server

\* The code breaks this: the rows shown are those of the server the tab acts on.
RowsAreOwn == tab.files # {} => tab.owner = tab.server
=============================================================================
