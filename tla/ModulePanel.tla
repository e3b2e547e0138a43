---------------------------- MODULE ModulePanel ----------------------------
(***************************************************************************)
(* The modules of a server as its tab shows them, the list of all modules, *)
(* and the dialog with a module's log.                                     *)
(*                                                                         *)
(* An effect of the page runs again when something it read in its last run *)
(* changes: the effect that loads the tab reads the server only in a run   *)
(* that loads.  The page replaces the server every five seconds by what it *)
(* has fetched, the same server as far as anyone can tell.                 *)
(***************************************************************************)
EXTENDS Naturals, FiniteSets

CONSTANTS PanelServers, HomePanel,   \* bound: the user leaves this server once
          PanelModules, HostOf,      \* the server of each module
          NoModule

ASSUME PanelAssumption == HomePanel \in PanelServers

VARIABLES panel,      \* ServerModules, or ActiveModules, which has no server
          logDialog,  \* ModuleLogsDialog
          panelCalls

panelVars == <<panel, logDialog, panelCalls>>

ModulesOf(s) == {m \in PanelModules : HostOf[m] = s}

\* `reads': the effect that loads the tab read the server when it last ran.
FreshPanel(s) ==
    [server |-> s, active |-> FALSE, hasLoaded |-> FALSE, reads |-> FALSE, timer |-> FALSE,
     rows |-> {}, loading |-> TRUE, acting |-> NoModule, selected |-> NoModule]
ClosedLog == [open |-> FALSE, lines |-> {}, timer |-> FALSE]

ModulePanelTypeOK ==
    /\ panel.server \in PanelServers /\ panel.rows \subseteq PanelModules
    /\ {panel.active, panel.hasLoaded, panel.reads, panel.timer, panel.loading} \subseteq BOOLEAN
    /\ {panel.acting, panel.selected} \subseteq PanelModules \cup {NoModule}
    /\ logDialog.open \in BOOLEAN /\ logDialog.timer \in BOOLEAN /\ logDialog.lines \subseteq PanelModules
    /\ \A c \in panelCalls : c.op \in {"list", "poll", "reload", "act", "log"}

\* bound: two calls at once.
PanelMay == Cardinality(panelCalls) <= 1

ListCall(s, op) == [op |-> op, of |-> s]
ModulePanelInit ==
    /\ panel = FreshPanel(HomePanel) /\ logDialog = ClosedLog /\ panelCalls = {}

(***************************************************************************)
(* The effects                                                             *)
(***************************************************************************)
\* What the effect that loads does when it runs on p; the one before has been cleaned up.
Effect(p) ==
    IF p.active /\ ~p.hasLoaded
    THEN /\ panel' = [p EXCEPT !.hasLoaded = TRUE, !.loading = TRUE, !.reads = TRUE, !.timer = TRUE]
         /\ panelCalls' = panelCalls \cup {ListCall(p.server, "list")}
    ELSE /\ panel' = [p EXCEPT !.reads = FALSE, !.timer = FALSE]
         /\ UNCHANGED panelCalls

PanelActive == Effect([panel EXCEPT !.active = ~@]) /\ PanelMay /\ UNCHANGED logDialog

\* The page has polled its server.
ServerReplaced ==
    /\ panel.reads /\ Effect(panel) /\ UNCHANGED logDialog

\* Another server is chosen in the sidebar.
PanelServerChanges(s) ==
    LET p == [panel EXCEPT !.server = s, !.rows = {}, !.loading = TRUE, !.hasLoaded = FALSE, !.timer = FALSE]
    IN  /\ s # panel.server /\ panel.server = HomePanel /\ PanelMay
        /\ IF panel.reads THEN Effect(p) ELSE panel' = p /\ UNCHANGED panelCalls
        /\ UNCHANGED logDialog

(***************************************************************************)
(* The list                                                                *)
(***************************************************************************)
PollModules ==
    /\ panel.timer /\ PanelMay
    /\ panelCalls' = panelCalls \cup {ListCall(panel.server, "poll")}
    /\ UNCHANGED <<panel, logDialog>>

\* The button beside the title, and the callback of a dialog that has saved.
RefreshModules ==
    /\ panel.active /\ ~panel.loading /\ PanelMay
    /\ panel' = [panel EXCEPT !.loading = TRUE]
    /\ panelCalls' = panelCalls \cup {ListCall(panel.server, "list")}
    /\ UNCHANGED logDialog

\* `reload' is the list that ends an action.
ListAnswered(c) ==
    /\ c.op \in {"list", "poll", "reload"}
    /\ \E rows \in {ModulesOf(c.of), panel.rows} :     \* or it failed
         panel' = [panel EXCEPT !.rows = rows, !.loading = @ /\ c.op = "poll",
                                !.acting = IF c.op = "reload" THEN NoModule ELSE @]
    /\ panelCalls' = panelCalls \ {c} /\ UNCHANGED logDialog

(***************************************************************************)
(* Start, stop, restart, delete                                            *)
(***************************************************************************)
\* The buttons of one row are disabled while its action is under way.
RowButtons(m) == m \in panel.rows /\ panel.acting # m

HandleModule(m) ==
    /\ RowButtons(m) /\ panel.active /\ PanelMay
    /\ panel' = [panel EXCEPT !.acting = m]
    /\ panelCalls' = panelCalls \cup {[op |-> "act", of |-> m]}
    /\ UNCHANGED logDialog

Acted(c) ==
    /\ c.op = "act"
    /\ \/ panelCalls' = (panelCalls \ {c}) \cup {ListCall(panel.server, "reload")}
          /\ panel' = [panel EXCEPT !.loading = TRUE]
       \/ panelCalls' = panelCalls \ {c} /\ panel' = [panel EXCEPT !.acting = NoModule]
    /\ UNCHANGED logDialog

(***************************************************************************)
(* The log of a module                                                     *)
(***************************************************************************)
LogCall == [op |-> "log", of |-> panel.selected]

OpenLogsDialog(m) ==
    /\ m \in panel.rows /\ panel.active /\ ~logDialog.open /\ PanelMay
    /\ panel' = [panel EXCEPT !.selected = m]
    /\ logDialog' = [logDialog EXCEPT !.open = TRUE, !.timer = TRUE]
    /\ panelCalls' = panelCalls \cup {[LogCall EXCEPT !.of = m]}

CloseLogsDialog == logDialog.open /\ logDialog' = ClosedLog /\ UNCHANGED <<panel, panelCalls>>

PollLogs ==
    /\ logDialog.timer /\ PanelMay
    /\ panelCalls' = panelCalls \cup {LogCall}
    /\ UNCHANGED <<panel, logDialog>>

ClearLogs ==
    /\ logDialog.open /\ logDialog.lines # {}
    /\ logDialog' = [logDialog EXCEPT !.lines = {}]
    /\ UNCHANGED <<panel, panelCalls>>

\* The answer is shown by whichever module the dialog is open for.
LogAnswered(c) ==
    /\ c.op = "log"
    /\ \E lines \in {{c.of}, logDialog.lines} : logDialog' = [logDialog EXCEPT !.lines = lines]
    /\ panelCalls' = panelCalls \ {c} /\ UNCHANGED panel

ModulePanelNext ==
    \/ PanelActive \/ ServerReplaced \/ PollModules \/ RefreshModules
    \/ CloseLogsDialog \/ PollLogs \/ ClearLogs
    \/ \E s \in PanelServers : PanelServerChanges(s)
    \/ \E m \in PanelModules : HandleModule(m) \/ OpenLogsDialog(m)
    \/ \E c \in panelCalls : ListAnswered(c) \/ Acted(c) \/ LogAnswered(c)

\* Every call ends.
ModulePanelFairness ==
    /\ \A op \in {"list", "poll", "reload"} :
         WF_panelVars(\E c \in panelCalls : c.op = op /\ ListAnswered(c))
    /\ WF_panelVars(\E c \in panelCalls : Acted(c))
    /\ WF_panelVars(\E c \in panelCalls : LogAnswered(c))

ModulePanelSpec == ModulePanelInit /\ [][ModulePanelNext]_panelVars /\ ModulePanelFairness

(***************************************************************************)
(* Properties                                                              *)
(***************************************************************************)
\* No timer polls for a tab or a dialog that is not shown.
NoTimerLeft == (panel.timer => panel.active) /\ (logDialog.timer => logDialog.open)

\* The code breaks these: a tab that is shown is loaded in the end, and polls.
TabLoads == panel.active /\ panel.loading ~> ~panel.loading \/ ~panel.active
PollingGoesOn == [](panel.active /\ panel.hasLoaded => panel.timer)
=============================================================================
