---------------------------- MODULE MCServerTabs ----------------------------
(***************************************************************************)
(* The pages around a server, checked together: a behaviour is that of one *)
(* page, chosen at the start, while the others are as they are before they *)
(* are opened.                                                             *)
(***************************************************************************)
EXTENDS FileBrowser, FileEditor, TaskPage, ServerPage, ConsoleSocket, ModulePanel, ModuleForms,
        ServerForms

CONSTANTS s1, s2, m1, m2, t1, t2

VARIABLE shownTab

tabsVars == <<shownTab, fbVars, edVars, tpVars, serverPageVars, consoleVars, panelVars, formVars,
              tabFormVars>>

Listing == {<<"d">>, <<"d", "z">>}
Folders == {<<"d">>}
Zips == {<<"d", "z">>}
Listings == {{}, Listing}
Addresses == {"u"}
Presets == [u \in Addresses |-> "discord"]
Configs == {ScriptConfig("x", <<<<"x">>, <<"w">>>>), BackupConfig(<<<<"x">>, <<"y">>>>, 5, 0),
            WebhookConfig("u", "s", "custom", "h"), WebhookConfig("u", Unset, Unset, Unset)}
Hosts == [m \in PanelModules |-> IF m = m1 THEN s1 ELSE s2]
PortsAre == [t \in Templates |-> IF t = t1 THEN <<0>> ELSE <<9, 0, 0>>]

TabNames == {"files", "editor", "tasks", "pages", "console", "modules", "forms", "settings"}

\* The choices of the initial states are made for the page that is shown.
TabsInit ==
    /\ shownTab \in TabNames
    /\ FileBrowserInit /\ FileEditorInit /\ TaskPageInit /\ ServerPageInit
    /\ ConsoleInit /\ ModulePanelInit /\ ModuleFormsInit /\ ServerFormsInit
    /\ shownTab # "tasks" => \A k \in TaskIds : taskRows[k] = NoTask
    /\ shownTab # "pages" => view.at = "home"
    /\ shownTab # "settings" => openTab = "settings"

Rest(name, vars) == IF shownTab = name THEN TRUE ELSE UNCHANGED vars

OthersRest ==
    /\ UNCHANGED shownTab
    /\ Rest("files", fbVars) /\ Rest("editor", edVars) /\ Rest("tasks", tpVars)
    /\ Rest("pages", serverPageVars) /\ Rest("console", consoleVars)
    /\ Rest("modules", panelVars) /\ Rest("forms", formVars)
    /\ Rest("settings", tabFormVars)

TabsNext ==
    /\ \/ shownTab = "files" /\ FileBrowserNext
       \/ shownTab = "editor" /\ FileEditorNext
       \/ shownTab = "tasks" /\ TaskPageNext
       \/ shownTab = "pages" /\ ServerPageNext
       \/ shownTab = "console" /\ ConsoleNext
       \/ shownTab = "modules" /\ ModulePanelNext
       \/ shownTab = "forms" /\ ModuleFormsNext
       \/ shownTab = "settings" /\ ServerFormsNext
    /\ OthersRest

TabsFairness ==
    /\ FileBrowserFairness /\ FileEditorFairness /\ ConsoleFairness
    /\ ModulePanelFairness /\ ModuleFormsFairness /\ ServerFormsFairness
    /\ WF_tpVars(shownTab = "tasks" /\ \E c \in taskCalls : SaveAccepted(c) \/ SaveRefused(c))
    /\ \A f \in {"page", "list", "action"} :
         /\ WF_serverPageVars(shownTab = "pages" /\ \E c \in asked : c.for = f /\ ServesRead(c))
         /\ WF_serverPageVars(shownTab = "pages" /\ \E c \in asked :
                                 c.for = f /\ (GetArrives(c) \/ ListArrives(c) \/ ReadFails(c)))
         /\ WF_serverPageVars(shownTab = "pages" /\ \E c \in asked :
                                 c.for = f /\ (ActArrives(c) \/ DeleteArrives(c)))

TabsSpec == TabsInit /\ [][TabsNext]_tabsVars /\ TabsFairness

TabsTypeOK ==
    /\ FileBrowserTypeOK /\ FileEditorTypeOK /\ TaskPageTypeOK /\ ServerPageTypeOK
    /\ ConsoleTypeOK /\ ModulePanelTypeOK /\ ModuleFormsTypeOK /\ ServerFormsTypeOK

\* The server page shows what was asked for the server it is on, paths are selected on the server
\* that is shown, the console subscribes to its own, and the dashboard counts each server once.
\* The rows of the file tab and the configuration are not among it: RowsAreOwn, ConfigIsOwn.
ShowsItsOwn == SelectionIsOwn /\ ShownIsRequested /\ SubscribesToShown /\ GroupsPartition

\* What is shown as running is followed, and little runs on after the page has left it: an
\* extraction that is shown has a poll, there is one save of a task or of a configuration, no poll
\* of the modules' tab or of its dialogs runs on (that of an extraction does), and the hub follows
\* no log that the console has left.
NothingLeftRunning == ExtractingIsFollowed /\ OneSave /\ OneConfigSave /\ NoTimerLeft /\ HubFollows

\* A form sends what the user was shown: a task that was only opened keeps what the form knows of
\* the configuration in the list, and its secret, settings go to the server they were made of, a
\* drop never carries a directory into itself, and no module with a port nobody reaches is made
\* without asking.
FormsSendWhatTheyShow ==
    EditKeepsConfig /\ SecretIsKept /\ SettingsAreOwn /\ DropNeverIntoItself /\ NoSilentPort

\* What a page lets the user wait for: the extraction shown, the file that is opened, the
\* save of a task, the action on a server or a module, the form that is sent, the connection, the
\* settings, the configuration or the routing that is saved, the mod that is uploaded.
Waiting ==
    CASE shownTab = "files"   -> extract.extracting
      [] shownTab = "editor"  -> dialog.open /\ dialog.editor = NoText
      [] shownTab = "tasks"   -> taskTab.creating
      [] shownTab = "pages"   -> view.acting
      [] shownTab = "console" -> ws.state = "disconnected" /\ ws.timer /\ ws.attempts < MaxReconnects
      [] shownTab = "modules" -> panel.acting # NoModule
      [] shownTab = "forms"   -> "create" \in form.submitting
      [] shownTab = "settings" -> FormsSaving

\* Whatever fails, no page makes the user wait for ever: flags are taken back, polls end, the
\* connection is tried again until the attempts are used up.
WaitingEnds == Waiting ~> ~Waiting
=============================================================================
