--------------------------- MODULE ServerTabsProofs ---------------------------
(***************************************************************************)
(* Theorems about the pages around a server, for any number of servers,    *)
(* files, tasks and modules.                                               *)
(*                                                                         *)
(* Each page has an invariant of its own, kept by each of its steps; the   *)
(* last section puts them together for the page that is shown.             *)
(***************************************************************************)
EXTENDS MCServerTabs, FiniteSetTheorems, TLAPS

-----------------------------------------------------------------------------
(* The modules of a server and their log.                                   *)

Panels == [server : PanelServers, active : BOOLEAN, hasLoaded : BOOLEAN, reads : BOOLEAN,
           timer : BOOLEAN, rows : SUBSET PanelModules, loading : BOOLEAN,
           acting : PanelModules \cup {NoModule}, selected : PanelModules \cup {NoModule}]

LogDialogs == [open : BOOLEAN, lines : SUBSET PanelModules, timer : BOOLEAN]

PanelOps == {"list", "poll", "reload", "act", "log"}

\* A log is asked for only of a module.
PanelCallOK(c) == c.op \in PanelOps /\ (c.op = "log" => c.of \in PanelModules)

\* The poll ends with the tab; an open dialog is about a module, which is asked for.
PanelOK(p) == p \in Panels /\ (p.timer => p.active) /\ (logDialog.open => p.selected \in PanelModules)

PanelInv ==
    /\ PanelOK(panel)
    /\ logDialog \in LogDialogs /\ (logDialog.timer => logDialog.open)
    /\ \A c \in panelCalls : PanelCallOK(c)

LEMMA PanelTypesImply == PanelInv => ModulePanelTypeOK /\ NoTimerLeft
<1> SUFFICES ASSUME PanelInv PROVE ModulePanelTypeOK /\ NoTimerLeft
  OBVIOUS
<1>1. panel \in Panels /\ (panel.timer => panel.active) /\ logDialog \in LogDialogs
      /\ (logDialog.timer => logDialog.open) /\ \A c \in panelCalls : c.op \in PanelOps
  BY DEF PanelInv, PanelOK, PanelCallOK
<1> QED
  BY <1>1 DEF Panels, LogDialogs, PanelOps, ModulePanelTypeOK, NoTimerLeft

LEMMA PanelInitInv == ModulePanelInit => PanelInv
<1> SUFFICES ASSUME ModulePanelInit PROVE PanelInv
  OBVIOUS
<1>1. panel \in Panels /\ ~panel.timer /\ logDialog \in LogDialogs /\ ~logDialog.open
      /\ ~logDialog.timer /\ panelCalls = {}
  BY PanelAssumption DEF ModulePanelInit, FreshPanel, ClosedLog, Panels, LogDialogs
<1> QED
  BY <1>1 DEF PanelInv, PanelOK

LEMMA ListCallIs ==
  ASSUME NEW s, NEW op \in {"list", "poll", "reload"}
  PROVE  PanelCallOK(ListCall(s, op))
  BY DEF PanelCallOK, PanelOps, ListCall

\* The effect that loads a tab sets its timer only while the tab is shown.
LEMMA EffectKeeps ==
  ASSUME PanelInv, NEW p \in Panels, p.selected = panel.selected, Effect(p), UNCHANGED logDialog
  PROVE  PanelInv'
<1>1. PanelCallOK(ListCall(p.server, "list"))
  BY ListCallIs
<1>2. panel' \in Panels /\ (panel'.timer => panel'.active) /\ panel'.selected = panel.selected
  <2>1. CASE p.active /\ ~p.hasLoaded
    <3>1. panel' = [p EXCEPT !.hasLoaded = TRUE, !.loading = TRUE, !.reads = TRUE, !.timer = TRUE]
      BY <2>1 DEF Effect
    <3> QED
      BY <2>1, <3>1 DEF Panels
  <2>2. CASE ~(p.active /\ ~p.hasLoaded)
    <3>1. panel' = [p EXCEPT !.reads = FALSE, !.timer = FALSE]
      BY <2>2 DEF Effect
    <3> QED
      BY <3>1 DEF Panels
  <2> QED
    BY <2>1, <2>2
<1>3. panelCalls' \subseteq panelCalls \cup {ListCall(p.server, "list")}
  BY DEF Effect
<1>4. PanelOK(panel)'
  BY <1>2 DEF PanelInv, PanelOK
<1> QED
  BY <1>1, <1>3, <1>4 DEF PanelInv, PanelCallOK

\* A step of the tab that leaves its dialog alone.
LEMMA PanelKeeps ==
  ASSUME PanelInv, panel' \in Panels, panel'.timer => panel'.active,
         panel'.selected = panel.selected, UNCHANGED logDialog,
         \A c \in panelCalls' : c \in panelCalls \/ PanelCallOK(c)
  PROVE  PanelInv'
<1>1. PanelOK(panel)'
  BY DEF PanelInv, PanelOK
<1>2. \A c \in panelCalls' : PanelCallOK(c)
  BY DEF PanelInv
<1>3. (\A c \in panelCalls : PanelCallOK(c))'
  BY <1>2 DEF PanelCallOK
<1> QED
  BY <1>1, <1>3 DEF PanelInv

\* A step of the dialog.
LEMMA LogKeeps ==
  ASSUME PanelInv, UNCHANGED panel, logDialog' \in LogDialogs, logDialog'.timer => logDialog'.open,
         logDialog'.open => logDialog.open,
         \A c \in panelCalls' : c \in panelCalls \/ PanelCallOK(c)
  PROVE  PanelInv'
<1>1. PanelOK(panel)'
  BY DEF PanelInv, PanelOK
<1>2. \A c \in panelCalls' : PanelCallOK(c)
  BY DEF PanelInv
<1>3. (\A c \in panelCalls : PanelCallOK(c))'
  BY <1>2 DEF PanelCallOK
<1> QED
  BY <1>1, <1>3 DEF PanelInv

LEMMA PanelStep == PanelInv /\ [ModulePanelNext]_panelVars => PanelInv'
<1> SUFFICES ASSUME PanelInv, [ModulePanelNext]_panelVars PROVE PanelInv'
  OBVIOUS
<1>1. panel \in Panels /\ (panel.timer => panel.active) /\ logDialog \in LogDialogs
      /\ (logDialog.timer => logDialog.open) /\ (logDialog.open => panel.selected \in PanelModules)
      /\ \A c \in panelCalls : PanelCallOK(c)
  BY DEF PanelInv, PanelOK
<1>2. CASE UNCHANGED panelVars
  BY <1>1, <1>2, PanelKeeps DEF panelVars
<1>3. CASE PanelActive
  <2>1. [panel EXCEPT !.active = ~@] \in Panels
        /\ [panel EXCEPT !.active = ~@].selected = panel.selected
    BY <1>1 DEF Panels
  <2> QED
    BY <1>3, <2>1, EffectKeeps DEF PanelActive
<1>4. CASE ServerReplaced
  BY <1>1, <1>4, EffectKeeps DEF ServerReplaced
<1>5. ASSUME NEW s \in PanelServers, PanelServerChanges(s) PROVE PanelInv'
  <2> DEFINE p == [panel EXCEPT !.server = s, !.rows = {}, !.loading = TRUE, !.hasLoaded = FALSE,
                                !.timer = FALSE]
  <2>1. p \in Panels /\ p.selected = panel.selected /\ ~p.timer
    BY <1>1 DEF Panels
  <2>2. CASE panel.reads
    <3>1. Effect(p) /\ UNCHANGED logDialog
      BY <1>5, <2>2 DEF PanelServerChanges
    <3> QED
      BY <2>1, <3>1, EffectKeeps
  <2>3. CASE ~panel.reads
    <3>1. panel' = p /\ UNCHANGED <<panelCalls, logDialog>>
      BY <1>5, <2>3 DEF PanelServerChanges
    <3> QED
      BY <2>1, <3>1, PanelKeeps
  <2> QED
    BY <2>2, <2>3
<1>6. CASE PollModules
  <2>1. PanelCallOK(ListCall(panel.server, "poll"))
    BY ListCallIs
  <2> QED
    BY <1>1, <1>6, <2>1, PanelKeeps DEF PollModules
<1>7. CASE RefreshModules
  <2>1. PanelCallOK(ListCall(panel.server, "list"))
    BY ListCallIs
  <2>2. panel' \in Panels /\ panel'.timer = panel.timer /\ panel'.active = panel.active
        /\ panel'.selected = panel.selected
    BY <1>1, <1>7 DEF RefreshModules, Panels
  <2> QED
    BY <1>1, <1>7, <2>1, <2>2, PanelKeeps DEF RefreshModules
<1>8. ASSUME NEW c \in panelCalls, ListAnswered(c) PROVE PanelInv'
  <2>1. PICK rows \in {ModulesOf(c.of), panel.rows} :
          panel' = [panel EXCEPT !.rows = rows, !.loading = @ /\ c.op = "poll",
                                 !.acting = IF c.op = "reload" THEN NoModule ELSE @]
    BY <1>8 DEF ListAnswered
  <2>2. rows \in SUBSET PanelModules
    BY <1>1 DEF ModulesOf, Panels
  <2>3. (panel.loading /\ c.op = "poll") \in BOOLEAN
    OBVIOUS
  <2>4. panel' \in Panels /\ panel'.timer = panel.timer /\ panel'.active = panel.active
        /\ panel'.selected = panel.selected
    BY <1>1, <2>1, <2>2, <2>3 DEF Panels
  <2> QED
    BY <1>1, <1>8, <2>4, PanelKeeps DEF ListAnswered
<1>9. ASSUME NEW m \in PanelModules, HandleModule(m) PROVE PanelInv'
  <2>1. PanelCallOK([op |-> "act", of |-> m])
    BY DEF PanelCallOK, PanelOps
  <2>2. panel' \in Panels /\ panel'.timer = panel.timer /\ panel'.active = panel.active
        /\ panel'.selected = panel.selected
    BY <1>1, <1>9 DEF HandleModule, Panels
  <2> QED
    BY <1>1, <1>9, <2>1, <2>2, PanelKeeps DEF HandleModule
<1>10. ASSUME NEW c \in panelCalls, Acted(c) PROVE PanelInv'
  <2>1. PanelCallOK(ListCall(panel.server, "reload"))
    BY ListCallIs
  <2>2. panel' \in Panels /\ panel'.timer = panel.timer /\ panel'.active = panel.active
        /\ panel'.selected = panel.selected
    BY <1>1, <1>10 DEF Acted, Panels
  <2> QED
    BY <1>1, <1>10, <2>1, <2>2, PanelKeeps DEF Acted
<1>11. ASSUME NEW m \in PanelModules, OpenLogsDialog(m) PROVE PanelInv'
  <2>1. panel' \in Panels /\ panel'.timer = panel.timer /\ panel'.active = panel.active
        /\ panel'.selected \in PanelModules
    BY <1>1, <1>11 DEF OpenLogsDialog, Panels
  <2>2. logDialog' \in LogDialogs /\ logDialog'.open /\ (logDialog'.timer => logDialog'.open)
    BY <1>1, <1>11 DEF OpenLogsDialog, LogDialogs
  <2>3. PanelCallOK([LogCall EXCEPT !.of = m])
    BY DEF PanelCallOK, PanelOps, LogCall
  <2>4. (\A c \in panelCalls : PanelCallOK(c))'
    BY <1>1, <1>11, <2>3 DEF OpenLogsDialog, PanelCallOK
  <2>5. PanelOK(panel)'
    BY <1>1, <2>1 DEF PanelOK
  <2> QED
    BY <2>2, <2>4, <2>5 DEF PanelInv
<1>12. CASE CloseLogsDialog
  <2>1. logDialog' \in LogDialogs /\ ~logDialog'.timer /\ ~logDialog'.open
    BY <1>12 DEF CloseLogsDialog, ClosedLog, LogDialogs
  <2> QED
    BY <1>12, <2>1, LogKeeps DEF CloseLogsDialog
<1>13. CASE PollLogs
  <2>1. PanelCallOK(LogCall)
    BY <1>1, <1>13 DEF PollLogs, PanelCallOK, PanelOps, LogCall
  <2> QED
    BY <1>1, <1>13, <2>1, PanelKeeps DEF PollLogs
<1>14. CASE ClearLogs
  <2>1. logDialog' \in LogDialogs /\ logDialog'.timer = logDialog.timer /\ logDialog'.open = logDialog.open
    BY <1>1, <1>14 DEF ClearLogs, LogDialogs
  <2> QED
    BY <1>1, <1>14, <2>1, LogKeeps DEF ClearLogs
<1>15. ASSUME NEW c \in panelCalls, LogAnswered(c) PROVE PanelInv'
  <2>1. c.of \in PanelModules
    BY <1>1, <1>15 DEF LogAnswered, PanelCallOK
  <2>2. PICK lines \in {{c.of}, logDialog.lines} : logDialog' = [logDialog EXCEPT !.lines = lines]
    BY <1>15 DEF LogAnswered
  <2>3. lines \in SUBSET PanelModules
    BY <1>1, <2>1, <2>2 DEF LogDialogs
  <2>4. logDialog' \in LogDialogs /\ logDialog'.timer = logDialog.timer /\ logDialog'.open = logDialog.open
    BY <1>1, <2>2, <2>3 DEF LogDialogs
  <2> QED
    BY <1>1, <1>15, <2>4, LogKeeps DEF LogAnswered
<1> QED
  BY <1>2, <1>3, <1>4, <1>5, <1>6, <1>7, <1>8, <1>9, <1>10, <1>11, <1>12, <1>13, <1>14, <1>15
     DEF ModulePanelNext

-----------------------------------------------------------------------------
(* Settings, configuration, routing and mods.                               *)

SettingsForms == [id : FormServers, of : FormServers, edited : BOOLEAN, newer : BOOLEAN, saving : BOOLEAN]
ConfigForms == [of : MaybeForm, modified : SUBSET ConfigFields, loading : BOOLEAN, saving : BOOLEAN]
RoutingForms == [of : MaybeForm, host : MaybeForm, typed : BOOLEAN, loading : BOOLEAN, saving : BOOLEAN]
ModsForms == [of : MaybeForm, loading : BOOLEAN, uploading : BOOLEAN, loaded : BOOLEAN, follows : BOOLEAN]

\* A configuration is changed only when there is one, a host name only when it was loaded.
TabsHold ==
    /\ openTab \in TabForms /\ formAt \in FormServers
    /\ settings \in SettingsForms /\ settings.id = settings.of
    /\ config \in ConfigForms /\ (config.modified # {} => config.of # NoForm)
    /\ routing \in RoutingForms /\ (routing.typed => routing.of # NoForm)
    /\ mods \in ModsForms

\* Calls name a server of the panel; settings go where they were made.
TabCallOK(c) == c.at \in FormServers /\ (c.op = "settings" => c.at = c.of)

\* The flag is up while a configuration is saved, so that there is one save.
SavesOne(calls, saving) ==
    \A c, d \in calls : c.op = "saveConfig" /\ d.op = "saveConfig" => c = d /\ saving

Few(calls) == IsFiniteSet(calls) /\ Cardinality(calls) <= MaxTabCalls + 2

TabInv ==
    /\ TabsHold /\ Few(tabCalls) /\ SavesOne(tabCalls, config.saving)
    /\ \A c \in tabCalls : TabCallOK(c)

LEMMA TabTypesImply == TabInv => ServerFormsTypeOK /\ SettingsAreOwn /\ OneConfigSave
<1> SUFFICES ASSUME TabInv PROVE ServerFormsTypeOK /\ SettingsAreOwn /\ OneConfigSave
  OBVIOUS
<1>1. ServerFormsTypeOK
  BY DEF TabInv, TabsHold, Few, SettingsForms, ConfigForms, RoutingForms, ModsForms, ServerFormsTypeOK
<1>2. SettingsAreOwn
  BY DEF TabInv, TabCallOK, SettingsAreOwn
<1>3. OneConfigSave
  <2> DEFINE saves == {c \in tabCalls : c.op = "saveConfig"}
  <2>1. saves = {} \/ \E c \in saves : saves = {c}
    BY DEF TabInv, SavesOne
  <2>2. Cardinality(saves) <= 1
    BY <2>1, FS_EmptySet, FS_Singleton
  <2> QED
    BY <2>2 DEF OneConfigSave
<1> QED
  BY <1>1, <1>2, <1>3

\* One call more, below the bound; an answered call, and one that follows it.
LEMMA CallsCount ==
  ASSUME Few(tabCalls)
  PROVE  /\ \A c : TabIdle => Few(tabCalls \cup {c})
         /\ \A c, d : TabIdle => Few(tabCalls \cup {c, d})
         /\ \A c \in tabCalls : Few(tabCalls \ {c}) /\ \A d : Few((tabCalls \ {c}) \cup {d})
<1>1. MaxTabCalls \in Nat /\ Cardinality(tabCalls) \in Nat
  BY TabAssumption, FS_CardinalityType DEF Few
<1>2. ASSUME NEW c, TabIdle
      PROVE  IsFiniteSet(tabCalls \cup {c}) /\ Cardinality(tabCalls \cup {c}) \in Nat
             /\ Cardinality(tabCalls \cup {c}) <= MaxTabCalls
  BY <1>1, <1>2, FS_AddElement, FS_CardinalityType DEF Few, TabIdle
<1>3. ASSUME NEW c, NEW d, TabIdle PROVE Few(tabCalls \cup {c, d})
  <2> DEFINE one == tabCalls \cup {c}
             both == tabCalls \cup {c, d}
  <2>1. IsFiniteSet(one) /\ Cardinality(one) \in Nat /\ Cardinality(one) <= MaxTabCalls
    BY <1>2, <1>3
  <2>2. both = one \cup {d}
    OBVIOUS
  <2> HIDE DEF one, both
  <2>3. IsFiniteSet(both) /\ Cardinality(both) = IF d \in one THEN Cardinality(one) ELSE Cardinality(one) + 1
    BY <2>1, <2>2, FS_AddElement
  <2>4. IsFiniteSet(both) /\ Cardinality(both) <= MaxTabCalls + 2
    BY <1>1, <2>1, <2>3
  <2> QED
    BY <2>4 DEF Few, both
<1>4. ASSUME NEW c \in tabCalls
      PROVE  IsFiniteSet(tabCalls \ {c}) /\ Cardinality(tabCalls \ {c}) = Cardinality(tabCalls) - 1
  BY <1>4, FS_RemoveElement DEF Few
<1>5. ASSUME NEW c \in tabCalls, NEW d PROVE Few((tabCalls \ {c}) \cup {d})
  <2> DEFINE less == tabCalls \ {c}
             then == less \cup {d}
  <2>1. IsFiniteSet(less) /\ Cardinality(less) = Cardinality(tabCalls) - 1
    BY <1>4
  <2> HIDE DEF less
  <2>2. IsFiniteSet(then) /\ Cardinality(then) = IF d \in less THEN Cardinality(less) ELSE Cardinality(less) + 1
    BY <2>1, FS_AddElement
  <2> HIDE DEF then
  <2>3. IsFiniteSet(then) /\ Cardinality(then) <= MaxTabCalls + 2
    BY <1>1, <2>1, <2>2 DEF Few
  <2> QED
    BY <2>3 DEF Few, then, less
<1>6. ASSUME NEW c, TabIdle PROVE Few(tabCalls \cup {c})
  <2> DEFINE one == tabCalls \cup {c}
  <2>1. IsFiniteSet(one) /\ Cardinality(one) \in Nat /\ Cardinality(one) <= MaxTabCalls
    BY <1>2, <1>6
  <2> HIDE DEF one
  <2>2. Cardinality(one) <= MaxTabCalls + 2
    BY <1>1, <2>1
  <2> QED
    BY <2>1, <2>2 DEF Few, one
<1>7. ASSUME NEW c \in tabCalls PROVE Few(tabCalls \ {c})
  BY <1>1, <1>4, <1>7 DEF Few
<1> QED
  BY <1>3, <1>5, <1>6, <1>7

LEMMA TabInitInv == ServerFormsInit => TabInv
<1> SUFFICES ASSUME ServerFormsInit PROVE TabInv
  OBVIOUS
<1>1. TabsHold
  BY TabAssumption DEF ServerFormsInit, TabsHold, SettingsOf, FirstConfig, BlankRouting, FirstMods,
     SettingsForms, ConfigForms, RoutingForms, ModsForms, MaybeForm
<1>2. \/ tabCalls = {}
      \/ tabCalls = {TabCall(openTab, FirstForm, FirstForm, 1)}
  BY DEF ServerFormsInit, Loads
<1>3. IsFiniteSet(tabCalls) /\ (Cardinality(tabCalls) = 0 \/ Cardinality(tabCalls) = 1)
  <2>1. CASE tabCalls = {}
    BY <2>1, FS_EmptySet
  <2>2. CASE tabCalls = {TabCall(openTab, FirstForm, FirstForm, 1)}
    BY <2>2, FS_Singleton
  <2> QED
    BY <1>2, <2>1, <2>2
<1>5. Few(tabCalls)
  BY <1>3, TabAssumption DEF Few
<1>4. \A c \in tabCalls : TabCallOK(c) /\ c.op # "saveConfig"
  BY <1>2, TabAssumption DEF ServerFormsInit, TabCall, TabCallOK, TabForms
<1> QED
  BY <1>1, <1>4, <1>5 DEF TabInv, SavesOne

\* A step that keeps the forms, the flag of the configuration, and a few calls, of which the
\* new ones are in order and save no configuration.
LEMMA TabsKeep ==
  ASSUME TabInv, TabsHold', config'.saving = config.saving, Few(tabCalls'),
         \A c \in tabCalls' : c \in tabCalls \/ (TabCallOK(c) /\ c.op # "saveConfig")
  PROVE  TabInv'
<1>1. \A c \in tabCalls' : TabCallOK(c)
  BY DEF TabInv
<1>2. SavesOne(tabCalls', config'.saving)
  BY DEF TabInv, SavesOne
<1>3. (\A c \in tabCalls : TabCallOK(c))'
  BY <1>1 DEF TabCallOK
<1>4. SavesOne(tabCalls, config.saving)'
  BY <1>2 DEF SavesOne
<1>5. Few(tabCalls)'
  BY DEF Few
<1> QED
  BY <1>3, <1>4, <1>5 DEF TabInv

LEMMA LoadsIs ==
  ASSUME NEW op \in {"config", "routing", "mods", "saveRouting", "upload", "import", "mod"},
         NEW at \in FormServers, NEW of, NEW nr
  PROVE  TabCallOK(TabCall(op, at, of, nr)) /\ TabCall(op, at, of, nr).op # "saveConfig"
  BY DEF TabCallOK, TabCall

LEMMA TabUserStep ==
  ASSUME TabInv,
         \/ \E s \in FormServers : SwitchForms(s)
         \/ ServerPolled \/ ModsReopened \/ EditSettings \/ SaveSettings
         \/ (\E f \in ConfigFields : ChangeField(f)) \/ ResetConfig \/ SaveConfig
         \/ TypeHost \/ SaveRouting \/ SelectMod \/ ChangeMod
  PROVE  TabInv'
<1>1. TabsHold /\ Few(tabCalls) /\ formAt \in FormServers
  BY DEF TabInv, TabsHold
<1>2. ASSUME NEW s \in FormServers, SwitchForms(s) PROVE TabInv'
  <2>1. TabIdle /\ formAt' = s /\ UNCHANGED openTab
    BY <1>2 DEF SwitchForms
  <2>2. CASE openTab = "settings"
    <3>1. settings' = SettingsOf(s) /\ UNCHANGED <<config, routing, mods, tabCalls>>
      BY <1>2, <2>2 DEF SwitchForms, SettingsReset
    <3>2. TabsHold'
      BY <1>1, <2>1, <3>1 DEF TabsHold, SettingsOf, SettingsForms
    <3> QED
      BY <1>1, <3>1, <3>2, TabsKeep
  <2>3. CASE openTab = "config"
    <3>1. config' = [config EXCEPT !.loading = TRUE] /\ UNCHANGED <<settings, routing, mods>>
          /\ tabCalls' = tabCalls \cup {TabCall("config", s, s, 1)}
      BY <1>2, <2>3 DEF SwitchForms, Loads
    <3>2. TabsHold' /\ config'.saving = config.saving
      BY <1>1, <2>1, <3>1 DEF TabsHold, ConfigForms
    <3>3. Few(tabCalls')
      BY <1>1, <2>1, <3>1, CallsCount
    <3> QED
      BY <3>1, <3>2, <3>3, TabsKeep, LoadsIs
  <2>4. CASE openTab = "routing"
    <3>1. routing' = BlankRouting /\ UNCHANGED <<settings, config, mods>>
          /\ tabCalls' = tabCalls \cup {TabCall("routing", s, s, n) : n \in 1 .. 2}
      BY <1>2, <2>4 DEF SwitchForms
    <3>2. TabsHold'
      BY <1>1, <2>1, <3>1 DEF TabsHold, RoutingForms, BlankRouting, MaybeForm
    <3>3. {TabCall("routing", s, s, n) : n \in 1 .. 2}
             = {TabCall("routing", s, s, 1), TabCall("routing", s, s, 2)}
      <4>1. 1 .. 2 = {1, 2}
        OBVIOUS
      <4> QED
        BY <4>1
    <3>4. Few(tabCalls')
      BY <1>1, <2>1, <3>1, <3>3, CallsCount
    <3> QED
      BY <3>1, <3>2, <3>3, <3>4, TabsKeep, LoadsIs
  <2>5. CASE openTab = "mods"
    <3>1. mods' = [FirstMods EXCEPT !.loaded = mods.follows, !.follows = mods.follows]
          /\ UNCHANGED <<settings, config, routing>>
          /\ (tabCalls' = tabCalls \cup {TabCall("mods", s, s, 1)} \/ tabCalls' = tabCalls)
      BY <1>2, <2>5 DEF SwitchForms, Loads
    <3>2. TabsHold'
      BY <1>1, <2>1, <3>1 DEF TabsHold, ModsForms, FirstMods, MaybeForm
    <3>3. Few(tabCalls')
      BY <1>1, <2>1, <3>1, CallsCount
    <3> QED
      BY <3>1, <3>2, <3>3, TabsKeep, LoadsIs
  <2> QED
    BY <1>1, <2>2, <2>3, <2>4, <2>5 DEF TabsHold, TabForms
<1>3. CASE ServerPolled
  <2>1. TabsHold' /\ UNCHANGED <<config, tabCalls>>
    BY <1>1, <1>3 DEF ServerPolled, TabsHold, SettingsForms, ModsForms
  <2> QED
    BY <1>1, <2>1, TabsKeep
<1>4. CASE ModsReopened
  <2>1. TabsHold'
    BY <1>1, <1>4 DEF ModsReopened, TabsHold, ModsForms
  <2>2. Few(tabCalls')
    BY <1>1, <1>4, CallsCount DEF ModsReopened, Loads
  <2> QED
    BY <1>1, <1>4, <2>1, <2>2, TabsKeep, LoadsIs DEF ModsReopened, Loads
<1>5. CASE EditSettings
  <2>1. TabsHold'
    BY <1>1, <1>5 DEF EditSettings, TabsHold, SettingsForms
  <2> QED
    BY <1>1, <1>5, <2>1, TabsKeep DEF EditSettings
<1>6. CASE SaveSettings
  <2> DEFINE c == TabCall("settings", settings.id, settings.of, IF settings.edited THEN 1 ELSE 2)
  <2>1. TabsHold'
    BY <1>1, <1>6 DEF SaveSettings, TabsHold, SettingsForms
  <2>2. TabCallOK(c) /\ c.op # "saveConfig"
    BY <1>1 DEF TabsHold, SettingsForms, TabCallOK, TabCall
  <2>3. tabCalls' = tabCalls \cup {c} /\ TabIdle /\ UNCHANGED config
    BY <1>6 DEF SaveSettings
  <2> HIDE DEF c
  <2>4. Few(tabCalls')
    BY <1>1, <2>3, CallsCount
  <2> QED
    BY <2>1, <2>2, <2>3, <2>4, TabsKeep
<1>7. ASSUME NEW f \in ConfigFields, ChangeField(f) PROVE TabInv'
  <2>1. TabsHold' /\ config'.saving = config.saving
    BY <1>1, <1>7 DEF ChangeField, TabsHold, ConfigForms
  <2> QED
    BY <1>1, <1>7, <2>1, TabsKeep DEF ChangeField
<1>8. CASE ResetConfig
  <2>1. TabsHold' /\ config'.saving = config.saving
    BY <1>1, <1>8 DEF ResetConfig, TabsHold, ConfigForms
  <2> QED
    BY <1>1, <1>8, <2>1, TabsKeep DEF ResetConfig
<1>9. CASE SaveConfig
  <2> DEFINE c == TabCall("saveConfig", formAt, config.of, 1)
  <2>1. TabsHold' /\ config'.saving
    BY <1>1, <1>9 DEF SaveConfig, TabsHold, ConfigForms
  <2>2. tabCalls' = tabCalls \cup {c} /\ TabIdle /\ ~config.saving
    BY <1>9 DEF SaveConfig
  <2>3. TabCallOK(c)
    BY <1>1 DEF TabCallOK, TabCall
  <2> HIDE DEF c
  <2>4. Few(tabCalls)'
    BY <1>1, <2>2, CallsCount DEF Few
  <2>5. SavesOne(tabCalls, config.saving)'
    BY <2>1, <2>2 DEF TabInv, SavesOne
  <2>6. (\A d \in tabCalls : TabCallOK(d))'
    BY <2>2, <2>3 DEF TabInv, TabCallOK
  <2> QED
    BY <2>1, <2>4, <2>5, <2>6 DEF TabInv
<1>10. CASE TypeHost
  <2>1. TabsHold'
    BY <1>1, <1>10 DEF TypeHost, TabsHold, RoutingForms, MaybeForm
  <2> QED
    BY <1>1, <1>10, <2>1, TabsKeep DEF TypeHost
<1>11. CASE SaveRouting
  <2>1. TabsHold'
    BY <1>1, <1>11 DEF SaveRouting, TabsHold, RoutingForms
  <2>2. Few(tabCalls')
    BY <1>1, <1>11, CallsCount DEF SaveRouting
  <2> QED
    BY <1>1, <1>11, <2>1, <2>2, TabsKeep, LoadsIs DEF SaveRouting
<1>12. CASE SelectMod
  <2>1. TabsHold'
    BY <1>1, <1>12 DEF SelectMod, TabsHold, ModsForms
  <2>2. Few(tabCalls')
    BY <1>1, <1>12, CallsCount DEF SelectMod
  <2> QED
    BY <1>1, <1>12, <2>1, <2>2, TabsKeep, LoadsIs DEF SelectMod
<1>13. CASE ChangeMod
  <2>1. TabsHold'
    BY <1>1, <1>13 DEF ChangeMod, TabsHold
  <2>2. Few(tabCalls')
    BY <1>1, <1>13, CallsCount DEF ChangeMod
  <2> QED
    BY <1>1, <1>13, <2>1, <2>2, TabsKeep, LoadsIs DEF ChangeMod
<1> QED
  BY <1>2, <1>3, <1>4, <1>5, <1>6, <1>7, <1>8, <1>9, <1>10, <1>11, <1>12, <1>13

LEMMA TabAnswerStep ==
  ASSUME TabInv, NEW c \in tabCalls, TabAnswer(c)
  PROVE  TabInv'
<1>1. TabsHold /\ Few(tabCalls) /\ formAt \in FormServers /\ TabCallOK(c)
      /\ SavesOne(tabCalls, config.saving)
  BY DEF TabInv, TabsHold
<1>2. Few(tabCalls \ {c}) /\ \A d : Few((tabCalls \ {c}) \cup {d})
  BY <1>1, CallsCount
<1>3. ASSUME TabEnds(c), TabsHold', config'.saving = config.saving PROVE TabInv'
  BY <1>2, <1>3, TabsKeep DEF TabEnds
<1>4. CASE SettingsSaved(c)
  <2>1. settings' \in SettingsForms /\ settings'.id = settings.id /\ settings'.of = settings.of
    BY <1>1, <1>4 DEF SettingsSaved, TabsHold, SettingsForms
  <2> QED
    BY <1>1, <1>3, <1>4, <2>1 DEF SettingsSaved, TabsHold
<1>5. CASE ConfigLoaded(c)
  <2>1. PICK f \in {config, ProcessConfig(c.at)} : config' = [f EXCEPT !.loading = FALSE]
    BY <1>5 DEF ConfigLoaded
  <2>2. f \in ConfigForms /\ (f.modified # {} => f.of # NoForm) /\ f.saving = config.saving
    BY <1>1, <2>1 DEF ProcessConfig, TabsHold, ConfigForms, TabCallOK, MaybeForm
  <2>3. TabsHold' /\ config'.saving = config.saving
    BY <1>1, <1>5, <2>1, <2>2 DEF ConfigLoaded, TabsHold, ConfigForms
  <2> QED
    BY <1>3, <1>5, <2>3 DEF ConfigLoaded
<1>6. CASE ConfigSaved(c)
  <2>1. PICK f \in {config, ProcessConfig(c.at)} : config' = [f EXCEPT !.saving = FALSE]
    BY <1>6 DEF ConfigSaved
  <2>2. f \in ConfigForms /\ (f.modified # {} => f.of # NoForm)
    BY <1>1, <2>1 DEF ProcessConfig, TabsHold, ConfigForms, TabCallOK, MaybeForm
  <2>3. TabsHold'
    BY <1>1, <1>6, <2>1, <2>2 DEF ConfigSaved, TabsHold, ConfigForms
  <2>4. \A d \in tabCalls' : d \in tabCalls /\ d.op # "saveConfig"
    BY <1>1, <1>6 DEF ConfigSaved, TabEnds, SavesOne
  <2>5. SavesOne(tabCalls, config.saving)'
    BY <2>4 DEF SavesOne
  <2>6. (\A d \in tabCalls : TabCallOK(d))'
    BY <2>4 DEF TabInv, TabCallOK
  <2>7. Few(tabCalls)'
    BY <1>2, <1>6 DEF ConfigSaved, TabEnds, Few
  <2> QED
    BY <2>3, <2>5, <2>6, <2>7 DEF TabInv
<1>7. CASE RoutingLoaded(c)
  <2> DEFINE after == IF c.nr = 3 THEN [routing EXCEPT !.loading = FALSE, !.saving = FALSE]
                      ELSE [routing EXCEPT !.loading = FALSE]
  <2>1. after \in RoutingForms /\ after.typed = routing.typed /\ after.of = routing.of
    BY <1>1 DEF TabsHold, RoutingForms
  <2>2. routing' \in {after, [after EXCEPT !.of = c.at, !.host = c.at, !.typed = FALSE]}
    BY <1>7 DEF RoutingLoaded
  <2> HIDE DEF after
  <2>3. routing' \in RoutingForms /\ (routing'.typed => routing'.of # NoForm)
    BY <1>1, <2>1, <2>2 DEF RoutingForms, TabCallOK, MaybeForm, TabsHold
  <2> QED
    BY <1>1, <1>3, <1>7, <2>3 DEF RoutingLoaded, TabsHold
<1>8. CASE RoutingSaved(c)
  <2>1. TabsHold' /\ UNCHANGED config
    BY <1>1, <1>8 DEF RoutingSaved, TabsHold, RoutingForms
  <2>2. CASE TabEnds(c)
    BY <1>3, <2>1, <2>2
  <2>3. CASE tabCalls' = (tabCalls \ {c}) \cup {TabCall("routing", formAt, formAt, 3)}
    BY <1>1, <1>2, <2>1, <2>3, LoadsIs, TabsKeep
  <2> QED
    BY <1>8, <2>2, <2>3 DEF RoutingSaved
<1>9. CASE ModsLoaded(c)
  <2> DEFINE after == [mods EXCEPT !.loading = FALSE, !.uploading = @ /\ c.nr # 2]
  <2>1. after \in ModsForms
    <3>1. (mods.uploading /\ c.nr # 2) \in BOOLEAN
      OBVIOUS
    <3> QED
      BY <1>1, <3>1 DEF TabsHold, ModsForms
  <2>2. mods' \in {after, [after EXCEPT !.of = c.at]}
    BY <1>9 DEF ModsLoaded
  <2> HIDE DEF after
  <2>3. mods' \in ModsForms
    BY <1>1, <2>1, <2>2 DEF ModsForms, TabCallOK, MaybeForm
  <2> QED
    BY <1>1, <1>3, <1>9, <2>3 DEF ModsLoaded, TabsHold
<1>10. CASE ModUploaded(c)
  <2>1. TabsHold' /\ UNCHANGED config
    BY <1>1, <1>10 DEF ModUploaded, TabsHold, ModsForms
  <2>2. CASE TabEnds(c)
    BY <1>3, <2>1, <2>2
  <2>3. CASE tabCalls' = (tabCalls \ {c}) \cup {TabCall("import", formAt, c.of, 1)}
    BY <1>1, <1>2, <2>1, <2>3, LoadsIs, TabsKeep
  <2> QED
    BY <1>10, <2>2, <2>3 DEF ModUploaded
<1>11. CASE ModImported(c)
  <2>1. TabsHold' /\ UNCHANGED config
    BY <1>1, <1>11 DEF ModImported, TabsHold, ModsForms
  <2>2. CASE TabEnds(c)
    BY <1>3, <2>1, <2>2
  <2>3. CASE tabCalls' = (tabCalls \ {c}) \cup {TabCall("mods", formAt, formAt, 2)}
    BY <1>1, <1>2, <2>1, <2>3, LoadsIs, TabsKeep
  <2> QED
    BY <1>11, <2>2, <2>3 DEF ModImported
<1>12. CASE ModChanged(c)
  <2>1. TabsHold' /\ UNCHANGED config
    BY <1>1, <1>12 DEF ModChanged, TabsHold, ModsForms
  <2>2. CASE TabEnds(c)
    BY <1>3, <2>1, <2>2
  <2>3. CASE tabCalls' = (tabCalls \ {c}) \cup {TabCall("mods", formAt, formAt, 1)}
    BY <1>1, <1>2, <2>1, <2>3, LoadsIs, TabsKeep
  <2> QED
    BY <1>12, <2>2, <2>3 DEF ModChanged, Loads
<1> QED
  BY <1>4, <1>5, <1>6, <1>7, <1>8, <1>9, <1>10, <1>11, <1>12 DEF TabAnswer

LEMMA TabStep == TabInv /\ [ServerFormsNext]_tabFormVars => TabInv'
<1> SUFFICES ASSUME TabInv, [ServerFormsNext]_tabFormVars PROVE TabInv'
  OBVIOUS
<1>1. CASE UNCHANGED tabFormVars
  BY <1>1 DEF tabFormVars, TabInv, TabsHold, Few, SavesOne, TabCallOK
<1>2. CASE ServerFormsNext
  BY <1>2, TabUserStep, TabAnswerStep DEF ServerFormsNext
<1> QED
  BY <1>1, <1>2

-----------------------------------------------------------------------------
(* The editor of a file.                                                    *)

EditorDialogs == [open : BOOLEAN, file : EditFiles \cup {NoText}, loadedPath : EditFiles \cup {NoText},
                  contentLoaded : BOOLEAN, loading : BOOLEAN, saving : BOOLEAN,
                  content : Texts \cup {Empty}, original : Texts \cup {Empty}, editor : Texts \cup {NoText}]

\* An open dialog is of a file, and there is an editor only on a text that came.
EditorOK(d) ==
    /\ d \in EditorDialogs
    /\ d.open => d.file \in EditFiles
    /\ d.contentLoaded => d.content \in Texts
    /\ d.editor # NoText => d.contentLoaded

EditorInv ==
    /\ EditorOK(dialog) /\ reads \subseteq EditFiles
    /\ writes \subseteq [file : EditFiles, text : Texts] /\ onDisk \in [EditFiles -> Texts]

LEMMA EditorTypesImply == EditorInv => FileEditorTypeOK
  BY DEF EditorInv, EditorOK, EditorDialogs, FileEditorTypeOK

LEMMA EditorInitInv == FileEditorInit => EditorInv
<1> SUFFICES ASSUME FileEditorInit PROVE EditorInv
  OBVIOUS
<1>1. EditorOK(dialog)
  BY DEF FileEditorInit, Closed, EditorOK, EditorDialogs, Empty
<1>2. \A f \in EditFiles : [of |-> f, edits |-> 0] \in Texts
  BY EditorAssumption DEF Texts
<1> QED
  BY <1>1, <1>2 DEF FileEditorInit, EditorInv

LEMMA EditorOKs ==
  ASSUME NEW d, EditorOK(d)
  PROVE  EditorOK(WithEditor(d)) /\ EditorOK(Reset(d))
<1>1. EditorOK([d EXCEPT !.editor = d.content]) \/ ~d.contentLoaded
  BY DEF EditorOK, EditorDialogs
<1>2. EditorOK(Reset(d))
  BY DEF EditorOK, EditorDialogs, Reset, Closed, Empty
<1> QED
  BY <1>1, <1>2 DEF WithEditor

LEMMA EditorStep == EditorInv /\ [FileEditorNext]_edVars => EditorInv'
<1> SUFFICES ASSUME EditorInv, [FileEditorNext]_edVars PROVE EditorInv'
  OBVIOUS
<1>1. EditorOK(dialog) /\ reads \subseteq EditFiles /\ onDisk \in [EditFiles -> Texts]
      /\ writes \subseteq [file : EditFiles, text : Texts]
  BY DEF EditorInv
<1>2. ASSUME NEW d, EditorOK(d), dialog' = d, reads' \subseteq EditFiles, UNCHANGED <<writes, onDisk>>
      PROVE  EditorInv'
  BY <1>1, <1>2 DEF EditorInv, EditorOK
<1>3. CASE UNCHANGED edVars
  BY <1>1, <1>2, <1>3 DEF edVars
<1>4. ASSUME NEW f \in EditFiles, EditorOpens(f) PROVE EditorInv'
  <2> DEFINE d == [dialog EXCEPT !.open = TRUE, !.file = f]
             e == [dialog EXCEPT !.open = TRUE, !.file = f, !.loadedPath = f, !.loading = TRUE]
  <2>1. EditorOK(d) /\ EditorOK(e)
    BY <1>1 DEF EditorOK, EditorDialogs
  <2>2. (dialog' = e /\ reads' = reads \cup {f}) \/ (dialog' = WithEditor(d) /\ reads' = reads)
    BY <1>4 DEF EditorOpens
  <2>3. UNCHANGED <<writes, onDisk>>
    BY <1>4 DEF EditorOpens
  <2> HIDE DEF d, e
  <2> QED
    BY <1>1, <1>2, <2>1, <2>2, <2>3, EditorOKs
<1>5. ASSUME NEW f \in EditFiles, LoadFileContent(f) PROVE EditorInv'
  <2> DEFINE d == [dialog EXCEPT !.content = onDisk[f], !.original = onDisk[f],
                                 !.contentLoaded = TRUE, !.loading = FALSE]
  <2>1. EditorOK(d)
    BY <1>1 DEF EditorOK, EditorDialogs
  <2>2. dialog' = WithEditor(d) /\ reads' = reads \ {f} /\ UNCHANGED <<writes, onDisk>>
    BY <1>5 DEF LoadFileContent
  <2> HIDE DEF d
  <2> QED
    BY <1>1, <1>2, <2>1, <2>2, EditorOKs
<1>6. ASSUME NEW f \in EditFiles, LoadFails(f) PROVE EditorInv'
  <2> DEFINE d == Reset(dialog)
  <2>1. EditorOK(d)
    BY <1>1, EditorOKs
  <2>2. dialog' = [d EXCEPT !.loading = FALSE] /\ reads' = reads \ {f} /\ UNCHANGED <<writes, onDisk>>
    BY <1>6 DEF LoadFails
  <2> HIDE DEF d
  <2>3. EditorOK([d EXCEPT !.loading = FALSE])
    BY <2>1 DEF EditorOK, EditorDialogs
  <2> QED
    BY <1>1, <1>2, <2>2, <2>3
<1>7. CASE EditText
  <2> DEFINE text == [dialog.editor EXCEPT !.edits = @ + 1]
             d == [dialog EXCEPT !.editor = text, !.content = text]
  <2>1. dialog.editor \in Texts /\ dialog.editor.edits < MaxEdits /\ dialog.contentLoaded
    BY <1>1, <1>7 DEF EditText, EditorOK, EditorDialogs
  <2>2. text \in Texts
    BY <2>1, EditorAssumption DEF Texts
  <2>3. dialog' = d /\ UNCHANGED <<reads, writes, onDisk>>
    BY <1>7 DEF EditText
  <2> HIDE DEF text
  <2>4. EditorOK(d)
    BY <1>1, <2>1, <2>2 DEF EditorOK, EditorDialogs
  <2> HIDE DEF d
  <2> QED
    BY <1>1, <1>2, <2>3, <2>4
<1>8. CASE HandleSave
  <2>1. dialog.file \in EditFiles /\ dialog.content \in Texts
    BY <1>1, <1>8 DEF HandleSave, EditorOK
  <2>2. EditorOK(dialog)'
    BY <1>1, <1>8 DEF HandleSave, EditorOK, EditorDialogs
  <2> QED
    BY <1>1, <1>8, <2>1, <2>2 DEF HandleSave, EditorInv
<1>9. ASSUME NEW w \in writes, SaveIsAnswered(w) PROVE EditorInv'
  <2>1. w.file \in EditFiles /\ w.text \in Texts
    BY <1>1
  <2>2. EditorOK(dialog)'
    BY <1>1, <1>9 DEF SaveIsAnswered, EditorOK, EditorDialogs
  <2>3. onDisk' \in [EditFiles -> Texts]
    BY <1>1, <1>9, <2>1 DEF SaveIsAnswered
  <2> QED
    BY <1>1, <1>9, <2>2, <2>3 DEF SaveIsAnswered, EditorInv
<1>10. CASE HandleClose
  BY <1>1, <1>2, <1>10, EditorOKs DEF HandleClose
<1> QED
  BY <1>3, <1>4, <1>5, <1>6, <1>7, <1>8, <1>9, <1>10 DEF FileEditorNext

-----------------------------------------------------------------------------
(* The file tab.                                                            *)

FileTabs == [server : FileServers, active : BOOLEAN, hasLoaded : BOOLEAN, owner : FileServers,
             files : Trees \cup {{}}, loading : BOOLEAN, expanded : SUBSET Directories,
             selected : SUBSET FilePaths, chosenOn : FileServers, menu : FilePaths \cup {NoFile},
             menuOpen : BOOLEAN, dialog : Dialogs, late : BOOLEAN]

\* What is selected was selected on the server that is shown; an open menu is on a row.
FileTabOK(t) ==
    /\ t \in FileTabs
    /\ t.selected # {} /\ ~t.late => t.chosenOn = t.server
    /\ t.menuOpen => t.menu \in FilePaths

\* No path of a drop has the directory under it that it goes into.
BatchOK == batch # NoFile /\ batch.by = "drop" => \A p \in batch.todo : ~Under(batch.into, p)

Extracts == [extracting : BOOLEAN, starting : 0 .. 2, polls : SUBSET Extractions,
             asked : [Extractions -> 0 .. MaxStatusCalls], running : SUBSET Extractions]

\* Each call that starts an extraction finds one to start; the flag is up only while something
\* will take it back.
ExtractOK ==
    /\ extract \in Extracts /\ extract.starting <= Cardinality(Idle)
    /\ extract.extracting => extract.starting > 0 \/ extract.polls # {}

FileInv == FileTabOK(tab) /\ lists \subseteq FileServers /\ BatchOK /\ ExtractOK

LEMMA Two == Extractions = {1, 2} /\ Cardinality(Extractions) = 2 /\ IsFiniteSet(Extractions)
<1>1. Extractions = {1, 2}
  BY DEF Extractions
<1>2. {1, 2} = {1} \cup {2} /\ 2 \notin {1}
  OBVIOUS
<1>3. IsFiniteSet({1}) /\ Cardinality({1}) = 1
  BY FS_Singleton
<1>4. IsFiniteSet({1} \cup {2}) /\ Cardinality({1} \cup {2}) = 1 + 1
  BY <1>2, <1>3, FS_AddElement
<1> QED
  BY <1>1, <1>2, <1>4

LEMMA IdleCounts == IsFiniteSet(Idle) /\ Cardinality(Idle) \in Nat /\ Cardinality(Idle) <= 2
<1>1. Idle \in SUBSET Extractions
  BY DEF Idle
<1>2. IsFiniteSet(Extractions) /\ Cardinality(Extractions) = 2
  BY Two
<1>3. IsFiniteSet(Idle) /\ Cardinality(Idle) <= Cardinality(Extractions)
  BY <1>1, <1>2, FS_Subset
<1>4. Cardinality(Idle) \in Nat
  BY <1>3, FS_CardinalityType
<1> QED
  BY <1>2, <1>3, <1>4

\* What is in order of the extractions, field by field.
LEMMA ExtractIs ==
  ASSUME extract \in Extracts
  PROVE  /\ extract.starting \in 0 .. 2 /\ extract.polls \subseteq Extractions
         /\ extract.running \subseteq Extractions /\ extract.asked \in [Extractions -> 0 .. MaxStatusCalls]
  BY DEF Extracts

LEMMA FileTypesImply ==
  FileInv => FileBrowserTypeOK /\ SelectionIsOwn /\ ExtractingIsFollowed /\ DropNeverIntoItself
<1> SUFFICES ASSUME FileInv
             PROVE FileBrowserTypeOK /\ SelectionIsOwn /\ ExtractingIsFollowed /\ DropNeverIntoItself
  OBVIOUS
<1>1. FileBrowserTypeOK
  BY Two DEF FileInv, FileTabOK, FileTabs, ExtractOK, Extracts, FileBrowserTypeOK
<1> QED
  BY <1>1 DEF FileInv, FileTabOK, BatchOK, ExtractOK, SelectionIsOwn, ExtractingIsFollowed,
     DropNeverIntoItself

LEMMA FileInitInv == FileBrowserInit => FileInv
<1> SUFFICES ASSUME FileBrowserInit PROVE FileInv
  OBVIOUS
<1>1. FileTabOK(tab)
  BY TreesAssumption DEF FileBrowserInit, FileTabOK, FileTabs, Dialogs
<1>2. extract \in Extracts /\ ~extract.extracting /\ extract.starting = 0
  BY DEF FileBrowserInit, Extracts, MaxStatusCalls
<1>4. Cardinality(Idle) \in Nat
  BY IdleCounts
<1> QED
  BY <1>1, <1>2, <1>4 DEF FileBrowserInit, FileInv, BatchOK, ExtractOK

\* A step that leaves extractions and batches alone.
LEMMA FileTabKeeps ==
  ASSUME FileInv, FileTabOK(tab'), lists' \subseteq FileServers, UNCHANGED <<batch, extract>>
  PROVE  FileInv'
<1>1. FileTabOK(tab)'
  BY DEF FileTabOK
<1> QED
  BY <1>1 DEF FileInv, BatchOK, ExtractOK, Idle

LEMMA LoadKeeps ==
  ASSUME FileInv, NEW t, FileTabOK(t), LoadWith(t)
  PROVE  FileTabOK(tab') /\ lists' \subseteq FileServers
  BY DEF FileInv, LoadWith, FileTabOK, FileTabs

LEMMA RowsArePaths ==
  ASSUME FileInv
  PROVE  FlatFiles \subseteq FilePaths /\ tab.files \subseteq FilePaths
  BY TreesAssumption DEF FileInv, FileTabOK, FileTabs, FlatFiles

LEMMA SelectingIs ==
  ASSUME FileInv, NEW paths \in SUBSET FilePaths
  PROVE  FileTabOK(Selecting(paths))
<1>1. tab \in FileTabs /\ (tab.menuOpen => tab.menu \in FilePaths) /\ FirstServer \in FileServers
  BY TreesAssumption DEF FileInv, FileTabOK
<1> DEFINE on == IF paths = {} THEN FirstServer ELSE tab.server
<1>2. on \in FileServers /\ (paths # {} => on = tab.server)
  BY <1>1 DEF FileTabs
<1>3. Selecting(paths) = [tab EXCEPT !.selected = paths, !.chosenOn = on]
  BY DEF Selecting
<1> HIDE DEF on
<1> DEFINE t == [tab EXCEPT !.selected = paths, !.chosenOn = on]
<1>4. t \in FileTabs
  BY <1>1, <1>2 DEF FileTabs
<1>5. t.selected = paths /\ t.chosenOn = on /\ t.server = tab.server /\ t.menuOpen = tab.menuOpen
      /\ t.menu = tab.menu
  BY <1>1 DEF FileTabs
<1> QED
  BY <1>1, <1>2, <1>3, <1>4, <1>5 DEF FileTabOK

\* An entry of the menu closes it; a dialog, a menu or a directory is opened.
LEMMA TabChanges ==
  ASSUME NEW t, FileTabOK(t)
  PROVE  /\ FileTabOK(HandleAction(t))
         /\ \A d \in Dialogs : FileTabOK([t EXCEPT !.dialog = d])
         /\ \A dirs \in SUBSET Directories : FileTabOK([t EXCEPT !.expanded = dirs])
         /\ \A p \in FilePaths : FileTabOK([t EXCEPT !.menu = p, !.menuOpen = TRUE])
         /\ FileTabOK([t EXCEPT !.selected = {}])
<1>1. FileTabOK(HandleAction(t))
  BY DEF FileTabOK, FileTabs, HandleAction
<1>2. ASSUME NEW d \in Dialogs PROVE FileTabOK([t EXCEPT !.dialog = d])
  BY DEF FileTabOK, FileTabs
<1>3. ASSUME NEW dirs \in SUBSET Directories PROVE FileTabOK([t EXCEPT !.expanded = dirs])
  BY DEF FileTabOK, FileTabs
<1>4. ASSUME NEW p \in FilePaths PROVE FileTabOK([t EXCEPT !.menu = p, !.menuOpen = TRUE])
  BY DEF FileTabOK, FileTabs
<1>5. FileTabOK([t EXCEPT !.selected = {}])
  BY DEF FileTabOK, FileTabs
<1> QED
  BY <1>1, <1>2, <1>3, <1>4, <1>5
\* What the user does with the tree, the menus and the dialogs.
LEMMA FileUserStep ==
  ASSUME FileInv, FileBrowserUser
  PROVE  FileInv'
<1>1. FileTabOK(tab) /\ tab \in FileTabs /\ lists \subseteq FileServers /\ BatchOK /\ ExtractOK
      /\ FirstServer \in FileServers
  BY TreesAssumption DEF FileInv, FileTabOK
<1>2. ASSUME NEW t, FileTabOK(t), SetTab(t) PROVE FileInv'
  BY <1>1, <1>2, FileTabKeeps DEF SetTab
<1>3. ASSUME NEW t, FileTabOK(t), LoadWith(t), UNCHANGED <<batch, extract>> PROVE FileInv'
  BY <1>3, FileTabKeeps, LoadKeeps
<1>4. ASSUME NEW paths \in SUBSET FilePaths, SetTab(Selecting(paths)) PROVE FileInv'
  BY <1>2, <1>4, SelectingIs
<1>5. tab.selected \in SUBSET FilePaths /\ tab.expanded \in SUBSET Directories
      /\ FlatFiles \subseteq FilePaths /\ {} \in SUBSET FilePaths
  BY <1>1, RowsArePaths DEF FileTabs
<1>6. ASSUME NEW b \in BOOLEAN, SetActive(b) PROVE FileInv'
  <2>1. FileTabOK([tab EXCEPT !.active = TRUE, !.hasLoaded = TRUE])
        /\ FileTabOK([tab EXCEPT !.active = b])
    BY <1>1 DEF FileTabOK, FileTabs
  <2>2. UNCHANGED <<batch, extract>>
    BY <1>6 DEF SetActive
  <2>3. CASE b /\ ~tab.hasLoaded
    <3>1. LoadWith([tab EXCEPT !.active = TRUE, !.hasLoaded = TRUE])
      BY <1>6, <2>3 DEF SetActive
    <3> QED
      BY <1>3, <2>1, <2>2, <3>1
  <2>4. CASE ~(b /\ ~tab.hasLoaded)
    <3>1. tab' = [tab EXCEPT !.active = b] /\ UNCHANGED lists
      BY <1>6, <2>4 DEF SetActive
    <3> QED
      BY <1>1, <2>1, <2>2, <3>1, FileTabKeeps
  <2> QED
    BY <2>3, <2>4
<1>7. ASSUME NEW s \in FileServers, ServerChanges(s) PROVE FileInv'
  <2> DEFINE empty == [tab EXCEPT !.server = s, !.files = {}, !.owner = FirstServer,
                                  !.loading = TRUE, !.expanded = {}, !.selected = {},
                                  !.chosenOn = FirstServer, !.hasLoaded = tab.active,
                                  !.late = tab.menuOpen]
  <2>1. FileTabOK(empty)
    BY <1>1 DEF FileTabOK, FileTabs
  <2>2. UNCHANGED <<batch, extract>> /\ (LoadWith(empty) \/ (tab' = empty /\ UNCHANGED lists))
    BY <1>7 DEF ServerChanges
  <2> HIDE DEF empty
  <2> QED
    BY <1>1, <1>3, <2>1, <2>2, FileTabKeeps
<1>8. CASE ExtractArchive
  <2>1. tab' = HandleAction(tab) /\ UNCHANGED <<lists, batch>>
    BY <1>8 DEF ExtractArchive
  <2>2. FileTabOK(HandleAction(tab))
    BY <1>1, TabChanges
  <2>3. extract' = [extract EXCEPT !.extracting = TRUE, !.starting = @ + 1]
        /\ extract.starting < Cardinality(Idle)
    BY <1>8 DEF ExtractArchive
  <2>4. Cardinality(Idle) <= 2 /\ Cardinality(Idle) \in Nat
    BY IdleCounts
  <2>5. extract' \in Extracts /\ extract'.starting > 0 /\ extract'.starting <= Cardinality(Idle)
        /\ extract'.polls = extract.polls /\ extract'.running = extract.running /\ extract'.asked = extract.asked
    <3>1. extract.starting + 1 \in 0 .. 2 /\ extract.starting + 1 > 0
          /\ extract.starting + 1 <= Cardinality(Idle) /\ extract \in Extracts
      <4>1. extract.starting \in 0 .. 2 /\ extract \in Extracts
        BY <1>1, ExtractIs DEF ExtractOK
      <4> QED
        BY <2>3, <2>4, <4>1
    <3> QED
      BY <2>3, <3>1 DEF Extracts
  <2>6. Idle' = Idle
    BY <2>5 DEF Idle
  <2>7. ExtractOK'
    BY <2>5, <2>6 DEF ExtractOK
  <2>8. FileTabOK(tab)'
    BY <2>1, <2>2 DEF FileTabOK
  <2> QED
    BY <1>1, <2>1, <2>7, <2>8 DEF FileInv, BatchOK
<1>9. ASSUME NEW p \in FilePaths, HandleContextMenu(p) PROVE FileInv'
  BY <1>1, <1>2, <1>9, TabChanges DEF HandleContextMenu
<1>10. CASE CloseMenu
  BY <1>1, <1>2, <1>10, TabChanges DEF CloseMenu, HandleAction
<1>11. CASE RefreshFiles
  BY <1>1, <1>3, <1>11 DEF RefreshFiles
<1>12. CASE HandleSelectAll
  BY <1>4, <1>5, <1>12 DEF HandleSelectAll
<1>13. CASE ClearSelection
  BY <1>4, <1>5, <1>13 DEF ClearSelection
<1>14. CASE HandleBreadcrumbNavigate
  <2>1. PICK to \in Directories \cup {<<>>} :
          SetTab([tab EXCEPT !.expanded = {d \in Directories : Under(to, d)}])
    BY <1>14 DEF HandleBreadcrumbNavigate
  <2>2. {d \in Directories : Under(to, d)} \in SUBSET Directories
    OBVIOUS
  <2>3. FileTabOK([tab EXCEPT !.expanded = {d \in Directories : Under(to, d)}])
    BY <1>1, <2>2, TabChanges
  <2> QED
    BY <1>2, <2>1, <2>3
<1>15. ASSUME NEW d \in Directories, ToggleExpand(d) PROVE FileInv'
  <2>1. Toggle(tab.expanded, d) \in SUBSET Directories
    BY <1>5 DEF Toggle
  <2>2. FileTabOK([tab EXCEPT !.expanded = Toggle(tab.expanded, d)])
    BY <1>1, <2>1, TabChanges
  <2> QED
    BY <1>2, <1>15, <2>2 DEF ToggleExpand
<1>16. ASSUME NEW p \in FilePaths, HandleSelect(p) \/ HandleCheckboxToggle(p) PROVE FileInv'
  <2>1. Toggle(tab.selected, p) \in SUBSET FilePaths
    BY <1>5 DEF Toggle
  <2>2. CASE SetTab(Selecting(Toggle(tab.selected, p)))
    BY <1>4, <2>1, <2>2
  <2>3. ASSUME NEW from \in FlatFiles, SetTab(Selecting(tab.selected \cup {from, p})) PROVE FileInv'
    <3>1. tab.selected \cup {from, p} \in SUBSET FilePaths
      BY <1>5
    <3> QED
      BY <1>4, <2>3, <3>1
  <2>4. CASE p \in Directories /\ SetTab([Selecting({}) EXCEPT !.expanded = Toggle(@, p)])
    <3>1. Selecting({}).expanded = tab.expanded
      BY <1>1 DEF Selecting, FileTabs
    <3>2. Toggle(tab.expanded, p) \in SUBSET Directories
      BY <1>5, <2>4 DEF Toggle
    <3>3. FileTabOK(Selecting({}))
      BY <1>5, SelectingIs
    <3>4. FileTabOK([Selecting({}) EXCEPT !.expanded = Toggle(tab.expanded, p)])
      BY <3>2, <3>3, TabChanges
    <3> QED
      BY <1>2, <2>4, <3>1, <3>4
  <2>5. CASE SetTab(Selecting({}))
    BY <1>4, <1>5, <2>5
  <2> QED
    BY <1>16, <2>2, <2>3, <2>4, <2>5 DEF HandleSelect, HandleCheckboxToggle
<1>17. CASE BulkMove
  BY <1>1, <1>2, <1>17, TabChanges DEF BulkMove, Dialogs
<1>18. ASSUME MenuOffers("compress") \/ MenuOffers("copy") \/ MenuOffers("move")
       PROVE  FileTabOK(CtxSelecting)
  <2>1. CtxPaths \in SUBSET FilePaths
    BY <1>1, <1>5, <1>18 DEF CtxPaths, MenuOffers, FileTabOK
  <2> DEFINE s == Selecting(CtxPaths)
             on == IF tab.late THEN FirstServer ELSE s.chosenOn
  <2>2. FileTabOK(s) /\ s.late = tab.late
    BY <1>1, <2>1, SelectingIs DEF Selecting, FileTabs
  <2>3. CtxSelecting = [s EXCEPT !.chosenOn = on]
    BY DEF CtxSelecting
  <2>4. on \in FileServers /\ (~s.late => on = s.chosenOn)
    BY <1>1, <2>2 DEF FileTabOK, FileTabs
  <2> HIDE DEF s, on
  <2>5. FileTabOK([s EXCEPT !.chosenOn = on])
    BY <2>2, <2>4 DEF FileTabOK, FileTabs
  <2> QED
    BY <2>3, <2>5
<1>19. ASSUME NEW k \in {"move", "copy"}, CtxCopyOrMove(k) PROVE FileInv'
  <2>1. FileTabOK(CtxSelecting) /\ k \in Dialogs
    BY <1>18, <1>19 DEF CtxCopyOrMove, Dialogs
  <2> DEFINE t == CtxSelecting
  <2>2. FileTabOK(t) /\ SetTab(HandleAction([t EXCEPT !.dialog = k]))
    BY <1>19, <2>1 DEF CtxCopyOrMove
  <2> HIDE DEF t
  <2>3. FileTabOK(HandleAction([t EXCEPT !.dialog = k]))
    <3>1. FileTabOK([t EXCEPT !.dialog = k])
      BY <2>1, <2>2, TabChanges
    <3> QED
      BY <3>1, TabChanges
  <2> QED
    BY <1>2, <2>2, <2>3
<1>20. CASE OpenNameDialog
  <2>1. FileTabOK([tab EXCEPT !.dialog = "name"])
    BY <1>1, TabChanges DEF Dialogs
  <2>2. FileTabOK(HandleAction([tab EXCEPT !.dialog = "name"]))
    BY <2>1, TabChanges
  <2> QED
    BY <1>2, <1>20, <2>2 DEF OpenNameDialog
<1>21. FileTabOK([tab EXCEPT !.dialog = "none"])
  BY <1>1, TabChanges DEF Dialogs
<1>22. CASE CloseDialog
  BY <1>2, <1>21, <1>22 DEF CloseDialog
<1>23. CASE NameDialogAnswered
  BY <1>3, <1>21, <1>23 DEF NameDialogAnswered
<1>24. FileTabOK(HandleAction(tab)) /\ FileTabOK(HandleAction([tab EXCEPT !.selected = {}]))
  <2>1. FileTabOK([tab EXCEPT !.selected = {}])
    BY <1>1, TabChanges
  <2> QED
    BY <1>1, <2>1, TabChanges
<1>25. CASE DeleteFile
  BY <1>3, <1>24, <1>25 DEF DeleteFile
<1>26. CASE BulkDelete
  BY <1>3, <1>24, <1>26 DEF BulkDelete
<1>27. CASE BulkCompress
  <2>1. UNCHANGED <<batch, extract>>
    BY <1>27 DEF BulkCompress
  <2>2. CASE LoadWith(tab)
    BY <1>1, <1>3, <2>1, <2>2
  <2>3. CASE MenuOffers("compress") /\ LoadWith(HandleAction(CtxSelecting))
    <3>1. FileTabOK(HandleAction(CtxSelecting))
      BY <1>18, <2>3, TabChanges
    <3> QED
      BY <1>3, <2>1, <2>3, <3>1
  <2> QED
    BY <1>27, <2>2, <2>3 DEF BulkCompress
<1>28. ASSUME NEW p \in FilePaths, NEW d \in Directories, HandleDrop(p, d) PROVE FileInv'
  <2> DEFINE paths == IF p \in tab.selected THEN tab.selected ELSE {p}
  <2>1. batch' = [by |-> "drop", todo |-> paths, into |-> d] /\ (\A x \in paths : ~Under(d, x))
        /\ UNCHANGED <<tab, lists, extract>>
    BY <1>28 DEF HandleDrop, BeginBatch
  <2> HIDE DEF paths
  <2>2. BatchOK'
    BY <2>1 DEF BatchOK, Under
  <2> QED
    BY <1>1, <2>1, <2>2 DEF FileInv, FileTabOK, ExtractOK, Idle
<1>29. ASSUME NEW d \in Directories \cup {<<>>}, ConfirmMoveOrCopy(d) PROVE FileInv'
  <2>1. batch'.by = tab.dialog /\ tab.dialog \in {"move", "copy"}
        /\ tab' = [tab EXCEPT !.dialog = "none"] /\ UNCHANGED <<lists, extract>>
    BY <1>29 DEF ConfirmMoveOrCopy, BeginBatch
  <2>2. BatchOK'
    BY <2>1 DEF BatchOK
  <2>3. FileTabOK(tab)'
    BY <1>21, <2>1 DEF FileTabOK
  <2> QED
    BY <1>1, <2>1, <2>2, <2>3 DEF FileInv, ExtractOK, Idle
<1> QED
  BY <1>6, <1>7, <1>8, <1>9, <1>10, <1>11, <1>12, <1>13, <1>14, <1>15, <1>16, <1>17, <1>19, <1>20,
     <1>22, <1>23, <1>25, <1>26, <1>27, <1>28, <1>29 DEF FileBrowserUser

\* Extractions that end leave no fewer idle, and the flag down.
LEMMA ExtractionEnds ==
  ASSUME ExtractOK, extract' \in Extracts, Idle \subseteq Idle', extract'.starting = extract.starting,
         extract'.extracting => extract.extracting /\ extract.polls \subseteq extract'.polls
  PROVE  ExtractOK'
<1>1. Idle' \subseteq Extractions
  BY DEF Idle
<1>2. IsFiniteSet(Idle') /\ Cardinality(Idle') \in Nat
  BY <1>1, Two, FS_Subset, FS_CardinalityType
<1>3. IsFiniteSet(Idle) /\ Cardinality(Idle) \in Nat /\ Cardinality(Idle) <= Cardinality(Idle')
  BY <1>2, FS_Subset, FS_CardinalityType
<1>4. extract'.starting <= Cardinality(Idle')
  BY <1>2, <1>3 DEF ExtractOK, Extracts
<1>5. (extract.starting <= Cardinality(Idle))'
  BY <1>4 DEF Idle
<1>6. (extract.extracting => extract.starting > 0 \/ extract.polls # {})'
  BY DEF ExtractOK
<1> QED
  BY <1>5, <1>6 DEF ExtractOK

\* What is answered, and the timers.
LEMMA FileAnswerStep ==
  ASSUME FileInv,
         \/ \E s \in FileServers : FilesArrive(s)
         \/ BatchAnswered \/ ExtractStarted \/ ExtractRefused
         \/ \E x \in Extractions : PollTick(x) \/ PollAnswered(x) \/ ExtractionFinishes(x)
  PROVE  FileInv'
<1>1. FileTabOK(tab) /\ tab \in FileTabs /\ lists \subseteq FileServers /\ BatchOK /\ ExtractOK
      /\ extract \in Extracts /\ FirstServer \in FileServers
  BY TreesAssumption DEF FileInv, FileTabOK, ExtractOK
<1>2. ASSUME NEW s \in FileServers, FilesArrive(s) PROVE FileInv'
  <2>1. FileTabOK(tab')
    <3>1. CASE tab' = [tab EXCEPT !.loading = FALSE]
      BY <1>1, <3>1 DEF FileTabOK, FileTabs
    <3>2. ASSUME NEW tree \in Trees,
                 tab' = [tab EXCEPT !.files = tree, !.loading = FALSE,
                                    !.owner = IF tree = {} THEN FirstServer ELSE s]
          PROVE  FileTabOK(tab')
      BY <1>1, <3>2 DEF FileTabOK, FileTabs
    <3> QED
      BY <1>2, <3>1, <3>2 DEF FilesArrive
  <2> QED
    BY <1>1, <1>2, <2>1, FileTabKeeps DEF FilesArrive
<1>3. CASE BatchAnswered
  <2>1. BatchOK'
    <3>1. CASE batch' = NoFile
      BY <3>1 DEF BatchOK
    <3>2. ASSUME NEW p \in batch.todo, batch' = [batch EXCEPT !.todo = @ \ {p}] PROVE BatchOK'
      <4>1. batch'.by = batch.by /\ batch'.into = batch.into /\ batch'.todo \subseteq batch.todo
        BY <1>1, <1>3, <3>2 DEF BatchAnswered, BatchOK
      <4> QED
        BY <1>1, <1>3, <4>1 DEF BatchAnswered, BatchOK
    <3> QED
      BY <1>3, <3>1, <3>2 DEF BatchAnswered
  <2>2. FileTabOK(tab') /\ lists' \subseteq FileServers
    <3>1. FileTabOK([tab EXCEPT !.selected = {}])
      BY <1>1, TabChanges
    <3> QED
      BY <1>1, <1>3, <3>1, LoadKeeps DEF BatchAnswered
  <2>3. FileTabOK(tab)'
    BY <2>2 DEF FileTabOK
  <2> QED
    BY <1>1, <1>3, <2>1, <2>2, <2>3 DEF BatchAnswered, FileInv, ExtractOK, Idle
<1>4. ASSUME ExtractOK', FileTabOK(tab'), lists' \subseteq FileServers, UNCHANGED batch PROVE FileInv'
  <2>1. FileTabOK(tab)'
    BY <1>4 DEF FileTabOK
  <2> QED
    BY <1>1, <1>4, <2>1 DEF FileInv, BatchOK
<1>5. CASE ExtractStarted
  <2> DEFINE x == CHOOSE x \in Idle : \A y \in Idle : x <= y
  <2>1. Idle \subseteq Extractions /\ IsFiniteSet(Idle)
    BY Two, FS_Subset DEF Idle
  <2>2. Cardinality(Idle) \in Nat /\ Idle # {}
    BY <1>1, <1>5, <2>1, FS_CardinalityType, FS_EmptySet DEF ExtractStarted, ExtractOK, Extracts
  <2>3. \E y \in Idle : \A z \in Idle : y <= z
    <3>1. CASE 1 \in Idle
      BY <2>1, <3>1, Two
    <3>2. CASE 1 \notin Idle
      <4>1. Idle = {2}
        BY <2>1, <2>2, <3>2, Two
      <4> QED
        BY <4>1
    <3> QED
      BY <3>1, <3>2
  <2>4. x \in Idle
    BY <2>3
  <2>5. extract' = [extract EXCEPT !.starting = @ - 1, !.polls = @ \cup {x}, !.running = @ \cup {x}]
        /\ extract.starting > 0 /\ UNCHANGED <<tab, lists, batch>>
    BY <1>5 DEF ExtractStarted
  <2> HIDE DEF x
  <2>6. extract' \in Extracts /\ extract'.starting = extract.starting - 1
        /\ extract'.polls = extract.polls \cup {x} /\ extract'.running = extract.running \cup {x}
        /\ extract'.asked = extract.asked
    <3>1. extract.starting - 1 \in 0 .. 2 /\ extract.polls \cup {x} \in SUBSET Extractions
          /\ extract.running \cup {x} \in SUBSET Extractions
      <4>1. extract.starting \in 0 .. 2 /\ extract.polls \subseteq Extractions
            /\ extract.running \subseteq Extractions
        BY <1>1, ExtractIs
      <4> QED
        BY <2>1, <2>4, <2>5, <4>1
    <3> QED
      BY <1>1, <2>5, <3>1 DEF Extracts
  <2>7. Idle' = Idle \ {x}
    BY <2>6 DEF Idle
  <2>8. Cardinality(Idle') = Cardinality(Idle) - 1
    BY <2>1, <2>4, <2>7, FS_RemoveElement
  <2>9. extract'.starting <= Cardinality(Idle')
    BY <1>1, <2>2, <2>6, <2>8 DEF ExtractOK, Extracts
  <2>10. (extract.starting <= Cardinality(Idle))'
    BY <2>9 DEF Idle
  <2>11. ExtractOK'
    BY <2>6, <2>10 DEF ExtractOK
  <2> QED
    BY <1>1, <1>4, <2>5, <2>11
<1>6. CASE ExtractRefused
  <2>1. extract' = [extract EXCEPT !.starting = @ - 1, !.extracting = FALSE]
        /\ extract.starting > 0 /\ UNCHANGED <<tab, lists, batch>>
    BY <1>6 DEF ExtractRefused
  <2>2. extract' \in Extracts /\ extract'.starting = extract.starting - 1 /\ ~extract'.extracting
        /\ extract'.polls = extract.polls /\ extract'.running = extract.running
        /\ extract'.asked = extract.asked
    <3>1. extract.starting - 1 \in 0 .. 2
      <4>1. extract.starting \in 0 .. 2
        BY <1>1, ExtractIs
      <4> QED
        BY <2>1, <4>1
    <3> QED
      BY <1>1, <2>1, <3>1 DEF Extracts
  <2>3. Idle' = Idle
    BY <2>2 DEF Idle
  <2>4. Idle \subseteq Extractions
    BY DEF Idle
  <2>5. Cardinality(Idle) \in Nat
    BY <2>4, Two, FS_Subset, FS_CardinalityType
  <2>6. extract'.starting <= Cardinality(Idle)
    BY <1>1, <2>2, <2>5 DEF ExtractOK, Extracts
  <2>7. ExtractOK'
    BY <2>2, <2>3, <2>6 DEF ExtractOK
  <2> QED
    BY <1>1, <1>4, <2>1, <2>7
<1>7. ASSUME NEW x \in Extractions, PollTick(x) PROVE FileInv'
  <2>1. extract' = [extract EXCEPT !.asked[x] = @ + 1] /\ x \in extract.polls
        /\ extract.asked[x] < MaxStatusCalls /\ UNCHANGED <<tab, lists, batch>>
    BY <1>7 DEF PollTick
  <2>2. extract' \in Extracts /\ extract'.starting = extract.starting /\ extract'.extracting = extract.extracting
        /\ extract'.polls = extract.polls /\ extract'.running = extract.running
        /\ \A y \in Extractions : y # x => extract'.asked[y] = extract.asked[y]
    BY <1>1, <2>1 DEF Extracts, MaxStatusCalls
  <2>3. Idle \subseteq Idle'
    BY <2>1, <2>2 DEF Idle
  <2>4. ExtractOK'
    BY <1>1, <2>2, <2>3, ExtractionEnds
  <2> QED
    BY <1>1, <1>4, <2>1, <2>4
<1>8. ASSUME NEW x \in Extractions, PollAnswered(x) PROVE FileInv'
  <2>1. extract.asked[x] > 0 /\ UNCHANGED batch
        /\ (extract' = [extract EXCEPT !.asked[x] = @ - 1] \/ extract' = PollEnds(x))
        /\ (LoadWith(tab) \/ UNCHANGED <<tab, lists>>)
    BY <1>8 DEF PollAnswered
  <2>2. FileTabOK(tab') /\ lists' \subseteq FileServers
    BY <1>1, <2>1, LoadKeeps
  <2>3. CASE extract' = [extract EXCEPT !.asked[x] = @ - 1]
    <3>1. extract' \in Extracts /\ extract'.starting = extract.starting
          /\ extract'.extracting = extract.extracting
          /\ extract'.polls = extract.polls /\ extract'.running = extract.running
          /\ \A y \in Extractions : y # x => extract'.asked[y] = extract.asked[y]
      BY <1>1, <2>1, <2>3 DEF Extracts, MaxStatusCalls
    <3>2. Idle \subseteq Idle'
      BY <2>1, <3>1 DEF Idle
    <3>3. ExtractOK'
      BY <1>1, <3>1, <3>2, ExtractionEnds
    <3> QED
      BY <1>4, <2>1, <2>2, <3>3
  <2>4. CASE extract' = PollEnds(x)
    <3>1. extract' \in Extracts /\ extract'.starting = extract.starting /\ ~extract'.extracting
          /\ extract'.polls = extract.polls \ {x} /\ extract'.running = extract.running \ {x}
          /\ \A y \in Extractions : y # x => extract'.asked[y] = extract.asked[y]
      <4>1. extract.asked[x] - 1 \in 0 .. MaxStatusCalls
        <5>1. extract.asked[x] \in 0 .. 2
          BY <1>1, ExtractIs DEF MaxStatusCalls
        <5> QED
          BY <2>1, <5>1 DEF MaxStatusCalls
      <4>2. [extract.asked EXCEPT ![x] = extract.asked[x] - 1] \in [Extractions -> 0 .. MaxStatusCalls]
        BY <1>1, <4>1, ExtractIs
      <4>3. extract' = [extract EXCEPT !.asked = [extract.asked EXCEPT ![x] = extract.asked[x] - 1],
                                       !.polls = extract.polls \ {x}, !.running = extract.running \ {x},
                                       !.extracting = FALSE]
        BY <1>1, <2>4 DEF PollEnds, Extracts
      <4> DEFINE left == [extract.asked EXCEPT ![x] = extract.asked[x] - 1]
      <4>4. \A y \in Extractions : y # x => left[y] = extract.asked[y]
        BY <1>1, ExtractIs
      <4> HIDE DEF left
      <4> QED
        BY <1>1, <4>2, <4>3, <4>4 DEF Extracts, left
    <3>2. Idle \subseteq Idle'
      BY <2>1, <3>1 DEF Idle
    <3>3. ExtractOK'
      BY <1>1, <3>1, <3>2, ExtractionEnds
    <3> QED
      BY <1>4, <2>1, <2>2, <3>3
  <2> QED
    BY <2>1, <2>3, <2>4
<1>9. ASSUME NEW x \in Extractions, ExtractionFinishes(x) PROVE FileInv'
  <2>1. extract' = [extract EXCEPT !.running = @ \ {x}] /\ UNCHANGED <<tab, lists, batch>>
    BY <1>9 DEF ExtractionFinishes
  <2>2. extract' \in Extracts /\ extract'.starting = extract.starting /\ extract'.extracting = extract.extracting
        /\ extract'.polls = extract.polls /\ extract'.running = extract.running \ {x}
        /\ extract'.asked = extract.asked
    BY <1>1, <2>1 DEF Extracts
  <2>3. Idle \subseteq Idle'
    BY <2>2 DEF Idle
  <2>4. ExtractOK'
    BY <1>1, <2>2, <2>3, ExtractionEnds
  <2> QED
    BY <1>1, <1>4, <2>1, <2>4
<1> QED
  BY <1>2, <1>3, <1>5, <1>6, <1>7, <1>8, <1>9

LEMMA FileStep == FileInv /\ [FileBrowserNext]_fbVars => FileInv'
<1> SUFFICES ASSUME FileInv, [FileBrowserNext]_fbVars PROVE FileInv'
  OBVIOUS
<1>1. CASE UNCHANGED fbVars
  BY <1>1 DEF fbVars, FileInv, FileTabOK, BatchOK, ExtractOK, Idle
<1>2. CASE FileBrowserNext
  BY <1>2, FileUserStep, FileAnswerStep DEF FileBrowserNext
<1> QED
  BY <1>1, <1>2

-----------------------------------------------------------------------------
(* The dashboard, the list and the page of a server.                        *)

Views == [at : Pages, id : PageServers, shown : PageServers \cup {NoServer}, status : Statuses \cup {Gone},
          loading : BOOLEAN, acting : BOOLEAN, dash : SUBSET Statuses]

PageWaits == {"sidebar", "home", "poll", "action", "page", "list", "left"}

PageCalls == [op : {"get", "list", "act", "delete"}, id : PageServers, for : PageWaits, seen : Racks,
              served : BOOLEAN]

\* A page that has loaded shows the server of its address, or none.
ViewOK(v) == v \in Views /\ (v.at = "server" /\ ~v.loading => v.shown \in {v.id, NoServer})

PageInv == rack \in Racks /\ park \in Racks /\ ViewOK(view) /\ asked \subseteq PageCalls

\* Those of three conditions that hold, by their place.
LEMMA ThreeGroups ==
  ASSUME NEW f, NEW h \in BOOLEAN, NEW w \in BOOLEAN, NEW c \in BOOLEAN, f[1] = h, f[2] = w, f[3] = c
  PROVE  {g \in 1 .. 3 : f[g]} = {g \in {1, 2, 3} : (g = 1 /\ h) \/ (g = 2 /\ w) \/ (g = 3 /\ c)}
<1>1. 1 .. 3 = {1, 2, 3}
  OBVIOUS
<1> QED
  BY <1>1

\* Each status is in as many groups as it should be, whatever the ticks.
LEMMA OneGroup ==
  ASSUME NEW st \in Statuses, NEW tps \in Nat
  PROVE  LET d == [status |-> st, tps |-> tps]
             groups == {g \in 1 .. 3 : <<Healthy(d), Warning(d), Critical(d)>>[g]}
         IN  Cardinality(groups) = IF st = "stopped" THEN 0 ELSE 1
<1> DEFINE d == [status |-> st, tps |-> tps]
           f == <<Healthy(d), Warning(d), Critical(d)>>
           groups == {g \in 1 .. 3 : f[g]}
<1>1. /\ d.status = st /\ d.tps = tps
  OBVIOUS
<1>2. /\ f[1] = Healthy(d) /\ f[2] = Warning(d) /\ f[3] = Critical(d)
  OBVIOUS
<1> HIDE DEF d, f
<1>3. Healthy(d) \in BOOLEAN /\ Warning(d) \in BOOLEAN /\ Critical(d) \in BOOLEAN
  BY DEF Healthy, Warning, Critical
<1>4. groups = {g \in {1, 2, 3} : (g = 1 /\ Healthy(d)) \/ (g = 2 /\ Warning(d)) \/ (g = 3 /\ Critical(d))}
  BY <1>2, <1>3, ThreeGroups
<1> HIDE DEF groups
<1>5. CASE st = "stopped"
  <2>1. ~Healthy(d) /\ ~Warning(d) /\ ~Critical(d)
    BY <1>1, <1>5 DEF Healthy, Warning, Critical
  <2>2. groups = {}
    BY <1>4, <2>1
  <2> QED
    BY <1>5, <2>2, FS_EmptySet DEF groups, f, d
<1>6. CASE st # "stopped"
  <2>1. st = "running" \/ st = "error"
    BY <1>6 DEF Statuses
  <2>2. \/ Healthy(d) /\ ~Warning(d) /\ ~Critical(d)
        \/ ~Healthy(d) /\ Warning(d) /\ ~Critical(d)
        \/ ~Healthy(d) /\ ~Warning(d) /\ Critical(d)
    BY <1>1, <2>1 DEF Healthy, Warning, Critical
  <2>3. groups = {1} \/ groups = {2} \/ groups = {3}
    BY <1>4, <2>2
  <2>4. Cardinality(groups) = 1
    BY <2>3, FS_Singleton
  <2> QED
    BY <1>6, <2>4 DEF groups, f, d
<1> QED
  BY <1>5, <1>6

LEMMA PageTypesImply == PageInv => ServerPageTypeOK /\ ShownIsRequested /\ GroupsPartition
<1> SUFFICES ASSUME PageInv PROVE ServerPageTypeOK /\ ShownIsRequested /\ GroupsPartition
  OBVIOUS
<1>1. ServerPageTypeOK /\ ShownIsRequested
  BY DEF PageInv, ViewOK, Views, ServerPageTypeOK, ShownIsRequested
<1>2. view.dash \subseteq Statuses /\ TpsSamples \subseteq Nat
  BY PageAssumption DEF PageInv, ViewOK, Views
<1>3. GroupsPartition
  BY <1>2, OneGroup DEF GroupsPartition
<1> QED
  BY <1>1, <1>3

LEMMA NoneIs == None \in Racks
  BY DEF None, Racks

LEMMA AskIs ==
  ASSUME NEW op \in {"get", "list", "act", "delete"}, NEW id \in PageServers, NEW for \in PageWaits
  PROVE  Ask(op, id, for) \in PageCalls
  BY NoneIs DEF Ask, PageCalls

LEMMA ReadsAre ==
  ASSUME NEW for \in PageWaits
  PROVE  ListServers(for) \in PageCalls /\ \A id \in PageServers : GetServer(id, for) \in PageCalls
<1>1. (CHOOSE s \in PageServers : TRUE) \in PageServers
  BY PageAssumption
<1> QED
  BY <1>1, AskIs DEF ListServers, GetServer

LEMMA PageOfIs ==
  ASSUME NEW at \in Pages, NEW id \in PageServers
  PROVE  ViewOK(PageOf(at, id)) /\ Asked(at, id) \subseteq PageCalls
<1>1. ViewOK(PageOf(at, id))
  BY DEF PageOf, ViewOK, Views
<1>2. Asked(at, id) \subseteq PageCalls
  BY ReadsAre DEF Asked, PageWaits, Pages
<1> QED
  BY <1>1, <1>2

LEMMA PageInitInv == ServerPageInit => PageInv
<1> SUFFICES ASSUME ServerPageInit PROVE PageInv
  OBVIOUS
<1>1. PICK at \in Pages : view = PageOf(at, FirstOfPage)
                          /\ asked = Asked(at, FirstOfPage) \cup {ListServers("sidebar")}
  BY DEF ServerPageInit
<1>2. ListServers("sidebar") \in PageCalls
  BY ReadsAre DEF PageWaits
<1>3. ViewOK(view) /\ asked \subseteq PageCalls
  BY <1>1, <1>2, PageOfIs, PageAssumption
<1>4. rack \in Racks /\ park \in Racks
  BY NoneIs DEF ServerPageInit, Racks, Statuses
<1> QED
  BY <1>3, <1>4 DEF PageInv

LEMMA PageKeeps ==
  ASSUME PageInv, rack' \in Racks, park' \in Racks, ViewOK(view'), \A c \in asked' : c \in asked \/ c \in PageCalls
  PROVE  PageInv'
<1>1. asked' \subseteq PageCalls
  BY DEF PageInv
<1>2. ViewOK(view)'
  BY DEF ViewOK
<1> QED
  BY <1>1, <1>2 DEF PageInv

\* Flags of the view that do not claim more than before.
LEMMA ViewFlags ==
  ASSUME PageInv
  PROVE  /\ \A b \in BOOLEAN : ViewOK([view EXCEPT !.acting = b])
         /\ \A id \in PageServers : ViewOK([view EXCEPT !.id = id, !.loading = TRUE])
         /\ view.at # "server" \/ view.shown = NoServer => ViewOK([view EXCEPT !.loading = FALSE])
         /\ \A st \in Statuses \cup {Gone}, b \in BOOLEAN :
              ViewOK([view EXCEPT !.acting = b, !.shown = view.id, !.status = st, !.loading = FALSE])
  BY DEF PageInv, ViewOK, Views

LEMMA PageAnswerStep ==
  ASSUME PageInv, NEW c \in asked,
         \/ ServesRead(c) \/ GetArrives(c) \/ ListArrives(c) \/ ReadFails(c)
         \/ ActArrives(c) \/ DeleteArrives(c)
  PROVE  PageInv'
<1>1. rack \in Racks /\ park \in Racks /\ ViewOK(view) /\ view \in Views /\ c \in PageCalls
  BY DEF PageInv, ViewOK
<1>2. view.acting \in BOOLEAN /\ view.loading \in BOOLEAN /\ view.id \in PageServers
      /\ c.seen \in Racks /\ c.id \in PageServers /\ c.for \in PageWaits
      /\ \A s \in PageServers : c.seen[s] \in Statuses \cup {Gone}
  BY <1>1 DEF Views, PageCalls, Racks
<1>3. CASE ServesRead(c)
  <2> DEFINE seen == IF c.op = "get" THEN [None EXCEPT ![c.id] = rack[c.id]] ELSE rack
  <2>1. seen \in Racks
    BY <1>1, NoneIs DEF Racks, PageCalls
  <2>2. asked' = (asked \ {c}) \cup {[c EXCEPT !.seen = seen, !.served = TRUE]}
        /\ UNCHANGED <<rack, park, view>>
    BY <1>3 DEF ServesRead
  <2> HIDE DEF seen
  <2>3. [c EXCEPT !.seen = seen, !.served = TRUE] \in PageCalls
    BY <1>1, <2>1 DEF PageCalls
  <2> QED
    BY <1>1, <2>2, <2>3, PageKeeps
<1>4. CASE GetArrives(c)
  <2> DEFINE here == view.at = "server" /\ view.id = c.id
             own == c.for # "left"
             v == IF c.for = "action" THEN [view EXCEPT !.acting = FALSE] ELSE view
  <2>1. asked' = asked \ {c} /\ UNCHANGED rack
    BY <1>4 DEF GetArrives, Answered
  <2>2. v = [view EXCEPT !.acting = (view.acting /\ c.for # "action")]
    BY <1>1, <1>2 DEF Views
  <2>3. ViewOK(v) /\ (view.acting /\ c.for # "action") \in BOOLEAN
    BY <2>2, ViewFlags
  <2>4. CASE here /\ c.seen[c.id] # Gone
    <3>1. view' = (IF own THEN [v EXCEPT !.shown = c.id, !.status = c.seen[c.id], !.loading = FALSE] ELSE view)
          /\ park' = [park EXCEPT ![c.id] = c.seen[c.id]]
      BY <1>4, <2>4 DEF GetArrives, UpdateServer
    <3>2. park' \in Racks
      BY <1>1, <1>2, <3>1 DEF Racks
    <3>3. [v EXCEPT !.shown = c.id, !.status = c.seen[c.id], !.loading = FALSE]
            = [view EXCEPT !.acting = (view.acting /\ c.for # "action"), !.shown = view.id,
                           !.status = c.seen[c.id], !.loading = FALSE]
      BY <1>1, <2>2, <2>4 DEF Views
    <3>4. ViewOK([v EXCEPT !.shown = c.id, !.status = c.seen[c.id], !.loading = FALSE])
      BY <1>2, <2>3, <3>3, ViewFlags
    <3> HIDE DEF v
    <3>5. ViewOK(view')
      BY <1>1, <3>1, <3>4
    <3> QED
      BY <1>1, <2>1, <3>2, <3>5, PageKeeps
  <2>5. CASE ~(here /\ c.seen[c.id] # Gone)
    <3>1. view' = (IF own /\ here /\ view.shown = NoServer THEN [v EXCEPT !.loading = FALSE] ELSE v)
          /\ park' = park
      BY <1>4, <2>5 DEF GetArrives
    <3>2. view.shown = NoServer => ViewOK([v EXCEPT !.loading = FALSE])
      BY <1>1, <2>2, <2>3 DEF ViewOK, Views
    <3> HIDE DEF v
    <3>3. ViewOK(view')
      BY <2>3, <3>1, <3>2
    <3> QED
      BY <1>1, <2>1, <3>1, <3>3, PageKeeps
  <2> QED
    BY <2>4, <2>5
<1>5. CASE ListArrives(c)
  <2> DEFINE dash == {c.seen[s] : s \in PageServers} \ {Gone}
  <2>1. park' = c.seen /\ asked' = asked \ {c} /\ UNCHANGED rack
    BY <1>5 DEF ListArrives, ListSet, Answered
  <2>2. dash \in SUBSET Statuses
    BY <1>2
  <2>3. (view' = [view EXCEPT !.loading = FALSE, !.dash = dash] /\ view.at = "home") \/ view' = view
    BY <1>5 DEF ListArrives
  <2> HIDE DEF dash
  <2>4. ViewOK(view')
    BY <1>1, <2>2, <2>3 DEF ViewOK, Views
  <2> QED
    BY <1>1, <1>2, <2>1, <2>4, PageKeeps
<1>6. CASE ReadFails(c)
  <2>1. asked' = asked \ {c} /\ UNCHANGED <<rack, park>>
    BY <1>6 DEF ReadFails, Answered
  <2>2. CASE c.op = "list"
    <3>1. (view' = [view EXCEPT !.loading = FALSE] /\ view.at = "home") \/ view' = view
      BY <1>6, <2>2 DEF ReadFails
    <3> QED
      BY <1>1, <2>1, <3>1, ViewFlags, PageKeeps
  <2>3. CASE c.op # "list"
    <3> DEFINE a == view.acting /\ c.for # "action"
               l == view.loading /\ ~(c.for # "left" /\ view.id = c.id /\ view.shown = NoServer)
    <3>1. view' = [view EXCEPT !.acting = a, !.loading = l]
      BY <1>6, <2>3 DEF ReadFails
    <3>2. a \in BOOLEAN /\ l \in BOOLEAN /\ (~l => ~view.loading \/ view.shown = NoServer)
      OBVIOUS
    <3> HIDE DEF a, l
    <3>3. ViewOK(view')
      BY <1>1, <3>1, <3>2 DEF ViewOK, Views
    <3> QED
      BY <1>1, <2>1, <3>3, PageKeeps
  <2> QED
    BY <2>2, <2>3
<1>7. CASE ActArrives(c)
  <2>1. GetServer(view.id, "action") \in PageCalls
    BY <1>2, ReadsAre DEF PageWaits
  <2>2. ViewOK(view')
    BY <1>1, <1>7, ViewFlags DEF ActArrives
  <2> QED
    BY <1>1, <1>7, <2>1, <2>2, PageKeeps DEF ActArrives
<1>8. CASE DeleteArrives(c)
  <2>1. ViewOK(PageOf("list", FirstOfPage)) /\ ViewOK([view EXCEPT !.acting = FALSE])
    BY PageOfIs, PageAssumption, ViewFlags DEF Pages
  <2>2. ViewOK(view')
    BY <1>8, <2>1 DEF DeleteArrives
  <2>3. rack' \in Racks /\ park' \in Racks
    BY <1>1, <1>2, <1>8 DEF DeleteArrives, RemoveServer, Racks
  <2> QED
    BY <1>8, <2>2, <2>3, PageKeeps DEF DeleteArrives, Answered
<1> QED
  BY <1>3, <1>4, <1>5, <1>6, <1>7, <1>8

\* The user, the timers, and what else happens to the servers.
LEMMA PageUserStep ==
  ASSUME PageInv,
         \/ \E s \in PageServers : RackChanges(s) \/ HandleListAction(s)
         \/ \E at \in Pages, id \in PageServers : Navigate(at, id)
         \/ PollPage \/ PollSidebar \/ RefreshDashboard \/ HandleServerAction
  PROVE  PageInv'
<1>1. rack \in Racks /\ park \in Racks /\ ViewOK(view) /\ view \in Views /\ asked \subseteq PageCalls
      /\ view.id \in PageServers
  BY DEF PageInv, ViewOK, Views
<1>2. ASSUME NEW s \in PageServers, RackChanges(s) PROVE PageInv'
  <2>1. rack' \in Racks
    BY <1>1, <1>2 DEF RackChanges, Racks, Statuses
  <2> QED
    BY <1>1, <1>2, <2>1, PageKeeps DEF RackChanges
<1>3. ViewOK([view EXCEPT !.acting = TRUE])
  BY ViewFlags
<1>4. ASSUME NEW s \in PageServers, HandleListAction(s) PROVE PageInv'
  <2>1. PICK a : asked' = asked \cup {Ask(OpOf(a), s, "list")}
    BY <1>4 DEF HandleListAction
  <2>2. Ask(OpOf(a), s, "list") \in PageCalls
    BY AskIs DEF OpOf, PageWaits
  <2> QED
    BY <1>1, <1>3, <1>4, <2>1, <2>2, PageKeeps DEF HandleListAction
<1>5. ASSUME NEW at \in Pages, NEW id \in PageServers, Navigate(at, id) PROVE PageInv'
  <2>1. Left(asked) \subseteq PageCalls
    BY <1>1 DEF Left, PageCalls, PageWaits
  <2>2. ViewOK(PageOf(at, id)) /\ Asked(at, id) \subseteq PageCalls
    BY PageOfIs
  <2>3. ViewOK([view EXCEPT !.id = id, !.loading = TRUE])
    BY ViewFlags
  <2>4. /\ view' = [view EXCEPT !.id = id, !.loading = TRUE] \/ view' = PageOf(at, id)
        /\ asked' = asked \cup Asked(at, id) \/ asked' = Left(asked) \cup Asked(at, id)
        /\ UNCHANGED <<rack, park>>
    BY <1>5 DEF Navigate
  <2> QED
    BY <1>1, <2>1, <2>2, <2>3, <2>4, PageKeeps
<1>6. GetServer(view.id, "poll") \in PageCalls /\ ListServers("sidebar") \in PageCalls
      /\ ListServers("home") \in PageCalls
  BY <1>1, ReadsAre DEF PageWaits
<1>7. CASE PollPage \/ PollSidebar \/ RefreshDashboard
  BY <1>1, <1>6, <1>7, PageKeeps DEF PollPage, PollSidebar, RefreshDashboard
<1>8. CASE HandleServerAction
  <2>1. PICK a : asked' = asked \cup {Ask(OpOf(a), view.shown, "page")}
    BY <1>8 DEF HandleServerAction
  <2>2. view.shown \in PageServers
    BY <1>1, <1>8 DEF HandleServerAction, Views
  <2>3. Ask(OpOf(a), view.shown, "page") \in PageCalls
    BY <2>2, AskIs DEF OpOf, PageWaits
  <2> QED
    BY <1>1, <1>3, <1>8, <2>1, <2>3, PageKeeps DEF HandleServerAction
<1> QED
  BY <1>2, <1>4, <1>5, <1>7, <1>8

LEMMA PageStep == PageInv /\ [ServerPageNext]_serverPageVars => PageInv'
<1> SUFFICES ASSUME PageInv, [ServerPageNext]_serverPageVars PROVE PageInv'
  OBVIOUS
<1>1. CASE UNCHANGED serverPageVars
  BY <1>1 DEF serverPageVars, PageInv, ViewOK
<1>2. CASE ServerPageNext
  BY <1>2, PageAnswerStep, PageUserStep DEF ServerPageNext
<1> QED
  BY <1>1, <1>2

-----------------------------------------------------------------------------
(* The dialogs of the modules and of their templates.                       *)

FormKeys == {"", "K", "L"}
FormLinks == {"", "M"}

FormDatas == [name : BOOLEAN, image : BOOLEAN, ports : Ports, keys : SUBSET FormKeys, links : SUBSET FormLinks,
              volumes : {"none", "whole", "foreign"}, of : Templates \cup {NoTemplate}]

DialogStates == [kind : FormDialogs \cup {"closed"}, step : {"select", "configure"},
                 picked : Templates \cup {NoTemplate}, data : FormDatas, warned : BOOLEAN,
                 submitting : SUBSET FormDialogs, edits : 0 .. MaxFormEdits, failedAlone : BOOLEAN,
                 left : Templates \cup {NoTemplate}]

FormCallsOK(calls) ==
    \A c \in calls : /\ c.op \in FormDialogs \cup {"ports", "delete"}
                     /\ c.op = "ports" => c.of \in Templates

\* The warning is only there over a dialog that makes or changes a module.
DialogOK(f) == f \in DialogStates /\ (f.warned => f.kind \in {"create", "edit"})

FormInv ==
    /\ DialogOK(form) /\ FormCallsOK(formCalls)
    /\ made.asked \in BOOLEAN /\ (made.portless => made.asked)

LEMMA FormTypesImply == FormInv => ModuleFormsTypeOK /\ NoSilentPort
<1> SUFFICES ASSUME FormInv PROVE ModuleFormsTypeOK /\ NoSilentPort
  OBVIOUS
<1>1. form \in DialogStates /\ form.data \in FormDatas
  BY DEF FormInv, DialogOK, DialogStates
<1> QED
  BY <1>1 DEF FormInv, FormCallsOK, DialogStates, FormDatas, ModuleFormsTypeOK, NoSilentPort

\* Assigning ports leaves ports.
LEMMA AssignedArePorts ==
  ASSUME NEW ports \in Ports, NEW next \in Nat
  PROVE  AssignPorts(ports, next) \in Ports
<1> DEFINE Before(i) == {j \in 1 .. i - 1 : ports[j] = 0}
<1>1. \A i \in DOMAIN ports : Cardinality(Before(i)) \in Nat
  <2> SUFFICES ASSUME NEW i \in DOMAIN ports PROVE Cardinality(Before(i)) \in Nat
    OBVIOUS
  <2>1. i \in Int
    BY DEF Ports
  <2>2. IsFiniteSet(1 .. i - 1)
    BY <2>1, FS_Interval
  <2>3. Before(i) \subseteq 1 .. i - 1
    OBVIOUS
  <2>4. IsFiniteSet(Before(i))
    BY <2>2, <2>3, FS_Subset
  <2> QED
    BY <2>4, FS_CardinalityType
<1>2. AssignPorts(ports, next) = [i \in DOMAIN ports |-> IF ports[i] = 0 THEN next + Cardinality(Before(i)) ELSE ports[i]]
  BY DEF AssignPorts
<1> HIDE DEF Before
<1>3. DOMAIN ports = 1 .. Len(ports) /\ Len(ports) \in Nat /\ \A i \in DOMAIN ports : ports[i] \in Nat
  BY DEF Ports
<1>4. \A i \in 1 .. Len(ports) : (IF ports[i] = 0 THEN next + Cardinality(Before(i)) ELSE ports[i]) \in Nat
  BY <1>1, <1>3
<1>5. AssignPorts(ports, next) \in [1 .. Len(ports) -> Nat]
  BY <1>2, <1>3, <1>4
<1> QED
  BY <1>3, <1>5 DEF Ports

\* So do taking one out, putting one in, and leaving one empty.
LEMMA EditedArePorts ==
  ASSUME NEW ports \in Ports
  PROVE  /\ Append(ports, 0) \in Ports
         /\ \A i \in DOMAIN ports : RemoveAt(ports, i) \in Ports /\ [ports EXCEPT ![i] = 0] \in Ports
<1>1. Append(ports, 0) \in Ports
  BY DEF Ports
<1>2. ASSUME NEW i \in DOMAIN ports PROVE RemoveAt(ports, i) \in Ports
  <2>1. i \in 1 .. Len(ports) /\ Len(ports) \in Nat
    BY DEF Ports
  <2>2. SubSeq(ports, 1, i - 1) \in Seq(Nat) /\ SubSeq(ports, i + 1, Len(ports)) \in Seq(Nat)
    BY <2>1 DEF Ports
  <2> QED
    BY <2>2 DEF RemoveAt, Ports
<1>3. ASSUME NEW i \in DOMAIN ports PROVE [ports EXCEPT ![i] = 0] \in Ports
  BY DEF Ports
<1> QED
  BY <1>1, <1>2, <1>3

LEMMA BlankFormIs == BlankForm \in FormDatas /\ DialogOK(ClosedDialog)
<1>1. BlankForm \in FormDatas
  BY DEF BlankForm, FormDatas, Ports
<1> QED
  BY <1>1, FormAssumption DEF ClosedDialog, DialogOK, DialogStates, FormDialogs

LEMMA FilledFormIs ==
  ASSUME NEW t \in Templates
  PROVE  /\ FormOfTemplate(t, ParseVolumes) \in FormDatas /\ FormOfTemplate(t, LoadVolumes) \in FormDatas
         /\ Filled(t) \in FormDatas
<1>1. PortsOf[t] \in Ports
  BY FormAssumption DEF Ports
<1> DEFINE Read(v) == [name |-> TRUE, image |-> TRUE, ports |-> PortsOf[t], keys |-> {"K"}, links |-> {},
                       volumes |-> v, of |-> t]
<1>2. "K" \in FormKeys
  BY DEF FormKeys
<1>3. \A v \in {"none", "whole", "foreign"} : Read(v) \in FormDatas
  BY <1>1, <1>2 DEF FormDatas
<1>4. FormOfTemplate(t, ParseVolumes) \in FormDatas
  <2>1. FormOfTemplate(t, ParseVolumes) = Read(IF t \in HasVolumes THEN "whole" ELSE "none")
    BY DEF FormOfTemplate, ParseVolumes
  <2> QED
    BY <1>3, <2>1
<1>5. FormOfTemplate(t, LoadVolumes) \in FormDatas
  <2>1. FormOfTemplate(t, LoadVolumes) = Read(IF t \in HasVolumes THEN "foreign" ELSE "none")
    BY DEF FormOfTemplate, LoadVolumes
  <2> QED
    BY <1>3, <2>1
<1>6. Filled(t) \in FormDatas
  <2> DEFINE data == FormOfTemplate(t, ParseVolumes)
             ports == AssignPorts(data.ports, FirstFreePort)
  <2>1. data \in FormDatas /\ data.ports \in Ports
    BY <1>4 DEF FormDatas
  <2>2. Filled(t) = [data EXCEPT !.ports = ports]
    BY DEF Filled
  <2> HIDE DEF data
  <2>3. ports \in Ports
    BY <2>1, AssignedArePorts, FormAssumption
  <2> HIDE DEF ports
  <2> QED
    BY <2>1, <2>2, <2>3 DEF FormDatas
<1> QED
  BY <1>4, <1>5, <1>6

LEMMA FormInitInv == ModuleFormsInit => FormInv
  BY BlankFormIs DEF ModuleFormsInit, FormInv, FormCallsOK

LEMMA ResetIs == FormInv => DialogOK(FormReset)
<1> SUFFICES ASSUME FormInv PROVE DialogOK(FormReset)
  OBVIOUS
<1>1. form.submitting \in SUBSET FormDialogs /\ form.left \in Templates \cup {NoTemplate} /\ form.edits \in 0 .. MaxFormEdits
  BY DEF FormInv, DialogOK, DialogStates
<1>2. ClosedDialog \in DialogStates /\ ~ClosedDialog.warned
  BY BlankFormIs DEF DialogOK, ClosedDialog
<1> HIDE DEF ClosedDialog
<1> QED
  BY <1>1, <1>2 DEF FormReset, DialogOK, DialogStates

LEMMA FormKeeps ==
  ASSUME FormInv, DialogOK(form'), \A c \in formCalls' : c \in formCalls \/ FormCallsOK({c}), UNCHANGED made
  PROVE  FormInv'
<1>1. FormCallsOK(formCalls')
  BY DEF FormInv, FormCallsOK
<1> QED
  BY <1>1 DEF FormInv, FormCallsOK, DialogOK

LEMMA EditFormStep ==
  ASSUME FormInv, NEW kinds, NEW changed \in FormDatas, EditForm(kinds, changed)
  PROVE  FormInv'
<1>1. form \in DialogStates /\ (form.warned => form.kind \in {"create", "edit"}) /\ form.edits \in 0 .. MaxFormEdits
  BY DEF FormInv, DialogOK, DialogStates
<1>2. form.edits + 1 \in 0 .. MaxFormEdits
  BY <1>1, FormAssumption DEF EditForm
<1>3. form' = [form EXCEPT !.data = changed, !.edits = form.edits + 1] /\ UNCHANGED <<formCalls, made>>
  BY DEF EditForm
<1>4. DialogOK(form')
  BY <1>1, <1>2, <1>3 DEF DialogOK, DialogStates
<1> QED
  BY <1>3, <1>4, FormKeeps

LEMMA SectionEditsStep ==
  ASSUME FormInv, NEW kinds,
         \/ GeneralEdits(kinds) \/ PortEdits(kinds) \/ KeyEdits(kinds) \/ VolumeEdits(kinds) \/ LinkEdits(kinds)
         \/ EditForm(kinds, [form.data EXCEPT !.image = ~@])
  PROVE  FormInv'
<1>1. form.data \in FormDatas
  BY DEF FormInv, DialogOK, DialogStates
<1>2. form.data.ports \in Ports /\ form.data.name \in BOOLEAN /\ form.data.image \in BOOLEAN
      /\ form.data.keys \in SUBSET FormKeys /\ form.data.links \in SUBSET FormLinks
  BY <1>1 DEF FormDatas
<1>3. CASE GeneralEdits(kinds)
  <2>1. [form.data EXCEPT !.name = ~@] \in FormDatas
    BY <1>1, <1>2 DEF FormDatas
  <2> QED
    BY <1>3, <2>1, EditFormStep DEF GeneralEdits
<1>4. CASE EditForm(kinds, [form.data EXCEPT !.image = ~@])
  <2>1. [form.data EXCEPT !.image = ~@] \in FormDatas
    BY <1>1, <1>2 DEF FormDatas
  <2> QED
    BY <1>4, <2>1, EditFormStep
<1>5. CASE PortEdits(kinds)
  <2>1. ASSUME NEW ps \in Ports PROVE [form.data EXCEPT !.ports = ps] \in FormDatas
    BY <1>1 DEF FormDatas
  <2>2. CASE EditForm(kinds, [form.data EXCEPT !.ports = Append(@, 0)])
    <3>1. [form.data EXCEPT !.ports = Append(@, 0)] \in FormDatas
      BY <1>2, <2>1, EditedArePorts
    <3> QED
      BY <2>2, <3>1, EditFormStep
  <2>3. ASSUME NEW i \in DOMAIN form.data.ports, EditForm(kinds, [form.data EXCEPT !.ports = RemoveAt(@, i)])
        PROVE  FormInv'
    <3>1. [form.data EXCEPT !.ports = RemoveAt(@, i)] \in FormDatas
      BY <1>2, <2>1, EditedArePorts
    <3> QED
      BY <2>3, <3>1, EditFormStep
  <2>4. ASSUME NEW i \in DOMAIN form.data.ports, EditForm(kinds, [form.data EXCEPT !.ports[i] = 0])
        PROVE  FormInv'
    <3>1. [form.data EXCEPT !.ports[i] = 0] \in FormDatas
      BY <1>2, <2>1, EditedArePorts
    <3> QED
      BY <2>4, <3>1, EditFormStep
  <2> QED
    BY <1>5, <2>2, <2>3, <2>4 DEF PortEdits
<1>6. CASE KeyEdits(kinds)
  <2> DEFINE Given(k) == EditForm(kinds, [form.data EXCEPT !.keys = @ \cup {k}])
  <2>1. ASSUME NEW k \in FormKeys, Given(k) PROVE FormInv'
    <3>1. [form.data EXCEPT !.keys = @ \cup {k}] \in FormDatas
      BY <1>1, <1>2 DEF FormDatas
    <3> QED
      BY <2>1, <3>1, EditFormStep
  <2>2. \E k \in FormKeys : Given(k)
    BY <1>6, Zenon DEF KeyEdits, FormKeys
  <2> HIDE DEF Given
  <2> QED
    BY <2>1, <2>2
<1>7. CASE VolumeEdits(kinds)
  <2>1. PICK v \in {"none", "whole"} : EditForm(kinds, [form.data EXCEPT !.volumes = v])
    BY <1>7 DEF VolumeEdits
  <2>2. [form.data EXCEPT !.volumes = v] \in FormDatas
    BY <1>1 DEF FormDatas
  <2> QED
    BY <2>1, <2>2, EditFormStep
<1>8. CASE LinkEdits(kinds)
  <2> DEFINE Linked(d) == \/ EditForm(kinds, [form.data EXCEPT !.links = @ \cup {d}])
                          \/ EditForm(kinds, [form.data EXCEPT !.links = @ \ {d}])
  <2>1. ASSUME NEW d \in FormLinks, Linked(d) PROVE FormInv'
    <3>1. [form.data EXCEPT !.links = @ \cup {d}] \in FormDatas /\ [form.data EXCEPT !.links = @ \ {d}] \in FormDatas
      BY <1>1, <1>2 DEF FormDatas
    <3> QED
      BY <2>1, <3>1, EditFormStep
  <2>2. \E d \in FormLinks : Linked(d)
    BY <1>8, Zenon DEF LinkEdits, FormLinks
  <2> HIDE DEF Linked
  <2> QED
    BY <2>1, <2>2
<1> QED
  BY <1>3, <1>4, <1>5, <1>6, <1>7, <1>8

LEMMA SendFormStep ==
  ASSUME FormInv, NEW sure \in BOOLEAN, SendForm(sure), form.kind \in {"create", "edit"},
         sure \/ ~Warns(form.data)
  PROVE  FormInv'
<1>1. form \in DialogStates /\ form.kind \in FormDialogs /\ form.submitting \in SUBSET FormDialogs
  BY DEF FormInv, DialogOK, DialogStates, FormDialogs
<1>2. CASE form.kind = "create" /\ form.picked = NoTemplate
  <2>1. form' = [FormReset EXCEPT !.failedAlone = FALSE] /\ UNCHANGED <<formCalls, made>>
    BY <1>2 DEF SendForm
  <2>2. DialogOK(form')
    BY <2>1, ResetIs DEF DialogOK, DialogStates
  <2> QED
    BY <2>1, <2>2, FormKeeps
<1>3. CASE ~(form.kind = "create" /\ form.picked = NoTemplate)
  <2>1. /\ form' = [form EXCEPT !.submitting = @ \cup {form.kind}, !.warned = FALSE]
        /\ formCalls' = formCalls \cup {[op |-> form.kind, of |-> form.data.of]}
        /\ made'.portless = (0 \in ToSet(form.data.ports)) /\ made'.asked = sure
    BY <1>3 DEF SendForm
  <2>2. form.submitting \cup {form.kind} \in SUBSET FormDialogs
    BY <1>1
  <2>3. DialogOK(form)'
    BY <1>1, <2>1, <2>2 DEF DialogOK, DialogStates
  <2>4. FormCallsOK(formCalls)'
    BY <1>1, <2>1 DEF FormInv, FormCallsOK, FormDialogs
  <2>5. ~Warns(form.data) => 0 \notin ToSet(form.data.ports)
    BY DEF Warns, ToSet
  <2>6. made'.asked \in BOOLEAN /\ (made'.portless => made'.asked)
    BY <2>1, <2>5
  <2> QED
    BY <2>3, <2>4, <2>6 DEF FormInv
<1> QED
  BY <1>2, <1>3

LEMMA FormOpenStep ==
  ASSUME FormInv, OpenCreate \/ OpenTemplate \/ CloseForm \/ BackToTemplates \/ \E t \in Templates : OpenEdit(t)
  PROVE  FormInv'
<1>1. form \in DialogStates /\ form.data \in FormDatas /\ form.left \in Templates \cup {NoTemplate}
      /\ (form.warned => form.kind \in {"create", "edit"})
  BY DEF FormInv, DialogOK, DialogStates
<1>2. CASE OpenCreate
  <2>1. CASE form.left = NoTemplate
    <3>1. form' = [form EXCEPT !.kind = "create"] /\ UNCHANGED <<formCalls, made>>
      BY <1>2, <2>1 DEF OpenCreate
    <3>2. DialogOK(form')
      BY <1>1, <3>1 DEF DialogOK, DialogStates, FormDialogs
    <3> QED
      BY <3>1, <3>2, FormKeeps
  <2>2. CASE form.left # NoTemplate
    <3> DEFINE data == [Filled(form.left) EXCEPT !.name = FALSE]
    <3>1. Filled(form.left) \in FormDatas
      BY <1>1, <2>2, FilledFormIs
    <3>2. data \in FormDatas
      BY <3>1 DEF FormDatas
    <3>3. form' = [form EXCEPT !.kind = "create", !.step = "configure", !.left = NoTemplate, !.data = data]
          /\ UNCHANGED <<formCalls, made>>
      BY <1>2, <2>2 DEF OpenCreate
    <3> HIDE DEF data
    <3>4. DialogOK(form')
      BY <1>1, <3>2, <3>3 DEF DialogOK, DialogStates, FormDialogs
    <3> QED
      BY <3>3, <3>4, FormKeeps
  <2> QED
    BY <2>1, <2>2
<1>3. ASSUME NEW t \in Templates, OpenEdit(t) PROVE FormInv'
  <2> DEFINE data == FormOfTemplate(t, ParseVolumes)
  <2>1. data \in FormDatas
    BY FilledFormIs
  <2>2. form' = [form EXCEPT !.kind = "edit", !.data = data] /\ UNCHANGED <<formCalls, made>>
    BY <1>3, Zenon DEF OpenEdit
  <2> HIDE DEF data
  <2>3. DialogOK(form')
    BY <1>1, <2>1, <2>2 DEF DialogOK, DialogStates, FormDialogs
  <2> QED
    BY <2>2, <2>3, FormKeeps
<1>4. CASE OpenTemplate
  <2>1. PICK data \in {BlankForm} \cup {FormOfTemplate(t, LoadVolumes) : t \in Templates} :
          form' = [form EXCEPT !.kind = "template", !.data = data]
    BY <1>4, Zenon DEF OpenTemplate
  <2>2. data \in FormDatas
    BY BlankFormIs, FilledFormIs
  <2>3. form.kind = "closed" /\ UNCHANGED <<formCalls, made>>
    BY <1>4, Zenon DEF OpenTemplate
  <2>4. DialogOK(form')
    BY <1>1, <2>1, <2>2, <2>3 DEF DialogOK, DialogStates, FormDialogs
  <2> QED
    BY <2>3, <2>4, FormKeeps
<1>5. CASE CloseForm
  BY <1>5, ResetIs, FormKeeps DEF CloseForm
<1>6. CASE BackToTemplates
  <2>1. form' = [form EXCEPT !.step = "select", !.picked = NoTemplate] /\ UNCHANGED <<formCalls, made>>
    BY <1>6 DEF BackToTemplates
  <2>2. DialogOK(form')
    BY <1>1, <2>1 DEF DialogOK, DialogStates
  <2> QED
    BY <2>1, <2>2, FormKeeps
<1> QED
  BY <1>2, <1>3, <1>4, <1>5, <1>6

LEMMA FormSubmitStep ==
  ASSUME FormInv, HandleSubmit \/ HandleWarningProceed \/ HandleWarningCancel \/ SubmitTemplate
  PROVE  FormInv'
<1>1. form \in DialogStates /\ form.data \in FormDatas /\ (form.warned => form.kind \in {"create", "edit"})
      /\ form.submitting \in SUBSET FormDialogs
  BY DEF FormInv, DialogOK, DialogStates
<1>2. CASE HandleSubmit
  <2>1. CASE Warns(form.data)
    <3>1. form' = [form EXCEPT !.warned = TRUE] /\ UNCHANGED <<formCalls, made>> /\ form.kind \in {"create", "edit"}
      BY <1>2, <2>1 DEF HandleSubmit
    <3>2. DialogOK(form')
      BY <1>1, <3>1 DEF DialogOK, DialogStates
    <3> QED
      BY <3>1, <3>2, FormKeeps
  <2>2. CASE ~Warns(form.data)
    BY <1>2, <2>2, SendFormStep DEF HandleSubmit
  <2> QED
    BY <2>1, <2>2
<1>3. CASE HandleWarningProceed
  BY <1>1, <1>3, SendFormStep DEF HandleWarningProceed
<1>4. CASE HandleWarningCancel
  <2>1. form' = [form EXCEPT !.warned = FALSE] /\ UNCHANGED <<formCalls, made>>
    BY <1>4 DEF HandleWarningCancel
  <2>2. DialogOK(form')
    BY <1>1, <2>1 DEF DialogOK, DialogStates
  <2> QED
    BY <2>1, <2>2, FormKeeps
<1>5. CASE SubmitTemplate
  <2>1. CASE VolumesToJsonFails(form.data)
    <3>1. form' = [form EXCEPT !.failedAlone = TRUE] /\ UNCHANGED <<formCalls, made>>
      BY <1>5, <2>1 DEF SubmitTemplate
    <3>2. DialogOK(form')
      BY <1>1, <3>1 DEF DialogOK, DialogStates
    <3> QED
      BY <3>1, <3>2, FormKeeps
  <2>2. CASE ~VolumesToJsonFails(form.data)
    <3>1. /\ form' = [form EXCEPT !.submitting = @ \cup {"template"}] /\ UNCHANGED made
          /\ formCalls' = formCalls \cup {[op |-> "template", of |-> form.data.of]}
      BY <1>5, <2>2 DEF SubmitTemplate
    <3>2. form.submitting \cup {"template"} \in SUBSET FormDialogs
      BY <1>1 DEF FormDialogs
    <3>3. DialogOK(form')
      BY <1>1, <3>1, <3>2 DEF DialogOK, DialogStates
    <3>4. FormCallsOK({[op |-> "template", of |-> form.data.of]})
      BY DEF FormCallsOK, FormDialogs
    <3> QED
      BY <3>1, <3>3, <3>4, FormKeeps
  <2> QED
    BY <2>1, <2>2
<1> QED
  BY <1>2, <1>3, <1>4, <1>5

LEMMA FormTemplateStep ==
  ASSUME FormInv, NEW t \in Templates, SelectTemplate(t) \/ DeleteTemplate(t)
  PROVE  FormInv'
<1>1. form \in DialogStates /\ form.data \in FormDatas /\ (form.warned => form.kind \in {"create", "edit"})
  BY DEF FormInv, DialogOK, DialogStates
<1>2. CASE SelectTemplate(t)
  <2>1. /\ form' = [form EXCEPT !.picked = t, !.data.name = TRUE] /\ UNCHANGED made
        /\ formCalls' = formCalls \cup {[op |-> "ports", of |-> t]}
    BY <1>2 DEF SelectTemplate
  <2>2. [form.data EXCEPT !.name = TRUE] \in FormDatas
    BY <1>1 DEF FormDatas
  <2>3. DialogOK(form')
    BY <1>1, <2>1, <2>2 DEF DialogOK, DialogStates
  <2>4. FormCallsOK({[op |-> "ports", of |-> t]})
    BY DEF FormCallsOK
  <2> QED
    BY <2>1, <2>3, <2>4, FormKeeps
<1>3. CASE DeleteTemplate(t)
  <2>1. formCalls' = {[op |-> "delete", of |-> t]} /\ UNCHANGED <<form, made>>
    BY <1>3 DEF DeleteTemplate
  <2>2. FormCallsOK({[op |-> "delete", of |-> t]})
    BY DEF FormCallsOK
  <2>3. DialogOK(form')
    BY <1>1, <2>1 DEF DialogOK
  <2> QED
    BY <2>1, <2>2, <2>3, FormKeeps
<1> QED
  BY <1>2, <1>3

LEMMA FormAnswerStep ==
  ASSUME FormInv, NEW c \in formCalls, TemplateFills(c) \/ Submitted(c) \/ TemplateDeleted(c)
  PROVE  FormInv'
<1>1. form \in DialogStates /\ form.data \in FormDatas /\ (form.warned => form.kind \in {"create", "edit"})
      /\ form.submitting \in SUBSET FormDialogs /\ DialogOK(form)
  BY DEF FormInv, DialogOK, DialogStates
<1>2. CASE TemplateFills(c)
  <2>1. c.of \in Templates /\ formCalls' = formCalls \ {c} /\ UNCHANGED made
    BY <1>2 DEF TemplateFills, FormInv, FormCallsOK
  <2>2. CASE form.kind = "create"
    <3> DEFINE data == [Filled(c.of) EXCEPT !.name = form.data.name, !.links = form.data.links]
    <3>1. Filled(c.of) \in FormDatas
      BY <2>1, FilledFormIs
    <3>2. data \in FormDatas
      BY <1>1, <3>1 DEF FormDatas
    <3>3. form' = [form EXCEPT !.step = "configure", !.data = data]
      BY <1>2, <2>2 DEF TemplateFills
    <3> HIDE DEF data
    <3>4. DialogOK(form')
      BY <1>1, <3>2, <3>3 DEF DialogOK, DialogStates
    <3> QED
      BY <2>1, <3>4, FormKeeps
  <2>3. CASE form.kind # "create"
    <3>1. form' = [form EXCEPT !.left = c.of]
      BY <1>2, <2>3 DEF TemplateFills
    <3>2. DialogOK(form')
      BY <1>1, <2>1, <3>1 DEF DialogOK, DialogStates
    <3> QED
      BY <2>1, <3>2, FormKeeps
  <2> QED
    BY <2>2, <2>3
<1>3. CASE Submitted(c)
  <2>1. PICK f \in {form, FormReset} : form' = [f EXCEPT !.submitting = @ \ {c.op}]
    BY <1>3 DEF Submitted
  <2>2. DialogOK(f)
    BY <1>1, ResetIs
  <2>3. DialogOK(form')
    BY <2>1, <2>2 DEF DialogOK, DialogStates
  <2>4. formCalls' = formCalls \ {c} /\ UNCHANGED made
    BY <1>3 DEF Submitted
  <2> QED
    BY <2>3, <2>4, FormKeeps
<1>4. CASE TemplateDeleted(c)
  <2>1. formCalls' = formCalls \ {c} /\ UNCHANGED <<form, made>>
    BY <1>4 DEF TemplateDeleted
  <2>2. DialogOK(form')
    BY <1>1, <2>1
  <2> QED
    BY <2>1, <2>2, FormKeeps
<1> QED
  BY <1>2, <1>3, <1>4

LEMMA FormStep == FormInv /\ [ModuleFormsNext]_formVars => FormInv'
<1> SUFFICES ASSUME FormInv, [ModuleFormsNext]_formVars PROVE FormInv'
  OBVIOUS
<1>1. CASE OpenCreate \/ OpenTemplate \/ CloseForm \/ BackToTemplates \/ \E t \in Templates : OpenEdit(t)
  BY <1>1, FormOpenStep
<1>2. CASE \/ GeneralSection \/ PortsSection \/ EnvironmentSection \/ VolumesSection \/ AdvancedSection
           \/ BasicSection \/ DockerSection \/ TemplatePortsSection \/ TemplateEnvironmentSection
           \/ TemplateVolumesSection \/ TemplateAdvancedSection
  BY <1>2, SectionEditsStep
     DEF GeneralSection, PortsSection, EnvironmentSection, VolumesSection, AdvancedSection, BasicSection,
         DockerSection, TemplatePortsSection, TemplateEnvironmentSection, TemplateVolumesSection,
         TemplateAdvancedSection
<1>3. CASE HandleSubmit \/ HandleWarningProceed \/ HandleWarningCancel \/ SubmitTemplate
  BY <1>3, FormSubmitStep
<1>4. CASE \E t \in Templates : SelectTemplate(t) \/ DeleteTemplate(t)
  BY <1>4, FormTemplateStep
<1>5. CASE \E c \in formCalls : TemplateFills(c) \/ Submitted(c) \/ TemplateDeleted(c)
  BY <1>5, FormAnswerStep
<1>6. CASE UNCHANGED formVars
  BY <1>6 DEF formVars, FormInv, DialogOK, FormCallsOK
<1> QED
  BY <1>1, <1>2, <1>3, <1>4, <1>5, <1>6 DEF ModuleFormsNext

-----------------------------------------------------------------------------
(* The console and its WebSocket.                                           *)

MsgTypes == {"auth", "authOk", "authFail", "subscribe", "unsubscribe", "command", "logs", "log", "result", "error", "empty"}
Msgs == [type : MsgTypes, server : ConsoleServers]

Clients == [state : ConnectionStates, attempts : 0 .. MaxReconnects, timer : BOOLEAN, flushing : BOOLEAN,
            subs : SUBSET ConsoleServers, buffer : SUBSET ConsoleServers]
Consoles == [server : ConsoleServers, active : BOOLEAN, lines : SUBSET ConsoleServers, loading : BOOLEAN,
             calling : BOOLEAN, fetching : SUBSET ConsoleServers]
HubEnds == [authenticated : BOOLEAN, log : [ConsoleServers -> LogStates]]

\* A message says whether the client wants the log of s.
Speaks(m, s) == m.server = s /\ m.type \in {"subscribe", "unsubscribe"}
LastWord(q, s, i) == Speaks(q[i], s) /\ \A j \in i + 1 .. Len(q) : ~Speaks(q[j], s)
Silent(q, s) == \A j \in 1 .. Len(q) : ~Speaks(q[j], s)

\* The last message about a server says what the client wants; if there is none, the hub has done it.
Agrees(q, subs, h, s) ==
    /\ \A i \in 1 .. Len(q) : LastWord(q, s, i) => (q[i].type = "subscribe" <=> s \in subs)
    /\ Silent(q, s) => /\ h.log[s] = "followed" => s \in subs
                       /\ s \in subs => h.log[s] # "none"

\* Before the authentication nothing is said but the authentication, and the hub knows nothing.
Talk(w, h, to, from) ==
    /\ w.state \in {"disconnected", "connecting"} => Len(to) = 0 /\ Len(from) = 0
    /\ w.state # "authenticated" => \A s \in ConsoleServers : h.log[s] = "none"
    /\ w.state = "connected" => \/ Len(to) = 1 /\ to[1].type = "auth" /\ Len(from) = 0
                                \/ Len(to) = 0 /\ Len(from) = 0
                                \/ Len(to) = 0 /\ Len(from) = 1
    /\ w.state = "authenticated" =>
         /\ \A i \in 1 .. Len(to) : to[i].type \in {"subscribe", "unsubscribe", "command"}
         /\ \A i \in 1 .. Len(from) : from[i].type # "authOk"
         /\ \A s \in ConsoleServers : Agrees(to, w.subs, h, s)

ConsoleInv ==
    /\ ws \in Clients /\ console \in Consoles /\ hubEnd \in HubEnds
    /\ toHub \in Seq(Msgs) /\ fromHub \in Seq(Msgs)
    /\ SubscribesToShown
    /\ Talk(ws, hubEnd, toHub, fromHub)

LEMMA ConsoleTypesImply == ConsoleInv => ConsoleTypeOK /\ SubscribesToShown /\ HubFollows
<1> SUFFICES ASSUME ConsoleInv PROVE ConsoleTypeOK /\ SubscribesToShown /\ HubFollows
  OBVIOUS
<1>1. ConsoleTypeOK
  BY DEF ConsoleInv, ConsoleTypeOK, Clients, Consoles, HubEnds
<1>2. HubFollows
  <2> SUFFICES ASSUME ws.state = "authenticated", toHub = <<>>
               PROVE  \A s \in ConsoleServers : /\ hubEnd.log[s] = "followed" => s \in ws.subs
                                                /\ s \in ws.subs => hubEnd.log[s] # "none"
    BY DEF HubFollows, IsReady
  <2>1. \A s \in ConsoleServers : Agrees(toHub, ws.subs, hubEnd, s) /\ Silent(toHub, s)
    BY DEF ConsoleInv, Talk, Silent
  <2> QED
    BY <2>1 DEF Agrees
<1> QED
  BY <1>1, <1>2 DEF ConsoleInv

LEMMA ConsoleInitInv == ConsoleInit => ConsoleInv
<1> SUFFICES ASSUME ConsoleInit PROVE ConsoleInv
  OBVIOUS
<1>1. ws \in Clients /\ console \in Consoles /\ hubEnd \in HubEnds
  BY ConsoleAssumption DEF ConsoleInit, Clients, Consoles, HubEnds, ConnectionStates, NoLogs, LogStates
<1>2. toHub \in Seq(Msgs) /\ fromHub \in Seq(Msgs) /\ SubscribesToShown
  BY DEF ConsoleInit, SubscribesToShown
<1>3. Talk(ws, hubEnd, toHub, fromHub)
  BY DEF ConsoleInit, Talk, NoLogs
<1> QED
  BY <1>1, <1>2, <1>3 DEF ConsoleInv

\* What one more message, and one message less, do to the agreement.
LEMMA SaidOther ==
  ASSUME NEW q \in Seq(Msgs), NEW m \in Msgs, NEW s, NEW subs, NEW h, Agrees(q, subs, h, s), ~Speaks(m, s)
  PROVE  Agrees(Append(q, m), subs, h, s)
<1> DEFINE p == Append(q, m)
<1>1. /\ Len(p) = Len(q) + 1 /\ Len(q) \in Nat /\ p[Len(p)] = m
      /\ \A i \in 1 .. Len(q) : p[i] = q[i]
  OBVIOUS
<1> HIDE DEF p
<1>2. ASSUME NEW i \in 1 .. Len(p), LastWord(p, s, i) PROVE p[i].type = "subscribe" <=> s \in subs
  <2>1. i \in 1 .. Len(q)
    BY <1>1, <1>2 DEF LastWord
  <2>2. LastWord(q, s, i)
    BY <1>1, <1>2, <2>1 DEF LastWord
  <2> QED
    BY <1>1, <2>1, <2>2 DEF Agrees
<1>3. Silent(p, s) => Silent(q, s)
  BY <1>1 DEF Silent
<1> QED
  BY <1>2, <1>3 DEF Agrees, p

LEMMA SaidThis ==
  ASSUME NEW q \in Seq(Msgs), NEW m \in Msgs, NEW s, NEW subs, NEW h, Speaks(m, s),
         m.type = "subscribe" <=> s \in subs
  PROVE  Agrees(Append(q, m), subs, h, s)
<1> DEFINE p == Append(q, m)
<1>1. Len(p) = Len(q) + 1 /\ Len(q) \in Nat /\ p[Len(p)] = m
  OBVIOUS
<1> HIDE DEF p
<1>2. ASSUME NEW i \in 1 .. Len(p), LastWord(p, s, i) PROVE p[i].type = "subscribe" <=> s \in subs
  <2>1. i = Len(p)
    BY <1>1, <1>2 DEF LastWord
  <2> QED
    BY <1>1, <2>1
<1>3. ~Silent(p, s)
  BY <1>1 DEF Silent
<1> QED
  BY <1>2, <1>3 DEF Agrees, p

LEMMA Heard ==
  ASSUME NEW q \in Seq(Msgs), q # <<>>, NEW s, NEW subs, NEW h, NEW g, Agrees(q, subs, h, s),
         IF Speaks(Head(q), s)
         THEN IF Head(q).type = "subscribe" THEN g.log[s] # "none" ELSE g.log[s] = "none"
         ELSE g.log[s] = h.log[s]
  PROVE  Agrees(Tail(q), subs, g, s)
<1> DEFINE p == Tail(q)
<1>1. /\ Len(q) = Len(p) + 1 /\ Len(p) \in Nat /\ q[1] = Head(q)
      /\ \A i \in 1 .. Len(p) : p[i] = q[i + 1]
  OBVIOUS
<1> HIDE DEF p
<1>2. ASSUME NEW i \in 1 .. Len(p), LastWord(p, s, i) PROVE p[i].type = "subscribe" <=> s \in subs
  <2>1. i + 1 \in 1 .. Len(q) /\ p[i] = q[i + 1]
    BY <1>1
  <2>2. ASSUME NEW j \in i + 2 .. Len(q) PROVE ~Speaks(q[j], s)
    <3>1. j - 1 \in i + 1 .. Len(p) /\ j - 1 \in 1 .. Len(p) /\ (j - 1) + 1 = j
      BY <1>1
    <3>2. p[j - 1] = q[j]
      BY <1>1, <3>1
    <3> QED
      BY <1>2, <3>1, <3>2 DEF LastWord
  <2>3. (i + 1) + 1 = i + 2
    OBVIOUS
  <2>4. LastWord(q, s, i + 1)
    BY <1>2, <2>1, <2>2, <2>3 DEF LastWord
  <2> QED
    BY <2>1, <2>4 DEF Agrees
<1>3. ASSUME Silent(p, s) PROVE (g.log[s] = "followed" => s \in subs) /\ (s \in subs => g.log[s] # "none")
  <2>1. ASSUME NEW j \in 2 .. Len(q) PROVE ~Speaks(q[j], s)
    <3>1. j - 1 \in 1 .. Len(p) /\ (j - 1) + 1 = j
      BY <1>1
    <3>2. p[j - 1] = q[j]
      BY <1>1, <3>1
    <3> QED
      BY <1>3, <3>1, <3>2 DEF Silent
  <2>2. CASE Speaks(Head(q), s)
    <3>1. LastWord(q, s, 1) /\ 1 \in 1 .. Len(q)
      BY <1>1, <2>1, <2>2 DEF LastWord
    <3>2. Head(q).type = "subscribe" <=> s \in subs
      BY <1>1, <3>1 DEF Agrees
    <3> QED
      BY <2>2, <3>2
  <2>3. CASE ~Speaks(Head(q), s)
    <3>1. Silent(q, s)
      <4> SUFFICES ASSUME NEW j \in 1 .. Len(q) PROVE ~Speaks(q[j], s)
        BY DEF Silent
      <4>1. j = 1 \/ j \in 2 .. Len(q)
        BY <1>1
      <4> QED
        BY <1>1, <2>1, <2>3, <4>1
    <3> QED
      BY <2>3, <3>1 DEF Agrees
  <2> QED
    BY <2>2, <2>3
<1> QED
  BY <1>2, <1>3 DEF Agrees, p

\* A queue that changes in nothing that is said about subscriptions.
LEMMA ConsoleKeeps ==
  ASSUME ws' \in Clients, console' \in Consoles, hubEnd' \in HubEnds, toHub' \in Seq(Msgs), fromHub' \in Seq(Msgs),
         SubscribesToShown', Talk(ws', hubEnd', toHub', fromHub')
  PROVE  ConsoleInv'
  BY DEF ConsoleInv

LEMMA SocketOpensStep == ConsoleInv /\ SocketOpens => ConsoleInv'
<1> SUFFICES ASSUME ConsoleInv, SocketOpens PROVE ConsoleInv'
  OBVIOUS
<1>0. 0 \in 0 .. MaxReconnects
  BY ConsoleAssumption
<1>1. ws' \in Clients /\ ws'.state = "connected" /\ ws'.subs = ws.subs /\ ws.state = "connecting"
  BY <1>0 DEF ConsoleInv, SocketOpens, Clients, ConnectionStates
<1>2. Msg("auth", FirstConsole) \in Msgs /\ Msg("auth", FirstConsole).type = "auth"
  BY ConsoleAssumption DEF Msg, Msgs, MsgTypes
<1>3. toHub' \in Seq(Msgs) /\ Len(toHub') = 1 /\ toHub'[1].type = "auth"
  BY <1>2 DEF SocketOpens
<1>4. UNCHANGED <<console, hubEnd, fromHub>>
  BY DEF SocketOpens
<1>5. Talk(ws', hubEnd', toHub', fromHub')
  BY <1>1, <1>3, <1>4 DEF ConsoleInv, Talk
<1>6. SubscribesToShown'
  BY <1>1, <1>4 DEF ConsoleInv, SubscribesToShown
<1> QED
  BY <1>1, <1>3, <1>4, <1>5, <1>6, ConsoleKeeps DEF ConsoleInv

LEMMA FlushedIs ==
  ASSUME ConsoleInv
  PROVE  Flushed(console) \in Consoles /\ Flushed(console).server = console.server
         /\ Flushed(console).active = console.active
<1>1. ws.buffer \in SUBSET ConsoleServers /\ console \in Consoles
  BY DEF ConsoleInv, Clients
<1>2. Taken(console, ws.buffer) \in SUBSET ConsoleServers
  BY <1>1 DEF Taken
<1>3. console.lines \cup Taken(console, ws.buffer) \in SUBSET ConsoleServers
  BY <1>1, <1>2 DEF Consoles
<1> QED
  BY <1>1, <1>3 DEF Flushed, Consoles

LEMMA SocketClosesStep == ConsoleInv /\ SocketCloses => ConsoleInv'
<1> SUFFICES ASSUME ConsoleInv, SocketCloses PROVE ConsoleInv'
  OBVIOUS
<1> DEFINE w == [CleanUp(ws) EXCEPT !.state = "disconnected"]
<1>1. w \in Clients /\ w.state = "disconnected" /\ w.subs = ws.subs
  BY DEF ConsoleInv, Clients, CleanUp, ConnectionStates
<1>2. ws' = ScheduleReconnect(w) /\ console' = Flushed(console) /\ toHub' = <<>> /\ fromHub' = <<>>
      /\ hubEnd' = [authenticated |-> FALSE, log |-> NoLogs]
  BY DEF SocketCloses
<1> HIDE DEF w
<1>3. ws' \in Clients /\ ws'.state = "disconnected" /\ ws'.subs = ws.subs
  <2>1. w.attempts \in 0 .. MaxReconnects
    BY <1>1 DEF Clients
  <2>2. ~(w.attempts >= MaxReconnects) => w.attempts + 1 \in 0 .. MaxReconnects
    BY <2>1, ConsoleAssumption
  <2> QED
    BY <1>1, <1>2, <2>2 DEF ScheduleReconnect, Clients
<1>4. Talk(ws', hubEnd', toHub', fromHub')
  BY <1>2, <1>3 DEF Talk, NoLogs
<1>5. SubscribesToShown'
  BY <1>2, <1>3, FlushedIs DEF ConsoleInv, SubscribesToShown
<1>6. hubEnd' \in HubEnds /\ toHub' \in Seq(Msgs) /\ fromHub' \in Seq(Msgs) /\ console' \in Consoles
  BY <1>2, FlushedIs DEF HubEnds, NoLogs, LogStates
<1> QED
  BY <1>3, <1>4, <1>5, <1>6, ConsoleKeeps

LEMMA ConsoleTimersStep == ConsoleInv /\ (ReconnectTimer \/ FlushLogBuffer) => ConsoleInv'
<1> SUFFICES ASSUME ConsoleInv, ReconnectTimer \/ FlushLogBuffer PROVE ConsoleInv'
  OBVIOUS
<1>1. UNCHANGED <<hubEnd, toHub, fromHub>>
  BY DEF ReconnectTimer, FlushLogBuffer
<1>2. /\ ws' \in Clients /\ ws'.subs = ws.subs
      /\ \/ ws'.state = ws.state
         \/ ws'.state = "connecting" /\ ws.state = "disconnected"
  BY DEF ConsoleInv, ReconnectTimer, FlushLogBuffer, Connected, SocketIsOpen, Clients, ConnectionStates
<1>3. console' \in Consoles /\ console'.server = console.server /\ console'.active = console.active
  BY FlushedIs DEF ConsoleInv, ReconnectTimer, FlushLogBuffer
<1>4. SubscribesToShown'
  BY <1>2, <1>3 DEF ConsoleInv, SubscribesToShown
<1>5. Talk(ws', hubEnd', toHub', fromHub')
  BY <1>1, <1>2 DEF ConsoleInv, Talk
<1> QED
  BY <1>1, <1>2, <1>3, <1>4, <1>5, ConsoleKeeps DEF ConsoleInv

\* A step of the component that sends nothing and subscribes to nothing.
LEMMA QuietStep ==
  ASSUME ConsoleInv, console' \in Consoles, console'.server = console.server, console'.active = console.active,
         UNCHANGED <<ws, hubEnd, toHub, fromHub>>
  PROVE  ConsoleInv'
<1>1. SubscribesToShown' /\ Talk(ws', hubEnd', toHub', fromHub')
  BY DEF ConsoleInv, SubscribesToShown
<1> QED
  BY <1>1, ConsoleKeeps DEF ConsoleInv

LEMMA ConsoleButtonsStep ==
  ASSUME ConsoleInv, FetchLogs \/ ClearConsole \/ CommandAnswered \/ \E s \in ConsoleServers : LogsFetched(s)
  PROVE  ConsoleInv'
<1>1. console \in Consoles
  BY DEF ConsoleInv
<1>2. CASE FetchLogs
  <2>1. [console EXCEPT !.fetching = @ \cup {console.server}] \in Consoles
    BY <1>1 DEF Consoles
  <2> QED
    BY <1>1, <1>2, <2>1, QuietStep DEF FetchLogs, SetConsole, Consoles
<1>3. CASE ClearConsole
  BY <1>1, <1>3, QuietStep DEF ClearConsole, SetConsole, Consoles
<1>4. CASE CommandAnswered
  BY <1>1, <1>4, QuietStep DEF CommandAnswered, SetConsole, Consoles
<1>5. ASSUME NEW s \in ConsoleServers, LogsFetched(s) PROVE ConsoleInv'
  <2> DEFINE rest == console.fetching \ {s}
             shown == {s}
  <2>1. rest \in SUBSET ConsoleServers /\ shown \in SUBSET ConsoleServers
    BY <1>1 DEF Consoles
  <2>2. /\ UNCHANGED <<ws, hubEnd, toHub, fromHub>>
        /\ \/ console' = [console EXCEPT !.fetching = rest, !.lines = shown]
           \/ console' = [console EXCEPT !.fetching = rest]
    BY <1>5, Zenon DEF LogsFetched, SetConsole
  <2> HIDE DEF rest, shown
  <2>3. console' \in Consoles /\ console'.server = console.server /\ console'.active = console.active
    BY <1>1, <2>1, <2>2 DEF Consoles
  <2> QED
    BY <2>2, <2>3, QuietStep
<1> QED
  BY <1>2, <1>3, <1>4, <1>5

\* What is still to be read after one message has been read.
LEMMA TailIs ==
  ASSUME NEW q \in Seq(Msgs), q # <<>>
  PROVE  /\ Head(q) \in Msgs /\ Tail(q) \in Seq(Msgs) /\ Len(q) \in Nat /\ Len(q) = Len(Tail(q)) + 1
         /\ Head(q) = q[1] /\ \A i \in 1 .. Len(Tail(q)) : Tail(q)[i] = q[i + 1] /\ i + 1 \in 1 .. Len(q)
  OBVIOUS

LEMMA AppendIs ==
  ASSUME NEW q \in Seq(Msgs), NEW m \in Msgs
  PROVE  /\ Append(q, m) \in Seq(Msgs) /\ Len(q) \in Nat /\ Len(Append(q, m)) = Len(q) + 1
         /\ \A i \in 1 .. Len(q) : Append(q, m)[i] = q[i]
         /\ Append(q, m)[Len(q) + 1] = m
  OBVIOUS

LEMMA MsgIs ==
  ASSUME NEW s \in ConsoleServers, NEW type \in MsgTypes
  PROVE  Msg(type, s) \in Msgs /\ Msg(type, s).type = type /\ Msg(type, s).server = s
  BY DEF Msg, Msgs

LEMMA ResubscribeIs ==
  ASSUME NEW w, NEW s \in ConsoleServers, w.subs = {s}
  PROVE  ResubscribeAll(w) = <<Msg("subscribe", s)>>
<1>1. Cardinality({s}) = 1
  BY FS_Singleton
<1> DEFINE Asks == [1 .. 1 -> {Msg("subscribe", x) : x \in {s}}]
           All(msgs) == {msgs[i].server : i \in DOMAIN msgs} = {s}
<1>2. ResubscribeAll(w) = CHOOSE msgs \in Asks : All(msgs)
  BY <1>1 DEF ResubscribeAll
<1>3. Msg("subscribe", s).server = s
  BY DEF Msg
<1>4. <<Msg("subscribe", s)>> \in Asks /\ DOMAIN <<Msg("subscribe", s)>> = 1 .. 1
  OBVIOUS
<1>5. All(<<Msg("subscribe", s)>>)
  BY <1>3, <1>4
<1>6. \A msgs \in Asks : msgs = <<Msg("subscribe", s)>>
  OBVIOUS
<1> HIDE DEF Asks, All
<1> QED
  BY <1>2, <1>4, <1>5, <1>6

LEMMA ResubscribeNothing ==
  ASSUME NEW w, w.subs = {}
  PROVE  ResubscribeAll(w) = <<>>
<1>1. Cardinality({}) = 0
  BY FS_EmptySet
<1> DEFINE Asks == [1 .. 0 -> {Msg("subscribe", x) : x \in {}}]
           All(msgs) == {msgs[i].server : i \in DOMAIN msgs} = {}
<1>2. ResubscribeAll(w) = CHOOSE msgs \in Asks : All(msgs)
  BY <1>1 DEF ResubscribeAll
<1>4. <<>> \in Asks /\ DOMAIN <<>> = {}
  OBVIOUS
<1>5. All(<<>>)
  BY <1>4
<1>6. \A msgs \in Asks : msgs = <<>>
  OBVIOUS
<1> HIDE DEF Asks, All
<1> QED
  BY <1>2, <1>4, <1>5, <1>6

LEMMA HandleMessageStep == ConsoleInv /\ HandleMessage => ConsoleInv'
<1> SUFFICES ASSUME ConsoleInv, HandleMessage PROVE ConsoleInv'
  OBVIOUS
<1> DEFINE m == Head(fromHub)
<1>1. fromHub \in Seq(Msgs) /\ fromHub # <<>> /\ fromHub' = Tail(fromHub) /\ UNCHANGED hubEnd
      /\ ws \in Clients /\ console \in Consoles /\ toHub \in Seq(Msgs) /\ hubEnd \in HubEnds
  BY DEF ConsoleInv, HandleMessage
<1>2. m \in Msgs /\ fromHub' \in Seq(Msgs) /\ m = fromHub[1] /\ Len(fromHub') \in Nat
      /\ Len(fromHub) = Len(fromHub') + 1
      /\ \A i \in 1 .. Len(fromHub') : fromHub'[i] = fromHub[i + 1] /\ i + 1 \in 1 .. Len(fromHub)
  BY <1>1, TailIs
<1>3. m.server \in ConsoleServers
  BY <1>2 DEF Msgs
<1>4. CASE m.type = "authOk"
  <2>1. ws' = [ws EXCEPT !.state = "authenticated"] /\ toHub' = toHub \o ResubscribeAll(ws) /\ UNCHANGED console
    BY <1>4 DEF HandleMessage
  <2>2. ws' \in Clients /\ ws'.subs = ws.subs /\ ws'.state = "authenticated"
    BY <1>1, <2>1 DEF Clients, ConnectionStates
  <2>3. ws.state = "connected"
    BY <1>1, <1>2, <1>4 DEF ConsoleInv, Talk, Clients, ConnectionStates
  <2>4. Len(toHub) = 0 /\ Len(fromHub') = 0 /\ \A s \in ConsoleServers : hubEnd.log[s] = "none"
    BY <1>1, <1>2, <2>3 DEF ConsoleInv, Talk
  <2>5. toHub = <<>>
    BY <1>1, <2>4
  <2>6. CASE console.active
    <3> DEFINE a == Msg("subscribe", console.server)
    <3>1. ws.subs = {console.server} /\ console.server \in ConsoleServers
      BY <1>1, <2>6 DEF ConsoleInv, SubscribesToShown, Consoles
    <3>2. a \in Msgs /\ a.type = "subscribe" /\ a.server = console.server
      BY <3>1, MsgIs DEF MsgTypes
    <3>3. ResubscribeAll(ws) = <<a>>
      BY <3>1, ResubscribeIs
    <3> HIDE DEF a
    <3>4. toHub' = <<a>>
      BY <2>1, <2>5, <3>2, <3>3
    <3>5. toHub' \in Seq(Msgs) /\ Len(toHub') = 1 /\ toHub'[1] = a
      BY <3>2, <3>4
    <3>6. ASSUME NEW s \in ConsoleServers PROVE Agrees(toHub', ws'.subs, hubEnd', s)
      BY <1>1, <2>2, <2>4, <3>1, <3>2, <3>5 DEF Agrees, Silent, Speaks, LastWord
    <3>7. Talk(ws', hubEnd', toHub', fromHub')
      BY <2>2, <2>4, <3>2, <3>5, <3>6 DEF Talk
    <3> QED
      BY <1>1, <1>2, <2>1, <2>2, <3>5, <3>7, ConsoleKeeps DEF ConsoleInv, SubscribesToShown
  <2>7. CASE ~console.active
    <3>1. ws.subs = {}
      BY <2>7 DEF ConsoleInv, SubscribesToShown
    <3>2. toHub' = <<>>
      BY <2>1, <2>5, <3>1, ResubscribeNothing
    <3>3. ASSUME NEW s \in ConsoleServers PROVE Agrees(toHub', ws'.subs, hubEnd', s)
      BY <1>1, <2>2, <2>4, <3>1, <3>2 DEF Agrees, Silent, Speaks, LastWord
    <3>4. Talk(ws', hubEnd', toHub', fromHub')
      BY <2>2, <2>4, <3>2, <3>3 DEF Talk
    <3> QED
      BY <1>1, <1>2, <2>1, <2>2, <3>2, <3>4, ConsoleKeeps DEF ConsoleInv, SubscribesToShown
  <2> QED
    BY <2>6, <2>7
<1>5. CASE m.type # "authOk"
  <2>1. UNCHANGED toHub
    BY <1>5 DEF HandleMessage
  <2>2. UNCHANGED ws \/ ws' = [ws EXCEPT !.buffer = @ \cup {m.server}]
    BY <1>5 DEF HandleMessage
  <2>3. \/ UNCHANGED console
        \/ console' = [console EXCEPT !.lines = {m.server}]
        \/ console' = [console EXCEPT !.lines = {}]
        \/ console' = [console EXCEPT !.loading = FALSE]
    BY <1>5 DEF HandleMessage
  <2>4. ws' \in Clients /\ ws'.subs = ws.subs /\ ws'.state = ws.state
    BY <1>1, <1>3, <2>2 DEF Clients
  <2>5. console' \in Consoles /\ console'.server = console.server /\ console'.active = console.active
    BY <1>1, <1>3, <2>3 DEF Consoles
  <2>6. Talk(ws', hubEnd', toHub', fromHub')
    BY <1>1, <1>2, <2>1, <2>4 DEF ConsoleInv, Talk
  <2> QED
    BY <1>1, <1>2, <2>1, <2>4, <2>5, <2>6, ConsoleKeeps DEF ConsoleInv, SubscribesToShown
<1> QED
  BY <1>4, <1>5

\* What the hub answers never says that a client is authenticated, but to the authentication.
LEMMA HubReadsStep == ConsoleInv /\ HubReads => ConsoleInv'
<1> SUFFICES ASSUME ConsoleInv, HubReads PROVE ConsoleInv'
  OBVIOUS
<1> DEFINE m == Head(toHub)
<1>1. toHub \in Seq(Msgs) /\ toHub # <<>> /\ toHub' = Tail(toHub) /\ UNCHANGED <<ws, console>>
      /\ ws \in Clients /\ console \in Consoles /\ fromHub \in Seq(Msgs) /\ hubEnd \in HubEnds
  BY DEF ConsoleInv, HubReads
<1>2. m \in Msgs /\ toHub' \in Seq(Msgs) /\ m = toHub[1] /\ Len(toHub') \in Nat
      /\ Len(toHub) = Len(toHub') + 1
      /\ \A i \in 1 .. Len(toHub') : toHub'[i] = toHub[i + 1] /\ i + 1 \in 1 .. Len(toHub)
  BY <1>1, TailIs
<1>3. m.server \in ConsoleServers /\ m.type \in MsgTypes
  BY <1>2 DEF Msgs
<1> HIDE DEF m
<1>4. PICK type \in MsgTypes :
        /\ type = "authOk" => m.type = "auth"
        /\ \/ fromHub' = Append(fromHub, Msg(type, m.server))
           \/ UNCHANGED fromHub /\ m.type = "unsubscribe"
  BY <1>1 DEF HubReads, HubAnswer, MsgTypes, m
<1>5. /\ fromHub' \in Seq(Msgs)
      /\ Len(fromHub') \in {Len(fromHub), Len(fromHub) + 1}
      /\ \A i \in 1 .. Len(fromHub') : (i \in 1 .. Len(fromHub) /\ fromHub'[i] = fromHub[i]) \/ fromHub'[i].type = type
  <2>1. CASE fromHub' = Append(fromHub, Msg(type, m.server))
    <3> DEFINE a == Msg(type, m.server)
    <3>1. a \in Msgs /\ a.type = type
      BY <1>3, MsgIs
    <3>2. fromHub' = Append(fromHub, a)
      BY <2>1
    <3> HIDE DEF a
    <3>3. /\ Append(fromHub, a) \in Seq(Msgs) /\ Len(fromHub) \in Nat /\ Len(Append(fromHub, a)) = Len(fromHub) + 1
          /\ \A i \in 1 .. Len(fromHub) : Append(fromHub, a)[i] = fromHub[i]
          /\ Append(fromHub, a)[Len(fromHub) + 1] = a
      BY <1>1, <3>1, AppendIs
    <3> QED
      BY <3>1, <3>2, <3>3
  <2>2. CASE UNCHANGED fromHub
    BY <1>1, <2>2
  <2> QED
    BY <1>4, <2>1, <2>2
<1>6. /\ hubEnd' \in HubEnds
      /\ m.type \in {"auth", "command"} => hubEnd'.log = hubEnd.log
      /\ m.type = "subscribe" => hubEnd'.log[m.server] # "none"
      /\ m.type = "unsubscribe" => hubEnd'.log[m.server] = "none"
      /\ m.type \in {"auth", "command", "subscribe", "unsubscribe"}
      /\ \A s \in ConsoleServers \ {m.server} : hubEnd'.log[s] = hubEnd.log[s]
  <2>1. \/ m.type = "auth" /\ hubEnd' = [hubEnd EXCEPT !.authenticated = TRUE]
        \/ m.type \in {"auth", "command"} /\ UNCHANGED hubEnd
        \/ m.type = "subscribe" /\ \E how \in {"followed", "refused", "bare"} : HubLogs(m.server, how)
        \/ m.type = "unsubscribe" /\ hubEnd' = [hubEnd EXCEPT !.log[m.server] = "none"]
    BY DEF HubReads, m
  <2>2. hubEnd.log \in [ConsoleServers -> LogStates] /\ hubEnd.authenticated \in BOOLEAN
    BY <1>1 DEF HubEnds
  <2>3. CASE m.type = "auth" /\ hubEnd' = [hubEnd EXCEPT !.authenticated = TRUE]
    BY <1>1, <2>3 DEF HubEnds
  <2>4. CASE m.type \in {"auth", "command"} /\ UNCHANGED hubEnd
    BY <1>1, <2>4
  <2>5. ASSUME m.type = "subscribe", NEW how \in {"followed", "refused", "bare"}, HubLogs(m.server, how)
        PROVE  /\ hubEnd' \in HubEnds /\ hubEnd'.log[m.server] # "none"
               /\ \A s \in ConsoleServers \ {m.server} : hubEnd'.log[s] = hubEnd.log[s]
    BY <1>1, <1>3, <2>2, <2>5 DEF HubLogs, HubEnds, LogStates
  <2>6. CASE m.type = "unsubscribe" /\ hubEnd' = [hubEnd EXCEPT !.log[m.server] = "none"]
    BY <1>1, <1>3, <2>2, <2>6 DEF HubEnds, LogStates
  <2> QED
    BY <2>1, <2>3, <2>4, <2>5, <2>6
<1>7. Talk(ws', hubEnd', toHub', fromHub')
  <2>1. ws.state \in {"connected", "authenticated"}
    BY <1>1, <1>2 DEF ConsoleInv, Talk, Clients, ConnectionStates
  <2>2. CASE ws.state = "connected"
    <3>1. Len(toHub) = 1 /\ m.type = "auth" /\ Len(fromHub) = 0 /\ \A s \in ConsoleServers : hubEnd.log[s] = "none"
      BY <1>2, <2>2 DEF ConsoleInv, Talk
    <3>2. Len(toHub') = 0 /\ (Len(fromHub') = 0 \/ Len(fromHub') = 1)
      <4>1. Len(toHub') = 0
        <5>1. Len(toHub') \in Nat /\ 1 = Len(toHub') + 1
          BY <1>2, <3>1
        <5> QED
          BY <5>1
      <4>2. Len(fromHub') = Len(fromHub) \/ Len(fromHub') = Len(fromHub) + 1
        BY <1>5
      <4> QED
        BY <3>1, <4>1, <4>2
    <3> QED
      BY <1>1, <1>6, <2>2, <3>1, <3>2 DEF Talk
  <2>3. CASE ws.state = "authenticated"
    <3>1. /\ \A i \in 1 .. Len(toHub) : toHub[i].type \in {"subscribe", "unsubscribe", "command"}
          /\ \A i \in 1 .. Len(fromHub) : fromHub[i].type # "authOk"
          /\ \A s \in ConsoleServers : Agrees(toHub, ws.subs, hubEnd, s)
      BY <2>3 DEF ConsoleInv, Talk
    <3>2. m.type \in {"subscribe", "unsubscribe", "command"}
      BY <1>2, <3>1
    <3>3. \A i \in 1 .. Len(toHub') : toHub'[i].type \in {"subscribe", "unsubscribe", "command"}
      BY <1>2, <3>1
    <3>4. \A i \in 1 .. Len(fromHub') : fromHub'[i].type # "authOk"
      BY <1>4, <1>5, <3>1, <3>2
    <3>5. ASSUME NEW s \in ConsoleServers PROVE Agrees(toHub', ws'.subs, hubEnd', s)
      <4>1. IF Speaks(m, s)
            THEN IF m.type = "subscribe" THEN hubEnd'.log[s] # "none" ELSE hubEnd'.log[s] = "none"
            ELSE hubEnd'.log[s] = hubEnd.log[s]
        BY <1>6, <3>2 DEF Speaks
      <4>2. Agrees(Tail(toHub), ws.subs, hubEnd', s)
        BY <1>1, <3>1, <4>1, Heard DEF m
      <4> QED
        BY <1>1, <4>2
    <3> QED
      BY <1>1, <2>3, <3>3, <3>4, <3>5 DEF Talk
  <2> QED
    BY <2>1, <2>2, <2>3
<1>8. SubscribesToShown'
  BY <1>1 DEF ConsoleInv, SubscribesToShown
<1> QED
  BY <1>1, <1>2, <1>5, <1>6, <1>7, <1>8, ConsoleKeeps

LEMMA HubSendsLineStep ==
  ASSUME ConsoleInv, NEW s \in ConsoleServers, HubSendsLine(s)
  PROVE  ConsoleInv'
<1>1. hubEnd.log[s] = "followed" /\ fromHub = <<>> /\ fromHub' = Append(fromHub, Msg("log", s))
      /\ UNCHANGED <<ws, console, hubEnd, toHub>>
  BY DEF HubSendsLine, HubAnswer
<1>2. Msg("log", s) \in Msgs /\ Msg("log", s).type = "log"
  BY MsgIs DEF MsgTypes
<1>3. fromHub' \in Seq(Msgs) /\ Len(fromHub') = 1 /\ fromHub'[1].type = "log"
  BY <1>1, <1>2
<1>4. ws.state = "authenticated"
  BY <1>1 DEF ConsoleInv, Talk
<1>5. Talk(ws', hubEnd', toHub', fromHub')
  BY <1>1, <1>3, <1>4 DEF ConsoleInv, Talk
<1> QED
  BY <1>1, <1>3, <1>5, ConsoleKeeps DEF ConsoleInv, SubscribesToShown

LEMMA ContainerAppearsStep ==
  ASSUME ConsoleInv, NEW s \in ConsoleServers, ContainerAppears(s)
  PROVE  ConsoleInv'
<1>1. /\ hubEnd \in HubEnds /\ hubEnd.log[s] = "bare" /\ UNCHANGED <<ws, console, toHub, fromHub>>
      /\ hubEnd' = [hubEnd EXCEPT !.log[s] = "missed"]
  BY DEF ConsoleInv, ContainerAppears
<1>2. /\ hubEnd' \in HubEnds
      /\ \A x \in ConsoleServers : hubEnd'.log[x] = IF x = s THEN "missed" ELSE hubEnd.log[x]
  BY <1>1 DEF HubEnds, LogStates
<1>3. ws.state = "authenticated"
  BY <1>1 DEF ConsoleInv, Talk
<1>4. ASSUME NEW x \in ConsoleServers, Agrees(toHub, ws.subs, hubEnd, x) PROVE Agrees(toHub, ws.subs, hubEnd', x)
  BY <1>1, <1>2, <1>4 DEF Agrees
<1>5. Talk(ws', hubEnd', toHub', fromHub')
  BY <1>1, <1>3, <1>4 DEF ConsoleInv, Talk
<1> QED
  BY <1>1, <1>2, <1>5, ConsoleKeeps DEF ConsoleInv, SubscribesToShown

\* The client says one thing, or two, or nothing.
LEMMA SaysIs ==
  ASSUME NEW q \in Seq(Msgs), NEW a \in Msgs, NEW b \in Msgs
  PROVE  /\ q \o <<>> \o <<>> = q /\ q \o <<a>> \o <<>> = Append(q, a)
         /\ q \o <<a>> \o <<b>> = Append(Append(q, a), b)
         /\ q \o <<a, b>> = Append(Append(q, a), b)
  OBVIOUS

\* What the component says when the client is authenticated, and what it subscribes to.
LEMMA SaysStep ==
  ASSUME ConsoleInv, ws.state = "authenticated", NEW x \in ConsoleServers, NEW y \in ConsoleServers,
         NEW subs \in SUBSET ConsoleServers, ws' \in Clients, ws'.state = "authenticated", ws'.subs = subs,
         UNCHANGED <<hubEnd, fromHub>>,
         \A s \in ConsoleServers \ {x, y} : s \in subs <=> s \in ws.subs,
         \/ toHub' = Append(toHub, Msg("unsubscribe", x)) /\ x \notin subs /\ x = y
         \/ /\ toHub' = Append(Append(toHub, Msg("unsubscribe", x)), Msg("subscribe", y))
            /\ y \in subs /\ (x # y => x \notin subs)
  PROVE  toHub' \in Seq(Msgs) /\ Talk(ws', hubEnd', toHub', fromHub')
<1> DEFINE a == Msg("unsubscribe", x)
           b == Msg("subscribe", y)
           one == Append(toHub, a)
           two == Append(one, b)
<1>1. /\ a \in Msgs /\ a.type = "unsubscribe" /\ a.server = x
      /\ b \in Msgs /\ b.type = "subscribe" /\ b.server = y
  BY MsgIs DEF MsgTypes
<1>2. toHub \in Seq(Msgs) /\ ((toHub' = one /\ x \notin subs /\ x = y) \/ (toHub' = two /\ y \in subs /\ (x # y => x \notin subs)))
  BY DEF ConsoleInv
<1> HIDE DEF a, b
<1>3. one \in Seq(Msgs) /\ two \in Seq(Msgs)
  BY <1>1, <1>2
<1>4. /\ \A i \in 1 .. Len(toHub) : toHub[i].type \in {"subscribe", "unsubscribe", "command"}
      /\ \A i \in 1 .. Len(fromHub) : fromHub[i].type # "authOk"
      /\ \A s \in ConsoleServers : Agrees(toHub, ws.subs, hubEnd, s)
  BY DEF ConsoleInv, Talk
<1>5. \A i \in 1 .. Len(one) : one[i].type \in {"subscribe", "unsubscribe", "command"}
  <2>1. /\ Len(toHub) \in Nat /\ Len(one) = Len(toHub) + 1
        /\ \A i \in 1 .. Len(toHub) : one[i] = toHub[i]
        /\ one[Len(toHub) + 1] = a
    BY <1>1, <1>2, AppendIs
  <2> HIDE DEF one
  <2> QED
    BY <1>1, <1>4, <2>1
<1>6. \A i \in 1 .. Len(two) : two[i].type \in {"subscribe", "unsubscribe", "command"}
  <2> HIDE DEF one
  <2>1. /\ Len(one) \in Nat /\ Len(two) = Len(one) + 1
        /\ \A i \in 1 .. Len(one) : two[i] = one[i]
        /\ two[Len(one) + 1] = b
    BY <1>1, <1>3, AppendIs
  <2> HIDE DEF two
  <2> QED
    BY <1>1, <1>5, <2>1
<1>7. ASSUME NEW s \in ConsoleServers PROVE Agrees(toHub', subs, hubEnd, s)
  <2>1. CASE toHub' = one /\ x \notin subs /\ x = y
    <3>1. CASE s = x
      <4>1. Agrees(one, subs, hubEnd, s)
        BY <1>1, <1>2, <2>1, <3>1, SaidThis DEF Speaks
      <4> QED
        BY <2>1, <4>1
    <3>2. CASE s # x
      <4>1. Agrees(toHub, subs, hubEnd, s)
        BY <1>4, <2>1, <3>2 DEF Agrees
      <4>2. Agrees(one, subs, hubEnd, s)
        BY <1>1, <1>2, <3>2, <4>1, SaidOther DEF Speaks
      <4> QED
        BY <2>1, <4>2
    <3> QED
      BY <3>1, <3>2
  <2>2. CASE toHub' = two /\ y \in subs /\ (x # y => x \notin subs)
    <3>1. CASE s = y
      <4>1. Agrees(two, subs, hubEnd, s)
        BY <1>1, <1>3, <2>2, <3>1, SaidThis DEF Speaks
      <4> QED
        BY <2>2, <4>1
    <3>2. CASE s # y
      <4>1. Agrees(one, subs, hubEnd, s)
        <5>1. CASE s = x
          BY <1>1, <1>2, <2>2, <3>2, <5>1, SaidThis DEF Speaks
        <5>2. CASE s # x
          <6>1. Agrees(toHub, subs, hubEnd, s)
            BY <1>4, <3>2, <5>2 DEF Agrees
          <6> QED
            BY <1>1, <1>2, <5>2, <6>1, SaidOther DEF Speaks
        <5> QED
          BY <5>1, <5>2
      <4> HIDE DEF one
      <4>2. Agrees(two, subs, hubEnd, s)
        BY <1>1, <1>3, <3>2, <4>1, SaidOther DEF Speaks
      <4> QED
        BY <2>2, <4>2
    <3> QED
      BY <3>1, <3>2
  <2> QED
    BY <1>2, <2>1, <2>2
<1> HIDE DEF one, two
<1>8. Talk(ws', hubEnd', toHub', fromHub')
  BY <1>2, <1>4, <1>5, <1>6, <1>7 DEF Talk
<1> QED
  BY <1>2, <1>3, <1>8

LEMMA SetConsoleActiveStep ==
  ASSUME ConsoleInv, NEW b \in BOOLEAN, SetConsoleActive(b)
  PROVE  ConsoleInv'
<1> DEFINE s == console.server
<1>1. /\ ws \in Clients /\ console \in Consoles /\ s \in ConsoleServers
      /\ console.active # b /\ console.active \in BOOLEAN
      /\ toHub \in Seq(Msgs) /\ UNCHANGED <<hubEnd, fromHub>>
      /\ ws.subs = IF console.active THEN {s} ELSE {}
  BY DEF ConsoleInv, SetConsoleActive, SubscribesToShown, Consoles
<1>2. console' \in Consoles /\ console'.server = s /\ console'.active = b
  BY <1>1 DEF SetConsoleActive, Consoles
<1>3. /\ ws' \in Clients /\ ws'.subs = IF b THEN {s} ELSE {}
      /\ \/ ws'.state = ws.state
         \/ ws'.state = "connecting" /\ ws.state = "disconnected"
  <2>1. ws' = IF b THEN Subscribed(Connected(ws), s) ELSE Unsubscribed(ws, s)
    BY DEF SetConsoleActive
  <2>2. Connected(ws) \in Clients /\ Connected(ws).subs = ws.subs
        /\ (Connected(ws).state = ws.state \/ (Connected(ws).state = "connecting" /\ ws.state = "disconnected"))
    BY <1>1 DEF Connected, SocketIsOpen, Clients, ConnectionStates
  <2>3. CASE b
    <3>1. ws.subs = {} /\ ws' = Subscribed(Connected(ws), s)
      BY <1>1, <2>1, <2>3
    <3> HIDE DEF s
    <3>2. Connected(ws).subs \cup {s} = {s} /\ {s} \in SUBSET ConsoleServers
      BY <1>1, <2>2, <3>1
    <3> QED
      BY <2>2, <2>3, <3>1, <3>2 DEF Subscribed, Clients
  <2>4. CASE ~b
    <3>1. ws.subs = {s} /\ ws' = Unsubscribed(ws, s)
      BY <1>1, <2>1, <2>4
    <3> HIDE DEF s
    <3>2. ws.subs \ {s} = {}
      BY <3>1
    <3> QED
      BY <1>1, <2>4, <3>1, <3>2 DEF Unsubscribed, Clients
  <2> QED
    BY <2>3, <2>4
<1>4. toHub' = toHub \o IfReady(ws, <<Msg("unsubscribe", s)>>)
                     \o IF b THEN IfReady(ws, <<Msg("subscribe", s)>>) ELSE <<>>
  BY DEF SetConsoleActive
<1>5. Msg("unsubscribe", s) \in Msgs /\ Msg("subscribe", s) \in Msgs
  BY <1>1, MsgIs DEF MsgTypes
<1>6. SubscribesToShown'
  BY <1>2, <1>3 DEF SubscribesToShown
<1> HIDE DEF s
<1>7. CASE ws.state = "authenticated"
  <2>1. \/ toHub' = Append(toHub, Msg("unsubscribe", s)) /\ ~b
        \/ toHub' = Append(Append(toHub, Msg("unsubscribe", s)), Msg("subscribe", s)) /\ b
    BY <1>1, <1>4, <1>5, <1>7, SaysIs DEF IfReady, IsReady
  <2>2. toHub' \in Seq(Msgs) /\ Talk(ws', hubEnd', toHub', fromHub')
    <3>1. /\ ws'.subs \in SUBSET ConsoleServers /\ ws'.state = "authenticated"
          /\ \A x \in ConsoleServers \ {s} : x \in ws'.subs <=> x \in ws.subs
      BY <1>1, <1>3, <1>7 DEF Clients
    <3>2. s \in ws'.subs <=> b
      BY <1>3
    <3> QED
      BY <1>1, <1>3, <1>7, <2>1, <3>1, <3>2, SaysStep
  <2> QED
    BY <1>1, <1>2, <1>3, <1>6, <2>2, ConsoleKeeps DEF ConsoleInv
<1>8. CASE ws.state # "authenticated"
  <2>1. UNCHANGED toHub
    BY <1>1, <1>4, <1>5, <1>8, SaysIs DEF IfReady, IsReady
  <2>2. Talk(ws', hubEnd', toHub', fromHub')
    BY <1>1, <1>3, <1>8, <2>1 DEF ConsoleInv, Talk
  <2> QED
    BY <1>1, <1>2, <1>3, <1>6, <2>1, <2>2, ConsoleKeeps DEF ConsoleInv
<1> QED
  BY <1>7, <1>8

LEMMA ConsoleServerChangesStep ==
  ASSUME ConsoleInv, NEW s \in ConsoleServers, ConsoleServerChanges(s)
  PROVE  ConsoleInv'
<1> DEFINE old == console.server
<1>1. /\ ws \in Clients /\ console \in Consoles /\ old \in ConsoleServers /\ old # s
      /\ toHub \in Seq(Msgs) /\ UNCHANGED <<hubEnd, fromHub>>
      /\ ws.subs = IF console.active THEN {old} ELSE {}
  BY DEF ConsoleInv, ConsoleServerChanges, SubscribesToShown, Consoles
<1>2. console' \in Consoles /\ console'.server = s /\ console'.active = console.active
  BY <1>1 DEF ConsoleServerChanges, Consoles
<1>3. /\ ws' \in Clients /\ ws'.subs = IF console.active THEN {s} ELSE {}
      /\ ws'.state = ws.state
  <2> DEFINE left == Unsubscribed(ws, old)
  <2>1. ws' = IF console.active THEN Subscribed(left, s) ELSE left
    BY DEF ConsoleServerChanges
  <2> HIDE DEF old
  <2>2. ws.subs \ {old} = {}
    BY <1>1
  <2>3. left \in Clients /\ left.subs = {} /\ left.state = ws.state
    BY <1>1, <2>2 DEF Unsubscribed, Clients
  <2> HIDE DEF left
  <2>4. left.subs \cup {s} = {s} /\ {s} \in SUBSET ConsoleServers
    BY <2>3
  <2> QED
    BY <2>1, <2>3, <2>4 DEF Subscribed, Clients
<1>4. toHub' = toHub \o IfReady(ws, <<Msg("unsubscribe", old)>>)
                     \o IF console.active THEN IfReady(ws, <<Msg("subscribe", s)>>) ELSE <<>>
  BY DEF ConsoleServerChanges
<1>5. Msg("unsubscribe", old) \in Msgs /\ Msg("subscribe", s) \in Msgs
  BY <1>1, MsgIs DEF MsgTypes
<1>6. SubscribesToShown'
  BY <1>2, <1>3 DEF SubscribesToShown
<1> HIDE DEF old
<1>7. CASE ws.state = "authenticated"
  <2>1. \/ toHub' = Append(toHub, Msg("unsubscribe", old)) /\ ~console.active
        \/ toHub' = Append(Append(toHub, Msg("unsubscribe", old)), Msg("subscribe", s)) /\ console.active
    BY <1>1, <1>4, <1>5, <1>7, SaysIs DEF IfReady, IsReady
  <2>2. toHub' \in Seq(Msgs) /\ Talk(ws', hubEnd', toHub', fromHub')
    <3>1. /\ ws'.subs \in SUBSET ConsoleServers /\ ws'.state = "authenticated"
          /\ \A x \in ConsoleServers \ {old, s} : x \in ws'.subs <=> x \in ws.subs
      BY <1>1, <1>3, <1>7 DEF Clients
    <3>2. CASE ~console.active
      <4>1. \A x \in ConsoleServers \ {old, old} : x \in ws'.subs <=> x \in ws.subs
        BY <1>1, <1>3, <3>2
      <4>2. old \notin ws'.subs /\ toHub' = Append(toHub, Msg("unsubscribe", old))
        BY <1>3, <2>1, <3>2
      <4> QED
        BY <1>1, <1>3, <1>7, <3>1, <4>1, <4>2, SaysStep
    <3>3. CASE console.active
      <4>1. s \in ws'.subs /\ old \notin ws'.subs
        BY <1>1, <1>3, <3>3
      <4> QED
        BY <1>1, <1>3, <1>7, <2>1, <3>1, <3>3, <4>1, SaysStep
    <3> QED
      BY <3>2, <3>3
  <2> QED
    BY <1>1, <1>2, <1>3, <1>6, <2>2, ConsoleKeeps DEF ConsoleInv
<1>8. CASE ws.state # "authenticated"
  <2>1. UNCHANGED toHub
    BY <1>1, <1>4, <1>5, <1>8, SaysIs DEF IfReady, IsReady
  <2>2. Talk(ws', hubEnd', toHub', fromHub')
    BY <1>1, <1>3, <1>8, <2>1 DEF ConsoleInv, Talk
  <2> QED
    BY <1>1, <1>2, <1>3, <1>6, <2>1, <2>2, ConsoleKeeps DEF ConsoleInv
<1> QED
  BY <1>7, <1>8

LEMMA ConsoleSaysStep ==
  ASSUME ConsoleInv, HandleTailChange \/ SendCommand
  PROVE  ConsoleInv'
<1> DEFINE s == console.server
<1>1. /\ ws \in Clients /\ console \in Consoles /\ s \in ConsoleServers
      /\ toHub \in Seq(Msgs) /\ UNCHANGED <<hubEnd, fromHub>>
      /\ ws.subs = IF console.active THEN {s} ELSE {}
  BY DEF ConsoleInv, HandleTailChange, SendCommand, SubscribesToShown, Consoles
<1>2. Msg("unsubscribe", s) \in Msgs /\ Msg("subscribe", s) \in Msgs
      /\ Msg("command", s) \in Msgs /\ Msg("command", s).type = "command"
  BY <1>1, MsgIs DEF MsgTypes
<1>3. CASE HandleTailChange /\ ws.state = "authenticated"
  <2>1. /\ ws' = Subscribed(ws, s) /\ UNCHANGED console /\ console.active
        /\ toHub' = toHub \o <<Msg("unsubscribe", s), Msg("subscribe", s)>>
    BY <1>3 DEF HandleTailChange, IsReady
  <2> HIDE DEF s
  <2>2. ws.subs \cup {s} = ws.subs /\ s \in ws.subs
    BY <1>1, <2>1
  <2>3. ws' \in Clients /\ ws'.subs = ws.subs /\ ws'.state = "authenticated" /\ ws.subs \in SUBSET ConsoleServers
    BY <1>1, <1>3, <2>1, <2>2 DEF Subscribed, Clients
  <2>4. toHub' = Append(Append(toHub, Msg("unsubscribe", s)), Msg("subscribe", s))
    BY <1>1, <1>2, <2>1, SaysIs
  <2>5. toHub' \in Seq(Msgs) /\ Talk(ws', hubEnd', toHub', fromHub')
    BY <1>1, <1>3, <2>2, <2>3, <2>4, SaysStep
  <2> QED
    BY <1>1, <2>1, <2>3, <2>5, ConsoleKeeps DEF ConsoleInv, SubscribesToShown
<1>4. CASE HandleTailChange /\ ws.state # "authenticated"
  <2>1. console' = [console EXCEPT !.fetching = @ \cup {s}] /\ UNCHANGED <<ws, toHub>>
    BY <1>4 DEF HandleTailChange, IsReady
  <2>2. console.fetching \cup {s} \in SUBSET ConsoleServers
    BY <1>1 DEF Consoles
  <2>3. console' \in Consoles /\ console'.server = console.server /\ console'.active = console.active
    BY <1>1, <2>1, <2>2 DEF Consoles
  <2> QED
    BY <1>1, <2>1, <2>3, QuietStep
<1>5. CASE SendCommand /\ ws.state = "authenticated"
  <2>1. /\ console' = [console EXCEPT !.loading = TRUE] /\ UNCHANGED ws
        /\ toHub' = Append(toHub, Msg("command", s)) /\ Len(toHub) = 0
    BY <1>1, <1>5 DEF SendCommand, IsReady
  <2>2. console' \in Consoles /\ console'.server = console.server /\ console'.active = console.active
    BY <1>1, <2>1 DEF Consoles
  <2> DEFINE c == Msg("command", s)
  <2>3. c \in Msgs /\ c.type = "command" /\ toHub' = Append(toHub, c)
    BY <1>2, <2>1
  <2> HIDE DEF c
  <2>4. toHub' \in Seq(Msgs) /\ Len(toHub') = 1 /\ toHub'[1] = c
    BY <1>1, <2>1, <2>3
  <2>5. /\ \A i \in 1 .. Len(toHub) : toHub[i].type \in {"subscribe", "unsubscribe", "command"}
        /\ \A i \in 1 .. Len(fromHub) : fromHub[i].type # "authOk"
        /\ \A x \in ConsoleServers : Agrees(toHub, ws.subs, hubEnd, x)
    BY <1>5 DEF ConsoleInv, Talk
  <2>6. ASSUME NEW x \in ConsoleServers PROVE Agrees(toHub', ws.subs, hubEnd, x)
    BY <1>1, <2>3, <2>5, SaidOther DEF Speaks
  <2>7. Talk(ws', hubEnd', toHub', fromHub')
    <3>1. \A i \in 1 .. Len(toHub') : i = 1
      BY <2>4
    <3>2. \A i \in 1 .. Len(toHub') : toHub'[i].type \in {"subscribe", "unsubscribe", "command"}
      BY <2>3, <2>4, <3>1
    <3> QED
      BY <1>1, <1>5, <2>1, <2>5, <2>6, <3>2 DEF Talk
  <2>8. SubscribesToShown'
    BY <2>1, <2>2 DEF ConsoleInv, SubscribesToShown
  <2> QED
    BY <1>1, <2>1, <2>2, <2>4, <2>7, <2>8, ConsoleKeeps DEF ConsoleInv
<1>6. CASE SendCommand /\ ws.state # "authenticated"
  <2>1. console' = [console EXCEPT !.loading = TRUE, !.calling = TRUE] /\ UNCHANGED <<ws, toHub>>
    BY <1>6 DEF SendCommand, IsReady
  <2>2. console' \in Consoles /\ console'.server = console.server /\ console'.active = console.active
    BY <1>1, <2>1 DEF Consoles
  <2> QED
    BY <1>1, <2>1, <2>2, QuietStep
<1> QED
  BY <1>3, <1>4, <1>5, <1>6

LEMMA ConsoleStep == ConsoleInv /\ [ConsoleNext]_consoleVars => ConsoleInv'
<1> SUFFICES ASSUME ConsoleInv, [ConsoleNext]_consoleVars PROVE ConsoleInv'
  OBVIOUS
<1>1. CASE SocketOpens \/ SocketCloses \/ ReconnectTimer \/ FlushLogBuffer \/ HandleMessage \/ HubReads
  BY <1>1, SocketOpensStep, SocketClosesStep, ConsoleTimersStep, HandleMessageStep, HubReadsStep
<1>2. ASSUME NEW s \in ConsoleServers, HubSendsLine(s) \/ ContainerAppears(s) \/ LogsFetched(s)
                                \/ ConsoleServerChanges(s)
      PROVE  ConsoleInv'
  BY <1>2, HubSendsLineStep, ContainerAppearsStep, ConsoleButtonsStep, ConsoleServerChangesStep
<1>3. ASSUME NEW b \in BOOLEAN, SetConsoleActive(b) PROVE ConsoleInv'
  BY <1>3, SetConsoleActiveStep
<1>4. CASE HandleTailChange \/ FetchLogs \/ ClearConsole \/ SendCommand \/ CommandAnswered
  BY <1>4, ConsoleSaysStep, ConsoleButtonsStep
<1>5. CASE UNCHANGED consoleVars
  BY <1>5 DEF consoleVars, ConsoleInv, SubscribesToShown
<1> QED
  BY <1>1, <1>2, <1>3, <1>4, <1>5 DEF ConsoleNext
-----------------------------------------------------------------------------
(* The tasks of a server.                                                   *)

\* What the predecessor of each member belongs to has no member above 0: induction, for sets.
LEMMA NoLeastMember ==
  ASSUME NEW T, T \subseteq Nat, \A n \in T : n # 0 /\ n - 1 \in T
  PROVE  T = {}
<1> SUFFICES ASSUME NEW x \in T PROVE FALSE
  OBVIOUS
<1> DEFINE B == {y \in T : y <= x}
           C == B \ {x}
           Before == [y \in B |-> y - 1]
<1>0. T \subseteq Int /\ x \in Nat /\ \A y \in T : y >= 0 /\ y - 1 \in T
  OBVIOUS
<1>1. IsFiniteSet(B)
  <2>1. x \in Int /\ 0 \in Int
    BY <1>0
  <2>2. IsFiniteSet(0 .. x)
    BY <2>1, FS_Interval
  <2>3. \A y \in B : y \in 0 .. x
    BY <1>0
  <2> QED
    BY <2>2, <2>3, FS_Subset
<1>2. x \in B
  OBVIOUS
<1>3. Before \in [B -> C] /\ \A y, z \in B : Before[y] = Before[z] => y = z
  <2>1. ASSUME NEW y \in B PROVE y - 1 \in C
    <3>1. y \in Int /\ y <= x /\ x \in Int /\ y - 1 \in T
      BY <1>0
    <3>2. y - 1 <= x /\ y - 1 # x
      BY <3>1
    <3> QED
      BY <3>1, <3>2
  <2>2. ASSUME NEW y \in B, NEW z \in B, y - 1 = z - 1 PROVE y = z
    <3>1. y \in Int /\ z \in Int
      BY <1>0
    <3> QED
      BY <2>2, <3>1
  <2> HIDE DEF B, C
  <2> QED
    BY <2>1, <2>2
<1> HIDE DEF B, Before
<1>4. IsFiniteSet(C) /\ Cardinality(C) = Cardinality(B) - 1
  BY <1>1, <1>2, FS_RemoveElement
<1>5. Cardinality(B) \in Nat
  BY <1>1, FS_CardinalityType
<1>6. Cardinality(C) < Cardinality(B)
  BY <1>4, <1>5
<1> HIDE DEF C
<1>7. \E y, z \in B : y # z /\ Before[y] = Before[z]
  BY <1>1, <1>3, <1>4, <1>6, FS_PigeonHole
<1> QED
  BY <1>3, <1>7

\* A text is a sequence of words, and a list of arguments has one word in each.
Text(t) == \E n \in Nat : t = [i \in 1 .. n |-> t[i]]
WordList(a) == \E n \in Nat : a = [i \in 1 .. n |-> <<a[i][1]>>]

LEMMA SplitIs ==
  ASSUME NEW t, Text(t)
  PROVE  WordList(SplitArgs(t))
<1>1. PICK n \in Nat : t = [i \in 1 .. n |-> t[i]]
  BY DEF Text
<1>2. DOMAIN t = 1 .. n
  BY <1>1
<1>3. SplitArgs(t) = [i \in 1 .. n |-> <<t[i]>>]
  BY <1>2 DEF SplitArgs
<1> DEFINE s == SplitArgs(t)
<1>4. \A i \in 1 .. n : s[i][1] = t[i]
  BY <1>3
<1>5. s = [i \in 1 .. n |-> <<s[i][1]>>]
  BY <1>3, <1>4
<1> QED
  BY <1>5 DEF WordList

\* Words that are joined and split again are the same words.
LEMMA JoinIs ==
  ASSUME NEW a, WordList(a)
  PROVE  Text(JoinArgs(a)) /\ SplitArgs(JoinArgs(a)) = a
<1>1. PICK N \in Nat : a = [i \in 1 .. N |-> <<a[i][1]>>]
  BY DEF WordList
<1> DEFINE w(i) == a[i][1]
<1>2. \A i \in 1 .. N : a[i] = <<w(i)>>
  BY <1>1
<1>3. DOMAIN a = 1 .. N
  BY <1>1
<1>4. Len(a) = N
  BY <1>1
<1> DEFINE Joined(f) == f = [n \in 0 .. N |-> IF n = 0 THEN <<>> ELSE f[n - 1] \o a[n]]
           text(n) == [i \in 1 .. n |-> w(i)]
           g == [n \in 0 .. N |-> text(n)]
           f == CHOOSE f : Joined(f)
<1>5. JoinArgs(a) = f[N]
  BY <1>4 DEF JoinArgs
<1> HIDE DEF w
<1>6. text(0) = <<>>
  OBVIOUS
<1>7. ASSUME NEW n \in 1 .. N PROVE text(n - 1) \o a[n] = text(n)
  <2>1. a[n] = <<w(n)>>
    BY <1>2
  <2> DEFINE before == text(n - 1)
  <2>2. DOMAIN before = 1 .. n - 1 /\ n - 1 \in Nat /\ \A i \in 1 .. n - 1 : before[i] = w(i)
    OBVIOUS
  <2>3. Len(before) = n - 1
    BY <2>2
  <2> DEFINE all == before \o <<w(n)>>
  <2>4. all = [i \in 1 .. n |-> IF i <= n - 1 THEN before[i] ELSE w(n)]
    BY <2>2, <2>3
  <2>5. all = text(n)
    BY <2>2, <2>4
  <2> QED
    BY <2>1, <2>5
<1>8. Joined(g)
  <2> HIDE DEF text
  <2>1. \A n \in 0 .. N : g[n] = text(n)
    OBVIOUS
  <2>2. ASSUME NEW n \in 0 .. N PROVE text(n) = IF n = 0 THEN <<>> ELSE g[n - 1] \o a[n]
    <3>1. CASE n = 0
      BY <1>6, <3>1
    <3>2. CASE n # 0
      <4>1. n \in 1 .. N /\ n - 1 \in 0 .. N
        BY <3>2
      <4>2. g[n - 1] = text(n - 1)
        BY <2>1, <4>1
      <4> QED
        BY <1>7, <3>2, <4>1, <4>2
    <3> QED
      BY <3>1, <3>2
  <2> QED
    BY <2>2
<1>9. Joined(f)
  <2> HIDE DEF Joined, g
  <2> QED
    BY <1>8, Zenon
<1> HIDE DEF f, text
<1>10. \A n \in 0 .. N : f[n] = IF n = 0 THEN <<>> ELSE f[n - 1] \o a[n]
  BY <1>9
<1> DEFINE T == {n \in 0 .. N : f[n] # text(n)}
<1>11. \A n \in T : n # 0 /\ n - 1 \in T
  <2> SUFFICES ASSUME NEW n \in T PROVE n # 0 /\ n - 1 \in T
    OBVIOUS
  <2>1. n # 0
    BY <1>6, <1>10
  <2>2. n \in 1 .. N /\ n - 1 \in 0 .. N
    BY <2>1
  <2>3. f[n] = f[n - 1] \o a[n]
    BY <1>10, <2>1, <2>2
  <2>4. f[n - 1] # text(n - 1)
    BY <1>7, <2>2, <2>3
  <2> QED
    BY <2>1, <2>2, <2>4
<1>12. T = {}
  <2>1. T \subseteq Nat
    OBVIOUS
  <2> HIDE DEF T
  <2> QED
    BY <1>11, <2>1, NoLeastMember
<1>13. JoinArgs(a) = text(N)
  BY <1>5, <1>12
<1>14. text(N) = [i \in 1 .. N |-> w(i)] /\ DOMAIN text(N) = 1 .. N
  BY DEF text
<1>15. Text(text(N))
  BY <1>14 DEF Text
<1>16. SplitArgs(text(N)) = [i \in 1 .. N |-> <<w(i)>>]
  BY <1>14 DEF SplitArgs
<1>17. SplitArgs(text(N)) = a
  BY <1>1, <1>16 DEF w
<1> QED
  BY <1>13, <1>15, <1>17

\* No argument of a script has a blank in it, and no path of a backup a comma: the dialog
\* joins them by these, and splits there.
NoBlanks == \A c \in StoredTasks : /\ c.type = "script" => WordList(c.args)
                                   /\ c.type = "backup" => WordList(c.paths)

IsTaskForm(f) ==
    /\ f = [selected |-> f.selected, stored |-> f.stored, type |-> f.type, schedule |-> f.schedule,
            command |-> f.command, path |-> f.path, args |-> f.args, paths |-> f.paths, days |-> f.days,
            min |-> f.min, url |-> f.url, secret |-> f.secret, hasSecret |-> f.hasSecret,
            custom |-> f.custom, template |-> f.template, touched |-> f.touched]
    /\ f.selected \in TaskIds \cup {NoTask} /\ f.type \in TaskTypes /\ f.schedule \in Schedules
    /\ f.template \in Payloads \cup {Unset} /\ f.hasSecret \in BOOLEAN /\ f.custom \in BOOLEAN
    /\ f.touched \in BOOLEAN
    /\ NoBlanks => Text(f.args) /\ Text(f.paths)

IsConfig(c) == /\ IsTaskConfig(c)
               /\ NoBlanks => /\ c.type = "script" => WordList(c.args)
                              /\ c.type = "backup" => WordList(c.paths)
IsTaskRow(r) == r = [server |-> r.server, config |-> r.config] /\ r.server \in TaskServers /\ IsConfig(r.config)
RowsOK(rows) == rows = [k \in TaskIds |-> rows[k]] /\ \A k \in TaskIds : rows[k] # NoTask => IsTaskRow(rows[k])

IsTaskTab(t) ==
    /\ t = [server |-> t.server, tasks |-> t.tasks, loading |-> t.loading, creating |-> t.creating,
            showCreate |-> t.showCreate, historyOf |-> t.historyOf, historyLoading |-> t.historyLoading,
            edits |-> t.edits]
    /\ t.server \in TaskServers /\ RowsOK(t.tasks) /\ t.historyOf \in TaskIds \cup {NoTask}
    /\ t.loading \in BOOLEAN /\ t.creating \in BOOLEAN /\ t.showCreate \in BOOLEAN /\ t.historyLoading \in BOOLEAN

\* The fields of the form are those of the configuration, but for the secret.
SameAs(f, c) ==
    /\ f.type = c.type
    /\ c.type = "command" => f.command = c.command
    /\ c.type = "script" => f.path = c.path /\ (NoBlanks => SplitArgs(f.args) = c.args)
    /\ c.type = "backup" => f.days = c.days /\ f.min = c.min /\ (NoBlanks => SplitArgs(f.paths) = c.paths)
    /\ c.type = "webhook" => /\ f.url = c.url /\ f.secret = Unset /\ (f.hasSecret <=> c.secret # Unset)
                             /\ f.template = c.template
                             /\ (f.custom <=> c.template \notin {Unset, DefaultTemplate(c.url)})

\* The form knows of the secret of the copy it edits, and until it is edited it is that copy's.
FormAgrees(f) ==
    f.selected # NoTask => /\ IsConfig(f.stored)
                           /\ f.stored.type = "webhook" /\ f.stored.secret # Unset => f.hasSecret
                           /\ ~f.touched => SameAs(f, f.stored)

\* What is kept of a configuration that was not edited.
Keeps(new, was) ==
    IF was.type # "webhook" THEN new = was
    ELSE /\ new.type = "webhook" /\ new.url = was.url /\ new.secret = was.secret
         /\ was.template # Unset => new.template = was.template

SaveOK(c) ==
    /\ c.task \in TaskIds \cup {NoTask} /\ c.server \in TaskServers /\ IsConfig(c.config)
    /\ NoBlanks /\ c.task # NoTask /\ ~c.touched => Keeps(c.config, c.was)
    /\ c.task # NoTask /\ c.was.type = "webhook" /\ c.config.type = "webhook" /\ c.was.secret # Unset
         => c.config.secret # Unset

TaskCallsOK(calls, creating) ==
    /\ \A c \in calls : c.op \in {"list", "save", "history"} /\ (c.op = "save" => SaveOK(c) /\ creating)
    /\ \A c, d \in calls : c.op = "save" /\ d.op = "save" => c = d

TaskInv ==
    /\ IsTaskTab(taskTab) /\ IsTaskForm(taskForm) /\ RowsOK(taskRows)
    /\ FormAgrees(taskForm) /\ TaskCallsOK(taskCalls, taskTab.creating)

LEMMA TaskTypesImply ==
  TaskInv => TaskPageTypeOK /\ OneSave /\ SecretIsKept /\ (NoBlanks => EditKeepsConfig)
<1> SUFFICES ASSUME TaskInv PROVE TaskPageTypeOK /\ OneSave /\ SecretIsKept /\ (NoBlanks => EditKeepsConfig)
  OBVIOUS
<1>1. TaskPageTypeOK
  BY DEF TaskInv, TaskPageTypeOK, IsTaskTab, IsTaskForm, RowsOK, IsTaskRow, TaskCallsOK
<1>2. SecretIsKept /\ (NoBlanks => EditKeepsConfig)
  BY DEF TaskInv, TaskCallsOK, SaveOK, SecretIsKept, EditKeepsConfig, Keeps
<1>3. OneSave
  <2> DEFINE saves == {c \in taskCalls : c.op = "save"}
  <2>1. (\E c \in taskCalls : c.op = "save") => taskTab.creating
    BY DEF TaskInv, TaskCallsOK
  <2>2. saves = {} \/ \E c \in saves : saves = {c}
    BY DEF TaskInv, TaskCallsOK
  <2>3. Cardinality(saves) = 0 \/ Cardinality(saves) = 1
    BY <2>2, FS_EmptySet, FS_Singleton
  <2>4. Cardinality(saves) <= 1
    BY <2>3
  <2> QED
    BY <2>1, <2>4 DEF OneSave
<1> QED
  BY <1>1, <1>2, <1>3

LEMMA BlankTaskFormIs ==
  IsTaskForm(BlankTaskForm) /\ BlankTaskForm.selected = NoTask
<1>1. Text(<<>>)
  BY DEF Text
<1> QED
  BY <1>1 DEF BlankTaskForm, IsTaskForm, TaskTypes, Schedules

LEMMA DefaultIs == \A u : DefaultTemplate(u) \in Payloads
  BY DEF DefaultTemplate, Payloads

LEMMA TaskInitInv == TaskPageInit => TaskInv
<1> SUFFICES ASSUME TaskPageInit PROVE TaskInv
  OBVIOUS
<1>1. IsTaskTab(taskTab)
  <2>1. RowsOK(NothingListed)
    BY DEF RowsOK, NothingListed
  <2> QED
    BY <2>1, StoredAssumption DEF TaskPageInit, IsTaskTab
<1>2. IsTaskForm(taskForm) /\ FormAgrees(taskForm)
  BY BlankTaskFormIs DEF TaskPageInit, FormAgrees
<1>3. RowsOK(taskRows)
  <2>1. taskRows \in [TaskIds -> {NoTask} \cup [server : {HomeServer}, config : StoredTasks]]
    BY DEF TaskPageInit
  <2>2. taskRows = [k \in TaskIds |-> taskRows[k]]
    BY <2>1
  <2>3. ASSUME NEW k \in TaskIds, taskRows[k] # NoTask PROVE IsTaskRow(taskRows[k])
    <3>1. taskRows[k] \in [server : {HomeServer}, config : StoredTasks]
      BY <2>1, <2>3
    <3> DEFINE r == taskRows[k]
    <3>2. r = [server |-> r.server, config |-> r.config] /\ r.server = HomeServer /\ r.config \in StoredTasks
      BY <3>1
    <3>3. IsConfig(r.config)
      BY <3>2, StoredAssumption DEF IsConfig, NoBlanks
    <3> QED
      BY <3>2, <3>3, StoredAssumption DEF IsTaskRow
  <2> QED
    BY <2>2, <2>3 DEF RowsOK
<1>4. TaskCallsOK(taskCalls, taskTab.creating)
  BY DEF TaskPageInit, TaskCallsOK
<1> QED
  BY <1>1, <1>2, <1>3, <1>4 DEF TaskInv

\* The form that a task is taken apart into.
LEMMA FormOfIs ==
  ASSUME NEW k \in TaskIds, IsTaskRow(taskTab.tasks[k])
  PROVE  /\ IsTaskForm(FormOf(k)) /\ FormOf(k).selected = k
         /\ FormOf(k).stored = taskTab.tasks[k].config /\ SameAs(FormOf(k), taskTab.tasks[k].config)
<1> DEFINE c == taskTab.tasks[k].config
           f == [BlankTaskForm EXCEPT !.selected = k, !.stored = c, !.type = c.type, !.schedule = "given",
                                      !.days = 0, !.min = 0]
           Fields(command, path, args, paths, days, min, url, has, custom, template) ==
             [selected |-> k, stored |-> c, type |-> c.type, schedule |-> "given", command |-> command,
              path |-> path, args |-> args, paths |-> paths, days |-> days, min |-> min, url |-> url,
              secret |-> Unset, hasSecret |-> has, custom |-> custom, template |-> template, touched |-> FALSE]
<1>1. IsConfig(c)
  BY DEF IsTaskRow
<1>2. f = Fields(Unset, Unset, <<>>, <<>>, 0, 0, Unset, FALSE, FALSE, Unset)
  <2> HIDE DEF c
  <2>1. PICK x : x = BlankTaskForm
    OBVIOUS
  <2>2. PICK g : g = [x EXCEPT !.selected = k, !.stored = c, !.type = c.type, !.schedule = "given",
                               !.days = 0, !.min = 0]
    OBVIOUS
  <2>3. g = Fields(Unset, Unset, <<>>, <<>>, 0, 0, Unset, FALSE, FALSE, Unset)
    BY <2>1, <2>2 DEF BlankTaskForm
  <2>4. g = f
    BY <2>1, <2>2
  <2> QED
    BY <2>3, <2>4
<1>3. FormOf(k) = CASE c.type = "command" -> [f EXCEPT !.command = c.command]
                    [] c.type = "script"  -> [f EXCEPT !.path = c.path, !.args = JoinArgs(c.args)]
                    [] c.type = "backup"  -> [f EXCEPT !.paths = JoinArgs(c.paths), !.days = c.days, !.min = c.min]
                    [] c.type = "webhook" -> [f EXCEPT !.url = c.url, !.hasSecret = c.secret # Unset,
                                                       !.template = c.template,
                                                       !.custom = c.template \notin {Unset, DefaultTemplate(c.url)}]
                    [] OTHER -> f
  BY DEF FormOf
<1>4. Text(<<>>)
  BY DEF Text
<1> HIDE DEF c, f
<1>5. CASE c.type = "command"
  <2>1. FormOf(k) = Fields(c.command, Unset, <<>>, <<>>, 0, 0, Unset, FALSE, FALSE, Unset)
    BY <1>2, <1>3, <1>5
  <2> QED
    BY <1>4, <1>5, <2>1 DEF IsTaskForm, SameAs, TaskTypes, Schedules, c
<1>6. CASE c.type = "script"
  <2>1. FormOf(k) = Fields(Unset, c.path, JoinArgs(c.args), <<>>, 0, 0, Unset, FALSE, FALSE, Unset)
    BY <1>2, <1>3, <1>6
  <2>2. NoBlanks => Text(JoinArgs(c.args)) /\ SplitArgs(JoinArgs(c.args)) = c.args
    BY <1>1, <1>6, JoinIs DEF IsConfig
  <2> QED
    BY <1>4, <1>6, <2>1, <2>2 DEF IsTaskForm, SameAs, TaskTypes, Schedules, c
<1>7. CASE c.type = "backup"
  <2>1. FormOf(k) = Fields(Unset, Unset, <<>>, JoinArgs(c.paths), c.days, c.min, Unset, FALSE, FALSE, Unset)
    BY <1>2, <1>3, <1>7
  <2>2. NoBlanks => Text(JoinArgs(c.paths)) /\ SplitArgs(JoinArgs(c.paths)) = c.paths
    BY <1>1, <1>7, JoinIs DEF IsConfig
  <2> QED
    BY <1>4, <1>7, <2>1, <2>2 DEF IsTaskForm, SameAs, TaskTypes, Schedules, c
<1>8. CASE c.type = "webhook"
  <2> DEFINE has == c.secret # Unset
             custom == c.template \notin {Unset, DefaultTemplate(c.url)}
  <2>0. has \in BOOLEAN /\ custom \in BOOLEAN
    OBVIOUS
  <2>1. FormOf(k) = Fields(Unset, Unset, <<>>, <<>>, 0, 0, c.url, has, custom, c.template)
    BY <1>2, <1>3, <1>8
  <2>2. c.template \in Payloads \cup {Unset}
    BY <1>1, <1>8 DEF IsConfig, IsTaskConfig, CommandConfig, ScriptConfig, BackupConfig, EmptyConfig
  <2>3. (has <=> c.secret # Unset) /\ (custom <=> c.template \notin {Unset, DefaultTemplate(c.url)})
    OBVIOUS
  <2> HIDE DEF has, custom
  <2> QED
    BY <1>4, <1>8, <2>0, <2>1, <2>2, <2>3 DEF IsTaskForm, SameAs, TaskTypes, Schedules, c
<1>9. CASE c.type \notin {"command", "script", "backup", "webhook"}
  <2>1. c.type = "restart"
    BY <1>1, <1>9 DEF IsConfig, IsTaskConfig, EmptyConfig
  <2>2. FormOf(k) = f
    BY <1>3, <2>1
  <2> QED
    BY <1>2, <1>4, <2>1, <2>2 DEF IsTaskForm, SameAs, TaskTypes, Schedules, c
<1> QED
  BY <1>5, <1>6, <1>7, <1>8, <1>9

LEMMA TaskKeeps ==
  ASSUME IsTaskTab(taskTab'), IsTaskForm(taskForm'), RowsOK(taskRows'), FormAgrees(taskForm'),
         TaskCallsOK(taskCalls', taskTab'.creating)
  PROVE  TaskInv'
  BY DEF TaskInv

\* A call that is no save changes nothing in what is known of the saves.
LEMMA CallsKeep ==
  ASSUME TaskInv, NEW calls, NEW was,
         calls \subseteq taskCalls \cup {was}, was.op \in {"list", "history"}
  PROVE  TaskCallsOK(calls, taskTab.creating)
  BY DEF TaskInv, TaskCallsOK

LEMMA EditTaskStep ==
  ASSUME TaskInv, NEW f, IsTaskForm(f), f.selected = taskForm.selected,
         f.hasSecret = taskForm.hasSecret /\ f.stored = taskForm.stored, EditTask(f)
  PROVE  TaskInv'
<1>1. /\ taskForm' = [f EXCEPT !.touched = TRUE] /\ UNCHANGED <<taskRows, taskCalls>>
      /\ taskTab' = [taskTab EXCEPT !.edits = @ + 1]
  BY DEF EditTask
<1>2. IsTaskTab(taskTab') /\ taskTab'.creating = taskTab.creating
  BY <1>1 DEF TaskInv, IsTaskTab
<1>3. PICK g : g = taskForm'
  OBVIOUS
<1>4. g = [f EXCEPT !.touched = TRUE]
  BY <1>1, <1>3
<1>5. IsTaskForm(g) /\ g.selected = f.selected /\ g.hasSecret = f.hasSecret /\ g.stored = f.stored /\ g.touched
  BY <1>4 DEF IsTaskForm
<1>6. FormAgrees(g)
  BY <1>5 DEF TaskInv, FormAgrees
<1> QED
  BY <1>1, <1>2, <1>3, <1>5, <1>6, TaskKeeps DEF TaskInv

LEMMA TaskFieldsStep ==
  ASSUME TaskInv, EditGeneral \/ EditPayload \/ EditSecret
  PROVE  TaskInv'
<1>1. IsTaskForm(taskForm)
  BY DEF TaskInv
<1>2. ASSUME NEW t \in TaskTypes, EditTask([taskForm EXCEPT !.type = t]) PROVE TaskInv'
  <2>1. PICK f : f = [taskForm EXCEPT !.type = t]
    OBVIOUS
  <2>2. IsTaskForm(f) /\ f.selected = taskForm.selected /\ f.hasSecret = taskForm.hasSecret /\ f.stored = taskForm.stored
    BY <1>1, <2>1 DEF IsTaskForm
  <2> QED
    BY <1>2, <2>1, <2>2, EditTaskStep
<1>3. ASSUME NEW x, EditTask([taskForm EXCEPT !.command = x]) PROVE TaskInv'
  <2>1. PICK f : f = [taskForm EXCEPT !.command = x]
    OBVIOUS
  <2>2. IsTaskForm(f) /\ f.selected = taskForm.selected /\ f.hasSecret = taskForm.hasSecret /\ f.stored = taskForm.stored
    BY <1>1, <2>1 DEF IsTaskForm
  <2> QED
    BY <1>3, <2>1, <2>2, EditTaskStep
<1>4. ASSUME NEW x, Text(x), EditTask([taskForm EXCEPT !.args = x]) PROVE TaskInv'
  <2>1. PICK f : f = [taskForm EXCEPT !.args = x]
    OBVIOUS
  <2>2. IsTaskForm(f) /\ f.selected = taskForm.selected /\ f.hasSecret = taskForm.hasSecret /\ f.stored = taskForm.stored
    BY <1>1, <1>4, <2>1 DEF IsTaskForm
  <2> QED
    BY <1>4, <2>1, <2>2, EditTaskStep
<1>14. ASSUME NEW x, EditTask([taskForm EXCEPT !.path = x]) PROVE TaskInv'
  <2>1. PICK f : f = [taskForm EXCEPT !.path = x]
    OBVIOUS
  <2>2. IsTaskForm(f) /\ f.selected = taskForm.selected /\ f.hasSecret = taskForm.hasSecret /\ f.stored = taskForm.stored
    BY <1>1, <2>1 DEF IsTaskForm
  <2> QED
    BY <1>14, <2>1, <2>2, EditTaskStep
<1>15. ASSUME NEW x, Text(x), EditTask([taskForm EXCEPT !.paths = x]) PROVE TaskInv'
  <2>1. PICK f : f = [taskForm EXCEPT !.paths = x]
    OBVIOUS
  <2>2. IsTaskForm(f) /\ f.selected = taskForm.selected /\ f.hasSecret = taskForm.hasSecret /\ f.stored = taskForm.stored
    BY <1>1, <1>15, <2>1 DEF IsTaskForm
  <2> QED
    BY <1>15, <2>1, <2>2, EditTaskStep
<1>5. ASSUME NEW x, EditTask([taskForm EXCEPT !.days = x]) PROVE TaskInv'
  <2>1. PICK f : f = [taskForm EXCEPT !.days = x]
    OBVIOUS
  <2>2. IsTaskForm(f) /\ f.selected = taskForm.selected /\ f.hasSecret = taskForm.hasSecret /\ f.stored = taskForm.stored
    BY <1>1, <2>1 DEF IsTaskForm
  <2> QED
    BY <1>5, <2>1, <2>2, EditTaskStep
<1>6. ASSUME NEW x, EditTask([taskForm EXCEPT !.min = x]) PROVE TaskInv'
  <2>1. PICK f : f = [taskForm EXCEPT !.min = x]
    OBVIOUS
  <2>2. IsTaskForm(f) /\ f.selected = taskForm.selected /\ f.hasSecret = taskForm.hasSecret /\ f.stored = taskForm.stored
    BY <1>1, <2>1 DEF IsTaskForm
  <2> QED
    BY <1>6, <2>1, <2>2, EditTaskStep
<1>7. ASSUME NEW x, EditTask([taskForm EXCEPT !.url = x]) PROVE TaskInv'
  <2>1. PICK f : f = [taskForm EXCEPT !.url = x]
    OBVIOUS
  <2>2. IsTaskForm(f) /\ f.selected = taskForm.selected /\ f.hasSecret = taskForm.hasSecret /\ f.stored = taskForm.stored
    BY <1>1, <2>1 DEF IsTaskForm
  <2> QED
    BY <1>7, <2>1, <2>2, EditTaskStep
<1>8. ASSUME NEW x, EditTask([taskForm EXCEPT !.secret = x]) PROVE TaskInv'
  <2>1. PICK f : f = [taskForm EXCEPT !.secret = x]
    OBVIOUS
  <2>2. IsTaskForm(f) /\ f.selected = taskForm.selected /\ f.hasSecret = taskForm.hasSecret /\ f.stored = taskForm.stored
    BY <1>1, <2>1 DEF IsTaskForm
  <2> QED
    BY <1>8, <2>1, <2>2, EditTaskStep
<1>9. ASSUME NEW x \in Payloads \cup {Unset}, EditTask([taskForm EXCEPT !.template = x]) PROVE TaskInv'
  <2>1. PICK f : f = [taskForm EXCEPT !.template = x]
    OBVIOUS
  <2>2. IsTaskForm(f) /\ f.selected = taskForm.selected /\ f.hasSecret = taskForm.hasSecret /\ f.stored = taskForm.stored
    BY <1>1, <2>1 DEF IsTaskForm
  <2> QED
    BY <1>9, <2>1, <2>2, EditTaskStep
<1>10. Text(<<"w", "x">>) /\ Text(<<"w">>)
  <2>1. <<"w", "x">> = [i \in 1 .. 2 |-> <<"w", "x">>[i]] /\ <<"w">> = [i \in 1 .. 1 |-> <<"w">>[i]]
    OBVIOUS
  <2> QED
    BY <2>1 DEF Text
<1>11. CASE EditGeneral
  BY <1>2, <1>3, <1>4, <1>5, <1>6, <1>7, <1>10, <1>11, <1>14, <1>15 DEF EditGeneral
<1>12. CASE EditSecret
  BY <1>8, <1>12 DEF EditSecret
<1>13. CASE EditPayload
  <2>1. ASSUME EditTask([taskForm EXCEPT !.custom = ~@,
                           !.template = IF ~taskForm.custom /\ @ = Unset THEN DefaultTemplate(taskForm.url) ELSE @])
        PROVE  TaskInv'
    <3> DEFINE b == ~taskForm.custom
               x == IF ~taskForm.custom /\ taskForm.template = Unset THEN DefaultTemplate(taskForm.url)
                    ELSE taskForm.template
    <3>1. b \in BOOLEAN /\ x \in Payloads \cup {Unset}
      BY <1>1, DefaultIs DEF IsTaskForm
    <3>2. EditTask([taskForm EXCEPT !.custom = b, !.template = x])
      BY <2>1
    <3> HIDE DEF b, x
    <3>3. PICK f : f = [taskForm EXCEPT !.custom = b, !.template = x]
      OBVIOUS
    <3>4. IsTaskForm(f) /\ f.selected = taskForm.selected /\ f.hasSecret = taskForm.hasSecret /\ f.stored = taskForm.stored
      BY <1>1, <3>1, <3>3 DEF IsTaskForm
    <3> QED
      BY <3>2, <3>3, <3>4, EditTaskStep
  <2> QED
    BY <1>9, <1>13, <2>1 DEF EditPayload
<1> QED
  BY <1>11, <1>12, <1>13

LEMMA EditScheduleStep == TaskInv /\ EditSchedule => TaskInv'
<1> SUFFICES ASSUME TaskInv, EditSchedule PROVE TaskInv'
  OBVIOUS
<1>1. PICK to \in Schedules : taskForm' = [taskForm EXCEPT !.schedule = to] /\ UNCHANGED <<taskRows, taskTab, taskCalls>>
  BY DEF EditSchedule
<1>2. PICK g : g = taskForm'
  OBVIOUS
<1>3. g = [taskForm EXCEPT !.schedule = to] /\ IsTaskForm(taskForm)
  BY <1>1, <1>2 DEF TaskInv
<1>4. IsTaskForm(g) /\ g.selected = taskForm.selected /\ g.hasSecret = taskForm.hasSecret /\ g.touched = taskForm.touched /\ g.stored = taskForm.stored
      /\ g.path = taskForm.path /\ g.paths = taskForm.paths
      /\ g.type = taskForm.type /\ g.command = taskForm.command /\ g.args = taskForm.args /\ g.days = taskForm.days
      /\ g.min = taskForm.min /\ g.url = taskForm.url /\ g.secret = taskForm.secret
      /\ g.custom = taskForm.custom /\ g.template = taskForm.template
  BY <1>3 DEF IsTaskForm
<1>5. FormAgrees(g)
  BY <1>4 DEF TaskInv, FormAgrees, SameAs
<1> QED
  BY <1>1, <1>2, <1>4, <1>5, TaskKeeps DEF TaskInv

LEMMA TaskListStep ==
  ASSUME TaskInv, NEW s, UNCHANGED <<taskRows, taskForm>>, IsTaskTab(taskTab'),
         taskTab'.creating = taskTab.creating, taskCalls' = taskCalls \cup {TaskListCall(s)}
  PROVE  TaskInv'
<1>1. TaskListCall(s).op = "list"
  BY DEF TaskListCall
<1>2. TaskCallsOK(taskCalls', taskTab.creating)
  BY <1>1, CallsKeep
<1> QED
  BY <1>2, TaskKeeps DEF TaskInv

LEMMA LoadTasksStep == TaskInv /\ LoadTasks => TaskInv'
<1> SUFFICES ASSUME TaskInv, LoadTasks PROVE TaskInv'
  OBVIOUS
<1>1. taskTab' = [taskTab EXCEPT !.loading = TRUE] /\ UNCHANGED <<taskRows, taskForm>>
  BY DEF LoadTasks
<1>2. IsTaskTab(taskTab') /\ taskTab'.creating = taskTab.creating
  BY <1>1 DEF TaskInv, IsTaskTab
<1>3. taskCalls' = taskCalls \cup {TaskListCall(taskTab.server)}
  BY DEF LoadTasks, Call
<1> QED
  BY <1>1, <1>2, <1>3, TaskListStep

LEMMA TaskServerChangesStep ==
  ASSUME TaskInv, NEW s \in TaskServers, TaskServerChanges(s)
  PROVE  TaskInv'
<1>1. taskTab' = [taskTab EXCEPT !.server = s, !.tasks = NothingListed, !.loading = TRUE] /\ UNCHANGED <<taskRows, taskForm>>
  BY DEF TaskServerChanges
<1>4. RowsOK(NothingListed)
  BY DEF RowsOK, NothingListed
<1>2. IsTaskTab(taskTab') /\ taskTab'.creating = taskTab.creating
  BY <1>1, <1>4 DEF TaskInv, IsTaskTab
<1>3. taskCalls' = taskCalls \cup {TaskListCall(s)}
  BY DEF TaskServerChanges, Call
<1> QED
  BY <1>1, <1>2, <1>3, TaskListStep

LEMMA TaskDialogsStep ==
  ASSUME TaskInv, OpenCreateDialog \/ CloseTaskDialog \/ \E k \in TaskIds : OpenEditDialog(k)
  PROVE  TaskInv'
<1>1. IsTaskTab(taskTab) /\ UNCHANGED <<taskRows, taskCalls>>
  BY DEF TaskInv, OpenCreateDialog, CloseTaskDialog, OpenEditDialog
<1>2. IsTaskTab(taskTab') /\ taskTab'.creating = taskTab.creating
  BY <1>1 DEF OpenCreateDialog, CloseTaskDialog, OpenEditDialog, IsTaskTab
<1>3. IsTaskForm(taskForm') /\ FormAgrees(taskForm')
  <2>1. CASE taskForm' = BlankTaskForm
    BY <2>1, BlankTaskFormIs DEF FormAgrees
  <2>2. ASSUME NEW k \in TaskIds, taskTab.tasks[k] # NoTask, taskForm' = FormOf(k)
        PROVE  IsTaskForm(taskForm') /\ FormAgrees(taskForm')
    <3>1. IsTaskRow(taskTab.tasks[k])
      BY <1>1, <2>2 DEF IsTaskTab, RowsOK
    <3> DEFINE f == FormOf(k)
    <3>2. IsTaskForm(f) /\ f.selected = k /\ f.stored = taskTab.tasks[k].config /\ SameAs(f, f.stored)
      BY <3>1, FormOfIs
    <3>3. IsConfig(f.stored)
      BY <3>1, <3>2 DEF IsTaskRow
    <3> HIDE DEF f
    <3>4. FormAgrees(f)
      BY <3>2, <3>3 DEF FormAgrees, SameAs
    <3> QED
      BY <2>2, <3>2, <3>4 DEF f
  <2> QED
    BY <2>1, <2>2 DEF OpenCreateDialog, CloseTaskDialog, OpenEditDialog
<1> QED
  BY <1>1, <1>2, <1>3, TaskKeeps DEF TaskInv

\* What the form makes a configuration of: a configuration, and the one it was made of but for
\* the headers and an empty template of a webhook.
LEMMA BuiltIs ==
  ASSUME TaskInv
  PROVE  /\ IsConfig(BuildTaskConfig)
         /\ taskForm.selected # NoTask
            => /\ NoBlanks /\ ~taskForm.touched => Keeps(BuildTaskConfig, taskForm.stored)
               /\ /\ taskForm.stored.type = "webhook" /\ BuildTaskConfig.type = "webhook"
                  /\ taskForm.stored.secret # Unset
                  => BuildTaskConfig.secret # Unset
<1> DEFINE built == BuildTaskConfig
           stored == taskForm.stored
           Own == taskForm.selected # NoTask
<1>1. IsTaskForm(taskForm) /\ taskForm.type \in TaskTypes
  BY DEF TaskInv, IsTaskForm
<1>2. ASSUME Own PROVE /\ IsConfig(stored)
                       /\ stored.type = "webhook" /\ stored.secret # Unset => taskForm.hasSecret
                       /\ ~taskForm.touched => SameAs(taskForm, stored)
  BY <1>2 DEF TaskInv, FormAgrees
<1>3. /\ taskForm.type = "command" => built = CommandConfig(taskForm.command)
      /\ taskForm.type = "script" => built = ScriptConfig(taskForm.path, SplitArgs(taskForm.args))
      /\ taskForm.type = "backup" => built = BackupConfig(SplitArgs(taskForm.paths), taskForm.days, taskForm.min)
      /\ taskForm.type = "webhook" => built = BuildWebhookConfig
      /\ taskForm.type = "restart" => built = EmptyConfig
  BY DEF BuildTaskConfig
<1> HIDE DEF built
<1>4. CASE taskForm.type = "command"
  <2>1. built = [type |-> "command", command |-> taskForm.command]
    BY <1>3, <1>4 DEF CommandConfig
  <2>2. IsConfig(built) /\ built.type # "webhook"
    BY <2>1 DEF IsConfig, IsTaskConfig, CommandConfig
  <2>3. ASSUME Own, ~taskForm.touched PROVE Keeps(built, stored)
    <3>1. IsTaskConfig(stored) /\ stored.type = "command" /\ stored.command = taskForm.command
      BY <1>2, <1>4, <2>3 DEF SameAs, IsConfig
    <3>2. stored = CommandConfig(stored.command)
      BY <3>1 DEF IsTaskConfig, EmptyConfig
    <3> QED
      BY <2>1, <3>1, <3>2 DEF CommandConfig, Keeps
  <2> QED
    BY <2>2, <2>3 DEF built
<1>5. CASE taskForm.type = "script"
  <2>1. built = [type |-> "script", path |-> taskForm.path, args |-> SplitArgs(taskForm.args)]
    BY <1>3, <1>5 DEF ScriptConfig
  <2>2. NoBlanks => WordList(SplitArgs(taskForm.args))
    BY <1>1, SplitIs DEF IsTaskForm
  <2>3. IsConfig(built) /\ built.type # "webhook"
    BY <2>1, <2>2 DEF IsConfig, IsTaskConfig, ScriptConfig
  <2>4. ASSUME Own, ~taskForm.touched, NoBlanks PROVE Keeps(built, stored)
    <3>1. IsTaskConfig(stored) /\ stored.type = "script" /\ stored.args = SplitArgs(taskForm.args)
          /\ stored.path = taskForm.path
      BY <1>2, <1>5, <2>4 DEF SameAs, IsConfig
    <3>2. stored = ScriptConfig(stored.path, stored.args)
      BY <3>1 DEF IsTaskConfig, EmptyConfig
    <3> QED
      BY <2>1, <3>1, <3>2 DEF ScriptConfig, Keeps
  <2> QED
    BY <2>3, <2>4 DEF built
<1>6. CASE taskForm.type = "backup"
  <2>1. built = [type |-> "backup", paths |-> SplitArgs(taskForm.paths), days |-> taskForm.days, min |-> taskForm.min]
    BY <1>3, <1>6 DEF BackupConfig
  <2>2. NoBlanks => WordList(SplitArgs(taskForm.paths))
    BY <1>1, SplitIs DEF IsTaskForm
  <2>3. IsConfig(built) /\ built.type # "webhook"
    BY <2>1, <2>2 DEF IsConfig, IsTaskConfig, BackupConfig
  <2>4. ASSUME Own, ~taskForm.touched, NoBlanks PROVE Keeps(built, stored)
    <3>1. IsTaskConfig(stored) /\ stored.type = "backup" /\ stored.days = taskForm.days /\ stored.min = taskForm.min
          /\ stored.paths = SplitArgs(taskForm.paths)
      BY <1>2, <1>6, <2>4 DEF SameAs, IsConfig
    <3>2. stored = BackupConfig(stored.paths, stored.days, stored.min)
      BY <3>1 DEF IsTaskConfig, EmptyConfig
    <3> QED
      BY <2>1, <3>1, <3>2 DEF BackupConfig, Keeps
  <2> QED
    BY <2>3, <2>4 DEF built
<1>7. CASE taskForm.type = "webhook"
  <2> DEFINE secret == IF taskForm.secret # Unset THEN taskForm.secret
                       ELSE IF taskForm.selected # NoTask /\ taskForm.hasSecret THEN stored.secret ELSE Unset
             template == IF taskForm.custom THEN taskForm.template ELSE DefaultTemplate(taskForm.url)
  <2>1. built = [type |-> "webhook", url |-> taskForm.url, secret |-> secret, template |-> template,
                 headers |-> Unset]
    BY <1>3, <1>7 DEF BuildWebhookConfig, WebhookConfig, TypedTemplate
  <2>2. template \in Payloads \cup {Unset}
    BY <1>1, DefaultIs DEF IsTaskForm
  <2>3. ASSUME Own, stored.type = "webhook", stored.secret # Unset PROVE secret # Unset
    BY <1>2, <2>3
  <2>4. ASSUME Own, ~taskForm.touched PROVE Keeps(built, stored)
    <3>1. /\ stored.type = "webhook" /\ stored.url = taskForm.url
          /\ taskForm.secret = Unset /\ (taskForm.hasSecret <=> stored.secret # Unset)
          /\ taskForm.template = stored.template
          /\ (taskForm.custom <=> stored.template \notin {Unset, DefaultTemplate(stored.url)})
      BY <1>2, <1>7, <2>4 DEF SameAs
    <3>3. secret = stored.secret
      BY <2>4, <3>1
    <3>4. stored.template # Unset => template = stored.template
      BY <3>1
    <3> HIDE DEF secret, template
    <3> QED
      BY <2>1, <3>1, <3>3, <3>4 DEF Keeps
  <2> HIDE DEF secret, template
  <2>5. IsConfig(built) /\ built.secret = secret
    BY <2>1, <2>2 DEF IsConfig, IsTaskConfig, WebhookConfig
  <2> QED
    BY <2>3, <2>4, <2>5 DEF built
<1>8. CASE taskForm.type = "restart"
  <2>1. built = EmptyConfig
    BY <1>3, <1>8
  <2>2. IsConfig(built) /\ built.type # "webhook"
    BY <2>1 DEF IsConfig, IsTaskConfig, EmptyConfig
  <2>3. ASSUME Own, ~taskForm.touched PROVE Keeps(built, stored)
    <3>1. IsTaskConfig(stored) /\ stored.type = "restart"
      BY <1>2, <1>8, <2>3 DEF SameAs, IsConfig
    <3> QED
      BY <2>1, <3>1 DEF IsTaskConfig, Keeps
  <2> QED
    BY <2>2, <2>3 DEF built
<1> QED
  BY <1>1, <1>4, <1>5, <1>6, <1>7, <1>8 DEF TaskTypes

LEMMA SaveTaskStep == TaskInv /\ SaveTask => TaskInv'
<1> SUFFICES ASSUME TaskInv, SaveTask PROVE TaskInv'
  OBVIOUS
<1> DEFINE built == BuildTaskConfig
           stored == taskForm.stored
           touched == taskForm.touched
           save == [op |-> "save", task |-> taskForm.selected, server |-> taskTab.server,
                    config |-> built, was |-> stored, touched |-> touched]
<1>1. /\ ~taskTab.creating /\ UNCHANGED <<taskRows, taskForm>>
      /\ taskTab' = [taskTab EXCEPT !.creating = TRUE]
      /\ taskCalls' = taskCalls \cup {save}
  BY DEF SaveTask, Call
<1>2. IsTaskTab(taskTab) /\ taskTab.server \in TaskServers /\ taskForm.selected \in TaskIds \cup {NoTask}
  BY DEF TaskInv, IsTaskTab, IsTaskForm
<1>3. IsTaskTab(taskTab') /\ taskTab'.creating
  BY <1>1, <1>2 DEF IsTaskTab
<1>5. /\ IsConfig(built)
      /\ taskForm.selected # NoTask
           => /\ NoBlanks /\ ~touched => Keeps(built, stored)
              /\ stored.type = "webhook" /\ built.type = "webhook" /\ stored.secret # Unset
                   => built.secret # Unset
  BY BuiltIs
<1> HIDE DEF built, touched, stored
<1>7. /\ save.op = "save" /\ save.task = taskForm.selected /\ save.server = taskTab.server
      /\ save.config = built /\ save.was = stored /\ save.touched = touched
  OBVIOUS
<1> HIDE DEF save
<1>8. SaveOK(save)
  BY <1>2, <1>5, <1>7 DEF SaveOK
<1>9. \A c \in taskCalls : c.op # "save" /\ c.op \in {"list", "save", "history"}
  BY <1>1 DEF TaskInv, TaskCallsOK
<1>10. TaskCallsOK(taskCalls', taskTab'.creating)
  BY <1>1, <1>3, <1>7, <1>8, <1>9 DEF TaskCallsOK
<1> QED
  BY <1>1, <1>3, <1>10, TaskKeeps DEF TaskInv

LEMMA SaveAcceptedStep ==
  ASSUME TaskInv, NEW c \in taskCalls, SaveAccepted(c)
  PROVE  TaskInv'
<1>1. /\ c.op = "save" /\ taskForm' = BlankTaskForm
      /\ taskTab' = [taskTab EXCEPT !.creating = FALSE, !.showCreate = FALSE, !.loading = TRUE]
      /\ taskCalls' = (taskCalls \ {c}) \cup {TaskListCall(taskTab.server)}
  BY DEF SaveAccepted
<1>2. SaveOK(c) /\ IsTaskTab(taskTab) /\ RowsOK(taskRows)
  BY <1>1 DEF TaskInv, TaskCallsOK
<1>3. IsTaskTab(taskTab')
  BY <1>1, <1>2 DEF IsTaskTab
<1>4. IsTaskForm(taskForm') /\ FormAgrees(taskForm')
  BY <1>1, BlankTaskFormIs DEF FormAgrees
<1>5. TaskCallsOK(taskCalls', taskTab'.creating)
  <2>1. TaskListCall(taskTab.server).op = "list"
    BY DEF TaskListCall
  <2>2. \A d \in taskCalls : (d.op = "save" => d = c) /\ d.op \in {"list", "save", "history"}
    BY <1>1 DEF TaskInv, TaskCallsOK
  <2> QED
    BY <1>1, <2>1, <2>2 DEF TaskCallsOK
<1>6. RowsOK(taskRows')
  <2>1. CASE c.task = NoTask
    <3> DEFINE row == [server |-> c.server, config |-> c.config]
    <3>1. PICK k \in TaskIds : taskRows' = [taskRows EXCEPT ![k] = row]
      BY <2>1 DEF SaveAccepted
    <3>2. IsTaskRow(row)
      BY <1>2 DEF IsTaskRow, SaveOK
    <3> HIDE DEF row
    <3> QED
      BY <1>2, <3>1, <3>2 DEF RowsOK
  <2>2. CASE c.task # NoTask
    <3> DEFINE row == [taskRows[c.task] EXCEPT !.config = c.config]
    <3>1. c.task \in TaskIds /\ taskRows[c.task] # NoTask /\ taskRows' = [taskRows EXCEPT ![c.task] = row]
      BY <1>2, <2>2 DEF SaveAccepted, SaveOK
    <3>2. IsTaskRow(taskRows[c.task])
      BY <1>2, <3>1 DEF RowsOK
    <3>3. PICK old : old = taskRows[c.task]
      OBVIOUS
    <3>4. PICK new : new = row
      OBVIOUS
    <3>5. new = [old EXCEPT !.config = c.config]
      BY <3>3, <3>4
    <3>6. IsTaskRow(new)
      BY <1>2, <3>2, <3>3, <3>5 DEF IsTaskRow, SaveOK
    <3> HIDE DEF row
    <3> QED
      BY <1>2, <3>1, <3>4, <3>6 DEF RowsOK
  <2> QED
    BY <2>1, <2>2
<1> QED
  BY <1>3, <1>4, <1>5, <1>6, TaskKeeps

LEMMA TaskAnswersStep ==
  ASSUME TaskInv, NEW c \in taskCalls, TasksArrive(c) \/ SaveRefused(c) \/ HistoryArrives(c)
  PROVE  TaskInv'
<1>1. IsTaskTab(taskTab) /\ taskCalls' = taskCalls \ {c} /\ UNCHANGED <<taskRows, taskForm>>
  BY DEF TaskInv, TasksArrive, SaveRefused, HistoryArrives
<1>2. CASE TasksArrive(c)
  <2> DEFINE shown == [k \in TaskIds |-> IF taskRows[k] # NoTask /\ taskRows[k].server = c.server
                                        THEN taskRows[k] ELSE NoTask]
  <2>1. RowsOK(shown)
    BY DEF TaskInv, RowsOK
  <2>2. \/ taskTab' = [taskTab EXCEPT !.loading = FALSE, !.tasks = shown]
        \/ taskTab' = [taskTab EXCEPT !.loading = FALSE]
    BY <1>2, Zenon DEF TasksArrive
  <2> HIDE DEF shown
  <2>3. IsTaskTab(taskTab') /\ taskTab'.creating = taskTab.creating
    BY <1>1, <2>1, <2>2 DEF IsTaskTab
  <2>4. TaskCallsOK(taskCalls', taskTab'.creating)
    BY <1>1, <2>3 DEF TaskInv, TaskCallsOK
  <2> QED
    BY <1>1, <2>3, <2>4, TaskKeeps DEF TaskInv
<1>3. CASE SaveRefused(c)
  <2>1. c.op = "save" /\ taskTab' = [taskTab EXCEPT !.creating = FALSE]
    BY <1>3 DEF SaveRefused
  <2>2. IsTaskTab(taskTab')
    BY <1>1, <2>1 DEF IsTaskTab
  <2>3. \A d \in taskCalls : (d.op = "save" => d = c) /\ d.op \in {"list", "save", "history"}
    BY <2>1 DEF TaskInv, TaskCallsOK
  <2>4. TaskCallsOK(taskCalls', taskTab'.creating)
    BY <1>1, <2>3 DEF TaskCallsOK
  <2> QED
    BY <1>1, <2>2, <2>4, TaskKeeps DEF TaskInv
<1>4. CASE HistoryArrives(c)
  <2>1. taskTab' = [taskTab EXCEPT !.historyLoading = FALSE]
    BY <1>4 DEF HistoryArrives
  <2>2. IsTaskTab(taskTab') /\ taskTab'.creating = taskTab.creating
    BY <1>1, <2>1 DEF IsTaskTab
  <2>3. TaskCallsOK(taskCalls', taskTab'.creating)
    BY <1>1, <2>2 DEF TaskInv, TaskCallsOK
  <2> QED
    BY <1>1, <2>2, <2>3, TaskKeeps DEF TaskInv
<1> QED
  BY <1>2, <1>3, <1>4

LEMMA TaskCardsStep ==
  ASSUME TaskInv, CloseHistory \/ \E k \in TaskIds : ViewHistory(k) \/ ChangeAnswered(k)
  PROVE  TaskInv'
<1>1. IsTaskTab(taskTab) /\ RowsOK(taskRows)
  BY DEF TaskInv
<1>2. CASE CloseHistory
  <2>1. taskTab' = [taskTab EXCEPT !.historyOf = NoTask] /\ UNCHANGED <<taskRows, taskForm, taskCalls>>
    BY <1>2 DEF CloseHistory
  <2>2. IsTaskTab(taskTab') /\ taskTab'.creating = taskTab.creating
    BY <1>1, <2>1 DEF IsTaskTab
  <2> QED
    BY <2>1, <2>2, TaskKeeps DEF TaskInv
<1>3. ASSUME NEW k \in TaskIds, ViewHistory(k) PROVE TaskInv'
  <2> DEFINE history == [op |-> "history", task |-> k]
  <2>1. taskTab' = [taskTab EXCEPT !.historyOf = k, !.historyLoading = TRUE] /\ UNCHANGED <<taskRows, taskForm>>
        /\ taskCalls' = taskCalls \cup {history}
    BY <1>3, Zenon DEF ViewHistory, Call
  <2>2. IsTaskTab(taskTab') /\ taskTab'.creating = taskTab.creating
    BY <1>1, <2>1 DEF IsTaskTab
  <2>3. history.op = "history"
    OBVIOUS
  <2> HIDE DEF history
  <2>4. TaskCallsOK(taskCalls', taskTab.creating)
    BY <2>1, <2>3, CallsKeep
  <2> QED
    BY <2>1, <2>2, <2>4, TaskKeeps DEF TaskInv
<1>4. ASSUME NEW k \in TaskIds, ChangeAnswered(k) PROVE TaskInv'
  <2>1. /\ taskTab' = [taskTab EXCEPT !.loading = TRUE] /\ UNCHANGED taskForm
        /\ taskCalls' = taskCalls \cup {TaskListCall(taskTab.server)}
        /\ UNCHANGED taskRows \/ taskRows' = [taskRows EXCEPT ![k] = NoTask]
    BY <1>4 DEF ChangeAnswered, Call
  <2>2. IsTaskTab(taskTab') /\ taskTab'.creating = taskTab.creating
    BY <1>1, <2>1 DEF IsTaskTab
  <2>3. TaskListCall(taskTab.server).op = "list"
    BY DEF TaskListCall
  <2>4. TaskCallsOK(taskCalls', taskTab.creating)
    BY <2>1, <2>3, CallsKeep
  <2>5. RowsOK(taskRows')
    BY <1>1, <2>1 DEF RowsOK
  <2> QED
    BY <2>1, <2>2, <2>4, <2>5, TaskKeeps DEF TaskInv
<1> QED
  BY <1>2, <1>3, <1>4

LEMMA TaskStep == TaskInv /\ [TaskPageNext]_tpVars => TaskInv'
<1> SUFFICES ASSUME TaskInv, [TaskPageNext]_tpVars PROVE TaskInv'
  OBVIOUS
<1>1. CASE LoadTasks \/ \E s \in TaskServers : TaskServerChanges(s)
  BY <1>1, LoadTasksStep, TaskServerChangesStep
<1>2. CASE OpenCreateDialog \/ CloseTaskDialog \/ \E k \in TaskIds : OpenEditDialog(k)
  BY <1>2, TaskDialogsStep
<1>3. CASE EditGeneral \/ EditPayload \/ EditSchedule \/ EditSecret
  BY <1>3, TaskFieldsStep, EditScheduleStep
<1>4. CASE SaveTask
  BY <1>4, SaveTaskStep
<1>5. CASE CloseHistory \/ \E k \in TaskIds : ViewHistory(k) \/ ChangeAnswered(k)
  BY <1>5, TaskCardsStep
<1>6. CASE TaskAnswer
  BY <1>6, TaskAnswersStep, SaveAcceptedStep DEF TaskAnswer
<1>7. CASE UNCHANGED tpVars
  BY <1>7, TaskKeeps DEF tpVars, TaskInv
<1> QED
  BY <1>1, <1>2, <1>3, <1>4, <1>5, <1>6, <1>7 DEF TaskPageNext


-----------------------------------------------------------------------------
(* The pages together.                                                      *)

Inv ==
    /\ FileInv /\ EditorInv /\ TaskInv /\ PageInv
    /\ ConsoleInv /\ PanelInv /\ FormInv /\ TabInv

LEMMA InitInv == TabsInit => Inv
  BY FileInitInv, EditorInitInv, TaskInitInv, PageInitInv, ConsoleInitInv, PanelInitInv,
     FormInitInv, TabInitInv DEF TabsInit, Inv

\* The page that is shown takes its step, and the others stand still.
LEMMA InvStep == Inv /\ [TabsNext]_tabsVars => Inv'
<1> SUFFICES ASSUME Inv, [TabsNext]_tabsVars PROVE Inv'
  OBVIOUS
<1>1. /\ [FileBrowserNext]_fbVars /\ [FileEditorNext]_edVars /\ [TaskPageNext]_tpVars
      /\ [ServerPageNext]_serverPageVars /\ [ConsoleNext]_consoleVars
      /\ [ModulePanelNext]_panelVars /\ [ModuleFormsNext]_formVars
      /\ [ServerFormsNext]_tabFormVars
  <2>1. CASE UNCHANGED tabsVars
    BY <2>1 DEF tabsVars
  <2>2. CASE TabsNext
    BY <2>2, Zenon DEF TabsNext, OthersRest, Rest
  <2> QED
    BY <2>1, <2>2
<1> QED
  BY <1>1, FileStep, EditorStep, TaskStep, PageStep, ConsoleStep, PanelStep, FormStep, TabStep
     DEF Inv

LEMMA Invariance == TabsSpec => []Inv
  BY InitInv, InvStep, PTL DEF TabsSpec

\* The state of the pages around a server and of their calls keeps its form, whatever
\* is answered, refused or lost, and in any order (the components of a server's page).
THEOREM TabsTypeCorrect == TabsSpec => []TabsTypeOK
<1>1. Inv => TabsTypeOK
  BY FileTypesImply, EditorTypesImply, TaskTypesImply, PageTypesImply, ConsoleTypesImply,
     PanelTypesImply, FormTypesImply, TabTypesImply DEF Inv, TabsTypeOK
<1> QED
  BY <1>1, Invariance, PTL

\* A selection of files was made on the server of the file tab, unless a menu was open when
\* it changed; the server page shows the server it asked for last, the console subscribes to
\* the log of the server it shows, and the dashboard counts every server once
\* (server-files.svelte, servers/[id]/+page.svelte, server-console.svelte, routes/+page.svelte).
THEOREM PagesShowTheirOwn == TabsSpec => []ShowsItsOwn
<1>1. Inv => ShowsItsOwn
  BY FileTypesImply, PageTypesImply, ConsoleTypesImply DEF Inv, ShowsItsOwn
<1> QED
  BY <1>1, Invariance, PTL

\* An extraction that is shown is followed by a poll, a task or a configuration is saved
\* once at a time, no poll of the modules' tab or of its dialogs survives them, and once all is
\* read the hub follows no log but the one of the page, which it follows, has refused or found
\* without a container, however the server and the tab were changed before and after the
\* login (server-files.svelte, server-tasks.svelte, modules, websocket.svelte.ts, hub.go).
THEOREM NothingIsLeftRunning == TabsSpec => []NothingLeftRunning
<1>1. Inv => NothingLeftRunning
  BY FileTypesImply, TaskTypesImply, TabTypesImply, PanelTypesImply, ConsoleTypesImply
     DEF Inv, NothingLeftRunning
<1> QED
  BY <1>1, Invariance, PTL

\* A task that was opened and saved as it came is sent as the list has it, but for the headers
\* and an empty template of a webhook; an edited webhook keeps the secret the list has; settings
\* are sent to the server they were made of, a directory is not dropped into itself and a
\* module with a port nobody reaches is not created unasked.  NoBlanks: a stored argument that
\* is empty or has a blank in it, and a path with a comma, do not survive the text field
\* (server-tasks.svelte, server-settings.svelte, server-files.svelte, module forms).
THEOREM FormsAreHonest ==
  ASSUME NoBlanks
  PROVE  TabsSpec => []FormsSendWhatTheyShow
<1>1. Inv => FormsSendWhatTheyShow
  BY FileTypesImply, TaskTypesImply, TabTypesImply, FormTypesImply DEF Inv, FormsSendWhatTheyShow
<1> QED
  BY <1>1, Invariance, PTL
=============================================================================
