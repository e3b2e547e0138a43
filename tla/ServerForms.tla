---------------------------- MODULE ServerForms ----------------------------
(***************************************************************************)
(* Four tabs of the page of a server: its settings, its configuration,     *)
(* its routing and its mods.  All are mounted as long as the page is, and  *)
(* start afresh when another server is chosen in the sidebar, each in a    *)
(* way of its own; the answers to what they asked before still arrive.     *)
(*                                                                         *)
(* The tabs do not act on one another: a behaviour is that of one of them. *)
(* A text stands for the server it is about.                               *)
(***************************************************************************)
EXTENDS Naturals, FiniteSets

CONSTANTS FormServers, FirstForm, NoForm,
          ConfigFields,
          MaxTabCalls      \* bound: calls on their way when another is made

ASSUME TabAssumption == FirstForm \in FormServers /\ MaxTabCalls \in Nat

VARIABLES openTab, formAt,     \* the tab, and the server the page shows
          settings, config, routing, mods, tabCalls

tabFormVars == <<openTab, formAt, settings, config, routing, mods, tabCalls>>

MaybeForm == FormServers \cup {NoForm}
TabForms == {"settings", "config", "routing", "mods"}

\* `newer': the row the page shows is not the one the form was made of.
SettingsOf(s) == [id |-> s, of |-> s, edited |-> FALSE, newer |-> FALSE, saving |-> FALSE]

\* `of': the server whose categories are shown.
FirstConfig == [of |-> NoForm, modified |-> {}, loading |-> TRUE, saving |-> FALSE]

\* host: the server whose host name is in the field, `typed' if the user changed it.
BlankRouting == [of |-> NoForm, host |-> NoForm, typed |-> FALSE, loading |-> TRUE, saving |-> FALSE]

\* follows: the effect that loads the mods will run when the server changes.
FirstMods == [of |-> NoForm, loading |-> TRUE, uploading |-> FALSE, loaded |-> TRUE, follows |-> TRUE]

ServerFormsTypeOK ==
    /\ openTab \in TabForms /\ {formAt, settings.id, settings.of} \subseteq FormServers
    /\ {config.of, routing.of, routing.host, mods.of} \subseteq MaybeForm
    /\ config.modified \subseteq ConfigFields /\ (config.modified # {} => config.of # NoForm)
    /\ (routing.typed => routing.of # NoForm)
    /\ Cardinality(tabCalls) <= MaxTabCalls + 2

\* `at' is the server a call names, `of' the one whose text or file it carries; `nr' tells two
\* loads of a tab apart.
TabCall(op, at, of, nr) == [op |-> op, at |-> at, of |-> of, nr |-> nr]
Loads(op, at) == {TabCall(op, at, at, 1)}
TabEnds(c) == tabCalls' = tabCalls \ {c}
TabIdle == Cardinality(tabCalls) < MaxTabCalls

ServerFormsInit ==
    /\ openTab \in TabForms /\ formAt = FirstForm
    /\ settings = SettingsOf(FirstForm) /\ config = FirstConfig
    /\ routing = BlankRouting /\ mods = FirstMods
    /\ tabCalls = IF openTab = "settings" THEN {} ELSE Loads(openTab, FirstForm)

(***************************************************************************)
(* Another server is chosen.  The routing asks twice, as two effects run;  *)
(* the configuration keeps what it shows until an answer comes.            *)
(***************************************************************************)
SettingsReset(s) == SettingsOf(s)

SwitchForms(s) ==
    /\ s # formAt /\ TabIdle /\ formAt' = s
    /\ LET nr == {TabCall("routing", s, s, n) : n \in 1 .. 2}
       IN  CASE openTab = "settings" ->
                  settings' = SettingsReset(s) /\ UNCHANGED <<config, routing, mods, tabCalls>>
             [] openTab = "config" ->
                  /\ config' = [config EXCEPT !.loading = TRUE]
                  /\ tabCalls' = tabCalls \cup Loads("config", s)
                  /\ UNCHANGED <<settings, routing, mods>>
             [] openTab = "routing" ->
                  routing' = BlankRouting /\ tabCalls' = tabCalls \cup nr /\ UNCHANGED <<settings, config, mods>>
             [] openTab = "mods" ->
                  /\ mods' = [FirstMods EXCEPT !.loaded = mods.follows, !.follows = mods.follows]
                  /\ tabCalls' = tabCalls \cup IF mods.follows THEN Loads("mods", s) ELSE {}
                  /\ UNCHANGED <<settings, config, routing>>
    /\ UNCHANGED openTab

\* Every five seconds the page shows the server anew: the settings compare themselves with it; the
\* effect of the mods, if it follows the server, finds them loaded and does not look at it again.
ServerPolled ==
    /\ \/ openTab = "settings" /\ settings' = [settings EXCEPT !.newer = TRUE] /\ UNCHANGED mods
       \/ openTab = "mods" /\ mods' = [mods EXCEPT !.follows = FALSE] /\ UNCHANGED settings
    /\ UNCHANGED <<openTab, formAt, config, routing, tabCalls>>

\* Leaving the tab of the mods and coming back runs the effect.
ModsReopened ==
    /\ openTab = "mods" /\ ~mods.loaded /\ TabIdle
    /\ mods' = [mods EXCEPT !.loading = TRUE, !.loaded = TRUE, !.follows = TRUE]
    /\ tabCalls' = tabCalls \cup Loads("mods", formAt)
    /\ UNCHANGED <<openTab, formAt, settings, config, routing>>

(***************************************************************************)
(* Settings                                                                *)
(***************************************************************************)
EditSettings ==
    /\ openTab = "settings" /\ ~settings.edited
    /\ settings' = [settings EXCEPT !.edited = TRUE]
    /\ UNCHANGED <<openTab, formAt, config, routing, mods, tabCalls>>

\* Dirty is what differs from the server that is shown, whoever changed it.
SettingsDiffer == settings.edited \/ settings.newer

SaveSettings ==
    /\ openTab = "settings" /\ SettingsDiffer /\ ~settings.saving /\ TabIdle
    /\ settings' = [settings EXCEPT !.saving = TRUE]
    /\ tabCalls' = tabCalls \cup {TabCall("settings", settings.id, settings.of, IF settings.edited THEN 1 ELSE 2)}
    /\ UNCHANGED <<openTab, formAt, config, routing, mods>>

\* After a success the page reads the server, and shows what was saved.
SettingsSaved(c) ==
    /\ c.op = "settings"
    /\ settings' \in {[settings EXCEPT !.saving = FALSE],
                      [settings EXCEPT !.saving = FALSE, !.edited = @ /\ c.at # settings.id,
                                       !.newer = @ /\ c.at # settings.id]}
    /\ TabEnds(c) /\ UNCHANGED <<openTab, formAt, config, routing, mods>>

(***************************************************************************)
(* Configuration                                                           *)
(***************************************************************************)
\* processConfig: what is shown is replaced, with what was changed in it.
ProcessConfig(of) == [config EXCEPT !.of = of, !.modified = {}]

ConfigLoaded(c) ==
    /\ c.op = "config"
    /\ config' \in {[f EXCEPT !.loading = FALSE] : f \in {config, ProcessConfig(c.at)}}
    /\ TabEnds(c) /\ UNCHANGED <<openTab, formAt, settings, routing, mods>>

\* A field that is changed, set or unset, or changed back; while the server runs nothing can be.
ChangeField(f) ==
    /\ openTab = "config" /\ ~config.loading /\ config.of # NoForm
    /\ config' = [config EXCEPT !.modified = (@ \ {f}) \cup ({f} \ @)]
    /\ UNCHANGED <<openTab, formAt, settings, routing, mods, tabCalls>>

ResetConfig ==
    /\ openTab = "config" /\ ~config.loading /\ config.modified # {}
    /\ config' = [config EXCEPT !.modified = {}]
    /\ UNCHANGED <<openTab, formAt, settings, routing, mods, tabCalls>>

SaveConfig ==
    /\ openTab = "config" /\ ~config.loading /\ ~config.saving /\ config.modified # {} /\ TabIdle
    /\ config' = [config EXCEPT !.saving = TRUE]
    /\ tabCalls' = tabCalls \cup {TabCall("saveConfig", formAt, config.of, 1)}
    /\ UNCHANGED <<openTab, formAt, settings, routing, mods>>

\* The answer is shown whichever server the page shows by now.
ConfigSaved(c) ==
    /\ c.op = "saveConfig"
    /\ config' \in {[f EXCEPT !.saving = FALSE] : f \in {config, ProcessConfig(c.at)}}
    /\ TabEnds(c) /\ UNCHANGED <<openTab, formAt, settings, routing, mods>>

(***************************************************************************)
(* Routing                                                                 *)
(***************************************************************************)
\* The field is overwritten, whatever is in it.
RoutingLoaded(c) ==
    /\ c.op = "routing"
    /\ LET after == IF c.nr = 3 THEN [routing EXCEPT !.loading = FALSE, !.saving = FALSE]
                    ELSE [routing EXCEPT !.loading = FALSE]
       IN  routing' \in {after, [after EXCEPT !.of = c.at, !.host = c.at, !.typed = FALSE]}
    /\ TabEnds(c) /\ UNCHANGED <<openTab, formAt, settings, config, mods>>

\* Or it is cancelled.
TypeHost ==
    /\ openTab = "routing" /\ ~routing.loading /\ routing.of # NoForm
    /\ routing' = [routing EXCEPT !.typed = ~@, !.host = IF routing.typed THEN routing.of ELSE formAt]
    /\ UNCHANGED <<openTab, formAt, settings, config, mods, tabCalls>>

SaveRouting ==
    /\ openTab = "routing" /\ ~routing.loading /\ routing.typed /\ ~routing.saving /\ TabIdle
    /\ routing' = [routing EXCEPT !.saving = TRUE]
    /\ tabCalls' = tabCalls \cup {TabCall("saveRouting", formAt, routing.host, 1)}
    /\ UNCHANGED <<openTab, formAt, settings, config, mods>>

\* Then it is read again, for the server that is shown by now (3).
RoutingSaved(c) ==
    /\ c.op = "saveRouting"
    /\ \/ /\ routing' = [routing EXCEPT !.typed = FALSE, !.loading = TRUE]
          /\ tabCalls' = (tabCalls \ {c}) \cup {TabCall("routing", formAt, formAt, 3)}
       \/ routing' = [routing EXCEPT !.saving = FALSE] /\ TabEnds(c)
    /\ UNCHANGED <<openTab, formAt, settings, config, mods>>

(***************************************************************************)
(* Mods                                                                    *)
(***************************************************************************)
ModsLoaded(c) ==
    /\ c.op = "mods"
    /\ LET after == [mods EXCEPT !.loading = FALSE, !.uploading = @ /\ c.nr # 2]
       IN  mods' \in {after, [after EXCEPT !.of = c.at]}
    /\ TabEnds(c) /\ UNCHANGED <<openTab, formAt, settings, config, routing>>

SelectMod ==
    /\ openTab = "mods" /\ ~mods.uploading /\ TabIdle
    /\ mods' = [mods EXCEPT !.uploading = TRUE]
    /\ tabCalls' = tabCalls \cup {TabCall("upload", formAt, formAt, 1)}
    /\ UNCHANGED <<openTab, formAt, settings, config, routing>>

\* An upload, which is FileUpload's, names no server; its import names the one that is shown by now.
ModUploaded(c) ==
    /\ c.op = "upload"
    /\ \/ tabCalls' = (tabCalls \ {c}) \cup {TabCall("import", formAt, c.of, 1)} /\ UNCHANGED mods
       \/ mods' = [mods EXCEPT !.uploading = FALSE] /\ TabEnds(c)
    /\ UNCHANGED <<openTab, formAt, settings, config, routing>>

ModImported(c) ==
    /\ c.op = "import"
    /\ \/ /\ mods' = [mods EXCEPT !.loading = TRUE]
          /\ tabCalls' = (tabCalls \ {c}) \cup {TabCall("mods", formAt, formAt, 2)}
       \/ mods' = [mods EXCEPT !.uploading = FALSE] /\ TabEnds(c)
    /\ UNCHANGED <<openTab, formAt, settings, config, routing>>

\* A mod of the list is switched or deleted, at the server that is shown.
ChangeMod ==
    /\ openTab = "mods" /\ ~mods.loading /\ mods.of # NoForm /\ TabIdle
    /\ tabCalls' = tabCalls \cup {TabCall("mod", formAt, mods.of, 1)}
    /\ UNCHANGED <<openTab, formAt, settings, config, routing, mods>>

ModChanged(c) ==
    /\ c.op = "mod"
    /\ \/ mods' = [mods EXCEPT !.loading = TRUE] /\ tabCalls' = (tabCalls \ {c}) \cup Loads("mods", formAt)
       \/ UNCHANGED mods /\ TabEnds(c)
    /\ UNCHANGED <<openTab, formAt, settings, config, routing>>

TabAnswer(c) ==
    \/ SettingsSaved(c) \/ ConfigLoaded(c) \/ ConfigSaved(c) \/ RoutingLoaded(c) \/ RoutingSaved(c)
    \/ ModsLoaded(c) \/ ModUploaded(c) \/ ModImported(c) \/ ModChanged(c)

ServerFormsNext ==
    \/ \E s \in FormServers : SwitchForms(s)
    \/ \E c \in tabCalls : TabAnswer(c)
    \/ ServerPolled \/ ModsReopened \/ EditSettings \/ SaveSettings
    \/ (\E f \in ConfigFields : ChangeField(f)) \/ ResetConfig \/ SaveConfig
    \/ TypeHost \/ SaveRouting \/ SelectMod \/ ChangeMod

\* Every call ends.
ServerFormsFairness ==
    /\ \A op \in {"settings", "saveConfig", "saveRouting", "upload", "import"} :
         WF_tabFormVars(\E c \in tabCalls : c.op = op /\ TabAnswer(c))
    /\ WF_tabFormVars(\E c \in tabCalls : c.op = "routing" /\ c.nr = 3 /\ TabAnswer(c))
    /\ WF_tabFormVars(\E c \in tabCalls : c.op = "mods" /\ c.nr = 2 /\ TabAnswer(c))

ServerFormsSpec == ServerFormsInit /\ [][ServerFormsNext]_tabFormVars /\ ServerFormsFairness

(***************************************************************************)
(* Properties                                                              *)
(***************************************************************************)
\* Settings are saved for the server they were made of, whichever was chosen while they were edited.
SettingsAreOwn == \A c \in tabCalls : c.op = "settings" => c.at = c.of

\* A configuration is not saved twice at once, however often the server changes under the save.
OneConfigSave == Cardinality({c \in tabCalls : c.op = "saveConfig"}) <= 1

\* A save, or an upload of mods, comes to its end.
FormsSaving == settings.saving \/ config.saving \/ routing.saving \/ mods.uploading

\* The code breaks these: fields, host names and mods go to the server they were shown or picked for;
\* only what the user changed is saved; the mods of the server that is shown are asked for.
ConfigIsOwn == \A c \in tabCalls : c.op = "saveConfig" => c.at = c.of
RoutingIsOwn == ~routing.loading => routing.of \in {formAt, NoForm}
ModsAreOwn == \A c \in tabCalls : c.op \in {"import", "mod"} => c.at = c.of
OnlyEditsAreSaved == \A c \in tabCalls : c.op = "settings" => c.nr = 1
ModsAreAsked == openTab = "mods" => mods.loaded
=============================================================================
