---------------------------- MODULE ModuleForms ----------------------------
(***************************************************************************)
(* The dialogs that make and change a module (ModuleDialog) and a template *)
(* of modules (ModuleTemplateCreateDialog), and the page of the templates. *)
(*                                                                         *)
(* Of a form only what its checks and conversions tell apart is kept: the  *)
(* keys of its variables, whether its volumes have both paths, the host    *)
(* port of each port (0 for none), the modules it depends on, and, for a   *)
(* template, whether it names an image.                                    *)
(***************************************************************************)
EXTENDS Naturals, FiniteSets, Sequences, SequencesExt

CONSTANTS Templates,     \* the templates there are, and
          PortsOf,       \* the host ports of each
          HasVolumes,    \* those with a volume
          FirstFreePort, NoTemplate,
          MaxFormEdits   \* bound: changes the user makes to a form

ASSUME FormAssumption ==
    /\ FirstFreePort \in Nat \ {0} /\ MaxFormEdits \in Nat
    /\ \A t \in Templates : PortsOf[t] \in Seq(Nat)

VARIABLES form,       \* the dialog
          formCalls,
          made        \* the last module that was sent, and what the user had been asked

formVars == <<form, formCalls, made>>

Ports == Seq(Nat)

\* volumes: "none", or one whose paths are both "whole", or one the form cannot read ("foreign").
BlankForm ==
    [name |-> FALSE, image |-> FALSE, ports |-> <<>>, keys |-> {}, links |-> {},
     volumes |-> "none", of |-> NoTemplate]

FormDialogs == {"create", "edit", "template"}

\* kind: the dialog that is open, one at a time; submitting: those that wait for an answer;
\* left: what a late answer has put into the dialog "create" while it was closed.
ClosedDialog ==
    [kind |-> "closed", step |-> "select", picked |-> NoTemplate, data |-> BlankForm,
     warned |-> FALSE, submitting |-> {}, edits |-> 0, failedAlone |-> FALSE, left |-> NoTemplate]

ModuleFormsTypeOK ==
    /\ form.kind \in FormDialogs \cup {"closed"} /\ form.step \in {"select", "configure"}
    /\ {form.picked, form.data.of, form.left} \subseteq Templates \cup {NoTemplate}
    /\ form.data.ports \in Ports
    /\ {form.warned, form.failedAlone, form.data.name, form.data.image} \subseteq BOOLEAN
    /\ form.data.volumes \in {"none", "whole", "foreign"} /\ form.edits \in 0 .. MaxFormEdits
    /\ form.submitting \subseteq FormDialogs
    /\ \A c \in formCalls : c.op \in FormDialogs \cup {"ports", "delete"}
    /\ made.asked \in BOOLEAN

ModuleFormsInit ==
    /\ form = ClosedDialog /\ formCalls = {}
    /\ made = [template |-> NoTemplate, of |-> NoTemplate, portless |-> FALSE, asked |-> FALSE,
               keys |-> {}, links |-> {}]

(***************************************************************************)
(* Conversions                                                             *)
(***************************************************************************)
\* Ports without a host port get the free ones from `next' on.
AssignPorts(ports, next) ==
    [i \in DOMAIN ports |->
        IF ports[i] = 0 THEN next + Cardinality({j \in 1 .. i - 1 : ports[j] = 0}) ELSE ports[i]]

\* Entries without a key are dropped, of those with the same key the last one counts.
EnvVarsToJson(data) == data.keys \ {""}

\* A dependency for which no module has been chosen is dropped as well.
DepsPayload(data) == data.links \ {""}

\* ModuleDialog translates the names of the stored fields, the dialog of the templates does not.
ParseVolumes(stored) == stored
LoadVolumes(stored) == IF stored = "whole" THEN "foreign" ELSE stored

\* trim() is called on both paths, and a foreign volume has none.
VolumesToJsonFails(data) == data.volumes = "foreign"

FormOfTemplate(t, parse(_)) ==
    [name |-> TRUE, image |-> TRUE, ports |-> PortsOf[t], keys |-> {"K"}, links |-> {},
     volumes |-> parse(IF t \in HasVolumes THEN "whole" ELSE "none"), of |-> t]

Filled(t) ==
    LET data == FormOfTemplate(t, ParseVolumes)
    IN  [data EXCEPT !.ports = AssignPorts(@, FirstFreePort)]

(***************************************************************************)
(* Opening and closing                                                     *)
(***************************************************************************)
\* Escape closes the dialog at any moment; what is on its way stays on its way.
FormReset == [ClosedDialog EXCEPT !.submitting = form.submitting, !.left = form.left, !.edits = form.edits]

OpenCreate ==
    /\ form.kind = "closed"
    /\ form' = IF form.left = NoTemplate THEN [form EXCEPT !.kind = "create"]
               ELSE [form EXCEPT !.kind = "create", !.step = "configure", !.left = NoTemplate,
                                 !.data = [Filled(form.left) EXCEPT !.name = FALSE]]
    /\ UNCHANGED <<formCalls, made>>

\* The effect copies the module, and asks for the others.
OpenEdit(t) ==
    /\ form.kind = "closed"
    /\ form' = [form EXCEPT !.kind = "edit", !.data = FormOfTemplate(t, ParseVolumes)]
    /\ UNCHANGED <<formCalls, made>>

OpenTemplate ==
    /\ form.kind = "closed"
    /\ \E data \in {BlankForm} \cup {FormOfTemplate(t, LoadVolumes) : t \in Templates} :
         form' = [form EXCEPT !.kind = "template", !.data = data]
    /\ UNCHANGED <<formCalls, made>>

CloseForm ==
    /\ form.kind # "closed" /\ ~form.warned
    /\ form' = FormReset
    /\ UNCHANGED <<formCalls, made>>

BackToTemplates ==
    /\ form.kind = "create" /\ form.step = "configure" /\ ~form.warned
    /\ form' = [form EXCEPT !.step = "select", !.picked = NoTemplate]
    /\ UNCHANGED <<formCalls, made>>

(***************************************************************************)
(* Choosing a template                                                     *)
(***************************************************************************)
SelectTemplate(t) ==
    /\ form.kind = "create" /\ form.step = "select"
    /\ Cardinality(formCalls) <= 1                    \* bound
    /\ form' = [form EXCEPT !.picked = t, !.data.name = TRUE]
    /\ formCalls' = formCalls \cup {[op |-> "ports", of |-> t]}
    /\ UNCHANGED made

\* The free port and the modules have come, or failed: the form is filled, whatever it is by now,
\* but for the dependencies.
TemplateFills(c) ==
    /\ c.op = "ports"
    /\ form' = IF form.kind = "create"
               THEN [form EXCEPT !.step = "configure",
                                 !.data = [Filled(c.of) EXCEPT !.name = form.data.name, !.links = form.data.links]]
               ELSE [form EXCEPT !.left = c.of]
    /\ formCalls' = formCalls \ {c} /\ UNCHANGED made

DeleteTemplate(t) ==
    /\ form.kind \in {"closed", "create"} /\ form.step = "select" /\ formCalls = {}
    /\ formCalls' = {[op |-> "delete", of |-> t]}
    /\ UNCHANGED <<form, made>>

(***************************************************************************)
(* The sections of the form                                                *)
(***************************************************************************)
FormShown == form.kind \in {"edit", "template"} \/ (form.kind = "create" /\ form.step = "configure")

EditForm(kinds, changed) ==
    /\ form.kind \in kinds /\ FormShown /\ ~form.warned /\ form.edits < MaxFormEdits
    /\ changed # form.data
    /\ form' = [form EXCEPT !.data = changed, !.edits = @ + 1]
    /\ UNCHANGED <<formCalls, made>>

GeneralEdits(kinds) == EditForm(kinds, [form.data EXCEPT !.name = ~@])
PortEdits(kinds) ==
    \/ Len(form.data.ports) < 3 /\ EditForm(kinds, [form.data EXCEPT !.ports = Append(@, 0)])
    \/ \E i \in DOMAIN form.data.ports : \/ EditForm(kinds, [form.data EXCEPT !.ports = RemoveAt(@, i)])
                                         \/ EditForm(kinds, [form.data EXCEPT !.ports[i] = 0])
KeyEdits(kinds) == \E k \in {"", "L"} : EditForm(kinds, [form.data EXCEPT !.keys = @ \cup {k}])
VolumeEdits(kinds) == \E v \in {"none", "whole"} : EditForm(kinds, [form.data EXCEPT !.volumes = v])
LinkEdits(kinds) == \E d \in {"", "M"} : \/ EditForm(kinds, [form.data EXCEPT !.links = @ \cup {d}])
                                        \/ EditForm(kinds, [form.data EXCEPT !.links = @ \ {d}])

GeneralSection == GeneralEdits({"create", "edit"})
PortsSection == PortEdits({"create", "edit"})
EnvironmentSection == KeyEdits({"create", "edit"})
VolumesSection == VolumeEdits({"create", "edit"})
AdvancedSection == LinkEdits({"create", "edit"})

BasicSection == GeneralEdits({"template"})
DockerSection == EditForm({"template"}, [form.data EXCEPT !.image = ~@])
TemplatePortsSection == PortEdits({"template"})
TemplateEnvironmentSection == KeyEdits({"template"})
TemplateVolumesSection == VolumeEdits({"template"})
TemplateAdvancedSection == LinkEdits({"template"})

(***************************************************************************)
(* Submitting                                                              *)
(***************************************************************************)
Warns(data) == \E i \in DOMAIN data.ports : data.ports[i] = 0

\* Without a template there is nothing to create: the dialog closes as if there had been.
SendForm(asked) ==
    IF form.kind = "create" /\ form.picked = NoTemplate
    THEN form' = [FormReset EXCEPT !.failedAlone = FALSE] /\ UNCHANGED <<formCalls, made>>
    ELSE /\ form' = [form EXCEPT !.submitting = @ \cup {form.kind}, !.warned = FALSE]
         /\ formCalls' = formCalls \cup {[op |-> form.kind, of |-> form.data.of]}
         /\ made' = [template |-> form.picked, of |-> form.data.of,
                     portless |-> 0 \in ToSet(form.data.ports), asked |-> asked,
                     keys |-> EnvVarsToJson(form.data), links |-> DepsPayload(form.data)]

HandleSubmit ==
    /\ form.kind \in {"create", "edit"} /\ FormShown
    /\ form.kind \notin form.submitting /\ ~form.warned /\ form.data.name
    /\ IF Warns(form.data)
       THEN form' = [form EXCEPT !.warned = TRUE] /\ UNCHANGED <<formCalls, made>>
       ELSE SendForm(FALSE)

HandleWarningProceed == form.warned /\ SendForm(TRUE)

HandleWarningCancel ==
    form.warned /\ form' = [form EXCEPT !.warned = FALSE] /\ UNCHANGED <<formCalls, made>>

\* The conversion of the volumes fails before anything is sent.
SubmitTemplate ==
    /\ form.kind = "template" /\ form.data.name /\ form.data.image /\ form.kind \notin form.submitting
    /\ IF VolumesToJsonFails(form.data)
       THEN form' = [form EXCEPT !.failedAlone = TRUE] /\ UNCHANGED formCalls
       ELSE /\ form' = [form EXCEPT !.submitting = @ \cup {"template"}]
            /\ formCalls' = formCalls \cup {[op |-> "template", of |-> form.data.of]}
    /\ UNCHANGED made

\* A success closes the dialog, even if it has been opened anew for something else.
Submitted(c) ==
    /\ c.op \in FormDialogs
    /\ \/ form' = [(IF form.kind = c.op THEN FormReset ELSE form) EXCEPT !.submitting = @ \ {c.op}]
       \/ form' = [form EXCEPT !.submitting = @ \ {c.op}]
    /\ formCalls' = formCalls \ {c} /\ UNCHANGED made

\* The list of the templates is loaded again.
TemplateDeleted(c) == c.op = "delete" /\ formCalls' = formCalls \ {c} /\ UNCHANGED <<form, made>>

ModuleFormsNext ==
    \/ OpenCreate \/ OpenTemplate \/ CloseForm \/ BackToTemplates
    \/ GeneralSection \/ PortsSection \/ EnvironmentSection \/ VolumesSection
    \/ AdvancedSection \/ BasicSection \/ DockerSection \/ TemplatePortsSection
    \/ TemplateEnvironmentSection \/ TemplateVolumesSection \/ TemplateAdvancedSection
    \/ HandleSubmit \/ HandleWarningProceed \/ HandleWarningCancel \/ SubmitTemplate
    \/ \E t \in Templates : OpenEdit(t) \/ SelectTemplate(t) \/ DeleteTemplate(t)
    \/ \E c \in formCalls : TemplateFills(c) \/ Submitted(c) \/ TemplateDeleted(c)

\* Every call ends.
ModuleFormsFairness ==
    /\ \A d \in FormDialogs : WF_formVars(\E c \in formCalls : c.op = d /\ Submitted(c))
    /\ WF_formVars(\E c \in formCalls : TemplateFills(c))

ModuleFormsSpec == ModuleFormsInit /\ [][ModuleFormsNext]_formVars /\ ModuleFormsFairness

(***************************************************************************)
(* Properties                                                              *)
(***************************************************************************)
\* A module with a port that nobody reaches is made only after the user has been asked.
NoSilentPort == made.portless => made.asked

\* The code breaks these: a module has the settings of the template it is made of; the ports that
\* are filled in are all different; a template that was read can be saved.
MadeOfItsTemplate == made.template # NoTemplate => made.of = made.template
FilledPortsDiffer == \A t \in Templates : IsInjective(AssignPorts(PortsOf[t], FirstFreePort))
TemplatesCanBeSaved == ~form.failedAlone
=============================================================================
