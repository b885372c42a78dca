------------------------------- MODULE Templates -------------------------------
(***************************************************************************)
(* Versioned templates: form templates with their versions, each for one   *)
(* of two job levels, and the versions of one configuration template that  *)
(* bind them.  A cycle copies a published version and changes none.        *)
(*                                                                         *)
(* The job level belongs to the version: several templates may serve one,  *)
(* and a draft may change it.  A template goes by the id of its first      *)
(* version.                                                                *)
(*                                                                         *)
(* Most operations lock their version and check under the lock, or find    *)
(* everything they looked at before checked again by a trigger; each of    *)
(* those is one action.  Editing a form and numbering its copy read before *)
(* they write, in actions of their own, and overlap with everything.       *)
(***************************************************************************)
EXTENDS Naturals, FiniteSets, Sequences, FiniteSetsExt

CONSTANTS
    Editor,                 \* requests that overlap
    Content, Publishable,   \* what a form may contain; what passes the validation
    Seeded,                 \* what the form of the seed contains
    MaxForms, MaxConfigs    \* bounds: versions of forms and of configurations

ASSUME TemplatesAssumption ==
    /\ Publishable \subseteq Content /\ Seeded \in Publishable
    /\ MaxForms \in Nat \ {0, 1} /\ MaxConfigs \in Nat \ {0}

VARIABLES
    form,       \* form versions, in order of their ids
    config,     \* configuration versions, in order of their ids
    edit        \* what each request has read

templateVars == <<form, config, edit>>

Prefix == {"D", "M"}
VersionStatus == {"DRAFT", "PUBLISHED", "ARCHIVED"}
Forms == DOMAIN form
Configs == DOMAIN config
FormId == 1 .. MaxForms
ConfigId == 1 .. MaxConfigs

FormVersion ==
    [template : FormId, prefix : Prefix, number : FormId, status : VersionStatus,
     content : Content]
ConfigVersion == [number : ConfigId, status : VersionStatus, bound : SUBSET FormId]

NoEdit == [kind |-> "none"]
ContentEdit == [kind : {"edit"}, id : FormId, prefix : Prefix, content : Content]
NumberedCopy == [kind : {"insert"}, id : FormId, number : Nat]
EditState == {NoEdit} \cup ContentEdit \cup NumberedCopy

TemplatesTypeOK ==
    /\ form \in Seq(FormVersion) /\ Len(form) <= MaxForms
    /\ config \in Seq(ConfigVersion) /\ Len(config) <= MaxConfigs
    /\ edit \in [Editor -> EditState]

\* seed-default-form-templates has published a form of each job level;
\* createConfigTemplate has created a configuration without forms.
TemplatesInit ==
    /\ form = <<[template |-> 1, prefix |-> "D", number |-> 1, status |-> "PUBLISHED",
                 content |-> Seeded],
                [template |-> 2, prefix |-> "M", number |-> 1, status |-> "PUBLISHED",
                 content |-> Seeded]>>
    /\ config = <<[number |-> 1, status |-> "DRAFT", bound |-> {}]>>
    /\ edit = [e \in Editor |-> NoEdit]

-----------------------------------------------------------------------------

VersionsOf(template) == {f \in Forms : form[f].template = template}
NumbersOf(template) == {form[f].number : f \in VersionsOf(template)}

\* Mutant: the check before the transaction is the only one.
DraftAsRead(f) == TRUE

\* guard_form_template_version_mutation and the guards of what is below a version:
\* job level and content change in a draft only.
DraftByTrigger(f) == form[f].status = "DRAFT"

\* At most one form of each job level, all of them published.
Bindable(fs) ==
    /\ \A f \in fs : form[f].status = "PUBLISHED"
    /\ \A f, g \in fs : form[f].prefix = form[g].prefix => f = g

BeginEdit(e, what) == edit[e] = NoEdit /\ edit' = [edit EXCEPT ![e] = what]
EndEdit(e) == edit' = [edit EXCEPT ![e] = NoEdit]

-----------------------------------------------------------------------------
(* Form versions.                                                           *)

\* createFormTemplate: the form has still to be filled in.
CreateForm(p) ==
    /\ Len(form) < MaxForms
    /\ \E c \in Content \ Publishable :
        form' = Append(form, [template |-> Len(form) + 1, prefix |-> p, number |-> 1,
                              status |-> "DRAFT", content |-> c])
    /\ UNCHANGED <<config, edit>>

\* replaceDraftContent: the job level is rewritten with the content.
BeginFormEdit(e, f) ==
    /\ form[f].status = "DRAFT"
    /\ \E p \in Prefix, c \in Content :
        /\ <<p, c>> # <<form[f].prefix, form[f].content>>
        /\ BeginEdit(e, [kind |-> "edit", id |-> f, prefix |-> p, content |-> c])
    /\ UNCHANGED <<form, config>>

\* The form as rewritten by a request.
Rewritten(what) == [form[what.id] EXCEPT !.prefix = what.prefix, !.content = what.content]

CommitFormEdit(e) ==
    /\ edit[e] \in ContentEdit
    /\ form' = IF DraftByTrigger(edit[e].id)
                 THEN [form EXCEPT ![edit[e].id] = Rewritten(edit[e])] ELSE form
    /\ EndEdit(e)
    /\ UNCHANGED config

\* validateFormTemplatePublication.
Valid(c) == c \in Publishable

\* publishVersion: under the row lock.
PublishForm(f) ==
    /\ form[f].status = "DRAFT" /\ Valid(form[f].content)
    /\ form' = [form EXCEPT ![f].status = "PUBLISHED"]
    /\ UNCHANGED <<config, edit>>

\* archiveVersion: the trigger checks the status again.
ArchiveForm(f) ==
    /\ form[f].status = "PUBLISHED"
    /\ form' = [form EXCEPT ![f].status = "ARCHIVED"]
    /\ UNCHANGED <<config, edit>>

\* The numbers of a template start at 1 and are its own.
NextNumber(template) == Max(NumbersOf(template)) + 1

\* createDraftFromVersion: the source was published when the request looked at it,
\* and may be archived by now; the next number comes without a lock.
NumberFormCopy(e, f) ==
    /\ form[f].status # "DRAFT"
    /\ BeginEdit(e, [kind |-> "insert", id |-> f,
                     number |-> NextNumber(form[f].template)])
    /\ UNCHANGED <<form, config>>

\* Mutant: the unique index is gone.
AnyNumber(template, n) == TRUE

\* @@unique([templateId, version]).
FreeNumber(template, n) == n \notin NumbersOf(template)

InsertFormCopy(e) ==
    /\ edit[e] \in NumberedCopy
    /\ Len(form) < MaxForms
    /\ LET source == form[edit[e].id]
       IN  form' = IF FreeNumber(source.template, edit[e].number)
                     THEN Append(form, [source EXCEPT !.status = "DRAFT",
                                                      !.number = edit[e].number])
                     ELSE form
    /\ EndEdit(e)
    /\ UNCHANGED config

-----------------------------------------------------------------------------
(* Configuration versions.                                                  *)

\* replaceDraftContent: the version is locked and read again, and the trigger on the
\* bindings has the last word on the forms.
BindForms(c, fs) ==
    /\ config[c].status = "DRAFT" /\ Bindable(fs)
    /\ config' = [config EXCEPT ![c].bound = fs]
    /\ UNCHANGED <<form, edit>>

\* publicationIssues and guard_config_template_version_mutation; a form archived
\* between their look and the commit changes nothing the properties speak of.
Complete(c) == Cardinality(config[c].bound) = 2 /\ Bindable(config[c].bound)

\* publishVersion.
PublishConfig(c) ==
    /\ config[c].status = "DRAFT" /\ Complete(c)
    /\ config' = [config EXCEPT ![c].status = "PUBLISHED"]
    /\ UNCHANGED <<form, edit>>

\* archiveVersion.
ArchiveConfig(c) ==
    /\ config[c].status = "PUBLISHED"
    /\ config' = [config EXCEPT ![c].status = "ARCHIVED"]
    /\ UNCHANGED <<form, edit>>

\* What a copy keeps: the bound forms that are still published.
StillPublished(c) == {f \in config[c].bound : form[f].status = "PUBLISHED"}

\* createDraftFromVersion: source, template and forms are locked.
CopyConfig(c) ==
    /\ config[c].status = "PUBLISHED"
    /\ Len(config) < MaxConfigs
    /\ config' = Append(config,
           [number |-> Max({config[d].number : d \in Configs}) + 1,
            status |-> "DRAFT", bound |-> StillPublished(c)])
    /\ UNCHANGED <<form, edit>>

TemplatesNext ==
    \/ \E e \in Editor :
        \/ \E f \in Forms : BeginFormEdit(e, f) \/ NumberFormCopy(e, f)
        \/ CommitFormEdit(e) \/ InsertFormCopy(e)
    \/ \E p \in Prefix : CreateForm(p)
    \/ \E f \in Forms : PublishForm(f) \/ ArchiveForm(f)
    \/ \E c \in Configs, fs \in SUBSET Forms : BindForms(c, fs)
    \/ \E c \in Configs :
        PublishConfig(c) \/ ArchiveConfig(c) \/ CopyConfig(c)

TemplatesSpec == TemplatesInit /\ [][TemplatesNext]_templateVars

-----------------------------------------------------------------------------
(* Properties.                                                              *)

\* Of the versions of a template the one made later has the greater number, although two
\* copies may be numbered at once and a number may be used long after it was next: one that
\* is out of date has always been taken.
NumbersInOrder ==
    /\ \A f, g \in Forms :
        form[f].template = form[g].template /\ f < g => form[f].number < form[g].number
    /\ \A c, d \in Configs : c < d => config[c].number < config[d].number

\* A configuration that is or was published binds one validated form of each job
\* level that is or was published, although forms are moved between the levels, edited,
\* archived and bound by requests that read before they write.
ConfigsAreWhole ==
    \A c \in Configs :
        config[c].status # "DRAFT" =>
            /\ {form[f].prefix : f \in config[c].bound} = Prefix
            /\ Cardinality(config[c].bound) = 2
            /\ \A f \in config[c].bound :
                form[f].status # "DRAFT" /\ form[f].content \in Publishable

\* A version that left the draft never changes but for its archiving, and an archived
\* one never again, also for requests that saw the draft.
PublishedIsFrozen ==
    [][/\ \A f \in Forms : form[f].status # "DRAFT" =>
            /\ [form'[f] EXCEPT !.status = form[f].status] = form[f]
            /\ form'[f].status \in {form[f].status, "ARCHIVED"}
       /\ \A c \in Configs : config[c].status # "DRAFT" =>
            /\ [config'[c] EXCEPT !.status = config[c].status] = config[c]
            /\ config'[c].status \in {config[c].status, "ARCHIVED"}]_templateVars

\* A draft never binds a form that was archived before it was made.
NewDraftsBindPublished ==
    [][\A c \in DOMAIN config' : \A f \in config'[c].bound :
          (c \in Configs => f \notin config[c].bound) => form[f].status = "PUBLISHED"]_templateVars
=============================================================================
