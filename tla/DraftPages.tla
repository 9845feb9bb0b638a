------------------------------ MODULE DraftPages ------------------------------
(***************************************************************************)
(* The two editing pages of the panel: the panel settings (useAllSettings, *)
(* useServerDraft, SecretInput, SettingsPage) and the Xray configuration   *)
(* (useXraySetting, XrayPage), over PanelHttp and the handlers they call   *)
(* (controller/setting.go, controller/xray_setting.go).                    *)
(*                                                                         *)
(* A session edits one page: world.page.  A settings form has one plain    *)
(* field and one secret; the Xray form is its text, the parsed template    *)
(* the tabs edit, and the test URL.                                        *)
(***************************************************************************)
EXTENDS PanelHttp

CONSTANTS Values,   \* what a plain field or a template may be
          Secrets,  \* what a secret may be
          Blank,    \* ''
          Default,  \* the default template and test URL
          NoForm,   \* undefined
          Worlds    \* circumstances: see Circumstances

ASSUME RequestAssumption == {"load", "reload", "save", "reset"} \subseteq Callers
ASSUME BlankAssumption == Blank \notin Secrets \cup Values
ASSUME DefaultAssumption == Default \in Values

VARIABLES world,    \* the circumstances of this behaviour, fixed by Init
          store,    \* what the server holds
          body,     \* per caller, what the server answered
          data,     \* the query's data; NoForm before the first answer
          load,     \* the caller whose answer the query waits for
          query,    \* how the query stands: see Standings
          draft,    \* the form
          baseline, \* what the form is compared with: settings' baseline,
                    \* Xray's savedXraySetting and savedOutboundTestUrl
          sent,     \* the form a pending save took with it
          told,     \* history: what the server has told the page it holds
          budget    \* edits, saves, faults, session changes left

Loads == {"load", "reload"}
Standings == {"stale", "trying", "retrying", "fresh"}
Requests == Loads \cup {"save", "reset"}
Circumstances == [page : {"settings", "xray"}, edits : Nat, saves : Nat, faults : Nat,
                  changes : Nat, others : Nat]

pageVars == <<world, store, body, data, load, query, draft, baseline, sent, told, budget>>
vars == <<httpVars, pageVars>>

Settings == world.page = "settings"
Spend(kind) == budget[kind] > 0 /\ budget' = [budget EXCEPT ![kind] = @ - 1]

-----------------------------------------------------------------------------
(* The data.  The server stores secrets and serves only whether there is   *)
(* one; the Xray text is kept as typed and served reformatted.             *)

SettingsForms == [plain : Values, secret : Secrets \cup {Blank}, has : BOOLEAN, clear : BOOLEAN]
Texts == [format : {"pretty", "typed"}, value : Values] \cup [format : {"broken"}, value : {Blank}]
pretty(v) == [format |-> "pretty", value |-> v]
XrayForms == [text : Texts, template : Values, url : Values \cup {Blank}]
ASSUME FormAssumption == NoForm \notin SettingsForms \cup XrayForms

normalizeOutboundTestUrl(u) == IF u = Blank THEN Default ELSE u

Stores == IF Settings THEN [plain : Values, secret : Secrets \cup {Blank}]
                      ELSE [template : Values, url : Values]

Views == IF Settings THEN [plain : Values, has : BOOLEAN] ELSE [template : Values, url : Values]

(* GetAllSettingView, getXraySetting. *)
View(s) == IF Settings THEN [plain |-> s.plain, has |-> s.secret # Blank] ELSE s

(* preserveRedactedSecrets: a blank secret means unchanged, unless its     *)
(* clear flag is set.                                                      *)
Kept(s, form) == IF ~form.clear /\ form.secret = Blank THEN s.secret ELSE form.secret

(* updateSetting of either controller. *)
Updated(s, form) ==
    IF Settings THEN [plain |-> form.plain, secret |-> Kept(s, form)]
                ELSE [template |-> form.text.value, url |-> normalizeOutboundTestUrl(form.url)]

(* The form a view becomes: new AllSetting(data); the reformatted text.    *)
Form(view) ==
    IF Settings
    THEN [plain |-> view.plain, secret |-> Blank, has |-> view.has, clear |-> FALSE]
    ELSE [text |-> pretty(view.template), template |-> view.template, url |-> view.url]

(* What of the form is saved and compared: all of the settings; the text   *)
(* and the effective URL.                                                  *)
Shown(form) ==
    IF form = NoForm THEN NoForm
    ELSE IF Settings THEN form
    ELSE [text |-> form.text, url |-> normalizeOutboundTestUrl(form.url)]

isDirty == Shown(draft) # baseline

-----------------------------------------------------------------------------
Init ==
    /\ world \in Worlds
    /\ HttpInit
    /\ store \in Stores /\ (IF Settings THEN store.plain ELSE store.template) = Default
    /\ body = [c \in Callers |-> NoForm]
    /\ data = NoForm
    /\ load = "reload" /\ query = "stale"
    /\ draft = NoForm /\ baseline = NoForm /\ sent = NoForm
    /\ told = {NoForm}
    /\ budget = [edits |-> world.edits, saves |-> world.saves, faults |-> world.faults,
                 changes |-> world.changes, others |-> world.others]

(* A query starts, or starts again: the answer to an earlier request of    *)
(* its own is no longer waited for.                                        *)
Fetch(r) ==
    \E c \in Loads :
        /\ Request(r, c)
        /\ load' = c
        /\ query' = "trying"

(* The caller has its answer. *)
Read(c) == body' = [body EXCEPT ![c] = NoForm]

(* The page mounts, or its window regains focus while the query has no     *)
(* data or data that was invalidated and not replaced.                     *)
Mount ==
    /\ query = "stale"
    /\ Fetch(req)
    /\ UNCHANGED <<world, store, body, data, draft, baseline, sent, told, budget>>

\* Mutant: useServerDraft without keepLocalEdits.
AdoptAll(view) ==
    /\ data' = view
    /\ told' = told \cup {Shown(Form(view))}
    /\ IF view = data THEN UNCHANGED <<draft, baseline>>
       ELSE draft' = Form(view) /\ baseline' = Shown(Form(view))

(* The query's new data reaches the hooks only if it differs from the old  *)
(* (React Query keeps equal data).  useServerDraft compares with the new   *)
(* data from then on and follows it unless there are local edits;          *)
(* useXraySetting does neither while there are.                            *)
Adopt(view) ==
    /\ data' = view
    /\ told' = told \cup {Shown(Form(view))}
    /\ IF view = data THEN UNCHANGED <<draft, baseline>>
       ELSE /\ draft' = IF isDirty THEN draft ELSE Form(view)
            /\ baseline' = IF isDirty /\ ~Settings THEN baseline ELSE Shown(Form(view))

(* fetchAllSetting, fetchXrayConfig; a failed load is tried once more. *)
Loaded(c) ==
    /\ Answers(c) /\ req[c].status = 200
    /\ Resume(c)
    /\ IF load = c THEN Adopt(body[c]) /\ query' = "fresh"
                   ELSE UNCHANGED <<data, told, draft, baseline, query>>
    /\ Read(c)
    /\ UNCHANGED <<world, store, load, sent, budget>>

LoadFails(c) ==
    /\ \/ Answers(c) /\ req[c].status # 200 /\ UNCHANGED budget
       \/ Breaks(c) /\ Spend("faults")
    /\ IF load = c /\ query = "trying"
       THEN Request(Resumed(c), c) /\ query' = "retrying"
       ELSE Resume(c) /\ query' = IF load = c THEN "stale" ELSE query
    /\ Read(c)
    /\ UNCHANGED <<world, store, data, load, draft, baseline, sent, told>>

-----------------------------------------------------------------------------
(* The user.  A page shows its form once it is loaded. *)

(* updateSetting, from a plain field and from SecretInput: typing disarms  *)
(* the clear flag, the button toggles it and empties the field.            *)
SettingsEdits ==
    {[draft EXCEPT !.plain = v] : v \in Values}
    \cup {[draft EXCEPT !.secret = s, !.clear = FALSE] : s \in Secrets \cup {Blank}}
    \cup {[draft EXCEPT !.secret = Blank, !.clear = ~draft.clear] : x \in {y \in {1} : draft.has}}

\* Mutant: the text is not rewritten when a tab edits the template.
XrayEditsApart ==
    {[draft EXCEPT !.text = t, !.template = IF t.format = "broken" THEN @ ELSE t.value] : t \in Texts}
    \cup {[draft EXCEPT !.template = v] : v \in Values}
    \cup {[draft EXCEPT !.url = u] : u \in Values \cup {Blank}}

(* setXraySetting, setTemplateSettings, setOutboundTestUrl: text that does *)
(* not parse leaves the template as it was.                                *)
XrayEdits ==
    {[draft EXCEPT !.text = t, !.template = IF t.format = "broken" THEN @ ELSE t.value] : t \in Texts}
    \cup {[draft EXCEPT !.text = pretty(v), !.template = v] : v \in Values}
    \cup {[draft EXCEPT !.url = u] : u \in Values \cup {Blank}}

Edit ==
    /\ draft # NoForm
    /\ Spend("edits")
    /\ draft' \in IF Settings THEN SettingsEdits ELSE XrayEdits
    /\ UNCHANGED <<httpVars, world, store, body, data, load, query, baseline, sent, told>>

(* onSave, onSaveAll: enabled while dirty and no save is pending.  The     *)
(* Xray page refuses text that does not parse and first writes the         *)
(* template out again.                                                     *)
Save ==
    /\ draft # NoForm /\ isDirty
    /\ sent = NoForm
    /\ Spend("saves")
    /\ ~Settings => draft.text.format # "broken"
    /\ draft' = IF Settings THEN draft ELSE [draft EXCEPT !.text = pretty(draft.template)]
    /\ sent' = draft'
    /\ Request(req, "save")
    /\ UNCHANGED <<world, store, body, data, load, query, baseline, told>>

\* Mutant: what is marked saved is the form as it is by then.
SavedAsShown ==
    /\ Answers("save") /\ req["save"].status = 200 /\ body["save"] # NoForm
    /\ baseline' = Shown(draft)
    /\ told' = told \cup {Shown(sent)}
    /\ sent' = NoForm
    /\ Fetch(Resumed("save"))
    /\ Read("save")
    /\ UNCHANGED <<world, store, data, draft, budget>>

(* saveMut's onSuccess: markSaved of what was sent, then the refetch. *)
Saved ==
    /\ Answers("save") /\ req["save"].status = 200 /\ body["save"] # NoForm
    /\ baseline' = Shown(sent)
    /\ told' = told \cup {Shown(sent)}
    /\ sent' = NoForm
    /\ Fetch(Resumed("save"))
    /\ Read("save")
    /\ UNCHANGED <<world, store, data, draft, budget>>

\* Mutant: a save whose connection broke is sent again.
SaveFailsResend ==
    /\ Breaks("save") /\ Spend("faults")
    /\ req' = [req EXCEPT !["save"] = Sent(req["save"].token, TRUE)]
    /\ UNCHANGED <<cacheVars, metaToken, sessionExpired, serverVars, historyVars, world, store,
                   body, data, load, query, draft, baseline, sent, told>>

SaveFails ==
    /\ \/ /\ Answers("save") /\ (req["save"].status # 200 \/ body["save"] = NoForm)
          /\ UNCHANGED budget
       \/ Breaks("save") /\ Spend("faults")
    /\ Resume("save")
    /\ sent' = NoForm
    /\ Read("save")
    /\ UNCHANGED <<world, store, data, load, query, draft, baseline, told>>

(* resetToDefault: a GET whose answer replaces the template.  Its spinner  *)
(* and that of a save cover the same buttons.                              *)
Reset ==
    /\ ~Settings /\ draft # NoForm
    /\ Spend("edits")
    /\ Request(req, "reset")
    /\ UNCHANGED <<world, store, body, data, load, query, draft, baseline, sent, told>>

ResetAnswered ==
    /\ Answers("reset")
    /\ Resume("reset")
    /\ draft' = IF req["reset"].status = 200
                THEN [draft EXCEPT !.text = pretty(Default), !.template = Default] ELSE draft
    /\ Read("reset")
    /\ UNCHANGED <<world, store, data, load, query, baseline, sent, told, budget>>

ResetFails ==
    /\ Breaks("reset") /\ Spend("faults")
    /\ Resume("reset")
    /\ Read("reset")
    /\ UNCHANGED <<world, store, data, load, query, draft, baseline, sent, told>>

(* fetchAll, from the Outbounds tab. *)
Refresh ==
    /\ ~Settings /\ draft # NoForm
    /\ Spend("edits")
    /\ Fetch(req)
    /\ UNCHANGED <<world, store, body, data, draft, baseline, sent, told>>

-----------------------------------------------------------------------------
(* The server.  A save it refuses (a field that is not valid) is answered  *)
(* with success false.                                                     *)
Handle(c) ==
    /\ Serve(c)
    /\ \/ /\ c = "save" /\ Admitted(c)
          /\ store' = Updated(store, sent)
          /\ body' = [body EXCEPT ![c] = View(store')]
          /\ UNCHANGED budget
       \/ /\ c = "save" /\ Admitted(c) /\ Spend("faults")
          /\ body' = [body EXCEPT ![c] = NoForm]
          /\ UNCHANGED store
       \/ /\ c # "save" \/ ~Admitted(c)
          /\ body' = [body EXCEPT ![c] = View(store)]
          /\ UNCHANGED <<store, budget>>
    /\ UNCHANGED <<world, data, load, query, draft, baseline, sent, told>>

(* Another admin saves. *)
OtherSaves ==
    /\ Spend("others")
    /\ store' \in Stores
    /\ UNCHANGED <<httpVars, world, body, data, load, query, draft, baseline, sent, told>>

(* Steps of the HTTP layer that no caller sees. *)
Silent ==
    /\ \/ (TokenServed \/ TokenArrives) /\ UNCHANGED budget
       \/ TokenFails /\ Spend("faults")
       \/ SessionChanges /\ Spend("changes")
       \/ \E c \in Callers :
             \/ (Rejected(c) \/ FreshServed(c) \/ FreshArrives(c) \/ Unauthorized(c)) /\ UNCHANGED budget
             \/ FreshFails(c) /\ Spend("faults")
    /\ UNCHANGED <<world, store, body, data, load, query, draft, baseline, sent, told>>

Next ==
    \/ Mount
    \/ \E c \in Loads : Loaded(c) \/ LoadFails(c)
    \/ Edit \/ Save \/ Saved \/ SaveFails
    \/ Reset \/ ResetAnswered \/ ResetFails \/ Refresh
    \/ \E c \in Callers : Handle(c)
    \/ OtherSaves \/ Silent

(* Requests are carried, handled and answered, and the page runs on. *)
Quiet == UNCHANGED budget
Fairness ==
    /\ \A c \in Loads : WF_vars(Loaded(c)) /\ WF_vars(Quiet /\ LoadFails(c))
    /\ WF_vars(Saved) /\ WF_vars(Quiet /\ SaveFails) /\ WF_vars(ResetAnswered)
    /\ \A c \in Callers : WF_vars(Quiet /\ Handle(c))
    /\ WF_vars(Quiet /\ Silent)

Spec == Init /\ [][Next]_vars /\ Fairness

-----------------------------------------------------------------------------
Forms == IF Settings THEN SettingsForms \cup {NoForm} ELSE XrayForms \cup {NoForm}
ShownForms == SettingsForms \cup [text : Texts, url : Values] \cup {NoForm}

(* The pages implement EditBuffer: what the user has typed and not saved   *)
(* survives every answer and refetch in any order (a save answered while   *)
(* the user types on, a refetch older than an edit, an answer that was     *)
(* lost), and Save is disabled only while the form shows something the     *)
(* server said it holds.  A reset the user asked for counts as typing.     *)
Buffer == INSTANCE EditBuffer WITH Text <- ShownForms, text <- Shown(draft),
                                   clean <- ~isDirty, told <- told
EditsSafe == Buffer!Spec

(* The template the tabs edit and the text that is saved never disagree    *)
(* while the text parses, whichever of the two was edited last.            *)
TemplateIsText ==
    ~Settings /\ draft # NoForm /\ draft.text.format # "broken"
        => draft.template = draft.text.value

(* Every request comes to an end, unless the session has expired and the   *)
(* page is on its way to the login: no form stays under its spinner.       *)
RequestsEnd == \A c \in Callers : (req[c] # Idle) ~> (req[c] = Idle \/ sessionExpired)
=============================================================================
