---------------------------- MODULE ConsoleEditors ----------------------------
(* The editing screens of the consoles, one in one tab: a hook's definition   *)
(* (new and existing), a tenant's quotas, the lists that grow by a dialog     *)
(* (keys, tenants), and a tenant's parameters of its script.  Each screen     *)
(* shows one server object through one query of the query cache; a form       *)
(* starts from what the query held and is sent as a whole or as a difference, *)
(* while refetches, other people and lost answers come in between.            *)
EXTENDS FiniteSets, Naturals

CONSTANTS
    Contents,      \* hook definitions a form accepts, but for the allow-lists
    BadContents,   \* those the server refuses (422)
    Caps,          \* names in the allow-lists (host functions, effect types)
    Fields, Vals,  \* a tenant's editable fields and their values
    Names,         \* names of keys or tenants to create
    Configs,       \* the parameters of a script
    NoParams,      \* the empty one of Configs
    MaxElsewhere,  \* bound: changes made by others
    MaxSaves,      \* bound: changes sent from this tab
    MaxFaults,     \* bound: answers lost or 5xx
    None

Lists == {"keys", "tenants"}
Screens == {"new", "hook", "tenant", "config"} \cup Lists
Specs == [content : Contents, caps : SUBSET Caps]
Rows == [Fields -> Vals]

\* A hook and a tenant to edit exist; None is neither a value nor an object.
ASSUME SetsAssumption ==
    /\ BadContents \subseteq Contents /\ Contents # BadContents /\ Vals # {}
    /\ NoParams \in Configs
    /\ None \notin Names \cup Contents 
    /\ None \notin [version : Nat, value : Specs \cup Rows \cup (SUBSET Names) \cup Configs]
    /\ MaxElsewhere \in Nat /\ MaxSaves \in Nat /\ MaxFaults \in Nat

VARIABLES
    screen,
    db,      \* the server's object: a version and a value, or None
    data,    \* what the query holds of it, or None
    failed,  \* the query is in error: the page shows the error instead
    fetch,   \* the query's request
    form,    \* the values of the mounted form, or None
    base,    \* what a tenant's form started from; for a hook's, the oldest hook
             \* the page has shown since the form was filled
    dialog,  \* of the tenant and list screens
    change,  \* the request that saves
    notice,  \* what the page's form tells after a save
    others, saves, faults

vars == <<screen, db, data, failed, fetch, form, base, dialog, change, notice,
          others, saves, faults>>
formVars == <<form, base, dialog>>
queryVars == <<data, failed, fetch>>
bounds == <<others, saves, faults>>

NoFetch == [at |-> "idle", answer |-> None, tries |-> 0]
Sent(tries) == [at |-> "sent", answer |-> None, tries |-> tries]
\* `seen`: the version shown at submit; `mine`: the form that sent it is still
\* mounted; `wrote`: the server changed something.
NoChange == [at |-> "idle", body |-> None, seen |-> 0, mine |-> FALSE, saved |-> None,
             wrote |-> FALSE]

\* The page shows its content: the query has data and no error.
Showing == data # None /\ ~failed

\* A binding that is not there yet shows as the empty parameters.
NoBinding == [version |-> 0, value |-> NoParams]

\* The first object of each screen, and whether the page's query is mounted.
Start(s) ==
    CASE s = "new" -> None
      [] s = "hook" -> [version |-> 1, value |-> [content |-> CHOOSE c \in Contents \ BadContents : TRUE,
                                                  caps |-> {}]]
      [] s = "tenant" -> [version |-> 1, value |-> [f \in Fields |-> CHOOSE v \in Vals : TRUE]]
      [] s \in Lists -> [version |-> 1, value |-> {}]
      [] s = "config" -> NoBinding

Init ==
    /\ screen \in Screens
    /\ db = Start(screen)
    /\ data = None /\ failed = FALSE
    /\ fetch = IF screen = "new" THEN NoFetch ELSE Sent(0)
    /\ form \in IF screen = "new" THEN [content : Contents, caps : {{}}] ELSE {None}
    /\ base = None /\ dialog = "closed"
    /\ change = NoChange /\ notice = "none"
    /\ others = 0 /\ saves = 0 /\ faults = 0

-----------------------------------------------------------------------------
(* The query: one fetch at a time, tried twice; data stays through errors.   *)

Refetch ==
    /\ screen # "new" /\ fetch = NoFetch
    /\ fetch' = Sent(0)
    /\ UNCHANGED <<screen, db, data, failed, formVars, change, notice, bounds>>

Read ==
    /\ fetch.at = "sent"
    /\ fetch' = [fetch EXCEPT !.at = "answered", !.answer = db]
    /\ UNCHANGED <<screen, db, data, failed, formVars, change, notice, bounds>>

ReadFault ==
    /\ fetch.at = "sent" /\ faults < MaxFaults
    /\ fetch' = [fetch EXCEPT !.at = "answered"]
    /\ faults' = faults + 1
    /\ UNCHANGED <<screen, db, data, failed, formVars, change, notice, others, saves>>

\* What waits for the fetch that a save caused to end, well or not: the dialog, or
\* the parameters' form, which then restarts from the answer.
Awaiting == change.at = "awaiting"
Settled ==
    IF dialog = "refetching" THEN (IF screen = "keys" THEN "shown" ELSE "closed") ELSE dialog

\* The form takes the values saved; "Изменений нет" compares the version saved with
\* the one shown at submit.
Restart ==
    /\ form' = change.saved.value
    /\ notice' = IF change.seen # 0 /\ change.saved.version = change.seen
                 THEN "unchanged" ELSE "saved"

\* The oldest hook shown since the form was filled, when `shown` comes and fills it
\* anew or not.
Oldest(shown, anew) == IF anew \/ shown.version < base.version THEN shown ELSE base

\* Fault: data that arrives resets the form.
LoadedAnew ==
    /\ fetch.at = "answered" /\ fetch.answer # None
    /\ data' = fetch.answer /\ failed' = FALSE /\ fetch' = NoFetch
    /\ form' = IF screen \in {"hook", "config"} THEN fetch.answer.value ELSE form
    /\ dialog' = Settled
    /\ change' = IF Awaiting THEN NoChange ELSE change
    /\ UNCHANGED <<screen, db, base, notice, bounds>>

\* Data arrives.  A mounted form keeps its values (defaultValues are read at
\* mount only); the page's form mounts with the first data.
Loaded ==
    /\ fetch.at = "answered" /\ fetch.answer # None
    /\ data' = fetch.answer /\ failed' = FALSE /\ fetch' = NoFetch
    /\ IF screen \in {"hook", "config"} /\ ~Showing
       THEN form' = fetch.answer.value /\ notice' = "none"
       ELSE IF screen = "config" /\ Awaiting /\ change.mine THEN Restart
       ELSE UNCHANGED <<form, notice>>
    /\ base' = IF screen = "hook" THEN Oldest(fetch.answer, ~Showing) ELSE base
    /\ dialog' = Settled
    /\ change' = IF Awaiting THEN NoChange ELSE change
    /\ UNCHANGED <<screen, db, bounds>>

Retry ==
    /\ fetch.at = "answered" /\ fetch.answer = None /\ fetch.tries = 0
    /\ fetch' = Sent(1)
    /\ UNCHANGED <<screen, db, data, failed, formVars, change, notice, bounds>>

\* The error takes the content's place: the page's form and the tenant rows,
\* with what was typed there, are unmounted; the list's dialog is not.
LoadFails ==
    /\ fetch.at = "answered" /\ fetch.answer = None /\ fetch.tries = 1
    /\ fetch' = NoFetch /\ failed' = TRUE
    /\ notice' = "none"
    /\ IF screen \in Lists
       THEN /\ dialog' = Settled
            /\ change' = IF Awaiting THEN NoChange ELSE change
            /\ UNCHANGED <<form, base>>
       ELSE /\ form' = None /\ base' = None /\ dialog' = "closed"
            /\ change' = IF Awaiting THEN NoChange ELSE [change EXCEPT !.mine = FALSE]
    /\ UNCHANGED <<screen, db, data, bounds>>

-----------------------------------------------------------------------------
(* The operator edits.                                                      *)

HookForm == screen = "new" \/ (screen = "hook" /\ Showing)

EditContent(c) ==
    /\ HookForm /\ form.content # c
    /\ form' = [form EXCEPT !.content = c]
    /\ UNCHANGED <<screen, db, queryVars, base, dialog, change, notice, bounds>>

AddCap(x) ==
    /\ HookForm /\ x \notin form.caps
    /\ form' = [form EXCEPT !.caps = @ \cup {x}]
    /\ UNCHANGED <<screen, db, queryVars, base, dialog, change, notice, bounds>>

\* A saved value is locked, by the lists of the hook shown now.
Locked == IF screen = "hook" THEN data.value.caps ELSE {}

\* Fault: the lists are not passed to the input.
RemoveCapUnlocked(x) ==
    /\ HookForm /\ x \in form.caps
    /\ form' = [form EXCEPT !.caps = @ \ {x}]
    /\ UNCHANGED <<screen, db, queryVars, base, dialog, change, notice, bounds>>

RemoveCap(x) ==
    /\ HookForm /\ x \in form.caps \ Locked
    /\ form' = [form EXCEPT !.caps = @ \ {x}]
    /\ UNCHANGED <<screen, db, queryVars, base, dialog, change, notice, bounds>>

\* changeOpen: a dialog starts afresh each time it opens; a tenant's from the
\* row shown now.
OpenDialog ==
    /\ dialog = "closed" /\ screen \in {"tenant"} \cup Lists /\ (screen = "tenant" => Showing)
    /\ dialog' = "open"
    /\ form' = IF screen = "tenant" THEN data.value ELSE None
    /\ base' = form'
    /\ UNCHANGED <<screen, db, queryVars, change, notice, bounds>>

EditParams(c) ==
    /\ screen = "config" /\ Showing /\ form # c
    /\ form' = c
    /\ UNCHANGED <<screen, db, queryVars, base, dialog, change, notice, bounds>>

EditField(f, v) ==
    /\ screen = "tenant" /\ dialog # "closed" /\ form[f] # v
    /\ form' = [form EXCEPT ![f] = v]
    /\ UNCHANGED <<screen, db, queryVars, base, dialog, change, notice, bounds>>

TypeName(n) ==
    /\ screen \in Lists /\ dialog \in {"open", "sending", "refetching"} /\ form # n
    /\ form' = n
    /\ UNCHANGED <<screen, db, queryVars, base, dialog, change, notice, bounds>>

\* Fault: a dialog closes while its request is pending.
ClosableWhilePending == dialog # "closed"

\* changeOpen refuses to close a dialog whose request is pending.
Closable == dialog \in {"open", "shown"}

CloseDialog ==
    /\ Closable
    /\ dialog' = "closed" /\ form' = None /\ base' = None
    /\ UNCHANGED <<screen, db, queryVars, change, notice, bounds>>

-----------------------------------------------------------------------------
(* Saving.                                                                  *)

\* Bound: one change of this tab is in flight at a time.
Send(body) ==
    /\ saves < MaxSaves /\ saves' = saves + 1
    /\ change' = [NoChange EXCEPT !.at = "sent", !.body = body, !.mine = TRUE,
                                  !.seen = IF data = None THEN 0 ELSE data.version]

\* The hook form is sent whole, to POST or PUT.
SaveHook ==
    /\ HookForm /\ change.at = "idle"
    /\ Send(form) /\ notice' = "none"
    /\ UNCHANGED <<screen, db, queryVars, formVars, others, faults>>

\* tenantChanges: the fields of the form that differ from the row shown now; the
\* button waits for an edit.
Changes == {f \in Fields : form[f] # data.value[f]}

SaveTenant ==
    /\ screen = "tenant" /\ dialog = "open" /\ form # base /\ change.at = "idle"
    /\ IF Changes = {}
       THEN dialog' = "closed" /\ form' = None /\ base' = None /\ UNCHANGED <<change, saves>>
       ELSE /\ Send([f \in Changes |-> form[f]])
            /\ dialog' = "sending" /\ UNCHANGED <<form, base>>
    /\ UNCHANGED <<screen, db, queryVars, notice, others, faults>>

\* sameConfig: parameters that are as shown are not sent.
SaveParams ==
    /\ screen = "config" /\ Showing /\ change.at = "idle"
    /\ IF form = data.value
       THEN notice' = "unchanged" /\ UNCHANGED <<change, saves>>
       ELSE Send(form) /\ notice' = "none"
    /\ UNCHANGED <<screen, db, queryVars, formVars, others, faults>>

SaveName ==
    /\ screen \in Lists /\ dialog = "open" /\ form # None /\ change.at = "idle"
    /\ Send(form) /\ dialog' = "sending"
    /\ UNCHANGED <<screen, db, queryVars, form, base, notice, others, faults>>

-----------------------------------------------------------------------------
(* The server: what a request makes of an object, as [ok, object].           *)

Next1(o, value) == [version |-> o.version + 1, value |-> value]

\* PUT (POST when there is none yet): a refused definition, a narrowed
\* allow-list and a second hook of the name change nothing; nor does the same
\* definition again.
Put(o, create, spec) ==
    IF \/ spec.content \in BadContents
       \/ create /\ o # None
       \/ ~create /\ ~(o.value.caps \subseteq spec.caps)
    THEN [ok |-> FALSE, object |-> o]
    ELSE [ok |-> TRUE,
          object |-> IF o = None THEN [version |-> 1, value |-> spec]
                     ELSE IF o.value = spec THEN o ELSE Next1(o, spec)]

\* PATCH: the fields given, if they differ.
Patch(o, body) ==
    LET row == [f \in Fields |-> IF f \in DOMAIN body THEN body[f] ELSE o.value[f]]
    IN  [ok |-> TRUE, object |-> IF row = o.value THEN o ELSE Next1(o, row)]

\* POST of a key or a tenant: a name is taken once.
Add(o, name) ==
    IF name \in o.value THEN [ok |-> FALSE, object |-> o]
    ELSE [ok |-> TRUE, object |-> Next1(o, o.value \cup {name})]

\* PUT of a binding's parameters; one that is not there is created.
Set(o, config) ==
    [ok |-> TRUE, object |-> IF o # NoBinding /\ config = o.value THEN o ELSE Next1(o, config)]

Outcome(body) ==
    CASE screen \in {"new", "hook"} -> Put(db, screen = "new", body)
      [] screen = "tenant" -> Patch(db, body)
      [] screen \in Lists -> Add(db, body)
      [] screen = "config" -> Set(db, body)

Serve ==
    LET r == Outcome(change.body)
    IN  /\ change.at = "sent"
        /\ db' = r.object
        /\ change' = [change EXCEPT !.at = IF r.ok THEN "done" ELSE "refused",
                                    !.saved = r.object, !.wrote = r.object # db]
        /\ UNCHANGED <<screen, queryVars, formVars, notice, bounds>>

\* The answer is lost or a 5xx, with the change made or not.
ServeFault ==
    /\ change.at = "sent" /\ faults < MaxFaults /\ faults' = faults + 1
    /\ db' \in {db, Outcome(change.body).object}
    /\ change' = [change EXCEPT !.at = "refused", !.wrote = db' # db]
    /\ UNCHANGED <<screen, queryVars, formVars, notice, others, saves>>

\* Another operator or tenant, tab or command line changes the object.
Elsewhere ==
    /\ others < MaxElsewhere /\ others' = others + 1
    /\ \/ screen = "new" /\ db = None
          /\ \E s \in Specs : s.content \notin BadContents /\ db' = [version |-> 1, value |-> s]
       \/ screen \in {"new", "hook"} /\ db # None
          /\ \E s \in Specs : db' = Put(db, FALSE, s).object
       \/ screen = "tenant" /\ \E r \in Rows : db' = Patch(db, r).object
       \/ screen \in Lists /\ \E n \in Names : db' = Add(db, n).object
       \/ screen = "config" /\ \E c \in Configs : db' = Set(db, c).object
    /\ db' # db
    /\ UNCHANGED <<screen, queryVars, formVars, change, notice, saves, faults>>

-----------------------------------------------------------------------------
(* The answer to a save.                                                    *)

\* Fault: the answer is compared with the version shown when it arrives.
HookSavedLate ==
    /\ screen \in {"new", "hook"} /\ change.at = "done"
    /\ data' = change.saved /\ failed' = FALSE
    /\ screen' = "hook"
    /\ form' = IF change.mine \/ ~Showing THEN change.saved.value ELSE form
    /\ base' = Oldest(change.saved, change.mine \/ ~Showing)
    /\ notice' = IF screen = "new" \/ ~change.mine THEN notice
                 ELSE IF change.saved.version = data.version THEN "unchanged" ELSE "saved"
    /\ change' = NoChange
    /\ UNCHANGED <<db, fetch, dialog, bounds>>

\* useReplaceHook, useCreateHook: the detail query takes the answer (an older
\* fetch that is still running will overwrite it), the form restarts from it;
\* after a creation the hook's own page opens.
HookSaved ==
    /\ screen \in {"new", "hook"} /\ change.at = "done"
    /\ data' = change.saved /\ failed' = FALSE
    /\ screen' = "hook"
    /\ form' = IF change.mine \/ ~Showing THEN change.saved.value ELSE form
    /\ base' = Oldest(change.saved, change.mine \/ ~Showing)
    /\ notice' = IF screen = "new" \/ ~change.mine THEN notice
                 ELSE IF change.saved.version = change.seen THEN "unchanged" ELSE "saved"
    /\ change' = NoChange
    /\ UNCHANGED <<db, fetch, dialog, bounds>>

\* Fault: a fetch that is running already is what the save waits for.
ListSavedJoining ==
    /\ screen \in {"tenant", "config"} \cup Lists /\ change.at = "done"
    /\ fetch' = IF fetch # NoFetch THEN fetch ELSE Sent(0)
    /\ IF change.mine
       THEN /\ dialog' = IF dialog = "sending" THEN "refetching" ELSE dialog
            /\ change' = [change EXCEPT !.at = "awaiting"]
       ELSE dialog' = dialog /\ change' = NoChange
    /\ UNCHANGED <<screen, db, data, failed, form, base, notice, bounds>>

\* The list is invalidated and fetched again: in place of a running fetch if
\* there is data, else the running one is what the save waits for.  The dialog
\* stays pending meanwhile.
ListSaved ==
    /\ screen \in {"tenant", "config"} \cup Lists /\ change.at = "done"
    /\ fetch' = IF data = None /\ fetch # NoFetch THEN fetch ELSE Sent(0)
    /\ IF change.mine
       THEN /\ dialog' = IF dialog = "sending" THEN "refetching" ELSE dialog
            /\ change' = [change EXCEPT !.at = "awaiting"]
       ELSE dialog' = dialog /\ change' = NoChange
    /\ UNCHANGED <<screen, db, data, failed, form, base, notice, bounds>>

\* The error is shown and what was typed stays.
Refused ==
    /\ change.at = "refused"
    /\ change' = NoChange
    /\ dialog' = IF change.mine /\ dialog = "sending" THEN "open" ELSE dialog
    /\ notice' = IF change.mine /\ screen \in {"new", "hook", "config"} THEN "refused" ELSE notice
    /\ UNCHANGED <<screen, db, queryVars, form, base, bounds>>

Edit ==
    \/ \E c \in Contents : EditContent(c)
    \/ \E x \in Caps : AddCap(x) \/ RemoveCap(x)
    \/ \E f \in Fields, v \in Vals : EditField(f, v)
    \/ \E n \in Names : TypeName(n)
    \/ \E c \in Configs : EditParams(c)

User ==
    Edit \/ OpenDialog \/ CloseDialog \/ SaveHook \/ SaveTenant \/ SaveName \/ SaveParams

Client == Loaded \/ Retry \/ LoadFails \/ HookSaved \/ ListSaved \/ Refused

Next ==
    User \/ Client \/ Refetch \/ Read \/ ReadFault \/ Serve \/ ServeFault \/ Elsewhere

Spec == Init /\ [][Next]_vars

\* The server answers, the page takes the answers.
FairSpec == Spec /\ WF_vars(Serve) /\ WF_vars(Read) /\ WF_vars(Loaded \/ Retry \/ LoadFails)
                 /\ WF_vars(HookSaved \/ ListSaved \/ Refused)

-----------------------------------------------------------------------------

\* "Изменений нет" after a save means that the save changed nothing, whatever
\* other operators and refetches did between submit and answer.
UnchangedIsTrue ==
    [][notice' = "unchanged" /\ notice # "unchanged" => ~change.wrote]_vars

\* A hook's form never asks the server to take away a value that every hook shown
\* since it was filled allowed.  A save refused for narrowing (409) means therefore that
\* another operator has allowed the value since, or that an older answer had replaced
\* the hook saved, for the lock follows the hook shown now and not the form.
KnownCapsAreKept ==
    screen = "hook" /\ change.at = "sent" /\ change.mine =>
        base.value.caps \subseteq change.body.caps

\* What was typed changes by the operator's hand, gives way to what their own save
\* made of it, or goes with the page that an error replaces: a refetch, or the answer
\* to the save of a form that is gone, never touches it.
EditsSurvive ==
    [][form # None /\ form' # form =>
        \/ Edit \/ OpenDialog \/ CloseDialog \/ SaveTenant
        \/ change.mine /\ change' = NoChange /\ form' = change.saved.value
        \/ failed' /\ ~failed]_vars

\* A tenant's dialog that closes on success, with the list loaded when it was
\* sent, leaves a list that shows the change (or the list's own error), never the
\* rows from before.
ClosedMeansListed ==
    [][dialog = "refetching" /\ dialog' = "closed" /\ change.seen # 0 =>
        failed' \/ (data.version)' >= change.saved.version]_vars

\* The token of a key is shown once, so the dialog that asked for it must still
\* be there to show it.
IssuedTokenIsShown ==
    screen = "keys" /\ change.at = "done" ~> dialog = "shown"

\* "отправляются только изменённые поля": a field the operator did not touch is
\* not sent.  Not so: the difference is taken to the row shown at submit, the
\* form was filled from the row shown when it opened.
OnlyEditedFieldsSent ==
    screen = "tenant" /\ change.at = "sent" =>
        \A f \in DOMAIN change.body : change.body[f] # base[f]
================================================================================
