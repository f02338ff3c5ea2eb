---------------------------- MODULE TenantModules ----------------------------
(* A tenant's hook page with its modules, open in one tab, and the control    *)
(* plane behind it (ModuleLifecycle).  The page holds two queries: the hook, *)
(* whose binding names the active module, and the list of modules, which is   *)
(* polled while a listed module waits for its verdict.  Uploads and           *)
(* activations end by fetching anew; answers may be old when they arrive, be  *)
(* lost, or come to a page that shows something else by then.                 *)
EXTENDS ModuleLifecycle, SequencesExt

CONSTANTS
    Stored,      \* modules that have their verdict when the page opens
    Broken,      \* files that the page refuses to upload
    MaxPosts,    \* bound: uploads
    MaxEvents,   \* bound: reads that fail, and times the window gets the focus
    Unloaded     \* what a query without data holds

ASSUME FilesAssumption ==
    /\ Stored \subseteq Modules /\ IsFiniteSet(Stored)
    /\ Broken \cap Modules = {} /\ None \notin Broken
    /\ MaxPosts \in Nat /\ MaxEvents \in Nat

VARIABLES
    active,   \* the server: the binding's active module, or None
    query,    \* the two queries of the page
    dialog,   \* UploadModuleDialog: its step, the file, the upload it waits for
    act,      \* ActivateModuleDialog: what became of the module's activation
    focus,    \* the module the user's last act was about
    posts, events

bounds == <<posts, events>>
pageVars == <<query, dialog, act, focus, bounds>>
vars == <<moduleVars, active, pageVars>>

Queries == {"hook", "modules"}

Idle == [data |-> Unloaded, failed |-> FALSE, at |-> "idle", answer |-> Unloaded, tries |-> 0]
Sent(q, n) == [q EXCEPT !.at = "sent", !.answer = Unloaded, !.tries = n]

NoDialog == [step |-> "closed", file |-> None, upload |-> None, chosen |-> None]
NoAct == [at |-> "closed", module |-> None, answer |-> "none"]
NoFocus == [kind |-> "none", module |-> None]

Content(q) == q.data # Unloaded /\ ~q.failed

\* The page shows its widgets when the hook is there and without an error, and
\* the table's rows when the list is.
Mounted == Content(query["hook"])
Table == query["modules"].data
Listed(m) == Table # Unloaded /\ Table[m] # "absent"

OfferedEarly(q, m) ==
    /\ Content(q["hook"]) /\ Content(q["modules"])
    /\ q["modules"].data[m] \in {"validating", "validated"} /\ q["hook"].data # m

\* The row of a version offers to activate it.
Offered(q, m) ==
    /\ Content(q["hook"]) /\ Content(q["modules"])
    /\ q["modules"].data[m] = "validated" /\ q["hook"].data # m

\* panelState: what the panel under the table speaks of, by default the newest
\* listed module.
Newest(m) ==
    Listed(m) /\ \A i, j \in DOMAIN rows : rows[i] = m /\ Listed(rows[j]) => j <= i
Panel ==
    IF focus.kind = "rejected" \/ (focus.kind = "activated" /\ query["hook"].data = focus.module)
    THEN focus
    ELSE IF \E m \in Modules : Newest(m)
         THEN LET m == CHOOSE m \in Modules : Newest(m)
              IN  [kind |-> IF Table[m] \in Pending THEN "checking"
                            ELSE IF Table[m] = "rejected" THEN "rejected"
                            ELSE IF query["hook"].data # m THEN "ready" ELSE "idle",
                   module |-> m]
         ELSE [kind |-> "idle", module |-> None]

Init ==
    /\ \E verdict \in [Stored -> Verdicts] :
        /\ status = [m \in Modules |-> IF m \in Stored THEN verdict[m] ELSE "absent"]
        /\ active \in {m \in Stored : verdict[m] = "validated"} \cup {None}
    /\ rows = SetToSeq(Stored) /\ upload = [u \in Uploads |-> Unused]
    /\ query = [q \in Queries |-> IF q = "hook" THEN Sent(Idle, 0) ELSE Idle]
    /\ dialog = NoDialog /\ act = NoAct /\ focus = NoFocus /\ posts = 0 /\ events = 0

-----------------------------------------------------------------------------
(* The queries.                                                              *)

\* What the server has at this moment.
Current(q) == IF q = "hook" THEN active ELSE status

\* A change of what is shown: rows that no longer offer an activation take
\* its dialog with them, a page that shows an error all its widgets; a page
\* that comes back mounts them anew, and fetches the list unless it is fresh
\* (`stale`).
Show(q2, stale) ==
    LET mounted == Content(q2["hook"])
        list == q2["modules"]
    IN  /\ query' = IF mounted /\ ~Mounted
                    THEN [q2 EXCEPT !["modules"] =
                            IF stale \/ list.data = Unloaded THEN Sent(list, 0) ELSE list]
                    ELSE IF ~mounted
                    THEN [q2 EXCEPT !["modules"] = [list EXCEPT !.at = "idle", !.answer = Unloaded]]
                    ELSE q2
        /\ act' = IF \/ act.at = "open" /\ ~Offered(q2, act.module)
                     \/ act.at = "settling" /\ \A q \in Queries : q2[q].at = "idle"
                  THEN NoAct ELSE act

\* The fetch an upload's dialog waited for has ended: the dialog closes and the
\* panel turns to the newest module.
AfterFetch(q) ==
    IF q = "modules" /\ dialog.step = "refetching"
    THEN dialog' = NoDialog /\ focus' = NoFocus ELSE UNCHANGED <<dialog, focus>>

PollUploaded ==
    /\ Mounted /\ query["modules"].data # Unloaded /\ query["modules"].at = "idle"
    /\ \E m \in Modules : query["modules"].data[m] = "uploaded"
    /\ query' = [query EXCEPT !["modules"] = Sent(@, 0)]
    /\ UNCHANGED <<moduleVars, active, dialog, act, focus, bounds>>

\* Two seconds have passed with a pending module in the list.
Poll ==
    /\ Mounted /\ query["modules"].data # Unloaded /\ query["modules"].at = "idle"
    /\ \E m \in Modules : query["modules"].data[m] \in Pending
    /\ query' = [query EXCEPT !["modules"] = Sent(@, 0)]
    /\ UNCHANGED <<moduleVars, active, dialog, act, focus, bounds>>

\* The window gets the focus, and the query is no longer fresh.
Refocus(q) ==
    /\ query[q].at = "idle" /\ (q = "modules" => Mounted)
    /\ events < MaxEvents /\ events' = events + 1
    /\ query' = [query EXCEPT ![q] = Sent(@, 0)]
    /\ UNCHANGED <<moduleVars, active, dialog, act, focus, posts>>

Read(q) ==
    /\ query[q].at = "sent"
    /\ query' = [query EXCEPT ![q].at = "answered", ![q].answer = Current(q)]
    /\ UNCHANGED <<moduleVars, active, dialog, act, focus, bounds>>

ReadFails(q) ==
    /\ query[q].at = "sent"
    /\ events < MaxEvents /\ events' = events + 1
    /\ query' = [query EXCEPT ![q].at = "answered"]
    /\ UNCHANGED <<moduleVars, active, dialog, act, focus, posts>>

Loaded(q) ==
    /\ query[q].at = "answered" /\ query[q].answer # Unloaded
    /\ \E stale \in BOOLEAN : Show([query EXCEPT ![q] = [Idle EXCEPT !.data = query[q].answer]], stale)
    /\ AfterFetch(q)
    /\ UNCHANGED <<moduleVars, active, bounds>>

Retry(q) ==
    /\ query[q].at = "answered" /\ query[q].answer = Unloaded /\ query[q].tries = 0
    /\ query' = [query EXCEPT ![q] = Sent(@, 1)]
    /\ UNCHANGED <<moduleVars, active, dialog, act, focus, bounds>>

LoadFails(q) ==
    /\ query[q].at = "answered" /\ query[q].answer = Unloaded /\ query[q].tries = 1
    /\ Show([query EXCEPT ![q] = [Idle EXCEPT !.data = query[q].data, !.failed = TRUE]], FALSE)
    /\ IF q = "hook" THEN dialog' = NoDialog /\ focus' = NoFocus ELSE AfterFetch(q)
    /\ UNCHANGED <<moduleVars, active, bounds>>

InvalidatedJoining(qs) ==
    [q \in Queries |->
        IF q \in qs /\ (q = "modules" => Mounted) /\ query[q].at = "idle"
        THEN Sent(query[q], 0) ELSE query[q]]

\* invalidateQueries on a query that is shown: a new fetch in place of a running
\* one, or, as long as there is no data, the running one.
Invalidated(qs) ==
    [q \in Queries |->
        IF q \in qs /\ (q = "modules" => Mounted) /\ ~(query[q].data = Unloaded /\ query[q].at # "idle")
        THEN Sent(query[q], 0) ELSE query[q]]

-----------------------------------------------------------------------------
(* Uploading.                                                                *)

ActOpen == act.at \in {"open", "sending"}
ActShown == ActOpen /\ Offered(query, act.module)

OpenUpload ==
    /\ Mounted /\ ~ActShown /\ dialog.step = "closed"
    /\ dialog' = [dialog EXCEPT !.step = IF dialog.file = None THEN "pick" ELSE "picked"]
    /\ UNCHANGED <<moduleVars, active, query, act, focus, bounds>>

\* The dialog cannot be left while the upload is pending.
CloseUpload ==
    /\ dialog.step \in {"pick", "picked", "refused", "unconfirmed"}
    /\ dialog' = [NoDialog EXCEPT !.chosen = dialog.chosen]
    /\ UNCHANGED <<moduleVars, active, query, act, focus, bounds>>

ChooseFile(m) ==
    /\ dialog.step \in {"pick", "refused"} /\ dialog.chosen = None
    /\ dialog' = [dialog EXCEPT !.chosen = m]
    /\ UNCHANGED <<moduleVars, active, query, act, focus, bounds>>

\* The first bytes are read: the step changes even if the dialog was closed
\* meanwhile, and shows when it is opened again.
FileChecked ==
    LET m == dialog.chosen
        to == IF m \in Broken THEN "pick" ELSE "picked"
    IN  /\ m # None
        /\ dialog' = [dialog EXCEPT !.chosen = None,
                        !.file = IF m \in Broken THEN None ELSE m,
                        !.step = IF @ = "closed" THEN @ ELSE to]
        /\ UNCHANGED <<moduleVars, active, query, act, focus, bounds>>

Submit(u) ==
    /\ dialog.step = "picked" /\ dialog.file # None
    /\ posts < MaxPosts /\ posts' = posts + 1
    /\ Post(u, dialog.file)
    /\ dialog' = [dialog EXCEPT !.step = "sending", !.upload = u]
    /\ UNCHANGED <<active, query, act, focus, events>>

Created ==
    /\ dialog.step = "sending" /\ upload[dialog.upload].at = "created"
    /\ Forget(dialog.upload)
    /\ query' = Invalidated({"modules"})
    /\ dialog' = [dialog EXCEPT !.step = "refetching", !.upload = None]
    /\ UNCHANGED <<active, act, focus, bounds>>

Exists ==
    /\ dialog.step = "sending" /\ upload[dialog.upload].at = "exists"
    /\ Forget(dialog.upload)
    /\ dialog' = [dialog EXCEPT !.step = "refused", !.upload = None]
    /\ UNCHANGED <<active, query, act, focus, bounds>>

\* The answer is lost; the server may still be at work.
NoAnswer ==
    /\ dialog.step = "sending"
    /\ dialog' = [dialog EXCEPT !.step = "unconfirmed", !.upload = None]
    /\ UNCHANGED <<moduleVars, active, query, act, focus, bounds>>

BackToVersions ==
    /\ dialog.step = "unconfirmed"
    /\ query' = Invalidated({"modules"})
    /\ dialog' = NoDialog
    /\ UNCHANGED <<moduleVars, active, act, focus, bounds>>

-----------------------------------------------------------------------------
(* Activating.                                                               *)

\* Bound: one activation is on its way at a time.
OpenActivate(m) ==
    /\ ~ActOpen /\ dialog.step = "closed" /\ Offered(query, m)
    /\ ~(act.at = "settling" /\ act.module = m)
    /\ act' = [NoAct EXCEPT !.at = "open", !.module = m]
    /\ UNCHANGED <<moduleVars, active, query, dialog, focus, bounds>>

CancelActivate ==
    /\ act.at = "open"
    /\ act' = NoAct
    /\ UNCHANGED <<moduleVars, active, query, dialog, focus, bounds>>

ConfirmActivate ==
    /\ act.at = "open"
    /\ act' = [act EXCEPT !.at = "sending"]
    /\ UNCHANGED <<moduleVars, active, query, dialog, focus, bounds>>

\* PUT binding: only a validated version is accepted (409).
Activate ==
    /\ act.at = "sending" /\ act.answer = "none"
    /\ IF status[act.module] = "validated"
       THEN active' = act.module /\ act' = [act EXCEPT !.answer = "ok"]
       ELSE act' = [act EXCEPT !.answer = "conflict"] /\ UNCHANGED active
    /\ UNCHANGED <<moduleVars, query, dialog, focus, bounds>>

\* onActivated closes the dialog at once; both queries are fetched again.
Activated ==
    /\ act.at = "sending" /\ act.answer = "ok"
    /\ act' = [act EXCEPT !.at = "settling"]
    /\ focus' = IF Mounted THEN [kind |-> "activated", module |-> act.module] ELSE focus
    /\ query' = Invalidated(Queries)
    /\ UNCHANGED <<moduleVars, active, dialog, bounds>>

\* Refused, or no answer, whatever the server did or has yet to do.
ActivateFails ==
    /\ act.at = "sending" /\ act.answer # "ok"
    /\ act' = IF Offered(query, act.module) THEN [NoAct EXCEPT !.at = "open", !.module = act.module]
               ELSE NoAct
    /\ active' \in IF act.answer = "none" /\ status[act.module] = "validated"
                   THEN {active, act.module} ELSE {active}
    /\ UNCHANGED <<moduleVars, query, dialog, focus, bounds>>

\* "Показать причину".
ShowReason(m) ==
    /\ Mounted /\ Content(query["modules"]) /\ Table[m] = "rejected" /\ Panel.module # m
    /\ focus' = [kind |-> "rejected", module |-> m]
    /\ UNCHANGED <<moduleVars, active, query, dialog, act, bounds>>

-----------------------------------------------------------------------------
(* Elsewhere: another tab of the tenant, or a script with its token.         *)

PostElsewhere ==
    /\ posts < MaxPosts /\ posts' = posts + 1
    /\ \E u \in Uploads \ {dialog.upload}, m \in Modules : Post(u, m)
    /\ UNCHANGED <<active, query, dialog, act, focus, events>>

AnsweredElsewhere ==
    /\ \E u \in Uploads \ {dialog.upload} : Forget(u)
    /\ UNCHANGED <<active, pageVars>>

ActivateElsewhere(m) ==
    /\ status[m] = "validated" /\ active' = m
    /\ UNCHANGED <<moduleVars, pageVars>>

-----------------------------------------------------------------------------

User ==
    \/ OpenUpload \/ CloseUpload \/ FileChecked
    \/ \E f \in Modules \cup Broken : ChooseFile(f)
    \/ \E m \in Modules : OpenActivate(m) \/ ShowReason(m)
    \/ \E u \in Uploads : Submit(u)
    \/ BackToVersions \/ CancelActivate \/ ConfirmActivate

Client ==
    \/ Poll \/ Created \/ Exists \/ NoAnswer \/ Activated \/ ActivateFails
    \/ \E q \in Queries : Refocus(q) \/ Loaded(q) \/ Retry(q) \/ LoadFails(q)

Answers ==
    \/ Activate
    \/ \E q \in Queries : Read(q) \/ ReadFails(q)

PageNext ==
    User \/ Client \/ Answers \/ PostElsewhere \/ AnsweredElsewhere \/ \E m \in Modules : ActivateElsewhere(m)

TenantNext == PageNext \/ (LifecycleNext /\ UNCHANGED <<active, pageVars>>)

\* The server keeps its promise; the list's reads are answered and the answers
\* taken; the poll's timer fires.
TenantFairness ==
    /\ LifecycleFairness
    /\ WF_vars(Poll) /\ WF_vars(Read("modules"))
    /\ WF_vars(Loaded("modules") \/ Retry("modules") \/ LoadFails("modules"))

TenantSafety == Init /\ [][TenantNext]_vars
TenantSpec == TenantSafety /\ TenantFairness

-----------------------------------------------------------------------------

\* A version that the page offers to activate is never refused, however old the
\* list is that offers it.
OfferedIsAccepted == act.answer # "conflict"

\* When the dialog of a successful upload closes, the list (had it been loaded
\* before, and unless it shows its error) has the module, and the panel speaks of
\* it or of a newer one, not of what the user looked at before.
UploadedIsShown ==
    [][\A m \in Modules :
        dialog.step = "refetching" /\ dialog.file = m /\ dialog' # dialog
        /\ Mounted' /\ Table # Unloaded /\ ~(query["modules"].failed)'
        => /\ Listed(m)'
           /\ \E i, j \in DOMAIN rows : rows[i] = m /\ rows[j] = (Panel.module)' /\ i <= j]_vars

\* A listed module that waits is seen to get its verdict, without the user doing
\* anything, as long as the page is shown: the polling goes on through errors of
\* the list and restarts of the server.
Waiting(m) == Table # Unloaded /\ Table[m] \in Pending
PendingGetsVerdict ==
    \A m \in Modules :
        (Mounted /\ Waiting(m)) ~> (~Mounted \/ ~Waiting(m))
===============================================================================
