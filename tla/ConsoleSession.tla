---------------------------- MODULE ConsoleSession ----------------------------
(* One browser tab of the web console and the session it keeps.  A tab shows  *)
(* one console (the operator's or a tenant's; no link leads from one to the   *)
(* other, and each has a storage key of its own).  sessionStorage keeps the   *)
(* console's credential and outlives a page load, the query cache and the     *)
(* requests in flight do not.  Requests race the user: a candidate is         *)
(* checked while the address brings another token, a session ends while an    *)
(* answer is on its way, a token expires while the tab sleeps.                *)
EXTENDS FiniteSets, Naturals

CONSTANTS
    Keys,        \* installation keys a user may type
    Bogus,       \* those of Keys the server never issued
    Tokens,      \* tenant tokens
    Exp,         \* their exp claim, in ticks
    MaxDelay,    \* the longest setTimeout (MAX_TIMER_DELAY_MS), in ticks
    MaxTime,     \* bound: ticks
    MaxUpsets,   \* bound: answers lost or 5xx, and page loads
    None

ASSUME CredentialsAssumption ==
    /\ Bogus \subseteq Keys /\ None \notin Keys \cup Tokens /\ Keys \cap Tokens = {}
    /\ Exp \in [Tokens -> Nat \ {0}] /\ MaxDelay \in Nat \ {0}
    /\ MaxTime \in Nat /\ MaxUpsets \in Nat

Kinds == {"operator", "tenant"}

VARIABLES
    page,      \* the console the tab shows, the same throughout
    ready,     \* the tenant gate's mount effect has run
    stored,    \* sessionStorage: the console's credential or None
    value,     \* the gate's input
    checking,  \* the gate's verify is on its way
    timer,     \* the expiry timer of the tenant gate
    calls,     \* requests of this page in flight
    cached,    \* whose data the page's query holds
    failed,    \* the query gave up: its error is shown in place of the data
    clock,
    revoked,   \* keys the server has revoked
    tab,       \* the tab opened for a tenant's console
    upsets     \* answers lost or 5xx, and page loads so far

gateVars == <<value, checking>>
cacheVars == <<cached, failed>>
vars == <<page, ready, stored, gateVars, timer, calls, cacheVars, clock, revoked, tab, upsets>>

Requests == {"query", "verify", "save", "revoke", "open"}
Call == [what : Requests, token : Keys \cup Tokens,
         target : Keys \cup {None}, tries : {0, 1}, answer : {"none", "ok", "401", "error"}]

Idle == [of |-> None, due |-> 0]
Request(what, token, target, tries) ==
    [what |-> what, token |-> token, target |-> target, tries |-> tries, answer |-> "none"]
Queries == {c \in calls : c.what = "query"}

\* Bound: the page sends one change at a time (a pending dialog is modal).
Changing == \E c \in calls : c.what \in {"save", "revoke", "open"}

Expired(t) == Exp[t] <= clock
Least(m, n) == IF m <= n THEN m ELSE n

\* The gate shows its children: the page's queries are mounted.
Showing == stored # None /\ (page = "tenant" => ready)

Init ==
    /\ page \in Kinds /\ ready = FALSE
    /\ stored = None
    /\ value = None /\ checking = FALSE /\ timer = Idle
    /\ calls = {} /\ cached = None /\ failed = FALSE
    /\ clock = 0 /\ revoked = {} /\ tab = "none"
    /\ upsets = 0

-----------------------------------------------------------------------------
(* Tokens come and go.                                                      *)

\* check() of the expiry effect: clear an expired token or arm the timer for
\* the rest of its life, at most MaxDelay at a time.
Armed(t) == [of |-> t, due |-> clock + Least(Exp[t] - clock, MaxDelay)]

\* Fault: the page's queries run on.
ClearTokenOnly(left) == stored' = None /\ timer' = Idle /\ calls' = left

\* clearToken: the gate unmounts the page, which aborts its queries; the query
\* cache and the page's mutations stay, with what their answers do to the cache.
Clear(left) ==
    /\ stored' = None
    /\ timer' = Idle
    /\ calls' = left \ Queries

\* setToken and what React makes of it: the page's query is mounted (it fetches
\* unless it has data younger than staleTime), the expiry effect runs anew.
Keep(t, left) ==
    IF page = "tenant" /\ Expired(t)
    THEN Clear(left)
    ELSE /\ stored' = t
         /\ timer' = IF page = "tenant" /\ timer.of # t THEN Armed(t) ELSE timer
         /\ calls' \in {left, left \cup {Request("query", t, None, 0)}}
         /\ Showing => calls' = left
         /\ calls' = left => Showing \/ cached # None

\* The gate's effect on mount: adopt the fragment's token, else drop a stored
\* one that has expired.
Mount(fragment) ==
    LET t == IF fragment # None THEN fragment ELSE stored
    IN  /\ page = "tenant" /\ ~ready
        /\ ready' = TRUE
        /\ IF t = None THEN UNCHANGED <<stored, timer, calls>>
           ELSE Keep(t, calls)
        /\ UNCHANGED <<page, gateVars, cacheVars, clock, revoked, tab, upsets>>

\* hashchange: a fragment typed or followed on the open page replaces the token.
Adopt(t) ==
    /\ page = "tenant" /\ ready
    /\ Keep(t, calls)
    /\ UNCHANGED <<page, ready, gateVars, cacheVars, clock, revoked, tab, upsets>>

\* Fault: the timer does not go on with what is left.
FireOnce ==
    /\ timer # Idle /\ timer.due <= clock
    /\ IF Expired(timer.of)
       THEN Clear(calls)
       ELSE timer' = Idle /\ UNCHANGED <<stored, calls>>
    /\ UNCHANGED <<page, ready, gateVars, cacheVars, clock, revoked, tab, upsets>>

\* The timer of the expiry effect fires: clear, or re-arm for what is left.
Fire ==
    /\ timer # Idle /\ timer.due <= clock
    /\ IF Expired(timer.of)
       THEN Clear(calls)
       ELSE timer' = Armed(timer.of) /\ UNCHANGED <<stored, calls>>
    /\ UNCHANGED <<page, ready, gateVars, cacheVars, clock, revoked, tab, upsets>>

\* "Выйти": the credential and every query of the console are forgotten.
SignOut ==
    /\ stored # None
    /\ Clear(calls)
    /\ cached' = None /\ failed' = FALSE
    /\ UNCHANGED <<page, ready, gateVars, clock, revoked, tab, upsets>>

-----------------------------------------------------------------------------
(* The gate's form.                                                         *)

FormShown == stored = None /\ (page = "tenant" => ready)

Type(v) ==
    /\ FormShown /\ value # v
    /\ value' = v
    /\ UNCHANGED <<page, ready, stored, checking, timer, calls, cacheVars, clock,
                   revoked, tab, upsets>>

\* The candidate is the input at this moment; an expired tenant token is refused
\* without asking the server.
Submit ==
    /\ FormShown /\ value # None /\ ~checking
    /\ ~(page = "tenant" /\ Expired(value))
    /\ checking' = TRUE
    /\ calls' = calls \cup {Request("verify", value, None, 0)}
    /\ UNCHANGED <<page, ready, stored, value, timer, cacheVars, clock, revoked, tab,
                   upsets>>

-----------------------------------------------------------------------------
(* The page's requests: the credential is read when a request is sent.      *)

\* A query is fetched again (window focus, remount, poll); one at a time.
Fetch ==
    /\ Showing /\ Queries = {}
    /\ calls' = calls \cup {Request("query", stored, None, 0)}
    /\ UNCHANGED <<page, ready, stored, gateVars, timer, cacheVars, clock, revoked, tab,
                   upsets>>

\* A form of the page is sent: a hook's on the operator's console, an activation or
\* parameters on the tenant's.  Nothing on the page waits for it.
Save ==
    /\ Showing /\ ~Changing
    /\ page = "tenant" => cached # None /\ ~failed
    /\ calls' = calls \cup {Request("save", stored, None, 0)}
    /\ UNCHANGED <<page, ready, stored, gateVars, timer, cacheVars, clock, revoked, tab,
                   upsets>>

\* The key list is on screen and the operator confirms the revocation of k.
Revoke(k) ==
    /\ page = "operator" /\ Showing /\ cached # None /\ ~failed /\ ~Changing
    /\ k \notin Bogus
    /\ calls' = calls \cup {Request("revoke", stored, k, 0)}
    /\ UNCHANGED <<page, ready, stored, gateVars, timer, cacheVars, clock, revoked, tab,
                   upsets>>

\* "Открыть консоль": the tab is opened, detached and its storage cleared before
\* the session is asked for.
Open ==
    /\ page = "operator" /\ Showing /\ cached # None /\ ~failed /\ ~Changing
    /\ tab = "none"
    /\ tab' = "opening"
    /\ calls' = calls \cup {Request("open", stored, None, 0)}
    /\ UNCHANGED <<page, ready, stored, gateVars, timer, cacheVars, clock, revoked, upsets>>

-----------------------------------------------------------------------------
(* The server.                                                              *)

Accepts(c) == IF page = "operator" THEN c.token \notin revoked \cup Bogus
              ELSE Exp[c.token] > clock

Answered(c, answer) == calls' = (calls \ {c}) \cup {[c EXCEPT !.answer = answer]}

Answer(c) ==
    /\ c.answer = "none"
    /\ Answered(c, IF Accepts(c) THEN "ok" ELSE "401")
    /\ revoked' = IF Accepts(c) /\ c.what = "revoke" THEN revoked \cup {c.target}
                  ELSE revoked
    /\ UNCHANGED <<page, ready, stored, gateVars, timer, cacheVars, clock, tab, upsets>>

\* The answer is lost or a 5xx; a revocation may have been done all the same.
Fault(c) ==
    /\ c.answer = "none" /\ upsets < MaxUpsets
    /\ Answered(c, "error")
    /\ revoked' \in IF c.what = "revoke" /\ Accepts(c)
                    THEN {revoked, revoked \cup {c.target}} ELSE {revoked}
    /\ upsets' = upsets + 1
    /\ UNCHANGED <<page, ready, stored, gateVars, timer, cacheVars, clock, tab>>

\* A key is revoked from another tab or the command line.
RevokeElsewhere(k) ==
    /\ page = "operator" /\ k \notin revoked \cup Bogus
    /\ revoked' = revoked \cup {k}
    /\ UNCHANGED <<page, ready, stored, gateVars, timer, calls, cacheVars, clock, tab,
                   upsets>>

-----------------------------------------------------------------------------
(* Answers reach the page.                                                  *)

\* Fault: the input is read again after the verdict.
VerdictOnInput(c) ==
    /\ c.what = "verify" /\ c.answer # "none"
    /\ checking' = FALSE
    /\ IF c.answer = "ok" \/ (c.answer = "error" /\ page = "tenant")
       THEN Keep(value, calls \ {c})
       ELSE calls' = calls \ {c} /\ UNCHANGED <<stored, timer>>
    /\ UNCHANGED <<page, ready, value, cacheVars, clock, revoked, tab, upsets>>

\* Fault: a refused candidate ends the session there is.
VerdictEnds(c) ==
    /\ c.what = "verify" /\ c.answer # "none"
    /\ checking' = FALSE
    /\ IF c.answer = "ok" \/ (c.answer = "error" /\ page = "tenant")
       THEN Keep(c.token, calls \ {c})
       ELSE Clear(calls \ {c})
    /\ UNCHANGED <<page, ready, value, cacheVars, clock, revoked, tab, upsets>>

\* The verdict on a candidate: only the operator's console insists on a yes,
\* the tenant's refuses on 401 only.  The gate reads no storage here.
Verdict(c) ==
    /\ c.what = "verify" /\ c.answer # "none"
    /\ checking' = FALSE
    /\ IF c.answer = "ok" \/ (c.answer = "error" /\ page = "tenant")
       THEN Keep(c.token, calls \ {c})
       ELSE calls' = calls \ {c} /\ UNCHANGED <<stored, timer>>
    /\ UNCHANGED <<page, ready, value, cacheVars, clock, revoked, tab, upsets>>

\* 401 to a request that carried the stored credential ends the console's
\* session, whichever credential is stored by now.
Refused(c) ==
    /\ c.what # "verify" /\ c.answer = "401"
    /\ Clear(calls \ {c})
    /\ tab' = IF c.what = "open" THEN "closed" ELSE tab
    /\ UNCHANGED <<page, ready, gateVars, cacheVars, clock, revoked, upsets>>

Loaded(c) ==
    /\ c.what = "query" /\ c.answer = "ok"
    /\ calls' = calls \ {c}
    /\ cached' = c.token /\ failed' = FALSE
    /\ UNCHANGED <<page, ready, stored, gateVars, timer, clock, revoked, tab, upsets>>

\* A failed query is tried once more; after that the page shows the error.
LoadFails(c) ==
    /\ c.what = "query" /\ c.answer = "error"
    /\ calls' = (calls \ {c}) \cup
                (IF c.tries = 0 THEN {Request("query", stored, None, 1)} ELSE {})
    /\ failed' = (failed \/ c.tries = 1)
    /\ UNCHANGED <<page, ready, stored, gateVars, timer, cached, clock, revoked, tab,
                   upsets>>

\* invalidateQueries at the end of c: the page's query, if on screen, is fetched
\* again in place of a fetch that runs; one that runs for the first data is joined.
Invalidated(c) ==
    /\ calls' = IF ~Showing \/ (cached = None /\ Queries # {}) THEN calls \ {c}
                ELSE (calls \ (Queries \cup {c})) \cup {Request("query", stored, None, 0)}
    /\ UNCHANGED <<cached, failed>>

\* useCreateHook, useReplaceHook: the hook saved is put into the cache, whoever is
\* signed in by then.  The tenant's saves invalidate what the page shows.
Saved(c) ==
    /\ c.what = "save" /\ c.answer \in {"ok", "error"}
    /\ \/ c.answer = "error" /\ calls' = calls \ {c} /\ UNCHANGED cacheVars
       \/ /\ c.answer = "ok" /\ page = "operator"
          /\ calls' = calls \ {c}
          /\ cached' = c.token /\ failed' = FALSE
       \/ c.answer = "ok" /\ page = "tenant" /\ Invalidated(c)
    /\ UNCHANGED <<page, ready, stored, gateVars, timer, clock, revoked, tab, upsets>>

\* Fault: the list is not asked for again.
RevokedQuietly(c) ==
    /\ c.what = "revoke" /\ c.answer \in {"ok", "error"}
    /\ calls' = calls \ {c}
    /\ UNCHANGED <<page, ready, stored, gateVars, timer, cached, failed, clock, revoked, tab,
                   upsets>>

\* useRevokeApiKey: on success the list is invalidated.
Revoked(c) ==
    /\ c.what = "revoke" /\ c.answer \in {"ok", "error"}
    /\ \/ c.answer = "error" /\ calls' = calls \ {c} /\ UNCHANGED cacheVars
       \/ c.answer = "ok" /\ Invalidated(c)
    /\ UNCHANGED <<page, ready, stored, gateVars, timer, clock, revoked, tab, upsets>>

\* Fault: the tab stays when there is no session for it.
OpenedOnly(c) ==
    /\ c.what = "open" /\ c.answer \in {"ok", "error"}
    /\ tab' = IF c.answer = "ok" THEN "console" ELSE tab
    /\ calls' = calls \ {c}
    /\ UNCHANGED <<page, ready, stored, gateVars, timer, cacheVars, clock, revoked, upsets>>

\* The tab goes to /tenant#token=..., or is closed when there is no session.
Opened(c) ==
    /\ c.what = "open" /\ c.answer \in {"ok", "error"}
    /\ tab' = IF c.answer = "ok" THEN "console" ELSE "closed"
    /\ calls' = calls \ {c}
    /\ UNCHANGED <<page, ready, stored, gateVars, timer, cacheVars, clock, revoked, upsets>>

Deliver(c) ==
    Verdict(c) \/ Refused(c) \/ Loaded(c) \/ LoadFails(c) \/ Saved(c) \/ Revoked(c)
    \/ Opened(c)

-----------------------------------------------------------------------------
(* The browser.                                                             *)

\* A page load: storage stays, everything else of the page is gone; on the
\* operator's page a stored key shows the page, and its query fetches, at once.
Load ==
    /\ upsets < MaxUpsets /\ upsets' = upsets + 1
    /\ ready' = FALSE /\ value' = None /\ checking' = FALSE /\ timer' = Idle
    /\ calls' = IF page = "operator" /\ stored # None
                THEN {Request("query", stored, None, 0)} ELSE {}
    /\ cached' = None /\ failed' = FALSE
    /\ tab' = IF tab = "opening" THEN "orphaned" ELSE tab
    /\ UNCHANGED <<page, stored, clock, revoked>>

\* Only the tenant's console looks at the clock.
Tick ==
    /\ page = "tenant" /\ clock < MaxTime /\ clock' = clock + 1
    /\ UNCHANGED <<page, ready, stored, gateVars, timer, calls, cacheVars, revoked, tab,
                   upsets>>

User ==
    \/ \E t \in Tokens : Adopt(t)
    \/ \E v \in IF page = "operator" THEN Keys ELSE Tokens : Type(v)
    \/ Submit
    \/ Fetch
    \/ Save
    \/ \E k \in Keys : Revoke(k)
    \/ Open
    \/ SignOut
    \/ Load

Next ==
    \/ User
    \/ \E t \in Tokens \cup {None} : Mount(t)
    \/ Fire
    \/ \E c \in calls : Answer(c) \/ Fault(c) \/ Deliver(c)
    \/ \E k \in Keys : RevokeElsewhere(k)
    \/ Tick

\* The event loop runs effects, timers and the continuations of answered
\* requests; the server answers; time passes.  Users owe nothing.
Fairness ==
    /\ WF_vars(Tick) /\ WF_vars(Fire)
    /\ WF_vars(\E t \in Tokens \cup {None} : Mount(t))
    /\ \A w \in Requests :
        /\ WF_vars(\E c \in calls : c.what = w /\ Answer(c))
        /\ WF_vars(\E c \in calls : c.what = w /\ Deliver(c))

Spec == Init /\ [][Next]_vars
FairSpec == Spec /\ Fairness

-----------------------------------------------------------------------------

TypeOK ==
    /\ page \in Kinds /\ ready \in BOOLEAN /\ checking \in BOOLEAN
    /\ failed \in BOOLEAN
    /\ stored \in {None} \cup (IF page = "operator" THEN Keys ELSE Tokens)
    /\ value \in Keys \cup Tokens \cup {None} /\ cached \in Keys \cup Tokens \cup {None}
    /\ timer \in [of : Tokens \cup {None}, due : Nat]
    /\ calls \subseteq Call /\ revoked \subseteq Keys
    /\ tab \in {"none", "opening", "console", "closed", "orphaned"}
    /\ clock \in 0..MaxTime /\ upsets \in 0..MaxUpsets

\* A key the operator's console keeps is one the server said yes to: editing the
\* input while the check runs, or the tenant's leniency, never lets another in
\* (session-gate.tsx sets the candidate it verified).
KeptKeyWasAccepted == stored \notin Bogus

\* While a tenant's page is shown, a timer runs for the very token that is
\* stored, never past its end and never longer than a timer may run: no token
\* outlives its exp unwatched.
ExpiryIsWatched ==
    page = "tenant" /\ ready /\ stored # None =>
        /\ timer.of = stored /\ timer.due <= Exp[stored]
        /\ timer.due <= clock + MaxDelay

\* A session ends or changes only by the user's own act, at its own exp, by a
\* 401 to a request of its console, or by a candidate that was let in: a refused
\* candidate, or the timer of an earlier token, never costs the session that
\* replaced it.
SessionEndsForAReason ==
    [][stored # None /\ stored' # stored =>
        \/ SignOut
        \/ \E t \in Tokens : Adopt(t) \/ Mount(t)
        \/ stored' = None /\ page = "tenant" /\ Expired(stored)
        \/ \E c \in calls : c.what # "verify" /\ c.answer = "401" /\ c \notin calls'
        \/ \E c \in calls : c.what = "verify" /\ c.answer # "401" /\ c \notin calls']_vars

\* While nobody is signed in no query fills the cache for the next one who enters,
\* whatever was on its way when the session ended.  What can come back is the hook
\* of a save that was on its way, which useReplaceHook puts there itself.
NothingLoadsSignedOut ==
    [][stored' = None /\ cached' # cached /\ cached' # None =>
        \E c \in calls : /\ c.what = "save" /\ c.answer = "ok" /\ c \notin calls'
                         /\ page = "operator" /\ cached' = c.token]_vars

\* When exp comes the tenant's console leaves the session by itself, without
\* waiting for a 401.
ExpiryEndsSession ==
    \A t \in Tokens : stored = t /\ Exp[t] <= clock ~> stored # t

\* "Если отозвать ключ, которым вошли, следующий запрос выведет из консоли": the
\* revocation makes the page ask its list again at once, and that is refused.  Only
\* if both tries of that request are lost does the operator stay, before its error.
OwnRevocationSignsOut ==
    \A k \in Keys :
        cached # None /\ (\E c \in calls : c.what = "revoke" /\ c.target = k /\ c.answer = "ok")
            ~> \/ stored # k
               \/ failed /\ ~\E c \in calls : c.what \in {"query", "revoke"}

\* The tab opened for a tenant's console ends as that console or is closed, also
\* when the operator's session ends meanwhile; only a reload of the operator's
\* page leaves it blank.
TabSettles == tab = "opening" ~> tab \in {"console", "closed", "orphaned"}
===============================================================================
