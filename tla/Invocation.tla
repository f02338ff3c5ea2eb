----------------------------- MODULE Invocation -----------------------------
(***************************************************************************)
(* One invocation of a tenant's hook, from the gateway to its outcome      *)
(* (internal/gateway, internal/executor: run), while snapshots arrive,     *)
(* other calls run and time passes.  The module cache and the pool are     *)
(* ModuleCache and InstancePool: here they answer with what they may       *)
(* answer.                                                                 *)
(*                                                                         *)
(* def_version names a hook's definition and config_version a binding's    *)
(* configuration for good (ConfigWrites, VersionsNameContent), so that     *)
(* versions stand for both.                                                *)
(***************************************************************************)
EXTENDS Integers

CONSTANTS
    Hashes,      \* modules a binding may name
    Timeout,     \* HookDef.Timeout, the same in every definition
    Deadlines,   \* deadlines an operator may ask for, the default among them
    MaxVersion,  \* bound of def_version and config_version
    MaxTime,     \* bound of the clock
    None

ASSUME ParametersAssumption ==
    /\ Timeout \in Nat \ {0} /\ MaxTime \in Nat /\ MaxVersion \in Nat
    /\ Deadlines \subseteq Nat \ {0}
    /\ None \notin Nat \cup Hashes

VARIABLES
    store,         \* the snapshot of Store.Current: its hook and binding
    seen,          \* Executor.hooks: definitions it remembers
    at,            \* where the call is
    pin,           \* what the gateway resolved (ExecuteRequest)
    run,           \* what the executor resolved
    now,           \* time since the call arrived
    deadline,      \* the deadline of the call's context
    ctxErr,        \* ctx.Err
    hookDeadline,  \* callerWatch.hookDeadline
    callDeadline,  \* the deadline of the context of Instance.Call
    endedAt,       \* callerWatch.endedAt
    cause,         \* what ended the context of Instance.Call first
    result,        \* what Instance.Call returned
    started,       \* the script ran
    lease,         \* what became of the call's lease
    outcome,       \* the outcome of the last call
    reason         \* and its reason

config == <<store, seen>>
time   == <<now, deadline, ctxErr>>
said   == <<outcome, reason>>
watch  == <<hookDeadline, callDeadline, endedAt, cause>>
vars == <<config, at, pin, run, time, watch, result, started, lease, said>>

Versions == 1..MaxVersion
Times == 0..MaxTime
Idle == [def |-> None, hash |-> None, cv |-> None]

Snapshots == [def : Versions, bound : BOOLEAN, hash : Hashes, cv : Versions]
Resolved == [def : Versions \cup {None}, hash : Hashes \cup {None}, cv : Versions \cup {None}]
Outcomes == {"none", "ok", "no_handler", "timeout", "handler_error", "unavailable"}
Reasons ==
    {"", "trap", "guest_error", "invalid_output", "invalid_effect", "invalid_module",
     "pool_saturated", "deadline_before_start", "module_fetch", "stale_config", "internal",
     "caller_deadline", "caller_canceled"}

TypeOK ==
    /\ store \in Snapshots \cup {None}
    /\ seen \subseteq Versions
    /\ at \in {"out", "pinned", "resolved", "compiled", "leased", "watched",
               "running", "ended"}
    /\ pin \in Resolved /\ run \in Resolved
    /\ now \in Times
    /\ deadline \in Nat
    /\ ctxErr \in {"none", "canceled", "deadline"}
    /\ hookDeadline \in Nat /\ callDeadline \in Nat
    /\ endedAt \in Times \cup {None}
    /\ cause \in {"none", "early", "canceled", "deadline", "hook"}
    /\ result \in {"none", "ok", "timeout", "trap", "guest", "closed"}
    /\ started \in BOOLEAN
    /\ lease \in {"none", "held", "healthy", "retired"}
    /\ outcome \in Outcomes /\ reason \in Reasons

Init ==
    /\ store = None
    /\ seen = {}
    /\ at = "out"
    /\ pin = Idle
    /\ run = Idle
    /\ now = 0 /\ deadline = 0 /\ ctxErr = "none"
    /\ hookDeadline = 0 /\ callDeadline = 0
    /\ endedAt = None
    /\ cause = "none"
    /\ result = "none"
    /\ started = FALSE
    /\ lease = "none"
    /\ outcome = "none" /\ reason = ""

-----------------------------------------------------------------------------
(* The configuration.                                                      *)

\* The poller stores a newer snapshot: the hook may be redefined, the binding
\* reconfigured, moved to another module, deactivated and activated again.
Update ==
    /\ store' \in Snapshots
    /\ IF store = None
       THEN store'.def = 1 /\ store'.cv = 1
       ELSE /\ store'.def \in {store.def, store.def + 1}
            /\ store'.cv \in {store.cv, store.cv + 1}
    /\ UNCHANGED <<seen, at, pin, run, time, watch, result, started, lease, said>>

\* Another call on the hook, or a preload: the executor sees its definition.
OtherCall ==
    /\ store # None
    /\ seen' = seen \cup {store.def}
    /\ UNCHANGED <<store, at, pin, run, time, watch, result, started, lease, said>>

-----------------------------------------------------------------------------
(* Time and the caller.                                                    *)

Tick ==
    /\ at # "out"
    /\ now < MaxTime
    /\ now' = now + 1
    /\ UNCHANGED <<config, at, pin, run, deadline, ctxErr, watch, result, started,
                   lease, said>>

\* The context of the call ends, and with it that of the script.
ContextEnds(why) ==
    /\ at # "out"
    /\ ctxErr = "none"
    /\ ctxErr' = why
    /\ cause' = IF at = "running" /\ cause = "none" THEN why ELSE cause
    /\ UNCHANGED <<config, at, pin, run, now, deadline, hookDeadline, callDeadline,
                   endedAt, result, started, lease, said>>

\* A timer never fires early, but may be late.
DeadlinePasses == now >= deadline /\ ContextEnds("deadline")

\* The operator closes the connection.
CallerGoes == ContextEnds("canceled")

\* The goroutine of context.AfterFunc notes the time; stop does not wait for it.
Note ==
    /\ at \in {"watched", "running", "ended"}
    /\ ctxErr # "none"
    /\ endedAt = None
    /\ endedAt' = now
    /\ UNCHANGED <<config, at, pin, run, time, hookDeadline, callDeadline, cause,
                   result, started, lease, said>>

-----------------------------------------------------------------------------
(* The gateway.                                                            *)

Answer(is, why) == at' = "out" /\ outcome' = is /\ reason' = why

\* Invoke reads the store once; everything it resolves is of one snapshot.
Invoke(d) ==
    /\ at = "out"
    /\ store # None
    /\ run' = Idle
    /\ now' = 0 /\ ctxErr' = "none"
    /\ hookDeadline' = 0 /\ callDeadline' = 0
    /\ endedAt' = None /\ cause' = "none" /\ result' = "none"
    /\ started' = FALSE /\ lease' = "none"
    /\ \/ /\ store.bound
          /\ at' = "pinned"
          /\ pin' = [def |-> store.def, hash |-> store.hash, cv |-> store.cv]
          /\ deadline' = d
          /\ outcome' = "none" /\ reason' = ""
       \/ /\ ~store.bound
          /\ Answer("no_handler", "")
          /\ pin' = Idle
          /\ deadline' = 0
    /\ UNCHANGED config

-----------------------------------------------------------------------------
(* The executor, until the script starts.                                  *)

\* Fault: the configuration is that of the executor's snapshot.
ResolveLatest ==
    LET known == seen \cup {store.def}
    IN  /\ at = "pinned"
        /\ seen' = known
        /\ \/ /\ pin.def \in known /\ store.bound
              /\ at' = "resolved"
              /\ run' = [def |-> pin.def, hash |-> pin.hash, cv |-> store.cv]
              /\ UNCHANGED said
           \/ /\ ~(pin.def \in known /\ store.bound)
              /\ Answer("unavailable", "stale_config")
              /\ UNCHANGED run
        /\ UNCHANGED <<store, pin, time, watch, result, started, lease>>

\* The executor reads the store again: it may be newer.  hookDef remembers the
\* current definition and finds the pinned one among those it remembers; the
\* binding must still have the pinned configuration.
Resolve ==
    LET known == seen \cup {store.def}
        valid == pin.def \in known /\ store.bound /\ store.cv = pin.cv
    IN  /\ at = "pinned"
        /\ seen' = known
        /\ \/ /\ valid
              /\ at' = "resolved"
              /\ run' = [def |-> pin.def, hash |-> pin.hash, cv |-> store.cv]
              /\ UNCHANGED said
           \/ /\ ~valid
              /\ Answer("unavailable", "stale_config")
              /\ UNCHANGED run
        /\ UNCHANGED <<store, pin, time, watch, result, started, lease>>

\* The caller's context ended before the script started.
NotStarted ==
    /\ ctxErr # "none"
    /\ Answer("unavailable",
              IF ctxErr = "canceled" THEN "caller_canceled" ELSE "deadline_before_start")

\* The module cache answers with a module, a verdict or a failure.
GetModule ==
    /\ at = "resolved"
    /\ \/ at' = "compiled" /\ UNCHANGED said
       \/ Answer("handler_error", "invalid_module")
       \/ \E r \in {"module_fetch", "internal"} : Answer("unavailable", r)
       \/ NotStarted
    /\ UNCHANGED <<config, pin, run, time, watch, result, started, lease>>

\* The pool hands out a lease, or refuses; an ended context comes first.
Acquire ==
    /\ at = "compiled"
    /\ \/ at' = "leased" /\ lease' = "held" /\ UNCHANGED said
       \/ /\ NotStarted \/ \E r \in {"pool_saturated", "internal"} :
                               ctxErr = "none" /\ Answer("unavailable", r)
          /\ UNCHANGED lease
    /\ UNCHANGED <<config, pin, run, time, watch, result, started>>

\* The context is looked at once more, and the watch set.
Watch ==
    /\ at = "leased"
    /\ \/ /\ NotStarted
          /\ lease' = "healthy"
          /\ UNCHANGED watch
       \/ /\ ctxErr = "none"
          /\ at' = "watched"
          /\ hookDeadline' = now + Timeout
          /\ UNCHANGED <<said, lease, callDeadline, endedAt, cause>>
    /\ UNCHANGED <<config, pin, run, time, result, started>>

-----------------------------------------------------------------------------
(* The script.                                                             *)

\* Instance.Call derives its own context from the call's, which may have ended
\* since it was looked at.
Start ==
    /\ at = "watched"
    /\ at' = "running"
    /\ started' = TRUE
    /\ callDeadline' = now + Timeout
    /\ cause' = IF ctxErr = "none" THEN "none" ELSE "early"
    /\ UNCHANGED <<config, pin, run, time, hookDeadline, endedAt, result, lease, said>>

\* The hook's limit; a context whose parent ends earlier has no timer of its own.
LimitPasses ==
    /\ at = "running"
    /\ callDeadline <= deadline /\ now >= callDeadline
    /\ cause = "none"
    /\ cause' = "hook"
    /\ UNCHANGED <<config, at, pin, run, time, hookDeadline, callDeadline, endedAt,
                   result, started, lease, said>>

\* The script returns, or fails, or is interrupted some time after its context
\* has ended; a failure after that is taken for the interruption (classify).
ScriptEnds ==
    /\ at = "running"
    /\ at' = "ended"
    /\ result' \in {"ok"} \cup
           (IF cause = "none" THEN {"trap", "guest", "closed"} ELSE {"timeout"})
    /\ UNCHANGED <<config, pin, run, time, watch, started, lease, said>>

\* Fault: the context is judged by its state when the call has returned.
CallerFirstNow ==
    IF ctxErr # "none" /\ deadline < hookDeadline THEN "deadline" ELSE ctxErr

\* callerWatch.callerFirst.
CallerFirst ==
    IF deadline < hookDeadline /\ ctxErr # "none"
    THEN "deadline"
    ELSE IF endedAt # None /\ ctxErr = "canceled" /\ endedAt < hookDeadline
         THEN "canceled"
         ELSE "none"

\* callFailure: the instance is retired.
ReportFailure ==
    /\ at = "ended" /\ result # "ok"
    /\ lease' = "retired"
    /\ \/ /\ result = "timeout"
          /\ \/ CallerFirst = "canceled" /\ Answer("unavailable", "caller_canceled")
             \/ CallerFirst = "deadline" /\ Answer("timeout", "caller_deadline")
             \/ CallerFirst \notin {"canceled", "deadline"} /\ Answer("timeout", "")
       \/ result = "trap" /\ Answer("handler_error", "trap")
       \/ result = "guest" /\ Answer("handler_error", "guest_error")
       \/ result = "closed" /\ Answer("handler_error", "internal")
    /\ UNCHANGED <<config, pin, run, time, watch, result, started>>

\* The output is parsed and checked; the instance is healthy whatever it says.
\* The output schema may be one that does not compile.
ReportOutput ==
    /\ at = "ended" /\ result = "ok"
    /\ lease' = "healthy"
    /\ \/ Answer("ok", "")
       \/ \E why \in {"invalid_output", "invalid_effect"} : Answer("handler_error", why)
       \/ Answer("unavailable", "internal")
    /\ UNCHANGED <<config, pin, run, time, watch, result, started>>

\* A panic in the call: the deferred Release retires the instance, and nothing is
\* answered.
Panic ==
    /\ at = "running"
    /\ at' = "out"
    /\ lease' = "retired"
    /\ UNCHANGED <<config, pin, run, time, watch, result, started, said>>

Next ==
    \/ Update \/ OtherCall
    \/ Tick \/ DeadlinePasses \/ CallerGoes \/ Note
    \/ \E d \in Deadlines : Invoke(d)
    \/ Resolve \/ GetModule \/ Acquire \/ Watch
    \/ Start \/ LimitPasses \/ ScriptEnds
    \/ ReportFailure \/ ReportOutput \/ Panic

Spec == Init /\ [][Next]_vars

-----------------------------------------------------------------------------
(* Correctness.                                                            *)

\* "Both sides agree on what runs even when their config snapshots differ"
\* (execproto): the definition, the module and the configuration of a script that
\* runs were one snapshot's, the one the gateway answered for.
RunsWhatWasPinned == started => run = pin

\* Who is blamed: the caller only if its context ended before the hook's limit
\* did, and what the gateway may report as not run, and thus to be retried, has not
\* run.  Only an instance whose call returned goes back to its pool.
BlameIsTrue ==
    at = "out" =>
        /\ reason \in {"caller_deadline", "caller_canceled"} /\ result = "timeout"
               => cause \in {"early", "canceled", "deadline"}
        /\ outcome \in {"ok", "timeout"} => started
        /\ reason \in {"stale_config", "module_fetch", "invalid_module",
                               "pool_saturated", "deadline_before_start"} => ~started
        /\ lease # "held"
        /\ lease = "healthy" /\ started => result = "ok"

-----------------------------------------------------------------------------
(* What the contract promises and the code does not keep.                  *)

\* api/invoke.openapi.yaml:359 "if the caller broke the connection while the
\* script ran, the outcome is unavailable", since it is not the tenant's fault:
\* here at least when the watch has noted it before the hook's limit and before
\* the caller's own deadline.
DisconnectIsUnavailable ==
    at = "out" /\ result = "timeout" /\ cause = "canceled" /\ outcome # "none" =>
        (endedAt \in Times /\ endedAt < hookDeadline /\ endedAt < deadline
            => outcome = "unavailable")
=============================================================================
