---------------------------- MODULE ModuleCache ----------------------------
(***************************************************************************)
(* The compiled modules of a data plane: the executor's cache with its     *)
(* single flight per key (internal/executor), the runtime that owns the    *)
(* modules (sandbox/extismrt), the validations that compile beside the     *)
(* cache, and the shutdown that takes all of it apart (cmd/dataplane).     *)
(*                                                                         *)
(* One action is one critical section of Executor.mu, one step of a        *)
(* flight, or one step of the goroutine that runs main.  What a call does  *)
(* with its module is one state, "using": leases and instances are         *)
(* InstancePool's, and here only which modules have idle ones matters.     *)
(***************************************************************************)
EXTENDS Integers, FiniteSets

CONSTANTS
    Calls,                \* invocations in flight
    Preloads,             \* goroutines of one Preload (errgroup limit)
    Checks,               \* validations the internal API serves at a time
    Keys,                 \* module hash and spec digest (modKey)
    Mods,                 \* compiled modules (*module), reused once dropped
    ValidateConcurrency,  \* Options.ValidateConcurrency
    None

Workers == Calls \cup Preloads

ASSUME MembersAssumption ==
    /\ Calls \cap Preloads = {}
    /\ None \notin Keys \cup Mods
    /\ IsFiniteSet(Checks)
    /\ ValidateConcurrency \in Nat \ {0}

VARIABLES
    at,        \* where a worker is in Executor.module
    key,       \* the key it looks for
    mod,       \* the answer in its channel, then the module it uses
    ended,     \* calls whose context has ended
    flight,    \* the single flight of each key
    modules,   \* Executor.modules
    invalid,   \* Executor.invalid
    closed,    \* Executor.closed
    pooled,    \* modules that have idle instances in the pool
    check,     \* the validations
    tracked,   \* Runtime.mods
    open,      \* modules whose compiled plugin exists
    kick,      \* preloadKick
    todo,      \* keys the running Preload has not handed out yet
    phase,     \* how far main has got
    overdue,   \* the 35 seconds of the shutdown ran out
    victims    \* modules main is closing

workers  == <<at, key, mod, ended>>
executor == <<modules, invalid, closed>>
runtime  == <<tracked, open>>
process  == <<kick, todo, phase, overdue, victims>>
vars == <<workers, flight, executor, pooled, check, runtime, process>>

Phases == {"serving", "draining", "internal", "joining", "joined", "pools",
           "modules", "locking", "closing", "closed"}

NoFlight == [at |-> "none", mod |-> None]
NoCheck  == [at |-> "idle", mod |-> None]

TypeOK ==
    /\ at \in [Workers -> {"out", "missed", "waiting", "answered", "using"}]
    /\ key \in [Workers -> Keys \cup {None}]
    /\ mod \in [Workers -> Mods \cup {None}]
    /\ ended \subseteq Calls
    /\ flight \in [Keys -> [at : {"none", "begun", "fetching", "compiling", "compiled",
                                  "invalid", "failed", "dropping", "done"},
                            mod : Mods \cup {None}]]
    /\ modules \in [Keys -> Mods \cup {None}]
    /\ invalid \subseteq Keys
    /\ closed \in BOOLEAN
    /\ pooled \subseteq Mods
    /\ check \in [Checks -> [at : {"idle", "waiting", "fetching", "compiling",
                                   "testing", "closing"},
                             mod : Mods \cup {None}]]
    /\ tracked \subseteq Mods
    /\ open \subseteq Mods
    /\ kick \in BOOLEAN
    /\ todo \subseteq Keys
    /\ phase \in Phases
    /\ overdue \in BOOLEAN
    /\ victims \subseteq Mods

\* The first snapshot has come: its preload is due.
Init ==
    /\ at = [w \in Workers |-> "out"]
    /\ key = [w \in Workers |-> None]
    /\ mod = [w \in Workers |-> None]
    /\ ended = {}
    /\ flight = [k \in Keys |-> NoFlight]
    /\ modules = [k \in Keys |-> None]
    /\ invalid = {}
    /\ closed = FALSE
    /\ pooled = {}
    /\ check = [v \in Checks |-> NoCheck]
    /\ tracked = {}
    /\ open = {}
    /\ kick = TRUE
    /\ todo = {}
    /\ phase = "serving"
    /\ overdue = FALSE
    /\ victims = {}

-----------------------------------------------------------------------------
(* Looking a module up.                                                    *)

\* Executor.mu is only held across a step by a compile that closes its module.
MuFree == \A k \in Keys : flight[k].at # "dropping"

Cached(k) == modules[k] # None \/ k \in invalid

\* Executor.module returns m, or a failure: a call goes on with a module.
Returns(w, m) ==
    LET goesOn == w \in Calls /\ m # None
    IN  /\ at' = [at EXCEPT ![w] = IF goesOn THEN "using" ELSE "out"]
        /\ mod' = [mod EXCEPT ![w] = IF goesOn THEN m ELSE None]
        /\ key' = [key EXCEPT ![w] = None]

\* The first look at the cache.
Look(w, k) ==
    /\ at[w] = "out"
    /\ MuFree
    /\ \/ Cached(k) /\ Returns(w, modules[k])
       \/ /\ ~Cached(k)
          /\ at' = [at EXCEPT ![w] = "missed"]
          /\ key' = [key EXCEPT ![w] = k]
          /\ UNCHANGED mod

\* An invocation reaches the executor: the public server accepts calls until
\* its Shutdown begins.
Call(c, k) ==
    /\ phase = "serving"
    /\ Look(c, k)
    /\ ended' = ended \ {c}
    /\ UNCHANGED <<flight, executor, pooled, check, runtime, process>>

\* DoChan: the flight of the key, or a new one.
Join(w) ==
    /\ at[w] = "missed"
    /\ at' = [at EXCEPT ![w] = "waiting"]
    /\ flight' = IF flight[key[w]].at = "none"
                 THEN [flight EXCEPT ![key[w]].at = "begun"]
                 ELSE flight
    /\ UNCHANGED <<key, mod, ended, executor, pooled, check, runtime, process>>

\* The answer is in the channel; with an ended context select may choose either.
Take(w) ==
    /\ at[w] = "answered"
    /\ Returns(w, mod[w])
    /\ UNCHANGED <<ended, flight, executor, pooled, check, runtime, process>>

\* The caller's deadline, or its disconnection.
CallerLeaves(c) ==
    /\ at[c] \in {"missed", "waiting", "answered"}
    /\ c \notin ended
    /\ ended' = ended \cup {c}
    /\ UNCHANGED <<at, key, mod, flight, executor, pooled, check, runtime, process>>

\* A preload runs under the context of the process.
ContextEnded(w) == IF w \in Calls THEN w \in ended ELSE phase # "serving"

\* The call stops waiting; the flight goes on without it.
GiveUp(w) ==
    /\ at[w] \in {"waiting", "answered"}
    /\ ContextEnded(w)
    /\ Returns(w, None)
    /\ UNCHANGED <<ended, flight, executor, pooled, check, runtime, process>>

\* The end of a call: its instance goes back to the pool, or is closed.
Release(c) ==
    /\ at[c] = "using"
    /\ at' = [at EXCEPT ![c] = "out"]
    /\ mod' = [mod EXCEPT ![c] = None]
    /\ \/ UNCHANGED pooled
       \/ /\ phase \in {"serving", "draining", "internal", "joining", "joined"}
          /\ pooled' = pooled \cup {mod[c]}
    /\ UNCHANGED <<key, ended, flight, executor, check, runtime, process>>

\* The pool closes the last idle instance of a module (reaper, eviction, reuse).
Expire(m) ==
    /\ m \in pooled
    /\ pooled' = pooled \ {m}
    /\ UNCHANGED <<workers, flight, executor, check, runtime, process>>

-----------------------------------------------------------------------------
(* A flight: the goroutine DoChan starts, detached from its first caller.  *)

Goes(k, stage, m) == flight' = [flight EXCEPT ![k] = [at |-> stage, mod |-> m]]

\* Fault: the flight does not look at the cache again.
RecheckNot(k) ==
    /\ flight[k].at = "begun"
    /\ Goes(k, "fetching", None)
    /\ UNCHANGED <<workers, executor, pooled, check, runtime, process>>

\* A flight for the key may have finished between the look and this one's start.
Recheck(k) ==
    /\ flight[k].at = "begun"
    /\ MuFree
    /\ IF Cached(k) THEN Goes(k, "done", modules[k]) ELSE Goes(k, "fetching", None)
    /\ UNCHANGED <<workers, executor, pooled, check, runtime, process>>

FetchFails(k) ==
    /\ flight[k].at = "fetching"
    /\ Goes(k, "done", None)
    /\ UNCHANGED <<workers, executor, pooled, check, runtime, process>>

\* RWMutex: a writer that waits keeps new readers out.
Readable == phase \notin {"locking", "closing"}

\* Runtime.Compile takes the read lock, and refuses on a closed runtime.
BeginCompile(k) ==
    /\ flight[k].at = "fetching"
    /\ Readable
    /\ Goes(k, IF phase = "closed" THEN "failed" ELSE "compiling", None)
    /\ UNCHANGED <<workers, executor, pooled, check, runtime, process>>

\* Modules nobody refers to any more stand for those to come.
Fresh ==
    Mods \ (open \cup tracked \cup pooled \cup victims
              \cup {mod[w] : w \in Workers}
              \cup {modules[k] : k \in Keys}
              \cup {flight[k].mod : k \in Keys}
              \cup {check[v].mod : v \in Checks})

\* The module exists and the runtime knows it before the read lock is given up.
Compiled(m) ==
    /\ m \in Fresh
    /\ open' = open \cup {m}
    /\ tracked' = tracked \cup {m}

\* A module that does not start in time is invalid as well, so any may be.
EndCompile(k) ==
    /\ flight[k].at = "compiling"
    /\ \/ \E m \in Mods : Compiled(m) /\ Goes(k, "compiled", m)
       \/ \E stage \in {"invalid", "failed"} : Goes(k, stage, None) /\ UNCHANGED runtime
    /\ UNCHANGED <<workers, executor, pooled, check, process>>

\* The critical section at the end of Executor.compile.
Store(k) ==
    /\ flight[k].at = "compiled" /\ ~closed
    /\ modules' = [modules EXCEPT ![k] = flight[k].mod]
    /\ Goes(k, "done", flight[k].mod)
    /\ UNCHANGED <<invalid, tracked>>

StoreVerdict(k) ==
    /\ flight[k].at = "invalid"
    /\ invalid' = invalid \cup {k}
    /\ Goes(k, "done", None)
    /\ UNCHANGED <<modules, tracked>>

StoreNothing(k) ==
    /\ flight[k].at = "failed"
    /\ Goes(k, "done", None)
    /\ UNCHANGED <<modules, invalid, tracked>>

\* The executor was closed meanwhile: module.Close forgets the module first.
DropLate(k) ==
    /\ flight[k].at = "compiled" /\ closed
    /\ tracked' = tracked \ {flight[k].mod}
    /\ Goes(k, "dropping", flight[k].mod)
    /\ UNCHANGED <<modules, invalid>>

Finish(k) ==
    /\ MuFree
    /\ Store(k) \/ StoreVerdict(k) \/ StoreNothing(k) \/ DropLate(k)
    /\ UNCHANGED <<workers, closed, pooled, check, open, process>>

\* module.Close closes the compiled plugin; the answer is a failure.
CloseLate(k) ==
    /\ flight[k].at = "dropping"
    /\ open' = open \ {flight[k].mod}
    /\ Goes(k, "done", None)
    /\ UNCHANGED <<workers, executor, pooled, check, tracked, process>>

\* Fault: the flight answers one of those who joined it.
DeliverToOne(k) ==
    /\ flight[k].at = "done"
    /\ Goes(k, "none", None)
    /\ \/ \E w \in Workers :
            /\ at[w] = "waiting" /\ key[w] = k
            /\ at' = [at EXCEPT ![w] = "answered"]
            /\ mod' = [mod EXCEPT ![w] = flight[k].mod]
       \/ ~(\E w \in Workers : at[w] = "waiting" /\ key[w] = k) /\ UNCHANGED <<at, mod>>
    /\ UNCHANGED <<key, ended, executor, pooled, check, runtime, process>>

\* The flight ends and answers everyone who joined it.
Deliver(k) ==
    LET joined == {w \in Workers : at[w] = "waiting" /\ key[w] = k}
    IN  /\ flight[k].at = "done"
        /\ Goes(k, "none", None)
        /\ at' = [w \in Workers |-> IF w \in joined THEN "answered" ELSE at[w]]
        /\ mod' = [w \in Workers |-> IF w \in joined THEN flight[k].mod ELSE mod[w]]
        /\ UNCHANGED <<key, ended, executor, pooled, check, runtime, process>>

-----------------------------------------------------------------------------
(* Preloads.                                                               *)

AllOut(set) == \A w \in set : at[w] = "out"

\* OnUpdate of a new snapshot: at most one kick is pending.
Update ==
    /\ phase = "serving"
    /\ kick' = TRUE
    /\ UNCHANGED <<workers, flight, executor, pooled, check, runtime,
                   todo, phase, overdue, victims>>

\* The background goroutine takes the kick; after the end of its context select
\* may still choose it once.  The snapshot binds some modules.
BeginPreload ==
    /\ kick
    /\ phase \in {"serving", "draining", "internal", "joining"}
    /\ todo = {} /\ AllOut(Preloads)
    /\ kick' = FALSE
    /\ todo' \in SUBSET Keys
    /\ UNCHANGED <<workers, flight, executor, pooled, check, runtime,
                   phase, overdue, victims>>

Preload(p, k) ==
    /\ k \in todo
    /\ Look(p, k)
    /\ todo' = todo \ {k}
    /\ UNCHANGED <<ended, flight, executor, pooled, check, runtime,
                   kick, phase, overdue, victims>>

-----------------------------------------------------------------------------
(* Validations: Executor.Validate, beside the cache.                       *)

CheckGoes(v, stage, m) == check' = [check EXCEPT ![v] = [at |-> stage, mod |-> m]]

\* The internal server accepts requests until its own Shutdown begins.
Ask(v) ==
    /\ check[v].at = "idle"
    /\ phase \in {"serving", "draining"}
    /\ CheckGoes(v, "waiting", None)
    /\ UNCHANGED <<workers, flight, executor, pooled, runtime, process>>

Validating == {v \in Checks : check[v].at \notin {"idle", "waiting"}}

TakeSlot(v) ==
    /\ check[v].at = "waiting"
    /\ Cardinality(Validating) < ValidateConcurrency
    /\ CheckGoes(v, "fetching", None)
    /\ UNCHANGED <<workers, flight, executor, pooled, runtime, process>>

\* The caller gives up waiting; or a schema or the fetch fails.
EndCheckEarly(v) ==
    /\ check[v].at \in {"waiting", "fetching"}
    /\ CheckGoes(v, "idle", None)
    /\ UNCHANGED <<workers, flight, executor, pooled, runtime, process>>

BeginCheckCompile(v) ==
    /\ check[v].at = "fetching"
    /\ Readable
    /\ CheckGoes(v, IF phase = "closed" THEN "idle" ELSE "compiling", None)
    /\ UNCHANGED <<workers, flight, executor, pooled, runtime, process>>

EndCheckCompile(v) ==
    /\ check[v].at = "compiling"
    /\ \/ \E m \in Mods : Compiled(m) /\ CheckGoes(v, "testing", m)
       \/ CheckGoes(v, "idle", None) /\ UNCHANGED runtime
    /\ UNCHANGED <<workers, flight, executor, pooled, process>>

\* After the sample calls, the deferred module.Close: forget, then close.
EndCheck(v) ==
    /\ check[v].at = "testing"
    /\ tracked' = tracked \ {check[v].mod}
    /\ CheckGoes(v, "closing", check[v].mod)
    /\ UNCHANGED <<workers, flight, executor, pooled, open, process>>

CloseChecked(v) ==
    /\ check[v].at = "closing"
    /\ open' = open \ {check[v].mod}
    /\ CheckGoes(v, "idle", None)
    /\ UNCHANGED <<workers, flight, executor, pooled, tracked, process>>

-----------------------------------------------------------------------------
(* The shutdown.                                                           *)

ToPhase(from, to) == phase = from /\ phase' = to

Stop ==
    /\ ToPhase("serving", "draining")
    /\ UNCHANGED <<workers, flight, executor, pooled, check, runtime,
                   kick, todo, overdue, victims>>

\* Server.Shutdown returns once no call is in flight, the internal one's once no
\* validation is.
Drained ==
    /\ \/ ToPhase("draining", "internal") /\ AllOut(Calls)
       \/ ToPhase("internal", "joining") /\ \A v \in Checks : check[v].at = "idle"
    /\ UNCHANGED <<workers, flight, executor, pooled, check, runtime,
                   kick, todo, overdue, victims>>

\* Or when its context expires, whoever is still in there.
ShutdownExpires ==
    /\ ToPhase("draining", "internal") \/ ToPhase("internal", "joining")
    /\ overdue' = TRUE
    /\ UNCHANGED <<workers, flight, executor, pooled, check, runtime,
                   kick, todo, victims>>

\* background.Wait: the goroutine of the preloads has seen the end of its context.
Joined ==
    /\ ToPhase("joining", "joined")
    /\ todo = {} /\ AllOut(Preloads)
    /\ UNCHANGED <<workers, flight, executor, pooled, check, runtime,
                   kick, todo, overdue, victims>>

\* pools.Close: idle instances now, leased ones when they come back.
ClosePools ==
    /\ ToPhase("joined", "pools")
    /\ pooled' = {}
    /\ UNCHANGED <<workers, flight, executor, check, runtime,
                   kick, todo, overdue, victims>>

CloseExecutor ==
    /\ ToPhase("pools", "modules")
    /\ MuFree
    /\ closed' = TRUE
    /\ victims' = {modules[k] : k \in Keys} \ {None}
    /\ modules' = [k \in Keys |-> None]
    /\ UNCHANGED <<workers, flight, invalid, pooled, check, runtime,
                   kick, todo, overdue>>

CloseModule(m) ==
    /\ phase = "modules"
    /\ m \in victims
    /\ victims' = victims \ {m}
    /\ tracked' = tracked \ {m}
    /\ open' = open \ {m}
    /\ UNCHANGED <<workers, flight, executor, pooled, check,
                   kick, todo, phase, overdue>>

\* Runtime.Close asks for the write lock.
LockRuntime ==
    /\ ToPhase("modules", "locking")
    /\ victims = {}
    /\ UNCHANGED <<workers, flight, executor, pooled, check, runtime,
                   kick, todo, overdue, victims>>

Compiling ==
    \/ \E k \in Keys : flight[k].at = "compiling"
    \/ \E v \in Checks : check[v].at = "compiling"

\* Fault: the runtime is closed while something compiles.
CloseRuntimeAtOnce ==
    /\ ToPhase("locking", "closing")
    /\ victims' = tracked
    /\ tracked' = {}
    /\ UNCHANGED <<workers, flight, executor, pooled, check, open,
                   kick, todo, overdue>>

\* The lock is free of readers; the modules still known are main's to close.
CloseRuntime ==
    /\ ToPhase("locking", "closing")
    /\ ~Compiling
    /\ victims' = tracked
    /\ tracked' = {}
    /\ UNCHANGED <<workers, flight, executor, pooled, check, open,
                   kick, todo, overdue>>

CloseTracked(m) ==
    /\ phase = "closing"
    /\ m \in victims
    /\ victims' = victims \ {m}
    /\ open' = open \ {m}
    /\ UNCHANGED <<workers, flight, executor, pooled, check, tracked,
                   kick, todo, phase, overdue>>

RuntimeClosed ==
    /\ ToPhase("closing", "closed")
    /\ victims = {}
    /\ UNCHANGED <<workers, flight, executor, pooled, check, runtime,
                   kick, todo, overdue, victims>>

-----------------------------------------------------------------------------
(* The specification.                                                      *)

WorkerStep(w) == Join(w) \/ Take(w) \/ GiveUp(w)

FlightStep(k) ==
    \/ Recheck(k) \/ FetchFails(k) \/ BeginCompile(k) \/ EndCompile(k)
    \/ Finish(k) \/ CloseLate(k) \/ Deliver(k)

CheckStep(v) ==
    \/ TakeSlot(v) \/ EndCheckEarly(v) \/ BeginCheckCompile(v) \/ EndCheckCompile(v)
    \/ EndCheck(v) \/ CloseChecked(v)

PreloadStep == BeginPreload \/ \E p \in Preloads, k \in Keys : Preload(p, k)

MainStep ==
    \/ Drained \/ Joined \/ ClosePools \/ CloseExecutor
    \/ LockRuntime \/ CloseRuntime \/ RuntimeClosed
    \/ \E m \in Mods : CloseModule(m) \/ CloseTracked(m)

Next ==
    \/ \E c \in Calls : CallerLeaves(c) \/ Release(c) \/ \E k \in Keys : Call(c, k)
    \/ \E w \in Workers : WorkerStep(w)
    \/ \E m \in Mods : Expire(m)
    \/ \E k \in Keys : FlightStep(k)
    \/ Update \/ PreloadStep
    \/ \E v \in Checks : Ask(v) \/ CheckStep(v)
    \/ Stop \/ ShutdownExpires \/ MainStep

Spec == Init /\ [][Next]_vars

\* Goroutines that can run do, calls end (a hook has a time limit), and so do
\* fetches, compiles and validations.  Nobody has to call or to stop the process,
\* and no context has to end.  A validation that waits for a slot which another
\* one takes again and again gets it some time: the semaphore is a channel.
Fairness ==
    /\ \A w \in Workers : WF_vars(Join(w)) /\ WF_vars(Take(w) \/ GiveUp(w))
    /\ \A c \in Calls : WF_vars(Release(c))
    /\ \A k \in Keys : WF_vars(FlightStep(k))
    /\ \A v \in Checks : SF_vars(CheckStep(v))
    /\ WF_vars(PreloadStep)
    /\ WF_vars(MainStep)

FairSpec == Spec /\ Fairness

-----------------------------------------------------------------------------
(* Correctness.                                                            *)

CachedMods == {modules[k] : k \in Keys} \ {None}

\* A module in somebody's hands who will store it or close it.
InHand ==
    {flight[k].mod : k \in {j \in Keys : flight[j].at \in {"compiled", "dropping"}}}
        \cup {check[v].mod : v \in {u \in Checks : check[u].at \in {"testing", "closing"}}}

BeingClosed ==
    {flight[k].mod : k \in {j \in Keys : flight[j].at = "dropping"}}
        \cup {check[v].mod : v \in {u \in Checks : check[u].at = "closing"}}

InUse ==
    pooled
        \cup {mod[c] : c \in {d \in Calls : at[d] = "using"}}
        \cup {check[v].mod : v \in {u \in Checks : check[u].at = "testing"}}

\* The order of the shutdown (calls, validations, preloads, pools, executor,
\* runtime) against flights that nobody waits for any more.  No module is closed
\* under a call, a sample call or an idle instance, unless the shutdown ran out
\* of time; no open module is forgotten; and once the runtime is closed nothing
\* compiles and what is still open is being closed by the one who holds it.
ModulesAccounted ==
    /\ ~overdue => InUse \subseteq open
    /\ open \subseteq CachedMods \cup InHand \cup victims
    /\ phase = "closed" => ~Compiling /\ tracked = {} /\ open \subseteq BeingClosed

\* A key is compiled at most once: no flight works on a key that has a module or
\* a verdict, and no key has both.  A second module would leak the first.
CompiledOnce ==
    /\ \A k \in Keys :
        flight[k].at \in {"fetching", "compiling", "compiled", "invalid"} => ~Cached(k)
    /\ \A k \in invalid : modules[k] = None

\* A shutdown that begins ends, and not because its time runs out: every call
\* that joined a flight is answered although no context has to end, and nothing
\* the shutdown waits for waits for it.
ShutdownEnds == phase = "draining" ~> phase = "closed"

=============================================================================
