---------------------------- MODULE InstancePool ----------------------------
(***************************************************************************)
(* The warm-instance pool of the data plane                                *)
(* (dataplane/internal/pool/pool.go): one Manager shared by every call of  *)
(* the process, a pool of idle instances per key, a process-wide cap, a    *)
(* reaper goroutine and a Close that may arrive at any time.               *)
(*                                                                         *)
(* One action is one critical section of Manager.mu, or one step the code  *)
(* takes outside it (the factory, closing an instance, the select of a     *)
(* waiting call).  The wake-up channel `changed`, closed and replaced by   *)
(* notifyLocked, is modelled per waiting call: woken[c] says that the      *)
(* channel c captured has been closed.                                     *)
(*                                                                         *)
(* An idle list is the set of its instances: the code's last-in-first-out  *)
(* order is the order of lastUsed, which release assigns under the lock.   *)
(* Two releases at the same clock reading leave the choice open.           *)
(***************************************************************************)
EXTENDS Integers, FiniteSets

CONSTANTS
    Clients,    \* the goroutines that call Acquire and Release
    Keys,       \* (tenant, hook, definition, module, configuration)
    Insts,      \* sandbox instances; a closed one may be instantiated anew
    Limits,     \* the values of Acquire's limit argument
    GlobalMax,  \* Options.GlobalMax
    MaxUses,    \* Options.MaxUses
    IdleTTL,    \* Options.IdleTTL, in clock ticks
    MaxTime,    \* bound: the clock stops here
    None        \* no key, no instance

ASSUME SetsAssumption ==
    /\ IsFiniteSet(Clients) /\ IsFiniteSet(Insts)
    /\ None \notin Insts /\ None \notin Keys

ASSUME OptionsAssumption ==
    /\ Limits \subseteq Int
    /\ \E m \in Limits \cup {1} : \A l \in Limits \cup {1} : l <= m
    /\ GlobalMax \in Nat \ {0} /\ MaxUses \in Nat \ {0}
    /\ IdleTTL \in Nat /\ MaxTime \in Nat

VARIABLES
    entries,    \* the keys present in Manager.pools
    idle,       \* keyPool.idle
    active,     \* keyPool.active
    total,      \* Manager.total
    closed,     \* Manager.closed
    pc,         \* where each call is
    key,        \* its key argument
    limit,      \* its limit argument, clamped
    inst,       \* the instance it leases, or the one it is about to close
    woken,      \* the wake channel it waits on has been closed
    live,       \* instances created and not yet closed
    madeFor,    \* ghost: the key whose factory created the instance
    uses,       \* entry.uses
    lastUsed,   \* entry.lastUsed
    clock,      \* Options.Now
    reaper,     \* the reaper goroutine: its place, its now, its victims
    closer      \* the call of Close: its place, its victims

poolVars == <<entries, idle, active, total, closed>>
callVars == <<pc, key, limit, inst, woken>>
instVars == <<live, madeFor, uses, lastUsed>>
bgVars   == <<clock, reaper, closer>>
vars     == <<poolVars, callVars, instVars, bgVars>>

Places == {"out", "acquire", "evicting", "waiting", "saturated",
           "creating", "leased", "retiring"}

TypeOK ==
    /\ entries \subseteq Keys
    /\ idle \in [Keys -> SUBSET Insts]
    /\ active \in [Keys -> Int]
    /\ total \in Int
    /\ closed \in BOOLEAN
    /\ pc \in [Clients -> Places]
    /\ key \in [Clients -> Keys \cup {None}]
    /\ limit \in [Clients -> Nat]
    /\ inst \in [Clients -> Insts \cup {None}]
    /\ woken \in [Clients -> BOOLEAN]
    /\ live \subseteq Insts
    /\ madeFor \in [Insts -> Keys \cup {None}]
    /\ uses \in [Insts -> Nat]
    /\ lastUsed \in [Insts -> Nat]
    /\ clock \in Nat
    /\ reaper \in [at : {"asleep", "ticked", "closing", "stopped"},
                   now : Nat, victims : SUBSET Insts]
    /\ closer \in [at : {"none", "joining", "closing", "done"},
                   victims : SUBSET Insts]

Init ==
    /\ entries = {}
    /\ idle = [k \in Keys |-> {}]
    /\ active = [k \in Keys |-> 0]
    /\ total = 0
    /\ closed = FALSE
    /\ pc = [c \in Clients |-> "out"]
    /\ key = [c \in Clients |-> None]
    /\ limit = [c \in Clients |-> 0]
    /\ inst = [c \in Clients |-> None]
    /\ woken = [c \in Clients |-> FALSE]
    /\ live = {}
    /\ madeFor = [i \in Insts |-> None]
    /\ uses = [i \in Insts |-> 0]
    /\ lastUsed = [i \in Insts |-> 0]
    /\ clock = 0
    \* ReapInterval = 0 starts no reaper.
    /\ \E a \in {"asleep", "stopped"} :
        reaper = [at |-> a, now |-> 0, victims |-> {}]
    /\ closer = [at |-> "none", victims |-> {}]

-----------------------------------------------------------------------------
(* What the critical sections share.                                       *)

IdleInsts == UNION {idle[k] : k \in Keys}

\* Fault: an entry is never dropped.
DropNothing(ents, act, idl, k) == ents

\* Manager.dropIfEmptyLocked, on the maps a critical section is leaving.
DropIfEmpty(ents, act, idl, k) ==
    IF act[k] = 0 /\ idl[k] = {} THEN ents \ {k} ELSE ents

\* Fault: the channel is not closed.
NotifyNobody == UNCHANGED woken

\* Manager.notifyLocked: every call that captured the channel sees it closed.
Notify == woken' = [c \in Clients |-> woken[c] \/ pc[c] = "waiting"]

\* Fault: the instance is forgotten, not closed.
DiscardUnclosed(i) == UNCHANGED instVars

\* Instance.Close: the instance is gone, and its entry with it.
Discard(i) ==
    /\ live' = live \ {i}
    /\ madeFor' = [madeFor EXCEPT ![i] = None]
    /\ uses' = [uses EXCEPT ![i] = 0]
    /\ lastUsed' = [lastUsed EXCEPT ![i] = 0]

\* An Acquire or a Release returns.
Return(c) ==
    /\ pc' = [pc EXCEPT ![c] = "out"]
    /\ key' = [key EXCEPT ![c] = None]
    /\ limit' = [limit EXCEPT ![c] = 0]
    /\ inst' = [inst EXCEPT ![c] = None]

\* Fault: closed is looked at only once, before the loop.
FindsNoneIdleWhenever(c) ==
    /\ pc[c] = "acquire"
    /\ idle[key[c]] = {}

\* The call holds the lock of an open manager and found no idle instance, so
\* that the key's live instances are its active ones.
FindsNoneIdle(c) ==
    /\ pc[c] = "acquire"
    /\ ~closed
    /\ idle[key[c]] = {}

-----------------------------------------------------------------------------
(* Acquire.                                                                *)

Call(c, k, l) ==
    /\ pc[c] = "out"
    /\ pc' = [pc EXCEPT ![c] = "acquire"]
    /\ key' = [key EXCEPT ![c] = k]
    /\ limit' = [limit EXCEPT ![c] = IF l < 1 THEN 1 ELSE l]
    /\ UNCHANGED <<poolVars, inst, woken, instVars, bgVars>>

RefuseClosed(c) ==
    /\ pc[c] = "acquire"
    /\ closed
    /\ Return(c)
    /\ UNCHANGED <<poolVars, woken, instVars, bgVars>>

\* The most recently released instance of the key is taken, whatever limit
\* is: a limit lowered since the instance was created is not looked at.
TakeIdle(c, i) ==
    /\ pc[c] = "acquire"
    /\ ~closed
    /\ i \in idle[key[c]]
    /\ \A j \in idle[key[c]] : lastUsed[j] <= lastUsed[i]
    /\ entries' = entries \cup {key[c]}
    /\ idle' = [idle EXCEPT ![key[c]] = @ \ {i}]
    /\ active' = [active EXCEPT ![key[c]] = @ + 1]
    /\ pc' = [pc EXCEPT ![c] = "leased"]
    /\ inst' = [inst EXCEPT ![c] = i]
    /\ UNCHANGED <<total, closed, key, limit, woken, instVars, bgVars>>

\* A slot is reserved under the lock; the factory runs after it.
Reserve(c) ==
    /\ FindsNoneIdle(c)
    /\ active[key[c]] < limit[c]
    /\ total < GlobalMax
    /\ entries' = entries \cup {key[c]}
    /\ total' = total + 1
    /\ active' = [active EXCEPT ![key[c]] = @ + 1]
    /\ pc' = [pc EXCEPT ![c] = "creating"]
    /\ UNCHANGED <<idle, closed, key, limit, inst, woken, instVars, bgVars>>

\* evictOldestIdleLocked: the slot is free at once, the victim is closed
\* later and nobody is notified.
Evict(c, k, i) ==
    /\ FindsNoneIdle(c)
    /\ active[key[c]] < limit[c]
    /\ total >= GlobalMax
    /\ i \in idle[k]
    /\ \A j \in IdleInsts : lastUsed[i] <= lastUsed[j]
    /\ idle' = [idle EXCEPT ![k] = @ \ {i}]
    /\ total' = total - 1
    /\ entries' = DropIfEmpty(entries \cup {key[c]}, active, idle', k)
    /\ pc' = [pc EXCEPT ![c] = "evicting"]
    /\ inst' = [inst EXCEPT ![c] = i]
    /\ UNCHANGED <<active, closed, key, limit, woken, instVars, bgVars>>

\* The victim is closed outside the lock, then the loop starts over.
CloseEvicted(c) ==
    /\ pc[c] = "evicting"
    /\ Discard(inst[c])
    /\ pc' = [pc EXCEPT ![c] = "acquire"]
    /\ inst' = [inst EXCEPT ![c] = None]
    /\ UNCHANGED <<poolVars, key, limit, woken, bgVars>>

Wait(c) ==
    /\ FindsNoneIdle(c)
    /\ \/ active[key[c]] >= limit[c]
       \/ total >= GlobalMax /\ IdleInsts = {}
    /\ entries' = entries \cup {key[c]}
    /\ pc' = [pc EXCEPT ![c] = "waiting"]
    /\ UNCHANGED <<idle, active, total, closed, key, limit, inst, woken,
                   instVars, bgVars>>

Wake(c) ==
    /\ pc[c] = "waiting"
    /\ woken[c]
    /\ woken' = [woken EXCEPT ![c] = FALSE]
    /\ pc' = [pc EXCEPT ![c] = "acquire"]
    /\ UNCHANGED <<poolVars, key, limit, inst, instVars, bgVars>>

\* The timer or the caller's context ends the wait, woken or not.
GiveUp(c) ==
    /\ pc[c] = "waiting"
    /\ woken' = [woken EXCEPT ![c] = FALSE]
    /\ pc' = [pc EXCEPT ![c] = "saturated"]
    /\ UNCHANGED <<poolVars, key, limit, inst, instVars, bgVars>>

Saturated(c) ==
    /\ pc[c] = "saturated"
    /\ entries' = DropIfEmpty(entries, active, idle, key[c])
    /\ Return(c)
    /\ UNCHANGED <<idle, active, total, closed, woken, instVars, bgVars>>

Create(c, i) ==
    /\ pc[c] = "creating"
    /\ i \notin live
    /\ live' = live \cup {i}
    /\ madeFor' = [madeFor EXCEPT ![i] = key[c]]
    /\ uses' = [uses EXCEPT ![i] = 0]
    /\ lastUsed' = [lastUsed EXCEPT ![i] = 0]
    /\ pc' = [pc EXCEPT ![c] = "leased"]
    /\ inst' = [inst EXCEPT ![c] = i]
    /\ UNCHANGED <<poolVars, key, limit, woken, bgVars>>

\* Fault: the process-wide counter keeps the slot.
FreeSlotOfKeyOnly(k) ==
    /\ total' = total
    /\ active' = [active EXCEPT ![k] = @ - 1]
    /\ entries' = DropIfEmpty(entries \cup {k}, active', idle, k)
    /\ Notify

\* A reserved slot or a retired lease is given back.
FreeSlot(k) ==
    /\ total' = total - 1
    /\ active' = [active EXCEPT ![k] = @ - 1]
    /\ entries' = DropIfEmpty(entries \cup {k}, active', idle, k)
    /\ Notify

CreateFails(c) ==
    /\ pc[c] = "creating"
    /\ FreeSlot(key[c])
    /\ Return(c)
    /\ UNCHANGED <<idle, closed, instVars, bgVars>>

-----------------------------------------------------------------------------
(* Release: once per lease, whichever of the caller's two calls comes      *)
(* first.  An instance that is unhealthy, worn out or whose manager is     *)
(* closed is retired.                                                      *)

\* Fault: a lease released after Close goes back to the idle list.
ToRetireUnlessClosed(c, healthy) ==
    ~healthy \/ uses[inst[c]] + 1 >= MaxUses

ToRetire(c, healthy) ==
    ~healthy \/ uses[inst[c]] + 1 >= MaxUses \/ closed

ReleaseIdle(c) ==
    /\ pc[c] = "leased"
    /\ ~ToRetire(c, TRUE)
    /\ entries' = entries \cup {key[c]}
    /\ idle' = [idle EXCEPT ![key[c]] = @ \cup {inst[c]}]
    /\ active' = [active EXCEPT ![key[c]] = @ - 1]
    /\ uses' = [uses EXCEPT ![inst[c]] = @ + 1]
    /\ lastUsed' = [lastUsed EXCEPT ![inst[c]] = clock]
    /\ Notify
    /\ Return(c)
    /\ UNCHANGED <<total, closed, live, madeFor, bgVars>>

ReleaseRetire(c, healthy) ==
    /\ pc[c] = "leased"
    /\ ToRetire(c, healthy)
    /\ uses' = [uses EXCEPT ![inst[c]] = @ + 1]
    /\ FreeSlot(key[c])
    /\ pc' = [pc EXCEPT ![c] = "retiring"]
    /\ UNCHANGED <<idle, closed, key, limit, inst, live, madeFor, lastUsed, bgVars>>

CloseRetired(c) ==
    /\ pc[c] = "retiring"
    /\ Discard(inst[c])
    /\ Return(c)
    /\ UNCHANGED <<poolVars, woken, bgVars>>

-----------------------------------------------------------------------------
(* The reaper: the clock is read before the lock is taken.                 *)

\* Fault: the age has the wrong sign.
ExpiredNever(k) == {i \in idle[k] : lastUsed[i] - reaper.now > IdleTTL}

Expired(k) == {i \in idle[k] : reaper.now - lastUsed[i] > IdleTTL}

AllExpired == UNION {Expired(k) : k \in Keys}

ReapTick ==
    /\ reaper.at = "asleep"
    /\ reaper' = [reaper EXCEPT !.at = "ticked", !.now = clock]
    /\ UNCHANGED <<poolVars, callVars, instVars, clock, closer>>

ReapIdle ==
    /\ reaper.at = "ticked"
    /\ reaper' = [at |-> "closing", now |-> 0, victims |-> AllExpired]
    /\ idle' = [k \in Keys |-> idle[k] \ Expired(k)]
    /\ total' = total - Cardinality(AllExpired)
    /\ entries' = {k \in entries : active[k] > 0 \/ idle'[k] # {}}
    /\ IF AllExpired = {} THEN UNCHANGED woken ELSE Notify
    /\ UNCHANGED <<active, closed, pc, key, limit, inst, instVars, clock, closer>>

ReapClose(i) ==
    /\ reaper.at = "closing"
    /\ i \in reaper.victims
    /\ Discard(i)
    /\ reaper' = [reaper EXCEPT !.victims = @ \ {i}]
    /\ UNCHANGED <<poolVars, callVars, clock, closer>>

ReapDone ==
    /\ reaper.at = "closing"
    /\ reaper.victims = {}
    /\ reaper' = [reaper EXCEPT !.at = "asleep"]
    /\ UNCHANGED <<poolVars, callVars, instVars, clock, closer>>

\* The stop channel wins the select; Close has closed it.
ReapStop ==
    /\ reaper.at = "asleep"
    /\ closed
    /\ reaper' = [reaper EXCEPT !.at = "stopped"]
    /\ UNCHANGED <<poolVars, callVars, instVars, clock, closer>>

-----------------------------------------------------------------------------
(* Close: the first call drains, joins the reaper and closes what was      *)
(* idle; a second call returns at once and changes nothing.                *)

CloseManager ==
    /\ ~closed
    /\ closed' = TRUE
    /\ closer' = [at |-> "joining", victims |-> IdleInsts]
    /\ total' = total - Cardinality(IdleInsts)
    /\ idle' = [k \in Keys |-> {}]
    /\ entries' = {k \in entries : active[k] > 0}
    /\ Notify
    /\ UNCHANGED <<active, pc, key, limit, inst, instVars, clock, reaper>>

JoinReaper ==
    /\ closer.at = "joining"
    /\ reaper.at = "stopped"
    /\ closer' = [closer EXCEPT !.at = "closing"]
    /\ UNCHANGED <<poolVars, callVars, instVars, clock, reaper>>

CloseIdle(i) ==
    /\ closer.at = "closing"
    /\ i \in closer.victims
    /\ Discard(i)
    /\ closer' = [closer EXCEPT !.victims = @ \ {i}]
    /\ UNCHANGED <<poolVars, callVars, clock, reaper>>

CloseReturns ==
    /\ closer.at = "closing"
    /\ closer.victims = {}
    /\ closer' = [closer EXCEPT !.at = "done"]
    /\ UNCHANGED <<poolVars, callVars, instVars, clock, reaper>>

Tick ==
    /\ clock < MaxTime
    /\ clock' = clock + 1
    /\ UNCHANGED <<poolVars, callVars, instVars, reaper, closer>>

-----------------------------------------------------------------------------

\* The steps a call takes on its own, in the order of the code.
AcquireStep(c) ==
    \/ RefuseClosed(c)
    \/ \E i \in Insts : TakeIdle(c, i)
    \/ Reserve(c)
    \/ \E k \in Keys, i \in Insts : Evict(c, k, i)
    \/ CloseEvicted(c)
    \/ Wait(c)
    \/ Wake(c)
    \/ Saturated(c)
    \/ \E i \in Insts : Create(c, i)
    \/ CreateFails(c)

ReleaseStep(c) ==
    \/ ReleaseIdle(c)
    \/ \E healthy \in BOOLEAN : ReleaseRetire(c, healthy)
    \/ CloseRetired(c)

ReaperStep ==
    \/ ReapTick
    \/ ReapIdle
    \/ \E i \in Insts : ReapClose(i)
    \/ ReapDone

CloserStep ==
    \/ JoinReaper
    \/ \E i \in Insts : CloseIdle(i)
    \/ CloseReturns

Next ==
    \/ \E c \in Clients :
        \/ \E k \in Keys, l \in Limits : Call(c, k, l)
        \/ AcquireStep(c)
        \/ GiveUp(c)
        \/ ReleaseStep(c)
    \/ ReaperStep
    \/ ReapStop
    \/ CloseManager
    \/ CloserStep
    \/ Tick

Spec == Init /\ [][Next]_vars

\* What the code's scheduling gives: a goroutine that can run runs, the
\* executor releases every lease (the deferred Release), the ticker of the
\* reaper fires, and the stop channel, once closed, is eventually chosen by the
\* reaper's select.  Nobody has to call Acquire or Close, and no timer has to
\* end a wait: AcquireTimeout may be as long as it likes.
Fairness ==
    /\ \A c \in Clients :
        /\ WF_vars(AcquireStep(c))
        /\ WF_vars(ReleaseStep(c))
    /\ WF_vars(ReaperStep)
    /\ SF_vars(ReapStop)
    /\ WF_vars(CloserStep)

FairSpec == Spec /\ Fairness

-----------------------------------------------------------------------------
(* Correctness.                                                            *)

\* The largest limit a call can pass, after the clamp.
MaxLimit ==
    CHOOSE m \in Limits \cup {1} : \A l \in Limits \cup {1} : l <= m

\* The calls that count in keyPool.active: leased plus being created.
Holding == {c \in Clients : pc[c] \in {"creating", "leased"}}

HoldingOf(k) == {c \in Holding : key[c] = k}

\* Calls that own an instance, to use it or to close it.
Carrying == {c \in Clients : pc[c] \in {"leased", "evicting", "retiring"}}

\* The counters kept by hand at eight places agree with what is really held
\* and idle: total with all instances, active with the leases of its key.
Accounting ==
    /\ total = Cardinality(Holding) + Cardinality(IdleInsts)
    /\ \A k \in Keys : active[k] = Cardinality(HoldingOf(k))

\* The process-wide cap on reserved, leased and idle instances (GlobalMax)
\* holds although slots are reserved before the factory runs and freed by
\* evictions that race with other calls.
GlobalCap == total <= GlobalMax

\* No key ever holds more instances, leased and idle, than the largest limit
\* its calls were made with, whatever order the calls come in.
KeyCap ==
    \A k \in Keys : active[k] + Cardinality(idle[k]) <= MaxLimit

\* An instance is in one place only: with one call, in one idle list, with the
\* reaper or with Close.  Everything in such a place is live (nothing is used or
\* closed after it was closed) and everything live is in one (nothing leaks).
OnePlace ==
    LET carried == {inst[c] : c \in Carrying}
        doomed  == reaper.victims \cup closer.victims
    IN  /\ \A c, d \in Carrying : inst[c] = inst[d] => c = d
        /\ \A j, k \in Keys : j # k => idle[j] \cap idle[k] = {}
        /\ carried \cap IdleInsts = {}
        /\ (carried \cup IdleInsts) \cap doomed = {}
        /\ reaper.victims \cap closer.victims = {}
        /\ live = carried \cup IdleInsts \cup doomed

\* Guest memory survives calls, so an instance only ever serves, and idles
\* under, the key it was created for: one tenant's state never reaches another.
KeyIsolation ==
    /\ \A k \in Keys : \A i \in idle[k] : madeFor[i] = k
    /\ \A c \in Clients : pc[c] = "leased" => madeFor[inst[c]] = key[c]

\* An instance handed out has served fewer than MaxUses calls, so it never
\* serves more than MaxUses.
UseBudget ==
    \A i \in Insts :
        i \in IdleInsts \/ (\E c \in Clients : pc[c] = "leased" /\ inst[c] = i)
            => uses[i] < MaxUses

\* No lost wake-up: a call that waits on a channel nobody has closed since
\* could not get an instance if it looked again.  evictOldestIdleLocked frees
\* a slot without notifying; this is why that is right.
NoLostWakeup ==
    \A c \in Clients :
        pc[c] = "waiting" /\ ~woken[c] =>
            /\ ~closed
            /\ idle[key[c]] = {}
            /\ active[key[c]] >= limit[c] \/ (total = GlobalMax /\ IdleInsts = {})

\* No key without instances stays in the map unless a call on that key is still
\* in Acquire: keys change with every configuration, so a leak would grow.
NoAbandonedEntry ==
    \A k \in entries :
        \/ active[k] > 0
        \/ idle[k] # {}
        \/ \E c \in Clients :
            key[c] = k /\ pc[c] \in {"acquire", "evicting", "waiting", "saturated"}

\* Everything a pool holds is in the map: dropping an entry loses nothing.
EntriesCover == \A k \in Keys : active[k] > 0 \/ idle[k] # {} => k \in entries

\* After Close only retiring instances are left behind: nothing idle remains or
\* is put back, and no call still waits for capacity unnoticed.
ClosedIsDrained ==
    closed => /\ IdleInsts = {}
              /\ \A c \in Clients : pc[c] = "waiting" => woken[c]

\* Once Close was called every instance is closed in the end, leases still out
\* and instances still being created included, and Close itself returns.
DrainsAfterClose ==
    closed ~> [](live = {} /\ total = 0 /\ entries = {} /\ closer.at = "done")

\* A call that waits is woken sooner or later by a release, an expiry or Close:
\* no wait needs its timer to end.
WaitsEnd ==
    \A c \in Clients : pc[c] = "waiting" ~> pc[c] # "waiting"

\* An instance nobody uses is closed once it is older than IdleTTL or taken
\* again: the pools of a superseded configuration do not stay forever.
IdleExpires ==
    \A i \in Insts :
        i \in IdleInsts /\ clock - lastUsed[i] > IdleTTL
            ~> ~(i \in IdleInsts /\ clock - lastUsed[i] > IdleTTL)

-----------------------------------------------------------------------------
(* The pool implements the service its callers rely on.                    *)

\* A call has its slot from the reservation on, its instance from the return.
slotBar  == [c \in Clients |-> IF c \in Holding THEN key[c] ELSE None]
leaseBar == [c \in Clients |-> IF pc[c] = "leased" THEN inst[c] ELSE None]

Service == INSTANCE LeaseService WITH
    slot <- slotBar, lease <- leaseBar, owner <- madeFor, open <- ~closed

\* Every behaviour of the pool is one of the semaphores and exclusive leases of
\* LeaseService: what callers are promised survives all the interleavings.
ImplementsService == Service!Spec

=============================================================================
