------------------------- MODULE ModuleCacheProofs -------------------------
(***************************************************************************)
(* Proofs about ModuleCache: no module is closed under its users, none is  *)
(* forgotten, and a key is compiled once, for every number of calls,       *)
(* preloads, validations, keys and modules.                                *)
(*                                                                         *)
(* What is in use stays open because of where it came from: until the      *)
(* executor is closed, the module of a call or of an idle instance is in   *)
(* the cache, and what a validation closes never was (UsersHold, Apart).   *)
(* After that the order of the shutdown leaves no user (Order).            *)
(***************************************************************************)
EXTENDS ModuleCache, TLAPS

-----------------------------------------------------------------------------
(* The inductive invariant.                                                *)

\* What each stage of a worker, of a flight and of a validation carries.
Carried ==
    /\ \A w \in Workers :
          /\ at[w] \in {"missed", "waiting", "answered"} => key[w] \in Keys
          /\ at[w] = "using" => w \in Calls /\ mod[w] \in Mods
    /\ \A k \in Keys : flight[k].at \in {"compiled", "dropping"} => flight[k].mod \in Mods
    /\ \A v \in Checks : check[v].at \in {"testing", "closing"} => check[v].mod \in Mods

Ending == {"modules", "locking", "closing", "closed"}

\* What main has already taken apart in each phase.
Order ==
    /\ closed <=> phase \in Ending
    /\ closed => \A k \in Keys : modules[k] = None
    /\ \A k \in Keys : flight[k].at = "dropping" => closed
    /\ phase \in Ending \cup {"pools"} => pooled = {}
    /\ phase \notin {"modules", "closing"} => victims = {}
    /\ ~overdue /\ phase \notin {"serving", "draining"}
          => \A c \in Calls : at[c] = "out"
    /\ ~overdue /\ phase \notin {"serving", "draining", "internal"}
          => \A v \in Checks : check[v].at = "idle"
    /\ phase \in {"closing", "closed"} =>
          /\ tracked = {}
          /\ \A k \in Keys : flight[k].at # "compiling"
          /\ \A v \in Checks : check[v].at # "compiling"

\* The module of a validation is nobody else's.
Apart ==
    \A v \in Checks : check[v].at \in {"testing", "closing"} =>
        /\ \A k \in Keys : modules[k] # check[v].mod
        /\ \A k \in Keys : flight[k].at = "compiled" => flight[k].mod # check[v].mod
        /\ \A u \in Checks \ {v} :
              check[u].at \in {"testing", "closing"} => check[u].mod # check[v].mod

IsCached(m) == \E k \in Keys : modules[k] = m

\* Until the executor is closed everything a call may get or use is cached.
UsersHold ==
    ~closed =>
        /\ \A k \in Keys : flight[k].at = "done" =>
              flight[k].mod = None \/ IsCached(flight[k].mod)
        /\ \A w \in Workers : at[w] \in {"answered", "using"} =>
              mod[w] = None \/ IsCached(mod[w])
        /\ \A m \in pooled : IsCached(m)

\* What is cached, was just compiled or is being tried out is open.
Opened ==
    /\ \A k \in Keys : modules[k] = None \/ modules[k] \in open
    /\ ~closed => \A k \in Keys : flight[k].at = "compiled" => flight[k].mod \in open
    /\ ~overdue => \A v \in Checks : check[v].at = "testing" => check[v].mod \in open

\* Whoever will store an open module or close it.
Accounted ==
    \A m \in open :
        \/ IsCached(m)
        \/ \E k \in Keys : flight[k].at \in {"compiled", "dropping"} /\ flight[k].mod = m
        \/ \E v \in Checks : check[v].at \in {"testing", "closing"} /\ check[v].mod = m
        \/ m \in victims

\* The runtime knows every open module that is not being closed.
Known ==
    \A m \in open :
        \/ m \in tracked
        \/ \E k \in Keys : flight[k].at = "dropping" /\ flight[k].mod = m
        \/ \E v \in Checks : check[v].at = "closing" /\ check[v].mod = m
        \/ m \in victims

CacheInv ==
    /\ TypeOK /\ Carried /\ Order /\ Apart
    /\ UsersHold /\ Opened /\ Accounted /\ Known /\ CompiledOnce

\* The types are inductive.
LEMMA CacheTypes == TypeOK /\ Carried /\ [Next]_vars => TypeOK'
<1> SUFFICES ASSUME TypeOK, Carried, [Next]_vars PROVE TypeOK'
  OBVIOUS
<1> USE MembersAssumption DEF TypeOK, Carried, NoFlight, NoCheck, Phases, Workers, vars, workers, executor, runtime, process
<1>1. ASSUME NEW c \in Calls, CallerLeaves(c) PROVE TypeOK'
  BY <1>1 DEF CallerLeaves
<1>2. ASSUME NEW c \in Calls, Release(c) PROVE TypeOK'
  BY <1>2 DEF Release
<1>3. ASSUME NEW c \in Calls, NEW k \in Keys, Call(c, k) PROVE TypeOK'
  <2>1. MuFree /\ at[c] = "out" /\ (Cached(k) => modules[k] \in Mods \cup {None})
    BY <1>3 DEF Call, Look, TypeOK
  <2>2. /\ at' \in [Workers -> {"out", "missed", "waiting", "answered", "using"}]
        /\ key' \in [Workers -> Keys \cup {None}]
        /\ mod' \in [Workers -> Mods \cup {None}]
    BY <1>3, <2>1 DEF Call, Look, Returns, TypeOK, Workers
  <2>3. QED
    BY <1>3, <2>2 DEF Call, TypeOK, vars, executor, runtime, process
<1>4. ASSUME NEW w \in Workers, Join(w) PROVE TypeOK'
  BY <1>4 DEF Join
<1>5. ASSUME NEW w \in Workers, Take(w) PROVE TypeOK'
  BY <1>5 DEF Take, Returns
<1>6. ASSUME NEW w \in Workers, GiveUp(w) PROVE TypeOK'
  BY <1>6 DEF GiveUp, Returns
<1>7. ASSUME NEW m \in Mods, Expire(m) PROVE TypeOK'
  BY <1>7 DEF Expire
<1>8. ASSUME NEW k \in Keys, Recheck(k) PROVE TypeOK'
  BY <1>8 DEF Recheck, Goes, Cached, MuFree
<1>9. ASSUME NEW k \in Keys, FetchFails(k) PROVE TypeOK'
  BY <1>9 DEF FetchFails, Goes
<1>10. ASSUME NEW k \in Keys, BeginCompile(k) PROVE TypeOK'
  BY <1>10 DEF BeginCompile, Goes, Readable
<1>11. ASSUME NEW k \in Keys, EndCompile(k) PROVE TypeOK'
  BY <1>11 DEF EndCompile, Goes, Compiled
<1>12. ASSUME NEW k \in Keys, Finish(k) PROVE TypeOK'
  <2>1. CASE Store(k)
    BY <1>12, <2>1 DEF Finish, Store, Goes
  <2>2. CASE StoreVerdict(k)
    BY <1>12, <2>2 DEF Finish, StoreVerdict, Goes
  <2>3. CASE StoreNothing(k)
    BY <1>12, <2>3 DEF Finish, StoreNothing, Goes
  <2>4. CASE DropLate(k)
    BY <1>12, <2>4 DEF Finish, DropLate, Goes
  <2>5. QED
    BY <1>12, <2>1, <2>2, <2>3, <2>4 DEF Finish
<1>13. ASSUME NEW k \in Keys, CloseLate(k) PROVE TypeOK'
  BY <1>13 DEF CloseLate, Goes
<1>14. ASSUME NEW k \in Keys, Deliver(k) PROVE TypeOK'
  BY <1>14 DEF Deliver, Goes
<1>15. ASSUME Update PROVE TypeOK'
  BY <1>15 DEF Update
<1>16. ASSUME BeginPreload PROVE TypeOK'
  BY <1>16 DEF BeginPreload, AllOut
<1>17. ASSUME NEW p \in Preloads, NEW k \in Keys, Preload(p, k) PROVE TypeOK'
  BY <1>17 DEF Preload, Look, Returns, Cached, MuFree
<1>18. ASSUME NEW v \in Checks, Ask(v) PROVE TypeOK'
  BY <1>18 DEF Ask, CheckGoes
<1>19. ASSUME NEW v \in Checks, TakeSlot(v) PROVE TypeOK'
  BY <1>19 DEF TakeSlot, CheckGoes
<1>20. ASSUME NEW v \in Checks, EndCheckEarly(v) PROVE TypeOK'
  BY <1>20 DEF EndCheckEarly, CheckGoes
<1>21. ASSUME NEW v \in Checks, BeginCheckCompile(v) PROVE TypeOK'
  BY <1>21 DEF BeginCheckCompile, CheckGoes, Readable
<1>22. ASSUME NEW v \in Checks, EndCheckCompile(v) PROVE TypeOK'
  BY <1>22 DEF EndCheckCompile, CheckGoes, Compiled
<1>23. ASSUME NEW v \in Checks, EndCheck(v) PROVE TypeOK'
  BY <1>23 DEF EndCheck, CheckGoes
<1>24. ASSUME NEW v \in Checks, CloseChecked(v) PROVE TypeOK'
  BY <1>24 DEF CloseChecked, CheckGoes
<1>25. ASSUME Stop PROVE TypeOK'
  BY <1>25 DEF Stop, ToPhase
<1>26. ASSUME ShutdownExpires PROVE TypeOK'
  BY <1>26 DEF ShutdownExpires, ToPhase
<1>27. ASSUME Drained PROVE TypeOK'
  BY <1>27 DEF Drained, ToPhase, AllOut
<1>28. ASSUME Joined PROVE TypeOK'
  BY <1>28 DEF Joined, ToPhase, AllOut
<1>29. ASSUME ClosePools PROVE TypeOK'
  BY <1>29 DEF ClosePools, ToPhase
<1>30. ASSUME CloseExecutor PROVE TypeOK'
  BY <1>30 DEF CloseExecutor, ToPhase, MuFree
<1>31. ASSUME LockRuntime PROVE TypeOK'
  BY <1>31 DEF LockRuntime, ToPhase
<1>32. ASSUME CloseRuntime PROVE TypeOK'
  BY <1>32 DEF CloseRuntime, ToPhase, Compiling
<1>33. ASSUME RuntimeClosed PROVE TypeOK'
  BY <1>33 DEF RuntimeClosed, ToPhase
<1>34. ASSUME NEW m \in Mods, CloseModule(m) PROVE TypeOK'
  BY <1>34 DEF CloseModule
<1>35. ASSUME NEW m \in Mods, CloseTracked(m) PROVE TypeOK'
  BY <1>35 DEF CloseTracked
<1>36. CASE UNCHANGED vars
  BY <1>36
<1>37. QED
  BY <1>1, <1>2, <1>3, <1>4, <1>5, <1>6, <1>7, <1>8, <1>9, <1>10, <1>11, <1>12,
     <1>13, <1>14, <1>15, <1>16, <1>17, <1>18, <1>19, <1>20, <1>21, <1>22, <1>23,
     <1>24, <1>25, <1>26, <1>27, <1>28, <1>29, <1>30, <1>31, <1>32, <1>33, <1>34,
     <1>35, <1>36 DEF Next, WorkerStep, FlightStep, CheckStep,
     PreloadStep, MainStep

\* Every stage keeps what it needs.
LEMMA CarriedStep == TypeOK /\ Carried /\ [Next]_vars => Carried'
<1> SUFFICES ASSUME TypeOK, Carried, [Next]_vars PROVE Carried'
  OBVIOUS
<1> USE MembersAssumption DEF TypeOK, Carried, Workers, vars, workers, executor, runtime, process
<1>1. ASSUME NEW c \in Calls, CallerLeaves(c) PROVE Carried'
  BY <1>1 DEF CallerLeaves
<1>2. ASSUME NEW c \in Calls, Release(c) PROVE Carried'
  BY <1>2 DEF Release
<1>3. ASSUME NEW c \in Calls, NEW k \in Keys, Call(c, k) PROVE Carried'
  BY <1>3 DEF Call, Look, Returns, Cached, MuFree
<1>4. ASSUME NEW w \in Workers, Join(w) PROVE Carried'
  BY <1>4 DEF Join
<1>5. ASSUME NEW w \in Workers, Take(w) PROVE Carried'
  BY <1>5 DEF Take, Returns
<1>6. ASSUME NEW w \in Workers, GiveUp(w) PROVE Carried'
  BY <1>6 DEF GiveUp, Returns
<1>7. ASSUME NEW m \in Mods, Expire(m) PROVE Carried'
  BY <1>7 DEF Expire
<1>8. ASSUME NEW k \in Keys, Recheck(k) PROVE Carried'
  BY <1>8 DEF Recheck, Goes, Cached, MuFree
<1>9. ASSUME NEW k \in Keys, FetchFails(k) PROVE Carried'
  BY <1>9 DEF FetchFails, Goes
<1>10. ASSUME NEW k \in Keys, BeginCompile(k) PROVE Carried'
  BY <1>10 DEF BeginCompile, Goes, Readable
<1>11. ASSUME NEW k \in Keys, EndCompile(k) PROVE Carried'
  <2>1. CASE \E m \in Mods : Compiled(m) /\ Goes(k, "compiled", m)
    <3>1. PICK m \in Mods : Compiled(m) /\ Goes(k, "compiled", m)
      BY <2>1
    <3>2. QED
      BY <1>11, <3>1 DEF EndCompile, Goes, Compiled, Fresh
  <2>2. CASE \E stage \in {"invalid", "failed"} : Goes(k, stage, None) /\ UNCHANGED runtime
    BY <1>11, <2>2 DEF EndCompile, Goes
  <2>3. QED
    BY <1>11, <2>1, <2>2 DEF EndCompile
<1>12. ASSUME NEW k \in Keys, Finish(k) PROVE Carried'
  BY <1>12 DEF Finish, Store, StoreVerdict, StoreNothing, DropLate, Goes, MuFree
<1>13. ASSUME NEW k \in Keys, CloseLate(k) PROVE Carried'
  BY <1>13 DEF CloseLate, Goes
<1>14. ASSUME NEW k \in Keys, Deliver(k) PROVE Carried'
  BY <1>14 DEF Deliver, Goes
<1>15. ASSUME Update PROVE Carried'
  BY <1>15 DEF Update
<1>16. ASSUME BeginPreload PROVE Carried'
  BY <1>16 DEF BeginPreload, AllOut
<1>17. ASSUME NEW p \in Preloads, NEW k \in Keys, Preload(p, k) PROVE Carried'
  BY <1>17 DEF Preload, Look, Returns, Cached, MuFree
<1>18. ASSUME NEW v \in Checks, Ask(v) PROVE Carried'
  BY <1>18 DEF Ask, CheckGoes
<1>19. ASSUME NEW v \in Checks, TakeSlot(v) PROVE Carried'
  BY <1>19 DEF TakeSlot, CheckGoes
<1>20. ASSUME NEW v \in Checks, EndCheckEarly(v) PROVE Carried'
  BY <1>20 DEF EndCheckEarly, CheckGoes
<1>21. ASSUME NEW v \in Checks, BeginCheckCompile(v) PROVE Carried'
  BY <1>21 DEF BeginCheckCompile, CheckGoes, Readable
<1>22. ASSUME NEW v \in Checks, EndCheckCompile(v) PROVE Carried'
  BY <1>22 DEF EndCheckCompile, CheckGoes, Compiled
<1>23. ASSUME NEW v \in Checks, EndCheck(v) PROVE Carried'
  BY <1>23 DEF EndCheck, CheckGoes
<1>24. ASSUME NEW v \in Checks, CloseChecked(v) PROVE Carried'
  BY <1>24 DEF CloseChecked, CheckGoes
<1>25. ASSUME Stop PROVE Carried'
  BY <1>25 DEF Stop, ToPhase
<1>26. ASSUME ShutdownExpires PROVE Carried'
  BY <1>26 DEF ShutdownExpires, ToPhase
<1>27. ASSUME Drained PROVE Carried'
  BY <1>27 DEF Drained, ToPhase, AllOut
<1>28. ASSUME Joined PROVE Carried'
  BY <1>28 DEF Joined, ToPhase, AllOut
<1>29. ASSUME ClosePools PROVE Carried'
  BY <1>29 DEF ClosePools, ToPhase
<1>30. ASSUME CloseExecutor PROVE Carried'
  BY <1>30 DEF CloseExecutor, ToPhase, MuFree
<1>31. ASSUME LockRuntime PROVE Carried'
  BY <1>31 DEF LockRuntime, ToPhase
<1>32. ASSUME CloseRuntime PROVE Carried'
  BY <1>32 DEF CloseRuntime, ToPhase, Compiling
<1>33. ASSUME RuntimeClosed PROVE Carried'
  BY <1>33 DEF RuntimeClosed, ToPhase
<1>34. ASSUME NEW m \in Mods, CloseModule(m) PROVE Carried'
  BY <1>34 DEF CloseModule
<1>35. ASSUME NEW m \in Mods, CloseTracked(m) PROVE Carried'
  BY <1>35 DEF CloseTracked
<1>36. CASE UNCHANGED vars
  BY <1>36
<1>37. QED
  BY <1>1, <1>2, <1>3, <1>4, <1>5, <1>6, <1>7, <1>8, <1>9, <1>10, <1>11, <1>12,
     <1>13, <1>14, <1>15, <1>16, <1>17, <1>18, <1>19, <1>20, <1>21, <1>22, <1>23,
     <1>24, <1>25, <1>26, <1>27, <1>28, <1>29, <1>30, <1>31, <1>32, <1>33, <1>34,
     <1>35, <1>36 DEF Next, WorkerStep, FlightStep, CheckStep,
     PreloadStep, MainStep

\* The shutdown takes things apart in order.
LEMMA OrderStep == TypeOK /\ Carried /\ Order /\ [Next]_vars => Order'
<1> SUFFICES ASSUME TypeOK, Carried, Order, [Next]_vars PROVE Order'
  OBVIOUS
<1> USE MembersAssumption DEF TypeOK, Carried, Order, Ending, Phases, Workers, vars, workers, executor, runtime, process
<1>1. ASSUME NEW c \in Calls, CallerLeaves(c) PROVE Order'
  BY <1>1 DEF CallerLeaves
<1>2. ASSUME NEW c \in Calls, Release(c) PROVE Order'
  BY <1>2 DEF Release
<1>3. ASSUME NEW c \in Calls, NEW k \in Keys, Call(c, k) PROVE Order'
  BY <1>3 DEF Call, Look, Returns, Cached, MuFree
<1>4. ASSUME NEW w \in Workers, Join(w) PROVE Order'
  BY <1>4 DEF Join
<1>5. ASSUME NEW w \in Workers, Take(w) PROVE Order'
  BY <1>5 DEF Take, Returns
<1>6. ASSUME NEW w \in Workers, GiveUp(w) PROVE Order'
  BY <1>6 DEF GiveUp, Returns
<1>7. ASSUME NEW m \in Mods, Expire(m) PROVE Order'
  BY <1>7 DEF Expire
<1>8. ASSUME NEW k \in Keys, Recheck(k) PROVE Order'
  <2>1. PICK s \in {"done", "fetching"}, n \in Mods \cup {None} :
           /\ flight' = [flight EXCEPT ![k] = [at |-> s, mod |-> n]]
           /\ s = "done" => n = modules[k]
    BY <1>8 DEF Recheck, Goes, TypeOK
  <2>2. flight[k].at = "begun" /\ UNCHANGED <<workers, executor, pooled,
                                     check, runtime, process>>
    BY <1>8 DEF Recheck
  <2>3. QED
    BY <2>1, <2>2
<1>9. ASSUME NEW k \in Keys, FetchFails(k) PROVE Order'
  BY <1>9 DEF FetchFails, Goes
<1>10. ASSUME NEW k \in Keys, BeginCompile(k) PROVE Order'
  BY <1>10 DEF BeginCompile, Goes, Readable
<1>11. ASSUME NEW k \in Keys, EndCompile(k) PROVE Order'
  <2>1. CASE \E m \in Mods : Compiled(m) /\ Goes(k, "compiled", m)
    <3>1. PICK m \in Mods : Compiled(m) /\ Goes(k, "compiled", m)
      BY <2>1
    <3>2. QED
      BY <1>11, <3>1 DEF EndCompile, Goes, Compiled, Fresh
  <2>2. CASE \E stage \in {"invalid", "failed"} : Goes(k, stage, None) /\ UNCHANGED runtime
    BY <1>11, <2>2 DEF EndCompile, Goes
  <2>3. QED
    BY <1>11, <2>1, <2>2 DEF EndCompile
<1>12. ASSUME NEW k \in Keys, Finish(k) PROVE Order'
  BY <1>12 DEF Finish, Store, StoreVerdict, StoreNothing, DropLate, Goes, MuFree
<1>13. ASSUME NEW k \in Keys, CloseLate(k) PROVE Order'
  BY <1>13 DEF CloseLate, Goes
<1>14. ASSUME NEW k \in Keys, Deliver(k) PROVE Order'
  BY <1>14 DEF Deliver, Goes
<1>15. ASSUME Update PROVE Order'
  BY <1>15 DEF Update
<1>16. ASSUME BeginPreload PROVE Order'
  BY <1>16 DEF BeginPreload, AllOut
<1>17. ASSUME NEW p \in Preloads, NEW k \in Keys, Preload(p, k) PROVE Order'
  BY <1>17 DEF Preload, Look, Returns, Cached, MuFree
<1>18. ASSUME NEW v \in Checks, Ask(v) PROVE Order'
  BY <1>18 DEF Ask, CheckGoes
<1>19. ASSUME NEW v \in Checks, TakeSlot(v) PROVE Order'
  BY <1>19 DEF TakeSlot, CheckGoes
<1>20. ASSUME NEW v \in Checks, EndCheckEarly(v) PROVE Order'
  BY <1>20 DEF EndCheckEarly, CheckGoes
<1>21. ASSUME NEW v \in Checks, BeginCheckCompile(v) PROVE Order'
  BY <1>21 DEF BeginCheckCompile, CheckGoes, Readable
<1>22. ASSUME NEW v \in Checks, EndCheckCompile(v) PROVE Order'
  BY <1>22 DEF EndCheckCompile, CheckGoes, Compiled
<1>23. ASSUME NEW v \in Checks, EndCheck(v) PROVE Order'
  BY <1>23 DEF EndCheck, CheckGoes
<1>24. ASSUME NEW v \in Checks, CloseChecked(v) PROVE Order'
  BY <1>24 DEF CloseChecked, CheckGoes
<1>25. ASSUME Stop PROVE Order'
  BY <1>25 DEF Stop, ToPhase
<1>26. ASSUME ShutdownExpires PROVE Order'
  BY <1>26 DEF ShutdownExpires, ToPhase
<1>27. ASSUME Drained PROVE Order'
  BY <1>27 DEF Drained, ToPhase, AllOut
<1>28. ASSUME Joined PROVE Order'
  BY <1>28 DEF Joined, ToPhase, AllOut
<1>29. ASSUME ClosePools PROVE Order'
  BY <1>29 DEF ClosePools, ToPhase
<1>30. ASSUME CloseExecutor PROVE Order'
  BY <1>30 DEF CloseExecutor, ToPhase, MuFree
<1>31. ASSUME LockRuntime PROVE Order'
  BY <1>31 DEF LockRuntime, ToPhase
<1>32. ASSUME CloseRuntime PROVE Order'
  BY <1>32 DEF CloseRuntime, ToPhase, Compiling
<1>33. ASSUME RuntimeClosed PROVE Order'
  BY <1>33 DEF RuntimeClosed, ToPhase
<1>34. ASSUME NEW m \in Mods, CloseModule(m) PROVE Order'
  BY <1>34 DEF CloseModule
<1>35. ASSUME NEW m \in Mods, CloseTracked(m) PROVE Order'
  BY <1>35 DEF CloseTracked
<1>36. CASE UNCHANGED vars
  BY <1>36
<1>37. QED
  BY <1>1, <1>2, <1>3, <1>4, <1>5, <1>6, <1>7, <1>8, <1>9, <1>10, <1>11, <1>12,
     <1>13, <1>14, <1>15, <1>16, <1>17, <1>18, <1>19, <1>20, <1>21, <1>22, <1>23,
     <1>24, <1>25, <1>26, <1>27, <1>28, <1>29, <1>30, <1>31, <1>32, <1>33, <1>34,
     <1>35, <1>36 DEF Next, WorkerStep, FlightStep, CheckStep,
     PreloadStep, MainStep

\* A flight that compiles has looked, and nobody else works on its key.
LEMMA OnceStep == TypeOK /\ CompiledOnce /\ [Next]_vars => CompiledOnce'
<1> SUFFICES ASSUME TypeOK, CompiledOnce, [Next]_vars PROVE CompiledOnce'
  OBVIOUS
<1> USE MembersAssumption DEF TypeOK, CompiledOnce, Cached, vars, workers, executor, runtime, process
<1>1. ASSUME NEW c \in Calls, CallerLeaves(c) PROVE CompiledOnce'
  BY <1>1 DEF CallerLeaves
<1>2. ASSUME NEW c \in Calls, Release(c) PROVE CompiledOnce'
  BY <1>2 DEF Release
<1>3. ASSUME NEW c \in Calls, NEW k \in Keys, Call(c, k) PROVE CompiledOnce'
  BY <1>3 DEF Call, Look, Returns, Cached, MuFree
<1>4. ASSUME NEW w \in Workers, Join(w) PROVE CompiledOnce'
  BY <1>4 DEF Join
<1>5. ASSUME NEW w \in Workers, Take(w) PROVE CompiledOnce'
  BY <1>5 DEF Take, Returns
<1>6. ASSUME NEW w \in Workers, GiveUp(w) PROVE CompiledOnce'
  BY <1>6 DEF GiveUp, Returns
<1>7. ASSUME NEW m \in Mods, Expire(m) PROVE CompiledOnce'
  BY <1>7 DEF Expire
<1>8. ASSUME NEW k \in Keys, Recheck(k) PROVE CompiledOnce'
  BY <1>8 DEF Recheck, Goes, Cached, MuFree
<1>9. ASSUME NEW k \in Keys, FetchFails(k) PROVE CompiledOnce'
  BY <1>9 DEF FetchFails, Goes
<1>10. ASSUME NEW k \in Keys, BeginCompile(k) PROVE CompiledOnce'
  BY <1>10 DEF BeginCompile, Goes, Readable
<1>11. ASSUME NEW k \in Keys, EndCompile(k) PROVE CompiledOnce'
  BY <1>11 DEF EndCompile, Goes, Compiled
<1>12. ASSUME NEW k \in Keys, Finish(k) PROVE CompiledOnce'
  BY <1>12 DEF Finish, Store, StoreVerdict, StoreNothing, DropLate, Goes, MuFree
<1>13. ASSUME NEW k \in Keys, CloseLate(k) PROVE CompiledOnce'
  BY <1>13 DEF CloseLate, Goes
<1>14. ASSUME NEW k \in Keys, Deliver(k) PROVE CompiledOnce'
  BY <1>14 DEF Deliver, Goes
<1>15. ASSUME Update PROVE CompiledOnce'
  BY <1>15 DEF Update
<1>16. ASSUME BeginPreload PROVE CompiledOnce'
  BY <1>16 DEF BeginPreload, AllOut
<1>17. ASSUME NEW p \in Preloads, NEW k \in Keys, Preload(p, k) PROVE CompiledOnce'
  BY <1>17 DEF Preload, Look, Returns, Cached, MuFree
<1>18. ASSUME NEW v \in Checks, Ask(v) PROVE CompiledOnce'
  BY <1>18 DEF Ask, CheckGoes
<1>19. ASSUME NEW v \in Checks, TakeSlot(v) PROVE CompiledOnce'
  BY <1>19 DEF TakeSlot, CheckGoes
<1>20. ASSUME NEW v \in Checks, EndCheckEarly(v) PROVE CompiledOnce'
  BY <1>20 DEF EndCheckEarly, CheckGoes
<1>21. ASSUME NEW v \in Checks, BeginCheckCompile(v) PROVE CompiledOnce'
  BY <1>21 DEF BeginCheckCompile, CheckGoes, Readable
<1>22. ASSUME NEW v \in Checks, EndCheckCompile(v) PROVE CompiledOnce'
  BY <1>22 DEF EndCheckCompile, CheckGoes, Compiled
<1>23. ASSUME NEW v \in Checks, EndCheck(v) PROVE CompiledOnce'
  BY <1>23 DEF EndCheck, CheckGoes
<1>24. ASSUME NEW v \in Checks, CloseChecked(v) PROVE CompiledOnce'
  BY <1>24 DEF CloseChecked, CheckGoes
<1>25. ASSUME Stop PROVE CompiledOnce'
  BY <1>25 DEF Stop, ToPhase
<1>26. ASSUME ShutdownExpires PROVE CompiledOnce'
  BY <1>26 DEF ShutdownExpires, ToPhase
<1>27. ASSUME Drained PROVE CompiledOnce'
  BY <1>27 DEF Drained, ToPhase, AllOut
<1>28. ASSUME Joined PROVE CompiledOnce'
  BY <1>28 DEF Joined, ToPhase, AllOut
<1>29. ASSUME ClosePools PROVE CompiledOnce'
  BY <1>29 DEF ClosePools, ToPhase
<1>30. ASSUME CloseExecutor PROVE CompiledOnce'
  BY <1>30 DEF CloseExecutor, ToPhase, MuFree
<1>31. ASSUME LockRuntime PROVE CompiledOnce'
  BY <1>31 DEF LockRuntime, ToPhase
<1>32. ASSUME CloseRuntime PROVE CompiledOnce'
  BY <1>32 DEF CloseRuntime, ToPhase, Compiling
<1>33. ASSUME RuntimeClosed PROVE CompiledOnce'
  BY <1>33 DEF RuntimeClosed, ToPhase
<1>34. ASSUME NEW m \in Mods, CloseModule(m) PROVE CompiledOnce'
  BY <1>34 DEF CloseModule
<1>35. ASSUME NEW m \in Mods, CloseTracked(m) PROVE CompiledOnce'
  BY <1>35 DEF CloseTracked
<1>36. CASE UNCHANGED vars
  BY <1>36
<1>37. QED
  BY <1>1, <1>2, <1>3, <1>4, <1>5, <1>6, <1>7, <1>8, <1>9, <1>10, <1>11, <1>12,
     <1>13, <1>14, <1>15, <1>16, <1>17, <1>18, <1>19, <1>20, <1>21, <1>22, <1>23,
     <1>24, <1>25, <1>26, <1>27, <1>28, <1>29, <1>30, <1>31, <1>32, <1>33, <1>34,
     <1>35, <1>36 DEF Next, WorkerStep, FlightStep, CheckStep,
     PreloadStep, MainStep

\* A module that was just compiled is nobody's yet.
LEMMA ApartStep == TypeOK /\ Carried /\ Apart /\ [Next]_vars => Apart'
<1> SUFFICES ASSUME TypeOK, Carried, Apart, [Next]_vars PROVE Apart'
  OBVIOUS
<1> USE MembersAssumption DEF TypeOK, Carried, Apart, vars, workers, executor, runtime, process
<1>1. ASSUME NEW c \in Calls, CallerLeaves(c) PROVE Apart'
  BY <1>1 DEF CallerLeaves
<1>2. ASSUME NEW c \in Calls, Release(c) PROVE Apart'
  BY <1>2 DEF Release
<1>3. ASSUME NEW c \in Calls, NEW k \in Keys, Call(c, k) PROVE Apart'
  BY <1>3 DEF Call, Look, Returns, Cached, MuFree
<1>4. ASSUME NEW w \in Workers, Join(w) PROVE Apart'
  BY <1>4 DEF Join
<1>5. ASSUME NEW w \in Workers, Take(w) PROVE Apart'
  BY <1>5 DEF Take, Returns
<1>6. ASSUME NEW w \in Workers, GiveUp(w) PROVE Apart'
  BY <1>6 DEF GiveUp, Returns
<1>7. ASSUME NEW m \in Mods, Expire(m) PROVE Apart'
  BY <1>7 DEF Expire
<1>8. ASSUME NEW k \in Keys, Recheck(k) PROVE Apart'
  <2>1. PICK s \in {"done", "fetching"}, n \in Mods \cup {None} :
           /\ flight' = [flight EXCEPT ![k] = [at |-> s, mod |-> n]]
           /\ s = "done" => n = modules[k]
    BY <1>8 DEF Recheck, Goes, TypeOK
  <2>2. flight[k].at = "begun" /\ UNCHANGED <<workers, executor, pooled,
                                     check, runtime, process>>
    BY <1>8 DEF Recheck
  <2>3. QED
    BY <2>1, <2>2
<1>9. ASSUME NEW k \in Keys, FetchFails(k) PROVE Apart'
  BY <1>9 DEF FetchFails, Goes
<1>10. ASSUME NEW k \in Keys, BeginCompile(k) PROVE Apart'
  BY <1>10 DEF BeginCompile, Goes, Readable
<1>11. ASSUME NEW k \in Keys, EndCompile(k) PROVE Apart'
  <2>1. CASE \E m \in Mods : Compiled(m) /\ Goes(k, "compiled", m)
    <3>1. PICK m \in Mods : Compiled(m) /\ Goes(k, "compiled", m)
      BY <2>1
    <3>2. QED
      BY <1>11, <3>1 DEF EndCompile, Goes, Compiled, Fresh
  <2>2. CASE \E stage \in {"invalid", "failed"} : Goes(k, stage, None) /\ UNCHANGED runtime
    BY <1>11, <2>2 DEF EndCompile, Goes
  <2>3. QED
    BY <1>11, <2>1, <2>2 DEF EndCompile
<1>12. ASSUME NEW k \in Keys, Finish(k) PROVE Apart'
  BY <1>12 DEF Finish, Store, StoreVerdict, StoreNothing, DropLate, Goes, MuFree
<1>13. ASSUME NEW k \in Keys, CloseLate(k) PROVE Apart'
  BY <1>13 DEF CloseLate, Goes
<1>14. ASSUME NEW k \in Keys, Deliver(k) PROVE Apart'
  BY <1>14 DEF Deliver, Goes
<1>15. ASSUME Update PROVE Apart'
  BY <1>15 DEF Update
<1>16. ASSUME BeginPreload PROVE Apart'
  BY <1>16 DEF BeginPreload, AllOut
<1>17. ASSUME NEW p \in Preloads, NEW k \in Keys, Preload(p, k) PROVE Apart'
  BY <1>17 DEF Preload, Look, Returns, Cached, MuFree
<1>18. ASSUME NEW v \in Checks, Ask(v) PROVE Apart'
  BY <1>18 DEF Ask, CheckGoes
<1>19. ASSUME NEW v \in Checks, TakeSlot(v) PROVE Apart'
  BY <1>19 DEF TakeSlot, CheckGoes
<1>20. ASSUME NEW v \in Checks, EndCheckEarly(v) PROVE Apart'
  BY <1>20 DEF EndCheckEarly, CheckGoes
<1>21. ASSUME NEW v \in Checks, BeginCheckCompile(v) PROVE Apart'
  BY <1>21 DEF BeginCheckCompile, CheckGoes, Readable
<1>22. ASSUME NEW v \in Checks, EndCheckCompile(v) PROVE Apart'
  <2>1. CASE \E m \in Mods : Compiled(m) /\ CheckGoes(v, "testing", m)
    <3>1. PICK m \in Mods : Compiled(m) /\ CheckGoes(v, "testing", m)
      BY <2>1
    <3>2. QED
      BY <1>22, <3>1 DEF EndCheckCompile, CheckGoes, Compiled, Fresh
  <2>2. CASE CheckGoes(v, "idle", None) /\ UNCHANGED runtime
    BY <1>22, <2>2 DEF EndCheckCompile, CheckGoes
  <2>3. QED
    BY <1>22, <2>1, <2>2 DEF EndCheckCompile
<1>23. ASSUME NEW v \in Checks, EndCheck(v) PROVE Apart'
  BY <1>23 DEF EndCheck, CheckGoes
<1>24. ASSUME NEW v \in Checks, CloseChecked(v) PROVE Apart'
  BY <1>24 DEF CloseChecked, CheckGoes
<1>25. ASSUME Stop PROVE Apart'
  BY <1>25 DEF Stop, ToPhase
<1>26. ASSUME ShutdownExpires PROVE Apart'
  BY <1>26 DEF ShutdownExpires, ToPhase
<1>27. ASSUME Drained PROVE Apart'
  BY <1>27 DEF Drained, ToPhase, AllOut
<1>28. ASSUME Joined PROVE Apart'
  BY <1>28 DEF Joined, ToPhase, AllOut
<1>29. ASSUME ClosePools PROVE Apart'
  BY <1>29 DEF ClosePools, ToPhase
<1>30. ASSUME CloseExecutor PROVE Apart'
  BY <1>30 DEF CloseExecutor, ToPhase, MuFree
<1>31. ASSUME LockRuntime PROVE Apart'
  BY <1>31 DEF LockRuntime, ToPhase
<1>32. ASSUME CloseRuntime PROVE Apart'
  BY <1>32 DEF CloseRuntime, ToPhase, Compiling
<1>33. ASSUME RuntimeClosed PROVE Apart'
  BY <1>33 DEF RuntimeClosed, ToPhase
<1>34. ASSUME NEW m \in Mods, CloseModule(m) PROVE Apart'
  BY <1>34 DEF CloseModule
<1>35. ASSUME NEW m \in Mods, CloseTracked(m) PROVE Apart'
  BY <1>35 DEF CloseTracked
<1>36. CASE UNCHANGED vars
  BY <1>36
<1>37. QED
  BY <1>1, <1>2, <1>3, <1>4, <1>5, <1>6, <1>7, <1>8, <1>9, <1>10, <1>11, <1>12,
     <1>13, <1>14, <1>15, <1>16, <1>17, <1>18, <1>19, <1>20, <1>21, <1>22, <1>23,
     <1>24, <1>25, <1>26, <1>27, <1>28, <1>29, <1>30, <1>31, <1>32, <1>33, <1>34,
     <1>35, <1>36 DEF Next, WorkerStep, FlightStep, CheckStep,
     PreloadStep, MainStep

\* Calls get their modules from the cache, and until it is closed it keeps them.
LEMMA UsersStep == TypeOK /\ Carried /\ Order /\ CompiledOnce /\ UsersHold /\ [Next]_vars => UsersHold'
<1> SUFFICES ASSUME TypeOK, Carried, Order, CompiledOnce, UsersHold, [Next]_vars PROVE UsersHold'
  OBVIOUS
<1> USE MembersAssumption DEF TypeOK, Carried, Order, UsersHold, IsCached, Ending, Workers, vars, workers, executor, runtime, process
<1>1. ASSUME NEW c \in Calls, CallerLeaves(c) PROVE UsersHold'
  BY <1>1 DEF CallerLeaves
<1>2. ASSUME NEW c \in Calls, Release(c) PROVE UsersHold'
  BY <1>2 DEF Release
<1>3. ASSUME NEW c \in Calls, NEW k \in Keys, Call(c, k) PROVE UsersHold'
  BY <1>3 DEF Call, Look, Returns, Cached, MuFree
<1>4. ASSUME NEW w \in Workers, Join(w) PROVE UsersHold'
  BY <1>4 DEF Join
<1>5. ASSUME NEW w \in Workers, Take(w) PROVE UsersHold'
  BY <1>5 DEF Take, Returns
<1>6. ASSUME NEW w \in Workers, GiveUp(w) PROVE UsersHold'
  BY <1>6 DEF GiveUp, Returns
<1>7. ASSUME NEW m \in Mods, Expire(m) PROVE UsersHold'
  BY <1>7 DEF Expire
<1>8. ASSUME NEW k \in Keys, Recheck(k) PROVE UsersHold'
  <2>1. PICK s \in {"done", "fetching"}, n \in Mods \cup {None} :
           /\ flight' = [flight EXCEPT ![k] = [at |-> s, mod |-> n]]
           /\ s = "done" => n = modules[k]
    BY <1>8 DEF Recheck, Goes, TypeOK
  <2>2. flight[k].at = "begun" /\ UNCHANGED <<workers, executor, pooled,
                                     check, runtime, process>>
    BY <1>8 DEF Recheck
  <2>3. QED
    BY <2>1, <2>2
<1>9. ASSUME NEW k \in Keys, FetchFails(k) PROVE UsersHold'
  BY <1>9 DEF FetchFails, Goes
<1>10. ASSUME NEW k \in Keys, BeginCompile(k) PROVE UsersHold'
  BY <1>10 DEF BeginCompile, Goes, Readable
<1>11. ASSUME NEW k \in Keys, EndCompile(k) PROVE UsersHold'
  <2>1. CASE \E m \in Mods : Compiled(m) /\ Goes(k, "compiled", m)
    <3>1. PICK m \in Mods : Compiled(m) /\ Goes(k, "compiled", m)
      BY <2>1
    <3>2. QED
      BY <1>11, <3>1 DEF EndCompile, Goes, Compiled, Fresh
  <2>2. CASE \E stage \in {"invalid", "failed"} : Goes(k, stage, None) /\ UNCHANGED runtime
    BY <1>11, <2>2 DEF EndCompile, Goes
  <2>3. QED
    BY <1>11, <2>1, <2>2 DEF EndCompile
<1>12. ASSUME NEW k \in Keys, Finish(k) PROVE UsersHold'
  <2>1. CASE Store(k)
    <3> DEFINE After(m) == \E j \in Keys : modules'[j] = m
    <3>1. ~closed /\ modules' = [modules EXCEPT ![k] = flight[k].mod]
          /\ flight' = [flight EXCEPT ![k] = [at |-> "done", mod |-> flight[k].mod]]
      BY <1>12, <2>1 DEF Finish, Store, Goes, executor
    <3>2. /\ modules[k] = None /\ modules'[k] = flight[k].mod
          /\ closed' = closed /\ pooled' = pooled /\ at' = at /\ mod' = mod
      BY <1>12, <2>1, <3>1 DEF Finish, Store, CompiledOnce, Cached, TypeOK, workers
    <3>3. \A m \in Mods : IsCached(m) => After(m)
      BY <3>1, <3>2, MembersAssumption DEF IsCached, TypeOK
    <3>4. After(flight[k].mod)
      BY <3>2
    <3>5. \A j \in Keys : flight'[j].at = "done" =>
             flight'[j].mod = None \/ After(flight'[j].mod)
      <4>1. ASSUME NEW j \in Keys \ {k}, flight[j].at = "done"
            PROVE  flight[j].mod = None \/ After(flight[j].mod)
        BY <3>1, <3>3, <4>1 DEF UsersHold, TypeOK
      <4>2. flight'[k].mod = flight[k].mod /\ \A j \in Keys \ {k} : flight'[j] = flight[j]
        BY <3>1 DEF TypeOK
      <4>3. QED
        BY <3>4, <4>1, <4>2
    <3>6. ASSUME NEW w \in Workers, at[w] \in {"answered", "using"}
          PROVE  mod[w] = None \/ After(mod[w])
      BY <3>1, <3>3, <3>6 DEF UsersHold, TypeOK
    <3>7. ASSUME NEW m \in pooled PROVE After(m)
      BY <3>1, <3>3 DEF UsersHold, TypeOK
    <3>8. QED
      BY <3>2, <3>5, <3>6, <3>7 DEF UsersHold, IsCached
  <2>2. CASE StoreVerdict(k)
    BY <1>12, <2>2 DEF Finish, StoreVerdict, Goes
  <2>3. CASE StoreNothing(k)
    BY <1>12, <2>3 DEF Finish, StoreNothing, Goes
  <2>4. CASE DropLate(k)
    BY <1>12, <2>4 DEF Finish, DropLate, Goes
  <2>5. QED
    BY <1>12, <2>1, <2>2, <2>3, <2>4 DEF Finish
<1>13. ASSUME NEW k \in Keys, CloseLate(k) PROVE UsersHold'
  BY <1>13 DEF CloseLate, Goes
<1>14. ASSUME NEW k \in Keys, Deliver(k) PROVE UsersHold'
  BY <1>14 DEF Deliver, Goes
<1>15. ASSUME Update PROVE UsersHold'
  BY <1>15 DEF Update
<1>16. ASSUME BeginPreload PROVE UsersHold'
  BY <1>16 DEF BeginPreload, AllOut
<1>17. ASSUME NEW p \in Preloads, NEW k \in Keys, Preload(p, k) PROVE UsersHold'
  BY <1>17 DEF Preload, Look, Returns, Cached, MuFree
<1>18. ASSUME NEW v \in Checks, Ask(v) PROVE UsersHold'
  BY <1>18 DEF Ask, CheckGoes
<1>19. ASSUME NEW v \in Checks, TakeSlot(v) PROVE UsersHold'
  BY <1>19 DEF TakeSlot, CheckGoes
<1>20. ASSUME NEW v \in Checks, EndCheckEarly(v) PROVE UsersHold'
  BY <1>20 DEF EndCheckEarly, CheckGoes
<1>21. ASSUME NEW v \in Checks, BeginCheckCompile(v) PROVE UsersHold'
  BY <1>21 DEF BeginCheckCompile, CheckGoes, Readable
<1>22. ASSUME NEW v \in Checks, EndCheckCompile(v) PROVE UsersHold'
  <2>1. CASE \E m \in Mods : Compiled(m) /\ CheckGoes(v, "testing", m)
    <3>1. PICK m \in Mods : Compiled(m) /\ CheckGoes(v, "testing", m)
      BY <2>1
    <3>2. QED
      BY <1>22, <3>1 DEF EndCheckCompile, CheckGoes, Compiled, Fresh
  <2>2. CASE CheckGoes(v, "idle", None) /\ UNCHANGED runtime
    BY <1>22, <2>2 DEF EndCheckCompile, CheckGoes
  <2>3. QED
    BY <1>22, <2>1, <2>2 DEF EndCheckCompile
<1>23. ASSUME NEW v \in Checks, EndCheck(v) PROVE UsersHold'
  BY <1>23 DEF EndCheck, CheckGoes
<1>24. ASSUME NEW v \in Checks, CloseChecked(v) PROVE UsersHold'
  BY <1>24 DEF CloseChecked, CheckGoes
<1>25. ASSUME Stop PROVE UsersHold'
  BY <1>25 DEF Stop, ToPhase
<1>26. ASSUME ShutdownExpires PROVE UsersHold'
  BY <1>26 DEF ShutdownExpires, ToPhase
<1>27. ASSUME Drained PROVE UsersHold'
  BY <1>27 DEF Drained, ToPhase, AllOut
<1>28. ASSUME Joined PROVE UsersHold'
  BY <1>28 DEF Joined, ToPhase, AllOut
<1>29. ASSUME ClosePools PROVE UsersHold'
  BY <1>29 DEF ClosePools, ToPhase
<1>30. ASSUME CloseExecutor PROVE UsersHold'
  BY <1>30 DEF CloseExecutor, ToPhase, MuFree
<1>31. ASSUME LockRuntime PROVE UsersHold'
  BY <1>31 DEF LockRuntime, ToPhase
<1>32. ASSUME CloseRuntime PROVE UsersHold'
  BY <1>32 DEF CloseRuntime, ToPhase, Compiling
<1>33. ASSUME RuntimeClosed PROVE UsersHold'
  BY <1>33 DEF RuntimeClosed, ToPhase
<1>34. ASSUME NEW m \in Mods, CloseModule(m) PROVE UsersHold'
  BY <1>34 DEF CloseModule
<1>35. ASSUME NEW m \in Mods, CloseTracked(m) PROVE UsersHold'
  BY <1>35 DEF CloseTracked
<1>36. CASE UNCHANGED vars
  BY <1>36
<1>37. QED
  BY <1>1, <1>2, <1>3, <1>4, <1>5, <1>6, <1>7, <1>8, <1>9, <1>10, <1>11, <1>12,
     <1>13, <1>14, <1>15, <1>16, <1>17, <1>18, <1>19, <1>20, <1>21, <1>22, <1>23,
     <1>24, <1>25, <1>26, <1>27, <1>28, <1>29, <1>30, <1>31, <1>32, <1>33, <1>34,
     <1>35, <1>36 DEF Next, WorkerStep, FlightStep, CheckStep,
     PreloadStep, MainStep

\* A module is closed by the one who holds it, or once nobody can use it.
LEMMA OpenedStep == TypeOK /\ Carried /\ Order /\ Apart /\ Opened /\ [Next]_vars => Opened'
<1> SUFFICES ASSUME TypeOK, Carried, Order, Apart, Opened, [Next]_vars PROVE Opened'
  OBVIOUS
<1> USE MembersAssumption DEF TypeOK, Carried, Order, Apart, Opened, Ending, vars, workers, executor, runtime, process
<1>1. ASSUME NEW c \in Calls, CallerLeaves(c) PROVE Opened'
  BY <1>1 DEF CallerLeaves
<1>2. ASSUME NEW c \in Calls, Release(c) PROVE Opened'
  BY <1>2 DEF Release
<1>3. ASSUME NEW c \in Calls, NEW k \in Keys, Call(c, k) PROVE Opened'
  BY <1>3 DEF Call, Look, Returns, Cached, MuFree
<1>4. ASSUME NEW w \in Workers, Join(w) PROVE Opened'
  BY <1>4 DEF Join
<1>5. ASSUME NEW w \in Workers, Take(w) PROVE Opened'
  BY <1>5 DEF Take, Returns
<1>6. ASSUME NEW w \in Workers, GiveUp(w) PROVE Opened'
  BY <1>6 DEF GiveUp, Returns
<1>7. ASSUME NEW m \in Mods, Expire(m) PROVE Opened'
  BY <1>7 DEF Expire
<1>8. ASSUME NEW k \in Keys, Recheck(k) PROVE Opened'
  <2>1. PICK s \in {"done", "fetching"}, n \in Mods \cup {None} :
           /\ flight' = [flight EXCEPT ![k] = [at |-> s, mod |-> n]]
           /\ s = "done" => n = modules[k]
    BY <1>8 DEF Recheck, Goes, TypeOK
  <2>2. flight[k].at = "begun" /\ UNCHANGED <<workers, executor, pooled,
                                     check, runtime, process>>
    BY <1>8 DEF Recheck
  <2>3. QED
    BY <2>1, <2>2
<1>9. ASSUME NEW k \in Keys, FetchFails(k) PROVE Opened'
  BY <1>9 DEF FetchFails, Goes
<1>10. ASSUME NEW k \in Keys, BeginCompile(k) PROVE Opened'
  BY <1>10 DEF BeginCompile, Goes, Readable
<1>11. ASSUME NEW k \in Keys, EndCompile(k) PROVE Opened'
  <2>1. CASE \E m \in Mods : Compiled(m) /\ Goes(k, "compiled", m)
    <3>1. PICK m \in Mods : Compiled(m) /\ Goes(k, "compiled", m)
      BY <2>1
    <3>2. QED
      BY <1>11, <3>1 DEF EndCompile, Goes, Compiled, Fresh
  <2>2. CASE \E stage \in {"invalid", "failed"} : Goes(k, stage, None) /\ UNCHANGED runtime
    BY <1>11, <2>2 DEF EndCompile, Goes
  <2>3. QED
    BY <1>11, <2>1, <2>2 DEF EndCompile
<1>12. ASSUME NEW k \in Keys, Finish(k) PROVE Opened'
  <2>1. CASE Store(k)
    BY <1>12, <2>1 DEF Finish, Store, Goes
  <2>2. CASE StoreVerdict(k)
    BY <1>12, <2>2 DEF Finish, StoreVerdict, Goes
  <2>3. CASE StoreNothing(k)
    BY <1>12, <2>3 DEF Finish, StoreNothing, Goes
  <2>4. CASE DropLate(k)
    BY <1>12, <2>4 DEF Finish, DropLate, Goes
  <2>5. QED
    BY <1>12, <2>1, <2>2, <2>3, <2>4 DEF Finish
<1>13. ASSUME NEW k \in Keys, CloseLate(k) PROVE Opened'
  BY <1>13 DEF CloseLate, Goes
<1>14. ASSUME NEW k \in Keys, Deliver(k) PROVE Opened'
  BY <1>14 DEF Deliver, Goes
<1>15. ASSUME Update PROVE Opened'
  BY <1>15 DEF Update
<1>16. ASSUME BeginPreload PROVE Opened'
  BY <1>16 DEF BeginPreload, AllOut
<1>17. ASSUME NEW p \in Preloads, NEW k \in Keys, Preload(p, k) PROVE Opened'
  BY <1>17 DEF Preload, Look, Returns, Cached, MuFree
<1>18. ASSUME NEW v \in Checks, Ask(v) PROVE Opened'
  BY <1>18 DEF Ask, CheckGoes
<1>19. ASSUME NEW v \in Checks, TakeSlot(v) PROVE Opened'
  BY <1>19 DEF TakeSlot, CheckGoes
<1>20. ASSUME NEW v \in Checks, EndCheckEarly(v) PROVE Opened'
  BY <1>20 DEF EndCheckEarly, CheckGoes
<1>21. ASSUME NEW v \in Checks, BeginCheckCompile(v) PROVE Opened'
  BY <1>21 DEF BeginCheckCompile, CheckGoes, Readable
<1>22. ASSUME NEW v \in Checks, EndCheckCompile(v) PROVE Opened'
  <2>1. CASE \E m \in Mods : Compiled(m) /\ CheckGoes(v, "testing", m)
    <3>1. PICK m \in Mods : Compiled(m) /\ CheckGoes(v, "testing", m)
      BY <2>1
    <3>2. QED
      BY <1>22, <3>1 DEF EndCheckCompile, CheckGoes, Compiled, Fresh
  <2>2. CASE CheckGoes(v, "idle", None) /\ UNCHANGED runtime
    BY <1>22, <2>2 DEF EndCheckCompile, CheckGoes
  <2>3. QED
    BY <1>22, <2>1, <2>2 DEF EndCheckCompile
<1>23. ASSUME NEW v \in Checks, EndCheck(v) PROVE Opened'
  BY <1>23 DEF EndCheck, CheckGoes
<1>24. ASSUME NEW v \in Checks, CloseChecked(v) PROVE Opened'
  BY <1>24 DEF CloseChecked, CheckGoes
<1>25. ASSUME Stop PROVE Opened'
  BY <1>25 DEF Stop, ToPhase
<1>26. ASSUME ShutdownExpires PROVE Opened'
  BY <1>26 DEF ShutdownExpires, ToPhase
<1>27. ASSUME Drained PROVE Opened'
  BY <1>27 DEF Drained, ToPhase, AllOut
<1>28. ASSUME Joined PROVE Opened'
  BY <1>28 DEF Joined, ToPhase, AllOut
<1>29. ASSUME ClosePools PROVE Opened'
  BY <1>29 DEF ClosePools, ToPhase
<1>30. ASSUME CloseExecutor PROVE Opened'
  BY <1>30 DEF CloseExecutor, ToPhase, MuFree
<1>31. ASSUME LockRuntime PROVE Opened'
  BY <1>31 DEF LockRuntime, ToPhase
<1>32. ASSUME CloseRuntime PROVE Opened'
  BY <1>32 DEF CloseRuntime, ToPhase, Compiling
<1>33. ASSUME RuntimeClosed PROVE Opened'
  BY <1>33 DEF RuntimeClosed, ToPhase
<1>34. ASSUME NEW m \in Mods, CloseModule(m) PROVE Opened'
  BY <1>34 DEF CloseModule
<1>35. ASSUME NEW m \in Mods, CloseTracked(m) PROVE Opened'
  BY <1>35 DEF CloseTracked
<1>36. CASE UNCHANGED vars
  BY <1>36
<1>37. QED
  BY <1>1, <1>2, <1>3, <1>4, <1>5, <1>6, <1>7, <1>8, <1>9, <1>10, <1>11, <1>12,
     <1>13, <1>14, <1>15, <1>16, <1>17, <1>18, <1>19, <1>20, <1>21, <1>22, <1>23,
     <1>24, <1>25, <1>26, <1>27, <1>28, <1>29, <1>30, <1>31, <1>32, <1>33, <1>34,
     <1>35, <1>36 DEF Next, WorkerStep, FlightStep, CheckStep,
     PreloadStep, MainStep

\* An open module is always in somebody's hands.
LEMMA AccountedStep == TypeOK /\ Carried /\ Order /\ CompiledOnce /\ Accounted /\ [Next]_vars => Accounted'
<1> SUFFICES ASSUME TypeOK, Carried, Order, CompiledOnce, Accounted, [Next]_vars PROVE Accounted'
  OBVIOUS
<1> USE MembersAssumption DEF TypeOK, Carried, Order, CompiledOnce, Accounted, IsCached, vars, workers, executor, runtime, process
<1>1. ASSUME NEW c \in Calls, CallerLeaves(c) PROVE Accounted'
  BY <1>1 DEF CallerLeaves
<1>2. ASSUME NEW c \in Calls, Release(c) PROVE Accounted'
  BY <1>2 DEF Release
<1>3. ASSUME NEW c \in Calls, NEW k \in Keys, Call(c, k) PROVE Accounted'
  BY <1>3 DEF Call, Look, Returns, Cached, MuFree
<1>4. ASSUME NEW w \in Workers, Join(w) PROVE Accounted'
  BY <1>4 DEF Join
<1>5. ASSUME NEW w \in Workers, Take(w) PROVE Accounted'
  BY <1>5 DEF Take, Returns
<1>6. ASSUME NEW w \in Workers, GiveUp(w) PROVE Accounted'
  BY <1>6 DEF GiveUp, Returns
<1>7. ASSUME NEW m \in Mods, Expire(m) PROVE Accounted'
  BY <1>7 DEF Expire
<1>8. ASSUME NEW k \in Keys, Recheck(k) PROVE Accounted'
  <2>1. PICK s \in {"done", "fetching"}, n \in Mods \cup {None} :
           /\ flight' = [flight EXCEPT ![k] = [at |-> s, mod |-> n]]
           /\ s = "done" => n = modules[k]
    BY <1>8 DEF Recheck, Goes, TypeOK
  <2>2. flight[k].at = "begun" /\ UNCHANGED <<workers, executor, pooled,
                                     check, runtime, process>>
    BY <1>8 DEF Recheck
  <2>3. QED
    BY <2>1, <2>2
<1>9. ASSUME NEW k \in Keys, FetchFails(k) PROVE Accounted'
  BY <1>9 DEF FetchFails, Goes
<1>10. ASSUME NEW k \in Keys, BeginCompile(k) PROVE Accounted'
  BY <1>10 DEF BeginCompile, Goes, Readable
<1>11. ASSUME NEW k \in Keys, EndCompile(k) PROVE Accounted'
  <2>1. CASE \E m \in Mods : Compiled(m) /\ Goes(k, "compiled", m)
    <3>1. PICK m \in Mods : Compiled(m) /\ Goes(k, "compiled", m)
      BY <2>1
    <3>2. QED
      BY <1>11, <3>1 DEF EndCompile, Goes, Compiled, Fresh
  <2>2. CASE \E stage \in {"invalid", "failed"} : Goes(k, stage, None) /\ UNCHANGED runtime
    BY <1>11, <2>2 DEF EndCompile, Goes
  <2>3. QED
    BY <1>11, <2>1, <2>2 DEF EndCompile
<1>12. ASSUME NEW k \in Keys, Finish(k) PROVE Accounted'
  <2>1. CASE Store(k)
    <3>1. ~closed /\ modules' = [modules EXCEPT ![k] = flight[k].mod]
          /\ flight' = [flight EXCEPT ![k] = [at |-> "done", mod |-> flight[k].mod]]
          /\ flight[k].at = "compiled"
      BY <1>12, <2>1 DEF Finish, Store, Goes, executor
    <3>2. modules[k] = None /\ modules'[k] = flight[k].mod
          /\ open' = open /\ check' = check /\ victims' = victims
      BY <1>12, <2>1, <3>1 DEF Finish, Store, CompiledOnce, Cached, TypeOK, process
    <3>3. ASSUME NEW m \in open PROVE
            \/ IsCached(m)'
            \/ \E j \in Keys : flight'[j].at \in {"compiled", "dropping"} /\ flight'[j].mod = m
            \/ \E v \in Checks : check[v].at \in {"testing", "closing"} /\ check[v].mod = m
            \/ m \in victims
      <4>1. m \in Mods /\ m # None
        BY MembersAssumption DEF TypeOK
      <4>2. IsCached(m) => IsCached(m)'
        BY <3>1, <3>2, <4>1 DEF IsCached, TypeOK
      <4>3. flight[k].mod = m => IsCached(m)'
        BY <3>2 DEF IsCached
      <4>4. \A j \in Keys \ {k} : flight'[j] = flight[j]
        BY <3>1 DEF TypeOK
      <4>5. CASE \E j \in Keys : flight[j].at \in {"compiled", "dropping"} /\ flight[j].mod = m
        BY <4>3, <4>4, <4>5
      <4>6. QED
        BY <4>2, <4>5 DEF Accounted
    <3>4. QED
      BY <3>2, <3>3 DEF Accounted, IsCached
  <2>2. CASE StoreVerdict(k)
    BY <1>12, <2>2 DEF Finish, StoreVerdict, Goes
  <2>3. CASE StoreNothing(k)
    BY <1>12, <2>3 DEF Finish, StoreNothing, Goes
  <2>4. CASE DropLate(k)
    BY <1>12, <2>4 DEF Finish, DropLate, Goes
  <2>5. QED
    BY <1>12, <2>1, <2>2, <2>3, <2>4 DEF Finish
<1>13. ASSUME NEW k \in Keys, CloseLate(k) PROVE Accounted'
  BY <1>13 DEF CloseLate, Goes
<1>14. ASSUME NEW k \in Keys, Deliver(k) PROVE Accounted'
  BY <1>14 DEF Deliver, Goes
<1>15. ASSUME Update PROVE Accounted'
  BY <1>15 DEF Update
<1>16. ASSUME BeginPreload PROVE Accounted'
  BY <1>16 DEF BeginPreload, AllOut
<1>17. ASSUME NEW p \in Preloads, NEW k \in Keys, Preload(p, k) PROVE Accounted'
  BY <1>17 DEF Preload, Look, Returns, Cached, MuFree
<1>18. ASSUME NEW v \in Checks, Ask(v) PROVE Accounted'
  BY <1>18 DEF Ask, CheckGoes
<1>19. ASSUME NEW v \in Checks, TakeSlot(v) PROVE Accounted'
  BY <1>19 DEF TakeSlot, CheckGoes
<1>20. ASSUME NEW v \in Checks, EndCheckEarly(v) PROVE Accounted'
  BY <1>20 DEF EndCheckEarly, CheckGoes
<1>21. ASSUME NEW v \in Checks, BeginCheckCompile(v) PROVE Accounted'
  BY <1>21 DEF BeginCheckCompile, CheckGoes, Readable
<1>22. ASSUME NEW v \in Checks, EndCheckCompile(v) PROVE Accounted'
  <2>1. CASE \E m \in Mods : Compiled(m) /\ CheckGoes(v, "testing", m)
    <3>1. PICK m \in Mods : Compiled(m) /\ CheckGoes(v, "testing", m)
      BY <2>1
    <3>2. QED
      BY <1>22, <3>1 DEF EndCheckCompile, CheckGoes, Compiled, Fresh
  <2>2. CASE CheckGoes(v, "idle", None) /\ UNCHANGED runtime
    BY <1>22, <2>2 DEF EndCheckCompile, CheckGoes
  <2>3. QED
    BY <1>22, <2>1, <2>2 DEF EndCheckCompile
<1>23. ASSUME NEW v \in Checks, EndCheck(v) PROVE Accounted'
  BY <1>23 DEF EndCheck, CheckGoes
<1>24. ASSUME NEW v \in Checks, CloseChecked(v) PROVE Accounted'
  BY <1>24 DEF CloseChecked, CheckGoes
<1>25. ASSUME Stop PROVE Accounted'
  BY <1>25 DEF Stop, ToPhase
<1>26. ASSUME ShutdownExpires PROVE Accounted'
  BY <1>26 DEF ShutdownExpires, ToPhase
<1>27. ASSUME Drained PROVE Accounted'
  BY <1>27 DEF Drained, ToPhase, AllOut
<1>28. ASSUME Joined PROVE Accounted'
  BY <1>28 DEF Joined, ToPhase, AllOut
<1>29. ASSUME ClosePools PROVE Accounted'
  BY <1>29 DEF ClosePools, ToPhase
<1>30. ASSUME CloseExecutor PROVE Accounted'
  BY <1>30 DEF CloseExecutor, ToPhase, MuFree
<1>31. ASSUME LockRuntime PROVE Accounted'
  BY <1>31 DEF LockRuntime, ToPhase
<1>32. ASSUME CloseRuntime PROVE Accounted'
  BY <1>32 DEF CloseRuntime, ToPhase, Compiling
<1>33. ASSUME RuntimeClosed PROVE Accounted'
  BY <1>33 DEF RuntimeClosed, ToPhase
<1>34. ASSUME NEW m \in Mods, CloseModule(m) PROVE Accounted'
  BY <1>34 DEF CloseModule
<1>35. ASSUME NEW m \in Mods, CloseTracked(m) PROVE Accounted'
  BY <1>35 DEF CloseTracked
<1>36. CASE UNCHANGED vars
  BY <1>36
<1>37. QED
  BY <1>1, <1>2, <1>3, <1>4, <1>5, <1>6, <1>7, <1>8, <1>9, <1>10, <1>11, <1>12,
     <1>13, <1>14, <1>15, <1>16, <1>17, <1>18, <1>19, <1>20, <1>21, <1>22, <1>23,
     <1>24, <1>25, <1>26, <1>27, <1>28, <1>29, <1>30, <1>31, <1>32, <1>33, <1>34,
     <1>35, <1>36 DEF Next, WorkerStep, FlightStep, CheckStep,
     PreloadStep, MainStep

\* A module is forgotten by the one who is about to close it.
LEMMA KnownStep == TypeOK /\ Carried /\ Order /\ Known /\ [Next]_vars => Known'
<1> SUFFICES ASSUME TypeOK, Carried, Order, Known, [Next]_vars PROVE Known'
  OBVIOUS
<1> USE MembersAssumption DEF TypeOK, Carried, Order, Known, vars, workers, executor, runtime, process
<1>1. ASSUME NEW c \in Calls, CallerLeaves(c) PROVE Known'
  BY <1>1 DEF CallerLeaves
<1>2. ASSUME NEW c \in Calls, Release(c) PROVE Known'
  BY <1>2 DEF Release
<1>3. ASSUME NEW c \in Calls, NEW k \in Keys, Call(c, k) PROVE Known'
  BY <1>3 DEF Call, Look, Returns, Cached, MuFree
<1>4. ASSUME NEW w \in Workers, Join(w) PROVE Known'
  BY <1>4 DEF Join
<1>5. ASSUME NEW w \in Workers, Take(w) PROVE Known'
  BY <1>5 DEF Take, Returns
<1>6. ASSUME NEW w \in Workers, GiveUp(w) PROVE Known'
  BY <1>6 DEF GiveUp, Returns
<1>7. ASSUME NEW m \in Mods, Expire(m) PROVE Known'
  BY <1>7 DEF Expire
<1>8. ASSUME NEW k \in Keys, Recheck(k) PROVE Known'
  <2>1. PICK s \in {"done", "fetching"}, n \in Mods \cup {None} :
           /\ flight' = [flight EXCEPT ![k] = [at |-> s, mod |-> n]]
           /\ s = "done" => n = modules[k]
    BY <1>8 DEF Recheck, Goes, TypeOK
  <2>2. flight[k].at = "begun" /\ UNCHANGED <<workers, executor, pooled,
                                     check, runtime, process>>
    BY <1>8 DEF Recheck
  <2>3. QED
    BY <2>1, <2>2
<1>9. ASSUME NEW k \in Keys, FetchFails(k) PROVE Known'
  BY <1>9 DEF FetchFails, Goes
<1>10. ASSUME NEW k \in Keys, BeginCompile(k) PROVE Known'
  BY <1>10 DEF BeginCompile, Goes, Readable
<1>11. ASSUME NEW k \in Keys, EndCompile(k) PROVE Known'
  <2>1. CASE \E m \in Mods : Compiled(m) /\ Goes(k, "compiled", m)
    <3>1. PICK m \in Mods : Compiled(m) /\ Goes(k, "compiled", m)
      BY <2>1
    <3>2. QED
      BY <1>11, <3>1 DEF EndCompile, Goes, Compiled, Fresh
  <2>2. CASE \E stage \in {"invalid", "failed"} : Goes(k, stage, None) /\ UNCHANGED runtime
    BY <1>11, <2>2 DEF EndCompile, Goes
  <2>3. QED
    BY <1>11, <2>1, <2>2 DEF EndCompile
<1>12. ASSUME NEW k \in Keys, Finish(k) PROVE Known'
  BY <1>12 DEF Finish, Store, StoreVerdict, StoreNothing, DropLate, Goes, MuFree
<1>13. ASSUME NEW k \in Keys, CloseLate(k) PROVE Known'
  BY <1>13 DEF CloseLate, Goes
<1>14. ASSUME NEW k \in Keys, Deliver(k) PROVE Known'
  BY <1>14 DEF Deliver, Goes
<1>15. ASSUME Update PROVE Known'
  BY <1>15 DEF Update
<1>16. ASSUME BeginPreload PROVE Known'
  BY <1>16 DEF BeginPreload, AllOut
<1>17. ASSUME NEW p \in Preloads, NEW k \in Keys, Preload(p, k) PROVE Known'
  BY <1>17 DEF Preload, Look, Returns, Cached, MuFree
<1>18. ASSUME NEW v \in Checks, Ask(v) PROVE Known'
  BY <1>18 DEF Ask, CheckGoes
<1>19. ASSUME NEW v \in Checks, TakeSlot(v) PROVE Known'
  BY <1>19 DEF TakeSlot, CheckGoes
<1>20. ASSUME NEW v \in Checks, EndCheckEarly(v) PROVE Known'
  BY <1>20 DEF EndCheckEarly, CheckGoes
<1>21. ASSUME NEW v \in Checks, BeginCheckCompile(v) PROVE Known'
  BY <1>21 DEF BeginCheckCompile, CheckGoes, Readable
<1>22. ASSUME NEW v \in Checks, EndCheckCompile(v) PROVE Known'
  <2>1. CASE \E m \in Mods : Compiled(m) /\ CheckGoes(v, "testing", m)
    <3>1. PICK m \in Mods : Compiled(m) /\ CheckGoes(v, "testing", m)
      BY <2>1
    <3>2. QED
      BY <1>22, <3>1 DEF EndCheckCompile, CheckGoes, Compiled, Fresh
  <2>2. CASE CheckGoes(v, "idle", None) /\ UNCHANGED runtime
    BY <1>22, <2>2 DEF EndCheckCompile, CheckGoes
  <2>3. QED
    BY <1>22, <2>1, <2>2 DEF EndCheckCompile
<1>23. ASSUME NEW v \in Checks, EndCheck(v) PROVE Known'
  BY <1>23 DEF EndCheck, CheckGoes
<1>24. ASSUME NEW v \in Checks, CloseChecked(v) PROVE Known'
  BY <1>24 DEF CloseChecked, CheckGoes
<1>25. ASSUME Stop PROVE Known'
  BY <1>25 DEF Stop, ToPhase
<1>26. ASSUME ShutdownExpires PROVE Known'
  BY <1>26 DEF ShutdownExpires, ToPhase
<1>27. ASSUME Drained PROVE Known'
  BY <1>27 DEF Drained, ToPhase, AllOut
<1>28. ASSUME Joined PROVE Known'
  BY <1>28 DEF Joined, ToPhase, AllOut
<1>29. ASSUME ClosePools PROVE Known'
  BY <1>29 DEF ClosePools, ToPhase
<1>30. ASSUME CloseExecutor PROVE Known'
  BY <1>30 DEF CloseExecutor, ToPhase, MuFree
<1>31. ASSUME LockRuntime PROVE Known'
  BY <1>31 DEF LockRuntime, ToPhase
<1>32. ASSUME CloseRuntime PROVE Known'
  BY <1>32 DEF CloseRuntime, ToPhase, Compiling
<1>33. ASSUME RuntimeClosed PROVE Known'
  BY <1>33 DEF RuntimeClosed, ToPhase
<1>34. ASSUME NEW m \in Mods, CloseModule(m) PROVE Known'
  BY <1>34 DEF CloseModule
<1>35. ASSUME NEW m \in Mods, CloseTracked(m) PROVE Known'
  BY <1>35 DEF CloseTracked
<1>36. CASE UNCHANGED vars
  BY <1>36
<1>37. QED
  BY <1>1, <1>2, <1>3, <1>4, <1>5, <1>6, <1>7, <1>8, <1>9, <1>10, <1>11, <1>12,
     <1>13, <1>14, <1>15, <1>16, <1>17, <1>18, <1>19, <1>20, <1>21, <1>22, <1>23,
     <1>24, <1>25, <1>26, <1>27, <1>28, <1>29, <1>30, <1>31, <1>32, <1>33, <1>34,
     <1>35, <1>36 DEF Next, WorkerStep, FlightStep, CheckStep,
     PreloadStep, MainStep

-----------------------------------------------------------------------------
(* The theorems.                                                           *)

LEMMA CacheInvInit == Init => CacheInv
<1> SUFFICES ASSUME Init PROVE CacheInv
  OBVIOUS
<1> USE MembersAssumption DEF Init
<1>1. TypeOK
  BY DEF TypeOK, NoFlight, NoCheck, Phases, Workers
<1>2. Carried /\ Apart /\ UsersHold
  BY DEF Carried, Apart, UsersHold, NoFlight, NoCheck, Workers
<1>3. Order
  BY DEF Order, Ending, NoFlight, NoCheck, Workers
<1>4. Opened /\ Accounted /\ Known
  BY DEF Opened, Accounted, Known, NoFlight, NoCheck
<1>5. CompiledOnce
  BY DEF CompiledOnce, Cached, NoFlight
<1>6. QED
  BY <1>1, <1>2, <1>3, <1>4, <1>5 DEF CacheInv

LEMMA CacheInvStep == CacheInv /\ [Next]_vars => CacheInv'
  BY CacheTypes, CarriedStep, OrderStep, OnceStep, ApartStep, UsersStep,
     OpenedStep, AccountedStep, KnownStep DEF CacheInv

LEMMA CacheInvHolds == Spec => []CacheInv
  BY CacheInvInit, CacheInvStep, PTL DEF Spec

LEMMA InvAccounts == CacheInv => ModulesAccounted
<1> SUFFICES ASSUME CacheInv PROVE ModulesAccounted
  OBVIOUS
<1> USE MembersAssumption DEF CacheInv
<1>1. ASSUME ~overdue, NEW m \in InUse PROVE m \in open
  <2>1. CASE m \in pooled
    BY <2>1 DEF Order, Ending, UsersHold, Opened, IsCached, TypeOK
  <2>2. CASE \E c \in Calls : at[c] = "using" /\ mod[c] = m
    BY <1>1, <2>2 DEF Order, Ending, UsersHold, Opened, IsCached, Carried, Workers,
       TypeOK
  <2>3. CASE \E v \in Checks : check[v].at = "testing" /\ check[v].mod = m
    BY <1>1, <2>3 DEF Opened
  <2>4. QED
    BY <1>1, <2>1, <2>2, <2>3 DEF InUse
<1>2. open \subseteq CachedMods \cup InHand \cup victims
  BY DEF Accounted, IsCached, CachedMods, InHand, TypeOK
<1>3. phase = "closed" => ~Compiling /\ tracked = {} /\ open \subseteq BeingClosed
  BY DEF Order, Known, Compiling, BeingClosed
<1>4. QED
  BY <1>1, <1>2, <1>3 DEF ModulesAccounted

\* Every reachable state is well typed: the stages of Executor.module,
\* Executor.compile and Executor.Validate, and main's way through its shutdown.
THEOREM ModuleCacheTypeCorrect == Spec => []TypeOK
  BY CacheInvHolds, PTL DEF CacheInv

\* No module is closed under a call, a sample call or an idle instance unless
\* the shutdown ran out of time, and none is forgotten by main's shutdown.
THEOREM ModulesAreAccounted == Spec => []ModulesAccounted
<1>1. Spec => []CacheInv
  BY CacheInvHolds
<1>2. CacheInv => ModulesAccounted
  BY InvAccounts
<1>3. QED
  BY <1>1, <1>2, PTL

\* The single flight and its second look compile a key once.
THEOREM CompiledAtMostOnce == Spec => []CompiledOnce
  BY CacheInvHolds, PTL DEF CacheInv

=============================================================================
