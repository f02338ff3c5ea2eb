# WasmHooks: specifications and proofs

WasmHooks lets the tenants of a SaaS product run scripts, compiled to WebAssembly, on the product's hooks.
A **control plane** (Python, FastAPI, PostgreSQL; `src/control-plane`) keeps hooks, tenants, API keys, uploaded
modules and the bindings that say which module a tenant runs on which hook.  A **data plane** (Go;
`src/dataplane`) runs the scripts.  What flows from one to the other on its own is the *configuration snapshot*: the
whole configuration at one version.  A **web console** (React; `src/web`) has two faces: the operator's, who keeps
hooks, tenants and keys, and the tenant's, who uploads and activates modules.

This directory holds TLA+ modules for the parts where the order of things matters, TLC configurations that check
them on small instances, and proofs checked by TLAPS.  `PROJECT.json` lists components, runs, hazards, theorems and,
under `map`, the source lines each definition stands for.

    tlc -workers 2 -config pool.cfg MCInstancePool.tla
    tlapm InstancePoolProofs.tla

## 1. Inventory

### 1.1 The data plane (one process, many goroutines)

| component | state | operations | who it talks to |
|---|---|---|---|
| instance pool, `internal/pool` | idle lists and active counts per key, total, closed flag, wake-up channel | `Acquire`, `Release`, `ReapIdle` (timer goroutine), `Close` | called by every execution; calls factories and closes instances outside its lock |
| executor, `internal/executor` | compiled modules, verdicts, single-flight group, definitions it remembers, closed flag | `Execute`, `Preload`, `Validate`, `Close` | reads the store, leases from the pool, compiles with the runtime, fetches from the module store |
| gateway and HTTP API, `internal/gateway` | none of its own | `Invoke`, outcomes as HTTP answers | reads the store once per call, calls the executor |
| configuration, `internal/config` | the current view (an atomic pointer), the poller's `after` | `Poller.Run`, `HTTPSource.Fetch`, `Store.Update`, `Parse`, `NewView` | long-polls the control plane |
| sandbox runtime, `internal/sandbox` | the modules it tracks, a closed flag, a read-write lock | compile, instantiate, call, close | the WebAssembly library |
| module store, `internal/modstore` | a directory or a bucket | get by hash | the executor |
| internal API, `internal/internalapi` | none | validation of an uploaded module | called by the control plane |
| process, `cmd/dataplane` | ready flag, first snapshot, preload kick | start-up, readiness, shutdown | wires everything |

### 1.2 The control plane (one event loop per replica, several replicas, one database)

| component | state | operations | who it talks to |
|---|---|---|---|
| configuration writes: `hooks/`, `tenants/`, `apikeys/`, `bindings/`, `configstate/version.py` | the tables and `config_state.version` | create and replace hooks, create and patch tenants, create and revoke keys, update bindings; each bumps the version last | PostgreSQL transactions |
| version watcher, `configstate/watcher.py` | the version last read, an `asyncio.Event` that is set and replaced | `poll_once`, `wait_newer` | polls the database, wakes long-polls |
| snapshot service, `configstate/snapshot.py` | the serialized snapshot cached, a lock | `current`, `read` | one REPEATABLE READ transaction per build |
| snapshot endpoint, `configstate/router.py` | none | a long-poll with `after_version` | watcher, snapshot service |
| uploads and validation, `modules/`, `dpclient/` | module rows with a status, an in-memory queue, one worker | upload, validate, resume after a restart | object storage, a data plane's internal API |
| tenant console API, auth, settings, CLI, seeding | none that others rely on | reads, checks, wiring | |

### 1.3 The web console (one event loop per tab)

| component | state | operations | who it talks to |
|---|---|---|---|
| session: `shared/api/session.ts`, `http.ts`, both gates | the credential in `sessionStorage`, the gate's input, an expiry timer, the query cache | enter, adopt a token from the address, expire, 401, sign out, revoke a key, open a tenant's console | every request of the tab |
| editors: hook form, tenant dialog, key dialog, parameters | form values, the query's data, a save in flight | type, save, close; refetch | control-plane API |
| tenant hook page: module versions, upload, activation | two queries, two dialogs, the polling | upload, activate, poll | control-plane API |
| mock backend, `src/web/src/mocks` | an in-memory database | the API's handlers | the console in tests and demos |

### 1.4 What is hard, and what must hold

* **Pool.** Slots are reserved under a lock and used outside it; counters are kept by hand at eight places; four
  kinds of goroutine take instances out of the lists and close them later; a wake-up is a channel closed and
  replaced; evictions free slots without a wake-up; entries of the map come and go while calls of their key are
  between two critical sections; `Close` may arrive anywhere.  Must hold: exact counters, caps, one owner per
  instance, no use after close and no leak, one key per instance (guest memory survives calls), no lost wake-up, no
  leaking map entry, everything closed in the end.
* **Delivery.** Watcher, cache and handlers interleave at every `await`; replicas are behind one another; requests and
  answers are lost; processes restart with nothing.  Must hold: a version names its content everywhere, a data
  plane never goes back, a long-poll never answers with less than the watcher that woke it knows, each version is
  built at most once at a time, every version arrives.
* **Writes.** Transactions read, compare and write concurrently; the version has to be handed out in commit order.
  Must hold: no change the snapshot shows goes without a version, versions and contents agree, `def_version` and
  `config_version` never name two contents (caches of the data plane are keyed by them), allowed lists only grow,
  snapshots can always be parsed, transactions do not deadlock.
* **Uploads.** The queue is in memory, the status in the database; a restart falls between any two steps, and a module
  is queued twice.  Must hold: nothing is forgotten, a verdict is final, every module gets one.
* **Module cache.** A compilation is shared by calls that come and go and outlives them all, while the process shuts
  down around it.  Must hold: one compilation per key, no module closed under a user, none leaked, the shutdown ends.
* **One call.** The snapshot is read twice; the hook's limit, the caller's deadline, its disconnection and a late
  success race.  Must hold: what runs is what the gateway resolved, and the outcome blames the one who was first.
* **Console.** Answers arrive in a tab that shows something else by then: a session has been replaced, a form edited, a
  dialog closed, a list refetched.  Must hold: only what was accepted is kept, no query's answer survives a
  sign-out, what the page says of the server is true, what was typed is not lost, a pending module's verdict is shown.

`PROJECT.json` lists each of these hazards at its line, with the properties that would catch it.

## 2. Modules

    InstancePool ------ implements ----> LeaseService             proofs: InstancePoolProofs

    ConfigWrites ------ implements ----> VersionedConfig          proofs: ConfigWritesProofs
                                            ^ EXTENDS
    SnapshotDelivery -- implements ----> ConfigReplica            proofs: SnapshotDeliveryProofs

    ModuleValidation -- EXTENDS and implements --> ModuleLifecycle
                                            ^ EXTENDS             proofs: ModuleProofs
    TenantModules (the tenant's page composed with the server's promise)

    ModuleCache      proofs: ModuleCacheProofs
    Invocation       proofs: InvocationProofs
    ConsoleSession   proofs: ConsoleSessionProofs
    ConsoleEditors   proofs: ConsoleEditorsProofs

Two abstract specifications are where components meet.  `VersionedConfig`: the transactions of the control plane
behave like a counter of versions that name contents for good, and that is all `SnapshotDelivery` assumes of the
database (and `Invocation`, which lets `def_version` and `config_version` stand for what they count).
`ModuleLifecycle`: queue, worker and restarts give every stored module one verdict, and that is all the tenant's page
in `TenantModules` assumes of the server.  Each `MC*` module only instantiates constants, initial states and symmetry.

### 2.1 `InstancePool` (`internal/pool/pool.go`)

One action is one critical section of `Manager.mu`, or one step taken outside it.

| code | actions |
|---|---|
| `Acquire`, one turn of its loop | `Call`, `RefuseClosed`, `TakeIdle`, `Reserve`, `Evict` then `CloseEvicted`, `Wait` |
| its `select` | `Wake`, `GiveUp` then `Saturated` |
| `create` | `Create`, `CreateFails` |
| `release` | `ReleaseIdle`, `ReleaseRetire` then `CloseRetired` |
| the reaper | `ReapTick` (reads the clock), `ReapIdle`, `ReapClose`, `ReapDone`, `ReapStop` |
| `Close` | `CloseManager`, `JoinReaper`, `CloseIdle`, `CloseReturns` |

Abstracted: an idle list is a set, since its order is that of `lastUsed`; two releases at one clock reading leave the
order open, which allows more than the code.  The wake-up channel is one flag per waiting call: *the channel it
captured has been closed*.  The clock is a bounded counter.  Once-only release (`Lease` has a `sync.Once`) is the shape
of the model: a lease ends with its release.  A second `Close` returns at once and is no action.

`LeaseService` is the promise: a counting semaphore per key under a global one, exclusive leases on instances that
belong to a key, nothing new once shut.

### 2.2 `SnapshotDelivery` (`configstate/`, `internal/config`)

One action is what the event loop does between two `await`s, or one step of the poller.

| code | actions |
|---|---|
| `poll_once` | `PollRead`, `PollApply` (sets and replaces the event) |
| `get_snapshot`, `wait_newer` | `Arrive`, `Resume`, `WaitTimeout` |
| `SnapshotService.current` | the first look at the cache is in `ServeCurrent`; `TakeLock` looks again; `BeginRead` fixes what the transaction sees; `Build` fills the cache and answers |
| `Poller.Run`, `Fetch`, `Store.Update` | `Ask`, `Receive`, `Retry` |
| failures | `PollFails`, `BuildFails`, `Lose`, `ProxyReplays`, `RestartReplica`, `RestartPlane` |

Abstracted: a request carries `after = -1` for an absent `after_version`.  `asyncio.Lock` lets whoever is ready take it;
the order of its queue plays no role in any property.  A request whose client has gone away is still handled, as the
server does not cancel handlers; a replica handles at most `Requests` at a time.  `Store.Update` is one action because
the poller is its only caller.  Backoff durations are left out: a pause ends some time.

`ConfigReplica` is the promise to a data plane: a copy of some committed configuration, whole, that only moves
forward.

### 2.3 `ConfigWrites` (`hooks/`, `tenants/`, `apikeys/`, `bindings/`, `configstate/version.py`, `tables.py`)

One action is one statement of a READ COMMITTED transaction.  A request begins (`CreateHook`, `ReplaceHook`,
`CreateTenant`, `PatchTenant`, `CreateKey`, `RevokeKey`, `UpdateBinding`), its statements follow (`InsertRow`,
`LockHook`, `LockTenant`, `LockKey`, `SelectNothing`, `CheckBinding`, `EnsureInserts`, `LockParents`, `LockBinding`),
and it ends with `Bump` and `Commit`, `CommitQuietly`, a refusal, or `Abort` anywhere.

PostgreSQL is modelled by what these statements need: uncommitted rows are invisible, an insert waits for an
uncommitted insert of the same key, `FOR UPDATE` and `UPDATE` hold the row to the end, and a new binding's foreign
keys take key-share locks on its tenant and hook, which conflict with `FOR UPDATE` although no statement of the code
names them.  A key's insert is one statement: two inserts of one name are decided by the unique index, as in
`ON CONFLICT`.  A hook definition is its allowed list and everything else (`Specs`); a tenant's two limits are one.

### 2.4 `ModuleValidation` and `ModuleLifecycle` (`modules/`, `dpclient/client.py`)

One action is what a handler or the worker does between two commits or requests.

| code | actions |
|---|---|
| `ModuleService.upload` | `PostUpload`, `Store` (the committed row, or the one that is there), `StoreFails`, `Enqueue` and the answer, `ForgetUpload` |
| `_recover_pending` | `Recover` (the rows without a verdict, `OldestFirst`) |
| `_run` | `Take` from the queue |
| `validate` | `Claim` (status `validating`, or passed over), `Report` (the data plane answers), `Finish` (the verdict is committed) |
| failures | `Trouble` (back to the end of the queue), `Restart` (queue and handlers are gone) |

`ModuleLifecycle` is the promise: a stored module gets one verdict, which is final, whoever uploads it again.  A
transaction that commits is taken to return; the one place where that matters is in section 5.

### 2.5 `ModuleCache` (`internal/executor`, `sandbox/extismrt`, `cmd/dataplane`)

One action is one critical section of `Executor.mu`, one step of a flight, a validation, or the goroutine of `main`.

| code | actions |
|---|---|
| `Executor.module` | `Call`, `Preload` (both `Look`), `Join`, `Take`, `GiveUp`; a call's context ends in `CallerLeaves`, its use of the module in `Release` |
| `Executor.compile` in its flight | `Recheck`, `FetchFails`, `BeginCompile`, `EndCompile`, `Finish` (`Store`, `StoreVerdict`, `StoreNothing`, `DropLate` then `CloseLate`), `Deliver` |
| `Preload` and its kicks | `Update`, `BeginPreload`, `Preload` |
| `Validate` | `Ask`, `TakeSlot`, `EndCheckEarly`, `BeginCheckCompile`, `EndCheckCompile`, `EndCheck`, `CloseChecked` |
| `main` after the signal | `Stop`, `Drained` or `ShutdownExpires`, `Joined`, `ClosePools`, `CloseExecutor` and `CloseModule`, `LockRuntime`, `CloseRuntime` and `CloseTracked`, `RuntimeClosed` |

The pool is here only as the set of modules with idle instances; `InstancePool` is the rest of it.  The runtime's lock
is as Go's: a writer that waits keeps new readers out.  A compiled module nobody refers to any more stands for those
to come, so that `Mods` bounds the modules that exist at once and not those ever compiled.

### 2.6 `Invocation` (`gateway.Invoke`, `Executor.Execute` and `run`, `Instance.Call`)

| code | actions |
|---|---|
| `Gateway.Invoke` | `Invoke` |
| `run` up to the call | `Resolve`, `GetModule`, `Acquire`, `Watch` |
| `Instance.Call` | `Start` (its own context), `LimitPasses`, `ScriptEnds` |
| `callFailure`, `callerFirst`, the output | `ReportFailure`, `CallerFirst`, `ReportOutput`, `Panic` |
| around the call | `Update`, `OtherCall`, `Tick`, `DeadlinePasses`, `CallerGoes`, `Note` (the goroutine of `context.AfterFunc`) |

The cache and the pool answer with what they may answer (`ModuleCache`, `InstancePool`).  A timer never fires early
and may be late; the clock is read where the code reads it.  `cause` is a history variable: what ended the script's
context first.

### 2.7 `ConsoleSession`, `ConsoleEditors`, `TenantModules` (`src/web/src`)

One action is one turn of the tab's event loop: an act of the user, an effect, a timer, or the continuation of an
answered request; and the server's handling of a request, so that a request may be handled long before its answer is
taken.

| code | actions |
|---|---|
| both gates, `session.ts`, `tenant-token.ts` | `Type`, `Submit`, `Deliver` (`Verdict`), `Mount`, `Adopt`, `Fire` (the expiry timer), `SignOut`, `Load` |
| `http.ts`, the page's query | `Fetch`, `Answer`, `Fault`, `Deliver` (`Loaded`, `LoadFails`, `Refused`), `Invalidated` |
| the saves of the session's page (`use-save-hook.ts`, a tenant's mutations) | `Save`, `Saved` |
| revoking, opening a tenant's console | `Revoke`, `Revoked`, `Open`, `Opened`, `RevokeElsewhere` |
| forms and dialogs | `EditContent`, `AddCap`, `RemoveCap`, `EditParams`, `EditField`, `TypeName`, `OpenDialog`, `CloseDialog` |
| saves | `SaveHook`, `SaveTenant`, `SaveParams`, `SaveName`, `Serve`, `ServeFault`, `HookSaved`, `ListSaved`, `Refused` |
| their queries | `Refetch`, `Read`, `ReadFault`, `Loaded`, `Retry`, `LoadFails`; others write in `Elsewhere` |
| the tenant's page | `Poll`, `Refocus`, `OpenUpload`, `ChooseFile`, `FileChecked`, `Submit`, `Created`, `Exists`, `NoAnswer`, `OpenActivate`, `ConfirmActivate`, `Activate`, `Activated`, `ActivateFails`, `ShowReason` |

The server of `ConsoleSession` and `ConsoleEditors` is translated from the console's mock backend (`src/web/src/mocks`),
which implements the contract of the API for it; `TenantModules` takes `ModuleLifecycle` instead.  The query library
is external and modelled by the options the code gives it: one fetch per query at a time, one retry, data kept through
errors, a fetch that runs is joined or cancelled as the code asks.  A tab shows one screen; the consoles' storage keys
are separate, so each behaviour has one console.  The queries of the session's page are one query, which may or may not
be fetched again when the page is mounted over data (`staleTime` is left open); `failed` says it has given up and shows
its error.  In `ConsoleEditors` `base` is, for a hook's form, a history variable: the oldest hook the page has shown
since the form was filled.

## 3. Runs

| run | question | distinct states |
|---|---|---|
| `pool` | books, owners, wake-ups and the map under evictions, waits, retirements, the reaper and `Close`; implements `LeaseService`; waits end, idle instances expire, `Close` drains | 78 k |
| `delivery` | snapshots consistent, built once, cached answers and 304s not out of date; implements `ConfigReplica`; every version arrives | 648 k |
| `writes_tables` | two operators on a hook, a tenant and a key at once | 331 k |
| `writes_bindings` | a tenant's binding while its hook and tenant appear and change; implements `VersionedConfig`; transactions end | 356 k |
| `module_verdicts` | nothing forgotten through restarts and failing transactions; implements `ModuleLifecycle` | 41 k |
| `module_cache` | a call, a preload and two validations while the process stops | 418 k |
| `invocation` | what runs, and who is blamed | 1.6 M |
| `console_session` | a credential against checks, fragments, expiry, 401s, lost answers, sign-outs, saves that outlive them, and page loads | 263 k |
| `console_editors` | one form or dialog of each kind against refetches, lost answers and other people | 499 k |
| `tenant_modules` | the tenant's page over `ModuleLifecycle` | 559 k |
| `call_blame`, `tenant_patch` | two sentences of the docs the code does not keep (section 5) | violations |

Each property of a passing run has a mutant in `PROJECT.json`: a definition changed as a plausible bug would change it
(a dropped guard, a missing recheck, a lock not taken), under which the run finds the property violated.

**Bounds.** What is safe is proved for every value of the constants (section 6), in every component; the small
instances serve liveness, the mutants and the sanity of the proofs' subject, and have only to reach each case.

* `pool`: two calls on two keys with one slot are an eviction, a wait, and a retirement that frees the slot for the
  waiter; one more instance than slots lets a call close one while another holds one.  `MaxUses = 2` reaches the last use
  after an idle period.  `ImplementsService` is about slots, leases and who holds them; that no instance is used more than
  `MaxUses` times is the theorem `KeysAreIsolated`.
* `delivery`: two replicas, one behind; a second request is the one a data plane gave up, which its replica still
  handles and which contends for the lock; two versions let a build begin at one and end after the other; one fault.
* `writes_*`: two transactions at a time are every pair that can conflict; four and five versions let each
  transaction commit and another follow.  `writes_bindings` has one definition to write, so that versions of definitions
  never name two contents is carried by the theorem `CountersNameContent`.
* `module_verdicts`: two contents and two requests queue a module twice and another behind it.
* `module_cache`: one key, since keys meet only in the locks and the shutdown, where the validations stand for the others;
  two validations compete for one slot; three modules are as many as exist at once.
* `invocation`: a deadline before and one after the hook's limit; two versions, since a third is like the second to
  a call that pinned the first.  Calls follow one another.
* `console_session`: two issued keys and one bogus, a token that ends at once and one that outlives the longest timer;
  two upsets, each a lost answer or a page load, since a query gives up after two lost answers.
* `console_editors`: two good contents and a refused one, two fields with two values, two saves, one change made by others,
  two faults (a query gives up after two).
* `tenant_modules`: a rejected version, one to upload, a broken file, two uploads (one of them perhaps somebody else's),
  two failures or returns to the window.

**Deadlock** is checked in `pool`, `delivery`, `writes_*` and `invocation`, whose systems stop nowhere: a pool can always
be closed or called, a poller asks again, a client sends another request, another snapshot comes.  It is not checked in
`module_cache`, whose process ends, nor in the console's and modules' runs, whose users may stop (`CHECK_DEADLOCK FALSE`);
there the leads-to properties say what must go on.

**Symmetry** is used in `writes_tables` only (safety), over sets whose members no formula tells apart.

## 4. Fairness

* *Pool.* A goroutine that can run does (`WF` on a call's own steps, on release, on the reaper and on `Close`): the Go
  scheduler and a fair mutex.  `WF(ReleaseStep)` says the executor releases every lease, which it defers.  `SF(ReapStop)`
  says that the reaper's `select`, which chooses at random, chooses the closed stop channel some time although its
  ticker fires again and again.  No fairness on `GiveUp`: `WaitsEnd` shows that wake-ups alone end a wait.
* *Delivery.* The watcher polls, handlers run, pollers go on.  No timeout is ever owed: the wake-up must
  suffice.  No fault is owed, and there are at most `MaxFaults`.
* *Writes.* `SF` on a client's next statement: PostgreSQL queues the waiters of a lock, so a lock that becomes free
  again and again is granted.  A circle of waits is never free, so strong fairness hides no deadlock.
* *Uploads.* `SF` on each step of the worker: restarts and failures may recur for ever, but a step possible again and
  again succeeds some time.  Without it, one module that the data plane keeps refusing to answer for holds up all
  others, as `validator.py:108` does.
* *Module cache.* `WF` on workers, flights, preloads and `main`; calls end (a hook has a limit).  `SF` on a
  validation's steps: the slots are a buffered channel, whose senders Go queues.  No context ever has to end and the
  35 seconds never have to run out, so `ShutdownEnds` rests on answers being delivered.
* *Console.* Time passes, effects and timers run, the server answers and the page takes the answers.  Users owe nothing.
* *Invocation* has no liveness: that a call ends is its deadline, which the sandbox library enforces.

## 5. Findings

1. `call_blame`: `callerFirst` (`executor.go:287`) answers `DeadlineExceeded` whenever the caller's deadline is the
   earlier one and its context has ended, *whatever* ended it.  A caller that breaks the connection before its own
   short deadline is reported as a `timeout`, while `src/api/invoke.openapi.yaml:359` says `unavailable`.
2. `tenant_patch`: the tenant dialog fills its form when it opens and takes the difference at submit, to the row shown
   by then (`tenant-dialog.tsx:92`).  A field nobody touched is sent with its old value if a refetch has brought another
   operator's change meanwhile, while `docs/handoff/frontend.md:452` says only changed fields are sent.

Seen while modelling, and in the models as they are, without a run of their own:

* *Pool.* The process-wide cap bounds the instances *counted*; those being closed (evicted, retired, expired) leave the
  count first, so more may exist for a moment than `pool.go:5` says.  `limit` bounds new instances, not
  leases: an idle one is handed out without looking at it (`pool.go:137`).  After an eviction the loop starts over
  without looking at its timer or context (`pool.go:155`).
* *Module cache.* A module whose trial instance is cut off by the compile timeout gets the verdict *invalid*, which is
  cached until the process ends (`runtime.go:137`): `EndCompile` lets any module be invalid.  The shutdown's 35 seconds can run out
  with a request read for 10 and running for 30, and then modules are closed under calls: `ModulesAccounted` says so
  with `overdue`.
* *Uploads.* If an upload's row is committed but the commit's answer is lost, the exception skips `enqueue`
  (`modules/service.py:81`): the module waits for the next restart.  `StoreFails` stores nothing, so `NoModuleForgotten` holds
  under the assumption that a commit returns.
* *Invocation.* An output schema that does not compile answers `unavailable` after the script has run
  (`executor.go:246`), which `invoke.openapi.yaml` describes as *did not run*; `caller_canceled` is also the reason of a
  call that was never started.
* *Console.* A verify that answers late replaces a token adopted meanwhile; a 401 to a request with an earlier credential
  ends the session that replaced it (`http.ts:61`); data cached before an expiry or a 401 is still in the cache for the
  next who enters, and a hook's save that answers after «Выйти» puts the hook back there with nobody signed in
  (`use-save-hook.ts:18`, `:34`), so `NothingLoadsSignedOut` is about queries.  When both tries of the refetch after a
  revocation are lost, the list shows its error and the key just revoked stays stored until the next request, which is all
  that `frontend.md:459` promises; `OwnRevocationSignsOut` says so with `failed`.  A hook form that is being typed into when its own save answers loses what was typed; a refetch that fails twice
  replaces the form by the error; a hook is saved as a whole, so two operators overwrite each other's content
  (their allowed lists still only grow).  A form filled before another operator allowed a value does ask to take it away
  and gets the server's 409 (`hook-form.test.tsx:116`); and an older fetch that lands after a save replaces the hook saved
  and unlocks its values for that moment: `KnownCapsAreKept` claims no more than every hook shown since the form was
  filled had.  The parameters' form may compare with a page that is out of date.

## 6. Proofs

All for every value of the constants under their named assumptions, which say no more than that sets are finite where they are
counted, that answers and identifiers are distinct, that options are positive where the code makes
them so, that the limits a pool is asked for have a greatest one, and that there are contents and values to put
into a form.  TLC evaluates each in a run.

* `InstancePoolProofs`.  `TypeOK /\ Shape` is inductive: `Shape` ties a call's fields to its place.  `PlaceInv` is
  `OnePlace` said pointwise, so that each action disturbs one instance.  `Accounting` is inductive over these: `HoldMore`,
  `HoldLess` and `Shrink` say how one step changes a cardinality.  On top of these three (`CoreInv`): `CapInv`, that
  every clamped limit is at most `MaxLimit`; `NoLostWakeup /\ ClosedIsDrained`, where the step that matters is `Evict`,
  which frees a slot silently: it happens only with `total >= GlobalMax` and something idle, when, by the invariant
  itself, whoever waits unwoken waits for its own key's limit; `KeyIsolation /\ UseBudget`, which follow the ghost
  `madeFor`; `EntriesInv`, that after `Close` an entry has active leases.
  The refinement of `LeaseService` has `slotBar`, `leaseBar`, `madeFor` and `~closed` as its mapping; `RoomForSlot` turns the counters into the semaphores' cardinalities; `OwnedWhileLive` ties `madeFor` to live instances.
* `SnapshotDeliveryProofs`.  `KeptInv`: every snapshot, wherever it is kept, is a committed one, whole.  `WatchInv`: what
  the watcher knows is committed and only goes up.  `ServeInv`: who builds holds the lock of its replica and builds for want of a
  snapshot as new as the watcher's version; who is past the wait is owed something newer.  From these: consistency, one
  build per version, fresh answers from the cache (an action property) and the refinement.
* `ConfigWritesProofs`.  The argument is the locks': who is between `Bump` and `Commit` holds `config_state`, its version is
  the next, and what it read under a row lock is still the row.  With the counters ahead of everything in the history, that gives
  `VersionNamesTables`, `VersionsNameContent`, `CapsOnlyGrow`, `SnapshotsAreComplete` and the refinement of
  `VersionedConfig`.  `LocksInv` says who holds what when, and gives each transaction a `Rank`: what it waits for is held
  by one that has come further (`WaitsGoForward`), so no circle of transactions waits, and of the open ones one always
  finds free what its next statement needs (`OneGoesOn`), however many there are: the safety half of `TransactionsEnd`.
* `ModuleCacheProofs`.  `ModulesAccounted` is not inductive: why a module in use is open depends on where it came from.
  Until the executor is closed everything a call may get or use is cached (`UsersHold`), and what a validation closes
  is nobody else's (`Apart`); afterwards the order of the shutdown leaves no users (`Order`).  `Accounted` and `Known`
  say who will close each open module, before and after `Runtime.Close` forgets it.
* `InvocationProofs`.  `Watched`: the watch is set before the script's context is derived, so its limit is the earlier of the
  two, and an end of the caller's context that came after the script's limit was noted after it.
* `ConsoleSessionProofs`.  `TimerInv`: a timer that runs is the stored token's and ends with it or earlier.
  `QueriesHaveSession`: no query is in flight without a session, which is why no query's answer refills the cache after a sign-out;
  only a hook's save still writes there (`NothingLoadsWhenSignedOut`).
  `Sound`: requests carry credentials of their console, and the server says yes only to keys it issued.
* `ConsoleEditorsProofs`.  Seven invariants, each resting on the one before.  `FormInv`: the parts of a form are there exactly
  when the screen shows them.  `AgeInv`: nothing in the tab is newer than the server's object, and what a save awaits is
  not older than what it sent.  `ChangeInv`: the server's answer to a save that wrote is a version later than the one
  shown, so *unchanged* is told of saves that changed nothing.  `DialogInv` and `TokenInv` follow a dialog from its opening to
  the answers that may arrive after it has closed.  `CapsInv` is two: of the hooks held anywhere a later one allows at least
  as much (`GrowthInv`), and the form holds what the oldest hook shown since it was filled allowed while the lock is of a
  hook at least as late (`KnownInv`).  From these: `UnchangedIsTrue`, `KnownCapsAreKept`, `EditsSurvive`,
  `ClosedMeansListed`, and that an issued token is always in the dialog it was issued to.
* `ModuleProofs`.  `LifecycleInv` and `WorkerInv`: the module the worker asks about is under validation until the worker
  says so, since nothing else judges and a restart drops the worker's hands with its queue.  From them, that verdicts
  are final, the safety part of the refinement, and `NoModuleForgotten`: that `OldestFirst` queues every row it is given
  is an induction over a finite set.  `TenantInv`: every list shown or on its way is one the server had some time ago
  (`Past`), whose verdicts are still the verdicts; and an upload's dialog that waits for its list waits for one that has
  its module (`Fresh`).  So what the page offers is accepted, what is active is validated, and an upload is shown when
  its dialog closes.  `PageOverServer` composes the two: the page over the handlers, queue, worker and restarts of
  `ModuleValidation` is a page over `ModuleLifecycle`, so the page's theorems hold of the one that is deployed.

Only model-checked: every liveness property (out of the prover's reach), of which `KeepsPromise`, `IssuedTokenIsShown` and
`TransactionsEnd` have their safety halves proved; and the violations of section 5.

## 7. Not modelled

* Start-up and readiness of the data plane, and a listener that fails (`cmd/dataplane/main.go`): the kick of the first snapshot
  is where `ModuleCache` begins.
* The durations of the poller's backoff, and concurrent `Store.Update` (its compare-and-swap loop has one caller).
* `config.Parse`'s ranges and the indexes of `View`: data validation; that its references hold is `SnapshotsAreComplete`.
* The module store and the object storage: their errors are `FetchFails`, `EndCheckEarly` and `StoreFails`.
* The execution of WebAssembly and guest memory (the runtime library), JSON schemas (`internal/schema`,
  `hooks/rules.py`), the log buffer, records of invocations, metrics and logs.
* Authentication but for what `ConsoleSession` takes of it, settings, CLI, seeding: stateless checks and wiring.
* The console's invocation log, layouts and generated contract: no state that outlives a render.

What would come next: readiness and start-up as a module before `ModuleCache`; the session and the editors of one tab
composed, so that a 401 unmounts a form that is being saved; `Invocation` composed with `ModuleCache` and
`LeaseService`.
