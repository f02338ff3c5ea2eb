---------------------------- MODULE ConfigWrites ----------------------------
(***************************************************************************)
(* The transactions that change what the snapshot shows: operators' hooks, *)
(* tenants and API keys, tenants' bindings (control-plane hooks/, tenants/,*)
(* apikeys/, bindings/, configstate/version.py).                           *)
(*                                                                         *)
(* One action is one statement of a READ COMMITTED transaction, or a few   *)
(* that read what no longer changes.  PostgreSQL is modelled by what these *)
(* statements need of it: uncommitted rows are invisible, an insert waits  *)
(* for an uncommitted insert of the same key, FOR UPDATE and UPDATE lock   *)
(* the row until the end of the transaction, the foreign keys of a new row *)
(* take key-share locks on its parents.                                    *)
(***************************************************************************)
EXTENDS Integers

CONSTANTS
    Clients,      \* the requests' tasks
    Hooks, Tenants, Keys, Modules,
    Owner,        \* the binding a module was uploaded for
    Caps,         \* host functions and effects a hook can allow
    Specs,        \* the other fields of its definition
    Names,        \* tenant names, which the snapshot does not show
    Limits,       \* a tenant's concurrency and rate limits
    Configs,      \* binding configurations
    NoConfig,     \* the empty one
    ConfigState,  \* the single row of config_state
    MaxVersion,   \* bound: the last version handed out
    None          \* no row, no module, nobody

Bindings == Tenants \X Hooks
Rows     == Hooks \cup Tenants \cup Keys \cup Bindings
LockRows == Rows \cup {ConfigState}

ASSUME RowsAssumption ==
    /\ Hooks \cap Tenants = {} /\ Hooks \cap Keys = {} /\ Tenants \cap Keys = {}
    /\ Bindings \cap (Hooks \cup Tenants \cup Keys) = {}
    /\ ConfigState \notin Rows
    /\ Owner \in [Modules -> Bindings]
    /\ NoConfig \in Configs
    /\ None \notin Clients \cup Names \cup Limits \cup Configs \cup Modules
    /\ MaxVersion \in Nat \ {0}

VARIABLES
    db,         \* the committed rows
    validated,  \* the modules with status "validated"
    version,    \* config_state.version
    history,    \* ghost: what the snapshot shows at each committed version
    locked,     \* the transaction that has a row locked
    shared,     \* the transactions with a key-share lock on it
    tx          \* the open transaction of each client

tables == <<db, validated, version, history>>
locks  == <<locked, shared>>
vars   == <<tables, locks, tx>>

HookSpecs   == [caps : SUBSET Caps, spec : Specs]
HookRows    == [def : Nat \ {0}, caps : SUBSET Caps, spec : Specs]
TenantRows  == [name : Names, limit : Limits]
TenantPatches == [name : Names \cup {None}, limit : Limits \cup {None}]
BindingRows == [module : Modules \cup {None}, config : Configs, cv : Nat \ {0}]

ASSUME NoRowAssumption ==
    None \notin HookRows \cup TenantRows \cup BindingRows \cup {"live", "revoked"}

\* read_snapshot: every table as the data planes get it.
Contents ==
    [hooks    : [Hooks -> HookRows \cup {None}],
     tenants  : [Tenants -> Limits \cup {None}],
     bindings : [Bindings -> BindingRows \cup {None}],
     keys     : SUBSET Keys]

Visible(d) ==
    [hooks    |-> [h \in Hooks |-> d[h]],
     tenants  |-> [t \in Tenants |-> IF d[t] = None THEN None ELSE d[t].limit],
     bindings |-> [b \in Bindings |->
                     IF d[b] # None /\ d[b].module # None THEN d[b] ELSE None],
     keys     |-> {k \in Keys : d[k] = "live"}]

Idle == [at |-> "none", row |-> None, arg |-> None, new |-> None, ver |-> 0]

Init ==
    /\ db = [r \in Rows |-> None]
    /\ validated = {}
    /\ version = 1
    /\ history = [v \in {1} |-> Visible(db)]
    /\ locked = [r \in LockRows |-> None]
    /\ shared = [r \in LockRows |-> {}]
    /\ tx = [c \in Clients |-> Idle]

-----------------------------------------------------------------------------
(* Transactions.                                                           *)

Begin(c, at, r, arg) ==
    /\ tx[c].at = "none"
    /\ tx' = [tx EXCEPT ![c] = [Idle EXCEPT !.at = at, !.row = r, !.arg = arg]]
    /\ UNCHANGED <<tables, locks>>

Release(c) ==
    /\ locked' = [r \in LockRows |-> IF locked[r] = c THEN None ELSE locked[r]]
    /\ shared' = [r \in LockRows |-> shared[r] \ {c}]

\* The transaction ends without a change: refused, or nothing to change.
End(c) ==
    /\ tx' = [tx EXCEPT ![c] = Idle]
    /\ Release(c)
    /\ UNCHANGED tables

\* Nobody else has the row locked; nobody else but share-locked, to update it.
Unlocked(c, r) == locked[r] \in {None, c}
Free(c, r) == Unlocked(c, r) /\ shared[r] \subseteq {c}

\* Fault: the row is read without FOR UPDATE.
PlainSelect(c, r) == UNCHANGED locks

\* SELECT ... FOR UPDATE, or the insert of a new row.
Lock(c, r) ==
    /\ Free(c, r)
    /\ locked' = [locked EXCEPT ![r] = c]
    /\ UNCHANGED shared

\* The row gets a new value, which nobody sees before the commit.
Stage(c, new, next) ==
    /\ tx' = [tx EXCEPT ![c].new = new, ![c].at = next]
    /\ UNCHANGED tables

-----------------------------------------------------------------------------
(* Creating a hook, a tenant or a key.                                     *)

Definition(def, hs) == [def |-> def, caps |-> hs.caps, spec |-> hs.spec]

CreateHook(c, h, hs)    == Begin(c, "insert", h, Definition(1, hs))
CreateTenant(c, t, row) == Begin(c, "insert", t, row)
CreateKey(c, k)         == Begin(c, "insert", k, "live")

Exists(r) == db[r] # None

\* ON CONFLICT DO NOTHING, or the unique name of a key: 409.
InsertRow(c) ==
    LET r == tx[c].row
    IN  /\ tx[c].at = "insert"
        /\ \/ Exists(r) /\ End(c)
           \/ ~Exists(r) /\ Lock(c, r) /\ Stage(c, tx[c].arg, "bump")

-----------------------------------------------------------------------------
(* Replacing a hook, patching a tenant, revoking a key.                    *)

ReplaceHook(c, h, hs)   == Begin(c, "select", h, hs)
PatchTenant(c, t, req)  == Begin(c, "select", t, req)
RevokeKey(c, k)         == Begin(c, "select", k, None)

\* An absent row is not waited for: 404.
SelectNothing(c) ==
    /\ tx[c].at = "select"
    /\ ~Exists(tx[c].row)
    /\ End(c)

\* HookService.replace: the lists of a hook only grow, and a definition equal
\* to the current one keeps its version.
LockHook(c) ==
    LET r    == tx[c].row
        cur  == db[r]
        grow == cur.caps \subseteq tx[c].arg.caps
        new  == Definition(cur.def + 1, tx[c].arg)
        same == Definition(cur.def, tx[c].arg) = cur
    IN  /\ tx[c].at = "select" /\ r \in Hooks /\ Exists(r)
        /\ \/ (~grow \/ same) /\ Free(c, r) /\ End(c)
           \/ grow /\ ~same /\ Lock(c, r) /\ Stage(c, new, "bump")

\* Fault: no field of a tenant is taken to show in the snapshot.
ShowsNothing(cur, new) == FALSE

\* TenantService.patch: snapshot_fields & changes.keys().
ShowsChange(cur, new) == cur.limit # new.limit

\* A field the request leaves out keeps its value.
Patched(cur, req) ==
    [name  |-> IF req.name = None THEN cur.name ELSE req.name,
     limit |-> IF req.limit = None THEN cur.limit ELSE req.limit]

LockTenant(c) ==
    LET r   == tx[c].row
        cur == db[r]
        new == Patched(cur, tx[c].arg)
    IN  /\ tx[c].at = "select" /\ r \in Tenants /\ Exists(r)
        /\ \/ new = cur /\ Free(c, r) /\ End(c)
           \/ /\ new # cur
              /\ Lock(c, r)
              /\ Stage(c, new, IF ShowsChange(cur, new) THEN "bump" ELSE "quiet")

LockKey(c) ==
    LET r == tx[c].row
    IN  /\ tx[c].at = "select" /\ r \in Keys /\ Exists(r)
        /\ \/ db[r] = "revoked" /\ Free(c, r) /\ End(c)
           \/ db[r] = "live" /\ Lock(c, r) /\ Stage(c, "revoked", "bump")

-----------------------------------------------------------------------------
(* Updating a binding: BindingService.update.                              *)

\* At least one of module and config is given.
UpdateBinding(c, b, m, cfg) ==
    /\ m # None \/ cfg # None
    /\ Begin(c, "check", b, [module |-> m, config |-> cfg])

\* Fault: a module that has not been validated can be activated.
CanActivateOwned(b, m) == m # None => Owner[m] = b

\* The candidate is a validated module of this very binding.
CanActivate(b, m) == m # None => Owner[m] = b /\ m \in validated

\* Tenant, hook and candidate are read without locks: 404 and 409.  Tenants and
\* hooks are never deleted and "validated" is final.
CheckBinding(c) ==
    LET b == tx[c].row
        ok == Exists(b[1]) /\ Exists(b[2]) /\ CanActivate(b, tx[c].arg.module)
    IN  /\ tx[c].at = "check"
        /\ \/ ~ok /\ End(c)
           \/ /\ ok
              /\ tx' = [tx EXCEPT ![c].at = "ensure"]
              /\ UNCHANGED <<tables, locks>>

NewBinding == [module |-> None, config |-> NoConfig, cv |-> 1]

\* Fault: a change of the configuration is not counted.
UpdatedUncounted(cur, arg, created) ==
    [module |-> IF arg.module = None THEN cur.module ELSE arg.module,
     config |-> IF arg.config = None THEN cur.config ELSE arg.config,
     cv     |-> cur.cv]

\* What update sets, on the row it has locked: the version of the configuration
\* counts its changes, except those of the transaction that creates the row.
Updated(cur, arg, created) ==
    LET changed == arg.config # None /\ arg.config # cur.config
    IN  [module |-> IF arg.module = None THEN cur.module ELSE arg.module,
         config |-> IF changed THEN arg.config ELSE cur.config,
         cv     |-> IF changed /\ ~created THEN cur.cv + 1 ELSE cur.cv]

\* Fault: the version is taken before the locks of the foreign keys.
EnsureAfterBump(c) ==
    LET b == tx[c].row
    IN  /\ tx[c].at = "ensure"
        /\ ~Exists(b)
        /\ Free(c, b) /\ Free(c, ConfigState)
        /\ locked' = [locked EXCEPT ![b] = c, ![ConfigState] = c]
        /\ UNCHANGED shared
        /\ Stage(c, Updated(NewBinding, tx[c].arg, TRUE), "parents")

\* ensure_binding inserts the row: nobody else sees it, and its foreign keys
\* are checked next.
EnsureInserts(c) ==
    LET b == tx[c].row
    IN  /\ tx[c].at = "ensure"
        /\ ~Exists(b)
        /\ Lock(c, b)
        /\ Stage(c, Updated(NewBinding, tx[c].arg, TRUE), "parents")

\* The key-share locks on the tenant and the hook.
LockParents(c) ==
    LET parents == {tx[c].row[1], tx[c].row[2]}
    IN  /\ tx[c].at = "parents"
        /\ \A r \in parents : Unlocked(c, r)
        /\ shared' = [r \in LockRows |->
             IF r \in parents THEN shared[r] \cup {c} ELSE shared[r]]
        /\ tx' = [tx EXCEPT ![c].at = "bump"]
        /\ UNCHANGED <<tables, locked>>

\* The row exists: it is locked, and changed if there is something to change.
LockBinding(c) ==
    LET b   == tx[c].row
        new == Updated(db[b], tx[c].arg, FALSE)
    IN  /\ tx[c].at = "ensure"
        /\ Exists(b)
        /\ \/ new = db[b] /\ Free(c, b) /\ End(c)
           \/ new # db[b] /\ Lock(c, b) /\ Stage(c, new, "bump")

-----------------------------------------------------------------------------
(* bump_config_version, last before the commit.                            *)

\* Fault: the version comes from a sequence, handed out when it is asked for.
TakeVersionUnlocked(c) == UNCHANGED locks

TakeVersion(c) == Lock(c, ConfigState)

Bump(c) ==
    /\ tx[c].at = "bump"
    /\ version < MaxVersion
    /\ TakeVersion(c)
    /\ tx' = [tx EXCEPT ![c].ver = version + 1, ![c].at = "commit"]
    /\ UNCHANGED tables

Commit(c) ==
    /\ tx[c].at = "commit"
    /\ db' = [db EXCEPT ![tx[c].row] = tx[c].new]
    /\ version' = tx[c].ver
    /\ history' = [v \in DOMAIN history \cup {tx[c].ver} |->
                     IF v = tx[c].ver THEN Visible(db') ELSE history[v]]
    /\ tx' = [tx EXCEPT ![c] = Idle]
    /\ Release(c)
    /\ UNCHANGED validated

\* A change the snapshot does not show.
CommitQuietly(c) ==
    /\ tx[c].at = "quiet"
    /\ db' = [db EXCEPT ![tx[c].row] = tx[c].new]
    /\ tx' = [tx EXCEPT ![c] = Idle]
    /\ Release(c)
    /\ UNCHANGED <<validated, version, history>>

\* The connection, the process or a constraint fails: everything is undone.
Abort(c) ==
    /\ tx[c].at # "none"
    /\ End(c)

\* The validator's verdict, in a transaction of its own.
Validate(m) ==
    /\ m \notin validated
    /\ validated' = validated \cup {m}
    /\ UNCHANGED <<db, version, history, locks, tx>>

-----------------------------------------------------------------------------

Request(c) ==
    \/ \E h \in Hooks, hs \in HookSpecs : CreateHook(c, h, hs) \/ ReplaceHook(c, h, hs)
    \/ \E t \in Tenants, row \in TenantRows : CreateTenant(c, t, row)
    \/ \E t \in Tenants, req \in TenantPatches : PatchTenant(c, t, req)
    \/ \E k \in Keys : CreateKey(c, k) \/ RevokeKey(c, k)
    \/ \E b \in Bindings, m \in Modules \cup {None}, cfg \in Configs \cup {None} :
        UpdateBinding(c, b, m, cfg)

Statement(c) ==
    \/ InsertRow(c)
    \/ SelectNothing(c) \/ LockHook(c) \/ LockTenant(c) \/ LockKey(c)
    \/ CheckBinding(c) \/ EnsureInserts(c) \/ LockParents(c) \/ LockBinding(c)
    \/ Bump(c) \/ Commit(c) \/ CommitQuietly(c)

Next ==
    \/ \E c \in Clients : Request(c) \/ Statement(c) \/ Abort(c)
    \/ \E m \in Modules : Validate(m)

Spec == Init /\ [][Next]_vars

\* A transaction that can go on does, and waits for a lock in its queue: it gets
\* a lock that becomes free again and again.
FairSpec == Spec /\ \A c \in Clients : SF_vars(Statement(c))

-----------------------------------------------------------------------------
(* Correctness.                                                            *)

Versions == 1..version

\* Every commit that changes what the snapshot shows takes a version of its own
\* in the same transaction, whatever runs beside it: at all times the latest
\* version shows exactly the committed tables, so no change can be missed.
VersionNamesTables == history[version] = Visible(db)

\* def_version and config_version name what they count: two snapshots that agree
\* on one agree on the content.  The pools and the schema cache of the data plane
\* are keyed by them and would go on with the old content otherwise.
VersionsNameContent ==
    \A v, w \in Versions :
        /\ \A h \in Hooks :
            LET a == history[v].hooks[h]
                b == history[w].hooks[h]
            IN  a # None /\ b # None => (a.def = b.def => a = b)
        /\ \A k \in Bindings :
            LET a == history[v].bindings[k]
                b == history[w].bindings[k]
            IN  a # None /\ b # None => (a.cv = b.cv => a.config = b.config)

\* "Allowed lists only grow": what a running script may already import is never
\* taken away, not even by two definitions replaced at the same time.
CapsOnlyGrow ==
    \A v, w \in Versions : \A h \in Hooks :
        v <= w /\ history[v].hooks[h] # None =>
            /\ history[w].hooks[h] # None
            /\ history[v].hooks[h].caps \subseteq history[w].hooks[h].caps

\* "a snapshot built from these tables can never be rejected by the data plane":
\* every binding it shows has its tenant and its hook in it, and what it runs is
\* a validated module of that very tenant and hook.
SnapshotsAreComplete ==
    \A v \in Versions : \A b \in Bindings :
        history[v].bindings[b] # None =>
            /\ history[v].tenants[b[1]] # None
            /\ history[v].hooks[b[2]] # None
            /\ history[v].bindings[b].module \in validated
            /\ Owner[history[v].bindings[b].module] = b

\* No transaction waits forever: the locks are always taken in an order that
\* ends with config_state.  At the last version of the bound nothing is bumped.
TransactionsEnd ==
    \A c \in Clients : tx[c].at # "none" ~> tx[c].at = "none" \/ version = MaxVersion

\* The tables and their version are what the readers of the snapshot assume:
\* versions go up by one, in commit order, and never change what they showed.
Config == INSTANCE VersionedConfig
ImplementsConfig == Config!ConfigSpec
=============================================================================
