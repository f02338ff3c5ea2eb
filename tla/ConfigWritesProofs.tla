-------------------------- MODULE ConfigWritesProofs --------------------------
(***************************************************************************)
(* Theorems about the transactions that change the configuration, for any  *)
(* number of clients, hooks, tenants, keys and modules, any capabilities   *)
(* and any bound on versions.                                              *)
(***************************************************************************)
EXTENDS ConfigWrites, TLAPS

\* What a row of each table can hold.
Value(r) ==
    IF r \in Hooks THEN HookRows
    ELSE IF r \in Tenants THEN TenantRows
    ELSE IF r \in Keys THEN {"live", "revoked"}
    ELSE BindingRows
Values == HookRows \cup TenantRows \cup BindingRows \cup {"live", "revoked"}

BindingArgs == [module : Modules \cup {None}, config : Configs \cup {None}]

Transactions ==
    [at : {"none", "insert", "select", "check", "ensure", "parents", "bump", "commit", "quiet"},
     row : Rows \cup {None},
     arg : Values \cup HookSpecs \cup TenantPatches \cup BindingArgs \cup {None},
     new : Values \cup {None},
     ver : Nat]

\* A binding's tenant and hook exist, and what it is to run is its own.
Backed(b, m) == Exists(b[1]) /\ Exists(b[2]) /\ CanActivate(b, m)

\* The value new may replace what row r holds.
Succeeds(r, new) ==
    /\ new \in Value(r)
    /\ r \in Hooks /\ Exists(r) => db[r].caps \subseteq new.caps /\ new.def = db[r].def + 1
    /\ r \in Bindings =>
        /\ Backed(r, new.module)
        /\ Exists(r) => \/ new.cv = db[r].cv /\ new.config = db[r].config
                        \/ new.cv = db[r].cv + 1

\* What an open transaction knows, and keeps true with the locks it holds.
Holding(c) ==
    LET r == tx[c].row
    IN  /\ tx[c].at \in {"insert", "select"} => r \in Hooks \cup Tenants \cup Keys
        /\ tx[c].at = "insert" => tx[c].arg \in Value(r)
        /\ tx[c].at = "select" =>
            /\ r \in Hooks => tx[c].arg \in HookSpecs
            /\ r \in Tenants => tx[c].arg \in TenantPatches
        /\ tx[c].at \in {"check", "ensure"} => r \in Bindings /\ tx[c].arg \in BindingArgs
        /\ tx[c].at = "ensure" => Backed(r, tx[c].arg.module)
        /\ tx[c].at \in {"parents", "bump", "commit", "quiet"} =>
            r \in Rows /\ locked[r] = c /\ Succeeds(r, tx[c].new)
        /\ tx[c].at = "quiet" => r \in Tenants /\ Exists(r) /\ tx[c].new.limit = db[r].limit
        /\ tx[c].at = "commit" =>
            locked[ConfigState] = c /\ tx[c].ver = version + 1 /\ version < MaxVersion

TxInv ==
    /\ tx \in [Clients -> Transactions]
    /\ locked \in [LockRows -> Clients \cup {None}]
    /\ \A c \in Clients : Holding(c)

\* The committed rows.
DbInv ==
    /\ db \in [Rows -> Values \cup {None}]
    /\ \A r \in Rows : Exists(r) => db[r] \in Value(r)
    /\ \A b \in Bindings : Exists(b) => Backed(b, db[b].module)

\* What was shown of a hook or a binding is no newer than its row.
PastHooks ==
    \A v \in Versions, h \in Hooks :
        LET a == history[v].hooks[h]
        IN  a # None => /\ Exists(h) /\ a.caps \subseteq db[h].caps
                        /\ a.def <= db[h].def /\ (a.def = db[h].def => a = db[h])
PastBindings ==
    \A v \in Versions, b \in Bindings :
        LET a == history[v].bindings[b]
        IN  a # None => /\ Exists(b) /\ a.cv <= db[b].cv
                        /\ a.cv = db[b].cv => a.config = db[b].config

HistoryInv ==
    /\ version \in Nat \ {0}
    /\ history \in [Versions -> Contents]
    /\ VersionNamesTables
    /\ PastHooks /\ PastBindings
    /\ VersionsNameContent /\ CapsOnlyGrow /\ SnapshotsAreComplete

WritesInv == TxInv /\ DbInv /\ HistoryInv

-----------------------------------------------------------------------------

\* The tables have no row in common, and a binding's parents are a tenant and a hook.
LEMMA RowsApart ==
    /\ \A h \in Hooks : h \in Rows /\ h \notin Tenants /\ h \notin Keys /\ h \notin Bindings
    /\ \A t \in Tenants : t \in Rows /\ t \notin Hooks /\ t \notin Keys /\ t \notin Bindings
    /\ \A k \in Keys : k \in Rows /\ k \notin Hooks /\ k \notin Tenants /\ k \notin Bindings
    /\ \A b \in Bindings :
        /\ b \in Rows /\ b \notin Hooks /\ b \notin Tenants /\ b \notin Keys
        /\ b[1] \in Tenants /\ b[2] \in Hooks
    /\ \A r \in Rows : r \in LockRows /\ r # ConfigState
    /\ ConfigState \in LockRows
  BY RowsAssumption DEF Rows, Bindings, LockRows

\* What the rows of each table can hold, and that it is never nothing.
LEMMA ValueOf ==
    /\ \A h \in Hooks : Value(h) = HookRows
    /\ \A t \in Tenants : Value(t) = TenantRows
    /\ \A k \in Keys : Value(k) = {"live", "revoked"}
    /\ \A b \in Bindings : Value(b) = BindingRows
    /\ \A r : Value(r) \subseteq Values /\ None \notin Value(r)
  BY RowsApart, NoRowAssumption DEF Value, Values

\* A transaction loses nothing it knows to a step of another one.
LEMMA OthersHold ==
    ASSUME TxInv, NEW d \in Clients, tx'[d] = tx[d],
           \A r \in LockRows : locked[r] = d => locked'[r] = d,
           \A r \in Rows : locked[r] = d => db'[r] = db[r],
           \A r \in Rows : Exists(r) => Exists(r)',
           validated \subseteq validated',
           locked[ConfigState] = d => version' = version
    PROVE  Holding(d)'
<1>1. Holding(d)
  BY DEF TxInv
<1>2. ASSUME NEW b \in Bindings, NEW m, Backed(b, m) PROVE Backed(b, m)'
  BY <1>2, RowsApart DEF Backed, CanActivate
<1>3. ASSUME NEW r \in Rows, locked[r] = d, NEW new, Succeeds(r, new) PROVE Succeeds(r, new)'
  BY <1>2, <1>3, RowsApart DEF Succeeds, Exists
<1>4. ASSUME tx[d].at \in {"parents", "bump", "commit", "quiet"}
      PROVE  /\ tx[d].row \in Rows /\ locked'[tx[d].row] = d /\ Succeeds(tx[d].row, tx[d].new)'
             /\ db'[tx[d].row] = db[tx[d].row]
  BY <1>1, <1>3, <1>4, RowsApart DEF Holding
<1>5. tx[d].at = "ensure" => Backed(tx[d].row, tx[d].arg.module)'
  BY <1>1, <1>2 DEF Holding
<1>6. tx[d].at = "commit" =>
        locked'[ConfigState] = d /\ tx[d].ver = version' + 1 /\ version' < MaxVersion
  BY <1>1, RowsApart DEF Holding
<1>7. tx[d].at = "quiet" => tx[d].row \in Tenants /\ Exists(tx[d].row)' /\ tx[d].new.limit = db'[tx[d].row].limit
  BY <1>1, <1>4 DEF Holding
<1>8. QED
  BY <1>1, <1>4, <1>5, <1>6, <1>7 DEF Holding

\* A step of one transaction that leaves the tables alone.
LEMMA TablesLeftAlone ==
    ASSUME WritesInv, UNCHANGED tables, NEW c \in Clients, NEW t \in Transactions,
           tx' = [tx EXCEPT ![c] = t],
           locked' \in [LockRows -> Clients \cup {None}],
           \A r \in LockRows : locked[r] # c => locked'[r] \in {locked[r]} \cup (IF locked[r] = None THEN {c} ELSE {}),
           Holding(c)'
    PROVE  WritesInv'
<1>1. UNCHANGED <<db, validated, version, history>> /\ TxInv
  BY DEF tables, WritesInv
<1>2. ASSUME NEW d \in Clients, d # c PROVE Holding(d)'
  <2>1. tx'[d] = tx[d]
    BY <1>1, <1>2 DEF TxInv
  <2>2. d # None
    BY RowsAssumption
  <2>3. \A r \in LockRows : locked[r] = d => locked'[r] = d
    BY <1>2, <2>2
  <2>4. QED
    BY <1>1, <2>1, <2>3, OthersHold DEF Exists
<1>3. TxInv'
  BY <1>1, <1>2 DEF TxInv
<1>4. DbInv'
  BY <1>1 DEF WritesInv, DbInv, Exists, Backed, CanActivate
<1>5. HistoryInv'
  BY <1>1 DEF WritesInv, HistoryInv, Versions, VersionNamesTables, PastHooks, PastBindings, Exists,
     VersionsNameContent, CapsOnlyGrow, SnapshotsAreComplete
<1>6. QED
  BY <1>3, <1>4, <1>5 DEF WritesInv

-----------------------------------------------------------------------------

\* A request begins with nothing locked.
LEMMA BeginKeeps ==
    ASSUME WritesInv, NEW c \in Clients, NEW at \in {"insert", "select", "check"}, NEW r \in Rows,
           NEW arg \in Values \cup HookSpecs \cup TenantPatches \cup BindingArgs \cup {None},
           at \in {"insert", "select"} => r \in Hooks \cup Tenants \cup Keys,
           at = "insert" => arg \in Value(r),
           at = "select" => (r \in Hooks => arg \in HookSpecs) /\ (r \in Tenants => arg \in TenantPatches),
           at = "check" => r \in Bindings /\ arg \in BindingArgs,
           Begin(c, at, r, arg)
    PROVE  WritesInv'
<1> DEFINE t == [Idle EXCEPT !.at = at, !.row = r, !.arg = arg]
<1>1. t \in Transactions /\ t.at = at /\ t.row = r /\ t.arg = arg
  BY DEF Idle, Transactions
<1>2. tx' = [tx EXCEPT ![c] = t] /\ UNCHANGED <<tables, locked>>
  BY DEF Begin, locks
<1> HIDE DEF t
<1>3. tx'[c] = t /\ locked' \in [LockRows -> Clients \cup {None}]
  BY <1>2 DEF WritesInv, TxInv
<1>4. Holding(c)'
  BY <1>1, <1>3 DEF Holding
<1>5. QED
  BY <1>1, <1>2, <1>3, <1>4, TablesLeftAlone

\* A transaction that ends holds nothing.
LEMMA IdleHolds ==
    ASSUME NEW c \in Clients, tx'[c] = Idle
    PROVE  Holding(c)'
  BY DEF Holding, Idle

\* The end of a transaction takes locks from nobody else.
LEMMA ReleaseTyped ==
    ASSUME TxInv, NEW c \in Clients, Release(c)
    PROVE  /\ locked' \in [LockRows -> Clients \cup {None}]
           /\ \A r \in LockRows : locked[r] # c => locked'[r] = locked[r]
  BY DEF TxInv, Release

\* Refused, nothing to change, or undone.
LEMMA EndKeeps ==
    ASSUME WritesInv, NEW c \in Clients, End(c)
    PROVE  WritesInv'
<1>1. Idle \in Transactions /\ TxInv
  BY DEF Idle, Transactions, WritesInv
<1>2. tx' = [tx EXCEPT ![c] = Idle] /\ Release(c) /\ UNCHANGED tables
  BY DEF End
<1>3. Holding(c)'
  BY <1>1, <1>2, IdleHolds DEF TxInv
<1>4. QED
  BY <1>1, <1>2, <1>3, ReleaseTyped, TablesLeftAlone

\* Taking a lock takes it from nobody.
LEMMA LockTakes ==
    ASSUME TxInv, NEW c \in Clients, NEW r \in LockRows, Lock(c, r)
    PROVE  /\ locked' \in [LockRows -> Clients \cup {None}] /\ locked'[r] = c
           /\ \A x \in LockRows : x # r => locked'[x] = locked[x]
           /\ locked[r] \in {None, c}
  BY DEF TxInv, Lock, Free, Unlocked

\* A row is locked and given a value that may follow what it holds.
LEMMA StageKeeps ==
    ASSUME WritesInv, NEW c \in Clients, NEW r \in Rows, tx[c].row = r,
           NEW new, Succeeds(r, new), NEW next \in {"parents", "bump", "quiet"},
           Lock(c, r), Stage(c, new, next),
           next = "quiet" => r \in Tenants /\ Exists(r) /\ new.limit = db[r].limit
    PROVE  WritesInv'
<1> DEFINE t == [tx[c] EXCEPT !.new = new, !.at = next]
<1>1. tx[c] \in Transactions /\ TxInv /\ r \in LockRows
  BY RowsApart DEF WritesInv, TxInv
<1>2. new \in Values
  BY ValueOf DEF Succeeds
<1>3. t \in Transactions /\ t.at = next /\ t.row = r /\ t.new = new
  BY <1>1, <1>2 DEF Transactions
<1>4. tx' = [tx EXCEPT ![c] = t] /\ UNCHANGED tables
  BY DEF Stage
<1> HIDE DEF t
<1>5. tx'[c] = t
  BY <1>1, <1>4 DEF TxInv
<1>6. Succeeds(r, new)'
  BY <1>4 DEF Succeeds, Backed, Exists, CanActivate, tables
<1>7. Holding(c)'
  BY <1>1, <1>3, <1>4, <1>5, <1>6, LockTakes DEF Holding, Exists, tables
<1>8. QED
  BY <1>1, <1>3, <1>4, <1>7, LockTakes, TablesLeftAlone

\* The insert of a hook, a tenant or a key.
LEMMA InsertKeeps ==
    ASSUME WritesInv, NEW c \in Clients, InsertRow(c)
    PROVE  WritesInv'
<1>1. tx[c].row \in Hooks \cup Tenants \cup Keys /\ tx[c].arg \in Value(tx[c].row)
  BY DEF InsertRow, WritesInv, TxInv, Holding
<1>2. CASE End(c)
  BY <1>2, EndKeeps
<1>3. CASE ~Exists(tx[c].row) /\ Lock(c, tx[c].row) /\ Stage(c, tx[c].arg, "bump")
  <2>1. Succeeds(tx[c].row, tx[c].arg)
    BY <1>1, <1>3, RowsApart DEF Succeeds
  <2>2. QED
    BY <1>1, <1>3, <2>1, RowsApart, StageKeeps
<1>4. QED
  BY <1>2, <1>3 DEF InsertRow

\* Replacing a hook: its lists grow, its version goes up.
LEMMA LockHookKeeps ==
    ASSUME WritesInv, NEW c \in Clients, LockHook(c)
    PROVE  WritesInv'
<1> DEFINE r   == tx[c].row
           new == Definition(db[r].def + 1, tx[c].arg)
<1>1. r \in Hooks /\ Exists(r) /\ tx[c].arg \in HookSpecs /\ db[r] \in HookRows
  BY ValueOf, RowsApart DEF LockHook, WritesInv, TxInv, DbInv, Holding
<1>2. CASE End(c)
  BY <1>2, EndKeeps
<1>3. CASE db[r].caps \subseteq tx[c].arg.caps /\ Lock(c, r) /\ Stage(c, new, "bump")
  <2>1. new \in HookRows /\ new.caps = tx[c].arg.caps /\ new.def = db[r].def + 1
    BY <1>1 DEF Definition, HookRows, HookSpecs
  <2> HIDE DEF new
  <2>2. Succeeds(r, new)
    BY <1>1, <1>3, <2>1, RowsApart, ValueOf DEF Succeeds
  <2>3. QED
    BY <1>1, <1>3, <2>2, RowsApart, StageKeeps
<1>4. QED
  BY <1>2, <1>3 DEF LockHook

\* Patching a tenant: quietly only if the snapshot does not show the change.
LEMMA LockTenantKeeps ==
    ASSUME WritesInv, NEW c \in Clients, LockTenant(c)
    PROVE  WritesInv'
<1> DEFINE r   == tx[c].row
           new == Patched(db[r], tx[c].arg)
           next == IF ShowsChange(db[r], new) THEN "bump" ELSE "quiet"
<1>1. r \in Tenants /\ Exists(r) /\ tx[c].arg \in TenantPatches /\ db[r] \in TenantRows
  BY ValueOf, RowsApart DEF LockTenant, WritesInv, TxInv, DbInv, Holding
<1>2. CASE End(c)
  BY <1>2, EndKeeps
<1>3. CASE Lock(c, r) /\ Stage(c, new, next)
  <2>1. new \in TenantRows
    BY <1>1 DEF Patched, TenantRows, TenantPatches
  <2>2. next = "quiet" => new.limit = db[r].limit
    BY DEF ShowsChange
  <2>3. Succeeds(r, new)
    BY <1>1, <2>1, RowsApart, ValueOf DEF Succeeds
  <2>4. next \in {"bump", "quiet"}
    OBVIOUS
  <2> HIDE DEF new, next
  <2>5. QED
    BY <1>1, <1>3, <2>2, <2>3, <2>4, RowsApart, StageKeeps
<1>4. QED
  BY <1>2, <1>3 DEF LockTenant

\* Revoking a key.
LEMMA LockKeyKeeps ==
    ASSUME WritesInv, NEW c \in Clients, LockKey(c)
    PROVE  WritesInv'
<1>1. tx[c].row \in Keys
  BY DEF LockKey
<1>2. CASE End(c)
  BY <1>2, EndKeeps
<1>3. CASE Lock(c, tx[c].row) /\ Stage(c, "revoked", "bump")
  <2>1. Succeeds(tx[c].row, "revoked")
    BY <1>1, RowsApart, ValueOf DEF Succeeds
  <2>2. QED
    BY <1>1, <1>3, <2>1, RowsApart, StageKeeps
<1>4. QED
  BY <1>2, <1>3 DEF LockKey

\* A step that only moves a transaction on keeps its record's type.
LEMMA Onwards ==
    ASSUME TxInv, NEW c \in Clients, NEW at \in {"ensure", "bump"}
    PROVE  LET t == [tx[c] EXCEPT !.at = at]
           IN  t \in Transactions /\ t.at = at /\ t.row = tx[c].row /\ t.arg = tx[c].arg /\ t.new = tx[c].new
<1>1. tx[c] \in Transactions
  BY DEF TxInv
<1>2. QED
  BY <1>1 DEF Transactions

\* So does the one that takes its version.
LEMMA Versioned ==
    ASSUME TxInv, NEW c \in Clients, NEW v \in Nat
    PROVE  LET t == [tx[c] EXCEPT !.ver = v, !.at = "commit"]
           IN  /\ t \in Transactions /\ t.at = "commit" /\ t.row = tx[c].row /\ t.arg = tx[c].arg
               /\ t.new = tx[c].new /\ t.ver = v
<1>1. tx[c] \in Transactions
  BY DEF TxInv
<1>2. QED
  BY <1>1 DEF Transactions

\* The candidate is looked at without a lock; what it shows stays true.
LEMMA CheckBindingKeeps ==
    ASSUME WritesInv, NEW c \in Clients, CheckBinding(c)
    PROVE  WritesInv'
<1> DEFINE t == [tx[c] EXCEPT !.at = "ensure"]
<1>1. CASE End(c)
  BY <1>1, EndKeeps
<1>2. CASE /\ Backed(tx[c].row, tx[c].arg.module) /\ tx' = [tx EXCEPT ![c].at = "ensure"]
           /\ UNCHANGED <<tables, locks>>
  <2>1. /\ TxInv /\ tx[c].row \in Bindings /\ tx[c].arg \in BindingArgs
        /\ UNCHANGED <<db, validated, locked>> /\ UNCHANGED tables
    BY <1>2 DEF CheckBinding, WritesInv, TxInv, Holding, locks, tables
  <2>2. t \in Transactions /\ t.at = "ensure" /\ t.row = tx[c].row /\ t.arg = tx[c].arg
    BY <2>1, Onwards
  <2>3. tx' = [tx EXCEPT ![c] = t]
    BY <1>2
  <2> HIDE DEF t
  <2>4. tx'[c] = t
    BY <2>1, <2>3 DEF TxInv
  <2>5. Holding(c)'
    BY <1>2, <2>1, <2>2, <2>4 DEF Holding, Backed, Exists, CanActivate
  <2>6. QED
    BY <2>1, <2>2, <2>3, <2>5, TablesLeftAlone DEF TxInv
<1>3. QED
  BY <1>1, <1>2 DEF CheckBinding, Backed

\* A new value of a binding: its module is one it may run, its version counts the
\* changes of its configuration.
LEMMA UpdatedFollows ==
    ASSUME WritesInv, NEW b \in Bindings, NEW arg \in BindingArgs, Backed(b, arg.module)
    PROVE  /\ ~Exists(b) => Succeeds(b, Updated(NewBinding, arg, TRUE))
           /\ Exists(b) => Succeeds(b, Updated(db[b], arg, FALSE))
<1>1. arg.module \in Modules \cup {None} /\ arg.config \in Configs \cup {None} /\ NoConfig \in Configs
  BY RowsAssumption DEF BindingArgs
<1>2. NewBinding \in BindingRows /\ NewBinding.module = None
  BY <1>1 DEF NewBinding, BindingRows
<1>3. Exists(b) => db[b] \in BindingRows /\ Backed(b, db[b].module)
  BY RowsApart, ValueOf DEF WritesInv, DbInv
<1>4. ASSUME NEW cur \in BindingRows, cur.module = None \/ Backed(b, cur.module), NEW created \in BOOLEAN
      PROVE  LET new == Updated(cur, arg, created)
             IN  /\ new \in BindingRows /\ Backed(b, new.module)
                 /\ \/ new.cv = cur.cv /\ new.config = cur.config
                    \/ new.cv = cur.cv + 1
                    \/ created
  BY <1>1, <1>4 DEF Updated, BindingRows, Backed, CanActivate
<1>5. ASSUME ~Exists(b) PROVE Succeeds(b, Updated(NewBinding, arg, TRUE))
  BY <1>2, <1>4, <1>5, RowsApart, ValueOf DEF Succeeds
<1>6. ASSUME Exists(b) PROVE Succeeds(b, Updated(db[b], arg, FALSE))
  BY <1>3, <1>4, <1>6, RowsApart, ValueOf DEF Succeeds
<1>7. QED
  BY <1>5, <1>6

\* A binding is inserted, or its row locked and changed.
LEMMA BindingKeeps ==
    ASSUME WritesInv, NEW c \in Clients, EnsureInserts(c) \/ LockBinding(c)
    PROVE  WritesInv'
<1> DEFINE b   == tx[c].row
           arg == tx[c].arg
<1>1. b \in Bindings /\ arg \in BindingArgs /\ Backed(b, arg.module) /\ b \in Rows
  BY RowsApart DEF EnsureInserts, LockBinding, WritesInv, TxInv, Holding
<1>2. CASE EnsureInserts(c)
  <2>1. Lock(c, b) /\ Stage(c, Updated(NewBinding, arg, TRUE), "parents") /\ ~Exists(b)
    BY <1>2 DEF EnsureInserts
  <2>2. Succeeds(b, Updated(NewBinding, arg, TRUE))
    BY <1>1, <2>1, UpdatedFollows
  <2>3. QED
    BY <1>1, <2>1, <2>2, StageKeeps
<1>3. CASE Exists(b) /\ Lock(c, b) /\ Stage(c, Updated(db[b], arg, FALSE), "bump")
  <2>1. Succeeds(b, Updated(db[b], arg, FALSE))
    BY <1>1, <1>3, UpdatedFollows
  <2>2. QED
    BY <1>1, <1>3, <2>1, StageKeeps
<1>4. CASE End(c)
  BY <1>4, EndKeeps
<1>5. QED
  BY <1>2, <1>3, <1>4 DEF LockBinding

\* The foreign keys' locks.
LEMMA LockParentsKeeps ==
    ASSUME WritesInv, NEW c \in Clients, LockParents(c)
    PROVE  WritesInv'
<1> DEFINE t == [tx[c] EXCEPT !.at = "bump"]
<1>1. /\ TxInv /\ tx[c].at = "parents" /\ UNCHANGED tables /\ locked' = locked
      /\ UNCHANGED <<db, validated>>
  BY DEF LockParents, WritesInv, tables
<1>2. t \in Transactions /\ t.at = "bump" /\ t.row = tx[c].row /\ t.arg = tx[c].arg /\ t.new = tx[c].new
  BY <1>1, Onwards
<1>3. tx' = [tx EXCEPT ![c] = t]
  BY DEF LockParents
<1> HIDE DEF t
<1>4. tx'[c] = t
  BY <1>1, <1>3 DEF TxInv
<1>5. Holding(c)'
  BY <1>1, <1>2, <1>4 DEF TxInv, Holding, Succeeds, Backed, Exists, CanActivate
<1>6. QED
  BY <1>1, <1>2, <1>3, <1>5, TablesLeftAlone DEF TxInv

\* The lock on config_state keeps the version of the transaction its own.
LEMMA BumpKeeps ==
    ASSUME WritesInv, NEW c \in Clients, Bump(c)
    PROVE  WritesInv'
<1> DEFINE t == [tx[c] EXCEPT !.ver = version + 1, !.at = "commit"]
<1>1. /\ TxInv /\ tx[c].at = "bump" /\ UNCHANGED tables /\ Lock(c, ConfigState) /\ version < MaxVersion
      /\ UNCHANGED <<db, validated, version>> /\ version \in Nat /\ tx[c] \in Transactions
  BY DEF Bump, TakeVersion, WritesInv, HistoryInv, TxInv, tables
<1>2. /\ t \in Transactions /\ t.at = "commit" /\ t.row = tx[c].row /\ t.arg = tx[c].arg
      /\ t.new = tx[c].new /\ t.ver = version + 1
  <2>1. version + 1 \in Nat
    BY <1>1
  <2>2. QED
    BY <1>1, <2>1, Versioned
<1>3. tx' = [tx EXCEPT ![c] = t]
  BY <1>1 DEF Bump, TxInv
<1> HIDE DEF t
<1>4. tx'[c] = t
  BY <1>1, <1>3 DEF TxInv
<1>5. tx[c].row \in Rows /\ locked[tx[c].row] = c /\ Succeeds(tx[c].row, tx[c].new)
  BY <1>1 DEF TxInv, Holding
<1>6. /\ locked' \in [LockRows -> Clients \cup {None}] /\ locked'[ConfigState] = c
      /\ \A x \in LockRows : x # ConfigState => locked'[x] = locked[x]
      /\ locked[ConfigState] \in {None, c}
  BY <1>1, RowsApart, LockTakes
<1>7. Succeeds(tx[c].row, tx[c].new)'
  <2>1. Succeeds(tx[c].row, tx[c].new) /\ tx'[c].row = tx[c].row /\ tx'[c].new = tx[c].new
    BY <1>2, <1>4, <1>5
  <2>2. QED
    BY <1>1, <2>1 DEF Succeeds, Backed, Exists, CanActivate
<1>8. Holding(c)'
  BY <1>1, <1>2, <1>4, <1>5, <1>6, <1>7, RowsApart DEF Holding
<1>9. QED
  BY <1>1, <1>2, <1>3, <1>6, <1>8, TablesLeftAlone

\* A verdict lets more modules be activated, and takes none back.
LEMMA ValidateKeeps ==
    ASSUME WritesInv, NEW m \in Modules, Validate(m)
    PROVE  WritesInv'
<1>1. UNCHANGED <<db, version, history, locked, tx>> /\ validated \subseteq validated' /\ TxInv
  BY DEF Validate, locks, WritesInv
<1>2. \A d \in Clients : Holding(d)'
  BY <1>1, OthersHold DEF Exists
<1>3. TxInv'
  BY <1>1, <1>2 DEF TxInv
<1>4. DbInv'
  BY <1>1 DEF WritesInv, DbInv, Exists, Backed, CanActivate
<1>5. HistoryInv'
  BY <1>1 DEF WritesInv, HistoryInv, Versions, VersionNamesTables, PastHooks, PastBindings, Exists,
     VersionsNameContent, CapsOnlyGrow, SnapshotsAreComplete
<1>6. QED
  BY <1>3, <1>4, <1>5 DEF WritesInv

-----------------------------------------------------------------------------
(* The commit.                                                             *)

\* The row of a committing transaction is replaced by a value that may follow it.
LEMMA RowReplaced ==
    ASSUME WritesInv, NEW c \in Clients, tx[c].at \in {"commit", "quiet"},
           db' = [db EXCEPT ![tx[c].row] = tx[c].new], tx' = [tx EXCEPT ![c] = Idle], Release(c),
           validated' = validated,
           version' = version \/ (tx[c].at = "commit" /\ version' = tx[c].ver)
    PROVE  /\ TxInv' /\ DbInv'
           /\ tx[c].row \in Rows /\ Succeeds(tx[c].row, tx[c].new)
           /\ db'[tx[c].row] = tx[c].new /\ tx[c].new # None
           /\ \A r \in Rows \ {tx[c].row} : db'[r] = db[r]
           /\ \A r \in Rows : Exists(r) => Exists(r)'
<1> DEFINE x   == tx[c].row
           new == tx[c].new
<1>1. /\ x \in Rows /\ Succeeds(x, new) /\ locked[x] = c /\ new \in Value(x) /\ new # None /\ new \in Values
      /\ tx[c].at = "commit" => locked[ConfigState] = c
  BY ValueOf DEF WritesInv, TxInv, Holding, Succeeds
<1>2. db \in [Rows -> Values \cup {None}]
  BY DEF WritesInv, DbInv
<1>3. db'[x] = new /\ \A r \in Rows \ {x} : db'[r] = db[r]
  BY <1>1, <1>2
<1>4. \A r \in Rows : Exists(r) => Exists(r)'
  BY <1>1, <1>3 DEF Exists
<1>5. TxInv /\ Idle \in Transactions
  BY DEF WritesInv, Idle, Transactions
<1>6. ASSUME NEW d \in Clients, d # c PROVE Holding(d)'
  <2>1. tx'[d] = tx[d]
    BY <1>5, <1>6 DEF TxInv
  <2>2. \A r \in LockRows : locked[r] = d => locked'[r] = d
    BY <1>5, <1>6, ReleaseTyped
  <2>3. \A r \in Rows : locked[r] = d => db'[r] = db[r]
    BY <1>1, <1>3, <1>6
  <2>4. QED
    BY <1>1, <1>4, <1>5, <1>6, <2>1, <2>2, <2>3, OthersHold
<1>7. Holding(c)'
  BY <1>5, IdleHolds DEF TxInv
<1>8. TxInv'
  BY <1>5, <1>6, <1>7, ReleaseTyped DEF TxInv
<1>9. DbInv'
  <2>1. db' \in [Rows -> Values \cup {None}]
    BY <1>1, <1>2
  <2>2. \A r \in Rows : Exists(r)' => db'[r] \in Value(r)
    BY <1>1, <1>3 DEF WritesInv, DbInv, Exists
  <2>3. ASSUME NEW b \in Bindings, NEW m, Backed(b, m) PROVE Backed(b, m)'
    BY <1>4, <2>3, RowsApart DEF Backed, CanActivate
  <2>4. ASSUME NEW b \in Bindings, Exists(b)' PROVE Backed(b, db[b].module)'
    <3>1. CASE b = x
      BY <1>1, <1>3, <2>3, <3>1 DEF Succeeds
    <3>2. CASE b # x
      BY <1>3, <2>3, <2>4, <3>2, RowsApart DEF WritesInv, DbInv, Exists
    <3>3. QED
      BY <3>1, <3>2
  <2>5. QED
    BY <2>1, <2>2, <2>4 DEF DbInv
<1>10. QED
  BY <1>1, <1>3, <1>4, <1>8, <1>9

\* What the snapshot shows of rows that are what rows can be.
LEMMA VisibleParts ==
    ASSUME NEW d, d \in [Rows -> Values \cup {None}], \A r \in Rows : d[r] # None => d[r] \in Value(r)
    PROVE  /\ Visible(d) \in Contents
           /\ \A h \in Hooks : Visible(d).hooks[h] = d[h]
           /\ \A t \in Tenants : Visible(d).tenants[t] = IF d[t] = None THEN None ELSE d[t].limit
           /\ \A b \in Bindings : Visible(d).bindings[b] =
                IF d[b] # None /\ d[b].module # None THEN d[b] ELSE None
<1>1. \A h \in Hooks : d[h] \in HookRows \cup {None}
  BY RowsApart, ValueOf
<1>2. \A t \in Tenants : (IF d[t] = None THEN None ELSE d[t].limit) \in Limits \cup {None}
  <2>1. \A t \in Tenants : d[t] \in TenantRows \cup {None}
    BY RowsApart, ValueOf
  <2>2. \A row \in TenantRows : row.limit \in Limits
    BY DEF TenantRows
  <2>3. QED
    BY <2>1, <2>2
<1>3. \A b \in Bindings : d[b] \in BindingRows \cup {None}
  BY RowsApart, ValueOf
<1>4. [h \in Hooks |-> d[h]] \in [Hooks -> HookRows \cup {None}]
  BY <1>1
<1>5. [t \in Tenants |-> IF d[t] = None THEN None ELSE d[t].limit] \in [Tenants -> Limits \cup {None}]
  BY <1>2
<1>6. [b \in Bindings |-> IF d[b] # None /\ d[b].module # None THEN d[b] ELSE None]
        \in [Bindings -> BindingRows \cup {None}]
  BY <1>3
<1>7. Visible(d) \in Contents
  BY <1>4, <1>5, <1>6 DEF Visible, Contents
<1>8. QED
  BY <1>7 DEF Visible

\* A patch that shows nothing leaves the snapshot as it is.
LEMMA QuietKeeps ==
    ASSUME WritesInv, NEW c \in Clients, CommitQuietly(c)
    PROVE  WritesInv'
<1> DEFINE x   == tx[c].row
           new == tx[c].new
<1>1. /\ tx[c].at = "quiet" /\ UNCHANGED <<validated, version, history>>
      /\ x \in Tenants /\ Exists(x) /\ new.limit = db[x].limit
      /\ db' = [db EXCEPT ![x] = new] /\ tx' = [tx EXCEPT ![c] = Idle] /\ Release(c)
  BY DEF CommitQuietly, WritesInv, TxInv, Holding
<1>2. /\ TxInv' /\ DbInv' /\ db'[x] = new /\ new # None
      /\ \A r \in Rows \ {x} : db'[r] = db[r]
      /\ \A r \in Rows : Exists(r) => Exists(r)'
  BY <1>1, RowReplaced
<1>3. /\ \A h \in Hooks : db'[h] = db[h]
      /\ \A b \in Bindings : db'[b] = db[b]
      /\ \A k \in Keys : db'[k] = db[k]
      /\ \A t \in Tenants : (IF db'[t] = None THEN None ELSE db'[t].limit)
                            = (IF db[t] = None THEN None ELSE db[t].limit)
  BY <1>1, <1>2, RowsApart DEF Exists
<1>4. Visible(db') = Visible(db)
  BY <1>3 DEF Visible
<1>5. HistoryInv /\ Versions' = Versions
  BY <1>1 DEF WritesInv, Versions
<1>6. PastHooks' /\ PastBindings'
  BY <1>1, <1>3, <1>5 DEF HistoryInv, PastHooks, PastBindings, Exists
<1>7. VersionNamesTables'
  BY <1>1, <1>4, <1>5 DEF HistoryInv, VersionNamesTables
<1>8. VersionsNameContent' /\ CapsOnlyGrow' /\ SnapshotsAreComplete'
  BY <1>1, <1>5 DEF HistoryInv, VersionsNameContent, CapsOnlyGrow, SnapshotsAreComplete
<1>9. HistoryInv'
  BY <1>1, <1>5, <1>6, <1>7, <1>8 DEF HistoryInv
<1>10. QED
  BY <1>2, <1>9 DEF WritesInv

\* What a commit does to the history: one more version, of the new tables.
LEMMA CommitShows ==
    ASSUME WritesInv, NEW c \in Clients, Commit(c)
    PROVE  /\ TxInv' /\ DbInv'
           /\ version' = version + 1 /\ version < MaxVersion /\ version \in Nat \ {0}
           /\ validated' = validated
           /\ history' = [v \in 1..version + 1 |-> IF v = version + 1 THEN Visible(db') ELSE history[v]]
           /\ Visible(db') \in Contents
           /\ tx[c].row \in Rows /\ Succeeds(tx[c].row, tx[c].new)
           /\ db'[tx[c].row] = tx[c].new
           /\ \A r \in Rows \ {tx[c].row} : db'[r] = db[r]
           /\ \A r \in Rows : Exists(r) => Exists(r)'
<1>1. /\ version \in Nat \ {0} /\ history \in [1..version -> Contents]
      /\ tx[c].ver = version + 1 /\ version < MaxVersion
  BY DEF Commit, WritesInv, HistoryInv, Versions, TxInv, Holding
<1>2. /\ db' = [db EXCEPT ![tx[c].row] = tx[c].new] /\ tx' = [tx EXCEPT ![c] = Idle] /\ Release(c)
      /\ validated' = validated /\ tx[c].at = "commit" /\ version' = tx[c].ver
      /\ history' = [v \in DOMAIN history \cup {tx[c].ver} |->
                        IF v = tx[c].ver THEN Visible(db') ELSE history[v]]
  BY DEF Commit
<1>3. DOMAIN history \cup {tx[c].ver} = 1..version + 1
  BY <1>1
<1>4. history' = [v \in 1..version + 1 |-> IF v = version + 1 THEN Visible(db') ELSE history[v]]
  BY <1>1, <1>2, <1>3
<1>5. /\ TxInv' /\ DbInv' /\ tx[c].row \in Rows /\ Succeeds(tx[c].row, tx[c].new)
      /\ db'[tx[c].row] = tx[c].new
      /\ \A r \in Rows \ {tx[c].row} : db'[r] = db[r]
      /\ \A r \in Rows : Exists(r) => Exists(r)'
  BY <1>2, RowReplaced
<1>6. db' \in [Rows -> Values \cup {None}] /\ \A r \in Rows : db'[r] # None => db'[r] \in Value(r)
  BY <1>5 DEF DbInv, Exists
<1>7. Visible(db') \in Contents
  BY <1>6, VisibleParts
<1>8. QED
  BY <1>1, <1>2, <1>4, <1>5, <1>7

\* Nothing shown of a hook or a binding outruns its row, nor shares its version
\* with another content; so the commit's own content agrees with every earlier one.
LEMMA PastKept ==
    ASSUME WritesInv, NEW c \in Clients, Commit(c)
    PROVE  /\ PastHooks' /\ PastBindings'
           /\ \A v \in 1..version : history'[v] = history[v]
           /\ history'[version + 1] = Visible(db')
           /\ Versions' = 1..version + 1
<1> DEFINE x   == tx[c].row
           new == tx[c].new
<1>1. /\ version' = version + 1 /\ version \in Nat \ {0}
      /\ history' = [v \in 1..version + 1 |-> IF v = version + 1 THEN Visible(db') ELSE history[v]]
      /\ x \in Rows /\ Succeeds(x, new) /\ db'[x] = new
      /\ \A r \in Rows \ {x} : db'[r] = db[r]
      /\ \A r \in Rows : Exists(r) => Exists(r)'
      /\ db' \in [Rows -> Values \cup {None}] /\ \A r \in Rows : db'[r] # None => db'[r] \in Value(r)
      /\ HistoryInv /\ DbInv
  BY CommitShows DEF DbInv, Exists, WritesInv
<1>2. /\ \A v \in 1..version : history'[v] = history[v]
      /\ history'[version + 1] = Visible(db')
      /\ Versions' = 1..version + 1 /\ Versions = 1..version
  BY <1>1 DEF Versions
<1>3. ASSUME NEW h \in Hooks, NEW a \in HookRows, Exists(h), a.caps \subseteq db[h].caps,
             a.def <= db[h].def, a.def = db[h].def => a = db[h]
      PROVE  /\ Exists(h)' /\ a.caps \subseteq db'[h].caps
             /\ a.def <= db'[h].def /\ (a.def = db'[h].def => a = db'[h])
  <2>1. h \in Rows /\ Exists(h)' /\ db[h] \in HookRows
    BY <1>1, <1>3, RowsApart, ValueOf DEF DbInv
  <2>2. a.def \in Nat /\ db[h].def \in Nat
    BY <1>3, <2>1 DEF HookRows
  <2>3. CASE h = x
    <3>1. db[h].caps \subseteq db'[h].caps /\ db'[h].def = db[h].def + 1
      BY <1>1, <1>3, <2>3 DEF Succeeds
    <3>2. QED
      BY <1>3, <2>1, <2>2, <3>1
  <2>4. CASE h # x
    <3>1. db'[h] = db[h]
      BY <1>1, <2>1, <2>4
    <3>2. QED
      BY <1>3, <2>1, <3>1
  <2>5. QED
    BY <2>3, <2>4
<1>4. ASSUME NEW b \in Bindings, NEW a \in BindingRows, Exists(b), a.cv <= db[b].cv,
             a.cv = db[b].cv => a.config = db[b].config
      PROVE  /\ Exists(b)' /\ a.cv <= db'[b].cv
             /\ a.cv = db'[b].cv => a.config = db'[b].config
  <2>1. b \in Rows /\ Exists(b)' /\ db[b] \in BindingRows
    BY <1>1, <1>4, RowsApart, ValueOf DEF DbInv
  <2>2. a.cv \in Nat /\ db[b].cv \in Nat
    BY <1>4, <2>1 DEF BindingRows
  <2>3. CASE b = x
    <3>1. \/ db'[b].cv = db[b].cv /\ db'[b].config = db[b].config
          \/ db'[b].cv = db[b].cv + 1
      BY <1>1, <1>4, <2>3 DEF Succeeds
    <3>2. QED
      BY <1>4, <2>1, <2>2, <3>1
  <2>4. CASE b # x
    <3>1. db'[b] = db[b]
      BY <1>1, <2>1, <2>4
    <3>2. QED
      BY <1>4, <2>1, <3>1
  <2>5. QED
    BY <2>3, <2>4
<1>5. PastHooks'
  <2> SUFFICES ASSUME NEW v \in 1..version + 1, NEW h \in Hooks, history'[v].hooks[h] # None
               PROVE  LET a == history'[v].hooks[h]
                      IN  /\ Exists(h)' /\ a.caps \subseteq db'[h].caps
                          /\ a.def <= db'[h].def /\ (a.def = db'[h].def => a = db'[h])
    BY <1>2 DEF PastHooks, Exists
  <2>1. CASE v = version + 1
    <3>1. history'[v].hooks[h] = db'[h] /\ db'[h] # None
      BY <1>1, <1>2, <2>1, VisibleParts
    <3>2. db'[h] \in HookRows
      BY <1>1, <3>1, RowsApart, ValueOf
    <3>3. db'[h].def \in Nat
      BY <3>2 DEF HookRows
    <3>4. QED
      BY <3>1, <3>3 DEF Exists
  <2>2. CASE v \in 1..version
    <3>1. history'[v].hooks[h] = history[v].hooks[h] /\ history[v] \in Contents
      BY <1>1, <1>2, <2>2 DEF HistoryInv
    <3>2. history[v].hooks[h] \in HookRows
      BY <3>1 DEF Contents
    <3> DEFINE a == history[v].hooks[h]
    <3>3. /\ Exists(h) /\ a.caps \subseteq db[h].caps
          /\ a.def <= db[h].def /\ (a.def = db[h].def => a = db[h])
      BY <1>1, <1>2, <2>2, <3>1 DEF HistoryInv, PastHooks
    <3> HIDE DEF a
    <3>4. QED
      BY <1>3, <3>1, <3>2, <3>3 DEF a
  <2>3. QED
    BY <1>1, <2>1, <2>2
<1>6. PastBindings'
  <2> SUFFICES ASSUME NEW v \in 1..version + 1, NEW b \in Bindings, history'[v].bindings[b] # None
               PROVE  LET a == history'[v].bindings[b]
                      IN  /\ Exists(b)' /\ a.cv <= db'[b].cv
                          /\ a.cv = db'[b].cv => a.config = db'[b].config
    BY <1>2 DEF PastBindings, Exists
  <2>1. CASE v = version + 1
    <3>1. history'[v].bindings[b] = db'[b] /\ db'[b] # None
      BY <1>1, <1>2, <2>1, VisibleParts
    <3>2. db'[b] \in BindingRows
      BY <1>1, <3>1, RowsApart, ValueOf
    <3>3. db'[b].cv \in Nat
      BY <3>2 DEF BindingRows
    <3>4. QED
      BY <3>1, <3>3 DEF Exists
  <2>2. CASE v \in 1..version
    <3>1. history'[v].bindings[b] = history[v].bindings[b] /\ history[v] \in Contents
      BY <1>1, <1>2, <2>2 DEF HistoryInv
    <3>2. history[v].bindings[b] \in BindingRows
      BY <3>1 DEF Contents
    <3> DEFINE a == history[v].bindings[b]
    <3>3. Exists(b) /\ a.cv <= db[b].cv /\ (a.cv = db[b].cv => a.config = db[b].config)
      BY <1>1, <1>2, <2>2, <3>1 DEF HistoryInv, PastBindings
    <3> HIDE DEF a
    <3>4. QED
      BY <1>4, <3>1, <3>2, <3>3 DEF a
  <2>3. QED
    BY <1>1, <2>1, <2>2
<1>7. QED
  BY <1>2, <1>5, <1>6

\* A commit keeps everything.
LEMMA CommitKeeps ==
    ASSUME WritesInv, NEW c \in Clients, Commit(c)
    PROVE  WritesInv'
<1> DEFINE n == version + 1
<1>1. /\ version' = n /\ version \in Nat \ {0} /\ validated' = validated
      /\ history' = [v \in 1..n |-> IF v = n THEN Visible(db') ELSE history[v]]
      /\ Visible(db') \in Contents
      /\ db' \in [Rows -> Values \cup {None}] /\ \A r \in Rows : db'[r] # None => db'[r] \in Value(r)
      /\ TxInv' /\ DbInv' /\ HistoryInv
  BY CommitShows DEF DbInv, Exists, WritesInv
<1>2. /\ PastHooks' /\ PastBindings' /\ \A v \in 1..version : history'[v] = history[v]
      /\ history'[n] = Visible(db') /\ Versions' = 1..n /\ Versions = 1..version
  BY PastKept DEF Versions
<1>3. n \in Nat \ {0} /\ \A v \in 1..n : v = n \/ v \in 1..version
  BY <1>1
<1> HIDE DEF n
<1>4. history' \in [Versions' -> Contents]
  BY <1>1, <1>2, <1>3 DEF HistoryInv
<1>5. VersionNamesTables'
  BY <1>1, <1>2 DEF VersionNamesTables
<1>6. ASSUME NEW v \in 1..version, NEW h \in Hooks,
             history[v].hooks[h] # None
      PROVE  /\ db'[h] # None /\ history[v].hooks[h].caps \subseteq db'[h].caps
             /\ history[v].hooks[h].def = db'[h].def => history[v].hooks[h] = db'[h]
  <2>1. v \in 1..n /\ history'[v] = history[v]
    BY <1>1, <1>2, <1>6 DEF n
  <2>2. QED
    BY <1>2, <1>6, <2>1 DEF PastHooks, Exists
<1>7. ASSUME NEW v \in 1..version, NEW b \in Bindings,
             history[v].bindings[b] # None, history[v].bindings[b].cv = db'[b].cv
      PROVE  history[v].bindings[b].config = db'[b].config
  <2>1. v \in 1..n /\ history'[v] = history[v]
    BY <1>1, <1>2, <1>7 DEF n
  <2>2. QED
    BY <1>2, <1>7, <2>1 DEF PastBindings
<1>8. /\ \A h \in Hooks : history'[n].hooks[h] = db'[h]
      /\ \A t \in Tenants : history'[n].tenants[t] = IF db'[t] = None THEN None ELSE db'[t].limit
      /\ \A b \in Bindings : history'[n].bindings[b] =
            IF db'[b] # None /\ db'[b].module # None THEN db'[b] ELSE None
  <2>1. /\ \A h \in Hooks : Visible(db').hooks[h] = db'[h]
        /\ \A t \in Tenants : Visible(db').tenants[t] = IF db'[t] = None THEN None ELSE db'[t].limit
        /\ \A b \in Bindings : Visible(db').bindings[b] =
             IF db'[b] # None /\ db'[b].module # None THEN db'[b] ELSE None
    BY <1>1, VisibleParts
  <2>2. history'[n] = Visible(db')
    BY <1>2
  <2>3. QED
    BY <2>1, <2>2
<1>9. VersionsNameContent'
  <2>1. ASSUME NEW v \in 1..n, NEW w \in 1..n, NEW h \in Hooks,
               history'[v].hooks[h] # None, history'[w].hooks[h] # None,
               history'[v].hooks[h].def = history'[w].hooks[h].def
        PROVE  history'[v].hooks[h] = history'[w].hooks[h]
    <3>1. CASE v \in 1..version /\ w \in 1..version
      <4>1. history'[v] = history[v] /\ history'[w] = history[w] /\ v \in Versions /\ w \in Versions
        BY <1>2, <3>1
      <4>2. VersionsNameContent
        BY <1>1 DEF HistoryInv
      <4>3. QED
        BY <2>1, <4>1, <4>2 DEF VersionsNameContent
    <3>2. CASE v = n \/ w = n
      BY <1>2, <1>3, <1>6, <1>8, <2>1, <3>2
    <3>3. QED
      BY <1>3, <3>1, <3>2
  <2>2. ASSUME NEW v \in 1..n, NEW w \in 1..n, NEW b \in Bindings,
               history'[v].bindings[b] # None, history'[w].bindings[b] # None,
               history'[v].bindings[b].cv = history'[w].bindings[b].cv
        PROVE  history'[v].bindings[b].config = history'[w].bindings[b].config
    <3>1. CASE v \in 1..version /\ w \in 1..version
      <4>1. history'[v] = history[v] /\ history'[w] = history[w] /\ v \in Versions /\ w \in Versions
        BY <1>2, <3>1
      <4>2. VersionsNameContent
        BY <1>1 DEF HistoryInv
      <4>3. QED
        BY <2>2, <4>1, <4>2 DEF VersionsNameContent
    <3>2. CASE v = n \/ w = n
      BY <1>2, <1>3, <1>7, <1>8, <2>2, <3>2
    <3>3. QED
      BY <1>3, <3>1, <3>2
  <2>3. QED
    BY <1>2, <2>1, <2>2 DEF VersionsNameContent
<1>10. CapsOnlyGrow'
  <2>1. ASSUME NEW v \in 1..n, NEW w \in 1..n, NEW h \in Hooks, v <= w,
               history'[v].hooks[h] # None
        PROVE  /\ history'[w].hooks[h] # None
               /\ history'[v].hooks[h].caps \subseteq history'[w].hooks[h].caps
    <3>1. CASE w \in 1..version
      <4>1. v \in 1..version
        BY <1>1, <2>1, <3>1
      <4>2. history'[v] = history[v] /\ history'[w] = history[w] /\ v \in Versions /\ w \in Versions
        BY <1>2, <3>1, <4>1
      <4>3. CapsOnlyGrow
        BY <1>1 DEF HistoryInv
      <4>4. QED
        BY <2>1, <4>2, <4>3 DEF CapsOnlyGrow
    <3>2. CASE w = n
      BY <1>2, <1>3, <1>6, <1>8, <2>1, <3>2
    <3>3. QED
      BY <1>3, <3>1, <3>2
  <2>2. QED
    BY <1>2, <2>1 DEF CapsOnlyGrow
<1>11. SnapshotsAreComplete'
  <2>1. ASSUME NEW v \in 1..n, NEW b \in Bindings, history'[v].bindings[b] # None
        PROVE  /\ history'[v].tenants[b[1]] # None
               /\ history'[v].hooks[b[2]] # None
               /\ history'[v].bindings[b].module \in validated'
               /\ Owner[history'[v].bindings[b].module] = b
    <3>1. CASE v \in 1..version
      <4>1. history'[v] = history[v] /\ v \in Versions /\ validated' = validated
        BY <1>1, <1>2, <3>1
      <4>2. SnapshotsAreComplete
        BY <1>1 DEF HistoryInv
      <4>3. QED
        BY <2>1, <4>1, <4>2 DEF SnapshotsAreComplete
    <3>2. CASE v = n
      <4>1. /\ db'[b] # None /\ db'[b].module # None /\ history'[v].bindings[b] = db'[b]
            /\ b[1] \in Tenants /\ b[2] \in Hooks /\ b[1] \in Rows
        BY <1>8, <2>1, <3>2, RowsApart
      <4>2. Backed(b, db[b].module)'
        BY <1>1, <4>1 DEF DbInv, Exists
      <4>3. /\ db'[b[1]] # None /\ db'[b[2]] # None
            /\ Owner[db'[b].module] = b /\ db'[b].module \in validated'
        BY <4>1, <4>2 DEF Backed, Exists, CanActivate
      <4>4. db'[b[1]] \in TenantRows
        BY <1>1, <4>1, <4>3, ValueOf
      <4>5. db'[b[1]].limit # None
        BY <4>4, RowsAssumption DEF TenantRows
      <4>6. QED
        BY <1>8, <3>2, <4>1, <4>3, <4>5
    <3>3. QED
      BY <1>3, <3>1, <3>2
  <2>2. QED
    BY <1>2, <2>1 DEF SnapshotsAreComplete
<1>12. HistoryInv'
  BY <1>1, <1>2, <1>3, <1>4, <1>5, <1>9, <1>10, <1>11 DEF HistoryInv
<1>13. QED
  BY <1>1, <1>12 DEF WritesInv

-----------------------------------------------------------------------------

\* Every step keeps the invariant.
LEMMA WritesStep == WritesInv /\ [Next]_vars => WritesInv'
<1> SUFFICES ASSUME WritesInv, [Next]_vars PROVE WritesInv'
  OBVIOUS
<1>1. ASSUME NEW c \in Clients, Request(c) PROVE WritesInv'
  <2>1. ASSUME NEW h \in Hooks, NEW hs \in HookSpecs, CreateHook(c, h, hs) PROVE WritesInv'
    <3>1. Definition(1, hs) \in HookRows
      BY DEF Definition, HookRows, HookSpecs
    <3>2. Begin(c, "insert", h, Definition(1, hs))
      BY <2>1 DEF CreateHook
    <3>3. Definition(1, hs) \in Value(h) /\ Definition(1, hs) \in Values
      BY <3>1, ValueOf DEF Values
    <3>4. QED
      BY <3>2, <3>3, RowsApart, BeginKeeps
  <2>2. ASSUME NEW h \in Hooks, NEW hs \in HookSpecs, ReplaceHook(c, h, hs) PROVE WritesInv'
    BY <2>2, RowsApart, BeginKeeps DEF ReplaceHook
  <2>3. ASSUME NEW t \in Tenants, NEW row \in TenantRows, CreateTenant(c, t, row) PROVE WritesInv'
    BY <2>3, RowsApart, ValueOf, BeginKeeps DEF CreateTenant, Values
  <2>4. ASSUME NEW t \in Tenants, NEW req \in TenantPatches, PatchTenant(c, t, req) PROVE WritesInv'
    BY <2>4, RowsApart, BeginKeeps DEF PatchTenant
  <2>5. ASSUME NEW k \in Keys, CreateKey(c, k) PROVE WritesInv'
    BY <2>5, RowsApart, ValueOf, BeginKeeps DEF CreateKey, Values
  <2>6. ASSUME NEW k \in Keys, RevokeKey(c, k) PROVE WritesInv'
    BY <2>6, RowsApart, BeginKeeps DEF RevokeKey
  <2>7. ASSUME NEW b \in Bindings, NEW m \in Modules \cup {None}, NEW cfg \in Configs \cup {None},
               UpdateBinding(c, b, m, cfg)
        PROVE  WritesInv'
    <3>1. [module |-> m, config |-> cfg] \in BindingArgs
      BY DEF BindingArgs
    <3>2. Begin(c, "check", b, [module |-> m, config |-> cfg])
      BY <2>7 DEF UpdateBinding
    <3>3. QED
      BY <3>1, <3>2, RowsApart, BeginKeeps
  <2>8. QED
    BY <1>1, <2>1, <2>2, <2>3, <2>4, <2>5, <2>6, <2>7 DEF Request
<1>2. ASSUME NEW c \in Clients, Statement(c) \/ Abort(c) PROVE WritesInv'
  <2>1. CASE SelectNothing(c) \/ Abort(c)
    BY <2>1, EndKeeps DEF SelectNothing, Abort
  <2>2. QED
    BY <1>2, <2>1, InsertKeeps, LockHookKeeps, LockTenantKeeps, LockKeyKeeps, CheckBindingKeeps,
       BindingKeeps, LockParentsKeeps, BumpKeeps, CommitKeeps, QuietKeeps DEF Statement
<1>3. ASSUME NEW m \in Modules, Validate(m) PROVE WritesInv'
  BY <1>3, ValidateKeeps
<1>4. CASE UNCHANGED vars
  <2>1. UNCHANGED <<db, validated, version, history, locked, tx>>
    BY <1>4 DEF vars, tables, locks
  <2>2. TxInv'
    BY <2>1 DEF WritesInv, TxInv, Holding, Succeeds, Backed, Exists, CanActivate
  <2>3. DbInv' /\ HistoryInv'
    BY <2>1 DEF WritesInv, DbInv, Backed, CanActivate, HistoryInv, Versions, VersionNamesTables, PastHooks,
       PastBindings, Exists, VersionsNameContent, CapsOnlyGrow, SnapshotsAreComplete
  <2>4. QED
    BY <2>2, <2>3 DEF WritesInv
<1>5. QED
  BY <1>1, <1>2, <1>3, <1>4 DEF Next

\* Empty tables satisfy it.
LEMMA WritesBegin == Init => WritesInv
<1> SUFFICES ASSUME Init PROVE WritesInv
  OBVIOUS
<1>1. /\ db = [r \in Rows |-> None] /\ validated = {} /\ version = 1
      /\ history = [v \in {1} |-> Visible(db)] /\ Versions = {1}
      /\ locked = [r \in LockRows |-> None] /\ tx = [c \in Clients |-> Idle]
  BY DEF Init, Versions
<1>2. db \in [Rows -> Values \cup {None}] /\ \A r \in Rows : db[r] = None
  BY <1>1
<1>3. DbInv
  BY <1>2, RowsApart DEF DbInv, Exists
<1>4. Idle \in Transactions /\ Idle.at = "none"
  BY DEF Idle, Transactions
<1>5. TxInv
  BY <1>1, <1>4 DEF TxInv, Holding
<1>6. /\ Visible(db) \in Contents /\ history[1] = Visible(db) /\ history \in [{1} -> Contents]
      /\ \A h \in Hooks : history[1].hooks[h] = None
      /\ \A b \in Bindings : history[1].bindings[b] = None
  <2>1. /\ Visible(db) \in Contents
        /\ \A h \in Hooks : Visible(db).hooks[h] = db[h]
        /\ \A b \in Bindings : Visible(db).bindings[b] =
             IF db[b] # None /\ db[b].module # None THEN db[b] ELSE None
    BY <1>2, VisibleParts
  <2>2. QED
    BY <1>1, <1>2, <2>1, RowsApart
<1>7. HistoryInv
  BY <1>1, <1>6 DEF HistoryInv, VersionNamesTables, PastHooks, PastBindings, VersionsNameContent,
     CapsOnlyGrow, SnapshotsAreComplete
<1>8. QED
  BY <1>3, <1>5, <1>7 DEF WritesInv

\* The invariant holds throughout.
LEMMA WritesInvariant == Spec => []WritesInv
  BY WritesBegin, WritesStep, PTL DEF Spec

\* No change to the tables is ever without a version of its own, whatever runs
\* beside it and whichever transactions abort.
THEOREM LatestVersionNamesTables == Spec => []VersionNamesTables
<1>1. WritesInv => VersionNamesTables
  BY DEF WritesInv, HistoryInv
<1>2. QED
  BY <1>1, WritesInvariant, PTL

\* def_version and config_version identify what they count, over all versions ever
\* committed: the data plane may key its pools and caches by them.
THEOREM CountersNameContent == Spec => []VersionsNameContent
<1>1. WritesInv => VersionsNameContent
  BY DEF WritesInv, HistoryInv
<1>2. QED
  BY <1>1, WritesInvariant, PTL

\* No allowed list ever shrinks from one version to a later one, however
\* replacements of the hook interleave.
THEOREM AllowedListsOnlyGrow == Spec => []CapsOnlyGrow
<1>1. WritesInv => CapsOnlyGrow
  BY DEF WritesInv, HistoryInv
<1>2. QED
  BY <1>1, WritesInvariant, PTL

\* Every version shows bindings with their tenant, their hook and a validated
\* module of their own, although these are checked without locks.
THEOREM EveryVersionIsComplete == Spec => []SnapshotsAreComplete
<1>1. WritesInv => SnapshotsAreComplete
  BY DEF WritesInv, HistoryInv
<1>2. QED
  BY <1>1, WritesInvariant, PTL

-----------------------------------------------------------------------------
(* The refinement.                                                         *)

\* A step leaves the published configuration alone, or commits the next version.
LEMMA VersionsStep == WritesInv /\ [Next]_vars => [Config!ConfigNext]_(Config!configVars)
<1> SUFFICES ASSUME WritesInv, [Next]_vars, ~UNCHANGED <<version, history>>
             PROVE  Config!ConfigNext
  BY DEF Config!configVars
<1>1. PICK c \in Clients : Commit(c)
  <2>1. ASSUME NEW c \in Clients, Request(c) \/ Abort(c) \/ Statement(c), ~Commit(c)
        PROVE  UNCHANGED <<version, history>>
    <3>1. CASE Request(c)
      BY <3>1 DEF Request, Begin, CreateHook, CreateTenant, CreateKey, ReplaceHook, PatchTenant,
         RevokeKey, UpdateBinding, tables
    <3>2. CASE End(c) \/ Abort(c) \/ SelectNothing(c) \/ CheckBinding(c) \/ LockParents(c) \/ Bump(c) \/ CommitQuietly(c)
      BY <3>2 DEF End, Abort, SelectNothing, CheckBinding, LockParents, Bump, CommitQuietly, tables
    <3>3. CASE InsertRow(c) \/ LockHook(c) \/ LockTenant(c) \/ LockKey(c) \/ EnsureInserts(c) \/ LockBinding(c)
      BY <3>3 DEF InsertRow, LockHook, LockTenant, LockKey, EnsureInserts, LockBinding, Stage, End, tables
    <3>4. QED
      BY <2>1, <3>1, <3>2, <3>3 DEF Statement
  <2>2. QED
    BY <2>1 DEF Next, vars, tables, Validate
<1>2. /\ version' = version + 1 /\ version < MaxVersion /\ version \in Nat \ {0}
      /\ history' = [v \in 1..version + 1 |-> IF v = version + 1 THEN Visible(db') ELSE history[v]]
      /\ Visible(db') \in Contents /\ history \in [1..version -> Contents]
  BY <1>1, CommitShows DEF WritesInv, HistoryInv, Versions
<1>3. /\ history' \in [1..version + 1 -> Contents]
      /\ \A v \in 1..version : history'[v] = history[v]
  BY <1>2
<1>4. QED
  BY <1>2, <1>3 DEF Config!ConfigNext

\* To its readers the database is a counter of versions that name their content
\* for good: what the delivery of snapshots is proved from.
THEOREM WritesImplementConfig == Spec => ImplementsConfig
<1>1. Init => Config!ConfigInit
  <2> SUFFICES ASSUME Init PROVE Config!ConfigInit
    OBVIOUS
  <2>1. version = 1 /\ history \in [1..version -> Contents]
    BY WritesBegin DEF Init, WritesInv, HistoryInv, Versions
  <2>2. history \in [{1} -> Contents]
    BY <2>1
  <2>3. QED
    BY <2>1, <2>2 DEF Config!ConfigInit
<1>2. QED
  BY <1>1, VersionsStep, WritesInvariant, PTL DEF Spec, ImplementsConfig, Config!ConfigSpec

-----------------------------------------------------------------------------
(* The order of the locks.                                                 *)

\* Who holds what: nothing before its row is locked, the version's row only last.
LocksInv ==
    /\ shared \in [LockRows -> SUBSET Clients]
    /\ \A c \in Clients : tx[c].at = "parents" => tx[c].row \in Bindings
    /\ \A c \in Clients, r \in LockRows :
        /\ locked[r] = c =>
            \/ r = tx[c].row /\ tx[c].at \in {"parents", "bump", "commit", "quiet"}
            \/ r = ConfigState /\ tx[c].at = "commit"
        /\ c \in shared[r] => r # ConfigState /\ tx[c].at \in {"bump", "commit"}

\* A step of one transaction takes locks from nobody else, and its own are as they
\* should be.
LEMMA LocksOf ==
    ASSUME WritesInv, LocksInv, NEW c \in Clients, NEW t,
           tx' = [tx EXCEPT ![c] = t],
           shared' \in [LockRows -> SUBSET Clients],
           \A r \in LockRows : locked'[r] \in {locked[r], None, c} /\ shared'[r] \subseteq shared[r] \cup {c},
           t.at = "parents" => t.row \in Bindings,
           \A r \in LockRows :
               /\ locked'[r] = c => \/ r = t.row /\ t.at \in {"parents", "bump", "commit", "quiet"}
                                    \/ r = ConfigState /\ t.at = "commit"
               /\ c \in shared'[r] => r # ConfigState /\ t.at \in {"bump", "commit"}
    PROVE  LocksInv'
<1>1. tx'[c] = t /\ \A d \in Clients : d # c => tx'[d] = tx[d]
  BY DEF WritesInv, TxInv
<1>2. ASSUME NEW d \in Clients PROVE tx'[d].at = "parents" => tx'[d].row \in Bindings
  BY <1>1 DEF LocksInv
<1>3. ASSUME NEW d \in Clients, NEW r \in LockRows, d # c
      PROVE  (locked'[r] = d => locked[r] = d) /\ (d \in shared'[r] => d \in shared[r])
  <2>1. d # None
    BY RowsAssumption
  <2>2. QED
    BY <1>3, <2>1
<1>4. ASSUME NEW d \in Clients, NEW r \in LockRows
      PROVE  /\ locked'[r] = d =>
                 \/ r = tx'[d].row /\ tx'[d].at \in {"parents", "bump", "commit", "quiet"}
                 \/ r = ConfigState /\ tx'[d].at = "commit"
             /\ d \in shared'[r] => r # ConfigState /\ tx'[d].at \in {"bump", "commit"}
  <2>1. CASE d = c
    BY <1>1, <2>1
  <2>2. CASE d # c
    BY <1>1, <1>3, <2>2 DEF LocksInv
  <2>3. QED
    BY <2>1, <2>2
<1>5. QED
  BY <1>2, <1>4 DEF LocksInv

\* A transaction that waits for its row holds nothing.
LEMMA HoldsNothing ==
    ASSUME LocksInv, NEW c \in Clients, tx[c].at \in {"none", "insert", "select", "check", "ensure"},
           NEW r \in LockRows
    PROVE  locked[r] # c /\ c \notin shared[r]
  BY DEF LocksInv

\* A transaction begins with no lock.
LEMMA BeginLocks ==
    ASSUME WritesInv, LocksInv, NEW c \in Clients, NEW at \in {"insert", "select", "check"}, NEW r, NEW arg,
           Begin(c, at, r, arg)
    PROVE  LocksInv'
<1> DEFINE t == [Idle EXCEPT !.at = at, !.row = r, !.arg = arg]
<1>1. t.at = at /\ tx' = [tx EXCEPT ![c] = t] /\ UNCHANGED <<locked, shared>>
  BY DEF Begin, Idle, locks
<1>2. tx[c].at = "none"
  BY DEF Begin
<1> HIDE DEF t
<1>3. QED
  BY <1>1, <1>2, HoldsNothing, LocksOf DEF LocksInv

\* The end of a transaction leaves it nothing.
LEMMA ReleaseLocks ==
    ASSUME WritesInv, LocksInv, NEW c \in Clients, Release(c), tx' = [tx EXCEPT ![c] = Idle]
    PROVE  LocksInv'
<1>1. c # None
  BY RowsAssumption
<1>2. /\ shared' \in [LockRows -> SUBSET Clients]
      /\ \A r \in LockRows : /\ locked'[r] \in {locked[r], None} /\ locked'[r] # c
                             /\ shared'[r] = shared[r] \ {c}
  BY <1>1 DEF Release, LocksInv
<1>3. Idle.at = "none"
  BY DEF Idle
<1>4. QED
  BY <1>2, <1>3, LocksOf

\* The row is locked first, by a transaction that holds nothing else.
LEMMA StageLocks ==
    ASSUME WritesInv, LocksInv, NEW c \in Clients, tx[c].at \in {"insert", "select", "ensure"},
           NEW new, NEW next \in {"parents", "bump", "quiet"}, next = "parents" => tx[c].row \in Bindings,
           Lock(c, tx[c].row), Stage(c, new, next)
    PROVE  LocksInv'
<1> DEFINE t == [tx[c] EXCEPT !.new = new, !.at = next]
<1>1. tx[c] \in Transactions
  BY DEF WritesInv, TxInv
<1>2. t.at = next /\ t.row = tx[c].row
  BY <1>1 DEF Transactions
<1>3. tx' = [tx EXCEPT ![c] = t] /\ UNCHANGED shared
  BY DEF Stage, Lock
<1> HIDE DEF t
<1>4. \A r \in LockRows : locked'[r] = IF r = tx[c].row THEN c ELSE locked[r]
  BY DEF Lock, WritesInv, TxInv
<1>5. \A r \in LockRows : locked[r] # c /\ c \notin shared[r]
  BY HoldsNothing
<1>6. shared' \in [LockRows -> SUBSET Clients] /\ (t.at = "parents" => t.row \in Bindings)
  BY <1>2, <1>3 DEF LocksInv
<1>7. ASSUME NEW r \in LockRows
      PROVE  /\ locked'[r] \in {locked[r], None, c} /\ shared'[r] \subseteq shared[r] \cup {c}
             /\ locked'[r] = c => r = t.row
             /\ c \notin shared'[r]
  BY <1>2, <1>3, <1>4, <1>5
<1>8. t.at \in {"parents", "bump", "quiet"}
  BY <1>2
<1>9. QED
  BY <1>3, <1>6, <1>7, <1>8, LocksOf

\* The statements of one transaction, in order.
LEMMA StatementLocks ==
    ASSUME WritesInv, LocksInv, NEW c \in Clients, Statement(c) \/ Abort(c)
    PROVE  LocksInv'
<1>1. CASE End(c)
  BY <1>1, ReleaseLocks DEF End
<1>2. CASE Commit(c) \/ CommitQuietly(c)
  BY <1>2, ReleaseLocks DEF Commit, CommitQuietly
<1>3. CASE InsertRow(c) /\ ~End(c)
  BY <1>3, StageLocks DEF InsertRow
<1>4. CASE (LockHook(c) \/ LockTenant(c) \/ LockKey(c)) /\ ~End(c)
  <2>1. tx[c].at = "select" /\ Lock(c, tx[c].row)
    BY <1>4 DEF LockHook, LockTenant, LockKey
  <2>2. \E new : \E next \in {"bump", "quiet"} : Stage(c, new, next)
    BY <1>4 DEF LockHook, LockTenant, LockKey
  <2>3. QED
    BY <2>1, <2>2, StageLocks
<1>5. CASE (EnsureInserts(c) \/ LockBinding(c)) /\ ~End(c)
  <2>1. tx[c].at = "ensure" /\ Lock(c, tx[c].row)
    BY <1>5 DEF EnsureInserts, LockBinding
  <2>2. \E new : \E next \in {"parents", "bump"} : Stage(c, new, next)
    BY <1>5 DEF EnsureInserts, LockBinding
  <2>3. tx[c].row \in Bindings
    BY <2>1 DEF WritesInv, TxInv, Holding
  <2>4. QED
    BY <2>1, <2>2, <2>3, StageLocks
<1>6. CASE CheckBinding(c) /\ ~End(c)
  <2> DEFINE t == [tx[c] EXCEPT !.at = "ensure"]
  <2>1. t.at = "ensure" /\ tx' = [tx EXCEPT ![c] = t] /\ UNCHANGED <<locked, shared>> /\ tx[c].at = "check"
    BY <1>6, Onwards DEF CheckBinding, locks, WritesInv
  <2> HIDE DEF t
  <2>2. QED
    BY <2>1, HoldsNothing, LocksOf DEF LocksInv
<1>7. CASE LockParents(c)
  <2> DEFINE t == [tx[c] EXCEPT !.at = "bump"]
             parents == {tx[c].row[1], tx[c].row[2]}
  <2>1. t.at = "bump" /\ t.row = tx[c].row /\ tx' = [tx EXCEPT ![c] = t] /\ UNCHANGED locked
    BY <1>7, Onwards DEF LockParents, WritesInv
  <2>2. tx[c].at = "parents" /\ tx[c].row \in Bindings
    BY <1>7 DEF LockParents, LocksInv
  <2>3. ConfigState \notin parents
    BY <2>2, RowsApart
  <2>4. \A r \in LockRows : shared'[r] = IF r \in parents THEN shared[r] \cup {c} ELSE shared[r]
    BY <1>7 DEF LockParents
  <2>5. shared' \in [LockRows -> SUBSET Clients]
    BY <1>7 DEF LockParents, LocksInv
  <2> HIDE DEF t, parents
  <2>6. ASSUME NEW r \in LockRows
        PROVE  /\ locked'[r] = c => r = t.row
               /\ c \in shared'[r] => r # ConfigState
               /\ shared'[r] \subseteq shared[r] \cup {c}
    BY <2>1, <2>2, <2>3, <2>4 DEF LocksInv
  <2>7. QED
    BY <2>1, <2>5, <2>6, LocksOf
<1>8. CASE Bump(c)
  <2> DEFINE t == [tx[c] EXCEPT !.ver = version + 1, !.at = "commit"]
  <2>1. version + 1 \in Nat
    BY DEF WritesInv, HistoryInv
  <2>2. t.at = "commit" /\ t.row = tx[c].row /\ tx' = [tx EXCEPT ![c] = t] /\ tx[c].at = "bump"
    BY <1>8, <2>1, Versioned DEF Bump, WritesInv
  <2>3. UNCHANGED shared /\ \A r \in LockRows : locked'[r] = IF r = ConfigState THEN c ELSE locked[r]
    BY <1>8 DEF Bump, TakeVersion, Lock, WritesInv, TxInv
  <2> HIDE DEF t
  <2>4. shared' \in [LockRows -> SUBSET Clients]
    BY <2>3 DEF LocksInv
  <2>5. ASSUME NEW r \in LockRows
        PROVE  /\ locked'[r] \in {locked[r], None, c} /\ shared'[r] \subseteq shared[r] \cup {c}
               /\ locked'[r] = c => r = t.row \/ r = ConfigState
               /\ c \in shared'[r] => r # ConfigState
    BY <2>2, <2>3 DEF LocksInv
  <2>6. QED
    BY <2>2, <2>4, <2>5, LocksOf
<1>9. QED
  BY <1>1, <1>2, <1>3, <1>4, <1>5, <1>6, <1>7, <1>8 DEF Statement, Abort, SelectNothing

\* Every step keeps the order.
LEMMA LocksStep == WritesInv /\ LocksInv /\ [Next]_vars => LocksInv'
<1> SUFFICES ASSUME WritesInv, LocksInv, [Next]_vars PROVE LocksInv'
  OBVIOUS
<1>1. ASSUME NEW c \in Clients, Request(c) PROVE LocksInv'
  <2>1. \E at \in {"insert", "select", "check"} : \E r, arg : Begin(c, at, r, arg)
    BY <1>1 DEF Request, CreateHook, ReplaceHook, CreateTenant, PatchTenant, CreateKey, RevokeKey, UpdateBinding
  <2>2. QED
    BY <2>1, BeginLocks
<1>2. CASE UNCHANGED <<locks, tx>>
  BY <1>2 DEF locks, LocksInv
<1>3. ASSUME NEW m \in Modules, Validate(m) PROVE LocksInv'
  BY <1>2, <1>3 DEF Validate
<1>4. QED
  BY <1>1, <1>2, <1>3, StatementLocks DEF Next, vars

\* The order holds in every state, whatever the tables hold.
LEMMA LocksInvariant == Spec => [](WritesInv /\ LocksInv)
<1>1. Init => LocksInv
  <2> SUFFICES ASSUME Init PROVE LocksInv
    OBVIOUS
  <2>1. \A c \in Clients : tx[c].at = "none" /\ c # None
    BY RowsAssumption DEF Init, Idle
  <2>2. QED
    BY <2>1 DEF Init, LocksInv
<1>2. QED
  BY <1>1, WritesBegin, WritesStep, LocksStep, PTL DEF Spec

\* What the next statement of a transaction has to find free.
Wants(c) ==
    CASE tx[c].at \in {"insert", "select", "ensure"} -> {tx[c].row}
      [] tx[c].at = "parents" -> {tx[c].row[1], tx[c].row[2]}
      [] tx[c].at = "bump" -> {ConfigState}
      [] OTHER -> {}

\* PostgreSQL's waits-for relation: d holds what c wants, locked or, unless c only
\* wants a key-share lock itself, key-share locked.
WaitsFor(c, d) ==
    /\ c # d
    /\ \E r \in Wants(c) : locked[r] = d \/ (tx[c].at # "parents" /\ d \in shared[r])

\* How far a transaction has come.
Rank(c) ==
    CASE tx[c].at = "parents" -> 1
      [] tx[c].at = "bump" -> 2
      [] tx[c].at \in {"commit", "quiet"} -> 3
      [] OTHER -> 0

\* A transaction only ever waits for one that has come further, so no circle of them
\* can wait for one another: rows before the rows they refer to, config_state last
\* (version.py:17), the locks of the foreign keys included.
THEOREM WaitsGoForward ==
    Spec => [](\A c, d \in Clients : WaitsFor(c, d) => Rank(c) < Rank(d))
<1>1. WritesInv /\ LocksInv => \A c, d \in Clients : WaitsFor(c, d) => Rank(c) < Rank(d)
  <2> SUFFICES ASSUME WritesInv, LocksInv, NEW c \in Clients, NEW d \in Clients, WaitsFor(c, d)
               PROVE  Rank(c) < Rank(d)
    OBVIOUS
  <2>1. PICK r \in Wants(c) : locked[r] = d \/ (tx[c].at # "parents" /\ d \in shared[r])
    BY DEF WaitsFor
  <2>2. tx[c].at \in {"insert", "select", "ensure", "parents", "bump"}
    BY <2>1 DEF Wants
  <2>3. tx[c].at \in {"insert", "select", "ensure"} => r = tx[c].row /\ tx[c].row \in Rows
    BY <2>1, RowsApart DEF Wants, WritesInv, TxInv, Holding
  <2>4. tx[c].at = "parents" => r \in Hooks \cup Tenants /\ locked[r] = d
    BY <2>1, RowsApart DEF Wants, LocksInv
  <2>5. tx[c].at = "bump" => r = ConfigState
    BY <2>1 DEF Wants
  <2>6. r \in LockRows
    BY <2>2, <2>3, <2>4, <2>5, RowsApart
  <2>7. \/ r = tx[d].row /\ tx[d].at \in {"parents", "bump", "commit", "quiet"}
        \/ r = ConfigState /\ tx[d].at = "commit"
        \/ r # ConfigState /\ tx[d].at \in {"bump", "commit"} /\ tx[c].at # "parents"
    BY <2>1, <2>6 DEF LocksInv
  <2>8. tx[d].at = "parents" => tx[d].row \in Bindings
    BY DEF LocksInv
  <2>9. CASE tx[c].at \in {"insert", "select", "ensure"}
    BY <2>7, <2>9 DEF Rank
  <2>10. CASE tx[c].at = "parents"
    <3>1. tx[d].at \in {"bump", "commit", "quiet"}
      BY <2>4, <2>7, <2>8, <2>10, RowsApart
    <3>2. QED
      BY <2>10, <3>1 DEF Rank
  <2>11. CASE tx[c].at = "bump"
    <3>1. tx[d].row \in Rows \cup {None} /\ (tx[d].at \in {"parents", "bump", "commit", "quiet"} => tx[d].row \in Rows)
      BY DEF WritesInv, TxInv, Holding, Transactions
    <3>2. tx[d].at = "commit"
      BY <2>5, <2>7, <2>11, <3>1, RowsApart
    <3>3. QED
      BY <2>11, <3>2 DEF Rank
  <2>12. QED
    BY <2>2, <2>9, <2>10, <2>11
<1>2. QED
  BY <1>1, LocksInvariant, PTL

\* Whatever transactions are open, one of them waits for nobody and finds what its
\* next statement needs: the safety half of TransactionsEnd, for any number of them.
THEOREM OneGoesOn ==
    Spec => []((\E c \in Clients : tx[c].at # "none") =>
                 \E c \in Clients :
                    /\ tx[c].at # "none"
                    /\ tx[c].at \in {"insert", "select", "ensure"} => Free(c, tx[c].row)
                    /\ tx[c].at = "parents" => \A r \in {tx[c].row[1], tx[c].row[2]} : Unlocked(c, r)
                    /\ tx[c].at = "bump" => Free(c, ConfigState))
<1> DEFINE ready(c) ==
        /\ tx[c].at # "none"
        /\ tx[c].at \in {"insert", "select", "ensure"} => Free(c, tx[c].row)
        /\ tx[c].at = "parents" => \A r \in {tx[c].row[1], tx[c].row[2]} : Unlocked(c, r)
        /\ tx[c].at = "bump" => Free(c, ConfigState)
<1>1. WritesInv /\ LocksInv =>
        ((\E c \in Clients : tx[c].at # "none") => \E c \in Clients : ready(c))
  <2> SUFFICES ASSUME WritesInv, LocksInv, NEW c0 \in Clients, tx[c0].at # "none"
               PROVE  \E c \in Clients : ready(c)
    OBVIOUS
  <2>1. /\ \A c \in Clients : tx[c].at \in {"none", "insert", "select", "check", "ensure", "parents", "bump",
                                            "commit", "quiet"}
        /\ locked \in [LockRows -> Clients \cup {None}] /\ shared \in [LockRows -> SUBSET Clients]
    BY DEF WritesInv, TxInv, Transactions, LocksInv
  <2>2. CASE \E c \in Clients : tx[c].at \in {"commit", "quiet", "check"}
    BY <2>2
  <2>3. CASE (\E c \in Clients : tx[c].at = "bump") /\ ~\E c \in Clients : tx[c].at \in {"commit", "quiet"}
    <3>1. PICK c \in Clients : tx[c].at = "bump"
      BY <2>3
    <3>2. ASSUME NEW d \in Clients PROVE locked[ConfigState] # d
      <4>1. tx[d].at \in {"parents", "bump", "commit", "quiet"} => tx[d].row \in Rows
        BY DEF WritesInv, TxInv, Holding
      <4>2. QED
        BY <2>3, <4>1, RowsApart DEF LocksInv
    <3>3. shared[ConfigState] = {}
      BY <2>1, RowsApart DEF LocksInv
    <3>4. Free(c, ConfigState)
      BY <2>1, <3>2, <3>3, RowsApart DEF Free, Unlocked
    <3>5. QED
      BY <3>1, <3>4
  <2>4. CASE /\ \E c \in Clients : tx[c].at = "parents"
             /\ ~\E c \in Clients : tx[c].at \in {"bump", "commit", "quiet"}
    <3>1. PICK c \in Clients : tx[c].at = "parents"
      BY <2>4
    <3>2. tx[c].row[1] \in Tenants /\ tx[c].row[2] \in Hooks
      BY <3>1, RowsApart DEF LocksInv
    <3>3. ASSUME NEW r \in Hooks \cup Tenants, NEW d \in Clients PROVE locked[r] # d
      <4>1. r \in LockRows /\ r # ConfigState /\ r \notin Bindings
        BY RowsApart
      <4>2. QED
        BY <2>4, <4>1 DEF LocksInv
    <3>4. \A r \in {tx[c].row[1], tx[c].row[2]} : Unlocked(c, r)
      BY <2>1, <3>2, <3>3, RowsApart DEF Unlocked
    <3>5. QED
      BY <3>1, <3>4
  <2>5. CASE ~\E c \in Clients : tx[c].at \in {"check", "parents", "bump", "commit", "quiet"}
    <3>1. \A r \in LockRows : \A d \in Clients : locked[r] # d /\ d \notin shared[r]
      BY <2>5 DEF LocksInv
    <3>2. \A r \in LockRows : locked[r] = None /\ shared[r] = {}
      BY <2>1, <3>1
    <3>3. tx[c0].at \in {"insert", "select", "ensure"}
      BY <2>1, <2>5
    <3>4. tx[c0].row \in LockRows
      BY <3>3, RowsApart DEF WritesInv, TxInv, Holding
    <3>5. Free(c0, tx[c0].row)
      BY <3>2, <3>4 DEF Free, Unlocked
    <3>6. QED
      BY <3>3, <3>5
  <2>6. QED
    BY <2>2, <2>3, <2>4, <2>5
<1>2. QED
  BY <1>1, LocksInvariant, PTL
===============================================================================
