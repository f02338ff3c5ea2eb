\* A tenant's binding to a hook is created, activated and reconfigured while the
\* hook and the tenant are created, replaced and patched, all of which lock one
\* another's rows.  No symmetry: the run checks liveness too.
CONSTANTS
    Clients = {c1, c2}
    Hooks = {h1}
    Tenants = {t1}
    Keys = {}
    Modules = {m1}
    Owner <- OneModule
    Caps = {x}
    Specs = {s1}
    Names = {n1}
    Limits = {1, 2}
    Configs = {e, f}
    NoConfig = e
    ConfigState = ConfigState
    MaxVersion = 5
    None = None
    t1 = t1
    h1 = h1
    m1 = m1
SPECIFICATION FairSpec
INVARIANTS
    VersionsNameContent
    SnapshotsAreComplete
PROPERTIES
    ImplementsConfig
    TransactionsEnd
