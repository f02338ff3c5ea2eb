\* Two operators on a hook, with two capabilities to allow and two values of the
\* rest, a tenant patched in what the snapshot shows and in what it does not, and a
\* key created and revoked.
CONSTANTS
    Clients = {c1, c2}
    Hooks = {h1}
    Tenants = {t1}
    Keys = {k1}
    Modules = {}
    Owner <- NoOwners
    Caps = {x, y}
    Specs = {s1, s2}
    Names = {n1, n2}
    Limits = {1, 2}
    Configs = {e}
    NoConfig = e
    ConfigState = ConfigState
    MaxVersion = 4
    None = None
    t1 = t1
    h1 = h1
    m1 = m1
SYMMETRY Symmetry
SPECIFICATION Spec
INVARIANTS
    VersionNamesTables
    CapsOnlyGrow
