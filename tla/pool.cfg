\* Two calls on two keys compete for one slot of the process, with one instance
\* more than they can hold, while the reaper runs and the pool is closed.
CONSTANTS
    Clients = {c1, c2}
    Keys = {k1, k2}
    Insts = {i1, i2, i3}
    Limits = {1}
    GlobalMax = 1
    MaxUses = 2
    IdleTTL = 0
    MaxTime = 1
    None = None
SPECIFICATION FairWithReaper
INVARIANTS
    Accounting
    OnePlace
    NoLostWakeup
    NoAbandonedEntry
PROPERTIES
    ImplementsService
    DrainsAfterClose
    WaitsEnd
    IdleExpires
