CONSTANTS
    Calls = {c1}
    Preloads = {p1}
    Checks = {v1, v2}
    Keys = {k1}
    Mods = {m1, m2, m3}
    ValidateConcurrency = 1
    None = None
SPECIFICATION FairSpec
INVARIANTS
    ModulesAccounted
    CompiledOnce
PROPERTIES
    ShutdownEnds
CHECK_DEADLOCK FALSE
