SPECIFICATION ValidationSpec
CONSTANTS
    m1 = m1
    m2 = m2
    u1 = u1
    u2 = u2
    None = None
    Modules <- MCModules
    Uploads <- MCUploads
INVARIANTS
    NoModuleForgotten
PROPERTIES
    KeepsPromise
CHECK_DEADLOCK FALSE
