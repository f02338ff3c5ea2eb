CONSTANTS
    Hashes = {m1}
    Timeout = 2
    Deadlines = {1, 3}
    MaxVersion = 2
    MaxTime = 4
    None = None
SPECIFICATION Spec
INVARIANT DisconnectIsUnavailable
