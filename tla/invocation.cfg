CONSTANTS
    Hashes = {m1, m2}
    Timeout = 2
    Deadlines = {1, 3}
    MaxVersion = 2
    MaxTime = 4
    None = None
SPECIFICATION Spec
INVARIANTS
    RunsWhatWasPinned
    BlameIsTrue
