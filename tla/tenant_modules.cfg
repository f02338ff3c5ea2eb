SPECIFICATION MCSpec
CONSTANTS
    m1 = m1
    m2 = m2
    bad = bad
    u1 = u1
    None = None
    Unloaded = Unloaded
    Modules <- MCModules
    Stored <- MCStored
    Broken <- MCBroken
    Uploads <- MCUploads
    MaxPosts = 2
    MaxEvents = 2
INVARIANTS
    OfferedIsAccepted
PROPERTIES
    UploadedIsShown
    PendingGetsVerdict
CHECK_DEADLOCK FALSE
