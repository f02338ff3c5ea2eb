SPECIFICATION FairSpec
CONSTANTS
    c1 = c1
    c2 = c2
    bad = bad
    x = x
    v1 = v1
    v2 = v2
    n1 = n1
    n2 = n2
    p0 = p0
    p1 = p1
    None = None
    Contents <- MCContents
    BadContents <- MCBadContents
    Caps <- MCCaps
    Fields <- MCFields
    Vals <- MCVals
    Names <- MCNames
    Configs <- MCConfigs
    NoParams = p0
    MaxElsewhere = 1
    MaxSaves = 2
    MaxFaults = 2
INVARIANTS
    KnownCapsAreKept
PROPERTIES
    UnchangedIsTrue
    EditsSurvive
    ClosedMeansListed
    IssuedTokenIsShown
CHECK_DEADLOCK FALSE
