SPECIFICATION FairSpec
CONSTANTS
    home = home
    data = data
    photos = photos
    scratch = scratch
    ssd = ssd
    hdd = hdd
    NoRoot = NoRoot
    NoPool = NoPool
    Roots = {home, data, photos, scratch}
    Pools = {ssd, hdd}
    RootsOf <- MCRootsOf
    MaxGroups = 3
    MaxSends = 2
INVARIANTS
    TypeOK
    ReclaimDisjointFromExecutor
    TeardownReclaimsAlone
    AbortSurvivesReset
    EveryTripAnsweredAtExit
PROPERTIES
    AbortStopsTheSend
    RunEnds
