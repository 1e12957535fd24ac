SPECIFICATION Spec
CONSTANTS
    home = home
    photos = photos
    disk1 = disk1
    disk2 = disk2
    Subvols = {home, photos}
    Drives = {disk1, disk2}
    MaxSnap = 2
    MaxRotten = 1
SYMMETRY PoolSymmetry
INVARIANTS
    TypeOK
    PinsHold
    BlanketFreesAllChained
PROPERTIES
    ImplementsChainStore
    TierOneSparesConnected
