SPECIFICATION Spec
CONSTANTS
    home = home
    data = data
    photos = photos
    scratch = scratch
    ssd = ssd
    hdd = hdd
    NoRoot = NoRoot
    NoPool = NoPool
    Roots = {home, data, photos, scratch}
    Pools = {ssd, hdd}
    RootsOf <- MCRootsOf
    MaxGroups = 2
    MaxSends = 1
PROPERTIES
    AbortStaysInItsPool
