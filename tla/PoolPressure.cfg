SPECIFICATION Spec
CONSTANTS
    media = media
    root = root
    cron = cron
    shell = shell
    Pools <- MCPools
    Cap <- MCCap
    Floor <- MCFloor
    Levels <- MCLevels
    Unreadable = {root}
    Keyed = {media, root}
    Runs = {cron, shell}
    Sentinel = Sentinel
    Nobody = Nobody
    NoPool = NoPool
    MaxStarts = 2
SYMMETRY RunSymmetry
INVARIANTS
    TypeOK
    OneActorOnThePools
    LowPoolIsWatched
PROPERTIES
    EjectOnFreshPressure
    LoweredTierStands
