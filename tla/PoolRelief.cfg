SPECIFICATION FairSpec
CONSTANTS
    media = media
    root = root
    cron = cron
    shell = shell
    Pools <- MCPools
    Cap <- MCCap
    Floor <- MCFloor
    Levels <- FewLevels
    Unreadable = {root}
    Keyed = {media, root}
    Runs = {cron}
    Sentinel = Sentinel
    Nobody = Nobody
    NoPool = NoPool
    MaxStarts = 2
PROPERTY StarvedPoolIsRelieved
