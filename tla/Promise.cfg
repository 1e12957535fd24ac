SPECIFICATION Spec
CONSTANTS
    near = near
    far = far
    Drives = {near, far}
    Offsite = {far}
    Test = {}
    Tiers = {"roomy", "tight", "critical"}
    Lifecycles = {"graduated"}
    Fortified = TRUE
    SnapInterval = 20
    SendInterval = 40
    WeeklyFloor = 60
    Rotation = 60
    GraceCap = 2
    MaxRun = 19
    TimerMax = 38
    Waits = {19}
    SetBacks = {19}
    Gaps = {19}
    Cap = 133
    MaxSkew = 19
    MaxMishaps = 1
INVARIANTS
    TypeOK
    ProtectedBoundsLoss
    TimelyRunsKeepProtected
    AlarmMeansDue
