SPECIFICATION Spec
CONSTANTS
    cron = cron
    shell = shell
    NoRun = NoRun
    NDrives = 2
    MaxSnap = 2
    Runs = {cron}
    Tiers = {"roomy", "tight", "critical"}
    Declared = "graduated"
    Autonomous = TRUE
    ShowMayFail = FALSE
    ListMayFail = FALSE
    PinsMayRot = FALSE
INVARIANT PinHasLocalParent
PROPERTY CleanupAfterEverySend
