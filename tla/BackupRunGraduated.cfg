SPECIFICATION Spec
CONSTANTS
    cron = cron
    shell = shell
    NoRun = NoRun
    NDrives = 1
    MaxSnap = 3
    Runs = {cron}
    Tiers = {"roomy"}
    Declared = "graduated"
    Autonomous = FALSE
    ShowMayFail = TRUE
    ListMayFail = TRUE
    PinsMayRot = TRUE
INVARIANT PinHasLocalParent
PROPERTY LastCopySurvives
