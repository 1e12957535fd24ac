SPECIFICATION Spec
CONSTANTS
    cron = cron
    shell = shell
    NoRun = NoRun
    NDrives = 1
    MaxSnap = 2
    Runs = {cron, shell}
    Tiers = {"tight"}
    Declared = "graduated"
    Autonomous = FALSE
    ShowMayFail = FALSE
    ListMayFail = FALSE
    PinsMayRot = FALSE
SYMMETRY RunSymmetry
INVARIANTS
    TypeOK
    PinNamesCompleteCopy
PROPERTIES
    PinnedSnapshotNotDeleted
    DestinationDeleteNeedsProof
