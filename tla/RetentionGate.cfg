SPECIFICATION Spec
CONSTANTS
  Horizon = 4
  Slot <- HourSlots
  Ticks <- Hours
  Unlimited = Unlimited
  Transient = Transient
  Policies <- GatePolicies
  Others <- TwoOthers
  Starts <- GateStarts
  Menu <- GateMenu
  Interval = 1
  Grace = 0
  NoRow = NoRow
  MaxEdits = 1
  MaxSetBacks = 1
  MaxFaults = 1
  Pinning = TRUE
INVARIANTS
  TypeOK
  HistoryIsCovered
  ConfirmationSettles
CHECK_DEADLOCK FALSE
