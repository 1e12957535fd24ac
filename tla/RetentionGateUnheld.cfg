SPECIFICATION Spec
CONSTANTS
  Horizon = 5
  Slot <- HourSlots
  Ticks <- Hours
  Unlimited = Unlimited
  Transient = Transient
  Policies <- UnheldPolicies
  Others <- TwoOthers
  Starts <- UnheldStarts
  Menu <- UnheldMenu
  Interval = 1
  Grace = 0
  NoRow = NoRow
  MaxEdits = 2
  MaxSetBacks = 0
  MaxFaults = 0
  Pinning = FALSE
INVARIANTS
  AppliedPolicyIsKept
CHECK_DEADLOCK FALSE
