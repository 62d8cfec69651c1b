SPECIFICATION Spec
CONSTANTS
  Base <- GridSeries
  Arm <- ArmSeries
  PageBars = 2
  PollDepth = 2
  RefillDepth = 1
  RepairWindow = 4
  Punctual = TRUE
  MaxBar = 4
  MaxDrops = 0
  MaxChanges = 2
  MaxCrashes = 1
  MaxFailures = 1
  MaxEvents = 2
CHECK_DEADLOCK FALSE
INVARIANTS TypeOK HolesAreAwaited

