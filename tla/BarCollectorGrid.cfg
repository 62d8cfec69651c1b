SPECIFICATION FairSpec
CONSTANTS
  Base <- GridSeries
  Arm <- NoSeries
  PageBars = 1
  PollDepth = 2
  RefillDepth = 1
  RepairWindow = 4
  Punctual = TRUE
  MaxBar = 5
  MaxDrops = 2
  MaxChanges = 0
  MaxCrashes = 1
  MaxFailures = 1
  MaxEvents = 4
CHECK_DEADLOCK FALSE
PROPERTIES PollerLeavesNoHole EveryBarIsStored
