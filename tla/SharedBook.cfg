SPECIFICATION Spec
CONSTANTS
  NumCells = 2
  Zones = {1}
  BarMinutes = 2
  WeekMinutes = 3
  HoldBars = 1
  CatchupMax = 3
  CrowdWindow = 2
  SkipLow = 1
  SkipHigh = 1
  TradeCap = 2
  BookCap = 3
  Wants = {2}
  Results <- LossOrGain
  Stake = 1
  LastMinute = 4
  MaxCrashes = 1
INVARIANTS TypeOK EntriesAreListed OpenCellsAreWatched CrowdIsComplete
PROPERTIES NotionalIsCapped
