SPECIFICATION Spec
CONSTANTS
  NumCells = 2
  Zones = {1}
  BarMinutes = 4
  WeekMinutes = 3
  HoldBars = 1
  CatchupMax = 1
  CrowdWindow = 2
  SkipLow = 1
  SkipHigh = 1
  TradeCap = 2
  BookCap = 3
  Wants = {2}
  Results <- LossOrGain
  Stake = 1
  LastMinute = 4
  MaxCrashes = 1
INVARIANTS MinutesAreJudgedOnce
