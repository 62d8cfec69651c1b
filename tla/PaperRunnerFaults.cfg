SPECIFICATION FairSpec
CONSTANTS
  Zones <- LoneZones
  Top <- LoneTop
  Bottom <- LoneBottom
  Stop <- LoneStop
  Lows <- LoneLows
  BarMinutes = 2
  LimitValidBars = 1
  HoldBars = 1
  CatchupMax = 3
  Grace = 0
  Verdicts = {"pending", "filled"}
  MinutesLag = FALSE
  MaxMinute = 4
  MaxNow = 6
  MaxRows = 3
  MaxCrashes = 1
  MaxFailures = 1
INVARIANTS PendingRowsAreTracked StoreIsCurrent
PROPERTIES OrdersAreResolved PositionsAreClosed
