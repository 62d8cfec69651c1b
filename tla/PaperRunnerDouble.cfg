SPECIFICATION Spec
CONSTANTS
  Zones <- LoneZones
  Top <- LoneTop
  Bottom <- LoneBottom
  Stop <- LoneStop
  Lows <- LoneLows
  BarMinutes = 2
  LimitValidBars = 2
  HoldBars = 1
  CatchupMax = 2
  Grace = 1
  Verdicts = {"pending", "filled", "cancelled_condition_failed"}
  MinutesLag = FALSE
  MaxMinute = 6
  MaxNow = 7
  MaxRows = 3
  MaxCrashes = 1
  MaxFailures = 0
INVARIANT OneTradePerFill
