SPECIFICATION Spec
CONSTANTS
  Zones <- PairZones
  Top <- PairTop
  Bottom <- PairBottom
  Stop <- PairStop
  Lows <- CrashLows
  BarMinutes = 2
  LimitValidBars = 2
  HoldBars = 2
  CatchupMax = 4
  Grace = 1
  Verdicts = {"pending", "filled", "cancelled_condition_failed"}
  MinutesLag = FALSE
  MaxMinute = 5
  MaxNow = 6
  MaxRows = 3
  MaxCrashes = 0
  MaxFailures = 0
PROPERTY KeyNamesATrade
