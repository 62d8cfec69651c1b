SPECIFICATION FairSpec
CONSTANTS
  Assets <- MCAssets
  Funded = {"btc"}
  Quantities <- MCQuantities
  LastDay = 2
  MaxFaults = 2
INVARIANTS TypeOK WalletIsLedger DaysAreSettledOnce FundingIsChargedOnce SettlementsReachTheCurve
PROPERTY EveryDayIsSettled
CHECK_DEADLOCK FALSE
