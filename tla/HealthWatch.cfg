SPECIFICATION FairSpec
CONSTANTS
  Base = {b1}
  Others = {o1}
  RestartKey = restart
  Cooldown = 2
  RestartCooldown = 2
  Day = 5
  MaxPerDay = 2
  MaxFailures = 1
  MaxLapses = 1
INVARIANTS TypeOK PhoneIsRecorded RestartsAreCapped
PROPERTIES ImplementsAlertChannel StandingIsFresh StandingIsTold OverIsClosed OutageIsAnswered
