SPECIFICATION TriggerSpec
CONSTANTS
  Configs <- TwoAutomatic
  Readings <- FewReadings
  ApiKinds <- BothKinds
  ClockSteps <- NoClockSteps
  ThreadsFail = FALSE
  MaxDisturbances = 0
  MaxRequests = 2
  MaxAge = 3
  NaN = NaN
PROPERTY FiringShutsDown
