SPECIFICATION TriggerSpec
CONSTANTS
  Configs <- Automatic
  Readings <- AllReadings
  ApiKinds <- RealOnly
  ClockSteps <- StepsBack
  ThreadsFail = TRUE
  MaxDisturbances = 2
  MaxRequests = 2
  MaxAge = 3
  NaN = NaN
PROPERTIES TriggerDebounced LastingConditionFires FiringShutsDown
