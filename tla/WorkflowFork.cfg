SPECIFICATION SafeSpec
CONSTANTS
  Plans <- AllPlans
  Settings <- AllSettings
  Docker = FALSE
  FaultSets <- ForkFails
INVARIANT OkRowsEarned
