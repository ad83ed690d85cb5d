SPECIFICATION Spec
CONSTANTS
  Plans <- AllPlans
  Settings <- AllSettings
  Docker = FALSE
  FaultSets <- AnyFault
INVARIANTS GroupBarrier RowsFollowPlan OkRowHonest KeysRemoved DryRunTouchesNothing EventStory
PROPERTIES WorkflowEnds
