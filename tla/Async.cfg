SPECIFICATION Spec
CONSTANTS
  poll = poll
  http1 = http1
  http2 = http2
  Callers <- TwoCallers
  MaxWorkflows = 2
  MaxSteps = 2
  Outcomes <- OkOrFailed
  AllocFails = TRUE
INVARIANTS OneWorkflow JoinedOnce SnapshotCoherent AllOkHonest
PROPERTIES ViewAdvances ImplementsService SlotReleased
