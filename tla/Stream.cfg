SPECIFICATION Spec
CONSTANTS
  Clients = {c1, c2}
  Emitters = {"slow", "worker"}
  SSE_MAX_SUBSCRIBERS = 1
  SSE_QUEUE_DEPTH = 1
  FrameLen = 2
  MaxFrames = 2
  MaxConnects = 2
INVARIANTS DestroyedUnused
PROPERTIES InOrder SlotsReturn StopEnds
CHECK_DEADLOCK FALSE
