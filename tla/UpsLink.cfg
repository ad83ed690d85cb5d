SPECIFICATION Spec
CONSTANTS
  Devices <- SerialAndUsb
  Params <- SerialAndApc
  Threads = {poll, web}
  Poller = poll
  NoDevice = NoDevice
  NoList = NoList
  MAX_CONSECUTIVE_ERRORS = 2
  RECONNECT_INTERVAL_SEC = 2
  MaxPlugs = 1
  MaxStepBacks = 1
INVARIANTS OneHandle LinkHonest
PROPERTIES AttemptsSpaced LinkRecovers
