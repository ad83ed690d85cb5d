SPECIFICATION Spec
CONSTANTS
  BYTE = 3
  REPORT_BYTES = 8
  HID_MAX_PATH = 4
  HID_MAX_FIELDS = 8
  UsageQueue = 4
  Ids = {0, 1, 2, 3, 4}
  Devices <- AllDevices
  NoDevice = NoDevice
  ShutdownDelay = 3
  Written = {0, 3}
  Panel = {1, 5, 42}
  MaxChanges = 2
INVARIANTS ParsedAsDescribed ReadsDescribed ReadersHonest ShutdownArms WriteHonest
CHECK_DEADLOCK FALSE
