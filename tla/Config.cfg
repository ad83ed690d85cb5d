SPECIFICATION Spec
CONSTANTS
  Clients = {c1, c2}
  TrackedSets <- MCTrackedSets
  Values <- MCValues
  Background <- MCBackground
  OutletSets <- MCOutletSets
  MaxPosts = 2
  MaxChanges = 1
  MaxErrors = 1
INVARIANTS PagesAgree WritesApart
PROPERTIES AnswerHonest AuditCatchesUp
CHECK_DEADLOCK FALSE
