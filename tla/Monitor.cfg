SPECIFICATION Spec
CONSTANTS
  Readings <- MixedReadings
  HasFastLoop = TRUE
  SavesFail = TRUE
  EarlyStops = FALSE
  MaxDeaths = 1
  NoData = NoData
  NoRow = NoRow
INVARIANTS StoryTold RowIsLastObserved
PROPERTIES AnnouncedBeforeSaved
