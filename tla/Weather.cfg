SPECIFICATION Spec
CONSTANTS
  Wide = Wide
  Narrow = Narrow
  Fixed = Fixed
  Values <- ThreeValues
  SevereValue <- Narrow
  NormalValues <- BothNormals
  RestoreSaved = RestoreSaved
  SevereKeepsHE = TRUE
  Outages = TRUE
  IoFails = TRUE
  HE_REENGAGE_THRESHOLD = 2
  MaxEnds = 1
INVARIANTS Restored StoryTold
PROPERTIES WeatherFollowed
