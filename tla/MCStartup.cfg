SPECIFICATION MCSpec
CONSTANTS
  DefaultMaxConcurrent = 2
  LargeValue = 100
  MaxRank = 2
  MaxLinks = 3
  Lists <- MCLists
INVARIANTS
  SettingDecided
  SelectionIsExact
  NothingPanics
PROPERTY SelectionEnds
CHECK_DEADLOCK FALSE
