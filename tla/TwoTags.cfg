SPECIFICATION LiveSpec
CONSTANTS
  t1 = t1
  t2 = t2
  dock = dock
  Missing = Missing
  EPC = {t1, t2}
  Device = {"r1"}
  Antenna = {1}
  Alias = {dock}
  Configs <- TwoTagsConfigs
  Reports <- TwoTagsReports
  WindowSize = 1
  MicrosPerMilli = 2
  MaxTime = 3
INVARIANTS
  DepartedStartsFresh
  SnapshotCurrent
PROPERTIES
  NeverReadAhead
  
  UnseenTagLeaves
