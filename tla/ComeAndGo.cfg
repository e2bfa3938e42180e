SPECIFICATION Spec
CONSTANTS
  t1 = t1
  t2 = t2
  dock = dock
  Missing = Missing
  EPC = {t1}
  Device = {"r1"}
  Antenna = {1, 2}
  Alias = {dock}
  Configs <- ComeAndGoConfigs
  Reports <- ComeAndGoReports
  WindowSize = 2
  MicrosPerMilli = 2
  MaxTime = 3
INVARIANTS
  TypeOK
  
  

  
