SPECIFICATION LiveSpec
CONSTANTS
  Device = {"r1"}
  Behavior <- EndlessOrTimed
  InitialBehavior <- Endless
  Accepts <- RejectsTimed
  Impinj = {}
  Nobody = Nobody
  MaxTries = 5
  Lags = {10}
  QueueSize = 1
  Torn = Torn
  Handler = {g1, g2}
  Caller = {g1}
  Existing = {"r1"}
  Main = Main
  TheLoop = TheLoop
  Asked = {"SetBehavior", "StartAll", "RemoveReader"}
  MaxOps = 2
  MaxChanges = 0
INVARIANTS
  NobodyInCircle
PROPERTIES
  CallsReturn
  
  SignalStops
  CallersServed
