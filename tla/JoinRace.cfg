SPECIFICATION Spec
CONSTANTS
  Device = {"r2"}
  Behavior <- EndlessOrTimed
  InitialBehavior <- Endless
  Accepts <- SomeReject
  Thread = {g1, g2, g3}
  Nobody = Nobody
  Impinj = {}
  MaxTries = 5
  Lags = {0}
  Uncounted = {}
  MaxOps = 4
  MaxResets = 0
SYMMETRY Goroutines
INVARIANTS
  GroupAccepts
