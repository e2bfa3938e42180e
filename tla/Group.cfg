SPECIFICATION Spec
CONSTANTS
  Device = {"r1", "r2"}
  Behavior <- DoorOrTimed
  InitialBehavior <- Door
  Accepts <- SomeReject
  Thread = {g1, g2, g3}
  Nobody = Nobody
  Impinj = {"r1"}
  MaxTries = 5
  Lags = {0}
  Uncounted = {}
  MaxOps = 4
  MaxResets = 1
SYMMETRY Goroutines
INVARIANTS
  TypeOK
  ReplacesAlone
  EveryoneOnBehavior
  PromisesKept
  FollowsEvents
