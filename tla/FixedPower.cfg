SPECIFICATION Spec
CONSTANTS
  Capabilities <- SomeCapabilities
  Behaviors <- SomeBehaviors
  Environments <- TheGroups
  BestRTcal = 1
  BestBDR = 16
  Nothing = Nothing
INVARIANTS
  PowerAlwaysChosen
