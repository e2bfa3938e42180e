SPECIFICATION Spec
CONSTANTS
  Capabilities <- SomeCapabilities
  Behaviors <- SomeBehaviors
  Environments <- UpToThree
  BestRTcal = 1
  BestBDR = 16
  Nothing = Nothing
INVARIANTS
  RejectsWhatCannotBe
  PowerAsHighAsAllowed
  ChannelPermitted
  BestRobustMode
  
  ModeAlwaysFound
