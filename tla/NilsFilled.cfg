SPECIFICATION Spec
CONSTANTS
  Param = {"AntennaID", "PeakRSSI", "LastSeenUTC", "ChannelIndex"}
  Value = {v1, v2}
  Zero = Zero
  Nil = Nil
INVARIANTS
  NilsFilled
