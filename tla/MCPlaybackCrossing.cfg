\* A user stops a track as it starts.
CONSTANTS
  r1 = r1
  r2 = r2
  none = none
  None = none
  Playlist <- One
  Order <- AsListed
  Repeat = 0
  ResumeOn = FALSE
  ResetOn = FALSE
  CliPause = FALSE
  Commands = {"play", "stop"}
  Hasty = TRUE
  LateDecode = FALSE
  MaxAsks = 2
  MaxLinks = 1
  MaxStreams = 1
  MaxReports = 2
  Slots = {r1}
SPECIFICATION Spec
INVARIANTS
  StatusTruth
CHECK_DEADLOCK FALSE
