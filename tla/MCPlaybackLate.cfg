\* A player that reports the end of a file after the end of its sound.
CONSTANTS
  r1 = r1
  r2 = r2
  none = none
  None = none
  Playlist <- Two
  Order <- AsListed
  Repeat = 0
  ResumeOn = FALSE
  ResetOn = FALSE
  CliPause = FALSE
  Commands = {"play"}
  Hasty = FALSE
  LateDecode = TRUE
  MaxAsks = 1
  MaxLinks = 1
  MaxStreams = 2
  MaxReports = 2
  Slots = {r1}
SPECIFICATION Spec
PROPERTIES
  AdvanceOnce
CHECK_DEADLOCK FALSE
