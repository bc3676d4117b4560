\* A user chooses another track just before the end of the one that plays.
CONSTANTS
  r1 = r1
  r2 = r2
  none = none
  None = none
  Playlist <- Two
  Order <- AsListed
  Repeat = 0
  ResumeOn = FALSE
  ResetOn = FALSE
  CliPause = FALSE
  Commands = {"play"}
  Hasty = TRUE
  LateDecode = FALSE
  MaxAsks = 2
  MaxLinks = 1
  MaxStreams = 2
  MaxReports = 1
  Slots = {r1}
SPECIFICATION Spec
PROPERTIES
  EndsCurrent
CHECK_DEADLOCK FALSE
