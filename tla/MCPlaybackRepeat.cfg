\* One song repeats, and is asked for again.
CONSTANTS
  r1 = r1
  none = none
  None = none
  Playlist <- One
  Order <- AsListed
  Repeat = 1
  ResumeOn = TRUE
  ResetOn = FALSE
  CliPause = FALSE
  Commands = {"play", "stop"}
  Hasty = FALSE
  LateDecode = TRUE
  MaxAsks = 2
  MaxLinks = 1
  MaxStreams = 4
  MaxReports = 2
  Slots = {r1}
SPECIFICATION Spec
PROPERTIES
  SkipsOnlyPlaying
CHECK_DEADLOCK FALSE
