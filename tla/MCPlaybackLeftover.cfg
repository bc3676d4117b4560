\* A user chooses another track after the decoder has read all of the first one.
CONSTANTS
  r1 = r1
  r2 = r2
  none = none
  None = none
  Playlist <- Two
  Order <- AsListed
  Repeat = 0
  ResumeOn = FALSE
  ResetOn = FALSE
  CliPause = FALSE
  Commands = {"play"}
  Hasty = FALSE
  LateDecode = FALSE
  MaxAsks = 2
  MaxLinks = 1
  MaxStreams = 2
  MaxReports = 2
  Slots = {r1}
SPECIFICATION Spec
INVARIANTS
  EndsPlayed
CHECK_DEADLOCK FALSE
