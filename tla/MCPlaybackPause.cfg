\* A user pauses a track that plays.
CONSTANTS
  r1 = r1
  r2 = r2
  none = none
  None = none
  Playlist <- One
  Order <- AsListed
  Repeat = 0
  ResumeOn = FALSE
  ResetOn = FALSE
  CliPause = FALSE
  Commands = {"play", "pause"}
  Hasty = FALSE
  LateDecode = FALSE
  MaxAsks = 2
  MaxLinks = 1
  MaxStreams = 1
  MaxReports = 1
  Slots = {r1}
SPECIFICATION Spec
INVARIANTS
  EngineAgrees
CHECK_DEADLOCK FALSE
