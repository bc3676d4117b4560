\* A queue that is started once and left alone, with fairness.
CONSTANTS
  r1 = r1
  none = none
  None = none
  Playlist <- Three
  Order <- AsListed
  Repeat = 0
  ResumeOn = TRUE
  ResetOn = FALSE
  CliPause = FALSE
  Commands = {"play"}
  Hasty = FALSE
  LateDecode = FALSE
  MaxAsks = 1
  MaxLinks = 1
  MaxStreams = 4
  MaxReports = 2
  Slots = {r1}
SPECIFICATION FairSpec
INVARIANTS
  EndsPlayed
  StatusTruth
  EngineAgrees
  ServedAsSent
PROPERTIES
  QueueGoesOn
  AdvanceOnce
CHECK_DEADLOCK FALSE
