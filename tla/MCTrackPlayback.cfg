\* Impatient users, and a player that comes and goes.
CONSTANTS
  r1 = r1
  r2 = r2
  none = none
  None = none
  Playlist <- Two
  Order <- AsListed
  Repeat = 2
  ResumeOn = TRUE
  ResetOn = TRUE
  CliPause = TRUE
  Commands = {"play", "stop", "pause"}
  Hasty = TRUE
  LateDecode = TRUE
  MaxAsks = 2
  MaxLinks = 2
  MaxStreams = 2
  MaxReports = 1
  Slots = {r1, r2}
SYMMETRY Symmetry
SPECIFICATION Spec
INVARIANTS
  TypeOK
  ClaimHeld
  GuardTruth
CHECK_DEADLOCK FALSE
