\* Both HELO layouts, three sockets in flight.
CONSTANTS
  s1 = s1
  s2 = s2
  s3 = s3
  none = none
  Sockets = {s1, s2, s3}
  NoSocket = none
  Kinds = {"text", "binary"}
  MissLimit = 2
  Grace = 3
  MaxFrames = 1
SYMMETRY Symmetry
SPECIFICATION Spec
INVARIANTS
  TypeOK
  RegistryTrue
PROPERTIES
  KeepsPresence
CHECK_DEADLOCK FALSE
