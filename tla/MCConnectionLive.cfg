\* Players of the text layout, under the fairness of the event loop.
CONSTANTS
  s1 = s1
  s2 = s2
  none = none
  Sockets = {s1, s2}
  NoSocket = none
  Kinds = {"text"}
  MissLimit = 2
  Grace = 2
  MaxFrames = 1
SPECIFICATION FairSpec
PROPERTIES
  SilentDropped
  OfflineForgotten
CHECK_DEADLOCK FALSE
