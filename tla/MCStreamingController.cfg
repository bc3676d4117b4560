\* Controllers with a full set of hooks, and as the server runs them.
CONSTANTS
  a = a
  b = b
  none = none
  Songs = {a, b}
  NoSong = none
  PlaylistCount = 1
  MaxCallbackId = 7
  MaxQueue = 3
SYMMETRY Symmetry
SPECIFICATION Spec
INVARIANTS
  TypeOK
  StateValid
  CallbackDiscipline
  SourceOpen
PROPERTIES
  OlderAnswersIgnored
