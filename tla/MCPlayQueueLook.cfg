\* A look at the queue after a play that failed.
CONSTANTS
  a = a
  b = b
  s = s
  none = none
  Tracks = {a, b}
  Streams = {s}
  NoTrack = none
  AlbumOf <- MCAlbumOf
  MaxLen = 3
SPECIFICATION Spec
INVARIANT
  LooksAnswered
