\* Two tracks, a stream, queues of up to three entries.
CONSTANTS
  a = a
  b = b
  s = s
  none = none
  Tracks = {a, b}
  Streams = {s}
  NoTrack = none
  AlbumOf <- MCAlbumOf
  MaxLen = 3
SPECIFICATION Spec
INVARIANTS
  TypeOK
  OrderSound
PROPERTIES
  CurrentKept
  RemovesShown
