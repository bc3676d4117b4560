---------------------------- MODULE MCPlayQueue ----------------------------
(* PlayQueue on two tracks and a stream; entries may repeat. *)
EXTENDS PlayQueue

CONSTANTS a, b, s, none

\* One track of an album and one without.
MCAlbumOf == [x \in {a, b} |-> IF x = a THEN 1 ELSE 0]
=============================================================================
