-------------------------- MODULE MCTrackPlayback --------------------------
EXTENDS TrackPlayback, TLC

One == <<1>>
Two == <<1, 2>>
Three == <<1, 2, 3>>
AsListed == [i \in 1 .. Len(Playlist) |-> i]
Shuffled == [i \in 1 .. Len(Playlist) |-> Len(Playlist) + 1 - i]

Symmetry == Permutations(Slots)
=============================================================================
