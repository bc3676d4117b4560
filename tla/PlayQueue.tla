----------------------------- MODULE PlayQueue -----------------------------
(* The queue of one player: the list of entries, the order the queue is     *)
(* played and shown in (shufflelist), the shuffle mode that order was drawn *)
(* for, and the position in it.  Editing commands change the list, the      *)
(* order or the mode on their own; the order is drawn again when somebody   *)
(* next looks at the queue and finds it outdated.                           *)
(*                                                                          *)
(* Source: player/manager.py, and the editing paths of web/api.py,          *)
(* control/cli_commands.py and player/buttons.py.  Positions and indices    *)
(* count from 1 here and from 0 in the code, so the code's -1 is 0.         *)
EXTENDS Integers, Sequences, SequencesExt

CONSTANTS
    Tracks,     \* entries that are tracks of the library
    Streams,    \* entries that are URLs of remote streams
    NoTrack,    \* the current track when there is none
    AlbumOf,    \* the album of a track, 0 for a track without one
    MaxLen      \* bound: entries of the queue

ASSUME EntriesAssumption ==
    /\ Tracks \cap Streams = {}
    /\ NoTrack \notin Tracks \cup Streams
    /\ AlbumOf \in [Tracks -> Nat]
ASSUME LengthAssumption == MaxLen \in Nat \ {0}

VARIABLE
    queue       \* the queue fields of the player's state

vars == <<queue>>

Items == Tracks \cup Streams
Modes == 0 .. 2             \* shuffle off, by track, by album
Unbuilt == -1               \* no order was drawn yet

Init ==
    queue = [playlist |-> <<>>, order |-> <<>>, built |-> Unbuilt, mode |-> 0,
             at |-> 1, current |-> NoTrack]
-----------------------------------------------------------------------------
(* The order                                                                *)

\* The orders of n entries.
Orders == [n \in 0 .. MaxLen |-> Bijection(1 .. n, 1 .. n)]

InOrder(n) == [k \in 1 .. n |-> k]

\* The order lists every entry once and was drawn for the shuffle mode.
Fresh(q) == q.built = q.mode /\ q.order \in Orders[Len(q.playlist)]

\* The entry under the position, as an index of the playlist; 0 for none.
Playing(q) ==
    LET raw == IF q.at \in DOMAIN q.order THEN q.order[q.at]
               ELSE IF q.at \in DOMAIN q.playlist THEN q.at ELSE 0
    IN  IF raw <= Len(q.playlist) + 1 THEN raw ELSE 0

TrackIndices(q) == {i \in DOMAIN q.playlist : q.playlist[i] \in Tracks}

\* Shuffled by album: albums in any order, each one in playlist order, the album of
\* entry p in front.  Tracks are numbered among the tracks, streams are not listed.
\* With p = 0 the album in front depends on a saved position: any is possible.
AlbumOrders(q, p) ==
    LET local == SelectSeq(q.playlist, LAMBDA x : x \in Tracks)
        album == [k \in DOMAIN local |-> AlbumOf[local[k]]]
        front == IF p \in TrackIndices(q) THEN AlbumOf[q.playlist[p]] ELSE 0
        ByAlbum(o) ==
            \A i, j \in DOMAIN o : i < j /\ album[o[i]] = album[o[j]] =>
                /\ o[i] < o[j]
                /\ \A k \in i .. j : album[o[k]] = album[o[i]]
        InFront(o) ==
            p # 0 /\ front \in Range(album) => album[o[1]] = front
    IN  {o \in Orders[Cardinality(TrackIndices(q))] : ByAlbum(o) /\ InFront(o)}

\* The orders reshuffle may draw; with keep, what is playing comes first.
Drawn(q, keep) ==
    LET n == Len(q.playlist)
        p == IF keep THEN Playing(q) ELSE 0
    IN  CASE q.mode = 0 -> {InOrder(n)}
          [] q.mode = 1 -> {o \in Orders[n] : p \in 1 .. n => o[1] = p}
          [] q.mode = 2 -> AlbumOrders(q, p)

\* Mutant: the position is not moved along.
Renumbered_Stays(q, o) == IF q.at > Len(q.playlist) THEN 1 ELSE q.at

\* The position of what is playing in order o.
Renumbered(q, o) ==
    IF \E k \in DOMAIN o : o[k] = Playing(q)
    THEN CHOOSE k \in DOMAIN o : o[k] = Playing(q)
    ELSE IF q.at > Len(q.playlist) THEN 1 ELSE q.at

Reshuffled(q, keep) ==
    IF q.playlist = <<>>
    THEN {[q EXCEPT !.order = <<>>, !.built = q.mode]}
    ELSE {[q EXCEPT !.order = o, !.built = q.mode, !.at = Renumbered(q, o)] :
              o \in Drawn(q, keep)}

\* Looking at an outdated order asks for the playing position first; with the position
\* outside the list that looks for the current track, which looks at the order again:
\* the calls never end, and the error leaves everything as it was.
Stuck(q) ==
    ~Fresh(q) /\ q.playlist # <<>> /\ q.at \notin DOMAIN q.playlist
    /\ q.current \in Range(q.playlist)

\* What a look at the queue makes of it.
Looked(q) == IF Fresh(q) \/ Stuck(q) THEN {q} ELSE Reshuffled(q, TRUE)
-----------------------------------------------------------------------------
(* Playing an entry.  Every operator gives the queues that may result: the  *)
(* frame is sent, or the player's connection is gone.                       *)

\* The position play_track gives a track of the queue.
Positioned(q, x) ==
    LET raw == CHOOSE i \in DOMAIN q.playlist :
                   q.playlist[i] = x /\ \A k \in 1 .. i - 1 : q.playlist[k] # x
    IN  {[r EXCEPT !.at = IF \E k \in DOMAIN r.order : r.order[k] = raw
                          THEN CHOOSE k \in DOMAIN r.order : r.order[k] = raw
                          ELSE raw] : r \in Looked(q)}

\* Sending a stream looks at the queue once more.
StreamSent(q) == {[r EXCEPT !.current = NoTrack] : r \in Looked(q)}

\* playlist_play of entry i in playing order.
Played(q, i) ==
    UNION {LET x == r.playlist[IF i \in DOMAIN r.order THEN r.order[i] ELSE i]
           IN  IF x \in Tracks
               THEN UNION {{t, [t EXCEPT !.at = i, !.current = x]} : t \in Positioned(r, x)}
               ELSE {r} \cup UNION {{t, [t EXCEPT !.at = i]} : t \in StreamSent(r)}
           : r \in Looked([q EXCEPT !.at = i])}

\* Mutant: a stream becomes the current track.
WebPlayed_AnyCurrent(q, i) ==
    IF i \in DOMAIN q.playlist
    THEN {[q EXCEPT !.at = j, !.current = q.playlist[i]] : j \in {0, i}}
    ELSE {q}

\* The web interface plays entry i of the playlist itself.
WebPlayed(q, i) ==
    LET p    == [q EXCEPT !.at = i]
        x    == q.playlist[i]
        sent == IF x \in Tracks THEN {[p EXCEPT !.current = x]} ELSE {p} \cup StreamSent(p)
    IN  IF i \in DOMAIN q.playlist
        THEN sent \cup {[r EXCEPT !.at = 0] : r \in sent}
        ELSE {q}
-----------------------------------------------------------------------------
(* Commands                                                                 *)

\* A status, a list of the queue, a frame: whoever resolves a position.
Look == queue' \in Looked(queue)

\* playlist_add: a track that is not listed yet goes to the end.
Add(x) ==
    LET list == IF x \in Range(queue.playlist) THEN queue.playlist
                ELSE Append(queue.playlist, x)
        q    == [queue EXCEPT !.playlist = list]
    IN  /\ Len(list) <= MaxLen
        /\ IF queue.mode # 0
           THEN queue' \in Reshuffled(q, TRUE)
           ELSE queue' = [q EXCEPT !.order = InOrder(Len(list)), !.built = 0]

\* The web interface, favorites and plugins append to the list only.
WebAdd(x) ==
    /\ Len(queue.playlist) < MaxLen
    /\ queue' = [queue EXCEPT !.playlist = Append(@, x)]

\* "Play next": the entry goes behind the position, taken as an index of the list.
WebInsert(x) ==
    LET n == Len(queue.playlist)
        p == IF queue.at < n THEN queue.at ELSE n
    IN  /\ n < MaxLen
        /\ queue' = [queue EXCEPT !.playlist = InsertAt(@, p + 1, x)]

\* Mutant: the indices behind the removed entry keep their numbers.
Unlisted_Unnumbered(o, i) == IF i \in DOMAIN o THEN RemoveAt(o, i) ELSE o

\* The order without its place i, renumbered for the list without that entry.
Unlisted(o, i) ==
    LET rest == RemoveAt(o, i)
    IN  IF i \in DOMAIN o
        THEN [k \in DOMAIN rest |-> IF rest[k] > o[i] THEN rest[k] - 1 ELSE rest[k]]
        ELSE o

\* Mutant: the place is taken for an index of the list.
Removed_ByPlace(q, i) ==
    [q EXCEPT !.playlist = RemoveAt(@, i),
              !.order = IF q.mode # 0 THEN Unlisted(@, i) ELSE InOrder(Len(q.playlist) - 1),
              !.built = q.mode,
              !.at = IF @ > i THEN @ - 1 ELSE @]

\* playlist_remove of place i in playing order.
Removed(q, i) ==
    LET raw  == IF i \in DOMAIN q.order THEN q.order[i] ELSE i
        list == RemoveAt(q.playlist, IF q.mode # 0 THEN raw ELSE i)
    IN  [q EXCEPT !.playlist = list,
                  !.order = IF q.mode # 0 THEN Unlisted(@, i) ELSE InOrder(Len(list)),
                  !.built = q.mode,
                  !.at = IF @ > i THEN @ - 1 ELSE @]

Delete(i) ==
    /\ i \in DOMAIN queue.playlist
    /\ IF Stuck(queue) THEN UNCHANGED queue
       ELSE \E q \in Looked(queue) : queue' = Removed(q, i)

\* Moving an entry of the list leaves order and position alone.
Move(i, j) ==
    /\ {i, j} \subseteq DOMAIN queue.playlist
    /\ queue' = [queue EXCEPT !.playlist = InsertAt(RemoveAt(@, i), j, @[i])]

Clear == queue' = [queue EXCEPT !.playlist = <<>>, !.order = <<>>, !.built = queue.mode,
                                !.at = 1]

WebClear == queue' = [queue EXCEPT !.playlist = <<>>]

\* A stored playlist replaces the queue and plays from its top.
LoadStored(list) ==
    \E q \in Reshuffled([queue EXCEPT !.playlist = list, !.at = 1], FALSE) :
        queue' \in Played([q EXCEPT !.at = 1], 1)

\* A list of streams replaces the queue the same way, its order is left alone.
LoadStreams(list) == queue' \in Played([queue EXCEPT !.playlist = list, !.at = 1], 1)

\* An album, folder or track from the web interface, played from entry i.
WebLoad(list, i) ==
    i \in DOMAIN list /\ queue' \in WebPlayed([queue EXCEPT !.playlist = list], i)

\* The command draws the order at once, a button or an alarm only sets the mode.
Shuffle(m) == queue' \in Reshuffled([queue EXCEPT !.mode = m], TRUE)
SetMode(m) == queue' = [queue EXCEPT !.mode = m]

\* playlist jump and index, next and previous.
Jump(i) == i \in DOMAIN queue.playlist /\ queue' \in Played(queue, i)

\* The web interface sets the position before it knows whether there is such an entry.
WebJump(i) == queue' \in WebPlayed([queue EXCEPT !.at = i], i)

\* play_track of track x, which joins the queue unless it is there.
PlayTrack(x) ==
    LET n == Len(queue.playlist)
        ready == IF queue.playlist = <<>>
                 THEN {[queue EXCEPT !.playlist = <<x>>, !.order = <<1>>, !.at = 1,
                                     !.built = queue.mode]}
                 ELSE IF x \in Range(queue.playlist) THEN Positioned(queue, x)
                 ELSE {[queue EXCEPT !.playlist = Append(@, x), !.at = n + 1]}
    IN  /\ x \in Range(queue.playlist) \/ n < MaxLen
        /\ IF Stuck(queue) /\ x \in Range(queue.playlist) THEN UNCHANGED queue
           ELSE \E q \in ready : queue' \in {q, [q EXCEPT !.current = x]}

\* play_url replaces the queue by the stream; a failure puts the old queue back.
PlayUrl(x) ==
    \/ UNCHANGED queue
    \/ queue' = [queue EXCEPT !.playlist = <<x>>, !.order = <<1>>, !.built = queue.mode,
                              !.at = 1, !.current = NoTrack]

\* The end of a track: the next entry, as the repeat mode says, or a stop.  At the end
\* of the list the order may be drawn anew (the option reshuffleOnRepeat).
Advance(repeat) ==
    /\ queue.current # NoTrack /\ queue.playlist # <<>> /\ ~Stuck(queue)
    /\ \E q \in Looked(queue) :
          LET n   == Len(q.playlist)
              cur == IF q.at \in 1 .. n THEN q.at ELSE 1
          IN  \/ repeat = "one" /\ queue' \in Played(q, cur)
              \/ repeat # "one" /\ cur < n /\ queue' \in Played(q, cur + 1)
              \/ repeat = "all" /\ cur = n
                 /\ \E r \in {q} \cup IF q.mode # 0 THEN Reshuffled(q, FALSE) ELSE {} :
                       queue' \in Played(r, 1)
              \/ repeat = "off" /\ cur = n /\ queue' = q

Lists(S) == UNION {[1 .. n -> S] : n \in 1 .. MaxLen}

Next ==
    \/ Look \/ Clear \/ WebClear
    \/ \E repeat \in {"off", "one", "all"} : Advance(repeat)
    \/ \E x \in Tracks : Add(x) \/ PlayTrack(x)
    \/ \E x \in Items : WebAdd(x) \/ WebInsert(x)
    \/ \E x \in Streams : PlayUrl(x)
    \/ \E i \in 1 .. MaxLen : Delete(i) \/ Jump(i)
    \/ \E i \in 1 .. MaxLen + 1 : WebJump(i)
    \/ \E i, j \in 1 .. MaxLen : Move(i, j)
    \/ \E m \in Modes : Shuffle(m) \/ SetMode(m)
    \/ \E list \in Lists(Tracks) : LoadStored(list)
    \/ \E list \in Lists(Streams) : LoadStreams(list)
    \/ \E list \in Lists(Tracks), i \in 1 .. MaxLen : WebLoad(list, i)

Spec == Init /\ [][Next]_vars
-----------------------------------------------------------------------------
(* Properties                                                               *)

TypeOK ==
    queue \in [playlist : Seq(Items), order : Seq(Nat \ {0}), built : Modes \cup {Unbuilt},
               mode : Modes, at : Nat, current : Tracks \cup {NoTrack}]

\* Whatever edits the list behind the order's back, the order itself stays one: every
\* index up to its length, once.  It may be outdated, it is never damaged.
OrderSound == queue.order \in Bijection(1 .. Len(queue.order), 1 .. Len(queue.order))

\* The entry a position stands for.
Shown(q) == q.at \in DOMAIN q.order /\ q.order[q.at] \in DOMAIN q.playlist
Entry(q) == q.playlist[q.order[q.at]]
Mixed(q) == q.mode = 2 /\ Range(q.playlist) \cap Streams # {}

\* What is playing stays under the position through everything that is not a request to
\* play something else: a new shuffle mode, appended entries, a drawn order, the removal
\* of another entry.  Left out is shuffle by album with a stream in the queue, and adding
\* after the mode was switched without drawing the order.
Undisturbing ==
    \/ Look
    \/ \E x \in Items : WebAdd(x)
    \/ queue.built = queue.mode /\ \E x \in Tracks : Add(x)
    \/ queue.built = 0 /\ \E x \in Items : WebInsert(x)
    \/ Fresh(queue) /\ \E i \in DOMAIN queue.playlist \ {queue.at} : Delete(i)
    \/ \E m \in Modes : Shuffle(m) \/ SetMode(m)

CurrentKept ==
    [][Shown(queue) /\ ~Mixed(queue') /\ ~(Shown(queue') /\ Entry(queue') = Entry(queue))
       => ~Undisturbing]_vars

\* The queue as it is shown and played.
Listed(q) == [k \in DOMAIN q.order |-> q.playlist[q.order[k]]]

\* Removing a place from the queue as it is shown takes away that entry and no other,
\* and leaves the rest in the order it had, whatever the shuffle mode.
RemovesShown ==
    [][Fresh(queue) =>
          \A i \in DOMAIN queue.playlist :
              Delete(i) => Listed(queue') = RemoveAt(Listed(queue), i)]_vars

\* Violated: whoever looks at the queue gets an answer.
LooksAnswered == ~Stuck(queue)

\* Violated: the order that is looked at lists every entry.
ListsAll == [][Look => Fresh(queue') \/ Stuck(queue')]_vars
=============================================================================
