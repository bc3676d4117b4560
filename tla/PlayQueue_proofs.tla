-------------------------- MODULE PlayQueue_proofs --------------------------
(* Proofs about PlayQueue, for every library, album layout and queue length. *)
EXTENDS PlayQueue, FiniteSetTheorems, SequenceTheorems, WellFoundedInduction, TLAPS

Fields ==
    [playlist : Seq(Items), order : Seq(Nat \ {0}), built : Modes \cup {Unbuilt},
     mode : Modes, at : Nat, current : Tracks \cup {NoTrack}]

\* An order of its own length.
Sound(o) == Len(o) <= MaxLen /\ o \in Bijection(1 .. Len(o), 1 .. Len(o))

\* What holds of the queue before and after every command: typed, its order sound, and
\* in playlist order if it was drawn with shuffle off.
Good(q) ==
    /\ q \in Fields
    /\ Len(q.playlist) <= MaxLen
    /\ Sound(q.order)
    /\ q.built = 0 => q.order = InOrder(Len(q.order))

IInv == Good(queue)
-----------------------------------------------------------------------------
(* Orders *)

\* An order of n entries is a sequence that names each of them once.
LEMMA OrdersAreSound ==
    ASSUME NEW n \in 0 .. MaxLen, NEW o \in Orders[n]
    PROVE  o \in Seq(Nat \ {0}) /\ Len(o) = n /\ Sound(o)
  <1>1. o \in [1 .. n -> 1 .. n] /\ o \in Bijection(1 .. n, 1 .. n)
    BY DEF Orders, Bijection, Injection
  <1>2. n \in Nat /\ o \in Seq(Nat \ {0}) /\ Len(o) = n
    BY <1>1, LengthAssumption
  <1> QED BY <1>1, <1>2, LengthAssumption DEF Sound

\* The playlist order is one.
LEMMA InOrderIsOrder ==
    ASSUME NEW n \in 0 .. MaxLen
    PROVE  InOrder(n) \in Orders[n]
  BY LengthAssumption DEF Orders, InOrder, Bijection, Injection, Surjection, IsInjective

\* The order of an empty queue.
LEMMA EmptyOrder ==
    /\ <<>> \in Seq(Nat \ {0}) /\ Len(<<>>) = 0
    /\ <<>> = InOrder(0) /\ Sound(<<>>)
  <1>1. 0 \in 0 .. MaxLen
    BY LengthAssumption
  <1>2. InOrder(0) \in Seq(Nat \ {0}) /\ Len(InOrder(0)) = 0 /\ Sound(InOrder(0))
    BY <1>1, InOrderIsOrder, OrdersAreSound
  <1>3. InOrder(0) = <<>>
    BY <1>2, EmptySeq
  <1> QED BY <1>2, <1>3

\* The tracks of a playlist are at most its entries, and all of them without a stream.
LEMMA TracksCounted ==
    ASSUME NEW q, Good(q)
    PROVE  /\ Cardinality(TrackIndices(q)) \in 0 .. Len(q.playlist)
           /\ Range(q.playlist) \cap Streams = {}
              => Cardinality(TrackIndices(q)) = Len(q.playlist)
  <1>1. Len(q.playlist) \in Nat /\ DOMAIN q.playlist = 1 .. Len(q.playlist)
    BY DEF Good, Fields
  <1>2. IsFiniteSet(1 .. Len(q.playlist)) /\ Cardinality(1 .. Len(q.playlist)) = Len(q.playlist)
    <2> DEFINE n == Len(q.playlist)
    <2>1. n \in Int /\ 1 \in Int /\ n >= 0
      BY <1>1
    <2>2. /\ IsFiniteSet(1 .. n)
          /\ Cardinality(1 .. n) = IF 1 > n THEN 0 ELSE n - 1 + 1
      BY <2>1, FS_Interval
    <2>3. (IF 1 > n THEN 0 ELSE n - 1 + 1) = n
      BY <2>1
    <2> QED BY <2>2, <2>3
  <1>3. TrackIndices(q) \subseteq 1 .. Len(q.playlist)
    BY <1>1 DEF TrackIndices
  <1>4. /\ IsFiniteSet(TrackIndices(q))
        /\ Cardinality(TrackIndices(q)) <= Cardinality(1 .. Len(q.playlist))
    BY <1>2, <1>3, FS_Subset
  <1>5. Cardinality(TrackIndices(q)) \in Nat
    BY <1>4, FS_CardinalityType
  <1>6. ASSUME Range(q.playlist) \cap Streams = {}
        PROVE  TrackIndices(q) = 1 .. Len(q.playlist)
    BY <1>1, <1>6 DEF TrackIndices, Range, Good, Fields, Items
  <1> QED BY <1>1, <1>2, <1>4, <1>5, <1>6

\* Whatever is drawn is an order, of every entry unless a stream is left out.
LEMMA DrawnOrders ==
    ASSUME NEW q, Good(q), NEW keep \in BOOLEAN, NEW o \in Drawn(q, keep)
    PROVE  /\ \E n \in 0 .. Len(q.playlist) : o \in Orders[n]
           /\ ~Mixed(q) => o \in Orders[Len(q.playlist)]
           /\ q.mode = 0 => o = InOrder(Len(q.playlist))
  <1>1. Len(q.playlist) \in 0 .. MaxLen /\ q.mode \in {0, 1, 2}
    BY LengthAssumption DEF Good, Fields, Modes
  <1>2. CASE q.mode = 0
    <2>1. o = InOrder(Len(q.playlist))
      BY <1>2 DEF Drawn
    <2> QED BY <1>1, <2>1, InOrderIsOrder
  <1>3. CASE q.mode = 1
    <2>1. o \in Orders[Len(q.playlist)]
      BY <1>3 DEF Drawn
    <2> QED BY <1>1, <1>3, <2>1
  <1>4. CASE q.mode = 2
    <2>1. o \in Orders[Cardinality(TrackIndices(q))]
      BY <1>4 DEF Drawn, AlbumOrders
    <2>2. Cardinality(TrackIndices(q)) \in 0 .. Len(q.playlist)
      BY TracksCounted
    <2>4. ~Mixed(q) => Cardinality(TrackIndices(q)) = Len(q.playlist)
      BY <1>4, TracksCounted DEF Mixed
    <2> QED BY <1>4, <2>1, <2>2, <2>4
  <1> QED BY <1>1, <1>2, <1>3, <1>4
-----------------------------------------------------------------------------
(* Drawing an order *)

\* The position lands on what is playing, if the order lists it.
LEMMA PositionMoves ==
    ASSUME NEW q, NEW o, \E k \in DOMAIN o : o[k] = Playing(q)
    PROVE  Renumbered(q, o) \in DOMAIN o /\ o[Renumbered(q, o)] = Playing(q)
  <1>1. PICK k \in DOMAIN o : o[k] = Playing(q)
    OBVIOUS
  <1>2. Renumbered(q, o) = CHOOSE j \in DOMAIN o : o[j] = Playing(q)
    BY DEF Renumbered
  <1> QED BY <1>1, <1>2

\* A position stays a natural number.
LEMMA PositionsNatural ==
    ASSUME NEW q, Good(q), NEW o, Sound(o)
    PROVE  Renumbered(q, o) \in Nat
  <1>1. CASE \E k \in DOMAIN o : o[k] = Playing(q)
    <2>1. DOMAIN o = 1 .. Len(o)
      BY DEF Sound, Bijection, Injection
    <2> QED BY <1>1, <2>1, PositionMoves
  <1>2. CASE ~\E k \in DOMAIN o : o[k] = Playing(q)
    BY <1>2 DEF Renumbered, Good, Fields
  <1> QED BY <1>1, <1>2

\* Drawing an order keeps the queue good and its list, mode and track as they are.
LEMMA ReshuffleKeepsGood ==
    ASSUME NEW q, Good(q), NEW keep \in BOOLEAN, NEW r \in Reshuffled(q, keep)
    PROVE  /\ Good(r)
           /\ r.playlist = q.playlist /\ r.mode = q.mode /\ r.current = q.current
           /\ r.built = q.mode /\ Len(r.order) <= Len(q.playlist)
  <1>1. CASE q.playlist = <<>>
    <2>1. r = [q EXCEPT !.order = <<>>, !.built = q.mode]
      BY <1>1 DEF Reshuffled
    <2>2. <<>> \in Seq(Nat \ {0}) /\ <<>> = InOrder(0) /\ Sound(<<>>) /\ Len(<<>>) = 0
      BY EmptyOrder
    <2> DEFINE e == <<>>
    <2>3. r = [q EXCEPT !.order = e, !.built = q.mode] /\ q.playlist = e
      BY <1>1, <2>1
    <2>4. e \in Seq(Nat \ {0}) /\ e = InOrder(Len(e)) /\ Sound(e) /\ Len(e) = 0
      BY <2>2
    <2> HIDE DEF e
    <2>5. /\ r.order = e /\ r.built = q.mode /\ r.playlist = q.playlist
          /\ r.mode = q.mode /\ r.current = q.current /\ r.at = q.at
      BY <2>3 DEF Good, Fields
    <2>6. r \in Fields
      BY <2>3, <2>4 DEF Good, Fields
    <2>7. Good(r)
      <3>1. Len(r.playlist) <= MaxLen
        BY <2>5 DEF Good
      <3>2. Sound(r.order) /\ r.order = InOrder(Len(r.order))
        BY <2>4, <2>5
      <3> QED BY <2>6, <3>1, <3>2 DEF Good
    <2>8. Len(r.order) <= Len(q.playlist)
      BY <2>3, <2>4, <2>5
    <2> QED BY <2>5, <2>7, <2>8
  <1>2. CASE q.playlist # <<>>
    <2>1. PICK o \in Drawn(q, keep) :
            r = [q EXCEPT !.order = o, !.built = q.mode, !.at = Renumbered(q, o)]
      BY <1>2 DEF Reshuffled
    <2>2. /\ \E n \in 0 .. Len(q.playlist) : o \in Orders[n]
          /\ q.mode = 0 => o = InOrder(Len(q.playlist))
      BY DrawnOrders
    <2>3. o \in Seq(Nat \ {0}) /\ Sound(o) /\ Len(o) <= Len(q.playlist)
      <3>1. PICK n \in 0 .. Len(q.playlist) : o \in Orders[n]
        BY <2>2
      <3>2. n \in 0 .. MaxLen /\ n <= Len(q.playlist)
        BY <3>1, LengthAssumption DEF Good, Fields
      <3> QED BY <3>1, <3>2, OrdersAreSound
    <2>4. Renumbered(q, o) \in Nat
      BY <2>3, PositionsNatural
    <2>5. q.mode = 0 => o = InOrder(Len(o))
      BY <2>2, OrdersAreSound, InOrderIsOrder, LengthAssumption DEF Good, Fields
    <2> QED BY <2>1, <2>3, <2>4, <2>5 DEF Good, Fields
  <1> QED BY <1>1, <1>2

\* Looking at the queue keeps it good and its list, mode and track as they are.
LEMMA LookKeepsGood ==
    ASSUME NEW q, Good(q), NEW r \in Looked(q)
    PROVE  /\ Good(r)
           /\ r.playlist = q.playlist /\ r.mode = q.mode /\ r.current = q.current
  BY ReshuffleKeepsGood DEF Looked
-----------------------------------------------------------------------------
(* Playing an entry *)

\* What the position of a good queue stands for is an item of its list.
LEMMA EntriesAreItems ==
    ASSUME NEW q, Good(q), NEW i \in DOMAIN q.playlist
    PROVE  /\ q.playlist[i] \in Items /\ i \in Nat
           /\ i \in 1 .. Len(q.playlist)
  BY DEF Good, Fields

\* Another position or current track leaves a good queue good.
LEMMA PlaceChanges ==
    ASSUME NEW q, Good(q), NEW i \in Nat, NEW x \in Tracks \cup {NoTrack}
    PROVE  /\ Good([q EXCEPT !.at = i])
           /\ Good([q EXCEPT !.current = x])
           /\ Good([q EXCEPT !.at = i, !.current = x])
           /\ Good([q EXCEPT !.current = x, !.at = i])
  BY DEF Good, Fields

\* Every place of the queue that is looked at names an entry of the list.
LEMMA LookedListed ==
    ASSUME NEW q, Good(q), ~Stuck(q), NEW r \in Looked(q),
           NEW i \in DOMAIN q.playlist
    PROVE  (IF i \in DOMAIN r.order THEN r.order[i] ELSE i) \in DOMAIN r.playlist
  <1>1. Len(r.order) <= Len(r.playlist) /\ r.playlist = q.playlist /\ Good(r)
    <2>1. CASE Fresh(q)
      <3>1. r = q /\ q.order \in Orders[Len(q.playlist)] /\ Len(q.playlist) \in 0 .. MaxLen
        BY <2>1, LengthAssumption DEF Looked, Fresh, Good, Fields
      <3>2. Len(q.order) = Len(q.playlist)
        BY <3>1, OrdersAreSound
      <3> QED BY <3>1, <3>2 DEF Good, Fields
    <2>2. CASE ~Fresh(q)
      <3>1. r \in Reshuffled(q, TRUE)
        BY <2>2 DEF Looked
      <3> QED BY <3>1, ReshuffleKeepsGood
    <2> QED BY <2>1, <2>2
  <1>2. /\ DOMAIN r.playlist = 1 .. Len(r.playlist) /\ DOMAIN r.order = 1 .. Len(r.order)
        /\ Len(r.playlist) \in Nat /\ Len(r.order) \in Nat
        /\ \A k \in DOMAIN r.order : r.order[k] \in 1 .. Len(r.order)
    <2>1. /\ r.playlist \in Seq(Items) /\ r.order \in Seq(Nat \ {0})
          /\ r.order \in [1 .. Len(r.order) -> 1 .. Len(r.order)]
      BY <1>1 DEF Good, Fields, Sound, Bijection, Injection
    <2>2. /\ DOMAIN r.playlist = 1 .. Len(r.playlist) /\ Len(r.playlist) \in Nat
          /\ DOMAIN r.order = 1 .. Len(r.order) /\ Len(r.order) \in Nat
      BY <2>1
    <2> QED BY <2>1, <2>2
  <1> QED BY <1>1, <1>2

\* Some index is the first.
LEMMA LeastIndex ==
    ASSUME NEW S, S \subseteq Nat, S # {}
    PROVE  \E i \in S : \A k \in S : i <= k
  <1> DEFINE Below == {ss \in Nat \X Nat : ss[1] < ss[2]}
  <1>1. IsWellFoundedOn(Below, Nat)
    BY NatLessThanWellFounded DEF OpToRel
  <1>2. \E i \in S : \A k \in S : ~(<<k, i>> \in Below)
    <2> HIDE DEF Below
    <2> QED BY <1>1, WFMin, Zenon
  <1>3. PICK i \in S : \A k \in S : ~(<<k, i>> \in Below)
    BY <1>2
  <1>4. ASSUME NEW k \in S PROVE i <= k
    <2>1. ~(<<k, i>> \in Below) /\ k \in Nat /\ i \in Nat
      BY <1>3
    <2> QED BY <2>1
  <1> QED BY <1>4

\* play_track finds a position for a track of the queue.
LEMMA PositionedGood ==
    ASSUME NEW q, Good(q), NEW x \in Range(q.playlist), NEW t \in Positioned(q, x)
    PROVE  Good(t) /\ t.playlist = q.playlist
  <1> DEFINE IsFirst(i) == q.playlist[i] = x /\ \A k \in 1 .. i - 1 : q.playlist[k] # x
             raw == CHOOSE i \in DOMAIN q.playlist : IsFirst(i)
  <1>1. DOMAIN q.playlist = 1 .. Len(q.playlist) /\ Len(q.playlist) \in Nat
    BY DEF Good, Fields
  <1>2. \E i \in DOMAIN q.playlist : IsFirst(i)
    <2> DEFINE At == {i \in DOMAIN q.playlist : q.playlist[i] = x}
    <2>1. At # {} /\ At \subseteq Nat
      BY <1>1 DEF Range
    <2>2. PICK i \in At : \A k \in At : i <= k
      BY <2>1, LeastIndex
    <2>3. \A k \in 1 .. i - 1 : k \in DOMAIN q.playlist /\ k < i
      BY <1>1, <2>2
    <2> QED BY <2>2, <2>3, <1>1
  <1>3. raw \in Nat
    BY <1>1, <1>2
  <1>4. PICK r \in Looked(q) :
          t = [r EXCEPT !.at = IF \E k \in DOMAIN r.order : r.order[k] = raw
                               THEN CHOOSE k \in DOMAIN r.order : r.order[k] = raw
                               ELSE raw]
    BY DEF Positioned
  <1>5. Good(r) /\ r.playlist = q.playlist /\ DOMAIN r.order \subseteq Nat
    BY LookKeepsGood DEF Good, Fields
  <1> DEFINE place == IF \E k \in DOMAIN r.order : r.order[k] = raw
                      THEN CHOOSE k \in DOMAIN r.order : r.order[k] = raw
                      ELSE raw
  <1>6. place \in Nat
    BY <1>3, <1>5
  <1>7. t = [r EXCEPT !.at = place]
    BY <1>4
  <1> HIDE DEF place, raw
  <1> QED BY <1>5, <1>6, <1>7, PlaceChanges DEF Good, Fields

\* Sending a stream leaves the queue good.
LEMMA StreamSentGood ==
    ASSUME NEW q, Good(q), NEW r \in StreamSent(q)
    PROVE  Good(r) /\ r.playlist = q.playlist
  <1>1. PICK s \in Looked(q) : r = [s EXCEPT !.current = NoTrack]
    BY DEF StreamSent
  <1>2. Good(s) /\ s.playlist = q.playlist
    BY LookKeepsGood
  <1> QED BY <1>1, <1>2, PlaceChanges DEF Good, Fields

\* Playing an entry of the queue, well or not, leaves it good.
LEMMA PlayedGood ==
    ASSUME NEW q, Good(q), NEW i \in DOMAIN q.playlist, NEW p \in Played(q, i)
    PROVE  Good(p)
  <1> DEFINE x(r) == r.playlist[IF i \in DOMAIN r.order THEN r.order[i] ELSE i]
  <1>1. i \in Nat /\ Good([q EXCEPT !.at = i])
    BY EntriesAreItems, PlaceChanges
  <1>2. PICK r \in Looked([q EXCEPT !.at = i]) :
          p \in IF x(r) \in Tracks
                THEN UNION {{t, [t EXCEPT !.at = i, !.current = x(r)]} : t \in Positioned(r, x(r))}
                ELSE {r} \cup UNION {{t, [t EXCEPT !.at = i]} : t \in StreamSent(r)}
    BY DEF Played
  <1>3. Good(r) /\ r.playlist = q.playlist
    <2>1. [q EXCEPT !.at = i].playlist = q.playlist
      BY DEF Good, Fields
    <2> QED BY <1>1, <2>1, LookKeepsGood
  <1> HIDE DEF x
  <1>4. CASE x(r) \in Tracks
    <2>1. PICK t \in Positioned(r, x(r)) : p \in {t, [t EXCEPT !.at = i, !.current = x(r)]}
      BY <1>2, <1>4
    <2>2. x(r) \in Range(r.playlist)
      <3> DEFINE o == [q EXCEPT !.at = i]
      <3>1. o.playlist = q.playlist /\ o.at = i
        BY DEF Good, Fields
      <3>2. (IF i \in DOMAIN r.order THEN r.order[i] ELSE i) \in DOMAIN r.playlist
        <4>1. Good(o) /\ r \in Looked(o)
          BY <1>1, <1>2
        <4> HIDE DEF o
        <4>2. ~Stuck(o) /\ i \in DOMAIN o.playlist
          BY <3>1 DEF Stuck
        <4> QED BY <4>1, <4>2, LookedListed
      <3> QED BY <3>2 DEF x, Range
    <2>3. Good(t)
      BY <1>3, <2>2, PositionedGood
    <2>4. x(r) \in Tracks \cup {NoTrack}
      BY <1>4
    <2>5. Good([t EXCEPT !.at = i, !.current = x(r)])
      BY <1>1, <2>3, <2>4, PlaceChanges
    <2> QED BY <2>1, <2>3, <2>5
  <1>5. CASE x(r) \notin Tracks
    <2>1. CASE p = r
      BY <1>3, <2>1
    <2>2. CASE p # r
      <3>1. PICK t \in StreamSent(r) : p \in {t, [t EXCEPT !.at = i]}
        BY <1>2, <1>5, <2>2
      <3> QED BY <1>1, <1>3, <3>1, StreamSentGood, PlaceChanges
    <2> QED BY <2>1, <2>2
  <1> QED BY <1>4, <1>5

\* The web interface playing an entry of the list leaves the queue good.
LEMMA WebPlayedGood ==
    ASSUME NEW q, Good(q), NEW i \in Nat, NEW p \in WebPlayed(q, i)
    PROVE  Good(p)
  <1>1. CASE i \notin DOMAIN q.playlist
    BY <1>1 DEF WebPlayed
  <1>2. CASE i \in DOMAIN q.playlist
    <2> DEFINE o    == [q EXCEPT !.at = i]
               x    == q.playlist[i]
               sent == IF x \in Tracks THEN {[o EXCEPT !.current = x]} ELSE {o} \cup StreamSent(o)
    <2>1. Good(o)
      BY PlaceChanges
    <2>2. p \in sent \cup {[r EXCEPT !.at = 0] : r \in sent}
      BY <1>2 DEF WebPlayed
    <2> HIDE DEF o
    <2>3. \A r \in sent : Good(r)
      <3>1. CASE x \in Tracks
        <4>1. sent = {[o EXCEPT !.current = x]} /\ x \in Tracks \cup {NoTrack}
          BY <3>1
        <4> HIDE DEF x, sent
        <4>2. Good([o EXCEPT !.current = x])
          BY <2>1, <4>1, PlaceChanges
        <4> QED BY <4>1, <4>2
      <3>2. CASE x \notin Tracks
        BY <2>1, <3>2, StreamSentGood
      <3> QED BY <3>1, <3>2
    <2> HIDE DEF sent
    <2> QED BY <2>2, <2>3, PlaceChanges
  <1> QED BY <1>1, <1>2
-----------------------------------------------------------------------------
(* Editing the list *)

\* What taking an element out of a sequence leaves.
LEMMA Removal ==
    ASSUME NEW S, NEW s \in Seq(S), NEW i \in 1 .. Len(s)
    PROVE  /\ RemoveAt(s, i) \in Seq(S) /\ Len(RemoveAt(s, i)) = Len(s) - 1
           /\ \A k \in 1 .. Len(s) - 1 :
                 RemoveAt(s, i)[k] = IF k < i THEN s[k] ELSE s[k + 1]
  <1> DEFINE front == SubSeq(s, 1, i - 1)
             back  == SubSeq(s, i + 1, Len(s))
  <1>1. front \in Seq(S) /\ Len(front) = i - 1 /\ \A k \in 1 .. i - 1 : front[k] = s[k]
    OBVIOUS
  <1>2. /\ back \in Seq(S) /\ Len(back) = Len(s) - i
        /\ \A k \in 1 .. Len(s) - i : back[k] = s[k + i]
    OBVIOUS
  <1>3. RemoveAt(s, i) = front \o back
    BY DEF RemoveAt
  <1> HIDE DEF front, back
  <1>4. /\ front \o back \in Seq(S) /\ Len(front \o back) = Len(s) - 1
        /\ \A k \in 1 .. Len(s) - 1 :
              (front \o back)[k] = IF k <= i - 1 THEN front[k] ELSE back[k - (i - 1)]
    <2>1. /\ front \o back \in Seq(S) /\ Len(front \o back) = Len(front) + Len(back)
          /\ \A k \in 1 .. Len(front) + Len(back) :
                (front \o back)[k] = IF k <= Len(front) THEN front[k] ELSE back[k - Len(front)]
      BY <1>1, <1>2, ConcatProperties, Zenon
    <2>2. Len(front) = i - 1 /\ Len(front) + Len(back) = Len(s) - 1
      BY <1>1, <1>2
    <2> QED BY <2>1, <2>2, Zenon
  <1>5. ASSUME NEW k \in 1 .. Len(s) - 1
        PROVE  (front \o back)[k] = IF k < i THEN s[k] ELSE s[k + 1]
    <2>1. CASE k < i
      BY <1>1, <1>4, <2>1
    <2>2. CASE ~(k < i)
      <3>1. k - (i - 1) \in 1 .. Len(s) - i /\ k - (i - 1) + i = k + 1
        BY <2>2
      <3> QED BY <1>2, <1>4, <2>2, <3>1
    <2> QED BY <2>1, <2>2
  <1> QED BY <1>3, <1>4, <1>5

\* What putting an element into a sequence gives.
LEMMA Insertion ==
    ASSUME NEW S, NEW s \in Seq(S), NEW i \in 1 .. Len(s) + 1, NEW x \in S
    PROVE  /\ InsertAt(s, i, x) \in Seq(S) /\ Len(InsertAt(s, i, x)) = Len(s) + 1
           /\ \A k \in 1 .. Len(s) + 1 :
                 InsertAt(s, i, x)[k] =
                     IF k < i THEN s[k] ELSE IF k = i THEN x ELSE s[k - 1]
  <1> DEFINE front == SubSeq(s, 1, i - 1)
             back  == SubSeq(s, i, Len(s))
  <1>1. front \in Seq(S) /\ Len(front) = i - 1 /\ \A k \in 1 .. i - 1 : front[k] = s[k]
    OBVIOUS
  <1>2. /\ back \in Seq(S) /\ Len(back) = Len(s) - i + 1
        /\ \A k \in 1 .. Len(s) - i + 1 : back[k] = s[k + i - 1]
    OBVIOUS
  <1>3. InsertAt(s, i, x) = front \o <<x>> \o back
    BY DEF InsertAt
  <1> DEFINE head == front \o <<x>>
  <1>4. /\ head \in Seq(S) /\ Len(head) = i
        /\ \A k \in 1 .. i : head[k] = IF k < i THEN s[k] ELSE x
    <2> HIDE DEF front
    <2> QED BY <1>1
  <1> HIDE DEF front, back, head
  <1>5. InsertAt(s, i, x) = head \o back
    BY <1>3 DEF head
  <1>6. /\ head \o back \in Seq(S) /\ Len(head \o back) = Len(s) + 1
        /\ \A k \in 1 .. Len(s) + 1 :
              (head \o back)[k] = IF k <= i THEN head[k] ELSE back[k - i]
    <2>1. /\ head \o back \in Seq(S) /\ Len(head \o back) = Len(head) + Len(back)
          /\ \A k \in 1 .. Len(head) + Len(back) :
                (head \o back)[k] = IF k <= Len(head) THEN head[k] ELSE back[k - Len(head)]
      BY <1>2, <1>4, ConcatProperties, Zenon
    <2>2. Len(head) = i /\ Len(head) + Len(back) = Len(s) + 1
      BY <1>2, <1>4
    <2> QED BY <2>1, <2>2, Zenon
  <1>7. ASSUME NEW k \in 1 .. Len(s) + 1
        PROVE  (head \o back)[k] = IF k < i THEN s[k] ELSE IF k = i THEN x ELSE s[k - 1]
    <2>1. CASE k <= i
      BY <1>4, <1>6, <2>1
    <2>2. CASE ~(k <= i)
      <3>1. k - i \in 1 .. Len(s) - i + 1 /\ k - i + i - 1 = k - 1
        BY <2>2
      <3> QED BY <1>2, <1>6, <2>2, <3>1
    <2> QED BY <2>1, <2>2
  <1> QED BY <1>5, <1>6, <1>7

\* An insertion leaves what is before it in its place.
LEMMA BeforeInsertion ==
    ASSUME NEW s \in Seq(Items), NEW i \in 1 .. Len(s) + 1, NEW x \in Items
    PROVE  \A k \in 1 .. i - 1 : k \in DOMAIN InsertAt(s, i, x) /\ InsertAt(s, i, x)[k] = s[k]
  <1> DEFINE list == InsertAt(s, i, x)
  <1>1. /\ list \in Seq(Items) /\ Len(list) = Len(s) + 1
        /\ \A l \in 1 .. Len(s) + 1 :
              list[l] = IF l < i THEN s[l] ELSE IF l = i THEN x ELSE s[l - 1]
    BY Insertion, SMTT(60)
  <1> HIDE DEF list
  <1>2. ASSUME NEW k \in 1 .. i - 1
        PROVE  k \in DOMAIN list /\ list[k] = s[k]
    <2>1. k \in 1 .. Len(s) + 1 /\ k < i /\ DOMAIN list = 1 .. Len(s) + 1
      BY <1>1
    <2> QED BY <1>1, <2>1
  <1> QED BY <1>2 DEF list

\* Skipping a number and closing the gap it leaves.
LEMMA GapCloses ==
    ASSUME NEW n \in Nat, NEW c \in 1 .. n
    PROVE  LET up(k)   == IF k < c THEN k ELSE k + 1
               down(v) == IF v > c THEN v - 1 ELSE v
           IN  /\ \A k \in 1 .. n - 1 : up(k) \in 1 .. n /\ up(k) # c
               /\ \A k, l \in 1 .. n - 1 : up(k) = up(l) => k = l
               /\ \A j \in 1 .. n : j # c => \E k \in 1 .. n - 1 : up(k) = j
               /\ \A v \in 1 .. n : v # c => down(v) \in 1 .. n - 1
               /\ \A v, w \in 1 .. n : v # c /\ w # c /\ down(v) = down(w) => v = w
               /\ \A d \in 1 .. n - 1 : \E v \in 1 .. n : v # c /\ down(v) = d
  <1>1. ASSUME NEW j \in 1 .. n, j # c
        PROVE  \E k \in 1 .. n - 1 : (IF k < c THEN k ELSE k + 1) = j
    <2>1. CASE j < c
      BY <2>1
    <2>2. CASE j > c
      <3>1. j - 1 \in 1 .. n - 1 /\ ~(j - 1 < c) /\ j - 1 + 1 = j
        BY <2>2
      <3> QED BY <3>1
    <2> QED BY <1>1, <2>1, <2>2
  <1>2. ASSUME NEW d \in 1 .. n - 1
        PROVE  \E v \in 1 .. n : v # c /\ (IF v > c THEN v - 1 ELSE v) = d
    <2>1. CASE d < c
      BY <2>1
    <2>2. CASE d >= c
      <3>1. d + 1 \in 1 .. n /\ d + 1 > c /\ d + 1 - 1 = d
        BY <2>2
      <3> QED BY <3>1
    <2> QED BY <2>1, <2>2
  <1> QED BY <1>1, <1>2

\* What an order lists without one of its places.
LEMMA UnlistedPlaces ==
    ASSUME NEW o \in Seq(Nat \ {0}), Sound(o), NEW i \in 1 .. Len(o)
    PROVE  LET n == Len(o)
               up(k)   == IF k < i THEN k ELSE k + 1
               down(v) == IF v > o[i] THEN v - 1 ELSE v
           IN  /\ Unlisted(o, i) \in [1 .. n - 1 -> 1 .. n - 1]
               /\ \A k \in 1 .. n - 1 : /\ o[up(k)] \in 1 .. n /\ o[up(k)] # o[i]
                                        /\ Unlisted(o, i)[k] = down(o[up(k)])
  <1> DEFINE n == Len(o)
             rest == RemoveAt(o, i)
             u == Unlisted(o, i)
             c == o[i]
             up(k)   == IF k < i THEN k ELSE k + 1
             down(v) == IF v > c THEN v - 1 ELSE v
  <1>1. /\ n \in Nat /\ o \in [1 .. n -> 1 .. n]
        /\ \A a, b \in 1 .. n : o[a] = o[b] => a = b
    BY DEF Sound, Bijection, Injection, IsInjective
  <1>2. /\ rest \in Seq(Nat \ {0}) /\ Len(rest) = n - 1
        /\ \A k \in 1 .. n - 1 : rest[k] = IF k < i THEN o[k] ELSE o[k + 1]
    BY Removal
  <1>3. u = [k \in 1 .. n - 1 |-> IF rest[k] > c THEN rest[k] - 1 ELSE rest[k]]
    <2>1. DOMAIN rest = 1 .. n - 1 /\ i \in DOMAIN o
      BY <1>1, <1>2
    <2>2. u = [k \in DOMAIN rest |-> IF rest[k] > c THEN rest[k] - 1 ELSE rest[k]]
      BY <2>1 DEF Unlisted
    <2> HIDE DEF u, rest
    <2> QED BY <2>1, <2>2
  <1>4. c \in 1 .. n
    BY <1>1
  <1>5. \A k \in 1 .. n - 1 : up(k) \in 1 .. n /\ up(k) # i
    BY <1>1, GapCloses
  <1>6. \A v \in 1 .. n : v # c => down(v) \in 1 .. n - 1
    <2> HIDE DEF c, n
    <2> QED BY <1>1, <1>4, GapCloses
  <1>7. \A k \in 1 .. n - 1 : u[k] = down(o[up(k)])
    <2> HIDE DEF rest, u
    <2>1. \A k \in 1 .. n - 1 : rest[k] = o[up(k)]
      BY <1>2
    <2> HIDE DEF n
    <2> QED BY <1>3, <2>1
  <1> HIDE DEF up, down, u, n, rest
  <1>8. \A k \in 1 .. n - 1 : o[up(k)] \in 1 .. n /\ o[up(k)] # c
    BY <1>1, <1>5 DEF n
  <1> HIDE DEF c
  <1>9. u \in [1 .. n - 1 -> 1 .. n - 1]
    <2>1. \A k \in 1 .. n - 1 : u[k] \in 1 .. n - 1
      BY <1>6, <1>7, <1>8
    <2> QED BY <1>3, <2>1
  <1> QED BY <1>7, <1>8, <1>9 DEF up, down, u, n, c

\* An order without one of its places, renumbered, is an order.
LEMMA UnlistedSound ==
    ASSUME NEW o \in Seq(Nat \ {0}), Sound(o), NEW i \in Nat
    PROVE  Unlisted(o, i) \in Seq(Nat \ {0}) /\ Sound(Unlisted(o, i))
  <1> DEFINE n == Len(o)
             u == Unlisted(o, i)
  <1>1. /\ n \in Nat /\ n <= MaxLen /\ o \in [1 .. n -> 1 .. n]
        /\ \A a, b \in 1 .. n : o[a] = o[b] => a = b
        /\ \A v \in 1 .. n : \E k \in 1 .. n : o[k] = v
    BY DEF Sound, Bijection, Injection, Surjection, IsInjective
  <1>2. CASE i \notin DOMAIN o
    BY <1>2 DEF Unlisted
  <1>3. CASE i \in 1 .. n
    <2> DEFINE c == o[i]
               up(k)   == IF k < i THEN k ELSE k + 1
               down(v) == IF v > c THEN v - 1 ELSE v
    <2>1. /\ u \in [1 .. n - 1 -> 1 .. n - 1]
          /\ \A k \in 1 .. n - 1 : /\ o[up(k)] \in 1 .. n /\ o[up(k)] # c
                                   /\ u[k] = down(o[up(k)])
      BY <1>3, UnlistedPlaces
    <2>2. c \in 1 .. n
      BY <1>1, <1>3
    <2>3. /\ \A k \in 1 .. n - 1 : up(k) \in 1 .. n
          /\ \A k, l \in 1 .. n - 1 : up(k) = up(l) => k = l
          /\ \A j \in 1 .. n : j # i => \E k \in 1 .. n - 1 : up(k) = j
      BY <1>1, <1>3, GapCloses
    <2>4. /\ \A v, w \in 1 .. n : v # c /\ w # c /\ down(v) = down(w) => v = w
          /\ \A d \in 1 .. n - 1 : \E v \in 1 .. n : v # c /\ down(v) = d
      <3> HIDE DEF c, n
      <3> QED BY <1>1, <2>2, GapCloses
    <2>5. n - 1 \in Nat /\ n - 1 <= MaxLen
      <3> HIDE DEF n
      <3>1. n \in Nat /\ n <= MaxLen /\ i \in 1 .. n /\ MaxLen \in Nat
        BY <1>1, <1>3, LengthAssumption
      <3> QED BY <3>1
    <2> HIDE DEF up, down, u, n
    <2>6. ASSUME NEW k \in 1 .. n - 1, NEW l \in 1 .. n - 1, u[k] = u[l]
          PROVE  k = l
      <3> HIDE DEF c
      <3>1. o[up(k)] = o[up(l)]
        BY <2>1, <2>4, <2>6
      <3> QED BY <1>1, <2>3, <3>1
    <2>7. ASSUME NEW d \in 1 .. n - 1 PROVE \E k \in 1 .. n - 1 : u[k] = d
      <3>1. PICK v \in 1 .. n : v # c /\ down(v) = d
        BY <2>4
      <3>2. PICK j \in 1 .. n : o[j] = v
        BY <1>1
      <3>3. PICK k \in 1 .. n - 1 : up(k) = j
        BY <2>3, <3>1, <3>2
      <3> HIDE DEF c
      <3> QED BY <2>1, <3>1, <3>2, <3>3
    <2>8. u \in Bijection(1 .. n - 1, 1 .. n - 1)
      BY <2>1, <2>6, <2>7 DEF Bijection, Injection, Surjection, IsInjective
    <2>9. u \in Seq(Nat \ {0}) /\ Len(u) = n - 1
      BY <2>1, <2>5
    <2> QED BY <2>5, <2>8, <2>9 DEF Sound, u
  <1> QED BY <1>1, <1>2, <1>3

\* Removing a place leaves the queue good.
LEMMA RemovedGood ==
    ASSUME NEW q, Good(q), NEW i \in DOMAIN q.playlist,
           (IF i \in DOMAIN q.order THEN q.order[i] ELSE i) \in DOMAIN q.playlist
    PROVE  Good(Removed(q, i))
  <1> DEFINE raw  == IF i \in DOMAIN q.order THEN q.order[i] ELSE i
             gone == IF q.mode # 0 THEN raw ELSE i
             list == RemoveAt(q.playlist, gone)
             ord  == IF q.mode # 0 THEN Unlisted(q.order, i) ELSE InOrder(Len(list))
             at   == IF q.at > i THEN q.at - 1 ELSE q.at
  <1>1. /\ q.playlist \in Seq(Items) /\ q.order \in Seq(Nat \ {0})
        /\ q.at \in Nat /\ i \in Nat \ {0} /\ Len(q.playlist) <= MaxLen
        /\ DOMAIN q.playlist = 1 .. Len(q.playlist)
    BY DEF Good, Fields
  <1>2. gone \in 1 .. Len(q.playlist)
    BY <1>1
  <1> HIDE DEF gone
  <1>3. list \in Seq(Items) /\ Len(list) = Len(q.playlist) - 1
    BY <1>1, <1>2, Removal
  <1> HIDE DEF list
  <1>4. Len(list) \in 0 .. MaxLen
    BY <1>1, <1>2, <1>3, LengthAssumption
  <1>5. /\ ord \in Seq(Nat \ {0}) /\ Sound(ord)
        /\ q.mode = 0 => ord = InOrder(Len(ord))
    <2>1. CASE q.mode = 0
      BY <1>4, <2>1, InOrderIsOrder, OrdersAreSound
    <2>2. CASE q.mode # 0
      BY <1>1, <2>2, UnlistedSound DEF Good
    <2> QED BY <2>1, <2>2
  <1>6. at \in Nat
    BY <1>1
  <1>7. Removed(q, i) = [q EXCEPT !.playlist = list, !.order = ord, !.built = q.mode, !.at = at]
    BY DEF Removed, list, gone, Good, Fields
  <1> HIDE DEF ord, at
  <1> DEFINE r == Removed(q, i)
  <1>8. /\ r \in Fields /\ r.playlist = list /\ r.order = ord /\ r.built = q.mode
    BY <1>3, <1>5, <1>6, <1>7 DEF Good, Fields
  <1>9. Len(list) <= MaxLen
    BY <1>4
  <1> HIDE DEF r
  <1>10. Good(r)
    BY <1>5, <1>8, <1>9 DEF Good
  <1> QED BY <1>10 DEF r

\* Another list leaves a queue good, whatever its order was drawn for.
LEMMA ListChanges ==
    ASSUME NEW q, Good(q), NEW list \in Seq(Items), Len(list) <= MaxLen
    PROVE  /\ Good([q EXCEPT !.playlist = list])
           /\ Good([q EXCEPT !.playlist = list, !.at = 1])
           /\ \A i \in Nat : Good([q EXCEPT !.playlist = list, !.at = i])
  <1>1. ASSUME NEW i \in Nat
        PROVE  Good([q EXCEPT !.playlist = list, !.at = i])
    <2> DEFINE r == [q EXCEPT !.playlist = list, !.at = i]
    <2>1. r \in Fields /\ r.playlist = list /\ r.order = q.order /\ r.built = q.built
      BY DEF Good, Fields
    <2> HIDE DEF r
    <2>2. Good(r)
      BY <2>1 DEF Good
    <2> QED BY <2>2 DEF r
  <1>2. Good([q EXCEPT !.playlist = list])
    <2>1. [q EXCEPT !.playlist = list] = [q EXCEPT !.playlist = list, !.at = q.at] /\ q.at \in Nat
      BY DEF Good, Fields
    <2> QED BY <1>1, <2>1
  <1> QED BY <1>1, <1>2

\* A queue with list, order and mode of drawing replaced.
LEMMA OrderChanges ==
    ASSUME NEW q, Good(q), NEW list \in Seq(Items), Len(list) <= MaxLen,
           NEW o \in Orders[Len(list)], NEW m \in Modes, m = 0 => o = InOrder(Len(list)),
           NEW i \in Nat, NEW x \in Tracks \cup {NoTrack}
    PROVE  Good([q EXCEPT !.playlist = list, !.order = o, !.built = m, !.at = i,
                          !.current = x])
  <1> DEFINE r == [q EXCEPT !.playlist = list, !.order = o, !.built = m, !.at = i,
                            !.current = x]
  <1>1. o \in Seq(Nat \ {0}) /\ Len(o) = Len(list) /\ Sound(o)
    BY OrdersAreSound, LengthAssumption
  <1>2. r \in Fields /\ r.playlist = list /\ r.order = o /\ r.built = m
    BY <1>1 DEF Good, Fields
  <1> HIDE DEF r
  <1>3. Good(r)
    BY <1>1, <1>2 DEF Good
  <1> QED BY <1>3 DEF r

\* The order of a queue of one.
LEMMA SingleOrder ==
    /\ <<1>> \in Orders[1] /\ <<1>> = InOrder(1)
    /\ \A x : Len(<<x>>) = 1
    /\ \A x \in Items : <<x>> \in Seq(Items)
    /\ 1 <= MaxLen
  <1>1. 1 \in 0 .. MaxLen /\ 1 <= MaxLen
    BY LengthAssumption
  <1>2. InOrder(1) \in Orders[1]
    BY <1>1, InOrderIsOrder
  <1>3. InOrder(1) \in Seq(Nat) /\ Len(InOrder(1)) = 1 /\ InOrder(1)[1] = 1
    BY DEF InOrder
  <1>4. InOrder(1) = <<1>>
    <2> DEFINE o == InOrder(1)
    <2>1. o \in Seq(Nat) /\ Len(o) = 1 /\ o[1] = 1
      BY <1>3
    <2> HIDE DEF o
    <2>2. o = <<1>>
      BY <2>1
    <2> QED BY <2>2 DEF o
  <1> QED BY <1>1, <1>2, <1>4

\* The lists that replace a queue.
LEMMA ListsAreSequences ==
    ASSUME NEW S, S \subseteq Items, NEW list \in Lists(S)
    PROVE  /\ list \in Seq(Items) /\ Len(list) <= MaxLen
           /\ 1 \in DOMAIN list /\ list # <<>>
  <1>1. PICK n \in 1 .. MaxLen : list \in [1 .. n -> S]
    BY DEF Lists
  <1>2. list \in Seq(Items) /\ Len(list) = n
    BY <1>1, LengthAssumption
  <1>3. n \in Nat /\ 1 \in 1 .. n /\ n <= MaxLen
    BY <1>1, LengthAssumption
  <1> QED BY <1>1, <1>2, <1>3, EmptySeq
-----------------------------------------------------------------------------
(* Every command keeps the queue good *)

LEMMA LookGood == ASSUME IInv, Look PROVE IInv'
  BY LookKeepsGood DEF IInv, Look

LEMMA AddGood ==
    ASSUME IInv, NEW x \in Tracks, Add(x)
    PROVE  IInv'
  <1> USE DEF IInv
  <1> DEFINE list == IF x \in Range(queue.playlist) THEN queue.playlist
                     ELSE Append(queue.playlist, x)
             q    == [queue EXCEPT !.playlist = list]
  <1>1. /\ Len(list) <= MaxLen
        /\ IF queue.mode # 0 THEN queue' \in Reshuffled(q, TRUE)
           ELSE queue' = [q EXCEPT !.order = InOrder(Len(list)), !.built = 0]
    BY DEF Add
  <1>2. list \in Seq(Items)
    BY DEF Good, Fields, Items
  <1>3. Good(q)
    <2> HIDE DEF list
    <2> QED BY <1>1, <1>2, ListChanges
  <1>4. CASE queue.mode # 0
    <2> HIDE DEF q
    <2> QED BY <1>1, <1>3, <1>4, ReshuffleKeepsGood
  <1>5. CASE queue.mode = 0
    <2>1. /\ queue.at \in Nat /\ queue.current \in Tracks \cup {NoTrack} /\ 0 \in Modes
      BY DEF Good, Fields, Modes
    <2>2. InOrder(Len(list)) \in Orders[Len(list)]
      <3>1. Len(list) \in 0 .. MaxLen
        BY <1>1, <1>2, LengthAssumption
      <3> QED BY <3>1, InOrderIsOrder
    <2> HIDE DEF list
    <2>3. queue' = [queue EXCEPT !.playlist = list, !.order = InOrder(Len(list)), !.built = 0,
                                 !.at = queue.at, !.current = queue.current]
      BY <1>1, <1>5 DEF Good, Fields
    <2> QED BY <1>1, <1>2, <2>1, <2>2, <2>3, OrderChanges
  <1> QED BY <1>4, <1>5

LEMMA WebAddGood ==
    ASSUME IInv, NEW x \in Items, WebAdd(x)
    PROVE  IInv'
  <1>1. Append(queue.playlist, x) \in Seq(Items)
        /\ Len(Append(queue.playlist, x)) <= MaxLen
    BY LengthAssumption DEF IInv, Good, Fields, WebAdd
  <1> QED BY <1>1, ListChanges DEF IInv, WebAdd

LEMMA WebInsertGood ==
    ASSUME IInv, NEW x \in Items, WebInsert(x)
    PROVE  IInv'
  <1> DEFINE n == Len(queue.playlist)
             p == IF queue.at < n THEN queue.at ELSE n
             list == InsertAt(queue.playlist, p + 1, x)
  <1>1. /\ queue.playlist \in Seq(Items) /\ n \in Nat /\ queue.at \in Nat
        /\ n < MaxLen /\ queue' = [queue EXCEPT !.playlist = list]
    BY DEF WebInsert, IInv, Good, Fields
  <1>2. p + 1 \in 1 .. n + 1
    BY <1>1
  <1>3. list \in Seq(Items) /\ Len(list) = n + 1
    <2> HIDE DEF p
    <2> QED BY <1>1, <1>2, Insertion
  <1>4. Len(list) <= MaxLen
    BY <1>1, <1>3, LengthAssumption
  <1> HIDE DEF list
  <1> QED BY <1>1, <1>3, <1>4, ListChanges DEF IInv

LEMMA DeleteGood ==
    ASSUME IInv, NEW i \in Nat, Delete(i)
    PROVE  IInv'
  <1> USE DEF IInv
  <1>1. CASE Stuck(queue)
    BY <1>1 DEF Delete
  <1>2. CASE ~Stuck(queue)
    <2>1. PICK q \in Looked(queue) : queue' = Removed(q, i)
      BY <1>2 DEF Delete
    <2>2. i \in DOMAIN queue.playlist
      BY DEF Delete
    <2>3. Good(q) /\ q.playlist = queue.playlist
      BY <2>1, LookKeepsGood
    <2>4. (IF i \in DOMAIN q.order THEN q.order[i] ELSE i) \in DOMAIN q.playlist
      BY <1>2, <2>1, <2>2, LookedListed
    <2> QED BY <2>1, <2>2, <2>3, <2>4, RemovedGood
  <1> QED BY <1>1, <1>2

LEMMA MoveGood ==
    ASSUME IInv, NEW i \in Nat, NEW j \in Nat, Move(i, j)
    PROVE  IInv'
  <1> DEFINE pl   == queue.playlist
             rest == RemoveAt(pl, i)
             list == InsertAt(rest, j, pl[i])
  <1>1. /\ pl \in Seq(Items) /\ i \in 1 .. Len(pl) /\ j \in 1 .. Len(pl)
        /\ Len(pl) <= MaxLen /\ pl[i] \in Items
    BY DEF Move, IInv, Good, Fields
  <1>2. queue' = [queue EXCEPT !.playlist = list]
    BY DEF Move, IInv, Good, Fields
  <1> HIDE DEF pl
  <1>3. rest \in Seq(Items) /\ Len(rest) = Len(pl) - 1
    BY <1>1, Removal
  <1>4. j \in 1 .. Len(rest) + 1
    BY <1>1, <1>3
  <1> HIDE DEF rest
  <1>5. list \in Seq(Items) /\ Len(list) = Len(rest) + 1
    BY <1>1, <1>3, <1>4, Insertion
  <1>6. Len(list) <= MaxLen
    BY <1>1, <1>3, <1>5
  <1> HIDE DEF list
  <1> QED BY <1>2, <1>5, <1>6, ListChanges DEF IInv

LEMMA ClearGood == ASSUME IInv, Clear PROVE IInv'
  <1> DEFINE e == <<>>
  <1>1. /\ e \in Seq(Items) /\ Len(e) = 0 /\ 0 <= MaxLen
        /\ e \in Orders[0] /\ e = InOrder(0)
    BY EmptyOrder, InOrderIsOrder, LengthAssumption
  <1>2. queue' = [queue EXCEPT !.playlist = e, !.order = e, !.built = queue.mode, !.at = 1]
    BY DEF Clear
  <1> HIDE DEF e
  <1>3. queue' = [queue EXCEPT !.playlist = e, !.order = e, !.built = queue.mode, !.at = 1,
                               !.current = queue.current]
    BY <1>2 DEF IInv, Good, Fields
  <1>4. queue.mode \in Modes /\ queue.current \in Tracks \cup {NoTrack}
    BY DEF IInv, Good, Fields
  <1> QED BY <1>1, <1>3, <1>4, OrderChanges DEF IInv

LEMMA WebClearGood == ASSUME IInv, WebClear PROVE IInv'
  <1> DEFINE e == <<>>
  <1>1. e \in Seq(Items) /\ Len(e) <= MaxLen
    BY EmptyOrder, LengthAssumption
  <1>2. queue' = [queue EXCEPT !.playlist = e]
    BY DEF WebClear
  <1> HIDE DEF e
  <1> QED BY <1>1, <1>2, ListChanges DEF IInv

LEMMA LoadStoredGood ==
    ASSUME IInv, NEW list \in Lists(Tracks), LoadStored(list)
    PROVE  IInv'
  <1> DEFINE p == [queue EXCEPT !.playlist = list, !.at = 1]
  <1>1. list \in Seq(Items) /\ Len(list) <= MaxLen /\ 1 \in DOMAIN list
    BY ListsAreSequences DEF Items
  <1>2. Good(p) /\ p.playlist = list
    BY <1>1, ListChanges DEF IInv, Good, Fields
  <1>3. PICK q \in Reshuffled(p, FALSE) : queue' \in Played([q EXCEPT !.at = 1], 1)
    BY DEF LoadStored
  <1> HIDE DEF p
  <1>4. Good(q) /\ q.playlist = list
    BY <1>2, <1>3, ReshuffleKeepsGood
  <1> DEFINE r == [q EXCEPT !.at = 1]
  <1>5. Good(r) /\ r.playlist = list
    BY <1>4, PlaceChanges DEF Good, Fields
  <1>6. queue' \in Played(r, 1)
    BY <1>3
  <1> HIDE DEF r
  <1> QED BY <1>1, <1>5, <1>6, PlayedGood DEF IInv

LEMMA LoadStreamsGood ==
    ASSUME IInv, NEW list \in Lists(Streams), LoadStreams(list)
    PROVE  IInv'
  <1> DEFINE p == [queue EXCEPT !.playlist = list, !.at = 1]
  <1>1. list \in Seq(Items) /\ Len(list) <= MaxLen /\ 1 \in DOMAIN list
    BY ListsAreSequences DEF Items
  <1>2. Good(p) /\ p.playlist = list
    BY <1>1, ListChanges DEF IInv, Good, Fields
  <1>3. queue' \in Played(p, 1)
    BY DEF LoadStreams
  <1> HIDE DEF p
  <1> QED BY <1>1, <1>2, <1>3, PlayedGood DEF IInv

LEMMA WebLoadGood ==
    ASSUME IInv, NEW list \in Lists(Tracks), NEW i \in Nat, WebLoad(list, i)
    PROVE  IInv'
  <1> DEFINE p == [queue EXCEPT !.playlist = list]
  <1>1. list \in Seq(Items) /\ Len(list) <= MaxLen
    BY ListsAreSequences DEF Items
  <1>2. Good(p)
    BY <1>1, ListChanges DEF IInv
  <1>3. queue' \in WebPlayed(p, i)
    BY DEF WebLoad
  <1> HIDE DEF p
  <1> QED BY <1>2, <1>3, WebPlayedGood DEF IInv

LEMMA ModeGood ==
    ASSUME IInv, NEW m \in Modes, Shuffle(m) \/ SetMode(m)
    PROVE  IInv'
  <1> DEFINE p == [queue EXCEPT !.mode = m]
  <1>1. Good(p)
    BY DEF IInv, Good, Fields
  <1>2. queue' \in Reshuffled(p, TRUE) \/ queue' = p
    BY DEF Shuffle, SetMode
  <1> HIDE DEF p
  <1> QED BY <1>1, <1>2, ReshuffleKeepsGood DEF IInv

LEMMA JumpGood ==
    ASSUME IInv, NEW i \in Nat, Jump(i) \/ WebJump(i)
    PROVE  IInv'
  <1>1. CASE Jump(i)
    BY <1>1, PlayedGood DEF Jump, IInv
  <1>2. CASE WebJump(i)
    <2> DEFINE p == [queue EXCEPT !.at = i]
    <2>1. Good(p) /\ queue' \in WebPlayed(p, i)
      BY <1>2, PlaceChanges DEF WebJump, IInv, Good, Fields
    <2> HIDE DEF p
    <2> QED BY <2>1, WebPlayedGood DEF IInv
  <1> QED BY <1>1, <1>2

LEMMA PlayTrackGood ==
    ASSUME IInv, NEW x \in Tracks, PlayTrack(x)
    PROVE  IInv'
  <1> DEFINE n == Len(queue.playlist)
             ready == IF queue.playlist = <<>>
                 THEN {[queue EXCEPT !.playlist = <<x>>, !.order = <<1>>, !.at = 1,
                                     !.built = queue.mode]}
                 ELSE IF x \in Range(queue.playlist) THEN Positioned(queue, x)
                 ELSE {[queue EXCEPT !.playlist = Append(@, x), !.at = n + 1]}
  <1>1. UNCHANGED queue \/ \E q \in ready : queue' \in {q, [q EXCEPT !.current = x]}
    BY DEF PlayTrack
  <1>2. ASSUME NEW q \in ready PROVE Good(q)
    <2>1. CASE queue.playlist = <<>>
      <3>1. /\ queue.mode \in Modes /\ queue.current \in Tracks \cup {NoTrack}
            /\ x \in Items /\ 1 \in Nat
        BY DEF IInv, Good, Fields, Items
      <3> DEFINE list == <<x>>
                 o == <<1>>
      <3>2. /\ list \in Seq(Items) /\ Len(list) = 1 /\ 1 <= MaxLen
            /\ o \in Orders[Len(list)] /\ o = InOrder(Len(list))
        BY <3>1, SingleOrder
      <3>3. q = [queue EXCEPT !.playlist = list, !.order = o, !.at = 1, !.built = queue.mode]
        BY <2>1
      <3> HIDE DEF list, o
      <3>4. q = [queue EXCEPT !.playlist = list, !.order = o, !.built = queue.mode, !.at = 1,
                              !.current = queue.current]
        BY <3>3 DEF IInv, Good, Fields
      <3>5. Good([queue EXCEPT !.playlist = list, !.order = o, !.built = queue.mode, !.at = 1,
                               !.current = queue.current])
        <4>1. Good(queue) /\ Len(list) <= MaxLen
          BY <3>2 DEF IInv
        <4> QED BY <3>1, <3>2, <4>1, OrderChanges
      <3> QED BY <3>4, <3>5
    <2>2. CASE queue.playlist # <<>> /\ x \in Range(queue.playlist)
      BY <2>2, PositionedGood DEF IInv
    <2>3. CASE queue.playlist # <<>> /\ x \notin Range(queue.playlist)
      <3> DEFINE list == Append(queue.playlist, x)
      <3>0. /\ queue.playlist \in Seq(Items) /\ x \in Items /\ n \in Nat
            /\ n < MaxLen /\ MaxLen \in Nat
        BY <2>3, LengthAssumption DEF PlayTrack, IInv, Good, Fields, Items
      <3>1. list \in Seq(Items) /\ Len(list) <= MaxLen /\ n + 1 \in Nat
        BY <3>0
      <3>2. q = [queue EXCEPT !.playlist = list, !.at = n + 1]
        BY <2>3 DEF IInv, Good, Fields
      <3> HIDE DEF list, n
      <3> QED BY <3>1, <3>2, ListChanges DEF IInv
    <2> QED BY <2>1, <2>2, <2>3
  <1>3. x \in Tracks \cup {NoTrack}
    OBVIOUS
  <1> HIDE DEF ready
  <1> QED BY <1>1, <1>2, <1>3, PlaceChanges DEF IInv

LEMMA PlayUrlGood ==
    ASSUME IInv, NEW x \in Streams, PlayUrl(x)
    PROVE  IInv'
  <1> DEFINE list == <<x>>
             o == <<1>>
  <1>1. /\ queue.mode \in Modes /\ NoTrack \in Tracks \cup {NoTrack}
        /\ x \in Items /\ 1 \in Nat
    BY DEF IInv, Good, Fields, Items
  <1>2. /\ list \in Seq(Items) /\ Len(list) = 1 /\ 1 <= MaxLen
        /\ o \in Orders[Len(list)] /\ o = InOrder(Len(list))
    BY <1>1, SingleOrder
  <1>3. \/ UNCHANGED queue
        \/ queue' = [queue EXCEPT !.playlist = list, !.order = o, !.built = queue.mode,
                                  !.at = 1, !.current = NoTrack]
    BY DEF PlayUrl
  <1> HIDE DEF list, o
  <1>4. Good([queue EXCEPT !.playlist = list, !.order = o, !.built = queue.mode, !.at = 1,
                           !.current = NoTrack])
    <2>1. Good(queue) /\ Len(list) <= MaxLen
      BY <1>2 DEF IInv
    <2> QED BY <1>1, <1>2, <2>1, OrderChanges
  <1> QED BY <1>3, <1>4 DEF IInv

LEMMA AdvanceGood ==
    ASSUME IInv, NEW repeat, Advance(repeat)
    PROVE  IInv'
  <1>1. PICK q \in Looked(queue) :
          LET n   == Len(q.playlist)
              cur == IF q.at \in 1 .. n THEN q.at ELSE 1
          IN  \/ repeat = "one" /\ queue' \in Played(q, cur)
              \/ repeat # "one" /\ cur < n /\ queue' \in Played(q, cur + 1)
              \/ repeat = "all" /\ cur = n
                 /\ \E r \in {q} \cup IF q.mode # 0 THEN Reshuffled(q, FALSE) ELSE {} :
                       queue' \in Played(r, 1)
              \/ repeat = "off" /\ cur = n /\ queue' = q
    BY DEF Advance
  <1> DEFINE n   == Len(q.playlist)
             cur == IF q.at \in 1 .. n THEN q.at ELSE 1
  <1>2. Good(q) /\ q.playlist = queue.playlist /\ queue.playlist # <<>>
    BY LookKeepsGood DEF IInv, Advance
  <1>3. DOMAIN q.playlist = 1 .. n /\ n \in Nat \ {0}
    BY <1>2, EmptySeq DEF Good, Fields
  <1>4. CASE queue' \in Played(q, cur)
    <2>1. cur \in DOMAIN q.playlist
      BY <1>3
    <2> HIDE DEF cur
    <2> QED BY <1>2, <1>4, <2>1, PlayedGood DEF IInv
  <1>5. CASE cur < n /\ queue' \in Played(q, cur + 1)
    <2>1. cur + 1 \in DOMAIN q.playlist
      BY <1>3, <1>5
    <2> QED BY <1>2, <1>5, <2>1, PlayedGood DEF IInv
  <1>6. CASE \E r \in {q} \cup IF q.mode # 0 THEN Reshuffled(q, FALSE) ELSE {} :
                queue' \in Played(r, 1)
    <2>1. PICK r \in {q} \cup IF q.mode # 0 THEN Reshuffled(q, FALSE) ELSE {} :
                queue' \in Played(r, 1)
      BY <1>6
    <2>2. r = q \/ r \in Reshuffled(q, FALSE)
      BY <2>1
    <2>3. Good(r) /\ r.playlist = q.playlist
      BY <1>2, <2>2, ReshuffleKeepsGood
    <2> QED BY <1>3, <2>1, <2>3, PlayedGood DEF IInv
  <1>7. CASE queue' = q
    BY <1>2, <1>7 DEF IInv
  <1> HIDE DEF n, cur
  <1> QED BY <1>1, <1>4, <1>5, <1>6, <1>7 DEF n, cur
-----------------------------------------------------------------------------
(* The theorems *)

LEMMA InitGood == Init => IInv
  <1> DEFINE e == <<>>
  <1>1. /\ e \in Seq(Items) /\ e \in Seq(Nat \ {0}) /\ Len(e) = 0 /\ Sound(e)
    BY EmptyOrder
  <1>2. ASSUME Init
        PROVE  queue = [playlist |-> e, order |-> e, built |-> Unbuilt, mode |-> 0,
                        at |-> 1, current |-> NoTrack]
    BY <1>2 DEF Init
  <1> HIDE DEF e
  <1>3. ASSUME Init PROVE Good(queue)
    <2>1. /\ queue.playlist = e /\ queue.order = e /\ queue.built = -1
          /\ Len(queue.playlist) <= MaxLen
      BY <1>1, <1>2, <1>3, LengthAssumption DEF Unbuilt
    <2>2. queue \in Fields
      <3>1. /\ -1 \in Modes \cup {Unbuilt} /\ 0 \in Modes /\ 1 \in Nat
            /\ NoTrack \in Tracks \cup {NoTrack}
        BY DEF Modes, Unbuilt
      <3>2. queue = [playlist |-> e, order |-> e, built |-> -1, mode |-> 0, at |-> 1,
                     current |-> NoTrack]
        BY <1>2, <1>3 DEF Unbuilt
      <3> HIDE DEF e
      <3> QED BY <1>1, <3>1, <3>2 DEF Fields
    <2> QED BY <1>1, <2>1, <2>2 DEF Good
  <1> QED BY <1>3 DEF IInv

LEMMA NextGood == IInv /\ [Next]_vars => IInv'
  <1> SUFFICES ASSUME IInv, [Next]_vars PROVE IInv'
    OBVIOUS
  <1>1. \A i \in 1 .. MaxLen + 1 : i \in Nat
    BY LengthAssumption
  <1>2. \A i \in 1 .. MaxLen : i \in Nat
    BY LengthAssumption
  <1>3. CASE Look \/ Clear \/ WebClear
    BY <1>3, LookGood, ClearGood, WebClearGood
  <1>4. CASE \E repeat \in {"off", "one", "all"} : Advance(repeat)
    BY <1>4, AdvanceGood
  <1>5. CASE \E x \in Tracks : Add(x) \/ PlayTrack(x)
    BY <1>5, AddGood, PlayTrackGood
  <1>6. CASE \E x \in Items : WebAdd(x) \/ WebInsert(x)
    BY <1>6, WebAddGood, WebInsertGood
  <1>7. CASE \E x \in Streams : PlayUrl(x)
    BY <1>7, PlayUrlGood
  <1>8. CASE \E i \in 1 .. MaxLen : Delete(i) \/ Jump(i)
    BY <1>2, <1>8, DeleteGood, JumpGood
  <1>9. CASE \E i \in 1 .. MaxLen + 1 : WebJump(i)
    BY <1>1, <1>9, JumpGood
  <1>10. CASE \E i, j \in 1 .. MaxLen : Move(i, j)
    BY <1>2, <1>10, MoveGood
  <1>11. CASE \E m \in Modes : Shuffle(m) \/ SetMode(m)
    BY <1>11, ModeGood
  <1>12. CASE \E list \in Lists(Tracks) : LoadStored(list)
    BY <1>12, LoadStoredGood
  <1>13. CASE \E list \in Lists(Streams) : LoadStreams(list)
    BY <1>13, LoadStreamsGood
  <1>14. CASE \E list \in Lists(Tracks), i \in 1 .. MaxLen : WebLoad(list, i)
    BY <1>2, <1>14, WebLoadGood
  <1>15. CASE UNCHANGED vars
    BY <1>15 DEF IInv, vars
  <1> QED
    BY <1>3, <1>4, <1>5, <1>6, <1>7, <1>8, <1>9, <1>10, <1>11, <1>12, <1>13, <1>14, <1>15
    DEF Next

\* The inductive invariant of the queue: typed, its order sound, and in playlist order
\* if it was drawn with shuffle off.
THEOREM QueueGood == Spec => []IInv
  BY InitGood, NextGood, PTL DEF Spec

\* Type correctness: the current track is never a stream, the order never names entry
\* zero, and the position never goes below the one the code writes as -1.
THEOREM TypeCorrect == Spec => []TypeOK
  <1>1. IInv => TypeOK
    BY DEF IInv, Good, Fields, TypeOK
  <1> QED BY <1>1, QueueGood, PTL

\* The order of the queue is never damaged, through every sequence of edits: it names
\* every index up to its length once (manager.py shufflelist, playlist_remove).
THEOREM OrderCorrect == Spec => []OrderSound
  <1>1. IInv => OrderSound
    BY DEF IInv, Good, Sound, OrderSound
  <1> QED BY <1>1, QueueGood, PTL
-----------------------------------------------------------------------------
(* What is shown and what is playing *)

\* Taking a place out of a queue in order, as seen through the order.
LEMMA RemovedListed ==
    ASSUME NEW q, Good(q), Fresh(q), NEW i \in DOMAIN q.playlist
    PROVE  LET r == Removed(q, i)
               n == Len(q.playlist)
           IN  /\ r.order \in [1 .. n - 1 -> 1 .. n - 1]
               /\ DOMAIN r.playlist = 1 .. n - 1
               /\ \A k \in 1 .. n - 1 :
                     r.playlist[r.order[k]] = q.playlist[q.order[IF k < i THEN k ELSE k + 1]]
  <1> DEFINE n  == Len(q.playlist)
             o  == q.order
             pl == q.playlist
             up(k) == IF k < i THEN k ELSE k + 1
  <1>1. /\ n \in 0 .. MaxLen /\ pl \in Seq(Items) /\ i \in 1 .. n /\ DOMAIN pl = 1 .. n
        /\ q.built = q.mode /\ q.mode \in Modes
    BY LengthAssumption DEF Good, Fields, Fresh
  <1>2. o \in Orders[n] /\ o \in Seq(Nat \ {0}) /\ Len(o) = n /\ Sound(o)
    BY <1>1, OrdersAreSound DEF Fresh
  <1>3. /\ o \in [1 .. n -> 1 .. n] /\ DOMAIN o = 1 .. n
        /\ \A a, b \in 1 .. n : o[a] = o[b] => a = b
    BY <1>2 DEF Sound, Bijection, Injection, IsInjective
  <1>4. CASE q.mode = 0
    <2> DEFINE list == RemoveAt(pl, i)
    <2>1. /\ list \in Seq(Items) /\ Len(list) = n - 1 /\ n \in Nat /\ n - 1 \in 0 .. MaxLen
          /\ \A k \in 1 .. n - 1 : list[k] = pl[up(k)]
      BY <1>1, Removal, LengthAssumption
    <2>2. Removed(q, i).playlist = list /\ Removed(q, i).order = InOrder(Len(list))
      BY <1>4 DEF Removed, Good, Fields
    <2>3. o = InOrder(n)
      BY <1>1, <1>2, <1>4 DEF Good
    <2>4. /\ InOrder(n - 1) \in [1 .. n - 1 -> 1 .. n - 1]
          /\ \A k \in 1 .. n - 1 : InOrder(n - 1)[k] = k
          /\ \A k \in 1 .. n - 1 : up(k) \in 1 .. n /\ InOrder(n)[up(k)] = up(k)
      BY <1>1 DEF InOrder
    <2> HIDE DEF list, up
    <2>5. DOMAIN list = 1 .. n - 1
      BY <2>1
    <2>6. \A k \in 1 .. n - 1 : list[InOrder(n - 1)[k]] = pl[InOrder(n)[up(k)]]
      BY <2>1, <2>4
    <2> QED BY <2>1, <2>2, <2>3, <2>4, <2>5, <2>6 DEF up
  <1>5. CASE q.mode # 0
    <2> DEFINE c    == o[i]
               list == RemoveAt(pl, c)
               u    == Unlisted(o, i)
               down(v) == IF v > c THEN v - 1 ELSE v
    <2>1. Removed(q, i).playlist = list /\ Removed(q, i).order = u
      BY <1>1, <1>3, <1>5 DEF Removed, Good, Fields
    <2>2. c \in 1 .. n
      BY <1>1, <1>3
    <2>3. /\ u \in [1 .. n - 1 -> 1 .. n - 1]
          /\ \A k \in 1 .. n - 1 : /\ o[up(k)] \in 1 .. n /\ o[up(k)] # c
                                   /\ u[k] = down(o[up(k)])
      <3> HIDE DEF n, o
      <3>1. i \in 1 .. Len(o)
        BY <1>1, <1>2
      <3>2. /\ u \in [1 .. Len(o) - 1 -> 1 .. Len(o) - 1]
            /\ \A k \in 1 .. Len(o) - 1 : /\ o[up(k)] \in 1 .. Len(o) /\ o[up(k)] # o[i]
                                          /\ u[k] = down(o[up(k)])
        BY <1>2, <3>1, UnlistedPlaces
      <3> HIDE DEF u, up, down
      <3> QED BY <1>2, <3>2
    <2> HIDE DEF c, u
    <2>4. /\ list \in Seq(Items) /\ Len(list) = n - 1
          /\ \A d \in 1 .. n - 1 : list[d] = IF d < c THEN pl[d] ELSE pl[d + 1]
      BY <1>1, <2>2, Removal
    <2>5. \A v \in 1 .. n : v # c => down(v) \in 1 .. n - 1 /\ list[down(v)] = pl[v]
      <3> HIDE DEF list
      <3>1. ASSUME NEW v \in 1 .. n, v # c
            PROVE  down(v) \in 1 .. n - 1 /\ list[down(v)] = pl[v]
        <4>1. CASE v > c
          <5>1. v - 1 \in 1 .. n - 1 /\ ~(v - 1 < c) /\ v - 1 + 1 = v
            BY <1>1, <2>2, <4>1
          <5> QED BY <2>4, <4>1, <5>1
        <4>2. CASE v < c
          BY <1>1, <2>2, <2>4, <4>2
        <4> QED BY <1>1, <2>2, <3>1, <4>1, <4>2
      <3> QED BY <3>1
    <2> HIDE DEF list, down
    <2>6. \A k \in 1 .. n - 1 : list[u[k]] = pl[o[up(k)]]
      <3> HIDE DEF up
      <3> QED BY <2>3, <2>5
    <2>7. DOMAIN list = 1 .. n - 1
      BY <1>1, <2>4
    <2> QED BY <2>1, <2>3, <2>6, <2>7
  <1> QED BY <1>4, <1>5

\* Drawing the order anew keeps what is playing under the position.
LEMMA ReshuffleKeepsEntry ==
    ASSUME NEW q, Good(q), Shown(q), ~Mixed(q), NEW r \in Reshuffled(q, TRUE)
    PROVE  Shown(r) /\ Entry(r) = Entry(q)
  <1> DEFINE n == Len(q.playlist)
             p == q.order[q.at]
  <1>1. DOMAIN q.playlist = 1 .. n /\ n \in 0 .. MaxLen /\ p \in 1 .. n
    BY LengthAssumption DEF Shown, Good, Fields
  <1>2. Playing(q) = p
    BY <1>1 DEF Playing, Shown
  <1>3. q.playlist # <<>>
    BY <1>1
  <1>4. PICK o \in Drawn(q, TRUE) :
          r = [q EXCEPT !.order = o, !.built = q.mode, !.at = Renumbered(q, o)]
    BY <1>3 DEF Reshuffled
  <1>5. o \in Orders[n]
    BY <1>4, DrawnOrders
  <1>6. Sound(o) /\ Len(o) = n
    BY <1>1, <1>5, OrdersAreSound
  <1>7. \E k \in DOMAIN o : o[k] = p
    BY <1>1, <1>6 DEF Sound, Bijection, Injection, Surjection
  <1>8. Renumbered(q, o) \in DOMAIN o /\ o[Renumbered(q, o)] = p
    BY <1>2, <1>7, PositionMoves
  <1>9. r.order = o /\ r.at = Renumbered(q, o) /\ r.playlist = q.playlist
    BY <1>4 DEF Good, Fields
  <1> QED BY <1>1, <1>8, <1>9 DEF Shown, Entry

\* Removing a place of a queue in order takes that entry out of what is shown.
LEMMA RemovalShown ==
    ASSUME NEW q, Good(q), Fresh(q), NEW i \in DOMAIN q.playlist
    PROVE  Listed(Removed(q, i)) = RemoveAt(Listed(q), i)
  <1> DEFINE n == Len(q.playlist)
             r == Removed(q, i)
             up(k) == IF k < i THEN k ELSE k + 1
             shown == Listed(q)
  <1>1. n \in 0 .. MaxLen /\ i \in 1 .. n /\ DOMAIN q.playlist = 1 .. n
    BY LengthAssumption DEF Good, Fields
  <1>2. Len(q.order) = n /\ q.order \in [1 .. n -> 1 .. n]
    <2>1. q.order \in Orders[n]
      BY DEF Fresh
    <2> QED BY <1>1, <2>1, OrdersAreSound DEF Sound, Bijection, Injection
  <1>3. shown \in Seq(Items) /\ Len(shown) = n
    <2>1. shown = [k \in 1 .. n |-> q.playlist[q.order[k]]]
      BY <1>2 DEF Listed
    <2>2. \A k \in 1 .. n : q.playlist[q.order[k]] \in Items
      BY <1>1, <1>2 DEF Good, Fields
    <2> HIDE DEF shown
    <2> QED BY <1>1, <2>1, <2>2
  <1>4. \A k \in 1 .. n : shown[k] = q.playlist[q.order[k]]
    BY <1>2 DEF Listed
  <1>5. /\ RemoveAt(shown, i) \in Seq(Items) /\ Len(RemoveAt(shown, i)) = n - 1
        /\ \A k \in 1 .. n - 1 : RemoveAt(shown, i)[k] = shown[up(k)]
    <2> HIDE DEF shown, n
    <2>1. i \in 1 .. Len(shown)
      BY <1>1, <1>3
    <2> QED BY <1>3, <2>1, Removal
  <1>6. /\ r.order \in [1 .. n - 1 -> 1 .. n - 1]
        /\ \A k \in 1 .. n - 1 : r.playlist[r.order[k]] = q.playlist[q.order[up(k)]]
    BY RemovedListed
  <1>7. \A k \in 1 .. n - 1 : up(k) \in 1 .. n
    BY <1>1
  <1>8. Listed(r) = [k \in 1 .. n - 1 |-> r.playlist[r.order[k]]]
    <2> HIDE DEF r, n
    <2> QED BY <1>6 DEF Listed
  <1>9. RemoveAt(shown, i) = [k \in 1 .. n - 1 |-> RemoveAt(shown, i)[k]]
    <2> DEFINE left == RemoveAt(shown, i)
    <2>1. left \in Seq(Items) /\ Len(left) = n - 1
      BY <1>5
    <2> HIDE DEF left, n
    <2>2. left = [k \in 1 .. n - 1 |-> left[k]]
      BY <2>1
    <2> QED BY <2>2 DEF left
  <1> HIDE DEF r, shown, n, up
  <1>10. \A k \in 1 .. n - 1 : RemoveAt(shown, i)[k] = r.playlist[r.order[k]]
    BY <1>4, <1>5, <1>6, <1>7
  <1>11. Listed(r) = RemoveAt(shown, i)
    BY <1>8, <1>9, <1>10
  <1> QED BY <1>11 DEF r, shown

\* A removal in a queue in order is that of the place itself.
LEMMA FreshDelete ==
    ASSUME Fresh(queue), NEW i, Delete(i)
    PROVE  i \in DOMAIN queue.playlist /\ queue' = Removed(queue, i)
  BY DEF Delete, Looked, Stuck

\* Removing another entry keeps what is playing under the position.
LEMMA DeleteKeepsEntry ==
    ASSUME IInv, Shown(queue), Fresh(queue), NEW i \in DOMAIN queue.playlist \ {queue.at},
           Delete(i)
    PROVE  Shown(queue') /\ Entry(queue') = Entry(queue)
  <1> DEFINE n  == Len(queue.playlist)
             q  == queue
             r  == queue'
             up(k) == IF k < i THEN k ELSE k + 1
  <1>1. /\ n \in Nat /\ i \in 1 .. n /\ q.at \in Nat /\ q.at # i
        /\ q.at \in DOMAIN q.order /\ n \in 0 .. MaxLen
    BY LengthAssumption DEF IInv, Good, Fields, Shown
  <1>2. DOMAIN q.order = 1 .. n
    <2>1. q.order \in Orders[n]
      BY DEF Fresh
    <2> QED BY <1>1, <2>1, OrdersAreSound DEF Sound, Bijection, Injection
  <1>3. r = Removed(q, i)
    BY FreshDelete
  <1>4. r.at = IF q.at > i THEN q.at - 1 ELSE q.at
    BY <1>3 DEF Removed, IInv, Good, Fields
  <1>5. /\ r.order \in [1 .. n - 1 -> 1 .. n - 1]
        /\ DOMAIN r.playlist = 1 .. n - 1
        /\ \A k \in 1 .. n - 1 : r.playlist[r.order[k]] = q.playlist[q.order[up(k)]]
    BY <1>3, RemovedListed DEF IInv
  <1>6. r.at \in 1 .. n - 1 /\ up(r.at) = q.at
    BY <1>1, <1>2, <1>4
  <1> HIDE DEF up, n
  <1> QED BY <1>5, <1>6 DEF Shown, Entry

\* Appended entries, and those put behind the position of a queue played in order, leave
\* what is playing where it is.
LEMMA AddKeepsEntry ==
    ASSUME IInv, Shown(queue), ~Mixed(queue'), queue.built = queue.mode,
           NEW x \in Tracks, Add(x)
    PROVE  Shown(queue') /\ Entry(queue') = Entry(queue)
  <1> DEFINE list == IF x \in Range(queue.playlist) THEN queue.playlist
                     ELSE Append(queue.playlist, x)
             q == [queue EXCEPT !.playlist = list]
             p == queue.order[queue.at]
  <1>1. /\ Len(list) <= MaxLen
        /\ IF queue.mode # 0 THEN queue' \in Reshuffled(q, TRUE)
           ELSE queue' = [q EXCEPT !.order = InOrder(Len(list)), !.built = 0]
    BY DEF Add
  <1>2. /\ list \in Seq(Items) /\ p \in DOMAIN list /\ list[p] = queue.playlist[p]
        /\ p \in 1 .. Len(list)
    <2>1. queue.playlist \in Seq(Items) /\ x \in Items /\ p \in 1 .. Len(queue.playlist)
      BY DEF IInv, Good, Fields, Items, Shown
    <2> HIDE DEF p
    <2> QED BY <2>1
  <1> HIDE DEF list
  <1>3. /\ Good(q) /\ q.playlist = list /\ q.at = queue.at /\ q.order = queue.order
        /\ q.mode = queue.mode
    BY <1>1, <1>2, ListChanges DEF IInv, Good, Fields
  <1>4. CASE queue.mode # 0
    <2> HIDE DEF q
    <2>1. queue'.playlist = list /\ queue'.mode = q.mode
      BY <1>1, <1>3, <1>4, ReshuffleKeepsGood
    <2>2. ~Mixed(q) /\ Shown(q) /\ Entry(q) = Entry(queue)
      BY <1>2, <1>3, <2>1 DEF Mixed, Shown, Entry
    <2> QED BY <1>1, <1>3, <1>4, <2>2, ReshuffleKeepsEntry
  <1>5. CASE queue.mode = 0
    <2>1. /\ queue'.playlist = list /\ queue'.order = InOrder(Len(list))
          /\ queue'.at = queue.at
      BY <1>1, <1>5 DEF IInv, Good, Fields
    <2>2. p = queue.at
      <3>1. queue.order = InOrder(Len(queue.order)) /\ queue.at \in DOMAIN queue.order
        BY <1>5 DEF IInv, Good, Shown
      <3> QED BY <3>1 DEF InOrder
    <2>3. queue.at \in DOMAIN InOrder(Len(list)) /\ InOrder(Len(list))[queue.at] = queue.at
      BY <1>2, <2>2 DEF InOrder
    <2> QED BY <1>2, <2>1, <2>2, <2>3 DEF Shown, Entry
  <1> QED BY <1>4, <1>5

LEMMA WebAddKeepsEntry ==
    ASSUME IInv, Shown(queue), NEW x \in Items, WebAdd(x)
    PROVE  Shown(queue') /\ Entry(queue') = Entry(queue)
  <1> DEFINE p == queue.order[queue.at]
             list == Append(queue.playlist, x)
  <1>1. queue.playlist \in Seq(Items) /\ p \in 1 .. Len(queue.playlist)
    BY DEF IInv, Good, Fields, Shown
  <1>2. p \in DOMAIN list /\ list[p] = queue.playlist[p]
    <2> HIDE DEF p
    <2> QED BY <1>1
  <1>3. queue'.playlist = list /\ queue'.order = queue.order /\ queue'.at = queue.at
    BY DEF WebAdd, IInv, Good, Fields
  <1> QED BY <1>2, <1>3, Zenon DEF Shown, Entry

LEMMA WebInsertKeepsEntry ==
    ASSUME IInv, Shown(queue), queue.built = 0, NEW x \in Items, WebInsert(x)
    PROVE  Shown(queue') /\ Entry(queue') = Entry(queue)
  <1> DEFINE pl == queue.playlist
             n  == Len(pl)
             p  == IF queue.at < n THEN queue.at ELSE n
             list == InsertAt(pl, p + 1, x)
  <1>1. queue.order = InOrder(Len(queue.order)) /\ queue.at \in DOMAIN queue.order
    BY DEF IInv, Good, Shown
  <1>2. queue.order[queue.at] = queue.at
    BY <1>1 DEF InOrder
  <1>3. pl \in Seq(Items) /\ n \in Nat /\ queue.at \in 1 .. n
    BY <1>2 DEF IInv, Good, Fields, Shown
  <1>4. p = queue.at /\ p \in 1 .. n
    BY <1>3
  <1>5. queue'.playlist = list /\ queue'.order = queue.order /\ queue'.at = queue.at
    BY DEF WebInsert, IInv, Good, Fields
  <1> HIDE DEF p, pl
  <1> DEFINE j == p + 1
  <1>6. j \in 1 .. Len(pl) + 1 /\ p \in 1 .. j - 1
    BY <1>3, <1>4
  <1> HIDE DEF j, list
  <1>7. p \in DOMAIN InsertAt(pl, j, x) /\ InsertAt(pl, j, x)[p] = pl[p]
    <2>1. pl \in Seq(Items) /\ x \in Items
      BY <1>3
    <2> HIDE DEF n, p
    <2>2. \A k \in 1 .. j - 1 : /\ k \in DOMAIN InsertAt(pl, j, x)
                                /\ InsertAt(pl, j, x)[k] = pl[k]
      BY <1>6, <2>1, BeforeInsertion, Zenon
    <2> QED BY <1>6, <2>2
  <1>8. p \in DOMAIN list /\ list[p] = pl[p]
    BY <1>7 DEF j, list
  <1> QED BY <1>1, <1>2, <1>4, <1>5, <1>8 DEF Shown, Entry, pl

LEMMA ModeKeepsEntry ==
    ASSUME IInv, Shown(queue), ~Mixed(queue'), NEW m \in Modes, Shuffle(m) \/ SetMode(m)
    PROVE  Shown(queue') /\ Entry(queue') = Entry(queue)
  <1> DEFINE q == [queue EXCEPT !.mode = m]
  <1>1. /\ Good(q) /\ q.playlist = queue.playlist /\ q.order = queue.order
        /\ q.at = queue.at
    BY DEF IInv, Good, Fields
  <1>2. queue' \in Reshuffled(q, TRUE) \/ queue' = q
    BY DEF Shuffle, SetMode
  <1> HIDE DEF q
  <1>3. Shown(q) /\ Entry(q) = Entry(queue)
    BY <1>1 DEF Shown, Entry
  <1>4. CASE queue' = q
    BY <1>3, <1>4
  <1>5. CASE queue' \in Reshuffled(q, TRUE)
    <2>1. queue'.playlist = q.playlist /\ queue'.mode = q.mode
      BY <1>1, <1>5, ReshuffleKeepsGood
    <2>2. ~Mixed(q)
      BY <2>1 DEF Mixed
    <2> QED BY <1>1, <1>3, <1>5, <2>2, ReshuffleKeepsEntry
  <1> QED BY <1>2, <1>4, <1>5

LEMMA LookKeepsEntry ==
    ASSUME IInv, Shown(queue), ~Mixed(queue'), Look
    PROVE  Shown(queue') /\ Entry(queue') = Entry(queue)
  <1>1. queue' = queue \/ queue' \in Reshuffled(queue, TRUE)
    BY DEF Look, Looked
  <1>2. CASE queue' \in Reshuffled(queue, TRUE)
    <2>1. queue'.playlist = queue.playlist /\ queue'.mode = queue.mode
      BY <1>2, ReshuffleKeepsGood DEF IInv
    <2>2. ~Mixed(queue)
      BY <2>1 DEF Mixed
    <2> QED BY <1>2, <2>2, ReshuffleKeepsEntry DEF IInv
  <1> QED BY <1>1, <1>2

\* What is playing stays under the position through every edit that does not ask for
\* something else (manager.py reshuffle, playlist_add, playlist_remove).
THEOREM CurrentStays == Spec => CurrentKept
  <1>1. ASSUME IInv, [Next]_vars
        PROVE  [Shown(queue) /\ ~Mixed(queue')
                /\ ~(Shown(queue') /\ Entry(queue') = Entry(queue)) => ~Undisturbing]_vars
    <2> SUFFICES ASSUME Shown(queue), ~Mixed(queue'), Undisturbing
                 PROVE  Shown(queue') /\ Entry(queue') = Entry(queue)
      OBVIOUS
    <2>1. CASE Look
      BY <1>1, <2>1, LookKeepsEntry
    <2>2. CASE \E x \in Items : WebAdd(x)
      BY <1>1, <2>2, WebAddKeepsEntry
    <2>3. CASE queue.built = queue.mode /\ \E x \in Tracks : Add(x)
      BY <1>1, <2>3, AddKeepsEntry
    <2>4. CASE queue.built = 0 /\ \E x \in Items : WebInsert(x)
      BY <1>1, <2>4, WebInsertKeepsEntry
    <2>5. CASE Fresh(queue) /\ \E i \in DOMAIN queue.playlist \ {queue.at} : Delete(i)
      BY <1>1, <2>5, DeleteKeepsEntry
    <2>6. CASE \E m \in Modes : Shuffle(m) \/ SetMode(m)
      BY <1>1, <2>6, ModeKeepsEntry
    <2> QED BY <2>1, <2>2, <2>3, <2>4, <2>5, <2>6 DEF Undisturbing
  <1> QED BY <1>1, QueueGood, PTL DEF Spec, CurrentKept

\* Removing a place of the queue takes away the entry shown there and nothing else
\* (manager.py playlist_remove).
THEOREM RemovalTakesShown == Spec => RemovesShown
  <1>1. ASSUME IInv, [Next]_vars
        PROVE  [Fresh(queue) =>
                  \A i \in DOMAIN queue.playlist :
                      Delete(i) => Listed(queue') = RemoveAt(Listed(queue), i)]_vars
    <2> SUFFICES ASSUME Fresh(queue), NEW i \in DOMAIN queue.playlist, Delete(i)
                 PROVE  Listed(queue') = RemoveAt(Listed(queue), i)
      OBVIOUS
    <2> QED BY <1>1, FreshDelete, RemovalShown DEF IInv
  <1> QED BY <1>1, QueueGood, PTL DEF Spec, RemovesShown
=============================================================================
