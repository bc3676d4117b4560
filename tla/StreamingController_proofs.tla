---------------------- MODULE StreamingController_proofs ----------------------
(***************************************************************************)
(* Proofs about StreamingController.  An action of the controller is an    *)
(* operator from a controller to the set of controllers it may leave, so   *)
(* the induction is over controllers: Good(c) is the inductive invariant,  *)
(* and there is one lemma per action saying that from a good controller in *)
(* a state where the table runs the action, every outcome is good.         *)
(***************************************************************************)
EXTENDS StreamingController, TLAPS

Buffering == {"BUFFERING", "WAITING_TO_SYNC"}

Valid(c) == c.streaming \in ValidStates[c.playing]

(* Only hooks make calls; every call is at most as new as the last         *)
(* request, ids are unique, and the newest counts only in TRACKWAIT, with  *)
(* no song yet, and with a playlist that has not been given up.            *)
CallsGood(c) ==
  \A call \in c.calls :
    /\ c.hooked
    /\ call.id <= c.cbid
    /\ call.id = c.cbid => /\ c.streaming = "TRACKWAIT"
                           /\ c.next = NoSong
                           /\ c.errors <= PlaylistCount
    /\ \A other \in c.calls : call.id = other.id => call = other

Good(c) ==
  /\ c \in Controllers
  /\ Valid(c)
  /\ CallsGood(c)
  /\ c.next # NoSong => c.streaming = "TRACKWAIT"
  /\ c.errors <= PlaylistCount + 1
  /\ c.hooked /\ c.streaming = "STREAMING" => c.open

Events == UserEvents \union PlayerEvents \union {"NextTrackReady", "NextTrackError"}

LEMMA EndAtType ==
  ASSUME NEW q \in Seq(Songs), NEW n \in Nat \ {0}
  PROVE  EndAt(q, n) \in Seq(Songs)
BY DEF EndAt

LEMMA QueueType ==
  ASSUME NEW q \in Seq(Songs), NEW s \in Songs
  PROVE  /\ <<s>> \o q \in Seq(Songs)
         /\ q # <<>> => Tail(q) \in Seq(Songs)
         /\ q # <<>> => q[1] \in Songs /\ q[Len(q)] \in Songs
OBVIOUS

(* What the two state mutators leave, field by field.                      *)
LEMMA SetPlayingEffect ==
  ASSUME NEW c \in Controllers, NEW p \in PlayingStates
  PROVE  LET d == SetPlaying(c, p)
         IN  /\ d \in Controllers
             /\ d.playing = p
             /\ d.streaming = c.streaming /\ d.queue = c.queue /\ d.open = c.open
             /\ d.resume = c.resume /\ d.next = c.next /\ d.cbid = c.cbid
             /\ d.errors = c.errors /\ d.calls = c.calls /\ d.hooked = c.hooked
BY DEF SetPlaying, Controllers

LEMMA SetStreamingEffect ==
  ASSUME NEW c \in Controllers, NEW s \in StreamingStates
  PROVE  LET d == SetStreaming(c, s)
         IN  /\ d \in Controllers
             /\ d.streaming = s
             /\ d.playing = c.playing /\ d.queue = c.queue /\ d.open = c.open
             /\ d.resume = c.resume /\ d.rebuffering = c.rebuffering
             /\ d.errors = c.errors /\ d.calls = c.calls /\ d.hooked = c.hooked
             /\ s = "IDLE" => d.cbid = c.cbid + 1 /\ d.next = NoSong
             /\ s # "IDLE" => d.cbid = c.cbid /\ d.next = c.next
<1>1. CASE s = "IDLE"
  <2> DEFINE d == [c EXCEPT !.streaming = s, !.cbid = @ + 1, !.next = NoSong]
  <2>1. SetStreaming(c, s) = d
    BY <1>1 DEF SetStreaming
  <2>2. c.cbid + 1 \in Nat
    BY DEF Controllers
  <2>3. d \in Controllers
    BY <2>2 DEF Controllers
  <2>4. /\ d.streaming = s /\ d.cbid = c.cbid + 1 /\ d.next = NoSong
        /\ d.playing = c.playing /\ d.queue = c.queue /\ d.open = c.open
        /\ d.resume = c.resume /\ d.rebuffering = c.rebuffering
        /\ d.errors = c.errors /\ d.calls = c.calls /\ d.hooked = c.hooked
    BY DEF Controllers
  <2> HIDE DEF d
  <2> QED
    BY <1>1, <2>1, <2>3, <2>4
<1>2. CASE s # "IDLE"
  BY <1>2 DEF SetStreaming, Controllers
<1> QED
  BY <1>1, <1>2

LEMMA StopEffect ==
  ASSUME NEW c \in Controllers
  PROVE  LET d == Stop(c)
         IN  /\ d \in Controllers
             /\ d.playing = "STOPPED" /\ d.streaming = "IDLE"
             /\ d.queue = EndAt(c.queue, 1) /\ d.open = FALSE
             /\ d.next = NoSong /\ d.cbid = c.cbid + 1
             /\ d.errors = c.errors /\ d.calls = c.calls /\ d.hooked = c.hooked
<1> DEFINE e == [c EXCEPT !.queue = EndAt(@, 1), !.open = FALSE]
<1>1. EndAt(c.queue, 1) \in Seq(Songs)
  BY EndAtType DEF Controllers
<1>2. /\ e \in Controllers
      /\ e.queue = EndAt(c.queue, 1) /\ e.open = FALSE
      /\ e.cbid = c.cbid /\ e.errors = c.errors /\ e.calls = c.calls /\ e.hooked = c.hooked
  BY <1>1 DEF Controllers
<1> HIDE DEF e
<1>3. Stop(c) = SetStreaming(SetPlaying(e, "STOPPED"), "IDLE")
  BY DEF Stop, e
<1> QED
  BY <1>2, <1>3, SetPlayingEffect, SetStreamingEffect DEF PlayingStates, StreamingStates

(* Going idle makes every outstanding call stale.                          *)
LEMMA IdleGood ==
  ASSUME NEW c \in Controllers, NEW d \in Controllers,
         CallsGood(c), c.errors <= PlaylistCount + 1,
         d.streaming = "IDLE", d.playing \notin Buffering, d.next = NoSong,
         d.cbid = c.cbid + 1, d.errors = c.errors, d.calls = c.calls, d.hooked = c.hooked
  PROVE  Good(d)
<1>1. Valid(d)
  BY DEF Valid, ValidStates, Controllers, PlayingStates, StreamingStates, Buffering
<1>2. /\ c.cbid \in Nat
      /\ \A call \in c.calls : call.id \in Nat
  BY DEF Controllers
<1>3. CallsGood(d)
  BY <1>2 DEF CallsGood
<1> QED
  BY <1>1, <1>3 DEF Good

LEMMA StopGood ==
  ASSUME NEW c, Good(c)
  PROVE  Good(Stop(c))
<1>1. c \in Controllers /\ CallsGood(c) /\ c.errors <= PlaylistCount + 1
  BY DEF Good
<1> QED
  BY <1>1, StopEffect, IdleGood DEF Buffering

(* Steps that touch none of what the invariant relates.                    *)
LEMMA SameCoreGood ==
  ASSUME NEW c, NEW d, Good(c), d \in Controllers, Valid(d),
         d.streaming = c.streaming, d.next = c.next, d.cbid = c.cbid,
         d.calls = c.calls, d.hooked = c.hooked, d.open = c.open, d.errors <= c.errors
  PROVE  Good(d)
<1>1. /\ c.errors \in Nat /\ d.errors \in Nat /\ PlaylistCount \in Nat
  BY BoundsAssumption DEF Good, Controllers
<1>2. CallsGood(d)
  BY <1>1 DEF Good, CallsGood
<1> QED
  BY <1>1, <1>2 DEF Good

LEMMA SetPlayingGood ==
  ASSUME NEW c, Good(c), NEW p \in PlayingStates, c.streaming \in ValidStates[p]
  PROVE  Good(SetPlaying(c, p))
<1>1. c \in Controllers /\ c.errors \in Nat
  BY DEF Good, Controllers
<1> QED
  BY <1>1, SetPlayingEffect, SameCoreGood DEF Valid

LEMMA StartedValid ==
  ASSUME NEW s \in StreamingStates, NEW p \in {"PLAYING", "PAUSED"}
  PROVE  s \in ValidStates[p]
BY DEF ValidStates, PlayingStates

LEMMA StreamValid ==
  ASSUME NEW s \in {"STREAMING", "STREAMOUT"}, NEW p \in PlayingStates \ {"STOPPED"}
  PROVE  s \in ValidStates[p]
BY DEF ValidStates, PlayingStates, StreamingStates

LEMMA ResumeFlagGood ==
  ASSUME NEW c, Good(c), NEW b \in BOOLEAN
  PROVE  LET d == [c EXCEPT !.resume = b]
         IN  Good(d) /\ d.playing = c.playing /\ d.streaming = c.streaming
<1> DEFINE d == [c EXCEPT !.resume = b]
<1>1. c \in Controllers /\ c.errors \in Nat
  BY DEF Good, Controllers
<1>2. /\ d \in Controllers /\ d.playing = c.playing /\ d.streaming = c.streaming
      /\ d.next = c.next /\ d.cbid = c.cbid /\ d.calls = c.calls /\ d.hooked = c.hooked /\ d.open = c.open
      /\ d.errors = c.errors
  BY <1>1 DEF Controllers
<1> HIDE DEF d
<1>3. Valid(d)
  BY <1>2 DEF Good, Valid
<1>4. Good(d)
  BY <1>1, <1>2, <1>3, SameCoreGood
<1> QED
  BY <1>2, <1>4 DEF d

LEMMA ErrorsClearedGood ==
  ASSUME NEW c, Good(c)
  PROVE  LET d == [c EXCEPT !.errors = 0]
         IN  Good(d) /\ d.playing = c.playing /\ d.streaming = c.streaming
<1> DEFINE d == [c EXCEPT !.errors = 0]
<1>1. c \in Controllers /\ c.errors \in Nat
  BY DEF Good, Controllers
<1>2. /\ d \in Controllers /\ d.playing = c.playing /\ d.streaming = c.streaming
      /\ d.next = c.next /\ d.cbid = c.cbid /\ d.calls = c.calls /\ d.hooked = c.hooked /\ d.open = c.open
      /\ d.errors = 0
  BY <1>1 DEF Controllers
<1> HIDE DEF d
<1>3. Valid(d)
  BY <1>2 DEF Good, Valid
<1>4. Good(d)
  BY <1>1, <1>2, <1>3, SameCoreGood
<1> QED
  BY <1>2, <1>4 DEF d

LEMMA PlayingGood ==
  ASSUME NEW c, Good(c)
  PROVE  /\ Good(Playing(c))
         /\ Playing(c).streaming = c.streaming
         /\ Playing(c).playing \in {c.playing, "PLAYING"}
<1> DEFINE d == IF c.rebuffering THEN c ELSE SetPlaying(c, "PLAYING")
<1>1. c \in Controllers /\ c.streaming \in StreamingStates
  BY DEF Good, Controllers
<1>2. /\ Good(d) /\ d.streaming = c.streaming
      /\ d.playing \in {c.playing, "PLAYING"}
  BY <1>1, SetPlayingGood, SetPlayingEffect, StartedValid DEF PlayingStates
<1>3. Playing(c) = [d EXCEPT !.errors = 0]
  BY DEF Playing
<1> HIDE DEF d
<1> QED
  BY <1>2, <1>3, ErrorsClearedGood

LEMMA ResumeGood ==
  ASSUME NEW c, Good(c)
  PROVE  Good(Resume(c))
<1>1. c \in Controllers /\ c.streaming \in StreamingStates
  BY DEF Good, Controllers
<1>2. Good(SetPlaying(c, "PLAYING"))
  BY <1>1, SetPlayingGood, StartedValid DEF PlayingStates
<1> QED
  BY <1>2, ResumeFlagGood DEF Resume

LEMMA PauseGood ==
  ASSUME NEW c, Good(c)
  PROVE  Good(Pause(c))
<1> DEFINE d == [c EXCEPT !.resume = TRUE]
<1>1. Good(d) /\ d.streaming = c.streaming
  BY ResumeFlagGood
<1>2. d.streaming \in StreamingStates
  BY <1>1 DEF Good, Controllers
<1> HIDE DEF d
<1>3. Good(SetPlaying(d, "PAUSED"))
  BY <1>1, <1>2, SetPlayingGood, StartedValid DEF PlayingStates
<1> QED
  BY <1>3 DEF Pause, d

LEMMA StartGood ==
  ASSUME NEW c, Good(c)
  PROVE  Good(Start(c))
BY PlayingGood, ResumeGood DEF Start

LEMMA RebufferGood ==
  ASSUME NEW c, Good(c), c.streaming \in {"STREAMING", "STREAMOUT"}
  PROVE  Good(Rebuffer(c))
<1> DEFINE e == SetPlaying(c, "BUFFERING")
           d == [e EXCEPT !.rebuffering = TRUE, !.resume = TRUE]
<1>1. Good(e)
  BY SetPlayingGood, StreamValid DEF PlayingStates
<1>2. e \in Controllers /\ e.errors \in Nat
  BY <1>1 DEF Good, Controllers
<1> HIDE DEF e
<1>3. /\ d \in Controllers /\ d.playing = e.playing /\ d.streaming = e.streaming
      /\ d.next = e.next /\ d.cbid = e.cbid /\ d.calls = e.calls /\ d.hooked = e.hooked /\ d.open = e.open
      /\ d.errors = e.errors
  BY <1>2 DEF Controllers
<1>4. Rebuffer(c) = d
  BY DEF Rebuffer, e
<1> HIDE DEF d
<1>5. Valid(d)
  BY <1>1, <1>3 DEF Good, Valid
<1> QED
  BY <1>1, <1>2, <1>3, <1>4, <1>5, SameCoreGood

LEMMA StreamoutGood ==
  ASSUME NEW c, Good(c), c.streaming # "TRACKWAIT", c.playing # "STOPPED"
  PROVE  Good(SetStreaming(c, "STREAMOUT"))
<1> DEFINE d == SetStreaming(c, "STREAMOUT")
<1>1. c \in Controllers /\ c.playing \in PlayingStates
  BY DEF Good, Controllers
<1>2. /\ d \in Controllers /\ d.playing = c.playing /\ d.streaming = "STREAMOUT"
      /\ d.next = c.next /\ d.cbid = c.cbid /\ d.calls = c.calls /\ d.hooked = c.hooked
      /\ d.errors = c.errors
  BY <1>1, SetStreamingEffect DEF StreamingStates
<1> HIDE DEF d
<1>3. Valid(d)
  BY <1>1, <1>2, StreamValid DEF Valid
<1>4. CallsGood(d)
  BY <1>2 DEF Good, CallsGood
<1> QED
  BY <1>2, <1>3, <1>4 DEF Good, d

LEMMA GoIdleGood ==
  ASSUME NEW c, Good(c), c.playing \notin Buffering
  PROVE  LET d == SetStreaming(c, "IDLE")
         IN  Good(d) /\ d.playing = c.playing /\ d.streaming = "IDLE" /\ d.queue = c.queue
<1>1. c \in Controllers /\ CallsGood(c) /\ c.errors <= PlaylistCount + 1
  BY DEF Good
<1> QED
  BY <1>1, SetStreamingEffect, IdleGood DEF StreamingStates

LEMMA PauseStreamingGood ==
  ASSUME NEW c, Good(c), c.playing \notin Buffering
  PROVE  Good(PauseStreaming(c))
<1> DEFINE e == [c EXCEPT !.open = FALSE]
<1>1. c \in Controllers /\ CallsGood(c) /\ c.errors <= PlaylistCount + 1
  BY DEF Good
<1>2. /\ e \in Controllers /\ e.playing = c.playing /\ e.cbid = c.cbid
      /\ e.calls = c.calls /\ e.hooked = c.hooked /\ e.errors = c.errors /\ e.next = c.next
      /\ e.streaming = c.streaming
  BY <1>1 DEF Controllers
<1> HIDE DEF e
<1>3. CallsGood(e)
  BY <1>1, <1>2 DEF CallsGood
<1>4. Good(SetStreaming(e, "IDLE"))
  BY <1>1, <1>2, <1>3, SetStreamingEffect, IdleGood DEF StreamingStates
<1> QED
  BY <1>4 DEF PauseStreaming, e

(* Asking for the next track.                                              *)
LEMMA AwaitSongGood ==
  ASSUME NEW c \in Controllers, c.hooked, CallsGood(c), c.errors <= PlaylistCount,
         c.playing \notin Buffering, NEW song \in Songs
  PROVE  Good(AwaitSong(c, song))
<1> DEFINE new == [id |-> c.cbid + 1, song |-> song]
           d == AwaitSong(c, song)
<1>1. c.cbid \in Nat /\ c.errors \in Nat /\ c.calls \subseteq [id : Nat, song : Songs]
  BY DEF Controllers
<1>2. new \in [id : Nat, song : Songs] /\ new.id = c.cbid + 1
  BY <1>1
<1>3. /\ d \in Controllers
      /\ d.playing = c.playing /\ d.streaming = "TRACKWAIT" /\ d.next = NoSong
      /\ d.cbid = c.cbid + 1 /\ d.errors = c.errors
      /\ d.calls = c.calls \union {new} /\ d.hooked = c.hooked /\ d.open = c.open
  <2> HIDE DEF new
  <2> DEFINE calls == c.calls \union {new}
  <2>1. calls \in SUBSET [id : Nat, song : Songs]
    BY <1>1, <1>2
  <2>2. d = [c EXCEPT !.streaming = "TRACKWAIT", !.next = NoSong, !.cbid = c.cbid + 1,
                      !.calls = calls]
    BY DEF AwaitSong, new
  <2>0. c.cbid + 1 \in Nat
    BY <1>1
  <2> HIDE DEF d, calls
  <2>3. d \in Controllers
    BY <2>0, <2>1, <2>2 DEF Controllers, StreamingStates
  <2>4. /\ d.playing = c.playing /\ d.streaming = "TRACKWAIT" /\ d.next = NoSong
        /\ d.cbid = c.cbid + 1 /\ d.errors = c.errors
        /\ d.calls = calls /\ d.hooked = c.hooked /\ d.open = c.open
    BY <2>2 DEF Controllers
  <2> QED
    BY <2>3, <2>4 DEF calls
<1> HIDE DEF new, d
<1>4. Valid(d)
  BY <1>3 DEF Valid, ValidStates, Controllers, PlayingStates, StreamingStates, Buffering
<1>5. ASSUME NEW call \in d.calls
      PROVE  /\ d.hooked /\ call.id <= d.cbid
             /\ \A other \in d.calls : call.id = other.id => call = other
  BY <1>1, <1>2, <1>3 DEF CallsGood
<1>6. CallsGood(d)
  BY <1>3, <1>5 DEF CallsGood
<1>7. d.errors <= PlaylistCount + 1
  BY <1>1, <1>3, BoundsAssumption
<1> QED
  BY <1>3, <1>4, <1>6, <1>7 DEF Good, d

LEMMA FailedGood ==
  ASSUME NEW c, Good(c), c.playing \notin Buffering,
         NEW k \in Nat, c.errors + k <= PlaylistCount + 1
  PROVE  LET d == Failed(c, k)
         IN  /\ Good(d) /\ d.playing = c.playing /\ d.errors = c.errors + k
             /\ d.hooked = c.hooked
<1> DEFINE d == Failed(c, k)
<1>1. c \in Controllers /\ CallsGood(c)
  BY DEF Good
<1>2. /\ c.errors \in Nat /\ c.cbid \in Nat /\ PlaylistCount \in Nat
      /\ \A call \in c.calls : call.id \in Nat
  BY <1>1, BoundsAssumption DEF Controllers
<1>3. CASE k = 0
  BY <1>2, <1>3 DEF Failed
<1>4. CASE k # 0
  <2>1. d = [c EXCEPT !.streaming = "IDLE", !.next = NoSong,
                      !.cbid = c.cbid + 2 * k, !.errors = c.errors + k]
    BY <1>4 DEF Failed
  <2>2. c.cbid + 2 * k \in Nat /\ c.cbid < c.cbid + 2 * k /\ c.errors + k \in Nat
    BY <1>2, <1>4
  <2> HIDE DEF d
  <2>3. /\ d \in Controllers
        /\ d.playing = c.playing /\ d.streaming = "IDLE" /\ d.next = NoSong
        /\ d.cbid = c.cbid + 2 * k /\ d.errors = c.errors + k
        /\ d.calls = c.calls /\ d.hooked = c.hooked
    <3>1. d \in Controllers
      BY <1>1, <2>1, <2>2 DEF Controllers, StreamingStates
    <3>2. /\ d.playing = c.playing /\ d.streaming = "IDLE" /\ d.next = NoSong
          /\ d.cbid = c.cbid + 2 * k /\ d.errors = c.errors + k
          /\ d.calls = c.calls /\ d.hooked = c.hooked
      BY <1>1, <2>1 DEF Controllers
    <3> QED
      BY <3>1, <3>2
  <2>4. Valid(d)
    BY <2>3 DEF Valid, ValidStates, Controllers, PlayingStates, StreamingStates, Buffering
  <2>5. CallsGood(d)
    BY <1>1, <1>2, <2>2, <2>3 DEF CallsGood
  <2>6. Good(d)
    BY <2>3, <2>4, <2>5 DEF Good
  <2> QED
    BY <2>3, <2>6 DEF d
<1> QED
  BY <1>3, <1>4

LEMMA GetNextTrackGood ==
  ASSUME NEW c, Good(c), c.playing \notin Buffering, NEW ifMore \in BOOLEAN,
         NEW d \in GetNextTrack(c, ifMore)
  PROVE  Good(d)
<1>1. c.errors \in Nat /\ PlaylistCount \in Nat
  BY BoundsAssumption DEF Good, Controllers
<1>2. CASE d = c
  BY <1>2
<1>3. ASSUME c.errors <= PlaylistCount, NEW k \in 1 .. PlaylistCount + 1 - c.errors,
             d = Failed(c, k)
      PROVE  Good(d)
  <2>1. k \in Nat /\ c.errors + k <= PlaylistCount + 1
    BY <1>1, <1>3
  <2> QED
    BY <1>3, <2>1, FailedGood
<1>4. ASSUME c.hooked, c.errors <= PlaylistCount, NEW k \in 0 .. PlaylistCount - c.errors,
             NEW song \in Songs, d = AwaitSong(Failed(c, k), song)
      PROVE  Good(d)
  <2>1. k \in Nat /\ c.errors + k <= PlaylistCount + 1 /\ c.errors + k <= PlaylistCount
    BY <1>1, <1>4
  <2>2. /\ Good(Failed(c, k)) /\ Failed(c, k).playing = c.playing
        /\ Failed(c, k).errors = c.errors + k /\ Failed(c, k).hooked
    BY <1>4, <2>1, FailedGood
  <2>3. Failed(c, k) \in Controllers /\ CallsGood(Failed(c, k))
    BY <2>2 DEF Good
  <2> QED
    BY <1>4, <2>1, <2>2, <2>3, AwaitSongGood
<1>5. CASE c.errors > PlaylistCount \/ ~c.hooked
  BY <1>2, <1>5 DEF GetNextTrack
<1>6. CASE ~(c.errors > PlaylistCount \/ ~c.hooked)
  <2>0. c.hooked
    BY <1>6
  <2> DEFINE tries == IF Len(c.queue) < 2 THEN PlaylistCount + 1 - c.errors ELSE 1
  <2>1. c.errors <= PlaylistCount
    BY <1>1, <1>6
  <2>2. /\ tries \in Nat /\ tries <= PlaylistCount + 1 - c.errors
    BY <1>1, <2>1
  <2>3. \/ d = c
        \/ \E k \in 1 .. tries : d = Failed(c, k)
        \/ \E k \in 0 .. tries - 1, song \in Songs : d = AwaitSong(Failed(c, k), song)
    BY <1>6 DEF GetNextTrack
  <2> HIDE DEF tries
  <2>4. ASSUME NEW k \in 1 .. tries, d = Failed(c, k)
        PROVE  Good(d)
    <3>1. k \in 1 .. PlaylistCount + 1 - c.errors
      BY <1>1, <2>2
    <3> QED
      BY <2>1, <2>4, <3>1, <1>3
  <2>5. ASSUME NEW k \in 0 .. tries - 1, NEW song \in Songs,
               d = AwaitSong(Failed(c, k), song)
        PROVE  Good(d)
    <3>1. k \in 0 .. PlaylistCount - c.errors
      BY <1>1, <2>2
    <3> QED
      BY <2>0, <2>1, <2>5, <3>1, <1>4
  <2> QED
    BY <1>2, <2>3, <2>4, <2>5
<1> QED
  BY <1>5, <1>6

LEMMA NextIfMoreGood ==
  ASSUME NEW c, Good(c), c.playing \notin Buffering, NEW d \in NextIfMore(c)
  PROVE  Good(d)
<1> DEFINE e == SetStreaming(c, "IDLE")
<1>1. Good(e) /\ e.playing \notin Buffering
  BY GoIdleGood
<1>2. d = e \/ d \in GetNextTrack(e, TRUE)
  BY DEF NextIfMore
<1> HIDE DEF e
<1> QED
  BY <1>1, <1>2, GetNextTrackGood

LEMMA StopGetNextGood ==
  ASSUME NEW c, Good(c), NEW d \in StopGetNext(c)
  PROVE  Good(d)
<1>1. Good(Stop(c)) /\ Stop(c).playing \notin Buffering
  BY StopGood, StopEffect DEF Good, Buffering
<1> QED
  BY <1>1, GetNextTrackGood DEF StopGetNext

LEMMA RetryOrGoOnGood ==
  ASSUME NEW c, Good(c), c.playing \notin Buffering, NEW d \in RetryOrGoOn(c)
  PROVE  Good(d)
BY GetNextTrackGood DEF RetryOrGoOn

(* Streaming a song.                                                       *)

NoCurrentCall(c) == \A call \in c.calls : call.id # c.cbid

LEMMA OpenedGood ==
  ASSUME NEW c \in Controllers, CallsGood(c), NoCurrentCall(c),
         c.errors <= PlaylistCount + 1, c.playing \notin Buffering
  PROVE  Good(Opened(c))
<1> DEFINE p == IF c.playing = "STOPPED" THEN SetPlaying(c, "BUFFERING") ELSE c
           e == SetStreaming(p, "STREAMING")
           d == [e EXCEPT !.open = TRUE, !.next = NoSong]
<1>1. /\ p \in Controllers /\ p.playing # "STOPPED"
      /\ p.cbid = c.cbid /\ p.calls = c.calls /\ p.hooked = c.hooked /\ p.errors = c.errors
  BY SetPlayingEffect DEF PlayingStates
<1> HIDE DEF p
<1>2. /\ e \in Controllers /\ e.playing = p.playing /\ e.streaming = "STREAMING"
      /\ e.cbid = c.cbid /\ e.calls = c.calls /\ e.hooked = c.hooked /\ e.errors = c.errors
  BY <1>1, SetStreamingEffect DEF StreamingStates
<1> HIDE DEF e
<1>3. /\ d \in Controllers /\ d.playing = p.playing /\ d.streaming = "STREAMING"
      /\ d.cbid = c.cbid /\ d.calls = c.calls /\ d.hooked = c.hooked /\ d.errors = c.errors
      /\ d.open = TRUE /\ d.next = NoSong
  BY <1>2 DEF Controllers
<1>4. Opened(c) = d
  BY DEF Opened, e, p
<1> HIDE DEF d
<1>5. Valid(d)
  BY <1>1, <1>3, StreamValid DEF Valid, Controllers
<1>6. CallsGood(d)
  BY <1>3 DEF CallsGood, NoCurrentCall
<1> QED
  BY <1>3, <1>4, <1>5, <1>6 DEF Good

(* Stream is run with the song that is ready, or, from idle, with a song   *)
(* of the queue.                                                           *)
LEMMA StreamGood ==
  ASSUME NEW c, Good(c), c.playing \notin Buffering,
         NEW song \in Songs \union {NoSong}, song # NoSong => c.streaming = "IDLE",
         NEW d \in Stream(c, song)
  PROVE  Good(d)
<1> DEFINE s == IF song # NoSong THEN song ELSE c.next
           q == EndAt(c.queue, 2)
           r == IF q # <<>> /\ q[1] = s THEN q ELSE <<s>> \o q
           e == [c EXCEPT !.open = FALSE, !.queue = r]
<1>1. c \in Controllers /\ CallsGood(c) /\ c.errors <= PlaylistCount + 1
  BY DEF Good
<1>2. CASE s = NoSong
  BY <1>2, NextIfMoreGood DEF Stream
<1>3. CASE s # NoSong
  <2>1. s \in Songs
    BY <1>1, <1>3 DEF Controllers
  <2>2. r \in Seq(Songs)
    <3>1. q \in Seq(Songs)
      BY <1>1, EndAtType DEF Controllers
    <3> QED
      BY <2>1, <3>1, QueueType
  <2>3. NoCurrentCall(c) /\ c.streaming # "STREAMING"
    BY <1>3 DEF Good, CallsGood, NoCurrentCall
  <2>4. d = Opened(e) \/ d = e \/ d = Playing(Opened(e)) \/ d \in NextIfMore(e)
    BY <1>3 DEF Stream
  <2> HIDE DEF s, q, r
  <2>5. /\ e \in Controllers /\ e.playing = c.playing /\ e.streaming = c.streaming
        /\ e.next = c.next /\ e.cbid = c.cbid /\ e.calls = c.calls /\ e.hooked = c.hooked
        /\ e.errors = c.errors
    BY <1>1, <2>2 DEF Controllers
  <2> HIDE DEF e
  <2>6. CallsGood(e) /\ NoCurrentCall(e) /\ Valid(e)
    BY <2>3, <2>5 DEF Good, CallsGood, NoCurrentCall, Valid
  <2>7. Good(e)
    BY <2>3, <2>5, <2>6 DEF Good
  <2>8. Good(Opened(e))
    BY <1>1, <2>5, <2>6, OpenedGood
  <2> QED
    BY <2>4, <2>5, <2>7, <2>8, PlayingGood, NextIfMoreGood
<1> QED
  BY <1>2, <1>3

LEMMA StreamIfReadyGood ==
  ASSUME NEW c, Good(c), c.playing \notin Buffering, NEW d \in StreamIfReady(c)
  PROVE  Good(d)
BY StreamGood DEF StreamIfReady

LEMMA PlayIfReadyGood ==
  ASSUME NEW c, Good(c), c.streaming = "TRACKWAIT", NEW d \in PlayIfReady(c)
  PROVE  Good(d)
<1> DEFINE e == SetPlaying(c, "STOPPED")
<1>1. "TRACKWAIT" \in ValidStates["STOPPED"] /\ "STOPPED" \in PlayingStates
  BY DEF ValidStates, PlayingStates
<1>2. Good(e) /\ e.playing \notin Buffering
  BY <1>1, SetPlayingGood, SetPlayingEffect DEF Good, Buffering
<1>3. d = e \/ d \in Stream(e, NoSong)
  BY DEF PlayIfReady
<1> HIDE DEF e
<1> QED
  BY <1>2, <1>3, StreamGood

LEMMA SkipGood ==
  ASSUME NEW c, Good(c), NEW d \in Skip(c)
  PROVE  Good(d)
BY StopGetNextGood DEF Skip

LEMMA JumpToTimeGood ==
  ASSUME NEW c, Good(c), NEW d \in JumpToTime(c)
  PROVE  Good(d)
<1> DEFINE e == Stop(c)
<1>1. /\ Good(e) /\ e \in Controllers
      /\ e.playing \notin Buffering /\ e.streaming = "IDLE"
  BY StopGood, StopEffect DEF Good, Buffering
<1>2. d \in Stream(e, PlayingSong(e)) \/ d \in Skip(c)
  BY DEF JumpToTime
<1> HIDE DEF e
<1>3. e.queue \in Seq(Songs)
  BY <1>1 DEF Controllers
<1>4. PlayingSong(e) \in Songs \union {NoSong}
  BY <1>3, QueueType DEF PlayingSong
<1> QED
  BY <1>1, <1>2, <1>4, StreamGood, SkipGood

LEMMA JumpPausedGood ==
  ASSUME NEW c, Good(c), c.playing \notin Buffering, NEW d \in JumpPaused(c)
  PROVE  Good(d)
<1> DEFINE e == [c EXCEPT !.resume = TRUE]
<1>1. Good(e) /\ e.playing \notin Buffering
  BY ResumeFlagGood
<1>2. d \in {c, Stop(c), PauseStreaming(e)}
  BY DEF JumpPaused
<1> HIDE DEF e
<1> QED
  BY <1>1, <1>2, StopGood, PauseStreamingGood

LEMMA JumpOrResumeGood ==
  ASSUME NEW c, Good(c), NEW d \in JumpOrResume(c)
  PROVE  Good(d)
BY JumpToTimeGood, ResumeFlagGood, ResumeGood DEF JumpOrResume

LEMMA ContinueGood ==
  ASSUME NEW c, Good(c), c.playing = "PLAYING", c.streaming # "TRACKWAIT",
         NEW d \in Continue(c)
  PROVE  Good(d)
BY StreamoutGood, StreamGood, JumpToTimeGood DEF Continue, Buffering

LEMMA FlushGetNextGood ==
  ASSUME NEW c, Good(c), c.playing \notin Buffering, NEW d \in FlushGetNext(c)
  PROVE  Good(d)
<1> DEFINE r == IF c.queue = <<>> THEN c.queue ELSE Tail(c.queue)
           e == [c EXCEPT !.queue = r]
           f == SetStreaming(e, "IDLE")
<1>1. c \in Controllers /\ CallsGood(c) /\ c.errors <= PlaylistCount + 1
  BY DEF Good
<1>2. c.queue \in Seq(Songs)
  BY <1>1 DEF Controllers
<1>3. r \in Seq(Songs)
  BY <1>2, QueueType
<1>4. d \in GetNextTrack(f, TRUE)
  BY DEF FlushGetNext
<1> HIDE DEF r
<1>5. /\ e \in Controllers /\ e.playing = c.playing /\ e.cbid = c.cbid
      /\ e.calls = c.calls /\ e.hooked = c.hooked /\ e.errors = c.errors /\ e.next = c.next
      /\ e.streaming = c.streaming
  BY <1>1, <1>3 DEF Controllers
<1> HIDE DEF e
<1>6. CallsGood(e)
  BY <1>1, <1>5 DEF CallsGood
<1>7. Good(f) /\ f.playing \notin Buffering
  BY <1>1, <1>5, <1>6, SetStreamingEffect, IdleGood DEF StreamingStates
<1> HIDE DEF f
<1> QED
  BY <1>4, <1>7, GetNextTrackGood

LEMMA SyncStopNextGood ==
  ASSUME NEW c, Good(c), c.playing = "PLAYING", c.streaming # "TRACKWAIT",
         NEW d \in SyncStopNext(c)
  PROVE  Good(d)
<1> DEFINE i == SetStreaming(c, "IDLE")
           o == SetStreaming(c, "STREAMOUT")
           s == Stop(c)
<1>1. c \in Controllers
  BY DEF Good
<1>2. Good(i) /\ i.playing \notin Buffering
  BY GoIdleGood DEF Buffering
<1>3. Good(o) /\ o.playing \notin Buffering
  BY <1>1, StreamoutGood, SetStreamingEffect DEF Buffering, StreamingStates
<1>4. Good(s) /\ s.playing \notin Buffering
  BY <1>1, StopGood, StopEffect DEF Buffering
<1>5. d \in RetryOrGoOn(i) \/ d \in RetryOrGoOn(s) \/ d \in RetryOrGoOn(o)
  BY DEF SyncStopNext
<1> HIDE DEF i, o, s
<1> QED
  BY <1>2, <1>3, <1>4, <1>5, RetryOrGoOnGood

LEMMA RetryOrNextGood ==
  ASSUME NEW c, Good(c), c.playing \notin Buffering, NEW d \in RetryOrNext(c)
  PROVE  Good(d)
<1> DEFINE e == SetStreaming(c, "IDLE")
<1>1. Good(e) /\ e.playing \notin Buffering /\ e.streaming = "IDLE"
  BY GoIdleGood
<1>2. d \in NextIfMore(c) \/ d \in Stream(e, StreamingSong(e))
  BY DEF RetryOrNext
<1> HIDE DEF e
<1>3. e.queue \in Seq(Songs)
  BY <1>1 DEF Good, Controllers
<1>4. StreamingSong(e) \in Songs \union {NoSong}
  BY <1>3, QueueType DEF StreamingSong
<1> QED
  BY <1>1, <1>2, <1>4, NextIfMoreGood, StreamGood

LEMMA StartIfReadyGood ==
  ASSUME NEW c, Good(c), NEW d \in StartIfReady(c)
  PROVE  Good(d)
BY StartGood DEF StartIfReady

-----------------------------------------------------------------------------
(* The table runs an action only where its lemma applies.                  *)
LEMMA TableGuards ==
  ASSUME NEW e \in Events, NEW c, Good(c)
  PROVE  LET a == StateTable(e, c.playing, c.streaming)
         IN  /\ a \in {"Stream", "StreamIfReady", "NextIfMore", "FlushGetNext", "JumpPaused",
                       "PlayAndNext", "PlayAndStream", "RetryOrNext"}
                  => c.playing \notin Buffering
             /\ a \in {"Continue", "SyncStopNext"}
                  => c.playing = "PLAYING" /\ c.streaming # "TRACKWAIT"
             /\ a \in {"Streamout", "AutoStart", "StartStreamout", "Buffering", "Rebuffer"}
                  => c.streaming \in {"STREAMING", "STREAMOUT"}
             /\ a = "PlayIfReady" => c.streaming = "TRACKWAIT"
             /\ a = "Stopped" => c.streaming \in {"IDLE", "TRACKWAIT"}
             /\ a = "WaitToSync" => c.playing = "BUFFERING"
<1>1. /\ c.playing \in PlayingStates /\ c.streaming \in StreamingStates
      /\ c.streaming \in ValidStates[c.playing]
  BY DEF Good, Valid, Controllers
<1>2. /\ c.playing \in Buffering => c.streaming \in {"STREAMING", "STREAMOUT"}
      /\ c.playing = "STOPPED" => c.streaming \in {"IDLE", "TRACKWAIT"}
  BY <1>1 DEF ValidStates, Buffering, PlayingStates
<1> DEFINE p == c.playing
           s == c.streaming
           a == StateTable(e, p, s)
<1> HIDE DEF p, s
<1>3. /\ p \in PlayingStates /\ s \in StreamingStates /\ s \in ValidStates[p]
      /\ p \in Buffering => s \in {"STREAMING", "STREAMOUT"}
      /\ p = "STOPPED" => s \in {"IDLE", "TRACKWAIT"}
  BY <1>1, <1>2 DEF p, s
<1>4. a \in {"Stream", "StreamIfReady", "NextIfMore", "FlushGetNext", "JumpPaused",
              "PlayAndNext", "PlayAndStream", "RetryOrNext"} => p \notin Buffering
  BY <1>3 DEF StateTable, Buffering
<1>5. a \in {"Continue", "SyncStopNext"} => p = "PLAYING" /\ s # "TRACKWAIT"
  BY <1>3 DEF StateTable
<1>6. a \in {"Streamout", "AutoStart", "StartStreamout", "Buffering", "Rebuffer"}
        => s \in {"STREAMING", "STREAMOUT"}
  BY <1>3 DEF StateTable, Buffering
<1>7. a = "PlayIfReady" => s = "TRACKWAIT"
  BY <1>3 DEF StateTable
<1>8. a = "Stopped" => s \in {"IDLE", "TRACKWAIT"}
  BY <1>3 DEF StateTable, StreamingStates
<1>9. a = "WaitToSync" => p = "BUFFERING"
  BY <1>3 DEF StateTable, Buffering
<1> QED
  BY <1>4, <1>5, <1>6, <1>7, <1>8, <1>9 DEF p, s

Actions ==
  {"Ignore", "Stop", "StopGetNext", "Skip", "Pause", "Resume", "JumpOrResume", "JumpToTime",
   "JumpPaused", "FlushGetNext", "Stream", "StreamIfReady", "PlayIfReady", "NextIfMore",
   "Streamout", "AutoStart", "StartStreamout", "Start", "StartIfReady", "WaitToSync",
   "Playing", "PlayAndNext", "PlayAndStream", "Continue", "StopNextIfMore", "SyncStopNext",
   "RetryOrNext", "Buffering", "Stopped", "Rebuffer"}

LEMMA TableActions ==
  ASSUME NEW e, NEW p, NEW s
  PROVE  StateTable(e, p, s) \in Actions
BY DEF StateTable, Actions

(* From a good controller every event leaves a good controller.            *)
LEMMA ResolveGood ==
  ASSUME NEW e \in Events, NEW c, Good(c), NEW d \in Resolve(e, c)
  PROVE  Good(d)
<1> DEFINE a == StateTable(e, c.playing, c.streaming)
<1>1. a \in Actions
  BY TableActions
<1>2. /\ a \in {"Stream", "StreamIfReady", "NextIfMore", "FlushGetNext", "JumpPaused",
                "PlayAndNext", "PlayAndStream", "RetryOrNext"}
           => c.playing \notin Buffering
      /\ a \in {"Continue", "SyncStopNext"}
           => c.playing = "PLAYING" /\ c.streaming # "TRACKWAIT"
      /\ a \in {"Streamout", "AutoStart", "StartStreamout", "Buffering", "Rebuffer"}
           => c.streaming \in {"STREAMING", "STREAMOUT"}
      /\ a = "PlayIfReady" => c.streaming = "TRACKWAIT"
      /\ a = "Stopped" => c.streaming \in {"IDLE", "TRACKWAIT"}
      /\ a = "WaitToSync" => c.playing = "BUFFERING"
  BY TableGuards
<1>3. d \in Outcomes(a, c)
  BY DEF Resolve
<1> HIDE DEF a
<1>4. /\ c \in Controllers /\ Valid(c)
      /\ c.playing \in PlayingStates /\ c.streaming \in StreamingStates
  BY DEF Good, Controllers
<1>5. c.streaming \in {"STREAMING", "STREAMOUT"} => c.playing # "STOPPED"
  BY <1>4 DEF Valid, ValidStates, PlayingStates
<1>6. c.playing \in Buffering => c.streaming \in {"STREAMING", "STREAMOUT"}
  BY <1>4 DEF Valid, ValidStates, PlayingStates, Buffering
<1>7. CASE a \in {"Ignore", "Stop", "StopGetNext", "Skip", "Pause", "Resume"}
  BY <1>3, <1>7, StopGood, StopGetNextGood, SkipGood, PauseGood, ResumeGood DEF Outcomes
<1>8. CASE a \in {"JumpOrResume", "JumpToTime", "JumpPaused", "FlushGetNext"}
  BY <1>2, <1>3, <1>8, JumpOrResumeGood, JumpToTimeGood, JumpPausedGood, FlushGetNextGood
     DEF Outcomes
<1>9. CASE a \in {"Stream", "StreamIfReady", "PlayIfReady", "NextIfMore"}
  BY <1>2, <1>3, <1>9, StreamGood, StreamIfReadyGood, PlayIfReadyGood, NextIfMoreGood
     DEF Outcomes
<1>10. CASE a \in {"Streamout", "AutoStart", "StartStreamout"}
  <2>1. Good(SetStreaming(c, "STREAMOUT"))
    BY <1>2, <1>5, <1>10, StreamoutGood
  <2> QED
    BY <1>3, <1>10, <2>1, StartGood DEF Outcomes
<1>11. CASE a \in {"Start", "StartIfReady", "WaitToSync"}
  <2>1. a = "WaitToSync" => Good(SetPlaying(c, "WAITING_TO_SYNC"))
    BY <1>2, <1>6, <1>4, StreamValid, SetPlayingGood DEF Buffering, PlayingStates
  <2> QED
    BY <1>3, <1>11, <2>1, StartGood, StartIfReadyGood DEF Outcomes
<1>12. CASE a = "Playing"
  BY <1>3, <1>12, PlayingGood DEF Outcomes
<1>13. CASE a \in {"PlayAndNext", "PlayAndStream"}
  <2>1. Good(Playing(c)) /\ Playing(c).playing \notin Buffering
    BY <1>2, <1>13, PlayingGood DEF Buffering
  <2> QED
    BY <1>3, <1>13, <2>1, GetNextTrackGood, StreamIfReadyGood DEF Outcomes
<1>14. CASE a \in {"Continue", "SyncStopNext", "RetryOrNext"}
  BY <1>2, <1>3, <1>14, ContinueGood, SyncStopNextGood, RetryOrNextGood DEF Outcomes
<1>15. CASE a = "StopNextIfMore"
  <2>1. Good(Stop(c)) /\ Stop(c).playing \notin Buffering
    BY <1>4, StopGood, StopEffect DEF Buffering
  <2> QED
    BY <1>3, <1>15, <2>1, RetryOrGoOnGood DEF Outcomes
<1>16. CASE a = "Rebuffer"
  BY <1>2, <1>3, <1>16, RebufferGood DEF Outcomes
<1>17. CASE a = "Buffering"
  BY <1>2, <1>3, <1>17, StreamValid, SetPlayingGood DEF Outcomes, PlayingStates
<1>18. CASE a = "Stopped"
  <2>1. c.streaming \in ValidStates["STOPPED"]
    BY <1>2, <1>18 DEF ValidStates, PlayingStates
  <2> QED
    BY <1>3, <1>18, <2>1, SetPlayingGood DEF Outcomes, PlayingStates
<1> QED
  BY <1>1, <1>7, <1>8, <1>9, <1>10, <1>11, <1>12, <1>13, <1>14, <1>15, <1>16, <1>17, <1>18
     DEF Actions

-----------------------------------------------------------------------------
(* A callback is removed from the calls before its answer is acted on.     *)
LEMMA AnsweredGood ==
  ASSUME NEW c, Good(c), NEW call \in c.calls
  PROVE  LET d == [c EXCEPT !.calls = @ \ {call}]
         IN  /\ Good(d)
             /\ call.id = c.cbid =>
                  /\ NoCurrentCall(d) /\ d.streaming = "TRACKWAIT"
                  /\ d.errors <= PlaylistCount
<1> DEFINE d == [c EXCEPT !.calls = @ \ {call}]
<1>1. c \in Controllers /\ c.calls \in SUBSET [id : Nat, song : Songs]
  BY DEF Good, Controllers
<1>2. c.calls \ {call} \in SUBSET [id : Nat, song : Songs]
  BY <1>1
<1>3. d \in Controllers
  BY <1>1, <1>2 DEF Controllers
<1>4. /\ d.playing = c.playing /\ d.streaming = c.streaming /\ d.next = c.next
      /\ d.cbid = c.cbid /\ d.calls = c.calls \ {call} /\ d.hooked = c.hooked /\ d.open = c.open
      /\ d.errors = c.errors
  BY <1>1 DEF Controllers
<1> HIDE DEF d
<1>5. CallsGood(d) /\ Valid(d)
  BY <1>4 DEF Good, CallsGood, Valid
<1>6. Good(d)
  BY <1>3, <1>4, <1>5 DEF Good
<1>7. call.id = c.cbid =>
        NoCurrentCall(d) /\ d.streaming = "TRACKWAIT" /\ d.errors <= PlaylistCount
  BY <1>4 DEF Good, CallsGood, NoCurrentCall
<1> QED
  BY <1>6, <1>7 DEF d

LEMMA ReadyGood ==
  ASSUME NEW c, Good(c), NoCurrentCall(c), c.streaming = "TRACKWAIT", NEW song \in Songs
  PROVE  Good([c EXCEPT !.next = song])
<1> DEFINE d == [c EXCEPT !.next = song]
<1>1. c \in Controllers
  BY DEF Good
<1>2. /\ d \in Controllers
      /\ d.playing = c.playing /\ d.streaming = c.streaming
      /\ d.cbid = c.cbid /\ d.calls = c.calls /\ d.hooked = c.hooked /\ d.open = c.open
      /\ d.errors = c.errors
  BY <1>1 DEF Controllers
<1> HIDE DEF d
<1>3. CallsGood(d) /\ Valid(d)
  BY <1>2 DEF Good, CallsGood, NoCurrentCall, Valid
<1>4. Good(d)
  BY <1>2, <1>3 DEF Good
<1> QED
  BY <1>4 DEF d

LEMMA ErrorGood ==
  ASSUME NEW c, Good(c), NoCurrentCall(c), c.errors <= PlaylistCount
  PROVE  Good([c EXCEPT !.errors = @ + 1])
<1> DEFINE d == [c EXCEPT !.errors = @ + 1]
<1>1. c \in Controllers /\ c.errors \in Nat /\ PlaylistCount \in Nat
  BY BoundsAssumption DEF Good, Controllers
<1>2. /\ d \in Controllers
      /\ d.playing = c.playing /\ d.streaming = c.streaming /\ d.next = c.next
      /\ d.cbid = c.cbid /\ d.calls = c.calls /\ d.hooked = c.hooked /\ d.open = c.open
      /\ d.errors = c.errors + 1
  BY <1>1 DEF Controllers
<1> HIDE DEF d
<1>3. CallsGood(d) /\ Valid(d)
  BY <1>2 DEF Good, CallsGood, NoCurrentCall, Valid
<1>4. d.errors <= PlaylistCount + 1
  BY <1>1, <1>2
<1>5. Good(d)
  BY <1>2, <1>3, <1>4 DEF Good
<1> QED
  BY <1>5 DEF d

LEMMA FreshGood ==
  ASSUME NEW hooked \in BOOLEAN
  PROVE  Good(Fresh(hooked))
<1>1. Fresh(hooked) \in Controllers
  BY DEF Fresh, Controllers, PlayingStates, StreamingStates
<1> QED
  BY <1>1, BoundsAssumption
     DEF Good, Valid, CallsGood, Fresh, ValidStates, PlayingStates

LEMMA NoteStrmSentGood ==
  ASSUME Good(ctl), NEW track \in Songs \union {NoSong}, NoteStrmSent(track)
  PROVE  Good(ctl')
<1> DEFINE song == IF track # NoSong THEN track
                   ELSE IF ctl.next # NoSong THEN ctl.next ELSE PlayingSong(ctl)
           q == IF song = NoSong \/ StreamingSong(ctl) = song
                THEN ctl.queue ELSE <<song>> \o ctl.queue
           c == [ctl EXCEPT !.next = NoSong, !.queue = q]
           p == IF c.playing = "STOPPED" THEN SetPlaying(c, "BUFFERING") ELSE c
           d == SetStreaming(p, "STREAMING")
<1>1. ~ctl.hooked /\ ctl' = d
  BY DEF NoteStrmSent
<1>2. /\ ctl \in Controllers /\ ctl.calls = {} /\ ctl.errors <= PlaylistCount + 1 /\ ~ctl.hooked
      /\ ctl.queue \in Seq(Songs)
  BY <1>1 DEF Good, CallsGood, Controllers
<1>3. song \in Songs \union {NoSong}
  BY <1>2, QueueType DEF PlayingSong, Controllers
<1> HIDE DEF song
<1>4. q \in Seq(Songs)
  BY <1>2, <1>3, QueueType
<1> HIDE DEF q
<1>5. /\ c \in Controllers /\ c.calls = {} /\ ~c.hooked /\ c.errors = ctl.errors /\ c.next = NoSong
  BY <1>2, <1>4 DEF Controllers
<1> HIDE DEF c
<1>6. /\ p \in Controllers /\ p.playing # "STOPPED" /\ p.playing \in PlayingStates
      /\ p.calls = {} /\ ~p.hooked /\ p.errors = ctl.errors /\ p.next = NoSong
  BY <1>5, SetPlayingEffect DEF PlayingStates, Controllers
<1> HIDE DEF p
<1>7. /\ d \in Controllers /\ d.playing = p.playing /\ d.streaming = "STREAMING"
      /\ d.calls = {} /\ ~d.hooked /\ d.errors = ctl.errors /\ d.next = NoSong
  BY <1>6, SetStreamingEffect DEF StreamingStates
<1> HIDE DEF d
<1>8. Valid(d) /\ CallsGood(d)
  BY <1>6, <1>7, StreamValid DEF Valid, CallsGood
<1> QED
  BY <1>1, <1>2, <1>7, <1>8 DEF Good

LEMMA NextGood ==
  ASSUME Good(ctl), [Next]_vars
  PROVE  Good(ctl')
<1>1. ASSUME NEW e \in UserEvents, UserAsks(e)
      PROVE  Good(ctl')
  BY <1>1, ResolveGood, ErrorsClearedGood DEF UserAsks, Events
<1>2. ASSUME NEW e \in PlayerEvents, PlayerReports(e)
      PROVE  Good(ctl')
  BY <1>2, ResolveGood DEF PlayerReports, Events
<1>3. ASSUME NEW call \in ctl.calls, NextTrackReady(call)
      PROVE  Good(ctl')
  <2> DEFINE c == [ctl EXCEPT !.calls = @ \ {call}]
             d == [c EXCEPT !.next = call.song]
  <2>1. /\ Good(c)
        /\ call.id = ctl.cbid => NoCurrentCall(c) /\ c.streaming = "TRACKWAIT"
    BY <1>3, AnsweredGood
  <2>2. ctl' \in IF call.id = ctl.cbid THEN Resolve("NextTrackReady", d) ELSE {c}
    BY <1>3 DEF NextTrackReady
  <2>3. call.song \in Songs
    BY <1>3 DEF Good, Controllers
  <2> HIDE DEF c
  <2>4. call.id = ctl.cbid => Good(d)
    BY <2>1, <2>3, ReadyGood
  <2> HIDE DEF d
  <2> QED
    BY <2>1, <2>2, <2>4, ResolveGood DEF Events
<1>4. ASSUME NEW call \in ctl.calls, NextTrackError(call)
      PROVE  Good(ctl')
  <2> DEFINE c == [ctl EXCEPT !.calls = @ \ {call}]
             d == [c EXCEPT !.errors = @ + 1]
  <2>1. /\ Good(c)
        /\ call.id = ctl.cbid => NoCurrentCall(c) /\ c.errors <= PlaylistCount
    BY <1>4, AnsweredGood
  <2>2. ctl' \in IF call.id = ctl.cbid THEN Resolve("NextTrackError", d) ELSE {c}
    BY <1>4 DEF NextTrackError
  <2> HIDE DEF c
  <2>3. call.id = ctl.cbid => Good(d)
    BY <2>1, ErrorGood
  <2> HIDE DEF d
  <2> QED
    BY <2>1, <2>2, <2>3, ResolveGood DEF Events
<1>5. ASSUME NEW track \in Songs \union {NoSong}, NoteStrmSent(track)
      PROVE  Good(ctl')
  BY <1>5, NoteStrmSentGood
<1>6. CASE Reset
  BY <1>6, FreshGood DEF Reset
<1>7. CASE UNCHANGED vars
  BY <1>7 DEF vars
<1> QED
  BY <1>1, <1>2, <1>3, <1>4, <1>5, <1>6, <1>7 DEF Next

-----------------------------------------------------------------------------
(* No action of the table takes a request back: only its answer, or a new  *)
(* controller, ends it.  Kept(c, d) needs no type of c but the field.      *)
Kept(c, d) == "calls" \in DOMAIN d /\ c.calls \subseteq d.calls
AllKept(c, S) == \A d \in S : Kept(c, d)
Asks(c) == "calls" \in DOMAIN c

LEMMA KeptOn ==
  ASSUME NEW b, NEW c, NEW S, Kept(b, c), AllKept(c, S)
  PROVE  AllKept(b, S)
BY DEF Kept, AllKept

LEMMA MutatorsKeep ==
  ASSUME NEW c, Asks(c)
  PROVE  /\ Kept(c, c)
         /\ \A p, s : Kept(c, SetPlaying(c, p)) /\ Kept(c, SetStreaming(c, s))
BY DEF Asks, Kept, SetPlaying, SetStreaming

LEMMA SimpleKeep ==
  ASSUME NEW c, Asks(c)
  PROVE  /\ Kept(c, Stop(c)) /\ Kept(c, Playing(c)) /\ Kept(c, Resume(c)) /\ Kept(c, Pause(c))
         /\ Kept(c, Rebuffer(c)) /\ Kept(c, Start(c)) /\ Kept(c, PauseStreaming(c))
         /\ Kept(c, Opened(c)) /\ Kept(c, [c EXCEPT !.resume = TRUE])
         /\ Kept(c, [c EXCEPT !.resume = FALSE])
<1>1. Kept(c, Stop(c)) BY DEF Asks, Kept, Stop, SetPlaying, SetStreaming
<1>2. Kept(c, Playing(c)) BY DEF Asks, Kept, Playing, SetPlaying
<1>3. Kept(c, Resume(c)) BY DEF Asks, Kept, Resume, SetPlaying
<1>4. Kept(c, Pause(c)) BY DEF Asks, Kept, Pause, SetPlaying
<1>5. Kept(c, Rebuffer(c)) BY DEF Asks, Kept, Rebuffer, SetPlaying
<1>6. Kept(c, Start(c)) BY <1>2, <1>3 DEF Start
<1>7. Kept(c, PauseStreaming(c)) BY DEF Asks, Kept, PauseStreaming, SetStreaming
<1>8. Kept(c, Opened(c)) BY DEF Asks, Kept, Opened, SetPlaying, SetStreaming
<1>9. Kept(c, [c EXCEPT !.resume = TRUE]) /\ Kept(c, [c EXCEPT !.resume = FALSE])
  BY DEF Asks, Kept
<1> QED BY <1>1, <1>2, <1>3, <1>4, <1>5, <1>6, <1>7, <1>8, <1>9

LEMMA GetNextTrackKeeps ==
  ASSUME NEW c, Asks(c), NEW more \in BOOLEAN
  PROVE  AllKept(c, GetNextTrack(c, more))
<1>1. \A k : Kept(c, Failed(c, k)) BY DEF Asks, Kept, Failed
<1>2. ASSUME NEW b, Asks(b), NEW song PROVE Kept(b, AwaitSong(b, song))
  BY <1>2 DEF Asks, Kept, AwaitSong
<1>3. \A k, song : Kept(c, AwaitSong(Failed(c, k), song)) BY <1>1, <1>2 DEF Kept, Asks
<1>4. Kept(c, c) BY MutatorsKeep
<1> QED BY <1>1, <1>3, <1>4 DEF AllKept, GetNextTrack

LEMMA NextIfMoreKeeps ==
  ASSUME NEW c, Asks(c)
  PROVE  AllKept(c, NextIfMore(c))
<1> DEFINE d == SetStreaming(c, "IDLE")
<1>1. Kept(c, d) /\ Asks(d) BY MutatorsKeep DEF Kept, Asks
<1> HIDE DEF d
<1>2. AllKept(d, GetNextTrack(d, TRUE)) BY <1>1, GetNextTrackKeeps
<1>3. AllKept(c, GetNextTrack(d, TRUE)) BY <1>1, <1>2, KeptOn
<1>4. AllKept(c, {d}) BY <1>1 DEF AllKept
<1> QED BY <1>3, <1>4 DEF NextIfMore, d

LEMMA StopGetNextKeeps ==
  ASSUME NEW c, Asks(c)
  PROVE  AllKept(c, StopGetNext(c)) /\ AllKept(c, Skip(c))
<1>1. Kept(c, Stop(c)) /\ Asks(Stop(c)) /\ Kept(c, c) BY SimpleKeep, MutatorsKeep DEF Kept, Asks
<1>2. AllKept(c, StopGetNext(c)) BY <1>1, GetNextTrackKeeps, KeptOn DEF StopGetNext
<1> QED BY <1>1, <1>2 DEF Skip, AllKept

LEMMA StreamKeeps ==
  ASSUME NEW c, Asks(c), NEW song
  PROVE  AllKept(c, Stream(c, song))
<1> DEFINE s == IF song # NoSong THEN song ELSE c.next
           q == EndAt(c.queue, 2)
           d == [c EXCEPT !.open = FALSE,
                          !.queue = IF q # <<>> /\ q[1] = s THEN q ELSE <<s>> \o q]
<1>1. Kept(c, d) /\ Asks(d) BY DEF Kept, Asks
<1>2. Stream(c, song) = IF s = NoSong THEN NextIfMore(c)
                        ELSE {Opened(d)} \union
                             (IF c.hooked THEN {d, Playing(Opened(d))} \union NextIfMore(d) ELSE {})
  BY DEF Stream
<1> HIDE DEF d, s
<1>3. Kept(d, d) /\ Kept(d, Opened(d)) /\ Asks(Opened(d)) BY <1>1, MutatorsKeep, SimpleKeep DEF Kept, Asks
<1>4. Kept(d, Playing(Opened(d)))
  <2>1. Kept(Opened(d), Playing(Opened(d))) BY <1>3, SimpleKeep
  <2> QED BY <1>3, <2>1 DEF Kept
<1>5. AllKept(d, NextIfMore(d)) /\ AllKept(c, NextIfMore(c)) BY <1>1, NextIfMoreKeeps
<1>6. AllKept(d, {Opened(d), d, Playing(Opened(d))} \union NextIfMore(d))
  BY <1>3, <1>4, <1>5 DEF AllKept
<1>7. AllKept(c, {Opened(d), d, Playing(Opened(d))} \union NextIfMore(d)) BY <1>1, <1>6, KeptOn
<1> QED BY <1>2, <1>5, <1>7 DEF AllKept

LEMMA StreamIfReadyKeeps ==
  ASSUME NEW c, Asks(c)
  PROVE  AllKept(c, StreamIfReady(c)) /\ AllKept(c, PlayIfReady(c))
<1>1. Kept(c, c) /\ AllKept(c, Stream(c, NoSong)) BY MutatorsKeep, StreamKeeps
<1> DEFINE d == SetPlaying(c, "STOPPED")
<1>2. Kept(c, d) /\ Asks(d) BY MutatorsKeep DEF Kept, Asks
<1> HIDE DEF d
<1>3. AllKept(c, Stream(d, NoSong)) BY <1>2, StreamKeeps, KeptOn
<1>4. AllKept(c, StreamIfReady(c)) BY <1>1 DEF StreamIfReady, AllKept
<1>5. AllKept(c, PlayIfReady(c)) BY <1>2, <1>3 DEF PlayIfReady, AllKept, d
<1> QED BY <1>4, <1>5

LEMMA JumpKeeps ==
  ASSUME NEW c, Asks(c)
  PROVE  /\ AllKept(c, JumpToTime(c)) /\ AllKept(c, JumpPaused(c))
         /\ AllKept(c, JumpOrResume(c)) /\ AllKept(c, Continue(c))
<1>1. Kept(c, Stop(c)) /\ Asks(Stop(c)) /\ Kept(c, c) /\ Kept(c, Resume(c))
  BY SimpleKeep, MutatorsKeep DEF Kept, Asks
<1>2. AllKept(c, JumpToTime(c))
  <2>1. AllKept(c, Stream(Stop(c), PlayingSong(Stop(c)))) BY <1>1, StreamKeeps, KeptOn
  <2> QED BY <2>1, StopGetNextKeeps DEF JumpToTime, AllKept
<1>3. AllKept(c, JumpPaused(c))
  <2> DEFINE d == [c EXCEPT !.resume = TRUE]
  <2>1. Kept(c, d) /\ Asks(d) BY SimpleKeep DEF Kept, Asks
  <2> HIDE DEF d
  <2>2. Kept(d, PauseStreaming(d)) BY <2>1, SimpleKeep
  <2>3. Kept(c, PauseStreaming(d)) BY <2>1, <2>2 DEF Kept
  <2> QED BY <1>1, <2>3 DEF JumpPaused, AllKept, d
<1>4. AllKept(c, JumpOrResume(c))
  <2>1. \A d \in JumpToTime(c) : Kept(c, [d EXCEPT !.resume = FALSE])
    BY <1>2, SimpleKeep DEF AllKept, Kept, Asks
  <2> QED BY <1>1, <2>1 DEF JumpOrResume, AllKept
<1>5. AllKept(c, Continue(c))
  BY <1>2, MutatorsKeep, StreamKeeps DEF Continue, AllKept
<1> QED BY <1>2, <1>3, <1>4, <1>5

LEMMA FlushKeeps ==
  ASSUME NEW c, Asks(c)
  PROVE  AllKept(c, FlushGetNext(c))
<1> DEFINE b == [c EXCEPT !.queue = IF @ = <<>> THEN @ ELSE Tail(@)]
           d == SetStreaming(b, "IDLE")
<1>1. Kept(c, b) /\ Asks(b) BY DEF Kept, Asks
<1>2. FlushGetNext(c) = GetNextTrack(d, TRUE) BY DEF FlushGetNext
<1> HIDE DEF b
<1>3. Kept(c, d) /\ Asks(d) BY <1>1, MutatorsKeep DEF Kept, Asks
<1> HIDE DEF d
<1> QED BY <1>2, <1>3, GetNextTrackKeeps, KeptOn

LEMMA RetryKeeps ==
  ASSUME NEW c, Asks(c)
  PROVE  /\ AllKept(c, RetryOrGoOn(c)) /\ AllKept(c, RetryOrGoOn(Stop(c)))
         /\ AllKept(c, SyncStopNext(c)) /\ AllKept(c, RetryOrNext(c))
<1>1. ASSUME NEW b, Asks(b) PROVE AllKept(b, RetryOrGoOn(b))
  BY <1>1, MutatorsKeep, GetNextTrackKeeps DEF RetryOrGoOn, AllKept
<1>2. ASSUME NEW b, Kept(c, b) PROVE AllKept(c, RetryOrGoOn(b))
  BY <1>1, <1>2, KeptOn DEF Kept, Asks
<1>3. Kept(c, c) /\ Kept(c, Stop(c)) /\ \A s : Kept(c, SetStreaming(c, s))
  BY SimpleKeep, MutatorsKeep
<1>4. AllKept(c, RetryOrGoOn(c)) /\ AllKept(c, RetryOrGoOn(Stop(c))) BY <1>2, <1>3
<1>5. AllKept(c, SyncStopNext(c)) BY <1>2, <1>3, <1>4 DEF SyncStopNext, AllKept
<1>6. AllKept(c, RetryOrNext(c))
  <2> DEFINE d == SetStreaming(c, "IDLE")
  <2>1. Kept(c, d) /\ Asks(d) BY <1>3 DEF Kept, Asks
  <2> HIDE DEF d
  <2>2. AllKept(c, Stream(d, StreamingSong(d))) BY <2>1, StreamKeeps, KeptOn
  <2> QED BY <2>2, NextIfMoreKeeps DEF RetryOrNext, AllKept, d
<1> QED BY <1>4, <1>5, <1>6

LEMMA ResolveKeeps ==
  ASSUME NEW e, NEW c, Asks(c)
  PROVE  AllKept(c, Resolve(e, c))
<1> DEFINE a == StateTable(e, c.playing, c.streaming)
<1>1. a \in Actions BY TableActions
<1>2. SUFFICES AllKept(c, Outcomes(a, c)) BY DEF Resolve
<1> HIDE DEF a
<1>3. /\ Kept(c, c) /\ \A p, s : Kept(c, SetPlaying(c, p)) /\ Kept(c, SetStreaming(c, s))
  BY MutatorsKeep
<1>4. CASE a \in {"Ignore", "Stop", "StopGetNext", "Skip", "Pause", "Resume", "Playing", "Start",
                  "Rebuffer", "Buffering", "Stopped", "Streamout", "AutoStart"}
  BY <1>3, <1>4, SimpleKeep, StopGetNextKeeps DEF Outcomes, AllKept
<1>5. CASE a \in {"JumpOrResume", "JumpToTime", "JumpPaused", "FlushGetNext", "Continue"}
  BY <1>5, JumpKeeps, FlushKeeps DEF Outcomes
<1>6. CASE a \in {"Stream", "StreamIfReady", "PlayIfReady", "NextIfMore"}
  BY <1>6, StreamKeeps, StreamIfReadyKeeps, NextIfMoreKeeps DEF Outcomes
<1>7. CASE a \in {"StartStreamout", "StartIfReady", "WaitToSync"}
  <2>1. ASSUME NEW b, Kept(c, b) PROVE Kept(c, Start(b))
    <3>1. Asks(b) BY <2>1 DEF Kept, Asks
    <3>2. Kept(b, Start(b)) BY <3>1, SimpleKeep
    <3> QED BY <2>1, <3>2 DEF Kept
  <2> QED BY <1>3, <1>7, <2>1 DEF Outcomes, StartIfReady, AllKept
<1>8. CASE a \in {"PlayAndNext", "PlayAndStream"}
  <2>1. Kept(c, Playing(c)) /\ Asks(Playing(c)) BY SimpleKeep DEF Kept, Asks
  <2> QED BY <1>8, <2>1, GetNextTrackKeeps, StreamIfReadyKeeps, KeptOn DEF Outcomes
<1>9. CASE a \in {"StopNextIfMore", "SyncStopNext", "RetryOrNext"}
  BY <1>9, RetryKeeps DEF Outcomes
<1> QED BY <1>1, <1>4, <1>5, <1>6, <1>7, <1>8, <1>9 DEF Actions

(* The answer to a request that a newer one has overtaken is not the       *)
(* current one, so next_track_ready and next_track_error only strike it    *)
(* off; and nothing else strikes off one request alone.                    *)
LEMMA OvertakenIgnored ==
  ASSUME Good(ctl), Next, NEW older \in ctl.calls, NEW newer \in ctl.calls,
         older.id < newer.id, ctl'.calls = ctl.calls \ {older}
  PROVE  [ctl' EXCEPT !.calls = {}] = [ctl EXCEPT !.calls = {}]
<1>1. /\ ctl \in Controllers /\ Asks(ctl) /\ ctl.hooked
      /\ older.id \in Nat /\ newer.id \in Nat /\ newer.id <= ctl.cbid /\ ctl.cbid \in Nat
  BY DEF Good, CallsGood, Controllers, Asks
<1>2. older # newer /\ older.id # ctl.cbid BY <1>1
<1>3. ASSUME NEW c, Asks(c), ctl.calls \subseteq c.calls, NEW e, ctl' \in Resolve(e, c) PROVE FALSE
  <2>1. ctl.calls \subseteq ctl'.calls BY <1>3, ResolveKeeps DEF AllKept, Kept
  <2> QED BY <2>1
<1>4. ASSUME NEW e \in UserEvents, UserAsks(e) PROVE FALSE
  <2> DEFINE c == IF e \in {"Play", "Skip"} THEN [ctl EXCEPT !.errors = 0] ELSE ctl
  <2>1. Asks(c) /\ ctl.calls \subseteq c.calls BY <1>1 DEF Asks
  <2>2. ctl' \in Resolve(e, c) BY <1>4 DEF UserAsks
  <2> HIDE DEF c
  <2> QED BY <1>3, <2>1, <2>2
<1>5. ASSUME NEW e \in PlayerEvents, PlayerReports(e) PROVE FALSE
  BY <1>1, <1>3, <1>5 DEF PlayerReports
<1>6. ASSUME NEW call \in ctl.calls, NextTrackReady(call) \/ NextTrackError(call)
      PROVE  [ctl' EXCEPT !.calls = {}] = [ctl EXCEPT !.calls = {}]
  <2> DEFINE c == [ctl EXCEPT !.calls = @ \ {call}]
             d == [c EXCEPT !.next = call.song]
             f == [c EXCEPT !.errors = @ + 1]
  <2>1. CASE call.id # ctl.cbid
    <3>1. ctl' = c BY <1>6, <2>1 DEF NextTrackReady, NextTrackError
    <3>2. [c EXCEPT !.calls = {}] = [ctl EXCEPT !.calls = {}] BY <1>1 DEF Controllers
    <3> QED BY <3>1, <3>2
  <2>2. CASE call.id = ctl.cbid
    <3>1. ctl' \in Resolve("NextTrackReady", d) \/ ctl' \in Resolve("NextTrackError", f)
      BY <1>6, <2>2 DEF NextTrackReady, NextTrackError
    <3>2. /\ Asks(d) /\ d.calls = ctl.calls \ {call}
          /\ Asks(f) /\ f.calls = ctl.calls \ {call}
      BY <1>1 DEF Asks
    <3> HIDE DEF d, f
    <3>3. ctl.calls \ {call} \subseteq ctl'.calls BY <3>1, <3>2, ResolveKeeps DEF AllKept, Kept
    <3>4. call # older BY <1>2, <2>2
    <3> QED BY <3>3, <3>4
  <2> QED BY <2>1, <2>2
<1>7. ASSUME NEW track \in Songs \union {NoSong}, NoteStrmSent(track) PROVE FALSE
  BY <1>1, <1>7 DEF NoteStrmSent
<1>8. ASSUME Reset PROVE FALSE
  <2>1. ctl'.calls = {} BY <1>8 DEF Reset, Fresh
  <2> QED BY <1>2, <2>1
<1> QED BY <1>4, <1>5, <1>6, <1>7, <1>8 DEF Next

-----------------------------------------------------------------------------
THEOREM Invariance == Spec => []Good(ctl)
<1>1. Init => Good(ctl)
  BY FreshGood DEF Init
<1>2. Good(ctl) /\ [Next]_vars => Good(ctl)'
  BY NextGood
<1> QED
  BY <1>1, <1>2, PTL DEF Spec

(* Every event sequence keeps the controller well typed.                   *)
THEOREM TypeCorrect == Spec => []TypeOK
<1>1. Good(ctl) => TypeOK
  BY DEF Good, TypeOK
<1> QED
  BY <1>1, Invariance, PTL

(* For every number of songs, playlist length and order of events, answers *)
(* and strm frames, resolve() never leaves a combination of states that    *)
(* VALID_STATES forbids.                                                   *)
THEOREM StatesStayValid == Spec => []StateValid
<1>1. Good(ctl) => StateValid
  BY DEF Good, Valid, StateValid
<1> QED
  BY <1>1, Invariance, PTL

(* A request for the next track counts only while its song is awaited.     *)
THEOREM CallsDisciplined == Spec => []CallbackDiscipline
<1>1. Good(ctl) => CallbackDiscipline
  BY DEF Good, CallsGood, CallbackDiscipline
<1> QED
  BY <1>1, Invariance, PTL

(* get_next_track gives up within one error of the playlist's length.      *)
THEOREM AlwaysGivesUp == Spec => []GivesUp
<1>1. Good(ctl) => GivesUp
  BY DEF Good, GivesUp
<1> QED
  BY <1>1, Invariance, PTL

(* No song is left ready behind a stop, a flush or another song's start.   *)
THEOREM ReadySongsAwaited == Spec => []ReadyOnlyWhileWaiting
<1>1. Good(ctl) => ReadyOnlyWhileWaiting
  BY DEF Good, ReadyOnlyWhileWaiting
<1> QED
  BY <1>1, Invariance, PTL

(* With hooks, STREAMING means that the source stream is open.             *)
THEOREM SourcesOpen == Spec => []SourceOpen
<1>1. Good(ctl) => SourceOpen
  BY DEF Good, SourceOpen
<1> QED
  BY <1>1, Invariance, PTL

(* However many requests are under way and in whatever order their answers *)
(* come, one that a newer request has overtaken changes nothing.           *)
THEOREM OvertakenAnswersIgnored == Spec => OlderAnswersIgnored
<1>1. ASSUME Good(ctl), [Next]_vars
      PROVE  [\A older, newer \in ctl.calls :
                 older.id < newer.id /\ ctl'.calls = ctl.calls \ {older}
                   => [ctl' EXCEPT !.calls = {}] = [ctl EXCEPT !.calls = {}]]_vars
  <2>1. CASE Next BY <1>1, <2>1, OvertakenIgnored
  <2>2. CASE UNCHANGED vars BY <2>2
  <2> QED BY <1>1, <2>1, <2>2
<1> QED
  BY <1>1, Invariance, PTL DEF Spec, OlderAnswersIgnored
=============================================================================
