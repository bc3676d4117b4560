------------------------ MODULE TrackPlayback_proofs ------------------------
(* Proofs about TrackPlayback, for every queue and every number of requests, *)
(* connections and reports: every variable has its type, the claim on a      *)
(* track is held by a request that will release it, and the guard against    *)
(* sending a track twice never names another track than the last one sent.   *)
(* One more holds where the code keeps it: what the player fetches is the    *)
(* track of its frame.                                                       *)
EXTENDS TrackPlayback, TLAPS

\* ClaimHeld for any player and requests.
Held(p, q) ==
    p.claim # None =>
        \E r \in Slots : q[r].pc = "loading" /\ TrackAt(q[r].index) = p.claim

Inv == PlaybackTypeOK /\ ClaimHeld /\ GuardTruth

-----------------------------------------------------------------------------
(* The queue *)

LEMMA CountType == Count \in Nat \ {0}
BY QueueAssumption DEF Count

LEMMA TrackAtType ==
    ASSUME NEW i \in 1 .. Count
    PROVE  TrackAt(i) \in Tracks /\ TrackAt(i) \in MaybeTrack /\ TrackAt(i) # None
<1>1. Order[i] \in 1 .. Count
  BY QueueAssumption
<1>2. Playlist[Order[i]] \in Nat
  BY <1>1, QueueAssumption DEF Count
<1> QED
  BY <1>1, <1>2, QueueAssumption DEF TrackAt, Tracks, MaybeTrack

\* What the end of a track plays next is in the queue, or nothing is.
LEMMA NextSongType ==
    ASSUME NEW i \in 1 .. Count
    PROVE  NextSong(i) \in 0 .. Count
BY CountType DEF NextSong

-----------------------------------------------------------------------------
(* What the helpers do to a player *)

LEMMA ForgetEffect ==
    ASSUME NEW p \in PlayerStates
    PROVE  /\ Forget(p) \in PlayerStates
           /\ Forget(p).sent = None
           /\ Forget(p).claim = p.claim
           /\ Forget(p).position = p.position
           /\ Forget(p).mode = p.mode
BY DEF Forget, PlayerStates, MaybeTrack

LEMMA MovedEffect ==
    ASSUME NEW p \in PlayerStates, NEW i \in 1 .. Count
    PROVE  /\ Moved(p, i) \in PlayerStates
           /\ Moved(p, i).sent = p.sent
           /\ Moved(p, i).claim = p.claim
BY DEF Moved, PlayerStates

LEMMA SentEffect ==
    ASSUME NEW p \in PlayerStates, NEW t \in MaybeTrack
    PROVE  /\ Sent(p, t) \in PlayerStates
           /\ Sent(p, t).sent = t
           /\ Sent(p, t).claim = p.claim
BY DEF Sent, PlayerStates, MaybeTrack, Modes

LEMMA ReleaseEffect ==
    ASSUME NEW p \in PlayerStates, NEW t
    PROVE  /\ Release(p, t) \in PlayerStates
           /\ Release(p, t).sent = p.sent
           /\ Release(p, t).claim = IF p.claim = t THEN None ELSE p.claim
BY DEF Release, PlayerStates, MaybeTrack

LEMMA FrameType ==
    ASSUME streams \in Nat, NEW c \in {"s", "q", "p", "u"}
    PROVE  Frame(c) \in Frames
BY DEF Frame, Frames

\* A request that starts claims its track, or leaves the claim alone.
LEMMA StartEffect ==
    ASSUME requests \in [Slots -> Requests],
           NEW r \in Slots, NEW p \in PlayerStates, NEW i \in 1 .. Count,
           NEW by \in {"user", "end", "reboot", "rejoin"}, NEW l \in 0 .. MaxLinks,
           Start(r, p, i, by, l)
    PROVE  /\ player' \in PlayerStates
           /\ requests' \in [Slots -> Requests]
           /\ player'.sent = p.sent
           /\ Held(p, requests) => Held(player', requests')
<1> DEFINE t == TrackAt(i)
           q == Moved(p, i)
           request(pc) == [pc |-> pc, index |-> i, link |-> l, by |-> by]
<1>1. /\ q \in PlayerStates /\ q.sent = p.sent /\ q.claim = p.claim
  BY MovedEffect
<1>2. t \in MaybeTrack
  BY TrackAtType
<1>3. request("finishing") \in Requests /\ request("loading") \in Requests
  BY DEF Requests
<1>4. requests[r].pc = "idle"
  BY DEF Start
<1>5. CASE player' = q /\ requests' = requests
  BY <1>1, <1>5 DEF Held
<1>6. CASE /\ player' = [q EXCEPT !.mode = "play", !.current = t]
           /\ requests' = [requests EXCEPT ![r] = request("finishing")]
  <2> HIDE DEF t, q
  <2>1. player' \in PlayerStates /\ player'.sent = q.sent /\ player'.claim = q.claim
    BY <1>1, <1>2, <1>6 DEF PlayerStates, Modes
  <2>2. requests' \in [Slots -> Requests]
    BY <1>3, <1>6
  <2>3. \A s \in Slots : requests[s].pc = "loading" => requests'[s] = requests[s]
    BY <1>4, <1>6
  <2> QED
    BY <1>1, <2>1, <2>2, <2>3 DEF Held
<1>7. CASE /\ player' = [q EXCEPT !.claim = t]
           /\ requests' = [requests EXCEPT ![r] = request("loading")]
  <2>0. t = TrackAt(i)
    OBVIOUS
  <2> HIDE DEF t, q
  <2>1. player' \in PlayerStates /\ player'.sent = q.sent /\ player'.claim = t
    BY <1>1, <1>2, <1>7 DEF PlayerStates
  <2>2. requests' \in [Slots -> Requests]
    BY <1>3, <1>7
  <2>3. requests'[r].pc = "loading" /\ TrackAt(requests'[r].index) = t
    BY <1>7, <2>0
  <2> QED
    BY <1>1, <2>1, <2>2, <2>3 DEF Held
<1> QED
  BY <1>5, <1>6, <1>7 DEF Start

-----------------------------------------------------------------------------
(* The state machine.  A live controller has no hooks: it asks for no next   *)
(* track, opens no source, and whatever it is told leaves one of its kind.   *)

Bare(c) == c \in Engine!Controllers /\ ~c.hooked

LEMMA MutatorsBare ==
    ASSUME NEW c, Bare(c)
    PROVE  /\ \A p \in Engine!PlayingStates : Bare(Engine!SetPlaying(c, p))
           /\ \A s \in Engine!StreamingStates : Bare(Engine!SetStreaming(c, s))
           /\ \A b \in BOOLEAN : Bare([c EXCEPT !.resume = b])
<1>1. ASSUME NEW p \in Engine!PlayingStates PROVE Bare(Engine!SetPlaying(c, p))
  BY <1>1 DEF Bare, Engine!SetPlaying, Engine!Controllers
<1>2. ASSUME NEW s \in Engine!StreamingStates PROVE Bare(Engine!SetStreaming(c, s))
  <2>1. CASE s = "IDLE"
    <3> DEFINE d == [c EXCEPT !.streaming = s, !.cbid = @ + 1, !.next = "none"]
    <3>1. c.cbid + 1 \in Nat
      BY DEF Bare, Engine!Controllers
    <3>2. d \in Engine!Controllers /\ d.hooked = c.hooked
      BY <1>2, <3>1 DEF Bare, Engine!Controllers
    <3>3. Engine!SetStreaming(c, s) = d
      BY <2>1 DEF Engine!SetStreaming
    <3> QED
      BY <3>2, <3>3 DEF Bare
  <2>2. CASE s # "IDLE"
    BY <1>2, <2>2 DEF Bare, Engine!SetStreaming, Engine!Controllers
  <2> QED
    BY <2>1, <2>2
<1>3. \A b \in BOOLEAN : Bare([c EXCEPT !.resume = b])
  BY DEF Bare, Engine!Controllers
<1> QED
  BY <1>1, <1>2, <1>3

LEMMA QueueBare ==
    ASSUME NEW c, Bare(c), NEW q \in Seq({"song"}), NEW open \in BOOLEAN
    PROVE  Bare([c EXCEPT !.queue = q, !.open = open])
BY DEF Bare, Engine!Controllers

LEMMA EndAtBare ==
    ASSUME NEW q \in Seq({"song"}), NEW n \in Nat
    PROVE  Engine!EndAt(q, n) \in Seq({"song"})
BY DEF Engine!EndAt

LEMMA SimpleBare ==
    ASSUME NEW c, Bare(c)
    PROVE  /\ Bare(Engine!Stop(c)) /\ Bare(Engine!Playing(c)) /\ Bare(Engine!Resume(c))
           /\ Bare(Engine!Pause(c)) /\ Bare(Engine!Rebuffer(c))
<1> USE DEF Engine!PlayingStates, Engine!StreamingStates
<1>1. Bare(Engine!Stop(c))
  <2> DEFINE q == Engine!EndAt(c.queue, 1)
             d == [c EXCEPT !.queue = q, !.open = FALSE]
  <2>1. q \in Seq({"song"})
    BY EndAtBare DEF Bare, Engine!Controllers
  <2>2. Bare(d)
    BY <2>1, QueueBare
  <2> HIDE DEF d
  <2>3. Bare(Engine!SetStreaming(Engine!SetPlaying(d, "STOPPED"), "IDLE"))
    <3>1. Bare(Engine!SetPlaying(d, "STOPPED"))
      BY <2>2, MutatorsBare
    <3> QED
      BY <3>1, MutatorsBare
  <2> QED
    BY <2>3 DEF Engine!Stop, d
<1>2. Bare(Engine!Playing(c))
  <2> DEFINE d == IF c.rebuffering THEN c ELSE Engine!SetPlaying(c, "PLAYING")
  <2>1. Bare(d)
    BY MutatorsBare
  <2> HIDE DEF d
  <2>2. Bare([d EXCEPT !.errors = 0])
    BY <2>1 DEF Bare, Engine!Controllers
  <2> QED
    BY <2>2 DEF Engine!Playing, d
<1>3. Bare(Engine!Resume(c))
  <2>1. Bare(Engine!SetPlaying(c, "PLAYING"))
    BY MutatorsBare
  <2> QED
    BY <2>1, MutatorsBare DEF Engine!Resume
<1>4. Bare(Engine!Pause(c))
  <2>1. Bare([c EXCEPT !.resume = TRUE])
    BY MutatorsBare
  <2> QED
    BY <2>1, MutatorsBare DEF Engine!Pause
<1>5. Bare(Engine!Rebuffer(c))
  <2> DEFINE d == Engine!SetPlaying(c, "BUFFERING")
  <2>1. Bare(d)
    BY MutatorsBare
  <2> HIDE DEF d
  <2>2. Bare([d EXCEPT !.rebuffering = TRUE, !.resume = TRUE])
    BY <2>1 DEF Bare, Engine!Controllers
  <2> QED
    BY <2>2 DEF Engine!Rebuffer, d
<1> QED
  BY <1>1, <1>2, <1>3, <1>4, <1>5

\* Nobody is asked for the next track.
LEMMA NobodyAsked ==
    ASSUME NEW c, Bare(c)
    PROVE  /\ \A more : Engine!GetNextTrack(c, more) = {c}
           /\ \A d \in Engine!NextIfMore(c) : Bare(d)
<1>1. \A d : Bare(d) => \A more : Engine!GetNextTrack(d, more) = {d}
  BY DEF Bare, Engine!GetNextTrack
<1>2. Bare(Engine!SetStreaming(c, "IDLE"))
  BY MutatorsBare DEF Engine!StreamingStates
<1> DEFINE d == Engine!SetStreaming(c, "IDLE")
<1>3. Engine!GetNextTrack(d, TRUE) = {d}
  BY <1>1, <1>2
<1>4. Engine!NextIfMore(c) = {d}
  BY <1>3 DEF Engine!NextIfMore
<1> QED
  BY <1>1, <1>2, <1>4

LEMMA OpenedBare ==
    ASSUME NEW c, Bare(c)
    PROVE  Bare(Engine!Opened(c))
<1> USE DEF Engine!PlayingStates, Engine!StreamingStates
<1> DEFINE b == IF c.playing = "STOPPED" THEN Engine!SetPlaying(c, "BUFFERING") ELSE c
           d == Engine!SetStreaming(b, "STREAMING")
<1>1. Bare(b)
  BY MutatorsBare
<1> HIDE DEF b
<1>2. Bare(d)
  BY <1>1, MutatorsBare
<1> HIDE DEF d
<1>3. Bare([d EXCEPT !.open = TRUE, !.next = "none"])
  BY <1>2 DEF Bare, Engine!Controllers
<1> QED
  BY <1>3 DEF Engine!Opened, b, d

LEMMA StreamBare ==
    ASSUME NEW c, Bare(c), NEW song \in {"song", "none"}, NEW d \in Engine!Stream(c, song)
    PROVE  Bare(d)
<1> DEFINE s == IF song # "none" THEN song ELSE c.next
           e == Engine!EndAt(c.queue, 2)
           q == IF e # <<>> /\ e[1] = s THEN e ELSE <<s>> \o e
           b == [c EXCEPT !.open = FALSE, !.queue = q]
<1>1. CASE s = "none"
  BY <1>1, NobodyAsked DEF Engine!Stream
<1>2. CASE s # "none"
  <2>1. s \in {"song"} /\ e \in Seq({"song"})
    BY <1>2, EndAtBare DEF Bare, Engine!Controllers
  <2> HIDE DEF s, e
  <2>2. q \in Seq({"song"})
    <3>1. <<s>> \in Seq({"song"})
      BY <2>1
    <3>2. <<s>> \o e \in Seq({"song"})
      BY <2>1, <3>1
    <3> QED
      BY <2>1, <3>2
  <2> HIDE DEF q
  <2>3. Bare(b)
    BY <2>2 DEF Bare, Engine!Controllers
  <2>4. Engine!Stream(c, song) = {Engine!Opened(b)}
    <3>1. ~c.hooked
      BY DEF Bare
    <3> QED
      BY <1>2, <3>1 DEF Engine!Stream, s, e, q
  <2> QED
    BY <2>3, <2>4, OpenedBare
<1> QED
  BY <1>1, <1>2

LEMMA JumpBare ==
    ASSUME NEW c, Bare(c)
    PROVE  /\ \A d \in Engine!JumpOrResume(c) : Bare(d)
           /\ \A d \in Engine!PlayIfReady(c) : Bare(d)
           /\ Engine!StreamIfReady(c) = {c} /\ Engine!StartIfReady(c) = {c}
<1>1. Bare(Engine!Stop(c)) /\ ~c.hooked
  BY SimpleBare DEF Bare
<1>2. Engine!PlayingSong(Engine!Stop(c)) \in {"song", "none"}
  BY <1>1 DEF Engine!PlayingSong, Bare, Engine!Controllers
<1>3. \A d \in Engine!JumpToTime(c) : Bare(d)
  BY <1>1, <1>2, StreamBare DEF Engine!JumpToTime
<1>4. \A d \in Engine!JumpOrResume(c) : Bare(d)
  <2>1. \A d : Bare(d) => Bare([d EXCEPT !.resume = FALSE])
    BY MutatorsBare
  <2> QED
    BY <1>3, <2>1, SimpleBare DEF Engine!JumpOrResume
<1>5. \A d \in Engine!PlayIfReady(c) : Bare(d)
  <2>1. Bare(Engine!SetPlaying(c, "STOPPED"))
    BY MutatorsBare DEF Engine!PlayingStates
  <2> QED
    BY <2>1, StreamBare DEF Engine!PlayIfReady
<1> QED
  BY <1>1, <1>4, <1>5 DEF Engine!StreamIfReady, Engine!StartIfReady

LEMMA GoOnBare ==
    ASSUME NEW c, Bare(c)
    PROVE  /\ Engine!RetryOrGoOn(c) = {c}
           /\ \A d \in Engine!SyncStopNext(c) : Bare(d)
<1>1. \A b : Bare(b) => Engine!RetryOrGoOn(b) = {b}
  BY NobodyAsked DEF Engine!RetryOrGoOn
<1>2. Bare(Engine!SetStreaming(c, "IDLE")) /\ ~c.hooked
  BY MutatorsBare DEF Engine!StreamingStates, Bare
<1> QED
  BY <1>1, <1>2 DEF Engine!SyncStopNext

\* What the server tells a state machine, and what the table makes of it.
Told == {"Stop", "Pause", "Resume", "StatusHeartbeat", "OutputUnderrun", "Started",
         "Stopped", "StreamingFailed"}

LEMMA ToldActions ==
    ASSUME NEW e \in Told, NEW p, NEW s
    PROVE  Engine!StateTable(e, p, s) \in
             {"Ignore", "Stop", "Pause", "JumpOrResume", "Resume", "Playing", "PlayAndNext",
              "PlayAndStream", "StopNextIfMore", "SyncStopNext", "Buffering", "PlayIfReady",
              "Stopped", "Rebuffer", "StartIfReady"}
BY DEF Told, Engine!StateTable

LEMMA ResolveBare ==
    ASSUME NEW e \in Told, NEW c, Bare(c), NEW d \in Engine!Resolve(e, c)
    PROVE  Bare(d)
<1> DEFINE a == Engine!StateTable(e, c.playing, c.streaming)
<1>0. d \in Engine!Outcomes(a, c)
  BY DEF Engine!Resolve
<1>1. a \in {"Ignore", "Stop", "Pause", "JumpOrResume", "Resume", "Playing", "PlayAndNext",
             "PlayAndStream", "StopNextIfMore", "SyncStopNext", "Buffering", "PlayIfReady",
             "Stopped", "Rebuffer", "StartIfReady"}
  BY ToldActions
<1> HIDE DEF a
<1>2. CASE a \in {"Ignore", "Stop", "Pause", "Resume", "Playing", "Rebuffer"}
  BY <1>0, <1>2, SimpleBare DEF Engine!Outcomes
<1>3. CASE a \in {"JumpOrResume", "PlayIfReady", "StartIfReady"}
  <2>1. /\ \A b \in Engine!JumpOrResume(c) \union Engine!PlayIfReady(c) : Bare(b)
        /\ Engine!StartIfReady(c) = {c}
    BY JumpBare
  <2>2. d \in Engine!JumpOrResume(c) \union Engine!PlayIfReady(c) \union Engine!StartIfReady(c)
    BY <1>0, <1>3 DEF Engine!Outcomes
  <2> QED
    BY <2>1, <2>2
<1>4. CASE a \in {"PlayAndNext", "PlayAndStream"}
  <2>1. Bare(Engine!Playing(c))
    BY SimpleBare
  <2>2. d \in {Engine!Playing(c)}
    BY <1>0, <1>4, <2>1, NobodyAsked, JumpBare DEF Engine!Outcomes
  <2> QED
    BY <2>1, <2>2
<1>5. CASE a = "StopNextIfMore"
  <2>1. Bare(Engine!Stop(c))
    BY SimpleBare
  <2> QED
    BY <1>0, <1>5, <2>1, GoOnBare DEF Engine!Outcomes
<1>6. CASE a = "SyncStopNext"
  BY <1>0, <1>6, GoOnBare DEF Engine!Outcomes
<1>7. CASE a \in {"Buffering", "Stopped"}
  BY <1>0, <1>7, MutatorsBare DEF Engine!Outcomes, Engine!PlayingStates
<1> QED
  BY <1>1, <1>2, <1>3, <1>4, <1>5, <1>6, <1>7

LEMMA TellBare ==
    ASSUME Bare(engine), NEW e \in Told, Tell(e)
    PROVE  Bare(engine')
<1>1. PICK c \in Engine!Resolve(e, engine) : engine' = [c EXCEPT !.cbid = 0]
  BY DEF Tell
<1>2. Bare(c)
  BY ResolveBare
<1> QED
  BY <1>1, <1>2 DEF Bare, Engine!Controllers

LEMMA FreshBare == Bare(Engine!Fresh(FALSE))
BY DEF Bare, Engine!Fresh, Engine!Controllers, Engine!PlayingStates, Engine!StreamingStates

LEMMA NoteBare ==
    ASSUME Bare(engine), Engine!NoteStrmSent("song")
    PROVE  Bare(engine')
<1> USE DEF Engine!PlayingStates, Engine!StreamingStates
<1> DEFINE q == IF Engine!StreamingSong(engine) = "song"
                THEN engine.queue ELSE <<"song">> \o engine.queue
           c == [engine EXCEPT !.next = "none", !.queue = q]
           d == IF c.playing = "STOPPED" THEN Engine!SetPlaying(c, "BUFFERING") ELSE c
<1>1. q \in Seq({"song"})
  <2>1. engine.queue \in Seq({"song"}) /\ <<"song">> \in Seq({"song"})
    BY DEF Bare, Engine!Controllers
  <2>2. <<"song">> \o engine.queue \in Seq({"song"})
    BY <2>1
  <2> QED
    BY <2>1, <2>2
<1>2. engine' = Engine!SetStreaming(d, "STREAMING")
  BY DEF Engine!NoteStrmSent
<1> HIDE DEF q
<1>3. Bare(c)
  BY <1>1 DEF Bare, Engine!Controllers
<1> HIDE DEF c
<1>4. Bare(d)
  BY <1>3, MutatorsBare
<1> HIDE DEF d
<1> QED
  BY <1>2, <1>4, MutatorsBare

LEMMA NextBare ==
    ASSUME Bare(engine), [Next]_vars
    PROVE  Bare(engine')
<1> USE DEF Told
<1>1. ASSUME NEW p, StopPlayer(p) PROVE Bare(engine')
  BY <1>1, TellBare DEF StopPlayer
<1>2. CASE Command
  BY <1>1, <1>2, TellBare DEF Command, Play, Stop, Pause, Unpause
<1>3. ASSUME NEW r \in Slots, Send(r) \/ Finish(r) PROVE Bare(engine')
  BY <1>3, NoteBare DEF Send, Finish
<1>4. CASE Handle
  BY <1>4, TellBare DEF Handle, Heartbeat, Underrun, DecodeComplete, TrackStarted, Flushed,
                        Paused, Resumed, DecodeError
<1>5. CASE WindowCloses \/ Lost \/ UNCHANGED vars
  BY <1>5 DEF WindowCloses, Lost, vars
<1>6. CASE Advance
  BY <1>1, <1>6 DEF Advance
<1>7. ASSUME NEW rebooted \in BOOLEAN, Hello(rebooted) PROVE Bare(engine')
  BY <1>7, FreshBare DEF Hello
<1>8. CASE Obey \/ Fetch \/ Starve \/ Begin \/ Decoded \/ Drain \/ Broken \/ Tick
  BY <1>8 DEF Obey, Fetch, Starve, Begin, Decoded, Drain, Broken, Tick, PlayerActs
<1> QED
  BY <1>2, <1>3, <1>4, <1>5, <1>6, <1>7, <1>8 DEF Next

-----------------------------------------------------------------------------
(* Play requests and users *)

LEMMA InitInv == Init => Inv
<1> SUFFICES ASSUME Init PROVE Inv
  OBVIOUS
<1>1. player \in PlayerStates /\ player.claim = None /\ player.sent = None
  BY CountType DEF Init, PlayerStates, MaybeTrack, Modes
<1>2. requests \in [Slots -> Requests]
  BY CountType, OptionsAssumption DEF Init, Requests
<1>3. device \in Devices
  BY DEF Init, Devices, Silent, MaybeTrack
<1>4. ends \in Seq(Ends) /\ wire \in Seq(Frames) /\ reports \in Seq(Reports)
  BY DEF Init
<1>5. link \in 0 .. MaxLinks /\ links \in 0 .. MaxLinks /\ asks \in 0 .. MaxAsks
  BY OptionsAssumption DEF Init
<1>6. streams \in Nat /\ advanced \in Nat /\ announced \in MaybeTrack
  BY DEF Init, MaybeTrack
<1> QED
  BY <1>1, <1>2, <1>3, <1>4, <1>5, <1>6
     DEF Inv, PlaybackTypeOK, ClaimHeld, GuardTruth

LEMMA SendInv ==
    ASSUME Inv, NEW r \in Slots, Send(r)
    PROVE  Inv'
<1> DEFINE t == TrackAt(requests[r].index)
           stop == IF Switching(player) /\ link # 0 THEN <<Frame("q")>> ELSE <<>>
<1>1. /\ player \in PlayerStates /\ requests \in [Slots -> Requests]
      /\ wire \in Seq(Frames) /\ streams \in Nat
  BY DEF Inv, PlaybackTypeOK
<1>2. requests[r] \in Requests /\ requests[r].index \in 1 .. Count /\ requests[r].pc = "loading"
  BY <1>1 DEF Send, Requests
<1>3. t \in MaybeTrack /\ t # None
  BY <1>2, TrackAtType
<1>4. wire \o stop \in Seq(Frames)
  <2>1. Frame("q") \in Frames
    BY <1>1, FrameType
  <2> QED
    BY <1>1, <2>1
<1>5. \A s \in Slots : s # r => requests'[s] = requests[s]
  BY <1>1 DEF Send
<1>6. CASE requests[r].link = link
  <2> DEFINE s == Sent(player, t)
             new == [cmd |-> "s", stream |-> streams + 1]
  <2>1. /\ player' = Release(s, t) /\ announced' = t /\ streams' = streams + 1
        /\ requests' = [requests EXCEPT ![r].pc = "finishing"]
        /\ wire' = wire \o stop \o <<new>>
    BY <1>6 DEF Send
  <2>2. s \in PlayerStates /\ s.sent = t /\ s.claim = player.claim
    BY <1>1, <1>3, SentEffect
  <2>3. /\ player' \in PlayerStates /\ player'.sent = t
        /\ player'.claim = IF player.claim = t THEN None ELSE player.claim
    BY <2>1, <2>2, ReleaseEffect
  <2>4. requests' \in [Slots -> Requests]
    BY <1>1, <1>2, <2>1 DEF Requests
  <2>5. wire' \in Seq(Frames)
    <3>1. new \in Frames
      BY <1>1 DEF Frames
    <3> HIDE DEF new, stop
    <3> QED
      BY <1>4, <2>1, <3>1
  <2>6. ClaimHeld'
    BY <1>2, <1>5, <2>3 DEF Inv, ClaimHeld
  <2>7. streams' \in Nat /\ announced' \in MaybeTrack /\ GuardTruth'
    BY <1>1, <1>3, <2>1, <2>3 DEF GuardTruth
  <2> QED
    BY <2>3, <2>4, <2>5, <2>6, <2>7 DEF Inv, PlaybackTypeOK, Send
<1>7. CASE requests[r].link # link
  <2> DEFINE s == Release(player, t)
  <2>1. /\ player' = [s EXCEPT !.resume = @ /\ requests[r].by \notin {"reboot", "rejoin"}]
        /\ requests' = [requests EXCEPT ![r].pc = "idle"]
        /\ wire' = wire \o stop /\ streams' = streams /\ announced' = announced
    BY <1>7 DEF Send
  <2>2. /\ s \in PlayerStates /\ s.sent = player.sent
        /\ s.claim = IF player.claim = t THEN None ELSE player.claim
    BY <1>1, ReleaseEffect
  <2> HIDE DEF s
  <2>3. player' \in PlayerStates /\ player'.sent = s.sent /\ player'.claim = s.claim
    BY <2>1, <2>2 DEF PlayerStates
  <2>4. requests' \in [Slots -> Requests]
    BY <1>1, <1>2, <2>1 DEF Requests
  <2>5. ClaimHeld'
    BY <1>2, <1>5, <2>2, <2>3 DEF Inv, ClaimHeld
  <2>6. GuardTruth'
    BY <2>1, <2>2, <2>3 DEF Inv, GuardTruth
  <2> QED
    BY <1>4, <2>1, <2>3, <2>4, <2>5, <2>6 DEF Inv, PlaybackTypeOK, Send
<1> QED
  BY <1>6, <1>7

LEMMA FinishInv ==
    ASSUME Inv, NEW r \in Slots, Finish(r)
    PROVE  Inv'
<1>1. player \in PlayerStates /\ requests \in [Slots -> Requests]
  BY DEF Inv, PlaybackTypeOK
<1>2. requests[r].index \in 1 .. Count /\ requests[r].pc = "finishing"
  BY <1>1 DEF Finish, Requests
<1>3. player' \in PlayerStates /\ player'.sent = player.sent /\ player'.claim = player.claim
  BY <1>1, <1>2 DEF Finish, PlayerStates
<1>4. requests' \in [Slots -> Requests]
  BY <1>1, <1>2 DEF Finish, Requests
<1>5. \A s \in Slots : requests[s].pc = "loading" => requests'[s] = requests[s]
  BY <1>1, <1>2 DEF Finish
<1> QED
  BY <1>3, <1>4, <1>5 DEF Inv, PlaybackTypeOK, ClaimHeld, GuardTruth, Finish

\* A step that leaves the requests and the last stream alone, and at most
\* drops the guard, keeps what the guard and the claim promise.
LEMMA PlayerKept ==
    ASSUME Inv, UNCHANGED <<requests, announced>>,
           player'.sent \in {player.sent, None}, player'.claim = player.claim
    PROVE  ClaimHeld' /\ GuardTruth'
BY DEF Inv, ClaimHeld, GuardTruth

LEMMA PlayInv ==
    ASSUME Inv, Play
    PROVE  Inv'
<1>1. /\ player \in PlayerStates /\ requests \in [Slots -> Requests]
      /\ link \in 0 .. MaxLinks /\ asks \in 0 .. MaxAsks
  BY DEF Inv, PlaybackTypeOK
<1>2. PICK i \in 1 .. Count, r \in Slots : Start(r, player, i, "user", link)
  BY DEF Play
<1>3. /\ player' \in PlayerStates /\ requests' \in [Slots -> Requests]
      /\ player'.sent = player.sent
      /\ Held(player, requests) => Held(player', requests')
  BY <1>1, <1>2, StartEffect
<1>4. asks' \in 0 .. MaxAsks
  BY <1>1, OptionsAssumption DEF Play, UserActs
<1>5. ClaimHeld' /\ GuardTruth'
  BY <1>3 DEF Inv, ClaimHeld, GuardTruth, Held, Play, UserActs
<1> QED
  BY <1>3, <1>4, <1>5 DEF Inv, PlaybackTypeOK, Play, UserActs

\* What stop_player leaves of a player.
LEMMA StopPlayerEffect ==
    ASSUME Inv, NEW p \in PlayerStates, StopPlayer(p)
    PROVE  /\ player' \in PlayerStates /\ wire' \in Seq(Frames)
           /\ player'.sent = None /\ player'.claim = p.claim
<1>1. /\ Forget(p) \in PlayerStates /\ Forget(p).sent = None
      /\ Forget(p).claim = p.claim
  BY ForgetEffect
<1>2. wire \in Seq(Frames) /\ Frame("q") \in Frames
  BY FrameType DEF Inv, PlaybackTypeOK
<1>3. CASE player' = Forget(p) /\ wire' = wire
  BY <1>1, <1>2, <1>3
<1>4. CASE player' = [Forget(p) EXCEPT !.mode = "stop"] /\ wire' = Append(wire, Frame("q"))
  <2>1. wire' \in Seq(Frames)
    BY <1>2, <1>4
  <2>2. player' \in PlayerStates /\ player'.sent = None /\ player'.claim = p.claim
    BY <1>1, <1>4 DEF PlayerStates, Modes
  <2> QED
    BY <2>1, <2>2
<1> QED
  BY <1>3, <1>4 DEF StopPlayer

LEMMA StopInv ==
    ASSUME Inv, Stop
    PROVE  Inv'
<1>1. player \in PlayerStates /\ asks \in 0 .. MaxAsks
  BY DEF Inv, PlaybackTypeOK
<1>2. /\ player' \in PlayerStates /\ wire' \in Seq(Frames)
      /\ player'.sent = None /\ player'.claim = player.claim
  BY <1>1, StopPlayerEffect DEF Stop
<1>3. asks' \in 0 .. MaxAsks
  BY <1>1, OptionsAssumption DEF Stop, UserActs
<1>4. ClaimHeld' /\ GuardTruth'
  BY <1>2, PlayerKept DEF Stop, UserActs
<1> QED
  BY <1>2, <1>3, <1>4 DEF Inv, PlaybackTypeOK, Stop, UserActs

LEMMA PauseInv ==
    ASSUME Inv, Pause \/ Unpause
    PROVE  Inv'
<1>1. player \in PlayerStates /\ asks \in 0 .. MaxAsks /\ wire \in Seq(Frames)
  BY DEF Inv, PlaybackTypeOK
<1>2. /\ player' \in PlayerStates
      /\ player'.sent = player.sent /\ player'.claim = player.claim
  BY <1>1 DEF Pause, Unpause, PlayerStates, Modes
<1>3. wire' \in Seq(Frames)
  <2>1. Frame("p") \in Frames /\ Frame("u") \in Frames
    BY FrameType DEF Inv, PlaybackTypeOK
  <2> QED
    BY <1>1, <2>1 DEF Pause, Unpause
<1>4. asks' \in 0 .. MaxAsks
  BY <1>1, OptionsAssumption DEF Pause, Unpause, UserActs
<1>5. ClaimHeld' /\ GuardTruth'
  BY <1>2, PlayerKept DEF Pause, Unpause, UserActs
<1> QED
  BY <1>2, <1>3, <1>4, <1>5 DEF Inv, PlaybackTypeOK, Pause, Unpause, UserActs

-----------------------------------------------------------------------------
(* Reports *)

\* A handled report that leaves the claim alone and at most drops the guard.
LEMMA ReportInv ==
    ASSUME Inv, NEW e, Report(e),
           player' \in PlayerStates, ends' \in Seq(Ends),
           player'.sent \in {player.sent, None}, player'.claim = player.claim
    PROVE  Inv'
<1>1. reports' \in Seq(Reports)
  BY DEF Inv, PlaybackTypeOK, Report
<1>2. ClaimHeld' /\ GuardTruth'
  BY PlayerKept DEF Report
<1> QED
  BY <1>1, <1>2 DEF Inv, PlaybackTypeOK, Report

LEMMA TrackEndsEffect ==
    ASSUME Inv, reports # <<>>, NEW p \in PlayerStates, TrackEnds(p)
    PROVE  /\ player' \in PlayerStates /\ ends' \in Seq(Ends)
           /\ player'.sent = None /\ player'.claim = p.claim
<1>1. /\ Forget(p) \in PlayerStates /\ Forget(p).sent = None
      /\ Forget(p).claim = p.claim
  BY ForgetEffect
<1>2. player' \in PlayerStates /\ player'.sent = None /\ player'.claim = p.claim
  BY <1>1 DEF TrackEnds, PlayerStates
<1> DEFINE end == [track |-> IF p.running # None THEN p.running ELSE p.sent,
                   of |-> Head(reports).over, at |-> streams]
<1>3. Head(reports) \in Reports /\ ends \in Seq(Ends) /\ streams \in Nat
  BY DEF Inv, PlaybackTypeOK
<1>4. end \in Ends
  BY <1>3 DEF Ends, Reports, PlayerStates
<1>5. ends' = Append(ends, end)
  BY DEF TrackEnds
<1> HIDE DEF end
<1> QED
  BY <1>2, <1>3, <1>4, <1>5

LEMMA HeartbeatInv ==
    ASSUME Inv, Heartbeat
    PROVE  Inv'
<1> DEFINE moves == player.mode = "play" /\ Head(reports).moving
           p == IF moves THEN [player EXCEPT !.running = Believed(player)] ELSE player
<1>1. player \in PlayerStates /\ ends \in Seq(Ends)
  BY DEF Inv, PlaybackTypeOK
<1>2. p \in PlayerStates /\ p.sent = player.sent /\ p.claim = player.claim
  BY <1>1 DEF Believed, PlayerStates
<1>3. Report("STMt") /\ reports # <<>> /\ (TrackEnds(p) \/ (player' = p /\ ends' = ends))
  BY DEF Heartbeat, Report
<1> HIDE DEF p
<1>4. CASE TrackEnds(p)
  BY <1>2, <1>3, <1>4, TrackEndsEffect, ReportInv
<1>5. CASE player' = p /\ ends' = ends
  BY <1>1, <1>2, <1>3, <1>5, ReportInv
<1> QED
  BY <1>3, <1>4, <1>5

LEMMA UnderrunInv ==
    ASSUME Inv, Underrun
    PROVE  Inv'
<1>1. player \in PlayerStates /\ ends \in Seq(Ends)
  BY DEF Inv, PlaybackTypeOK
<1>2. Report("STMo") /\ reports # <<>> /\ (TrackEnds(player) \/ UNCHANGED <<player, ends>>)
  BY DEF Underrun, Report
<1>3. CASE TrackEnds(player)
  BY <1>1, <1>2, <1>3, TrackEndsEffect, ReportInv
<1>4. CASE UNCHANGED <<player, ends>>
  BY <1>1, <1>2, <1>4, ReportInv
<1> QED
  BY <1>2, <1>3, <1>4

LEMMA FlushedInv ==
    ASSUME Inv, Flushed
    PROVE  Inv'
<1>1. player \in PlayerStates /\ ends' \in Seq(Ends)
  BY DEF Inv, PlaybackTypeOK, Flushed
<1>2. Report("STMf")
  BY DEF Flushed
<1>3. CASE player.fresh
  BY <1>1, <1>2, <1>3, ReportInv DEF Flushed
<1>4. CASE ~player.fresh
  <2> DEFINE p == Forget(player)
             mode == IF p.mode = "pause" THEN p.mode ELSE PlayMode(engine')
  <2>1. p \in PlayerStates /\ p.sent = None /\ p.claim = player.claim
    BY <1>1, ForgetEffect
  <2>2. mode \in Modes
    BY DEF PlayMode, Modes
  <2>3. player' = [p EXCEPT !.mode = mode]
    BY <1>4 DEF Flushed
  <2> HIDE DEF p, mode
  <2>4. player' \in PlayerStates /\ player'.sent = None /\ player'.claim = player.claim
    BY <2>1, <2>2, <2>3 DEF PlayerStates
  <2> QED
    BY <1>1, <1>2, <2>4, ReportInv
<1> QED
  BY <1>3, <1>4

LEMMA DecodeErrorInv ==
    ASSUME Inv, DecodeError
    PROVE  Inv'
<1> DEFINE p == Forget(player)
<1>1. player \in PlayerStates /\ ends' \in Seq(Ends)
  BY DEF Inv, PlaybackTypeOK, DecodeError
<1>2. p \in PlayerStates /\ p.sent = None /\ p.claim = player.claim
  BY <1>1, ForgetEffect
<1>3. Report("STMn") /\ player' = [p EXCEPT !.mode = "stop"]
  BY DEF DecodeError
<1> HIDE DEF p
<1>4. player' \in PlayerStates /\ player'.sent = None /\ player'.claim = player.claim
  BY <1>2, <1>3 DEF PlayerStates, Modes
<1> QED
  BY <1>1, <1>3, <1>4, ReportInv

LEMMA HandleInv ==
    ASSUME Inv, Handle
    PROVE  Inv'
<1>1. player \in PlayerStates /\ ends \in Seq(Ends)
  BY DEF Inv, PlaybackTypeOK
<1>2. CASE DecodeComplete
  <2>1. /\ player' \in PlayerStates
        /\ player'.sent = player.sent /\ player'.claim = player.claim
    BY <1>1, <1>2 DEF DecodeComplete, PlayerStates
  <2> QED
    BY <1>1, <1>2, <2>1, ReportInv DEF DecodeComplete
<1>3. CASE TrackStarted
  <2>1. /\ player' \in PlayerStates
        /\ player'.sent = player.sent /\ player'.claim = player.claim
    BY <1>1, <1>3 DEF TrackStarted, Believed, PlayerStates, Modes, MaybeTrack
  <2> QED
    BY <1>1, <1>3, <2>1, ReportInv DEF TrackStarted
<1>4. CASE Paused \/ Resumed
  <2>1. /\ player' \in PlayerStates
        /\ player'.sent = player.sent /\ player'.claim = player.claim
    BY <1>1, <1>4 DEF Paused, Resumed, PlayerStates, Modes
  <2> QED
    BY <1>1, <1>4, <2>1, ReportInv DEF Paused, Resumed
<1> QED
  BY <1>2, <1>3, <1>4, HeartbeatInv, UnderrunInv, FlushedInv, DecodeErrorInv DEF Handle

-----------------------------------------------------------------------------
(* Time, the end of a track and the connection *)

LEMMA WindowClosesInv ==
    ASSUME Inv, WindowCloses
    PROVE  Inv'
<1>1. /\ player' \in PlayerStates
      /\ player'.sent = player.sent /\ player'.claim = player.claim
  BY DEF Inv, PlaybackTypeOK, WindowCloses, PlayerStates
<1>2. ClaimHeld' /\ GuardTruth'
  BY <1>1, PlayerKept DEF WindowCloses
<1> QED
  BY <1>1, <1>2 DEF Inv, PlaybackTypeOK, WindowCloses

LEMMA AdvanceInv ==
    ASSUME Inv, Advance
    PROVE  Inv'
<1> DEFINE end == Head(ends)
           p == [Forget(player) EXCEPT !.done = Ended(player, end), !.dry = "none"]
           next == NextSong(p.position)
<1>1. /\ player \in PlayerStates /\ requests \in [Slots -> Requests]
      /\ ends \in Seq(Ends) /\ wire \in Seq(Frames)
      /\ link \in 0 .. MaxLinks /\ advanced \in Nat
  BY DEF Inv, PlaybackTypeOK
<1>2. end \in Ends /\ ends' \in Seq(Ends)
  BY <1>1 DEF Advance
<1>3. advanced' \in Nat
  BY <1>1, <1>2 DEF Advance, Ends
<1>4. /\ p \in PlayerStates /\ p.sent = None /\ p.claim = player.claim
      /\ p.position \in 1 .. Count
  <2>1. Ended(player, end) \in MaybeTrack
    BY <1>1, <1>2 DEF Ended, Ends, PlayerStates
  <2>2. /\ Forget(player) \in PlayerStates /\ Forget(player).sent = None
        /\ Forget(player).claim = player.claim
    BY <1>1, ForgetEffect
  <2> QED
    BY <2>1, <2>2 DEF PlayerStates
<1>5. \/ UNCHANGED <<player, wire, requests>>
      \/ StopPlayer(p) /\ requests' = requests
      \/ /\ next # 0 /\ wire' = wire
         /\ \E r \in Slots : Start(r, p, next, "end", link)
  BY DEF Advance
<1>6. next \in 0 .. Count
  BY <1>4, NextSongType
<1> HIDE DEF p, next
<1>7. /\ player' \in PlayerStates /\ requests' \in [Slots -> Requests]
      /\ wire' \in Seq(Frames) /\ ClaimHeld' /\ GuardTruth'
  <2>1. CASE UNCHANGED <<player, wire, requests>>
    BY <1>1, <2>1, PlayerKept DEF Advance
  <2>2. CASE StopPlayer(p) /\ requests' = requests
    <3>1. /\ player' \in PlayerStates /\ wire' \in Seq(Frames)
          /\ player'.sent = None /\ player'.claim = player.claim
      BY <1>4, <2>2, StopPlayerEffect
    <3> QED
      BY <1>1, <2>2, <3>1, PlayerKept DEF Advance
  <2>3. CASE /\ next # 0 /\ wire' = wire
             /\ \E r \in Slots : Start(r, p, next, "end", link)
    <3>1. PICK r \in Slots : Start(r, p, next, "end", link)
      BY <2>3
    <3>2. next \in 1 .. Count
      BY <1>6, <2>3, CountType
    <3>3. /\ player' \in PlayerStates /\ requests' \in [Slots -> Requests]
          /\ player'.sent = p.sent
          /\ Held(p, requests) => Held(player', requests')
      BY <1>1, <1>4, <3>1, <3>2, StartEffect
    <3>4. ClaimHeld' /\ GuardTruth'
      BY <1>4, <3>3 DEF Inv, ClaimHeld, GuardTruth, Held
    <3> QED
      BY <1>1, <2>3, <3>3, <3>4
  <2> QED
    BY <1>5, <2>1, <2>2, <2>3
<1> QED
  BY <1>2, <1>3, <1>7 DEF Inv, PlaybackTypeOK, Advance

LEMMA SilentType == Silent \in Devices
BY DEF Silent, Devices, MaybeTrack

LEMMA LostInv ==
    ASSUME Inv, Lost
    PROVE  Inv'
<1>1. player \in PlayerStates /\ device \in Devices
  BY DEF Inv, PlaybackTypeOK
<1>2. /\ Forget(player) \in PlayerStates /\ Forget(player).sent = None
      /\ Forget(player).claim = player.claim
  BY <1>1, ForgetEffect
<1>3. player' \in PlayerStates /\ player'.sent = None /\ player'.claim = player.claim
  BY <1>2 DEF Lost, PlayerStates
<1>4. device' \in Devices
  BY <1>1, SilentType DEF Lost, Devices
<1>5. link' \in 0 .. MaxLinks /\ wire' \in Seq(Frames) /\ reports' \in Seq(Reports)
  BY OptionsAssumption DEF Lost
<1>6. ClaimHeld' /\ GuardTruth'
  BY <1>3, PlayerKept DEF Lost
<1> QED
  BY <1>3, <1>4, <1>5, <1>6 DEF Inv, PlaybackTypeOK, Lost

LEMMA HelloInv ==
    ASSUME Inv, NEW rebooted \in BOOLEAN, Hello(rebooted)
    PROVE  Inv'
<1> DEFINE plays == player.mode = "play" /\ link # 0
           P(reset) == IF reset /\ ~plays THEN Reset(Welcome(player)) ELSE Welcome(player)
           by == IF rebooted THEN "reboot" ELSE "rejoin"
<1>0. PICK reset \in {FALSE, ResetOn} :
        LET p == P(reset)
        IN  IF plays \/ ~ResumeOn \/ ~p.resume
            THEN player' = p /\ wire' = <<>> /\ UNCHANGED requests
            ELSE IF ~rebooted /\ p.mode = "pause"
            THEN /\ player' = [p EXCEPT !.mode = "play", !.resume = FALSE]
                 /\ wire' = <<Frame("u")>>
                 /\ UNCHANGED requests
            ELSE /\ \E r \in Slots : Start(r, p, p.position, by, link')
                 /\ wire' = <<>>
  BY DEF Hello
<1> DEFINE p == P(reset)
<1>1. /\ player \in PlayerStates /\ requests \in [Slots -> Requests]
      /\ device \in Devices /\ links \in 0 .. MaxLinks
  BY DEF Inv, PlaybackTypeOK
<1>2. /\ p \in PlayerStates /\ p.sent = None /\ p.claim = player.claim
      /\ p.position \in 1 .. Count
  <2>1. LET q == Welcome(player)
        IN  /\ q \in PlayerStates /\ q.sent = None /\ q.claim = player.claim
            /\ q.position \in 1 .. Count
    BY <1>1, ForgetEffect DEF Welcome, PlayerStates
  <2>2. 1 \in 1 .. Count /\ None \in MaybeTrack
    BY CountType DEF MaybeTrack
  <2>3. LET q == Reset(Welcome(player))
        IN  /\ q \in PlayerStates /\ q.sent = None /\ q.claim = player.claim
            /\ q.position \in 1 .. Count
    BY <2>1, <2>2 DEF Reset, PlayerStates
  <2> QED
    BY <2>1, <2>3
<1>3. link' \in 0 .. MaxLinks /\ links' \in 0 .. MaxLinks /\ reports' \in Seq(Reports)
  BY <1>1, OptionsAssumption DEF Hello
<1>4. device' \in Devices
  BY <1>1, SilentType DEF Hello, Devices
<1>5. \/ player' = p /\ wire' = <<>> /\ requests' = requests
      \/ /\ player' = [p EXCEPT !.mode = "play", !.resume = FALSE]
         /\ wire' = <<Frame("u")>> /\ requests' = requests
      \/ /\ \E r \in Slots : Start(r, p, p.position, by, link')
         /\ wire' = <<>>
  BY <1>0
<1> HIDE DEF p
<1>6. /\ player' \in PlayerStates /\ requests' \in [Slots -> Requests]
      /\ wire' \in Seq(Frames) /\ ClaimHeld' /\ GuardTruth'
  <2>1. CASE player' = p /\ wire' = <<>> /\ requests' = requests
    BY <1>1, <1>2, <2>1, PlayerKept DEF Hello
  <2>2. CASE /\ player' = [p EXCEPT !.mode = "play", !.resume = FALSE]
             /\ wire' = <<Frame("u")>> /\ requests' = requests
    <3>1. player' \in PlayerStates /\ player'.sent = None /\ player'.claim = player.claim
      BY <1>2, <2>2 DEF PlayerStates, Modes
    <3>2. Frame("u") \in Frames
      BY FrameType DEF Inv, PlaybackTypeOK
    <3>3. wire' \in Seq(Frames)
      BY <2>2, <3>2
    <3> QED
      BY <1>1, <2>2, <3>1, <3>3, PlayerKept DEF Hello
  <2>3. CASE /\ \E r \in Slots : Start(r, p, p.position, by, link')
             /\ wire' = <<>>
    <3>1. PICK r \in Slots : Start(r, p, p.position, by, link')
      BY <2>3
    <3>2. /\ player' \in PlayerStates /\ requests' \in [Slots -> Requests]
          /\ player'.sent = p.sent
          /\ Held(p, requests) => Held(player', requests')
      BY <1>1, <1>2, <1>3, <3>1, StartEffect
    <3>3. ClaimHeld' /\ GuardTruth'
      BY <1>2, <3>2 DEF Inv, ClaimHeld, GuardTruth, Held
    <3> QED
      BY <2>3, <3>2, <3>3
  <2> QED
    BY <1>5, <2>1, <2>2, <2>3
<1> QED
  BY <1>3, <1>4, <1>6 DEF Inv, PlaybackTypeOK, Hello

-----------------------------------------------------------------------------
(* The player *)

LEMMA SaysEffect ==
    ASSUME reports \in Seq(Reports), device \in Devices, NEW moving \in BOOLEAN,
           NEW e \in {"STMt", "STMd", "STMs", "STMf", "STMp", "STMr", "STMn", "STMo"},
           Says(e, moving)
    PROVE  reports' \in Seq(Reports)
<1> DEFINE r == [event |-> e, empty |-> device'.phase # "running", moving |-> moving,
                 over |-> IF device'.phase = "drained" THEN device.stream ELSE 0]
<1>1. r \in Reports
  BY DEF Reports, Devices
<1>2. reports' \in {reports, Append(reports, r)}
  BY DEF Says
<1> HIDE DEF r
<1> QED
  BY <1>1, <1>2

\* A step of the player changes what it holds, what it reports and the frames
\* on their way, and nothing else.
LEMMA PlayerActsInv ==
    ASSUME Inv, PlayerActs, device' \in Devices,
           wire' \in Seq(Frames), reports' \in Seq(Reports)
    PROVE  Inv'
<1>1. ClaimHeld' /\ GuardTruth'
  BY DEF Inv, ClaimHeld, GuardTruth, PlayerActs
<1> QED
  BY <1>1 DEF Inv, PlaybackTypeOK, PlayerActs

LEMMA ObeyInv ==
    ASSUME Inv, Obey
    PROVE  Inv'
<1>1. device \in Devices /\ wire \in Seq(Frames) /\ reports \in Seq(Reports)
  BY DEF Inv, PlaybackTypeOK
<1>2. Head(wire) \in Frames /\ wire' \in Seq(Frames)
  BY <1>1 DEF Obey
<1>3. device' \in Devices /\ reports' \in Seq(Reports)
  <2> DEFINE f == Head(wire)
  <2>1. f.cmd \in {"s", "q", "p", "u"} /\ f.stream \in Nat
    BY <1>2 DEF Frames
  <2>2. CASE f.cmd = "s"
    <3>1. device' = [Silent EXCEPT !.phase = "opening", !.stream = f.stream] /\ Says("STMf", FALSE)
      BY <2>2 DEF Obey
    <3>2. device' \in Devices
      BY <2>1, <3>1 DEF Devices, Silent, MaybeTrack
    <3> QED
      BY <1>1, <3>1, <3>2, SaysEffect
  <2>3. CASE f.cmd = "q"
    <3>1. device' = Silent /\ Says("STMf", FALSE)
      BY <2>3 DEF Obey
    <3>2. device' \in Devices
      BY <3>1 DEF Devices, Silent, MaybeTrack
    <3> QED
      BY <1>1, <3>1, <3>2, SaysEffect
  <2>4. CASE f.cmd = "p"
    <3>1. device' = [device EXCEPT !.paused = TRUE] /\ Says("STMp", FALSE)
      BY <2>4 DEF Obey
    <3>2. device' \in Devices
      BY <1>1, <3>1 DEF Devices
    <3> QED
      BY <1>1, <3>1, <3>2, SaysEffect
  <2>5. CASE f.cmd = "u"
    <3>1. device' = [device EXCEPT !.paused = FALSE] /\ Says("STMr", FALSE)
      BY <2>5 DEF Obey
    <3>2. device' \in Devices
      BY <1>1, <3>1 DEF Devices
    <3> QED
      BY <1>1, <3>1, <3>2, SaysEffect
  <2> QED
    BY <2>1, <2>2, <2>3, <2>4, <2>5
<1> QED
  BY <1>2, <1>3, PlayerActsInv DEF Obey

LEMMA FetchInv ==
    ASSUME Inv, Fetch
    PROVE  Inv'
<1>1. /\ device \in Devices /\ wire \in Seq(Frames) /\ reports \in Seq(Reports)
      /\ player.position \in 1 .. Count
  BY DEF Inv, PlaybackTypeOK, PlayerStates
<1>2. Served(player.position) \in MaybeTrack
  BY <1>1 DEF Served, MaybeTrack, Tracks
<1>3. device' \in Devices
  BY <1>1, <1>2 DEF Fetch, Devices
<1> QED
  BY <1>1, <1>3, PlayerActsInv DEF Fetch

LEMMA DeviceInv ==
    ASSUME Inv, Starve \/ Begin \/ Decoded \/ Drain \/ Broken \/ Tick
    PROVE  Inv'
<1>1. device \in Devices /\ wire \in Seq(Frames) /\ reports \in Seq(Reports)
  BY DEF Inv, PlaybackTypeOK
<1>2. device' \in Devices
  <2>1. CASE Begin \/ Decoded \/ Drain
    BY <1>1, <2>1 DEF Begin, Decoded, Drain, Devices
  <2>2. CASE Broken
    BY <1>1, <2>2, SilentType DEF Broken, Devices
  <2>3. CASE Starve \/ Tick
    BY <1>1, <2>3 DEF Starve, Tick
  <2> QED
    BY <2>1, <2>2, <2>3
<1>3. wire' \in Seq(Frames) /\ PlayerActs
  BY <1>1 DEF Starve, Begin, Decoded, Drain, Broken, Tick
<1>4. reports' \in Seq(Reports)
  <2>1. CASE Tick
    <3>1. PICK moving \in {FALSE, device.phase = "running" /\ ~device.paused} :
            Says("STMt", moving)
      BY <2>1 DEF Tick
    <3>2. moving \in BOOLEAN
      BY <1>1, <3>1 DEF Devices
    <3> QED
      BY <1>1, <3>1, <3>2, SaysEffect
  <2>2. CASE Starve \/ Begin \/ Decoded \/ Drain \/ Broken
    BY <1>1, <2>2, SaysEffect DEF Starve, Begin, Decoded, Drain, Broken
  <2> QED
    BY <2>1, <2>2
<1> QED
  BY <1>2, <1>3, <1>4, PlayerActsInv

-----------------------------------------------------------------------------
LEMMA NextInv ==
    ASSUME Inv, [Next]_vars
    PROVE  Inv'
<1>1. CASE Command
  BY <1>1, PlayInv, StopInv, PauseInv DEF Command
<1>2. CASE UNCHANGED vars
  BY <1>2 DEF vars, Inv, PlaybackTypeOK, ClaimHeld, GuardTruth
<1>3. CASE Obey \/ Fetch \/ Starve \/ Begin \/ Decoded \/ Drain \/ Broken \/ Tick
  BY <1>3, ObeyInv, FetchInv, DeviceInv
<1> QED
  BY <1>1, <1>2, <1>3, SendInv, FinishInv, HandleInv, WindowClosesInv, AdvanceInv,
     LostInv, HelloInv DEF Next

THEOREM Invariance == Spec => []Inv
<1>1. Init => Inv
  BY InitInv
<1>2. Inv /\ [Next]_vars => Inv'
  BY NextInv
<1> QED
  BY <1>1, <1>2, PTL DEF Spec

\* Everything playback keeps about the player, its requests, its reports and
\* its frames keeps its type, for every queue and every number of requests.
THEOREM PlaybackTyped == Spec => []PlaybackTypeOK
BY Invariance, PTL DEF Inv

\* Every variable of playback, the state machine of the player included, keeps
\* its type, whatever the server tells it and in whatever order.
THEOREM TypeCorrect == Spec => []TypeOK
<1>1. Init => Bare(engine)
  BY FreshBare DEF Init
<1>2. Bare(engine) /\ [Next]_vars => Bare(engine)'
  BY NextBare
<1>3. Bare(engine) => engine \in Engine!Controllers
  BY DEF Bare
<1> QED
  BY <1>1, <1>2, <1>3, PlaybackTyped, PTL DEF Spec, TypeOK

\* However requests for any number of tracks overlap with ends of tracks, stops
\* and reconnects, a claimed track is being loaded by a request that releases
\* it: no play of a track is swallowed for good by stream_in_flight.
THEOREM ClaimsReleased == Spec => []ClaimHeld
BY Invariance, PTL DEF Inv

\* strm_sent_track never names another track than the last one streamed.
THEOREM GuardTruthful == Spec => []GuardTruth
BY Invariance, PTL DEF Inv

-----------------------------------------------------------------------------
(* What the player fetches.  /stream.mp3 serves the item at the position of  *)
(* the queue, not the track the strm frame was sent for.  The two agree when *)
(* the queue is not shuffled, no two play requests overlap and the control   *)
(* connection stays up; each condition is needed (a run without it fails).   *)

Unshuffled == Order = [i \in 1 .. Count |-> i]
OneAtATime == \A r, s \in Slots : r = s
NeverLost == MaxLinks = 1

Loading == \E r \in Slots : requests[r].pc = "loading"

\* A request that runs holds the connection, and the position is its index.
Attached ==
    /\ link = 1 /\ links = 1
    /\ \A r \in Slots : requests[r].pc # "idle" =>
         requests[r].link = 1 /\ requests[r].index = player.position

\* No other track than the one streamed last is remembered.
Knows(p) == {p.sent, p.running, p.current} \subseteq {announced, None}

\* The position is that of the last stream, or of one about to be sent.
Placed == streams > 0 => Loading \/ announced = TrackAt(player.position)

\* The streams that the player has, or is sent, are streams of the past.
Numbered ==
    /\ \A i \in 1 .. Len(wire) : wire[i].cmd = "s" => wire[i].stream \in 1 .. streams
    /\ device.phase # "idle" => device.stream \in 1 .. streams
    /\ device.stream <= streams

Fetched ==
    device.phase \in {"filling", "running", "drained"} /\ device.stream = streams
        => Loading \/ device.track = announced

Serves == Attached /\ Knows(player) /\ Placed /\ Numbered /\ Fetched

\* Frames other than strm 's' leave the numbers of the streams alone.
LEMMA FrameNumbered ==
    ASSUME Inv, Numbered, NEW c \in {"q", "p", "u"},
           UNCHANGED <<device, streams>>, wire' \in {wire, Append(wire, Frame(c))}
    PROVE  Numbered'
<1> DEFINE w == Append(wire, Frame(c))
<1>1. wire \in Seq(Frames) /\ Frame(c).cmd = c
  BY DEF Inv, PlaybackTypeOK, Frame
<1>2. \A i \in 1 .. Len(w) : (i \in 1 .. Len(wire) /\ w[i] = wire[i]) \/ w[i] = Frame(c)
  BY <1>1
<1>3. \A i \in 1 .. Len(w) : w[i].cmd = "s" => w[i].stream \in 1 .. streams
  BY <1>1, <1>2 DEF Numbered
<1> HIDE DEF w
<1>4. CASE wire' = wire
  BY <1>4 DEF Numbered
<1>5. CASE wire' = w
  BY <1>3, <1>5 DEF Numbered
<1> QED
  BY <1>4, <1>5 DEF w

\* A step of the server that starts no request and sends no stream.
LEMMA PlainServes ==
    ASSUME Inv, Serves, NEW c \in {"q", "p", "u"},
           UNCHANGED <<requests, link, links, device, streams, announced>>,
           wire' \in {wire, Append(wire, Frame(c))},
           player'.position = player.position, Knows(player')
    PROVE  Serves'
<1>1. Numbered'
  BY FrameNumbered DEF Serves
<1>2. Attached' /\ Placed' /\ Fetched' /\ Knows(player)'
  BY DEF Serves, Attached, Placed, Fetched, Knows, Loading
<1> QED
  BY <1>1, <1>2 DEF Serves

LEMMA ForgetKnows ==
    ASSUME NEW p \in PlayerStates, Knows(p)
    PROVE  /\ Knows(Forget(p)) /\ Forget(p).position = p.position
           /\ Forget(p) \in PlayerStates /\ Forget(p).claim = p.claim
           /\ Believed(p) \in {announced, None}
BY DEF Knows, Forget, Believed, PlayerStates, MaybeTrack

\* A request that starts moves the position to its index; one that is answered
\* at once asks for the track that plays.
LEMMA StartServes ==
    ASSUME OneAtATime, Inv, Serves, NEW r \in Slots, NEW p \in PlayerStates,
           NEW i \in 1 .. Count, NEW by \in {"user", "end", "reboot", "rejoin"},
           Knows(p), p.claim = player.claim, Start(r, p, i, by, link),
           UNCHANGED <<link, links, wire, device, streams, announced>>
    PROVE  Serves'
<1> DEFINE t == TrackAt(i)
           q == Moved(p, i)
           request(pc) == [pc |-> pc, index |-> i, link |-> link, by |-> by]
<1>1. /\ q \in PlayerStates /\ q.claim = p.claim /\ q.position = i /\ Knows(q)
  BY DEF Moved, PlayerStates, Knows
<1>2. link = 1 /\ requests[r].pc = "idle" /\ requests \in [Slots -> Requests]
  BY DEF Start, Serves, Attached, Inv, PlaybackTypeOK
<1>3. t # None
  BY TrackAtType
<1>4. p.claim = None
  <2>1. \A s \in Slots : requests[s].pc = "idle"
    BY <1>2 DEF OneAtATime
  <2> QED
    BY <2>1 DEF Inv, ClaimHeld
<1>5. \/ /\ AlreadyPlaying(q, t)
         /\ player' = [q EXCEPT !.mode = "play", !.current = t]
         /\ requests' = [requests EXCEPT ![r] = request("finishing")]
      \/ /\ player' = [q EXCEPT !.claim = t]
         /\ requests' = [requests EXCEPT ![r] = request("loading")]
  BY <1>1, <1>2, <1>3, <1>4 DEF Start, InFlight
<1>6. Numbered'
  BY DEF Serves, Numbered
<1> HIDE DEF q
<1>7. CASE /\ AlreadyPlaying(q, t)
           /\ player' = [q EXCEPT !.mode = "play", !.current = t]
           /\ requests' = [requests EXCEPT ![r] = request("finishing")]
  <2>1. t = announced
    BY <1>1, <1>3, <1>7 DEF AlreadyPlaying, Knows
  <2> HIDE DEF t
  <2>2. player'.position = i /\ Knows(player')
    BY <1>1, <1>7, <2>1 DEF Knows, PlayerStates
  <2>3. requests'[r] = request("finishing") /\ \A s \in Slots : s = r
    BY <1>2, <1>7 DEF OneAtATime
  <2>4. Attached' /\ Knows(player)'
    BY <1>2, <2>2, <2>3 DEF Serves, Attached, Knows
  <2>5. ~Loading
    BY <1>2, <2>3 DEF Loading
  <2>6. Placed' /\ Fetched'
    BY <2>1, <2>2, <2>5 DEF Serves, Placed, Fetched, t
  <2> QED
    BY <1>6, <2>4, <2>6 DEF Serves
<1>8. CASE /\ player' = [q EXCEPT !.claim = t]
           /\ requests' = [requests EXCEPT ![r] = request("loading")]
  <2>1. requests'[r] = request("loading") /\ \A s \in Slots : s = r
    BY <1>2, <1>8 DEF OneAtATime
  <2>2. player'.position = i /\ Knows(player')
    BY <1>1, <1>8 DEF Knows, PlayerStates
  <2>3. Loading'
    BY <2>1 DEF Loading
  <2>4. Attached' /\ Knows(player)'
    BY <1>2, <2>1, <2>2 DEF Serves, Attached, Knows
  <2> QED
    BY <1>6, <2>3, <2>4 DEF Serves, Placed, Fetched
<1> QED
  BY <1>5, <1>7, <1>8

LEMMA StopServes ==
    ASSUME Inv, Serves, NEW p \in PlayerStates, Knows(p), p.position = player.position,
           StopPlayer(p), UNCHANGED <<requests, link, links, device, streams, announced>>
    PROVE  Serves'
<1>1. Knows(Forget(p)) /\ Forget(p).position = p.position /\ Forget(p) \in PlayerStates
  BY ForgetKnows
<1>2. player' \in {Forget(p), [Forget(p) EXCEPT !.mode = "stop"]}
      /\ wire' \in {wire, Append(wire, Frame("q"))}
  BY DEF StopPlayer
<1>3. player'.position = player.position /\ Knows(player')
  BY <1>1, <1>2 DEF Knows, PlayerStates
<1> QED
  BY <1>2, <1>3, PlainServes

LEMMA UserServes ==
    ASSUME OneAtATime, Inv, Serves, Command
    PROVE  Serves'
<1>1. player \in PlayerStates /\ Knows(player)
  BY DEF Inv, PlaybackTypeOK, Serves
<1>2. CASE Play
  BY <1>1, <1>2, StartServes DEF Play, UserActs
<1>3. CASE Stop
  BY <1>1, <1>3, StopServes DEF Stop, UserActs
<1>4. CASE Pause
  <2>1. player'.position = player.position /\ Knows(player')
    BY <1>1, <1>4 DEF Pause, UserActs, Knows, PlayerStates
  <2> QED
    BY <1>4, <2>1, PlainServes DEF Pause, UserActs
<1>5. CASE Unpause
  <2>1. player'.position = player.position /\ Knows(player')
    BY <1>1, <1>5 DEF Unpause, UserActs, Knows, PlayerStates
  <2> QED
    BY <1>5, <2>1, PlainServes DEF Unpause, UserActs
<1> QED
  BY <1>2, <1>3, <1>4, <1>5 DEF Command

\* The connection of a loading request is still there, so the stream is sent:
\* it is newer than everything the player has.
LEMMA SendServes ==
    ASSUME OneAtATime, Inv, Serves, NEW r \in Slots, Send(r)
    PROVE  Serves'
<1> DEFINE t == TrackAt(requests[r].index)
           stop == IF Switching(player) /\ link # 0 THEN <<Frame("q")>> ELSE <<>>
           new == [cmd |-> "s", stream |-> streams + 1]
           s == Sent(player, t)
<1>1. /\ player \in PlayerStates /\ requests \in [Slots -> Requests]
      /\ wire \in Seq(Frames) /\ streams \in Nat /\ device.stream \in Nat
  BY DEF Inv, PlaybackTypeOK, Devices
<1>2. /\ requests[r].link = link /\ requests[r].index = player.position
      /\ requests[r].index \in 1 .. Count /\ requests[r] \in Requests
  BY <1>1 DEF Send, Serves, Attached, Requests
<1>3. /\ player' = Release(s, t) /\ announced' = t /\ streams' = streams + 1
      /\ requests' = [requests EXCEPT ![r].pc = "finishing"]
      /\ wire' = wire \o stop \o <<new>>
      /\ UNCHANGED <<device, link, links>>
  BY <1>2 DEF Send
<1>4. t \in MaybeTrack
  BY <1>2, TrackAtType
<1>5. Knows(player)' /\ player'.position = player.position
  <2> HIDE DEF t
  <2>1. /\ s.sent = t /\ s.current = t /\ s.running \in {t, None}
        /\ s.position = player.position
    BY <1>1 DEF Sent, PlayerStates
  <2>2. s \in PlayerStates
    BY <1>1, <1>4, SentEffect
  <2> HIDE DEF s
  <2> QED
    BY <1>3, <2>1, <2>2 DEF Release, Knows, PlayerStates
<1>6. Attached'
  <2>1. \A q \in Slots : requests'[q].link = requests[q].link
                         /\ requests'[q].index = requests[q].index
                         /\ (requests'[q].pc # "idle" => requests[q].pc # "idle")
    BY <1>1, <1>3 DEF Send, Requests
  <2> QED
    BY <1>3, <1>5, <2>1 DEF Serves, Attached
<1>7. Numbered'
  <2>1. stop \in {<<>>, <<Frame("q")>>} /\ Frame("q") \in Frames /\ Frame("q").cmd = "q"
    BY <1>1, FrameType DEF Frame
  <2> HIDE DEF stop
  <2>2. \A i \in 1 .. Len(wire') :
          (i \in 1 .. Len(wire) /\ wire'[i] = wire[i]) \/ wire'[i] \in {Frame("q"), new}
    <3> HIDE DEF new
    <3>1. CASE stop = <<>>
      BY <1>1, <1>3, <3>1
    <3>2. CASE stop = <<Frame("q")>>
      BY <1>1, <1>3, <3>2
    <3> QED
      BY <2>1, <3>1, <3>2
  <2>3. \A i \in 1 .. Len(wire') : wire'[i].cmd = "s" => wire'[i].stream \in 1 .. streams'
    BY <1>1, <1>3, <2>1, <2>2 DEF Serves, Numbered
  <2> QED
    BY <1>1, <1>3, <2>3 DEF Serves, Numbered
<1>8. Placed'
  BY <1>2, <1>3, <1>5 DEF Placed
<1>9. Fetched'
  <2>1. device'.stream < streams'
    BY <1>1, <1>3 DEF Serves, Numbered
  <2> QED
    BY <1>1, <1>3, <2>1 DEF Fetched
<1> QED
  BY <1>5, <1>6, <1>7, <1>8, <1>9 DEF Serves

LEMMA FinishServes ==
    ASSUME OneAtATime, Inv, Serves, NEW r \in Slots, Finish(r)
    PROVE  Serves'
<1>1. /\ player \in PlayerStates /\ requests \in [Slots -> Requests]
      /\ requests[r].index = player.position /\ requests[r].pc = "finishing"
  BY DEF Inv, PlaybackTypeOK, Finish, Serves, Attached
<1>2. player'.position = player.position /\ Knows(player')
  BY <1>1 DEF Finish, Serves, Knows, PlayerStates
<1>3. /\ \A q \in Slots : requests[q].pc = "finishing" /\ requests'[q].pc = "idle"
  BY <1>1 DEF Finish, OneAtATime, Requests
<1>4. Attached' /\ Knows(player)' /\ Placed'
  BY <1>2, <1>3 DEF Serves, Attached, Knows, Placed, Loading, Finish
<1>5. Numbered' /\ Fetched'
  BY <1>3 DEF Serves, Numbered, Fetched, Loading, Finish
<1> QED
  BY <1>4, <1>5 DEF Serves

\* The end of a track forgets what plays and leaves the position alone.
LEMMA TrackEndsKnows ==
    ASSUME NEW p \in PlayerStates, Knows(p), TrackEnds(p)
    PROVE  player'.position = p.position /\ Knows(player')
<1>1. Knows(Forget(p)) /\ Forget(p).position = p.position /\ Forget(p) \in PlayerStates
  BY ForgetKnows
<1> QED
  BY <1>1 DEF TrackEnds, Knows, PlayerStates

LEMMA HandleServes ==
    ASSUME Inv, Serves, Handle
    PROVE  Serves'
<1> DEFINE Harmless == player'.position = player.position /\ Knows(player')
<1>1. /\ player \in PlayerStates /\ Knows(player)
      /\ Knows(Forget(player)) /\ Forget(player).position = player.position
      /\ Forget(player) \in PlayerStates /\ Believed(player) \in {announced, None}
  BY ForgetKnows DEF Inv, PlaybackTypeOK, Serves
<1>2. ASSUME Heartbeat PROVE Harmless
  <2> DEFINE p == IF player.mode = "play" /\ Head(reports).moving
                  THEN [player EXCEPT !.running = Believed(player)] ELSE player
  <2>1. Believed(player) \in MaybeTrack
    BY <1>1 DEF Inv, PlaybackTypeOK, MaybeTrack
  <2>2. p \in PlayerStates /\ Knows(p) /\ p.position = player.position
    BY <1>1, <2>1 DEF Knows, PlayerStates
  <2>3. TrackEnds(p) \/ player' = p
    BY <1>2 DEF Heartbeat
  <2> HIDE DEF p
  <2> QED
    BY <2>2, <2>3, TrackEndsKnows
<1>3. ASSUME Underrun PROVE Harmless
  <2>1. TrackEnds(player) \/ player' = player
    BY <1>3 DEF Underrun
  <2> QED
    BY <1>1, <2>1, TrackEndsKnows
<1>4. ASSUME DecodeComplete \/ Paused \/ Resumed PROVE Harmless
  BY <1>1, <1>4 DEF DecodeComplete, Paused, Resumed, Knows, PlayerStates
<1>5. ASSUME TrackStarted PROVE Harmless
  BY <1>1, <1>5 DEF TrackStarted, Knows, PlayerStates
<1>6. ASSUME Flushed PROVE Harmless
  <2> DEFINE p == Forget(player)
             mode == IF p.mode = "pause" THEN p.mode ELSE PlayMode(engine')
  <2>1. player' = player \/ player' = [p EXCEPT !.mode = mode]
    BY <1>6 DEF Flushed
  <2> HIDE DEF p, mode
  <2>2. p \in PlayerStates /\ Knows(p) /\ p.position = player.position
    BY <1>1 DEF p
  <2> QED
    BY <1>1, <2>1, <2>2 DEF Knows, PlayerStates
<1>7. ASSUME DecodeError PROVE Harmless
  BY <1>1, <1>7 DEF DecodeError, Knows, PlayerStates
<1>8. Harmless
  BY <1>2, <1>3, <1>4, <1>5, <1>6, <1>7 DEF Handle
<1>9. UNCHANGED <<requests, link, links, wire, device, streams, announced>>
  BY DEF Handle, Heartbeat, Underrun, DecodeComplete, TrackStarted, Flushed, Paused,
         Resumed, DecodeError, Report
<1> HIDE DEF Harmless
<1> QED
  BY <1>8, <1>9, PlainServes DEF Harmless

LEMMA AdvanceServes ==
    ASSUME OneAtATime, Inv, Serves, Advance
    PROVE  Serves'
<1> DEFINE end == Head(ends)
           p == [Forget(player) EXCEPT !.done = Ended(player, end), !.dry = "none"]
           next == NextSong(p.position)
<1>1. /\ player \in PlayerStates /\ Knows(player) /\ end \in Ends
      /\ Knows(Forget(player)) /\ Forget(player).position = player.position
      /\ Forget(player) \in PlayerStates /\ Forget(player).claim = player.claim
  BY ForgetKnows DEF Inv, PlaybackTypeOK, Serves, Advance
<1>2. /\ p \in PlayerStates /\ Knows(p) /\ p.position = player.position
      /\ p.claim = player.claim /\ p.position \in 1 .. Count
  <2>1. Ended(player, end) \in MaybeTrack
    BY <1>1 DEF Ended, Ends, PlayerStates
  <2> QED
    BY <1>1, <2>1 DEF Knows, PlayerStates
<1>3. \/ UNCHANGED <<player, wire, requests>>
      \/ StopPlayer(p) /\ requests' = requests
      \/ /\ next # 0 /\ wire' = wire
         /\ \E r \in Slots : Start(r, p, next, "end", link)
  BY DEF Advance
<1>4. UNCHANGED <<link, links, device, streams, announced>>
  BY DEF Advance
<1>5. next \in 0 .. Count
  BY <1>2, NextSongType
<1> HIDE DEF p, next
<1>6. CASE UNCHANGED <<player, wire, requests>>
  BY <1>1, <1>4, <1>6, PlainServes
<1>7. CASE StopPlayer(p) /\ requests' = requests
  BY <1>2, <1>4, <1>7, StopServes
<1>8. CASE next # 0 /\ wire' = wire /\ \E r \in Slots : Start(r, p, next, "end", link)
  <2>1. next \in 1 .. Count
    BY <1>5, <1>8, CountType
  <2>2. PICK r \in Slots : Start(r, p, next, "end", link)
    BY <1>8
  <2> QED
    BY <1>2, <1>4, <1>8, <2>1, <2>2, StartServes
<1> QED
  BY <1>3, <1>6, <1>7, <1>8

\* A frame that arrives leaves the others as they are.
LEMMA ArrivedNumbered ==
    ASSUME Numbered, wire \in Seq(Frames), wire # <<>>
    PROVE  \A i \in 1 .. Len(Tail(wire)) :
             Tail(wire)[i].cmd = "s" => Tail(wire)[i].stream \in 1 .. streams
<1>1. \A i \in 1 .. Len(Tail(wire)) : Tail(wire)[i] = wire[i + 1] /\ i + 1 \in 1 .. Len(wire)
  OBVIOUS
<1> QED
  BY <1>1 DEF Numbered

\* A step of the player that keeps its stream and fetches nothing.
LEMMA DeviceKeeps ==
    ASSUME Inv, Serves, PlayerActs, wire' \in {wire, Tail(wire)}, wire # <<>> \/ wire' = wire,
           \/ device' = Silent
           \/ /\ device'.stream = device.stream /\ device'.track = device.track
              /\ device.phase = "idle" => device'.phase = "idle"
              /\ device.phase = "opening" => device'.phase = "opening"
    PROVE  Serves'
<1>1. wire \in Seq(Frames) /\ streams \in Nat /\ device \in Devices
  BY DEF Inv, PlaybackTypeOK
<1>2. \A i \in 1 .. Len(wire') : wire'[i].cmd = "s" => wire'[i].stream \in 1 .. streams
  BY <1>1, ArrivedNumbered DEF Serves, Numbered
<1>3. Numbered' /\ Fetched'
  BY <1>1, <1>2 DEF Serves, Numbered, Fetched, PlayerActs, Silent, Loading, Devices
<1>4. Attached' /\ Knows(player)' /\ Placed'
  BY DEF Serves, Attached, Knows, Placed, Loading, PlayerActs
<1> QED
  BY <1>3, <1>4 DEF Serves

LEMMA ObeyServes ==
    ASSUME Inv, Serves, Obey
    PROVE  Serves'
<1> DEFINE f == Head(wire)
<1>1. /\ wire \in Seq(Frames) /\ wire # <<>> /\ wire' = Tail(wire) /\ PlayerActs
      /\ f \in Frames /\ f = wire[1] /\ streams \in Nat /\ device \in Devices
  BY DEF Inv, PlaybackTypeOK, Obey
<1>2. CASE f.cmd = "s"
  <2>1. device' = [Silent EXCEPT !.phase = "opening", !.stream = f.stream]
    BY <1>2 DEF Obey
  <2>2. f.stream \in 1 .. streams
    BY <1>1, <1>2 DEF Serves, Numbered
  <2>3. \A i \in 1 .. Len(wire') : wire'[i].cmd = "s" => wire'[i].stream \in 1 .. streams
    BY <1>1, ArrivedNumbered DEF Serves
  <2>4. Numbered' /\ Fetched'
    BY <1>1, <2>1, <2>2, <2>3 DEF Numbered, Fetched, PlayerActs, Silent
  <2>5. Attached' /\ Knows(player)' /\ Placed'
    BY <1>1 DEF Serves, Attached, Knows, Placed, Loading, PlayerActs
  <2> QED
    BY <2>4, <2>5 DEF Serves
<1>3. CASE f.cmd = "q"
  BY <1>1, <1>3, DeviceKeeps DEF Obey
<1>4. CASE f.cmd \in {"p", "u"}
  <2>1. device' = [device EXCEPT !.paused = TRUE] \/ device' = [device EXCEPT !.paused = FALSE]
    BY <1>4 DEF Obey
  <2>2. /\ device'.stream = device.stream /\ device'.track = device.track
        /\ device'.phase = device.phase
    BY <1>1, <2>1 DEF Devices
  <2> QED
    BY <1>1, <2>2, DeviceKeeps
<1> QED
  BY <1>1, <1>2, <1>3, <1>4 DEF Frames

\* The item at the position is the track of the last stream.
LEMMA FetchServes ==
    ASSUME Unshuffled, Inv, Serves, Fetch
    PROVE  Serves'
<1>1. /\ player.position \in 1 .. Count /\ device \in Devices /\ streams \in Nat
  BY DEF Inv, PlaybackTypeOK, PlayerStates
<1>2. Served(player.position) = TrackAt(player.position)
  BY <1>1 DEF Served, TrackAt, Unshuffled
<1>3. /\ device'.phase = "filling" /\ device'.stream = device.stream
      /\ device'.track = TrackAt(player.position) /\ device.phase = "opening"
  BY <1>1, <1>2 DEF Fetch, Devices
<1>4. UNCHANGED <<wire, player, requests, link, links, streams, announced>>
  BY DEF Fetch, PlayerActs
<1>5. device.stream \in 1 .. streams
  BY <1>3 DEF Serves, Numbered
<1>6. Numbered' /\ Fetched'
  BY <1>1, <1>3, <1>4, <1>5 DEF Serves, Numbered, Fetched, Placed, Loading
<1>7. Attached' /\ Knows(player)' /\ Placed'
  BY <1>4 DEF Serves, Attached, Knows, Placed, Loading
<1> QED
  BY <1>6, <1>7 DEF Serves

LEMMA DeviceServes ==
    ASSUME Inv, Serves, Starve \/ Begin \/ Decoded \/ Drain \/ Broken \/ Tick
    PROVE  Serves'
<1>1. device \in Devices
  BY DEF Inv, PlaybackTypeOK
<1>2. PlayerActs /\ wire' = wire
  BY DEF Starve, Begin, Decoded, Drain, Broken, Tick
<1>3. CASE Begin \/ Decoded \/ Drain
  <2>1. /\ device'.stream = device.stream /\ device'.track = device.track
        /\ device.phase \notin {"idle", "opening"}
    BY <1>1, <1>3 DEF Begin, Decoded, Drain, Devices
  <2> QED
    BY <1>2, <2>1, DeviceKeeps
<1>4. CASE Starve \/ Broken \/ Tick
  <2>1. device' \in {Silent, device}
    BY <1>4 DEF Starve, Broken, Tick
  <2> QED
    BY <1>2, <2>1, DeviceKeeps
<1> QED
  BY <1>3, <1>4

LEMMA NextServes ==
    ASSUME Unshuffled, OneAtATime, NeverLost, Inv, Serves, [Next]_vars
    PROVE  Serves'
<1>1. ~(\E rebooted \in BOOLEAN : Hello(rebooted)) /\ ~Lost
  BY DEF NeverLost, Serves, Attached, Hello, Lost
<1>2. CASE WindowCloses
  <2>1. player'.position = player.position /\ Knows(player')
    BY <1>2 DEF WindowCloses, Inv, PlaybackTypeOK, PlayerStates, Serves, Knows
  <2> QED
    BY <1>2, <2>1, PlainServes DEF WindowCloses
<1>3. CASE UNCHANGED vars
  <2>1. Knows(player')
    BY <1>3 DEF vars, Serves, Knows
  <2> QED
    BY <1>3, <2>1, PlainServes DEF vars
<1> QED
  BY <1>1, <1>2, <1>3, UserServes, SendServes, FinishServes, HandleServes, AdvanceServes,
     ObeyServes, FetchServes, DeviceServes DEF Next

\* The player plays the track that the last strm frame was sent for: with an
\* unshuffled queue of any length, requests that do not overlap and a connection
\* that stays up, however users, reports and ends of tracks interleave.
THEOREM ServedFaithfully ==
    ASSUME Unshuffled, OneAtATime, NeverLost
    PROVE  Spec => []ServedAsSent
<1>1. Init => Serves
  BY DEF Init, Serves, Attached, Knows, Placed, Numbered, Fetched, Silent
<1>2. Inv /\ Serves /\ [Next]_vars => Serves'
  BY NextServes
<1>3. Serves => ServedAsSent
  BY DEF Serves, Fetched, Loading, ServedAsSent, Quiet
<1> QED
  BY <1>1, <1>2, <1>3, Invariance, PTL DEF Spec
=============================================================================
