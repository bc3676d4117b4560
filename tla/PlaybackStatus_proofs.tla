----------------------- MODULE PlaybackStatus_proofs -----------------------
(* What TrackPlayback promises of the status and of the ends of tracks, in   *)
(* the environments in which the code keeps these promises: a queue that is  *)
(* started once and left alone, and a queue that repeats.  Each condition is *)
(* named, and the property fails without it.                                 *)
EXTENDS TrackPlayback_proofs

-----------------------------------------------------------------------------
(* The state machine of a player.  It has no hooks, and what the server      *)
(* tells it keeps it in these combinations of its two states.                *)

Proper(c) ==
    /\ Bare(c)
    /\ \/ c.playing = "STOPPED" /\ c.streaming = "IDLE"
       \/ c.playing = "BUFFERING" /\ c.streaming = "STREAMING"
       \/ c.playing \in {"PLAYING", "PAUSED"} /\ c.streaming \in {"IDLE", "STREAMING"}

LEMMA ProperMutators ==
    ASSUME NEW c, Bare(c)
    PROVE  /\ \A p \in Engine!PlayingStates :
                /\ Engine!SetPlaying(c, p).playing = p
                /\ Engine!SetPlaying(c, p).streaming = c.streaming
           /\ \A s \in Engine!StreamingStates :
                /\ Engine!SetStreaming(c, s).streaming = s
                /\ Engine!SetStreaming(c, s).playing = c.playing
BY DEF Bare, Engine!SetPlaying, Engine!SetStreaming, Engine!Controllers

LEMMA ProperSimple ==
    ASSUME NEW c, Bare(c)
    PROVE  /\ Engine!IsStopped(Engine!Stop(c))
           /\ \/ Engine!Playing(c).playing = "PLAYING"
              \/ Engine!Playing(c).playing = c.playing /\ c.rebuffering
           /\ Engine!Playing(c).streaming = c.streaming
           /\ Engine!Resume(c).playing = "PLAYING" /\ Engine!Resume(c).streaming = c.streaming
           /\ Engine!Pause(c).playing = "PAUSED" /\ Engine!Pause(c).streaming = c.streaming
           /\ Engine!Rebuffer(c).playing = "BUFFERING" /\ Engine!Rebuffer(c).streaming = c.streaming
<1> USE DEF Engine!PlayingStates, Engine!StreamingStates
<1>1. Engine!IsStopped(Engine!Stop(c))
  <2> DEFINE d == [c EXCEPT !.queue = Engine!EndAt(c.queue, 1), !.open = FALSE]
  <2>1. Bare(d)
    <3>1. Engine!EndAt(c.queue, 1) \in Seq({"song"})
      BY EndAtBare DEF Bare, Engine!Controllers
    <3> QED
      BY <3>1, QueueBare
  <2> HIDE DEF d
  <2>2. Bare(Engine!SetPlaying(d, "STOPPED")) /\ Engine!SetPlaying(d, "STOPPED").playing = "STOPPED"
    BY <2>1, MutatorsBare, ProperMutators
  <2>3. Engine!Stop(c) = Engine!SetStreaming(Engine!SetPlaying(d, "STOPPED"), "IDLE")
    BY DEF Engine!Stop, d
  <2> QED
    BY <2>2, <2>3, ProperMutators DEF Engine!IsStopped
<1>2. /\ Engine!SetPlaying(c, "PLAYING").playing = "PLAYING"
      /\ Engine!SetPlaying(c, "PLAYING").streaming = c.streaming
      /\ Bare(Engine!SetPlaying(c, "PLAYING"))
      /\ Engine!SetPlaying(c, "BUFFERING").playing = "BUFFERING"
      /\ Engine!SetPlaying(c, "BUFFERING").streaming = c.streaming
      /\ Bare(Engine!SetPlaying(c, "BUFFERING"))
  BY MutatorsBare, ProperMutators
<1>3. /\ \/ Engine!Playing(c).playing = "PLAYING"
         \/ Engine!Playing(c).playing = c.playing /\ c.rebuffering
      /\ Engine!Playing(c).streaming = c.streaming
  <2> DEFINE d == IF c.rebuffering THEN c ELSE Engine!SetPlaying(c, "PLAYING")
  <2>1. /\ Bare(d) /\ d.streaming = c.streaming
        /\ d.playing = "PLAYING" \/ (d.playing = c.playing /\ c.rebuffering)
    BY <1>2
  <2> HIDE DEF d
  <2>2. [d EXCEPT !.errors = 0].playing = d.playing /\ [d EXCEPT !.errors = 0].streaming = d.streaming
    BY <2>1 DEF Bare, Engine!Controllers
  <2> QED
    BY <2>1, <2>2 DEF Engine!Playing, d
<1>4. Engine!Resume(c).playing = "PLAYING" /\ Engine!Resume(c).streaming = c.streaming
  <2> DEFINE d == Engine!SetPlaying(c, "PLAYING")
  <2> HIDE DEF d
  <2>1. Bare(d) => [d EXCEPT !.resume = FALSE].playing = d.playing
                   /\ [d EXCEPT !.resume = FALSE].streaming = d.streaming
    BY DEF Bare, Engine!Controllers
  <2> QED
    BY <1>2, <2>1 DEF Engine!Resume, d
<1>5. Engine!Rebuffer(c).playing = "BUFFERING" /\ Engine!Rebuffer(c).streaming = c.streaming
  <2> DEFINE d == Engine!SetPlaying(c, "BUFFERING")
  <2> HIDE DEF d
  <2>1. Bare(d) => [d EXCEPT !.rebuffering = TRUE, !.resume = TRUE].playing = d.playing
                   /\ [d EXCEPT !.rebuffering = TRUE, !.resume = TRUE].streaming = d.streaming
    BY DEF Bare, Engine!Controllers
  <2> QED
    BY <1>2, <2>1 DEF Engine!Rebuffer, d
<1>6. Engine!Pause(c).playing = "PAUSED" /\ Engine!Pause(c).streaming = c.streaming
  <2> DEFINE d == [c EXCEPT !.resume = TRUE]
  <2>1. Bare(d) /\ d.streaming = c.streaming
    BY DEF Bare, Engine!Controllers
  <2> HIDE DEF d
  <2>2. /\ Engine!SetPlaying(d, "PAUSED").playing = "PAUSED"
        /\ Engine!SetPlaying(d, "PAUSED").streaming = d.streaming
    BY <2>1, ProperMutators
  <2> QED
    BY <2>1, <2>2 DEF Engine!Pause, d
<1> QED
  BY <1>1, <1>3, <1>4, <1>5, <1>6

\* Opening a song that is asked for, or none, leaves a proper combination.
LEMMA ProperStream ==
    ASSUME NEW c, Bare(c), Engine!IsStopped(c), NEW song \in {"song", "none"}, c.next = "none",
           NEW d \in Engine!Stream(c, song)
    PROVE  \/ Engine!IsStopped(d)
           \/ d.playing = "BUFFERING" /\ d.streaming = "STREAMING"
<1> USE DEF Engine!PlayingStates, Engine!StreamingStates
<1>1. CASE song = "none"
  <2>1. Engine!NextIfMore(c) = {Engine!SetStreaming(c, "IDLE")}
    <3>1. Bare(Engine!SetStreaming(c, "IDLE"))
      BY MutatorsBare
    <3> QED
      BY <3>1, NobodyAsked DEF Engine!NextIfMore
  <2>2. d = Engine!SetStreaming(c, "IDLE")
    BY <1>1, <2>1 DEF Engine!Stream
  <2> QED
    BY <2>2, ProperMutators DEF Engine!IsStopped
<1>2. CASE song = "song"
  <2> DEFINE e == Engine!EndAt(c.queue, 2)
             q == IF e # <<>> /\ e[1] = song THEN e ELSE <<song>> \o e
             b == [c EXCEPT !.open = FALSE, !.queue = q]
  <2>1. e \in Seq({"song"}) /\ <<song>> \in Seq({"song"})
    BY <1>2, EndAtBare DEF Bare, Engine!Controllers
  <2> HIDE DEF e
  <2>2. <<song>> \o e \in Seq({"song"})
    BY <2>1
  <2>3. q \in Seq({"song"})
    BY <2>1, <2>2
  <2> HIDE DEF q
  <2>4. Bare(b) /\ b.playing = "STOPPED"
    BY <2>3 DEF Bare, Engine!Controllers, Engine!IsStopped
  <2>5. d = Engine!Opened(b)
    <3>1. ~c.hooked
      BY DEF Bare
    <3> QED
      BY <1>2, <3>1 DEF Engine!Stream, e, q
  <2> HIDE DEF b
  <2> DEFINE f == Engine!SetPlaying(b, "BUFFERING")
             g == Engine!SetStreaming(f, "STREAMING")
  <2>6. Bare(f) /\ f.playing = "BUFFERING"
    BY <2>4, MutatorsBare, ProperMutators
  <2> HIDE DEF f
  <2>7. Bare(g) /\ g.playing = "BUFFERING" /\ g.streaming = "STREAMING"
    BY <2>6, MutatorsBare, ProperMutators
  <2>8. Engine!Opened(b) = [g EXCEPT !.open = TRUE, !.next = "none"]
    BY <2>4 DEF Engine!Opened, f
  <2> HIDE DEF g
  <2> QED
    BY <2>5, <2>7, <2>8 DEF Bare, Engine!Controllers
<1> QED
  BY <1>1, <1>2

\* What the table makes of the events of a server, in each combination.
LEMMA ToldTable ==
    ASSUME NEW e \in Told
    PROVE  /\ Engine!StateTable(e, "STOPPED", "IDLE") = "Ignore"
           /\ Engine!StateTable(e, "BUFFERING", "STREAMING") =
                (CASE e = "Stop" -> "Stop" [] e = "Started" -> "Playing"
                   [] e = "StreamingFailed" -> "StopNextIfMore" [] OTHER -> "Ignore")
           /\ Engine!StateTable(e, "PLAYING", "STREAMING") =
                (CASE e = "Stop" -> "Stop" [] e = "Started" -> "Playing"
                   [] e = "Pause" -> "Pause" [] e = "StreamingFailed" -> "SyncStopNext"
                   [] e = "Stopped" -> "Buffering" [] e = "OutputUnderrun" -> "Rebuffer"
                   [] OTHER -> "Ignore")
           /\ Engine!StateTable(e, "PLAYING", "IDLE") =
                (CASE e = "Stop" -> "Stop" [] e = "Started" -> "PlayAndNext"
                   [] e = "Pause" -> "Pause" [] e = "Stopped" -> "Stopped"
                   [] OTHER -> "Ignore")
           /\ Engine!StateTable(e, "PAUSED", "STREAMING") =
                (CASE e = "Stop" -> "Stop" [] e = "Started" -> "Playing"
                   [] e \in {"Pause", "Resume"} -> "Resume" [] e = "StreamingFailed" -> "Stop"
                   [] e = "Stopped" -> "Buffering" [] OTHER -> "Ignore")
           /\ Engine!StateTable(e, "PAUSED", "IDLE") =
                (CASE e = "Stop" -> "Stop" [] e = "Started" -> "PlayAndNext"
                   [] e \in {"Pause", "Resume"} -> "JumpOrResume"
                   [] e = "Stopped" -> "Stopped" [] OTHER -> "Ignore")
<1>1. /\ "IDLE" \in Engine!ValidStates["STOPPED"]
      /\ "STREAMING" \in Engine!ValidStates["BUFFERING"]
      /\ {"IDLE", "STREAMING"} \subseteq Engine!ValidStates["PLAYING"]
      /\ {"IDLE", "STREAMING"} \subseteq Engine!ValidStates["PAUSED"]
  BY DEF Engine!ValidStates, Engine!PlayingStates, Engine!StreamingStates
<1>2. e \in {"Stop", "Pause", "Resume", "StatusHeartbeat", "OutputUnderrun", "Started",
             "Stopped", "StreamingFailed"}
  BY DEF Told
<1>3. Engine!StateTable(e, "STOPPED", "IDLE") = "Ignore"
  BY <1>1, <1>2 DEF Engine!StateTable
<1>4. Engine!StateTable(e, "BUFFERING", "STREAMING") =
        (CASE e = "Stop" -> "Stop" [] e = "Started" -> "Playing"
           [] e = "StreamingFailed" -> "StopNextIfMore" [] OTHER -> "Ignore")
  BY <1>1, <1>2 DEF Engine!StateTable
<1>5. Engine!StateTable(e, "PLAYING", "STREAMING") =
        (CASE e = "Stop" -> "Stop" [] e = "Started" -> "Playing"
           [] e = "Pause" -> "Pause" [] e = "StreamingFailed" -> "SyncStopNext"
           [] e = "Stopped" -> "Buffering" [] e = "OutputUnderrun" -> "Rebuffer"
           [] OTHER -> "Ignore")
  BY <1>1, <1>2 DEF Engine!StateTable
<1>6. Engine!StateTable(e, "PLAYING", "IDLE") =
        (CASE e = "Stop" -> "Stop" [] e = "Started" -> "PlayAndNext"
           [] e = "Pause" -> "Pause" [] e = "Stopped" -> "Stopped"
           [] OTHER -> "Ignore")
  BY <1>1, <1>2 DEF Engine!StateTable
<1>7. Engine!StateTable(e, "PAUSED", "STREAMING") =
        (CASE e = "Stop" -> "Stop" [] e = "Started" -> "Playing"
           [] e \in {"Pause", "Resume"} -> "Resume" [] e = "StreamingFailed" -> "Stop"
           [] e = "Stopped" -> "Buffering" [] OTHER -> "Ignore")
  BY <1>1, <1>2 DEF Engine!StateTable
<1>8. Engine!StateTable(e, "PAUSED", "IDLE") =
        (CASE e = "Stop" -> "Stop" [] e = "Started" -> "PlayAndNext"
           [] e \in {"Pause", "Resume"} -> "JumpOrResume"
           [] e = "Stopped" -> "Stopped" [] OTHER -> "Ignore")
  BY <1>1, <1>2 DEF Engine!StateTable
<1> QED
  BY <1>3, <1>4, <1>5, <1>6, <1>7, <1>8

Engaged(c, S) ==
    /\ c.playing \in S
    /\ c.streaming = IF c.playing = "STOPPED" THEN "IDLE" ELSE "STREAMING"

\* Where an event takes a proper state machine.
Lands(e, c, d) ==
    /\ Proper(d)
    /\ e = "Stop" => Engine!IsStopped(d)
    /\ Engine!IsStopped(c) => Engine!IsStopped(d)
    /\ e \in {"StatusHeartbeat", "OutputUnderrun", "Started", "Stopped"}
         => \A S \in {{"BUFFERING"}, {"BUFFERING", "PLAYING"}} :
              Engaged(c, S) => Engaged(d, {"BUFFERING", "PLAYING"})
    /\ e \in {"StatusHeartbeat", "OutputUnderrun", "Stopped"} /\ Engaged(c, {"BUFFERING"})
         => Engaged(d, {"BUFFERING"})
    /\ e = "OutputUnderrun" /\ Engaged(c, {"BUFFERING", "PLAYING"}) => Engaged(d, {"BUFFERING"})
    /\ e = "StreamingFailed" /\ Engaged(c, {"STOPPED", "BUFFERING"}) => Engine!IsStopped(d)

LEMMA ResolveLands ==
    ASSUME NEW e \in Told, NEW c, Proper(c), NEW d \in Engine!Resolve(e, c)
    PROVE  Lands(e, c, d)
<1> DEFINE a == Engine!StateTable(e, c.playing, c.streaming)
<1>0. d \in Engine!Outcomes(a, c) /\ Bare(c) /\ Bare(d)
  BY ResolveBare DEF Engine!Resolve, Proper
<1>1. CASE Engine!IsStopped(c)
  <2>1. a = "Ignore"
    BY <1>1, ToldTable DEF Engine!IsStopped
  <2>2. d = c
    BY <1>0, <2>1 DEF Engine!Outcomes
  <2> QED
    BY <1>1, <2>2 DEF Lands, Engine!IsStopped, Engaged
<1>2. CASE e = "Stop" /\ ~Engine!IsStopped(c)
  <2>1. a = "Stop"
    BY <1>2, ToldTable DEF Proper, Engine!IsStopped
  <2>2. Engine!IsStopped(d)
    BY <1>0, <2>1, ProperSimple DEF Engine!Outcomes
  <2> QED
    BY <1>0, <1>2, <2>2 DEF Lands, Proper, Engine!IsStopped
<1>3. CASE e # "Stop" /\ c.playing = "BUFFERING" /\ c.streaming = "STREAMING"
  <2>1. CASE e = "Started"
    <3>1. a = "Playing"
      BY <1>3, <2>1, ToldTable
    <3>2. d = Engine!Playing(c)
      BY <1>0, <3>1 DEF Engine!Outcomes
    <3>3. d.playing \in {"PLAYING", "BUFFERING"} /\ d.streaming = "STREAMING"
      BY <1>0, <1>3, <3>2, ProperSimple
    <3> QED
      BY <1>0, <1>3, <2>1, <3>3 DEF Lands, Proper, Engine!IsStopped, Engaged
  <2>2. CASE e = "StreamingFailed"
    <3>1. a = "StopNextIfMore"
      BY <1>3, <2>2, ToldTable
    <3>2. Engine!IsStopped(d)
      <4>1. Engine!RetryOrGoOn(Engine!Stop(c)) = {Engine!Stop(c)}
        BY <1>0, SimpleBare, GoOnBare
      <4> QED
        BY <1>0, <3>1, <4>1, ProperSimple DEF Engine!Outcomes
    <3> QED
      BY <1>0, <1>3, <2>2, <3>2 DEF Lands, Proper, Engine!IsStopped, Engaged
  <2>3. CASE e \notin {"Started", "StreamingFailed"}
    <3>1. a = "Ignore"
      BY <1>3, <2>3, ToldTable
    <3>2. d = c
      BY <1>0, <3>1 DEF Engine!Outcomes
    <3> QED
      BY <1>3, <2>3, <3>2 DEF Lands, Engine!IsStopped, Engaged
  <2> QED
    BY <2>1, <2>2, <2>3
<1>4. CASE e # "Stop" /\ c.playing \in {"PLAYING", "PAUSED"} /\ c.streaming \in {"IDLE", "STREAMING"}
  <2>1. a \in {"Ignore", "Playing", "Pause", "SyncStopNext", "Buffering", "Rebuffer",
               "PlayAndNext", "Stopped", "Resume", "Stop", "JumpOrResume"}
    BY <1>4, ToldTable
  <2>2. CASE a = "Ignore"
    <3>1. d = c
      BY <1>0, <2>2 DEF Engine!Outcomes
    <3>2. ~(e = "OutputUnderrun" /\ c.playing = "PLAYING" /\ c.streaming = "STREAMING")
      BY <2>2, ToldTable
    <3> QED
      BY <1>4, <3>1, <3>2 DEF Lands, Proper, Engine!IsStopped, Engaged
  <2>3. CASE a \in {"Playing", "PlayAndNext"}
    <3>1. d = Engine!Playing(c)
      BY <1>0, <2>3, SimpleBare, NobodyAsked DEF Engine!Outcomes
    <3>2. d.playing \in {"PLAYING", c.playing} /\ d.streaming = c.streaming
      BY <1>0, <3>1, ProperSimple
    <3>3. e = "Started"
      BY <1>4, <2>3, ToldTable
    <3> QED
      BY <1>0, <1>4, <3>2, <3>3 DEF Lands, Proper, Engine!IsStopped, Engaged
  <2>4. CASE a \in {"Pause", "Resume"}
    <3>1. d.playing \in {"PLAYING", "PAUSED"} /\ d.streaming = c.streaming
      <4>1. CASE a = "Pause"
        <5>1. d = Engine!Pause(c)
          BY <1>0, <4>1 DEF Engine!Outcomes
        <5> QED
          BY <1>0, <5>1, ProperSimple
      <4>2. CASE a = "Resume"
        <5>1. d = Engine!Resume(c)
          BY <1>0, <4>2 DEF Engine!Outcomes
        <5> QED
          BY <1>0, <5>1, ProperSimple
      <4> QED
        BY <2>4, <4>1, <4>2
    <3>2. e \in {"Pause", "Resume"}
      BY <1>4, <2>4, ToldTable
    <3> QED
      BY <1>0, <1>4, <3>1, <3>2 DEF Lands, Proper, Engine!IsStopped, Engaged
  <2>5. CASE a = "SyncStopNext"
    <3>1. d = Engine!SetStreaming(c, "IDLE")
      <4>1. Engine!RetryOrGoOn(Engine!SetStreaming(c, "IDLE")) = {Engine!SetStreaming(c, "IDLE")}
        BY <1>0, MutatorsBare, GoOnBare DEF Engine!StreamingStates
      <4>2. ~c.hooked
        BY <1>0 DEF Bare
      <4> QED
        BY <1>0, <2>5, <4>1, <4>2 DEF Engine!Outcomes, Engine!SyncStopNext
    <3>2. d.playing = c.playing /\ d.streaming = "IDLE"
      BY <1>0, <3>1, ProperMutators DEF Engine!StreamingStates
    <3>3. e = "StreamingFailed"
      BY <1>4, <2>5, ToldTable
    <3> QED
      BY <1>0, <1>4, <3>2, <3>3 DEF Lands, Proper, Engine!IsStopped, Engaged
  <2>6. CASE a = "Buffering"
    <3>1. d = Engine!SetPlaying(c, "BUFFERING")
      BY <1>0, <2>6 DEF Engine!Outcomes
    <3>2. d.playing = "BUFFERING" /\ d.streaming = c.streaming
      BY <1>0, <3>1, ProperMutators DEF Engine!PlayingStates
    <3>3. e = "Stopped" /\ c.streaming = "STREAMING"
      BY <1>4, <2>6, ToldTable
    <3> QED
      BY <1>0, <1>4, <3>2, <3>3 DEF Lands, Proper, Engine!IsStopped, Engaged
  <2>7. CASE a = "Rebuffer"
    <3>1. d = Engine!Rebuffer(c)
      BY <1>0, <2>7 DEF Engine!Outcomes
    <3>2. d.playing = "BUFFERING" /\ d.streaming = c.streaming
      BY <1>0, <3>1, ProperSimple
    <3>3. e = "OutputUnderrun" /\ c.streaming = "STREAMING"
      BY <1>4, <2>7, ToldTable
    <3> QED
      BY <1>0, <1>4, <3>2, <3>3 DEF Lands, Proper, Engine!IsStopped, Engaged
  <2>8. CASE a = "Stopped"
    <3>1. d = Engine!SetPlaying(c, "STOPPED")
      BY <1>0, <2>8 DEF Engine!Outcomes
    <3>2. d.playing = "STOPPED" /\ d.streaming = c.streaming
      BY <1>0, <3>1, ProperMutators DEF Engine!PlayingStates
    <3>3. e = "Stopped" /\ c.streaming = "IDLE"
      BY <1>4, <2>8, ToldTable
    <3> QED
      BY <1>0, <1>4, <3>2, <3>3 DEF Lands, Proper, Engine!IsStopped, Engaged
  <2>9. CASE a = "Stop"
    <3>1. Engine!IsStopped(d)
      BY <1>0, <2>9, ProperSimple DEF Engine!Outcomes
    <3>2. e = "StreamingFailed"
      BY <1>4, <2>9, ToldTable
    <3> QED
      BY <1>0, <1>4, <3>1, <3>2 DEF Lands, Proper, Engine!IsStopped, Engaged
  <2>10. CASE a = "JumpOrResume"
    <3>1. e \in {"Pause", "Resume"}
      BY <1>4, <2>10, ToldTable
    <3>2. d \in Engine!JumpOrResume(c)
      BY <1>0, <2>10 DEF Engine!Outcomes
    <3>3. Proper(d)
      <4>1. CASE ~c.resume
        <5>1. d = Engine!Resume(c)
          BY <3>2, <4>1 DEF Engine!JumpOrResume
        <5>2. d.playing = "PLAYING" /\ d.streaming = c.streaming
          BY <1>0, <5>1, ProperSimple
        <5> QED
          BY <1>0, <1>4, <5>2 DEF Proper
      <4>2. CASE c.resume
        <5> DEFINE s == Engine!Stop(c)
        <5>1. PICK b \in Engine!JumpToTime(c) : d = [b EXCEPT !.resume = FALSE]
          BY <3>2, <4>2 DEF Engine!JumpOrResume
        <5>2. Bare(s) /\ Engine!IsStopped(s) /\ s.next = "none"
          <6> DEFINE f == Engine!SetPlaying([c EXCEPT !.queue = Engine!EndAt(@, 1), !.open = FALSE], "STOPPED")
          <6>1. s = Engine!SetStreaming(f, "IDLE") /\ Bare(s) /\ Engine!IsStopped(s)
            BY <1>0, SimpleBare, ProperSimple DEF Engine!Stop
          <6> HIDE DEF f, s
          <6>2. s = [f EXCEPT !.streaming = "IDLE", !.cbid = @ + 1, !.next = "none"]
            BY <6>1 DEF Engine!SetStreaming
          <6> QED
            BY <6>1, <6>2 DEF Bare, Engine!Controllers
        <5> HIDE DEF s
        <5>3. Engine!PlayingSong(s) \in {"song", "none"}
          BY <5>2 DEF Engine!PlayingSong, Bare, Engine!Controllers
        <5>4. b \in Engine!Stream(s, Engine!PlayingSong(s))
          <6>1. ~c.hooked
            BY <1>0 DEF Bare
          <6> QED
            BY <5>1, <6>1 DEF Engine!JumpToTime, s
        <5>5. /\ Bare(b)
              /\ Engine!IsStopped(b) \/ (b.playing = "BUFFERING" /\ b.streaming = "STREAMING")
          BY <5>2, <5>3, <5>4, ProperStream, StreamBare
        <5>6. d.playing = b.playing /\ d.streaming = b.streaming
          BY <5>1, <5>5 DEF Bare, Engine!Controllers
        <5> QED
          BY <1>0, <5>5, <5>6 DEF Proper, Engine!IsStopped
      <4> QED
        BY <4>1, <4>2
    <3> QED
      BY <1>4, <3>1, <3>3 DEF Lands, Engine!IsStopped
  <2> QED
    BY <2>1, <2>2, <2>3, <2>4, <2>5, <2>6, <2>7, <2>8, <2>9, <2>10
<1> QED
  BY <1>1, <1>2, <1>3, <1>4 DEF Proper, Engine!IsStopped

LEMMA TellLands ==
    ASSUME Proper(engine), NEW e \in Told, Tell(e)
    PROVE  Lands(e, engine, engine')
<1>1. PICK c \in Engine!Resolve(e, engine) : engine' = [c EXCEPT !.cbid = 0]
  BY DEF Tell
<1>2. Lands(e, engine, c) /\ Bare(c)
  BY ResolveLands, ResolveBare DEF Proper
<1>3. engine'.playing = c.playing /\ engine'.streaming = c.streaming /\ Bare(engine')
  BY <1>1, <1>2 DEF Bare, Engine!Controllers
<1> QED
  BY <1>2, <1>3 DEF Lands, Proper, Engaged, Engine!IsStopped

LEMMA NoteLands ==
    ASSUME Proper(engine), Engine!NoteStrmSent("song")
    PROVE  /\ Proper(engine')
           /\ Engaged(engine, {"STOPPED", "BUFFERING"}) => Engaged(engine', {"BUFFERING"})
<1> DEFINE q == IF Engine!StreamingSong(engine) = "song"
                THEN engine.queue ELSE <<"song">> \o engine.queue
           c == [engine EXCEPT !.next = "none", !.queue = q]
           d == IF c.playing = "STOPPED" THEN Engine!SetPlaying(c, "BUFFERING") ELSE c
<1>1. q \in Seq({"song"})
  <2>1. engine.queue \in Seq({"song"}) /\ <<"song">> \in Seq({"song"})
    BY DEF Proper, Bare, Engine!Controllers
  <2>2. <<"song">> \o engine.queue \in Seq({"song"})
    BY <2>1
  <2> QED
    BY <2>1, <2>2
<1>2. engine' = Engine!SetStreaming(d, "STREAMING")
  BY DEF Engine!NoteStrmSent
<1> HIDE DEF q
<1>3. Bare(c) /\ c.playing = engine.playing
  BY <1>1 DEF Proper, Bare, Engine!Controllers
<1> HIDE DEF c
<1>4. Bare(d) /\ d.playing = IF engine.playing = "STOPPED" THEN "BUFFERING" ELSE engine.playing
  BY <1>3, MutatorsBare, ProperMutators DEF Engine!PlayingStates
<1> HIDE DEF d
<1>5. Bare(engine') /\ engine'.streaming = "STREAMING" /\ engine'.playing = d.playing
  BY <1>2, <1>4, MutatorsBare, ProperMutators DEF Engine!StreamingStates
<1> QED
  BY <1>4, <1>5 DEF Proper, Engaged

LEMMA NextProper ==
    ASSUME Proper(engine), [Next]_vars
    PROVE  Proper(engine')
<1> USE DEF Told
<1>0. ASSUME NEW e \in Told, Tell(e) PROVE Proper(engine')
  BY <1>0, TellLands DEF Lands
<1>1. ASSUME NEW p, StopPlayer(p) PROVE Proper(engine')
  BY <1>0, <1>1 DEF StopPlayer
<1>2. CASE Command
  BY <1>0, <1>1, <1>2 DEF Command, Play, Stop, Pause, Unpause
<1>3. ASSUME NEW r \in Slots, Send(r) \/ Finish(r) PROVE Proper(engine')
  BY <1>3, NoteLands DEF Send, Finish
<1>4. CASE Handle
  BY <1>0, <1>4 DEF Handle, Heartbeat, Underrun, DecodeComplete, TrackStarted, Flushed,
                    Paused, Resumed, DecodeError
<1>5. CASE WindowCloses \/ Lost \/ UNCHANGED vars
  BY <1>5 DEF WindowCloses, Lost, vars
<1>6. CASE Advance
  BY <1>1, <1>6 DEF Advance
<1>7. ASSUME NEW rebooted \in BOOLEAN, Hello(rebooted) PROVE Proper(engine')
  <2>1. Proper(Engine!Fresh(FALSE))
    BY FreshBare DEF Proper, Engine!Fresh
  <2> QED
    BY <1>7, <2>1 DEF Hello
<1>8. CASE Obey \/ Fetch \/ Starve \/ Begin \/ Decoded \/ Drain \/ Broken \/ Tick
  BY <1>8 DEF Obey, Fetch, Starve, Begin, Decoded, Drain, Broken, Tick, PlayerActs
<1> QED
  BY <1>2, <1>3, <1>4, <1>5, <1>6, <1>7, <1>8 DEF Next

LEMMA ProperAlways == Spec => []Proper(engine)
<1>1. Init => Proper(engine)
  BY FreshBare DEF Init, Proper, Engine!Fresh
<1>2. Proper(engine) /\ [Next]_vars => Proper(engine)'
  BY NextProper
<1> QED
  BY <1>1, <1>2, PTL DEF Spec

\* The server drives the state machine through some of its events only, and in
\* orders of its own; whatever comes, the machine never reaches a combination
\* of states that resolve() logs as invalid and then ignores every event in.
THEOREM EngineValid == Spec => []Engine!StateValid
<1>1. Proper(engine) => Engine!StateValid
  BY DEF Proper, Engine!StateValid, Engine!ValidStates, Engine!PlayingStates,
         Engine!StreamingStates
<1> QED
  BY <1>1, ProperAlways, PTL

-----------------------------------------------------------------------------
(* A queue left alone.  It is asked for once, over a connection that stays   *)
(* up, by a player that reports the end of a file before the end of its      *)
(* sound.  Then server and player move in step: there is one stream at a     *)
(* time, and each stage of its life leaves its own reports under way.        *)

OnlyPlays == Commands \subseteq {"play"}
LeftAlone == MaxAsks <= 1 /\ OnlyPlays /\ NeverLost /\ ~LateDecode

Connected ==
    /\ link = 1 /\ links = 1
    /\ \A r \in Slots : requests[r].pc # "idle" => requests[r].link = 1

OneLoads ==
    \A r, s \in Slots : requests[r].pc = "loading" /\ requests[s].pc = "loading" => r = s

\* What a report tells: an underrun before the stream has started is "early".
Kind(r) == IF r.event = "STMo" /\ r.over = 0 THEN "early" ELSE r.event

LEMMA KindEvent ==
    ASSUME NEW r \in Reports
    PROVE  /\ Kind(r) = "early" => r.event = "STMo"
           /\ r.event = "STMo" => Kind(r) \in {"early", "STMo"}
           /\ r.event # "STMo" => Kind(r) = r.event
BY DEF Kind, Reports

Heard(q, S) == \A i \in 1 .. Len(q) : Kind(q[i]) \in S

\* A tick is sent when nothing is under way, so it is heard of first, and one
\* that finds the output empty is heard of before the decoder is dry.
TicksFirst ==
    \A i \in 1 .. Len(reports) :
        reports[i].event = "STMt" => i = 1 /\ (reports[i].empty => player.dry = "none")

\* An underrun before the stream has started is heard of before the start, while
\* nothing tells that a track has played out.
EarlyFirst ==
    \A i \in 1 .. Len(reports) :
        Kind(reports[i]) = "early" =>
            /\ ~player.started /\ player.dry = "none"
            /\ \A j \in 1 .. i - 1 : reports[j].event \notin {"STMs", "STMd"}

\* A request will send the next stream; the player is silent.
Asked ==
    /\ Loading /\ OneLoads /\ wire = <<>> /\ ends = <<>> /\ player.dry = "none"
    /\ device.phase \in {"idle", "drained"} /\ Heard(reports, {"STMt"})
    /\ Engaged(engine, {"STOPPED", "BUFFERING"})

\* The frame that starts the stream is under way, after one that stops the old.
StreamSent ==
    /\ ~Loading /\ ends = <<>> /\ player.dry = "none" /\ advanced < streams
    /\ ~player.started
    /\ Len(wire) = 1 \/ (Len(wire) = 2 /\ wire[1].cmd = "q")
    /\ wire[Len(wire)].cmd = "s" /\ wire[Len(wire)].stream = streams
    /\ device.phase \in {"idle", "drained"} /\ Heard(reports, {"STMt", "STMf"})
    /\ Engaged(engine, {"BUFFERING"})

\* The player has heard of the stream and has not started it.
Opening ==
    /\ ~Loading /\ wire = <<>> /\ ends = <<>> /\ player.dry = "none" /\ advanced < streams
    /\ ~player.started
    /\ device.phase \in {"opening", "filling"} /\ device.stream = streams
    /\ Heard(reports, {"STMt", "STMf", "early"})
    /\ Engaged(engine, {"BUFFERING"})

Sounding ==
    /\ ~Loading /\ wire = <<>> /\ ends = <<>> /\ advanced < streams
    /\ device.phase = "running" /\ device.stream = streams
    /\ Heard(reports, {"STMt", "STMf", "STMs", "STMd", "early"})
    /\ Engaged(engine, {"BUFFERING", "PLAYING"})

\* The stream has played out, and the last report under way tells it.
Drained ==
    /\ ~Loading /\ wire = <<>> /\ ends = <<>> /\ advanced < streams
    /\ device.phase = "drained" /\ device.stream = streams
    /\ reports # <<>>
    /\ \A i \in 1 .. Len(reports) :
         IF i = Len(reports)
         THEN reports[i].event = "STMo" /\ reports[i].empty /\ reports[i].over = streams
         ELSE Kind(reports[i]) \in {"STMt", "STMf", "STMs", "STMd", "early"}
    /\ Engaged(engine, {"BUFFERING", "PLAYING"})

\* The server knows, and a task is about to advance the queue.
Done ==
    /\ ~Loading /\ wire = <<>> /\ reports = <<>> /\ player.dry = "none" /\ advanced < streams
    /\ device.phase = "drained"
    /\ Len(ends) = 1 /\ ends[1].of = streams /\ ends[1].at = streams
    /\ Engaged(engine, {"BUFFERING"})

\* Nothing will be streamed: not yet, or the queue is at its end, or a track
\* could not be decoded.
Over ==
    /\ ~Loading /\ ends = <<>> /\ player.dry = "none"
    /\ wire = <<>> \/ (Len(wire) = 1 /\ wire[1].cmd = "q")
    /\ device.phase \in {"idle", "drained"} /\ Heard(reports, {"STMt", "STMf", "STMn", "early"})
    /\ Engaged(engine, {"STOPPED", "BUFFERING"})

Stage == Asked \/ StreamSent \/ Opening \/ Sounding \/ Drained \/ Done \/ Over

Unasked ==
    asks = 0 => Over /\ wire = <<>> /\ Heard(reports, {"STMt"}) /\ player.mode = "stop"

InStep ==
    /\ Connected /\ ~device.paused /\ TicksFirst /\ EarlyFirst /\ advanced <= streams
    /\ player.mode = PlayMode(engine)
    /\ Stage /\ Unasked

LEMMA HeardTail ==
    ASSUME NEW q \in Seq(Reports), q # <<>>, NEW S, Heard(q, S)
    PROVE  Heard(Tail(q), S) /\ Kind(Head(q)) \in S
<1> DEFINE w == Tail(q)
<1>1. /\ Len(q) = Len(w) + 1 /\ Len(w) \in Nat /\ Head(q) = q[1]
      /\ \A i \in 1 .. Len(w) : w[i] = q[i + 1]
  OBVIOUS
<1> HIDE DEF w
<1>2. \A i \in 1 .. Len(w) : i + 1 \in 1 .. Len(q)
  BY <1>1
<1>3. 1 \in 1 .. Len(q)
  BY <1>1
<1> QED
  BY <1>1, <1>2, <1>3 DEF Heard, w

LEMMA HeardAppend ==
    ASSUME NEW q \in Seq(Reports), NEW r \in Reports, NEW S, Heard(q, S), Kind(r) \in S
    PROVE  Heard(Append(q, r), S)
<1> DEFINE w == Append(q, r)
<1>1. \A i \in 1 .. Len(w) : w[i] = r \/ (i \in 1 .. Len(q) /\ w[i] = q[i])
  OBVIOUS
<1> QED
  BY <1>1 DEF Heard, w

LEMMA HeardMore ==
    ASSUME NEW q, NEW S, NEW T, Heard(q, S), S \subseteq T
    PROVE  Heard(q, T)
BY DEF Heard

LEMMA EngagedMode ==
    ASSUME NEW c, Engaged(c, {"STOPPED", "BUFFERING", "PLAYING"})
    PROVE  PlayMode(c) = IF c.playing = "STOPPED" THEN "stop" ELSE "play"
BY DEF Engaged, PlayMode, Engine!IsStopped

\* A step that leaves frames, reports, ends and the player alone, and loads
\* what was being loaded, leaves the stage.
LEMMA QuietlyInStep ==
    ASSUME InStep, Connected', Loading' <=> Loading, OneLoads => OneLoads',
           UNCHANGED <<engine, ends, wire, reports, device, asks, streams, advanced>>,
           player'.mode = player.mode, player'.dry = player.dry,
           player'.started = player.started
    PROVE  InStep'
<1>1. Stage'
  BY DEF InStep, Stage, Asked, StreamSent, Opening, Sounding, Drained, Done, Over, Heard, Kind
<1>2. Unasked'
  BY DEF InStep, Unasked, Over, Heard, Kind
<1>3. TicksFirst' /\ EarlyFirst' /\ PlayMode(engine)' = PlayMode(engine)
  BY DEF InStep, TicksFirst, EarlyFirst, Kind, PlayMode
<1> QED
  BY <1>1, <1>2, <1>3 DEF InStep

\* The only play there is finds a player that is silent and taken for silent:
\* its track is neither playing nor on its way, so a request will send it.
LEMMA PlayInStep ==
    ASSUME MaxAsks <= 1, Inv, InStep, Play
    PROVE  InStep'
<1>1. asks = 0 /\ asks' = 1
  BY OptionsAssumption DEF Play, UserActs, Inv, PlaybackTypeOK
<1>2. /\ Over /\ wire = <<>> /\ Heard(reports, {"STMt"}) /\ player.mode = "stop" /\ ~Loading
      /\ link = 1 /\ requests \in [Slots -> Requests] /\ player \in PlayerStates
  BY <1>1 DEF InStep, Unasked, Over, Connected, Inv, PlaybackTypeOK
<1>3. PICK i \in 1 .. Count, r \in Slots : Start(r, player, i, "user", link)
  BY DEF Play
<1> DEFINE t == TrackAt(i)
           q == Moved(player, i)
           new == [pc |-> "loading", index |-> i, link |-> link, by |-> "user"]
<1>4. q.mode = "stop" /\ q.claim = None /\ q \in PlayerStates /\ q.dry = player.dry
  BY <1>2 DEF Moved, PlayerStates, Inv, ClaimHeld, Loading
<1>5. ~AlreadyPlaying(q, t) /\ ~InFlight(q, t)
  BY <1>4, TrackAtType DEF AlreadyPlaying, InFlight
<1>6. player' = [q EXCEPT !.claim = t] /\ requests' = [requests EXCEPT ![r] = new]
  BY <1>2, <1>3, <1>5 DEF Start
<1> HIDE DEF q, t
<1>7. player'.mode = player.mode /\ player'.dry = player.dry
  BY <1>2, <1>4, <1>6 DEF PlayerStates
<1>8. /\ UNCHANGED <<engine, ends, link, links, wire, reports, device, streams, advanced>>
  BY DEF Play, UserActs
<1>9. requests'[r] = new /\ \A s \in Slots \ {r} : requests'[s] = requests[s]
  BY <1>2, <1>6
<1>10. Connected' /\ Loading' /\ OneLoads'
  BY <1>2, <1>8, <1>9 DEF InStep, Connected, Loading, OneLoads
<1>11. Asked' /\ EarlyFirst'
  BY <1>1, <1>2, <1>7, <1>8, <1>10 DEF Asked, Over, Heard, EarlyFirst, Kind
<1> QED
  BY <1>1, <1>7, <1>8, <1>10, <1>11 DEF InStep, Stage, Unasked, TicksFirst, PlayMode

LEMMA SendInStep ==
    ASSUME Inv, Proper(engine), InStep, NEW r \in Slots, Send(r)
    PROVE  InStep'
<1> DEFINE stop == IF Switching(player) /\ link # 0 THEN <<Frame("q")>> ELSE <<>>
           new == [cmd |-> "s", stream |-> streams + 1]
           t == TrackAt(requests[r].index)
<1>1. /\ requests \in [Slots -> Requests] /\ wire \in Seq(Frames) /\ player \in PlayerStates
      /\ streams \in Nat /\ advanced \in Nat /\ requests[r].pc = "loading"
      /\ requests[r].link = link /\ link = 1 /\ links = 1 /\ t \in MaybeTrack
  <2>1. requests[r].index \in 1 .. Count
    BY DEF Inv, PlaybackTypeOK, Requests
  <2> QED
    BY <2>1, TrackAtType DEF Inv, PlaybackTypeOK, Send, InStep, Connected
<1>2. Loading /\ Asked /\ asks # 0
  BY <1>1 DEF Loading, InStep, Stage, StreamSent, Opening, Sounding, Drained, Done, Over, Unasked
<1>3. /\ requests' = [requests EXCEPT ![r].pc = "finishing"]
      /\ wire' = wire \o stop \o <<new>>
      /\ player' = Release(Sent(player, t), t)
      /\ streams' = streams + 1
      /\ Engine!NoteStrmSent("song")
      /\ UNCHANGED <<ends, link, reports, device, asks, links, advanced>>
  BY <1>1 DEF Send
<1>4. player'.mode = "play" /\ player'.dry = player.dry /\ ~player'.started
  BY <1>1, <1>3 DEF Release, Sent, PlayerStates
<1>5. Connected' /\ ~Loading'
  <2>1. /\ requests'[r].pc = "finishing"
        /\ \A s \in Slots : requests'[s].link = requests[s].link
        /\ \A s \in Slots \ {r} : requests'[s] = requests[s]
    BY <1>1, <1>3 DEF Requests
  <2> QED
    BY <1>1, <1>2, <1>3, <2>1 DEF Connected, Loading, Asked, OneLoads, InStep
<1>6. Engaged(engine', {"BUFFERING"})
  BY <1>2, <1>3, NoteLands DEF Asked
<1>7. /\ Len(wire') = 1 \/ (Len(wire') = 2 /\ wire'[1].cmd = "q")
      /\ wire'[Len(wire')].cmd = "s" /\ wire'[Len(wire')].stream = streams'
  <2>1. new.cmd = "s" /\ new.stream = streams' /\ Frame("q").cmd = "q"
    BY <1>3 DEF Frame
  <2>2. wire = <<>> /\ stop \in {<<>>, <<Frame("q")>>}
    BY <1>2 DEF Asked
  <2>3. wire' = wire \o stop \o <<new>>
    BY <1>3
  <2> HIDE DEF new, stop
  <2>4. CASE stop = <<>>
    BY <2>1, <2>2, <2>3, <2>4
  <2>5. CASE stop = <<Frame("q")>>
    BY <2>1, <2>2, <2>3, <2>5
  <2> QED
    BY <2>2, <2>4, <2>5
<1>8. advanced < streams'
  BY <1>1, <1>3 DEF InStep
<1>9. StreamSent'
  BY <1>2, <1>3, <1>4, <1>5, <1>6, <1>7, <1>8 DEF StreamSent, Asked, Heard, Kind
<1>10. PlayMode(engine') = "play"
  BY <1>6, EngagedMode DEF Engaged
<1>11. ~device'.paused /\ TicksFirst' /\ EarlyFirst' /\ Unasked'
  BY <1>2, <1>3, <1>4 DEF InStep, TicksFirst, Unasked, Asked, Heard, EarlyFirst, Kind
<1> QED
  BY <1>1, <1>4, <1>5, <1>8, <1>9, <1>10, <1>11, <1>3 DEF InStep, Stage, PlayMode

LEMMA FinishInStep ==
    ASSUME Inv, InStep, NEW r \in Slots, Finish(r)
    PROVE  InStep'
<1>1. player \in PlayerStates /\ requests \in [Slots -> Requests]
  BY DEF Inv, PlaybackTypeOK
<1>2. player'.mode = player.mode /\ player'.dry = player.dry /\ player'.started = player.started
  BY <1>1 DEF Finish, PlayerStates
<1>3. /\ requests'[r].pc = "idle" /\ requests[r].pc = "finishing"
      /\ \A s \in Slots \ {r} : requests'[s] = requests[s]
  BY <1>1 DEF Finish, Requests
<1>4. Connected' /\ (Loading' <=> Loading) /\ (OneLoads => OneLoads')
  BY <1>3 DEF Finish, InStep, Connected, Loading, OneLoads
<1> QED
  BY <1>2, <1>4, QuietlyInStep DEF Finish

\* What the server makes of a report, while a queue is left alone: a tick ends
\* no track, for none is sent between the end of a file and that of its sound.
LEMMA HandleMoves ==
    ASSUME Inv, InStep, Handle
    PROVE  /\ reports # <<>> /\ reports' = Tail(reports)
           /\ UNCHANGED <<requests, link, links, wire, device, asks, streams, advanced>>
           /\ \/ /\ Head(reports).event = "STMt" /\ Tell("StatusHeartbeat") /\ ends' = ends
                 /\ player'.mode = player.mode /\ player'.dry = player.dry
              \/ /\ Head(reports).event = "STMd" /\ UNCHANGED <<engine, ends>>
                 /\ player'.mode = player.mode
              \/ /\ Head(reports).event = "STMs" /\ Tell("Started") /\ ends' = ends
                 /\ player'.mode = "play"
              \/ /\ Head(reports).event = "STMo" /\ Tell("OutputUnderrun")
                 /\ player'.mode = player.mode
                 /\ \/ /\ UNCHANGED <<ends, player>>
                       /\ ~(player.mode = "play" /\ Head(reports).empty /\ PlayedOut(player))
                    \/ /\ player'.dry = "none"
                       /\ \E t : ends' = Append(ends, [track |-> t, of |-> Head(reports).over,
                                                       at |-> streams])
              \/ /\ Head(reports).event = "STMf" /\ ends' = ends /\ player'.dry = player.dry
                 /\ \/ player'.mode = player.mode /\ engine' = engine
                    \/ /\ Tell("Stopped")
                       /\ player'.mode = IF player.mode = "pause" THEN "pause" ELSE PlayMode(engine')
              \/ /\ Head(reports).event = "STMn" /\ Tell("StreamingFailed") /\ ends' = ends
                 /\ player'.mode = "stop" /\ player'.dry = player.dry
              \/ Head(reports).event \in {"STMp", "STMr"}
<1> DEFINE h == Head(reports)
<1>1. /\ player \in PlayerStates /\ reports \in Seq(Reports) /\ Believed(player) \in MaybeTrack
  BY DEF Inv, PlaybackTypeOK, Believed, PlayerStates
<1>2. \E e : Report(e)
  BY DEF Handle, Heartbeat, Underrun, DecodeComplete, TrackStarted, Flushed, Paused,
         Resumed, DecodeError
<1>3. /\ reports # <<>> /\ reports' = Tail(reports) /\ h = reports[1] /\ 1 \in 1 .. Len(reports)
      /\ UNCHANGED <<requests, link, links, wire, device, asks, streams, advanced>>
  <2>1. reports # <<>>
    BY <1>2 DEF Report
  <2>2. h = reports[1] /\ 1 \in 1 .. Len(reports)
    BY <1>1, <2>1
  <2> QED
    BY <1>2, <2>1, <2>2 DEF Report
<1>4. CASE Heartbeat
  <2> DEFINE moves == player.mode = "play" /\ h.moving
             p == IF moves THEN [player EXCEPT !.running = Believed(player)] ELSE player
  <2>1. /\ h.event = "STMt" /\ Tell("StatusHeartbeat")
        /\ IF p.mode = "play" /\ h.empty /\ DecoderDry(p) THEN TrackEnds(p)
           ELSE player' = p /\ ends' = ends
    BY <1>4 DEF Heartbeat, Report
  <2>2. p.mode = player.mode /\ p.dry = player.dry
    BY <1>1 DEF PlayerStates
  <2> HIDE DEF p
  <2>3. h.empty => player.dry = "none"
    BY <1>3, <2>1 DEF InStep, TicksFirst
  <2> QED
    BY <1>3, <2>1, <2>2, <2>3 DEF DecoderDry
<1>5. CASE Underrun
  <2>1. h.event = "STMo" /\ Tell("OutputUnderrun")
    BY <1>5 DEF Underrun, Report
  <2>2. CASE player.mode = "play" /\ h.empty /\ PlayedOut(player)
    <3>1. TrackEnds(player)
      BY <1>5, <2>2 DEF Underrun
    <3>2. player'.mode = player.mode /\ player'.dry = "none"
      BY <1>1, <3>1 DEF TrackEnds, Forget, PlayerStates
    <3> QED
      BY <1>3, <2>1, <3>1, <3>2 DEF TrackEnds
  <2>3. CASE ~(player.mode = "play" /\ h.empty /\ PlayedOut(player))
    BY <1>3, <1>5, <2>1, <2>3 DEF Underrun
  <2> QED
    BY <2>2, <2>3
<1>6. CASE DecodeComplete
  BY <1>1, <1>3, <1>6 DEF DecodeComplete, Report, PlayerStates
<1>7. CASE TrackStarted
  <2>1. player'.mode = "play"
    BY <1>1, <1>7 DEF TrackStarted, PlayerStates
  <2> QED
    BY <1>3, <1>7, <2>1 DEF TrackStarted, Report
<1>8. CASE Flushed
  <2>1. /\ Forget(player).dry = player.dry /\ Forget(player).mode = player.mode
        /\ Forget(player) \in PlayerStates
    BY <1>1 DEF Forget, PlayerStates, MaybeTrack
  <2>2. CASE player.fresh
    BY <1>3, <1>8, <2>2 DEF Flushed, Report
  <2>3. CASE ~player.fresh
    <3>1. /\ Tell("Stopped")
          /\ player' = [Forget(player) EXCEPT !.mode = IF @ = "pause" THEN @ ELSE PlayMode(engine')]
      BY <1>8, <2>3 DEF Flushed
    <3>2. player'.dry = player.dry
          /\ player'.mode = IF player.mode = "pause" THEN "pause" ELSE PlayMode(engine')
      BY <2>1, <3>1 DEF PlayerStates
    <3> QED
      BY <1>3, <1>8, <3>1, <3>2 DEF Flushed, Report
  <2> QED
    BY <2>2, <2>3
<1>9. CASE DecodeError
  <2>1. player'.mode = "stop" /\ player'.dry = player.dry
    BY <1>1, <1>9 DEF DecodeError, Forget, PlayerStates
  <2> QED
    BY <1>3, <1>9, <2>1 DEF DecodeError, Report
<1>10. CASE Paused \/ Resumed
  BY <1>3, <1>10 DEF Paused, Resumed, Report
<1> QED
  BY <1>4, <1>5, <1>6, <1>7, <1>8, <1>9, <1>10 DEF Handle

\* An underrun before the start ends no track, and what is still under way of
\* that kind comes before anything that would make it end one.
LEMMA EarlyHandled ==
    ASSUME Inv, InStep, Handle
    PROVE  /\ Kind(Head(reports)) = "early" => UNCHANGED <<player, ends>>
           /\ Head(reports).event \notin {"STMs", "STMd"} => player'.started = player.started
           /\ EarlyFirst'
<1> DEFINE h == Head(reports)
           w == Tail(reports)
<1>1. /\ player \in PlayerStates /\ reports \in Seq(Reports) /\ reports # <<>>
      /\ reports' = w
  BY HandleMoves DEF Inv, PlaybackTypeOK
<1>2. /\ Len(reports) = Len(w) + 1 /\ Len(w) \in Nat /\ h = reports[1]
      /\ \A i \in 1 .. Len(w) : w[i] = reports[i + 1] /\ i + 1 \in 1 .. Len(reports)
  BY <1>1
<1> HIDE DEF w, h
<1>3. 1 \in 1 .. Len(reports)
  BY <1>2
<1>4. Kind(h) = "early" => UNCHANGED <<player, ends>>
  <2> SUFFICES ASSUME Kind(h) = "early" PROVE UNCHANGED <<player, ends>>
    OBVIOUS
  <2>1. ~PlayedOut(player)
    BY <1>2, <1>3 DEF InStep, EarlyFirst, PlayedOut
  <2>2. Underrun
    BY DEF Kind, h, Handle, Heartbeat, Underrun, DecodeComplete, TrackStarted, Flushed,
           Paused, Resumed, DecodeError, Report
  <2> QED
    BY <2>1, <2>2 DEF Underrun
<1>5. h.event \notin {"STMs", "STMd"} =>
        player'.started = player.started /\ player'.dry \in {player.dry, "none"}
  <2> SUFFICES ASSUME h.event \notin {"STMs", "STMd"}
               PROVE  player'.started = player.started /\ player'.dry \in {player.dry, "none"}
    OBVIOUS
  <2>1. ASSUME NEW p \in PlayerStates
        PROVE  /\ Forget(p).started = p.started /\ Forget(p).dry = p.dry
               /\ Forget(p) \in PlayerStates
    BY DEF Forget, PlayerStates, MaybeTrack
  <2>2. ASSUME NEW p \in PlayerStates, TrackEnds(p)
        PROVE  player'.started = p.started /\ player'.dry = "none"
    BY <2>1, <2>2 DEF TrackEnds, PlayerStates
  <2>3. CASE Heartbeat
    <3> DEFINE p == IF player.mode = "play" /\ h.moving
                    THEN [player EXCEPT !.running = Believed(player)] ELSE player
    <3>1. p \in PlayerStates /\ p.started = player.started /\ p.dry = player.dry
      BY <1>1 DEF PlayerStates, Believed
    <3>2. TrackEnds(p) \/ player' = p
      BY <2>3 DEF Heartbeat, h
    <3> HIDE DEF p
    <3> QED
      BY <2>2, <3>1, <3>2
  <2>4. CASE Underrun
    BY <1>1, <2>2, <2>4 DEF Underrun
  <2>5. CASE Flushed
    BY <1>1, <2>1, <2>5 DEF Flushed, PlayerStates
  <2>6. CASE Paused \/ Resumed
    BY <1>1, <2>6 DEF Paused, Resumed, PlayerStates
  <2>7. CASE DecodeError
    BY <1>1, <2>1, <2>7 DEF DecodeError, PlayerStates
  <2> QED
    BY <2>3, <2>4, <2>5, <2>6, <2>7 DEF Handle, DecodeComplete, TrackStarted, Report, h
<1>6. EarlyFirst'
  <2> SUFFICES ASSUME NEW i \in 1 .. Len(w), Kind(w[i]) = "early"
               PROVE  /\ ~player'.started /\ player'.dry = "none"
                      /\ \A j \in 1 .. i - 1 : w[j].event \notin {"STMs", "STMd"}
    BY <1>1 DEF EarlyFirst
  <2>1. /\ ~player.started /\ player.dry = "none"
        /\ \A j \in 1 .. i : reports[j].event \notin {"STMs", "STMd"}
    BY <1>2 DEF InStep, EarlyFirst
  <2>2. h.event \notin {"STMs", "STMd"}
    BY <1>2, <2>1
  <2>3. \A j \in 1 .. i - 1 : w[j] = reports[j + 1] /\ j + 1 \in 1 .. i
    BY <1>2
  <2> QED
    BY <1>5, <2>1, <2>2, <2>3
<1> QED
  BY <1>4, <1>5, <1>6 DEF h

\* Ticks, underruns before the start, and flushes that come late, leave the state
\* machine where it is while a queue is left alone.
LEMMA EngineStays ==
    ASSUME Proper(engine), NEW e \in {"StatusHeartbeat", "OutputUnderrun", "Stopped"},
           Tell(e) \/ engine' = engine
    PROVE  /\ Engaged(engine, {"STOPPED", "BUFFERING"}) =>
                /\ Engaged(engine', {"STOPPED", "BUFFERING"})
                /\ PlayMode(engine') = PlayMode(engine)
           /\ Engaged(engine, {"BUFFERING"}) => Engaged(engine', {"BUFFERING"})
           /\ Engaged(engine, {"BUFFERING", "PLAYING"}) => Engaged(engine', {"BUFFERING", "PLAYING"})
<1>1. CASE Tell(e)
  <2>1. Lands(e, engine, engine')
    BY <1>1, TellLands DEF Told
  <2>2. /\ Engine!IsStopped(engine) => Engine!IsStopped(engine')
        /\ Engaged(engine, {"BUFFERING"}) => Engaged(engine', {"BUFFERING"})
        /\ Engaged(engine, {"BUFFERING", "PLAYING"}) => Engaged(engine', {"BUFFERING", "PLAYING"})
    BY <2>1 DEF Lands
  <2> QED
    BY <2>2 DEF Engaged, PlayMode, Engine!IsStopped
<1>2. CASE engine' = engine
  BY <1>2
<1> QED
  BY <1>1, <1>2

\* While a track sounds, every report but the underrun at its end leaves the
\* status, and adds no end.
LEMMA PlayingOn ==
    ASSUME Inv, Proper(engine), InStep, Handle, player.mode = "play",
           Engaged(engine, {"BUFFERING", "PLAYING"}),
           Kind(Head(reports)) \in {"STMt", "STMf", "STMs", "STMd", "early"}
    PROVE  /\ Engaged(engine', {"BUFFERING", "PLAYING"}) /\ ends' = ends
           /\ player'.mode \in {"play", PlayMode(engine')}
<1> DEFINE h == Head(reports)
<1>1. CASE Kind(h) = "early"
  <2>1. h.event = "STMo"
    <3>1. h \in Reports
      BY HandleMoves DEF Inv, PlaybackTypeOK
    <3> HIDE DEF h
    <3> QED
      BY <1>1, <3>1, KindEvent
  <2> QED
    BY <1>1, <2>1, EarlyHandled, HandleMoves, EngineStays
<1>2. CASE Kind(h) # "early"
  <2>1. h.event \in {"STMt", "STMf", "STMs", "STMd"}
    BY <1>2 DEF Kind
  <2> QED
    BY <2>1, EngineStays, HandleMoves, TellLands DEF Lands, Told
<1> QED
  BY <1>1, <1>2

LEMMA HandleInStep ==
    ASSUME Inv, Proper(engine), InStep, Handle
    PROVE  InStep'
<1> DEFINE h == Head(reports)
<1>1. /\ reports \in Seq(Reports) /\ reports # <<>> /\ reports' = Tail(reports)
      /\ UNCHANGED <<requests, link, links, wire, device, asks, streams, advanced>>
  BY HandleMoves DEF Inv, PlaybackTypeOK
<1>2. /\ Len(reports) = Len(reports') + 1 /\ Len(reports') \in Nat /\ h = reports[1]
      /\ \A i \in 1 .. Len(reports') : reports'[i] = reports[i + 1] /\ i + 1 \in 1 .. Len(reports)
  <2> DEFINE w == Tail(reports)
  <2>1. /\ Len(reports) = Len(w) + 1 /\ Len(w) \in Nat /\ h = reports[1]
        /\ \A i \in 1 .. Len(w) : w[i] = reports[i + 1] /\ i + 1 \in 1 .. Len(reports)
    BY <1>1
  <2> HIDE DEF w
  <2> QED
    BY <1>1, <2>1 DEF w
<1>3. TicksFirst' /\ EarlyFirst'
  BY <1>2, EarlyHandled DEF InStep, TicksFirst
<1>4. Connected' /\ ~device'.paused /\ advanced' <= streams' /\ Loading' = Loading
      /\ (OneLoads => OneLoads')
  BY <1>1 DEF InStep, Connected, Loading, OneLoads
<1>5. \A S : Heard(reports, S) => Heard(reports', S) /\ Kind(h) \in S
  BY <1>1, HeardTail
<1>6. ASSUME Kind(h) \in {"STMt", "STMf", "early"}
      PROVE  /\ ends' = ends /\ player'.dry = player.dry
             /\ ~player.started => ~player'.started
             /\ \E e \in {"StatusHeartbeat", "OutputUnderrun", "Stopped"} :
                  Tell(e) \/ engine' = engine
             /\ player.mode # "pause" => player'.mode \in {player.mode, PlayMode(engine')}
             /\ Kind(h) = "STMt" => player'.mode = player.mode
  <2>1. ~player.started => ~player'.started
    BY <1>6, EarlyHandled DEF Kind
  <2>2. CASE Kind(h) = "early"
    BY <2>1, <2>2, EarlyHandled, HandleMoves DEF Kind
  <2>3. CASE Kind(h) # "early"
    <3>1. h.event = Kind(h)
      BY <2>3 DEF Kind
    <3> QED
      BY <1>6, <2>1, <2>3, <3>1, HandleMoves
  <2> QED
    BY <2>2, <2>3
<1>7. CASE Asked
  <2>1. Kind(h) = "STMt" /\ Heard(reports', {"STMt"})
    BY <1>5, <1>7 DEF Asked
  <2>2. /\ Engaged(engine', {"STOPPED", "BUFFERING"}) /\ PlayMode(engine') = PlayMode(engine)
        /\ player'.mode = player.mode /\ player'.dry = player.dry /\ ends' = ends
    BY <1>6, <1>7, <2>1, EngineStays DEF Asked
  <2>3. Asked'
    BY <1>1, <1>4, <1>7, <2>1, <2>2 DEF Asked
  <2>4. asks # 0
    BY <1>7 DEF InStep, Unasked, Over, Asked
  <2> QED
    BY <1>1, <1>3, <1>4, <2>2, <2>3, <2>4 DEF InStep, Stage, Unasked, PlayMode
<1>8. CASE StreamSent \/ Opening
  <2>1. /\ Kind(h) \in {"STMt", "STMf", "early"} /\ ~player.started
        /\ StreamSent => Heard(reports', {"STMt", "STMf"})
        /\ Opening => Heard(reports', {"STMt", "STMf", "early"})
    BY <1>5, <1>8 DEF StreamSent, Opening
  <2>2. Engaged(engine, {"BUFFERING"}) /\ PlayMode(engine) = "play"
    BY <1>8, EngagedMode DEF StreamSent, Opening, Engaged
  <2>3. /\ Engaged(engine', {"BUFFERING"}) /\ player'.dry = player.dry /\ ends' = ends
        /\ ~player'.started
    BY <1>6, <2>1, <2>2, EngineStays
  <2>4. PlayMode(engine') = "play" /\ player'.mode = "play"
    <3>1. PlayMode(engine') = "play"
      BY <2>3, EngagedMode DEF Engaged
    <3> QED
      BY <1>6, <2>1, <2>2, <3>1 DEF InStep
  <2>5. StreamSent' \/ Opening'
    BY <1>1, <1>4, <1>8, <2>1, <2>3 DEF StreamSent, Opening
  <2>6. asks # 0
    BY <1>8, <2>2 DEF InStep, Unasked, Over
  <2> QED
    BY <1>1, <1>3, <1>4, <2>4, <2>5, <2>6 DEF InStep, Stage, Unasked, PlayMode
<1>9. CASE Sounding
  <2>1. /\ Kind(h) \in {"STMt", "STMf", "STMs", "STMd", "early"}
        /\ Heard(reports', {"STMt", "STMf", "STMs", "STMd", "early"})
    BY <1>5, <1>9 DEF Sounding
  <2>2. Engaged(engine, {"BUFFERING", "PLAYING"}) /\ player.mode = "play"
    BY <1>9, EngagedMode DEF Sounding, Engaged, InStep
  <2>3. Engaged(engine', {"BUFFERING", "PLAYING"}) /\ ends' = ends
    BY <2>1, <2>2, PlayingOn
  <2>4. PlayMode(engine') = "play" /\ player'.mode = "play"
    <3>1. PlayMode(engine') = "play"
      BY <2>3, EngagedMode DEF Engaged
    <3> QED
      BY <2>1, <2>2, <3>1, PlayingOn
  <2>5. Sounding'
    BY <1>1, <1>4, <1>9, <2>1, <2>3 DEF Sounding
  <2>6. asks # 0
    BY <2>2 DEF InStep, Unasked
  <2> QED
    BY <1>1, <1>3, <1>4, <2>4, <2>5, <2>6 DEF InStep, Stage, Unasked, PlayMode
<1>10. CASE Drained
  <2>1. Engaged(engine, {"BUFFERING", "PLAYING"}) /\ player.mode = "play"
    BY <1>10, EngagedMode DEF Drained, Engaged, InStep
  <2>2. asks # 0
    BY <2>1 DEF InStep, Unasked
  <2>3. CASE Len(reports) # 1
    <3>1. Kind(h) \in {"STMt", "STMf", "STMs", "STMd", "early"}
      BY <1>2, <1>10, <2>3 DEF Drained
    <3>2. Engaged(engine', {"BUFFERING", "PLAYING"}) /\ ends' = ends
      BY <2>1, <3>1, PlayingOn
    <3>3. PlayMode(engine') = "play" /\ player'.mode = "play"
      <4>1. PlayMode(engine') = "play"
        BY <3>2, EngagedMode DEF Engaged
      <4> QED
        BY <2>1, <3>1, <4>1, PlayingOn
    <3>4. /\ reports' # <<>>
          /\ \A i \in 1 .. Len(reports') :
               IF i = Len(reports')
               THEN reports'[i].event = "STMo" /\ reports'[i].empty /\ reports'[i].over = streams
               ELSE Kind(reports'[i]) \in {"STMt", "STMf", "STMs", "STMd", "early"}
      <4>1. reports' # <<>>
        BY <1>2, <2>3
      <4>2. \A i \in 1 .. Len(reports') : i = Len(reports') <=> i + 1 = Len(reports)
        BY <1>2
      <4> QED
        BY <1>2, <1>10, <4>1, <4>2 DEF Drained
    <3>5. Drained'
      BY <1>1, <1>4, <1>10, <3>2, <3>4 DEF Drained
    <3> QED
      BY <1>1, <1>3, <1>4, <2>2, <3>3, <3>5 DEF InStep, Stage, Unasked, PlayMode
  <2>4. CASE Len(reports) = 1
    <3>1. h.event = "STMo" /\ h.empty /\ h.over = streams
      <4>1. 1 \in 1 .. Len(reports) /\ h = reports[1]
        BY <1>2, <2>4
      <4> HIDE DEF h
      <4> QED
        BY <1>10, <2>4, <4>1 DEF Drained
    <3>2. Tell("OutputUnderrun") /\ player'.mode = "play"
      BY <2>1, <3>1, HandleMoves
    <3>3. Engaged(engine', {"BUFFERING"}) /\ PlayMode(engine') = "play"
      <4>1. Engaged(engine', {"BUFFERING"})
        BY <2>1, <3>2, TellLands DEF Lands, Told
      <4> QED
        BY <4>1, EngagedMode DEF Engaged
    <3>4. reports' = <<>>
      BY <1>1, <1>2, <2>4
    <3>5. Done' \/ Over'
      <4>1. CASE UNCHANGED <<ends, player>> /\ ~PlayedOut(player)
        <5>1. player'.dry = "none" /\ ends' = <<>>
          BY <1>10, <4>1 DEF PlayedOut, Drained
        <5>2. Heard(reports', {"STMt", "STMf", "STMn", "early"})
          BY <3>4 DEF Heard
        <5>3. Engaged(engine', {"STOPPED", "BUFFERING"})
          BY <3>3 DEF Engaged
        <5>4. wire' = <<>> /\ ~Loading' /\ device'.phase = "drained"
          BY <1>1, <1>4, <1>10 DEF Drained
        <5> QED
          BY <5>1, <5>2, <5>3, <5>4 DEF Over
      <4>2. CASE /\ player'.dry = "none"
                 /\ \E t : ends' = Append(ends, [track |-> t, of |-> h.over, at |-> streams])
        <5>1. PICK t : ends' = Append(<<>>, [track |-> t, of |-> streams, at |-> streams])
          BY <1>10, <3>1, <4>2 DEF Drained
        <5>2. Len(ends') = 1 /\ ends'[1].of = streams /\ ends'[1].at = streams
          BY <5>1
        <5> QED
          BY <1>1, <1>4, <1>10, <3>3, <3>4, <4>2, <5>2 DEF Done, Drained
      <4> QED
        BY <2>1, <3>1, <4>1, <4>2, HandleMoves
    <3> QED
      BY <1>1, <1>3, <1>4, <2>2, <3>2, <3>3, <3>5 DEF InStep, Stage, Unasked, PlayMode
  <2> QED
    BY <2>3, <2>4
<1>11. CASE Over
  <2>1. /\ Kind(h) \in {"STMt", "STMf", "STMn", "early"}
        /\ Heard(reports', {"STMt", "STMf", "STMn", "early"})
    BY <1>5, <1>11 DEF Over
  <2>2. /\ Engaged(engine', {"STOPPED", "BUFFERING"}) /\ player'.mode = PlayMode(engine')
        /\ player'.dry = player.dry /\ ends' = ends
    <3>1. Engaged(engine, {"STOPPED", "BUFFERING"}) /\ player.mode \in {"stop", "play"}
      BY <1>11, EngagedMode DEF Over, Engaged, InStep
    <3>2. CASE Kind(h) = "STMn"
      <4>1. /\ Tell("StreamingFailed") /\ ends' = ends
            /\ player'.mode = "stop" /\ player'.dry = player.dry
        BY <3>2, HandleMoves DEF Kind
      <4>2. Engine!IsStopped(engine')
        BY <3>1, <4>1, TellLands DEF Lands, Told
      <4> QED
        BY <4>1, <4>2 DEF Engaged, Engine!IsStopped, PlayMode
    <3>3. CASE Kind(h) # "STMn"
      BY <1>6, <2>1, <3>1, <3>3, EngineStays DEF InStep
    <3> QED
      BY <3>2, <3>3
  <2>3. Over'
    BY <1>1, <1>4, <1>11, <2>1, <2>2 DEF Over
  <2>4. Unasked'
    <3>1. ASSUME asks = 0 PROVE Heard(reports', {"STMt"}) /\ player'.mode = "stop"
      BY <1>5, <1>6, <3>1 DEF InStep, Unasked
    <3> QED
      BY <1>1, <2>3, <3>1 DEF InStep, Unasked
  <2> QED
    BY <1>1, <1>3, <1>4, <2>2, <2>3, <2>4 DEF InStep, Stage, PlayMode
<1>12. ~Done
  BY <1>1 DEF Done
<1> QED
  BY <1>7, <1>8, <1>9, <1>10, <1>11, <1>12 DEF InStep, Stage

LEMMA AdvanceInStep ==
    ASSUME Inv, Proper(engine), InStep, Advance
    PROVE  InStep'
<1> DEFINE end == Head(ends)
           p == [Forget(player) EXCEPT !.done = Ended(player, end), !.dry = "none"]
           next == NextSong(p.position)
<1>1. /\ ends \in Seq(Ends) /\ ends # <<>> /\ ends' = Tail(ends) /\ player \in PlayerStates
      /\ advanced \in Nat /\ streams \in Nat /\ requests \in [Slots -> Requests]
      /\ UNCHANGED <<link, reports, device, asks, links, streams, announced>>
  BY DEF Advance, Inv, PlaybackTypeOK
<1>2. Done
  BY <1>1 DEF InStep, Stage, Asked, StreamSent, Opening, Sounding, Drained, Over
<1>3. /\ end.at = streams /\ ends' = <<>> /\ reports' = <<>> /\ asks # 0
  <2>1. end = ends[1] /\ ends' = <<>>
    BY <1>1, <1>2 DEF Done
  <2>2. asks # 0
    BY <1>1, <1>2 DEF Done, Over, InStep, Unasked
  <2> QED
    BY <1>1, <1>2, <2>1, <2>2 DEF Done
<1>4. advanced' \in {advanced, streams}
  BY <1>3 DEF Advance
<1>5. /\ p \in PlayerStates /\ p.sent = None /\ p.running = None /\ p.dry = "none"
      /\ p.claim = None /\ p.mode = "play" /\ p.position \in 1 .. Count
  <2>1. Ended(player, end) \in MaybeTrack
    <3>1. end \in Ends
      BY <1>1
    <3> QED
      BY <1>1, <3>1 DEF Ended, Ends, PlayerStates
  <2>2. /\ Forget(player) \in PlayerStates /\ Forget(player).sent = None
        /\ Forget(player).running = None /\ Forget(player).claim = player.claim
        /\ Forget(player).mode = player.mode
    BY <1>1, ForgetEffect DEF Forget, PlayerStates
  <2>3. player.claim = None
    BY <1>2 DEF Done, Loading, Inv, ClaimHeld
  <2>4. player.mode = "play"
    BY <1>2, EngagedMode DEF Done, Engaged, InStep
  <2> QED
    BY <2>1, <2>2, <2>3, <2>4 DEF PlayerStates
<1>6. /\ ~device'.paused /\ TicksFirst' /\ EarlyFirst' /\ advanced' <= streams'
      /\ Heard(reports', {"STMt"}) /\ Unasked' /\ device'.phase = "drained" /\ ~Loading
  BY <1>1, <1>2, <1>3, <1>4 DEF InStep, TicksFirst, EarlyFirst, Heard, Unasked, Done
<1>7. CASE Handled(player, end)
  <2>1. UNCHANGED <<player, engine, wire, requests>>
    BY <1>7 DEF Advance
  <2>2. Connected' /\ Over'
    BY <1>1, <1>2, <1>3, <1>6, <2>1
       DEF InStep, Connected, Done, Over, Loading, Heard, Engaged
  <2> QED
    BY <1>6, <2>1, <2>2 DEF InStep, Stage, PlayMode
<1>8. CASE ~Handled(player, end) /\ next = 0
  <2>1. StopPlayer(p) /\ requests' = requests
    BY <1>8 DEF Advance
  <2>2. /\ player' = [Forget(p) EXCEPT !.mode = "stop"] /\ wire' = Append(wire, Frame("q"))
        /\ Tell("Stop")
    BY <2>1 DEF StopPlayer, InStep, Connected
  <2>3. player'.mode = "stop" /\ player'.dry = "none"
    <3>1. Forget(p) \in PlayerStates /\ Forget(p).dry = p.dry
      BY <1>5, ForgetEffect DEF Forget, PlayerStates
    <3> QED
      BY <1>5, <2>2, <3>1 DEF PlayerStates
  <2>4. Len(wire') = 1 /\ wire'[1].cmd = "q"
    BY <1>2, <2>2 DEF Done, Frame
  <2>5. Engine!IsStopped(engine')
    BY <2>2, TellLands DEF Lands, Told
  <2>6. Connected' /\ Over'
    BY <1>1, <1>2, <1>3, <1>6, <2>1, <2>3, <2>4, <2>5
       DEF InStep, Connected, Over, Loading, Heard, Engaged, Engine!IsStopped
  <2> QED
    BY <1>6, <2>3, <2>5, <2>6 DEF InStep, Stage, PlayMode
<1>9. CASE ~Handled(player, end) /\ next # 0
  <2>1. next \in 1 .. Count
    BY <1>5, <1>9, NextSongType, CountType
  <2>2. PICK r \in Slots : Start(r, p, next, "end", link)
    BY <1>9 DEF Advance
  <2>3. UNCHANGED <<engine, wire>>
    BY <1>9 DEF Advance
  <2> DEFINE t == TrackAt(next)
             q == Moved(p, next)
             new == [pc |-> "loading", index |-> next, link |-> link, by |-> "end"]
  <2>4. /\ q.sent = None /\ q.running = None /\ q.claim = None /\ q \in PlayerStates
        /\ q.mode = "play" /\ q.dry = "none"
    BY <1>5, <2>1 DEF Moved, PlayerStates
  <2>5. t \in MaybeTrack /\ t # None /\ link = 1
    BY <2>1, TrackAtType DEF InStep, Connected
  <2>6. player' = [q EXCEPT !.claim = t] /\ requests' = [requests EXCEPT ![r] = new]
    BY <2>2, <2>4, <2>5 DEF Start, AlreadyPlaying, InFlight
  <2> HIDE DEF q, t, next
  <2>7. player'.mode = "play" /\ player'.dry = "none"
    BY <2>4, <2>5, <2>6 DEF PlayerStates
  <2>8. requests'[r] = new /\ \A s \in Slots \ {r} : requests'[s] = requests[s]
    BY <1>1, <2>6
  <2>9. Connected' /\ Loading' /\ OneLoads'
    BY <1>1, <1>6, <2>5, <2>8 DEF InStep, Connected, Loading, OneLoads
  <2>10. PlayMode(engine') = "play" /\ Engaged(engine', {"STOPPED", "BUFFERING"})
    BY <1>2, <2>3, EngagedMode DEF Done, Engaged
  <2>11. Asked'
    BY <1>1, <1>2, <1>3, <1>6, <2>3, <2>7, <2>9, <2>10 DEF Asked, Done
  <2> QED
    BY <1>6, <2>7, <2>9, <2>10, <2>11 DEF InStep, Stage, PlayMode
<1> QED
  BY <1>7, <1>8, <1>9

\* What the player says of the stream it plays is added to what is under way.
LEMMA SaysInStep ==
    ASSUME Inv, InStep, PlayerActs, device' \in Devices,
           NEW e \in {"STMt", "STMd", "STMs", "STMf", "STMp", "STMr", "STMn", "STMo"},
           NEW moving \in BOOLEAN, Says(e, moving),
           e = "STMt" => reports = <<>> /\ (device'.phase = "running" \/ player.dry = "none"),
           e = "STMo" => \/ device'.phase = "drained" /\ device.stream # 0
                         \/ /\ ~player.started /\ player.dry = "none"
                            /\ Heard(reports, {"STMt", "STMf", "early"})
    PROVE  /\ \E r \in Reports :
                /\ reports' = Append(reports, r) /\ r.event = e
                /\ e # "STMo" => Kind(r) = e
                /\ r.empty = (device'.phase # "running")
                /\ r.over = IF device'.phase = "drained" THEN device.stream ELSE 0
           /\ TicksFirst' /\ EarlyFirst' /\ Connected' /\ Loading' = Loading
           /\ OneLoads => OneLoads'
           /\ UNCHANGED <<player, engine, ends, asks, streams, advanced>>
           /\ ends = <<>> /\ PlayMode(engine') = PlayMode(engine)
<1> DEFINE r == [event |-> e, empty |-> device'.phase # "running", moving |-> moving,
                 over |-> IF device'.phase = "drained" THEN device.stream ELSE 0]
<1>1. /\ reports' = Append(reports, r) /\ reports \in Seq(Reports) /\ player \in PlayerStates
  BY DEF Says, InStep, Connected, Inv, PlaybackTypeOK
<1>2. r \in Reports
  BY DEF Reports, Inv, PlaybackTypeOK, Devices
<1>3. /\ \A i \in 1 .. Len(reports') :
           (i = Len(reports) + 1 /\ reports'[i] = r) \/ (i \in 1 .. Len(reports) /\ reports'[i] = reports[i])
      /\ r.event = e /\ r.empty = (device'.phase # "running")
  BY <1>1, <1>2
<1>4. player' = player
  BY DEF PlayerActs
<1>8. /\ e # "STMo" => Kind(r) = e
      /\ Kind(r) = "early" => e = "STMo" /\ (device'.phase = "drained" => device.stream = 0)
  BY DEF Kind
<1> HIDE DEF r
<1>9. EarlyFirst'
  <2> SUFFICES ASSUME NEW i \in 1 .. Len(reports'), Kind(reports'[i]) = "early"
               PROVE  /\ ~player.started /\ player.dry = "none"
                      /\ \A j \in 1 .. i - 1 : reports'[j].event \notin {"STMs", "STMd"}
    BY <1>4 DEF EarlyFirst
  <2>1. \A j \in 1 .. i - 1 : j \in 1 .. Len(reports) /\ reports'[j] = reports[j]
    BY <1>1
  <2>2. CASE i = Len(reports) + 1 /\ reports'[i] = r
    <3>1. /\ ~player.started /\ player.dry = "none"
          /\ Heard(reports, {"STMt", "STMf", "early"})
      BY <1>8, <2>2
    <3> QED
      BY <2>1, <3>1 DEF Heard, Kind
  <2>3. CASE i \in 1 .. Len(reports) /\ reports'[i] = reports[i]
    <3>1. /\ ~player.started /\ player.dry = "none"
          /\ \A j \in 1 .. i - 1 : reports[j].event \notin {"STMs", "STMd"}
      BY <2>3 DEF InStep, EarlyFirst
    <3> QED
      BY <2>1, <3>1
  <2> QED
    BY <1>3, <2>2, <2>3
<1>5. TicksFirst'
  <2> SUFFICES ASSUME NEW i \in 1 .. Len(reports'), reports'[i].event = "STMt"
               PROVE  i = 1 /\ (reports'[i].empty => player.dry = "none")
    BY <1>4 DEF TicksFirst
  <2>1. CASE i = Len(reports) + 1 /\ reports'[i] = r
    <3>1. e = "STMt" /\ (reports'[i].empty <=> device'.phase # "running")
      BY <1>3, <2>1
    <3>2. reports = <<>> /\ (device'.phase = "running" \/ player.dry = "none")
      BY <3>1
    <3>3. Len(reports) = 0
      BY <3>2
    <3> QED
      BY <2>1, <3>1, <3>2, <3>3
  <2>2. CASE i \in 1 .. Len(reports) /\ reports'[i] = reports[i]
    BY <2>2 DEF InStep, TicksFirst
  <2> QED
    BY <1>3, <2>1, <2>2
<1>6. /\ Connected' /\ Loading' = Loading /\ (OneLoads => OneLoads') /\ ends = <<>>
      /\ PlayMode(engine') = PlayMode(engine)
      /\ UNCHANGED <<player, engine, ends, asks, streams, advanced>>
  BY DEF PlayerActs, InStep, Connected, Loading, OneLoads, PlayMode
<1>7. /\ reports' = Append(reports, r) /\ r.event = e /\ r.empty = (device'.phase # "running")
      /\ r.over = IF device'.phase = "drained" THEN device.stream ELSE 0
  BY <1>1 DEF r
<1> QED
  BY <1>2, <1>5, <1>6, <1>7, <1>8, <1>9

LEMMA ObeyInStep ==
    ASSUME Inv, InStep, Obey
    PROVE  InStep'
<1> DEFINE f == Head(wire)
<1>1. /\ wire \in Seq(Frames) /\ wire # <<>> /\ wire' = Tail(wire) /\ PlayerActs
      /\ reports \in Seq(Reports) /\ f = wire[1] /\ f \in Frames
  BY DEF Inv, PlaybackTypeOK, Obey
<1>2. StreamSent \/ (Over /\ asks # 0)
  BY <1>1 DEF InStep, Stage, Asked, Opening, Sounding, Drained, Done, Unasked
<1>3. asks # 0
  BY <1>1, <1>2 DEF InStep, Unasked
<1>4. /\ f.cmd \in {"s", "q"}
      /\ f.cmd = "s" => StreamSent /\ Len(wire) = 1 /\ f.stream = streams
      /\ f.cmd = "q" => (StreamSent /\ Len(wire) = 2) \/ (Over /\ Len(wire) = 1)
  BY <1>1, <1>2 DEF StreamSent, Over
<1>5. \/ f.cmd = "s" /\ device' = [Silent EXCEPT !.phase = "opening", !.stream = f.stream]
      \/ f.cmd = "q" /\ device' = Silent
  BY <1>4 DEF Obey
<1>6. Says("STMf", FALSE)
  BY <1>4 DEF Obey
<1>7. device' \in Devices /\ ~device'.paused
  <2>1. f.stream \in Nat
    BY <1>1 DEF Frames
  <2> QED
    BY <1>5, <2>1, SilentType DEF Silent, Devices
<1>8. /\ TicksFirst' /\ EarlyFirst' /\ Connected' /\ Loading' = Loading
      /\ UNCHANGED <<player, engine, ends, asks, streams, advanced>>
      /\ ends = <<>> /\ PlayMode(engine') = PlayMode(engine)
      /\ \E r \in Reports : reports' = Append(reports, r) /\ Kind(r) = "STMf"
  BY <1>1, <1>6, <1>7, SaysInStep
<1>9. CASE f.cmd = "s"
  <2>0. device' = [Silent EXCEPT !.phase = "opening", !.stream = f.stream] /\ f.stream = streams
    BY <1>4, <1>5, <1>9
  <2>1. wire' = <<>> /\ device'.phase = "opening" /\ device'.stream = streams
    <3>1. wire' = <<>>
      BY <1>1, <1>4, <1>9
    <3>2. device'.phase = "opening" /\ device'.stream = f.stream
      BY <2>0 DEF Silent
    <3> QED
      BY <2>0, <3>1, <3>2
  <2>2. Heard(reports', {"STMt", "STMf", "early"})
    <3>1. Heard(reports', {"STMt", "STMf"})
      BY <1>1, <1>4, <1>8, <1>9, HeardAppend DEF StreamSent
    <3> QED
      BY <3>1, HeardMore
  <2>3. Opening'
    BY <1>4, <1>8, <1>9, <2>1, <2>2 DEF Opening, StreamSent
  <2> QED
    BY <1>3, <1>7, <1>8, <2>3 DEF InStep, Stage, Unasked
<1>10. CASE StreamSent /\ Len(wire) = 2 /\ f.cmd = "q"
  <2>1. Len(wire') = 1 /\ wire'[1] = wire[2] /\ device'.phase = "idle"
    <3>1. Len(wire') = 1 /\ wire'[1] = wire[2]
      <4> DEFINE w == Tail(wire)
      <4>1. Len(w) = Len(wire) - 1 /\ \A i \in 1 .. Len(w) : w[i] = wire[i + 1]
        BY <1>1
      <4> HIDE DEF w
      <4>2. Len(w) = 1 /\ w[1] = wire[2]
        BY <1>10, <4>1
      <4> QED
        BY <1>1, <4>2 DEF w
    <3>2. device' = Silent
      BY <1>5, <1>10
    <3> QED
      BY <3>1, <3>2 DEF Silent
  <2>2. wire'[Len(wire')].cmd = "s" /\ wire'[Len(wire')].stream = streams
    BY <1>10, <2>1 DEF StreamSent
  <2>3. Heard(reports', {"STMt", "STMf"})
    BY <1>1, <1>8, <1>10, HeardAppend DEF StreamSent
  <2>4. StreamSent'
    BY <1>8, <1>10, <2>1, <2>2, <2>3 DEF StreamSent
  <2> QED
    BY <1>3, <1>7, <1>8, <2>4 DEF InStep, Stage, Unasked
<1>11. CASE Over /\ Len(wire) = 1 /\ f.cmd = "q"
  <2>1. wire' = <<>> /\ device'.phase = "idle"
    BY <1>1, <1>5, <1>11 DEF Silent
  <2>2. Heard(reports', {"STMt", "STMf", "STMn", "early"})
    BY <1>1, <1>8, <1>11, HeardAppend DEF Over
  <2>3. Over'
    BY <1>8, <1>11, <2>1, <2>2 DEF Over
  <2> QED
    BY <1>3, <1>7, <1>8, <2>3 DEF InStep, Stage, Unasked
<1> QED
  BY <1>4, <1>9, <1>10, <1>11

LEMMA FetchInStep ==
    ASSUME Inv, InStep, Fetch
    PROVE  InStep'
<1>1. /\ device.phase = "opening" /\ PlayerActs /\ UNCHANGED <<wire, reports>>
      /\ device'.phase = "filling" /\ device'.paused = device.paused
      /\ device'.stream = device.stream
  BY DEF Fetch, Inv, PlaybackTypeOK, Devices
<1>2. Opening
  BY <1>1 DEF InStep, Stage, Asked, StreamSent, Sounding, Drained, Done, Over
<1>3. Opening' /\ Connected' /\ TicksFirst' /\ EarlyFirst'
  BY <1>1, <1>2 DEF PlayerActs, Opening, Loading, Heard, Kind, InStep, Connected, TicksFirst,
                    EarlyFirst
<1>4. asks # 0
  BY <1>1 DEF InStep, Unasked, Over
<1> QED
  BY <1>1, <1>3, <1>4 DEF PlayerActs, InStep, Stage, Unasked, PlayMode

LEMMA DeviceInStep ==
    ASSUME ~LateDecode, Inv, InStep, Starve \/ Begin \/ Decoded \/ Drain \/ Broken \/ Tick
    PROVE  InStep'
<1>1. /\ reports \in Seq(Reports) /\ device \in Devices /\ PlayerActs /\ wire' = wire
      /\ ~device.paused
  BY DEF Inv, PlaybackTypeOK, Starve, Begin, Decoded, Drain, Broken, Tick, InStep
<1>2. asks = 0 => Over /\ Heard(reports, {"STMt"}) /\ player.mode = "stop" /\ wire = <<>>
  BY DEF InStep, Unasked
<1>3. CASE Begin
  <2>1. /\ device' \in Devices /\ device'.phase = "running" /\ device'.stream = device.stream
        /\ ~device'.paused /\ Says("STMs", FALSE) /\ device.phase = "filling"
    BY <1>1, <1>3 DEF Begin, Devices
  <2>2. Opening
    BY <2>1 DEF InStep, Stage, Asked, StreamSent, Sounding, Drained, Done, Over
  <2>3. /\ TicksFirst' /\ EarlyFirst' /\ Connected' /\ Loading' = Loading
        /\ PlayMode(engine') = PlayMode(engine)
        /\ UNCHANGED <<player, engine, ends, asks, streams, advanced>>
        /\ \E r \in Reports : reports' = Append(reports, r) /\ Kind(r) = "STMs"
    BY <1>1, <2>1, SaysInStep
  <2>4. Heard(reports', {"STMt", "STMf", "STMs", "STMd", "early"})
    <3>1. Heard(reports, {"STMt", "STMf", "STMs", "STMd", "early"})
      BY <2>2, HeardMore DEF Opening
    <3> QED
      BY <1>1, <2>3, <3>1, HeardAppend
  <2>5. Sounding' /\ asks # 0
    BY <1>1, <1>2, <2>1, <2>2, <2>3, <2>4 DEF Sounding, Opening, Engaged, Over
  <2> QED
    BY <2>1, <2>3, <2>5 DEF InStep, Stage, Unasked
<1>4. CASE Decoded
  <2>1. /\ device' \in Devices /\ device'.phase = device.phase /\ device'.stream = device.stream
        /\ ~device'.paused /\ Says("STMd", FALSE) /\ device.phase = "running"
    BY <1>1, <1>4 DEF Decoded, Devices
  <2>2. Sounding
    BY <2>1 DEF InStep, Stage, Asked, StreamSent, Opening, Drained, Done, Over
  <2>3. /\ TicksFirst' /\ EarlyFirst' /\ Connected' /\ Loading' = Loading
        /\ PlayMode(engine') = PlayMode(engine)
        /\ UNCHANGED <<player, engine, ends, asks, streams, advanced>>
        /\ \E r \in Reports : reports' = Append(reports, r) /\ Kind(r) = "STMd"
    BY <1>1, <2>1, SaysInStep
  <2>4. Heard(reports', {"STMt", "STMf", "STMs", "STMd", "early"})
    BY <1>1, <2>2, <2>3, HeardAppend DEF Sounding
  <2>5. Sounding' /\ asks # 0
    BY <1>1, <1>2, <2>1, <2>2, <2>3, <2>4 DEF Sounding, Over
  <2> QED
    BY <2>1, <2>3, <2>5 DEF InStep, Stage, Unasked
<1>5. CASE Drain
  <2>1. /\ device' \in Devices /\ device'.phase = "drained" /\ device'.stream = device.stream
        /\ ~device'.paused /\ Says("STMo", FALSE) /\ device.phase = "running"
    BY <1>1, <1>5 DEF Drain, Devices
  <2>2. Sounding
    BY <2>1 DEF InStep, Stage, Asked, StreamSent, Opening, Drained, Done, Over
  <2>9. device.stream # 0
    BY <2>2 DEF Sounding, Inv, PlaybackTypeOK
  <2>3. /\ TicksFirst' /\ EarlyFirst' /\ Connected' /\ Loading' = Loading
        /\ PlayMode(engine') = PlayMode(engine)
        /\ UNCHANGED <<player, engine, ends, asks, streams, advanced>>
    BY <1>1, <2>1, <2>9, SaysInStep
  <2>4. PICK r \in Reports : /\ reports' = Append(reports, r) /\ r.event = "STMo"
                             /\ r.empty <=> device'.phase # "running"
                             /\ r.over = IF device'.phase = "drained" THEN device.stream ELSE 0
    BY <1>1, <2>1, <2>9, SaysInStep
  <2>5. r.empty /\ r.over = streams
    BY <2>1, <2>2, <2>4 DEF Sounding
  <2>6. /\ reports' # <<>> /\ Len(reports') = Len(reports) + 1
        /\ \A i \in 1 .. Len(reports') :
             IF i = Len(reports') THEN reports'[i] = r
             ELSE i \in 1 .. Len(reports) /\ reports'[i] = reports[i]
    BY <1>1, <2>4
  <2>7. /\ reports' # <<>>
        /\ \A i \in 1 .. Len(reports') :
             IF i = Len(reports')
             THEN reports'[i].event = "STMo" /\ reports'[i].empty /\ reports'[i].over = streams
             ELSE Kind(reports'[i]) \in {"STMt", "STMf", "STMs", "STMd", "early"}
    BY <2>2, <2>4, <2>5, <2>6 DEF Sounding, Heard
  <2>8. Drained' /\ asks # 0
    BY <1>1, <1>2, <2>1, <2>2, <2>3, <2>7 DEF Sounding, Drained, Over
  <2> QED
    BY <2>1, <2>3, <2>8 DEF InStep, Stage, Unasked
<1>6. CASE Broken
  <2>1. device' = Silent /\ Says("STMn", FALSE) /\ device.phase = "filling"
    BY <1>6 DEF Broken
  <2>2. Opening /\ device' \in Devices /\ ~device'.paused /\ device'.phase = "idle"
    <3>1. device' \in Devices /\ ~device'.paused /\ device'.phase = "idle"
      BY <2>1, SilentType DEF Silent
    <3>2. Opening
      BY <2>1 DEF InStep, Stage, Asked, StreamSent, Sounding, Drained, Done, Over
    <3> QED
      BY <3>1, <3>2
  <2>3. /\ TicksFirst' /\ EarlyFirst' /\ Connected' /\ Loading' = Loading
        /\ PlayMode(engine') = PlayMode(engine)
        /\ UNCHANGED <<player, engine, ends, asks, streams, advanced>>
        /\ \E r \in Reports : reports' = Append(reports, r) /\ Kind(r) = "STMn"
    BY <1>1, <2>1, <2>2, SaysInStep
  <2>4. Heard(reports', {"STMt", "STMf", "STMn", "early"})
    <3>1. Heard(reports, {"STMt", "STMf", "STMn", "early"})
      BY <2>2, HeardMore DEF Opening
    <3> QED
      BY <1>1, <2>3, <3>1, HeardAppend
  <2>5. Over' /\ asks # 0
    BY <1>1, <1>2, <2>1, <2>2, <2>3, <2>4 DEF Over, Opening, Engaged
  <2> QED
    BY <2>2, <2>3, <2>5 DEF InStep, Stage, Unasked
<1>7. CASE Tick
  <2>1. PICK moving \in {FALSE, device.phase = "running" /\ ~device.paused} : Says("STMt", moving)
    BY <1>7 DEF Tick
  <2>2. /\ device' = device /\ moving \in BOOLEAN /\ reports = <<>>
    BY <1>7 DEF Tick
  <2>3. ends = <<>> /\ ~Drained /\ ~Done /\ (Sounding \/ player.dry = "none")
    BY <1>1, <2>2 DEF PlayerActs, InStep, Stage, Asked, StreamSent, Opening, Drained, Done, Over
  <2>4. device'.phase = "running" \/ player.dry = "none"
    BY <2>2, <2>3 DEF Sounding
  <2>5. /\ TicksFirst' /\ EarlyFirst' /\ Connected' /\ Loading' = Loading
        /\ OneLoads => OneLoads'
        /\ PlayMode(engine') = PlayMode(engine)
        /\ UNCHANGED <<player, engine, ends, asks, streams, advanced>>
        /\ \E r \in Reports : reports' = Append(reports, r) /\ Kind(r) = "STMt"
    BY <1>1, <2>1, <2>2, <2>4, SaysInStep
  <2>6. \A S : Heard(reports, S) /\ "STMt" \in S => Heard(reports', S)
    BY <1>1, <2>5, HeardAppend
  <2>7. Stage'
    <3>1. Asked => Asked'
      BY <1>1, <2>2, <2>5, <2>6 DEF Asked
    <3>2. StreamSent => StreamSent'
      BY <1>1, <2>2, <2>5, <2>6 DEF StreamSent
    <3>3. Opening => Opening'
      BY <1>1, <2>2, <2>5, <2>6 DEF Opening
    <3>4. Sounding => Sounding'
      BY <1>1, <2>2, <2>5, <2>6 DEF Sounding
    <3>5. Over => Over'
      BY <1>1, <2>2, <2>5, <2>6 DEF Over
    <3> QED
      BY <2>3, <3>1, <3>2, <3>3, <3>4, <3>5 DEF InStep, Stage
  <2>8. Unasked'
    <3>1. Over => Over'
      BY <1>1, <2>2, <2>5, <2>6 DEF Over
    <3> QED
      BY <1>1, <1>2, <2>5, <2>6, <3>1 DEF Unasked
  <2> QED
    BY <1>1, <2>2, <2>5, <2>7, <2>8 DEF InStep
<1>8. CASE Starve
  <2>1. /\ device' = device /\ Says("STMo", FALSE) /\ device.phase \in {"opening", "filling"}
    BY <1>8 DEF Starve
  <2>2. Opening
    BY <2>1 DEF InStep, Stage, Asked, StreamSent, Sounding, Drained, Done, Over
  <2>3. /\ TicksFirst' /\ EarlyFirst' /\ Connected' /\ Loading' = Loading
        /\ PlayMode(engine') = PlayMode(engine)
        /\ UNCHANGED <<player, engine, ends, asks, streams, advanced>>
    BY <1>1, <2>1, <2>2, SaysInStep DEF Opening
  <2>4. PICK r \in Reports : /\ reports' = Append(reports, r) /\ r.event = "STMo"
                             /\ r.over = IF device'.phase = "drained" THEN device.stream ELSE 0
    BY <1>1, <2>1, <2>2, SaysInStep DEF Opening
  <2>5. Heard(reports', {"STMt", "STMf", "early"})
    <3>1. Kind(r) = "early"
      BY <2>1, <2>4 DEF Kind
    <3> QED
      BY <1>1, <2>2, <2>4, <3>1, HeardAppend DEF Opening
  <2>6. Opening' /\ asks # 0
    BY <1>1, <1>2, <2>1, <2>2, <2>3, <2>5 DEF Opening, Over
  <2> QED
    BY <1>1, <2>1, <2>3, <2>6 DEF InStep, Stage, Unasked
<1> QED
  BY <1>3, <1>4, <1>5, <1>6, <1>7, <1>8

LEMMA NextInStep ==
    ASSUME LeftAlone, Inv, Proper(engine), InStep, [Next]_vars
    PROVE  InStep'
<1>1. ~(\E rebooted \in BOOLEAN : Hello(rebooted)) /\ ~Lost
  BY DEF LeftAlone, NeverLost, InStep, Connected, Hello, Lost
<1>2. CASE Command
  <2>1. Play
    BY <1>2 DEF LeftAlone, OnlyPlays, Command, Stop, Pause, Unpause, UserActs
  <2> QED
    BY <2>1, PlayInStep DEF LeftAlone
<1>3. CASE WindowCloses
  <2>1. /\ player'.mode = player.mode /\ player'.dry = player.dry
        /\ player'.started = player.started
    BY <1>3 DEF WindowCloses, Inv, PlaybackTypeOK, PlayerStates
  <2>2. Connected' /\ Loading' = Loading /\ (OneLoads => OneLoads')
    BY <1>3 DEF WindowCloses, Loading, OneLoads, Connected, InStep
  <2> QED
    BY <1>3, <2>1, <2>2, QuietlyInStep DEF WindowCloses
<1>4. CASE UNCHANGED vars
  <2>1. Connected' /\ Loading' = Loading /\ (OneLoads => OneLoads')
    BY <1>4 DEF vars, Loading, OneLoads, Connected, InStep
  <2> QED
    BY <1>4, <2>1, QuietlyInStep DEF vars
<1>5. CASE \E r \in Slots : Send(r) \/ Finish(r)
  BY <1>5, SendInStep, FinishInStep
<1>6. CASE Starve \/ Begin \/ Decoded \/ Drain \/ Broken \/ Tick
  BY <1>6, DeviceInStep DEF LeftAlone
<1> QED
  BY <1>1, <1>2, <1>3, <1>4, <1>5, <1>6, HandleInStep, AdvanceInStep, ObeyInStep, FetchInStep
     DEF Next

LEMMA AlwaysInStep ==
    ASSUME LeftAlone
    PROVE  Spec => [](Inv /\ Proper(engine) /\ InStep)
<1>1. Init => InStep
  <2> SUFFICES ASSUME Init PROVE InStep
    OBVIOUS
  <2>1. Connected /\ ~Loading
    BY DEF Init, Connected, Loading
  <2>2. Engaged(engine, {"STOPPED", "BUFFERING"}) /\ PlayMode(engine) = "stop"
    BY DEF Init, Engaged, Engine!Fresh, PlayMode, Engine!IsStopped
  <2>3. \A S : Heard(reports, S)
    BY DEF Init, Heard
  <2>4. Over
    BY <2>1, <2>2, <2>3 DEF Init, Over, Silent
  <2>5. TicksFirst /\ EarlyFirst
    BY DEF Init, TicksFirst, EarlyFirst
  <2>6. Unasked /\ Stage
    BY <2>3, <2>4 DEF Init, Unasked, Stage
  <2>7. player.mode = PlayMode(engine) /\ ~device.paused /\ advanced <= streams
    <3>1. player.mode = PlayMode(engine)
      BY <2>2 DEF Init
    <3>2. ~device.paused
      BY DEF Init, Silent
    <3>3. advanced <= streams
      BY DEF Init
    <3> QED
      BY <3>1, <3>2, <3>3
  <2> QED
    BY <2>1, <2>5, <2>6, <2>7 DEF InStep
<1>2. Inv /\ Proper(engine) /\ InStep /\ [Next]_vars => InStep'
  BY NextInStep
<1> QED
  BY <1>1, <1>2, Invariance, ProperAlways, PTL DEF Spec

\* The end of a stream is noticed when that stream, and no earlier one, has
\* played out: for every queue, started once and left alone, however late the
\* reports of the player come.
THEOREM EndsNoticed ==
    ASSUME LeftAlone
    PROVE  Spec => []EndsPlayed
<1>1. InStep => EndsPlayed
  <2> SUFFICES ASSUME InStep, ends # <<>> PROVE EndsPlayed
    BY DEF EndsPlayed
  <2>1. Done
    BY DEF InStep, Stage, Asked, StreamSent, Opening, Sounding, Drained, Over
  <2> QED
    BY <2>1 DEF Done, EndsPlayed
<1> QED
  BY <1>1, AlwaysInStep, PTL

\* With nothing on its way the state machine of the player stands for the mode
\* that the status tells, for every queue that is left alone: the server sets
\* the two separately, from the same reports.  (InStep has it at every moment.)
THEOREM EngineStandsForMode ==
    ASSUME LeftAlone
    PROVE  Spec => []EngineAgrees
<1>1. InStep => EngineAgrees
  BY DEF InStep, EngineAgrees
<1> QED
  BY <1>1, AlwaysInStep, PTL

\* However often the end of a stream is reported, by an underrun or by ticks
\* that find the output empty, it moves a queue that is left alone once.
THEOREM AdvancesOnce ==
    ASSUME LeftAlone
    PROVE  Spec => AdvanceOnce
<1> DEFINE Once == ends # <<>> /\ ends' = Tail(ends) /\ ~Handled(player, Head(ends))
                     => Head(ends).at > advanced
<1>1. Inv /\ InStep => Once
  <2> SUFFICES ASSUME Inv, InStep, ends # <<>> PROVE Head(ends).at > advanced
    OBVIOUS
  <2>1. Done
    BY DEF InStep, Stage, Asked, StreamSent, Opening, Sounding, Drained, Over
  <2>2. Head(ends) = ends[1] /\ ends[1].at = streams /\ advanced < streams
    BY <2>1 DEF Done, Inv, PlaybackTypeOK
  <2> QED
    BY <2>2 DEF Inv, PlaybackTypeOK
<1>2. Inv /\ InStep => [Once]_vars
  BY <1>1
<1>3. Spec => [][Once]_vars
  <2> HIDE DEF Once
  <2> QED
    BY <1>2, AlwaysInStep, PTL
<1> QED
  BY <1>3 DEF AdvanceOnce

-----------------------------------------------------------------------------
(* What the status tells.  While the connection stays up, users choose and   *)
(* stop tracks, hasty ones only choose, and a queue repeats or is left alone,*)
(* whatever the player does is on its way to the server as a report, or      *)
(* known to it, or about to be replaced: by a frame under way or by a        *)
(* request that will send one.                                               *)

RepeatOn == Repeat # 0
NoPauses == Commands \subseteq {"play", "stop"}
Patient == Hasty => OnlyPlays
Orderly == NeverLost /\ NoPauses /\ Patient /\ (RepeatOn \/ LeftAlone)

\* Frames start streams or stop them.
OnlyStreams ==
    /\ \A i \in 1 .. Len(wire) : wire[i].cmd \in {"s", "q"}
    /\ \A i \in 1 .. Len(reports) : reports[i].event \notin {"STMp", "STMr"}
    /\ ~device.paused

\* The queue was stopped, and no report under way can make it play again.
Halted ==
    /\ player.mode = "stop" /\ Engine!IsStopped(engine)
    /\ device.phase \notin {"opening", "filling"}
    /\ Heard(reports, {"STMt", "STMd", "STMo", "STMf", "early"})

\* A frame that stops a stream is followed by one that starts the next, unless
\* it stops the queue.
Stopping ==
    wire # <<>> /\ ~Loading =>
        wire[Len(wire)].cmd = "s" \/ (Len(wire) = 1 /\ Halted)

\* The player gave a stream up, and the server knows or will hear of it last.
FailureTold(q, mode) ==
    /\ \A i \in 1 .. Len(q) : q[i].event \in {"STMs", "STMf"} =>
         \E j \in i + 1 .. Len(q) : q[j].event = "STMn"
    /\ mode = "stop" \/ \E j \in 1 .. Len(q) : q[j].event = "STMn"

NoFailure(q, i) == \A j \in i + 1 .. Len(q) : q[j].event \notin {"STMf", "STMn"}
EndTold(q, i) == \E j \in i + 1 .. Len(q) : q[j].event = "STMo" /\ q[j].empty

Known(p) == p.started /\ p.mode = "play" /\ p.done = None

\* The player started the last stream, and the server knows or will hear of it;
\* if it also played the stream out, the server will hear of that afterwards,
\* or is about to advance and has not marked the end as handled.
StartTold(q, phase, p, e) ==
    \/ \E i \in 1 .. Len(q) : /\ q[i].event = "STMs" /\ NoFailure(q, i)
                              /\ phase = "drained" => EndTold(q, i)
    \/ /\ NoFailure(q, 0) /\ Known(p)
       /\ phase = "drained" => EndTold(q, 0) \/ e # <<>>

Settled ==
    wire = <<>> /\ ~Loading =>
      /\ device.phase = "idle" => FailureTold(reports, player.mode) \/ Halted
      /\ device.phase \in {"running", "drained"} =>
           StartTold(reports, device.phase, player, ends)

Truthful == Connected /\ OnlyStreams /\ Stopping /\ Settled

LEMMA AppendTold ==
    ASSUME NEW q \in Seq(Reports), NEW r \in Reports,
           NEW phase, NEW p, NEW e, NEW mode
    PROVE  /\ r.event \notin {"STMs", "STMf"} /\ FailureTold(q, mode)
                => FailureTold(Append(q, r), mode)
           /\ r.event = "STMn" => FailureTold(Append(q, r), mode)
           /\ r.event \notin {"STMf", "STMn"} /\ StartTold(q, phase, p, e)
                => StartTold(Append(q, r), phase, p, e)
           /\ r.event = "STMo" /\ r.empty /\ StartTold(q, "running", p, e)
                => StartTold(Append(q, r), "drained", p, e)
           /\ r.event = "STMs" => StartTold(Append(q, r), "running", p, e)
<1> DEFINE w == Append(q, r)
<1>1. /\ Len(w) = Len(q) + 1 /\ w[Len(w)] = r /\ Len(q) \in Nat
      /\ \A i \in 1 .. Len(q) : w[i] = q[i]
  OBVIOUS
<1> HIDE DEF w
<1>2. ASSUME r.event \notin {"STMs", "STMf"}, FailureTold(q, mode) PROVE FailureTold(w, mode)
  <2>1. \A i \in 1 .. Len(w) : w[i].event \in {"STMs", "STMf"} =>
          \E j \in i + 1 .. Len(w) : w[j].event = "STMn"
    BY <1>1, <1>2 DEF FailureTold
  <2>2. mode = "stop" \/ \E j \in 1 .. Len(w) : w[j].event = "STMn"
    BY <1>1, <1>2 DEF FailureTold
  <2> QED
    BY <2>1, <2>2 DEF FailureTold
<1>3. ASSUME r.event = "STMn" PROVE FailureTold(w, mode)
  BY <1>1, <1>3 DEF FailureTold
<1>4. \A i \in 0 .. Len(q) : r.event \notin {"STMf", "STMn"} /\ NoFailure(q, i) => NoFailure(w, i)
  BY <1>1 DEF NoFailure
<1>5. \A i \in 0 .. Len(q) : EndTold(q, i) => EndTold(w, i)
  BY <1>1 DEF EndTold
<1>6. \A i \in 0 .. Len(q) : r.event = "STMo" /\ r.empty => EndTold(w, i)
  BY <1>1 DEF EndTold
<1>7. ASSUME r.event \notin {"STMf", "STMn"}, StartTold(q, phase, p, e)
      PROVE  StartTold(w, phase, p, e)
  BY <1>1, <1>4, <1>5, <1>7 DEF StartTold
<1>8. ASSUME r.event = "STMo", r.empty, StartTold(q, "running", p, e)
      PROVE  StartTold(w, "drained", p, e)
  BY <1>1, <1>4, <1>6, <1>8 DEF StartTold
<1>9. ASSUME r.event = "STMs" PROVE StartTold(w, "running", p, e)
  BY <1>1, <1>9 DEF StartTold, NoFailure
<1> QED
  BY <1>2, <1>3, <1>7, <1>8, <1>9 DEF w

\* A report that is handled is off the queue.
LEMMA FailureHandled ==
    ASSUME NEW q \in Seq(Reports), q # <<>>, NEW mode, NEW mode2, FailureTold(q, mode),
           Head(q).event \notin {"STMs", "STMf"} => mode2 \in {mode, "stop"},
           Head(q).event = "STMn" => mode2 = "stop"
    PROVE  FailureTold(Tail(q), mode2)
<1> DEFINE w == Tail(q)
<1>1. /\ Len(q) = Len(w) + 1 /\ Len(w) \in Nat /\ Head(q) = q[1]
      /\ \A i \in 1 .. Len(w) : w[i] = q[i + 1]
  OBVIOUS
<1> HIDE DEF w
<1>2. ASSUME NEW i \in 1 .. Len(w), w[i].event \in {"STMs", "STMf"}
      PROVE  \E j \in i + 1 .. Len(w) : w[j].event = "STMn"
  <2>1. PICK j \in i + 2 .. Len(q) : q[j].event = "STMn"
    BY <1>1, <1>2 DEF FailureTold
  <2>2. j - 1 \in i + 1 .. Len(w) /\ w[j - 1] = q[j]
    BY <1>1, <2>1
  <2> QED
    BY <2>1, <2>2
<1>3. mode2 = "stop" \/ \E j \in 1 .. Len(w) : w[j].event = "STMn"
  <2>1. CASE mode2 # "stop"
    <3>1. \E j \in 2 .. Len(q) : q[j].event = "STMn"
      BY <1>1, <2>1 DEF FailureTold
    <3>2. PICK j \in 2 .. Len(q) : q[j].event = "STMn"
      BY <3>1
    <3>3. j - 1 \in 1 .. Len(w) /\ w[j - 1] = q[j]
      BY <1>1
    <3> QED
      BY <3>2, <3>3
  <2> QED
    BY <2>1
<1> QED
  BY <1>2, <1>3 DEF FailureTold, w

LEMMA StartHandled ==
    ASSUME NEW q \in Seq(Reports), q # <<>>, NEW phase, NEW p, NEW p2, NEW e, NEW e2,
           StartTold(q, phase, p, e),
           Head(q).event = "STMs" => Known(p2),
           Head(q).event \notin {"STMf", "STMn"} /\ Known(p) => Known(p2),
           Head(q).event = "STMo" /\ Head(q).empty /\ Known(p) => e2 # <<>>,
           e # <<>> => e2 # <<>>
    PROVE  StartTold(Tail(q), phase, p2, e2)
<1> DEFINE w == Tail(q)
<1>1. /\ Len(q) = Len(w) + 1 /\ Len(w) \in Nat /\ Head(q) = q[1]
      /\ \A i \in 1 .. Len(w) : w[i] = q[i + 1]
  OBVIOUS
<1> HIDE DEF w
<1>2. \A i \in 1 .. Len(q) : NoFailure(q, i) => NoFailure(w, i - 1)
  BY <1>1 DEF NoFailure
<1>3. ASSUME NEW i \in 1 .. Len(q), EndTold(q, i) PROVE EndTold(w, i - 1)
  <2>1. PICK j \in i + 1 .. Len(q) : q[j].event = "STMo" /\ q[j].empty
    BY <1>3 DEF EndTold
  <2>2. j - 1 \in i - 1 + 1 .. Len(w) /\ w[j - 1] = q[j]
    BY <1>1, <2>1
  <2> QED
    BY <2>1, <2>2 DEF EndTold
<1>4. ASSUME NEW i \in 1 .. Len(q), q[i].event = "STMs", NoFailure(q, i),
             phase = "drained" => EndTold(q, i)
      PROVE  StartTold(w, phase, p2, e2)
  <2>1. NoFailure(w, i - 1) /\ (phase = "drained" => EndTold(w, i - 1))
    BY <1>2, <1>3, <1>4
  <2>2. CASE i = 1
    BY <1>1, <1>4, <2>1, <2>2 DEF StartTold
  <2>3. CASE i # 1
    <3>1. i - 1 \in 1 .. Len(w) /\ w[i - 1] = q[i]
      BY <1>1, <2>3
    <3> QED
      BY <1>4, <2>1, <3>1 DEF StartTold
  <2> QED
    BY <2>2, <2>3
<1>5. ASSUME NoFailure(q, 0), Known(p), phase = "drained" => EndTold(q, 0) \/ e # <<>>
      PROVE  StartTold(w, phase, p2, e2)
  <2>1. Head(q).event \notin {"STMf", "STMn"} /\ NoFailure(q, 1)
    BY <1>1, <1>5 DEF NoFailure
  <2>2. Known(p2) /\ NoFailure(w, 0)
    BY <1>1, <1>2, <1>5, <2>1
  <2>3. EndTold(q, 0) => EndTold(q, 1) \/ (Head(q).event = "STMo" /\ Head(q).empty)
    BY <1>1 DEF EndTold
  <2>4. phase = "drained" => EndTold(w, 0) \/ e2 # <<>>
    BY <1>1, <1>3, <1>5, <2>3
  <2> QED
    BY <2>2, <2>4 DEF StartTold
<1> QED
  BY <1>4, <1>5 DEF StartTold, w

\* A step of the server that hears nothing, sends nothing and starts no request.
LEMMA QuietlyTruthful ==
    ASSUME Truthful, Loading => Loading',
           UNCHANGED <<link, links, wire, reports, device, ends, engine>>,
           \A r \in Slots : requests'[r].pc # "idle" =>
               requests[r].pc # "idle" /\ requests'[r].link = requests[r].link,
           player'.mode = player.mode, Known(player) => Known(player')
    PROVE  Truthful'
<1>1. Connected' /\ OnlyStreams'
  BY DEF Truthful, Connected, OnlyStreams
<1>2. Halted => Halted'
  BY DEF Halted, Heard, Engine!IsStopped
<1>3. Settled'
  BY <1>2 DEF Truthful, Settled, StartTold, FailureTold
<1>4. Stopping'
  BY <1>2 DEF Truthful, Stopping
<1> QED
  BY <1>1, <1>3, <1>4 DEF Truthful

\* A request that starts will send a stream, or the track plays already.
LEMMA StartTruthful ==
    ASSUME Inv, Truthful, NEW r \in Slots, NEW p \in PlayerStates,
           NEW i \in 1 .. Count, NEW by \in {"user", "end", "reboot", "rejoin"},
           Start(r, p, i, by, link), p.claim = player.claim,
           UNCHANGED <<link, links, wire, reports, device>>
    PROVE  /\ Connected' /\ OnlyStreams'
           /\ \/ Loading'
              \/ /\ p.sent # None \/ p.running # None
                 /\ p.mode = "play" /\ player'.mode = "play"
                 /\ player'.started = p.started /\ player'.done = p.done
           /\ Loading => Loading'
<1> DEFINE t == TrackAt(i)
           q == Moved(p, i)
           request(pc) == [pc |-> pc, index |-> i, link |-> link, by |-> by]
<1>1. /\ q \in PlayerStates /\ q.claim = p.claim /\ q.mode = p.mode /\ q.sent = p.sent
      /\ q.running = p.running /\ q.started = p.started /\ q.done = p.done
  BY DEF Moved, PlayerStates
<1>2. link = 1 /\ requests[r].pc = "idle" /\ requests \in [Slots -> Requests]
  BY DEF Start, Truthful, Connected, Inv, PlaybackTypeOK
<1>3. t # None
  BY TrackAtType
<1>4. \/ /\ AlreadyPlaying(q, t) \/ InFlight(q, t)
         /\ player' = [q EXCEPT !.mode = "play", !.current = t]
         /\ requests' = [requests EXCEPT ![r] = request("finishing")]
      \/ requests' = [requests EXCEPT ![r] = request("loading")]
  BY <1>2 DEF Start
<1> HIDE DEF q, t
<1>5. \A s \in Slots : s # r => requests'[s] = requests[s]
  BY <1>2, <1>4
<1>6. requests'[r] \in {request("finishing"), request("loading")}
  BY <1>2, <1>4
<1>7. Connected' /\ OnlyStreams'
  <2>1. Connected'
    BY <1>2, <1>5, <1>6 DEF Truthful, Connected
  <2>2. OnlyStreams'
    BY DEF Truthful, OnlyStreams
  <2> QED
    BY <2>1, <2>2
<1>8. Loading => Loading'
  BY <1>2, <1>5 DEF Loading
<1>9. CASE requests' = [requests EXCEPT ![r] = request("loading")]
  <2>1. Loading'
    BY <1>2, <1>9 DEF Loading
  <2> QED
    BY <1>7, <1>8, <2>1
<1>10. CASE /\ AlreadyPlaying(q, t) \/ InFlight(q, t)
            /\ player' = [q EXCEPT !.mode = "play", !.current = t]
  <2>1. CASE InFlight(q, t)
    <3>1. Loading
      BY <1>1, <1>3, <2>1 DEF InFlight, Inv, ClaimHeld, Loading
    <3> QED
      BY <1>7, <1>8, <3>1
  <2>2. CASE AlreadyPlaying(q, t)
    BY <1>1, <1>3, <1>7, <1>8, <1>10, <2>2 DEF AlreadyPlaying, PlayerStates
  <2> QED
    BY <1>10, <2>1, <2>2
<1> QED
  BY <1>4, <1>9, <1>10

LEMMA PlayTruthful ==
    ASSUME Inv, Truthful, Play
    PROVE  Truthful'
<1>1. /\ player \in PlayerStates /\ UNCHANGED <<link, links, wire, reports, device, ends>>
  BY DEF Play, UserActs, Inv, PlaybackTypeOK
<1>2. PICK i \in 1 .. Count, r \in Slots : Start(r, player, i, "user", link)
  BY DEF Play
<1>3. /\ Connected' /\ OnlyStreams' /\ (Loading => Loading')
      /\ \/ Loading'
         \/ /\ player.mode = "play" /\ player'.mode = "play"
            /\ player'.started = player.started /\ player'.done = player.done
  BY <1>1, <1>2, StartTruthful
<1>4. Settled'
  BY <1>1, <1>3 DEF Truthful, Settled, StartTold, FailureTold, Known, Halted
<1>5. Stopping'
  BY <1>1, <1>3 DEF Truthful, Stopping, Halted
<1> QED
  BY <1>3, <1>4, <1>5 DEF Truthful

\* A user stops a queue when nothing is under way.
LEMMA StopTruthful ==
    ASSUME Patient, Inv, Proper(engine), Truthful, Stop
    PROVE  Truthful'
<1>1. /\ Quiet /\ UNCHANGED <<requests, link, links, reports, device, ends>>
      /\ player \in PlayerStates
  BY DEF Stop, UserActs, Patient, OnlyPlays, Inv, PlaybackTypeOK
<1>2. /\ player' = [Forget(player) EXCEPT !.mode = "stop"] /\ wire' = Append(wire, Frame("q"))
      /\ Tell("Stop")
  BY DEF Stop, StopPlayer, Truthful, Connected
<1>3. player'.mode = "stop"
  BY <1>1, <1>2, ForgetEffect DEF PlayerStates
<1>4. Engine!IsStopped(engine')
  BY <1>2, TellLands DEF Lands, Told
<1>5. Len(wire') = 1 /\ wire' # <<>> /\ wire'[1].cmd = "q"
  <2>1. wire = <<>>
    BY <1>1 DEF Quiet
  <2> QED
    BY <1>2, <2>1 DEF Frame
<1>6. Halted'
  BY <1>1, <1>3, <1>4 DEF Halted, Quiet, Heard, Engine!IsStopped
<1>7. Connected' /\ OnlyStreams'
  BY <1>1, <1>5 DEF Truthful, Connected, OnlyStreams
<1> QED
  BY <1>5, <1>6, <1>7 DEF Truthful, Stopping, Settled

LEMMA SendTruthful ==
    ASSUME Inv, Truthful, NEW r \in Slots, Send(r)
    PROVE  Truthful'
<1> DEFINE stop == IF Switching(player) /\ link # 0 THEN <<Frame("q")>> ELSE <<>>
           new == [cmd |-> "s", stream |-> streams + 1]
<1>1. /\ requests \in [Slots -> Requests] /\ wire \in Seq(Frames)
      /\ streams \in Nat /\ requests[r].link = link
  BY DEF Inv, PlaybackTypeOK, Send, Truthful, Connected
<1>2. /\ requests' = [requests EXCEPT ![r].pc = "finishing"]
      /\ wire' = wire \o stop \o <<new>>
      /\ UNCHANGED <<device, reports, link, links>>
  BY <1>1 DEF Send
<1>3. Connected'
  <2>1. \A q \in Slots : /\ requests'[q].link = requests[q].link
                         /\ (requests'[q].pc # "idle" => requests[q].pc # "idle")
    BY <1>1, <1>2 DEF Send, Requests
  <2> QED
    BY <1>2, <2>1 DEF Truthful, Connected
<1>4. /\ wire' # <<>> /\ wire'[Len(wire')] = new
      /\ \A i \in 1 .. Len(wire') :
           (i \in 1 .. Len(wire) /\ wire'[i] = wire[i]) \/ wire'[i] \in {Frame("q"), new}
  <2>1. stop \in {<<>>, <<Frame("q")>>}
    OBVIOUS
  <2> HIDE DEF stop, new
  <2>2. CASE stop = <<>>
    BY <1>1, <1>2, <2>2
  <2>3. CASE stop = <<Frame("q")>>
    BY <1>1, <1>2, <2>3
  <2> QED
    BY <2>1, <2>2, <2>3
<1>5. OnlyStreams'
  <2>1. Frame("q").cmd = "q" /\ new.cmd = "s"
    BY DEF Frame
  <2> HIDE DEF new, stop
  <2>2. \A i \in 1 .. Len(wire') : wire'[i].cmd \in {"s", "q"}
    BY <1>4, <2>1 DEF Truthful, OnlyStreams
  <2> QED
    BY <1>2, <1>4, <2>1, <2>2 DEF Truthful, OnlyStreams
<1>6. Settled' /\ Stopping'
  <2>1. wire'[Len(wire')].cmd = "s"
    BY <1>4
  <2> QED
    BY <1>4, <2>1 DEF Settled, Stopping
<1> QED
  BY <1>3, <1>5, <1>6 DEF Truthful

LEMMA FinishTruthful ==
    ASSUME Inv, Truthful, NEW r \in Slots, Finish(r)
    PROVE  Truthful'
<1>1. player \in PlayerStates /\ requests \in [Slots -> Requests]
  BY DEF Inv, PlaybackTypeOK
<1>2. player'.mode = player.mode /\ (Known(player) => Known(player'))
  BY <1>1 DEF Finish, PlayerStates, Known
<1>3. \A s \in Slots : /\ requests[s].pc = "loading" => requests'[s] = requests[s]
                       /\ requests'[s].pc # "idle" => requests'[s] = requests[s]
  BY <1>1 DEF Finish, Requests
<1>4. Loading => Loading'
  BY <1>3 DEF Loading
<1> QED
  BY <1>2, <1>3, <1>4, QuietlyTruthful DEF Finish

\* What a report does to the player, whichever it is.
LEMMA HandleEffect ==
    ASSUME Inv, Truthful, Handle
    PROVE  /\ Head(reports).event \notin {"STMs", "STMf"} => player'.mode \in {player.mode, "stop"}
           /\ Head(reports).event = "STMn" => player'.mode = "stop"
           /\ Head(reports).event = "STMs" => Known(player')
           /\ Head(reports).event \notin {"STMf", "STMn"} /\ Known(player) => Known(player')
           /\ Head(reports).event = "STMo" /\ Head(reports).empty /\ Known(player) => ends' # <<>>
           /\ ends # <<>> => ends' # <<>>
<1> DEFINE e == Head(reports).event
           Effect ==
             /\ e \notin {"STMs", "STMf"} => player'.mode \in {player.mode, "stop"}
             /\ e = "STMn" => player'.mode = "stop"
             /\ e = "STMs" => Known(player')
             /\ e \notin {"STMf", "STMn"} /\ Known(player) => Known(player')
             /\ e = "STMo" /\ Head(reports).empty /\ Known(player) => ends' # <<>>
             /\ ends # <<>> => ends' # <<>>
<1>1. /\ player \in PlayerStates /\ ends \in Seq(Ends) /\ reports \in Seq(Reports)
      /\ Believed(player) \in MaybeTrack
  BY DEF Inv, PlaybackTypeOK, Believed, PlayerStates
<1>2. reports # <<>> /\ e \notin {"STMp", "STMr"}
  <2>1. reports # <<>>
    BY DEF Handle, Heartbeat, Underrun, DecodeComplete, TrackStarted, Flushed, Paused,
           Resumed, DecodeError, Report
  <2>2. Head(reports) = reports[1] /\ 1 \in 1 .. Len(reports)
    BY <1>1, <2>1
  <2> QED
    BY <2>1, <2>2 DEF Truthful, OnlyStreams
<1>3. ASSUME NEW p \in PlayerStates, p.mode = player.mode, Known(player) => Known(p), TrackEnds(p)
      PROVE  player'.mode = player.mode /\ (Known(player) => Known(player')) /\ ends' # <<>>
  <2>1. player'.mode = player.mode /\ (Known(player) => Known(player'))
    BY <1>3 DEF TrackEnds, Forget, Known, PlayerStates
  <2>2. \E x : ends' = Append(ends, x)
    BY <1>3 DEF TrackEnds
  <2> QED
    BY <1>1, <2>1, <2>2
<1>4. ASSUME Heartbeat PROVE Effect
  <2> DEFINE moves == player.mode = "play" /\ Head(reports).moving
             p == IF moves THEN [player EXCEPT !.running = Believed(player)] ELSE player
  <2>1. e = "STMt" /\ (TrackEnds(p) \/ (player' = p /\ ends' = ends))
    BY <1>4 DEF Heartbeat, Report
  <2>2. p \in PlayerStates /\ p.mode = player.mode /\ (Known(player) => Known(p))
    BY <1>1 DEF PlayerStates, Known
  <2> HIDE DEF p
  <2> QED
    BY <1>3, <2>1, <2>2
<1>5. ASSUME Underrun PROVE Effect
  <2>1. /\ e = "STMo" /\ (TrackEnds(player) \/ (player' = player /\ ends' = ends))
        /\ Head(reports).empty /\ Known(player) => TrackEnds(player)
    BY <1>5 DEF Underrun, Report, Known, PlayedOut
  <2> QED
    BY <1>1, <1>3, <2>1
<1>6. ASSUME DecodeComplete PROVE Effect
  <2>1. e = "STMd" /\ player' = [player EXCEPT !.dry = "fresh"] /\ ends' = ends
    BY <1>6 DEF DecodeComplete, Report
  <2> QED
    BY <1>1, <2>1 DEF PlayerStates, Known
<1>7. ASSUME TrackStarted PROVE Effect
  <2>1. /\ e = "STMs" /\ ends' = ends
        /\ player' = [player EXCEPT !.mode = "play", !.started = TRUE, !.done = None,
                                    !.running = Believed(player),
                                    !.dry = IF @ = "fresh" THEN "stale" ELSE @]
    BY <1>7 DEF TrackStarted, Report
  <2> QED
    BY <1>1, <2>1 DEF PlayerStates, Known
<1>8. ASSUME Flushed PROVE Effect
  BY <1>8 DEF Flushed, Report
<1>9. ASSUME DecodeError PROVE Effect
  <2>1. e = "STMn" /\ ends' = ends /\ player' = [Forget(player) EXCEPT !.mode = "stop"]
    BY <1>9 DEF DecodeError, Report
  <2> QED
    BY <1>1, <2>1 DEF PlayerStates, Forget
<1>10. ~Paused /\ ~Resumed
  BY <1>2 DEF Paused, Resumed, Report
<1>11. Effect
  BY <1>4, <1>5, <1>6, <1>7, <1>8, <1>9, <1>10 DEF Handle
<1> QED
  BY <1>11

\* A report under way at a stop changes nothing.
LEMMA HandleHalted ==
    ASSUME Inv, Proper(engine), Truthful, Halted, Handle
    PROVE  Halted'
<1>1. /\ reports \in Seq(Reports) /\ reports # <<>> /\ reports' = Tail(reports)
      /\ device' = device /\ player \in PlayerStates
  BY DEF Inv, PlaybackTypeOK, Handle, Heartbeat, Underrun, DecodeComplete, TrackStarted,
         Flushed, Paused, Resumed, DecodeError, Report
<1>2. /\ Heard(reports', {"STMt", "STMd", "STMo", "STMf", "early"})
      /\ Head(reports).event \in {"STMt", "STMd", "STMo", "STMf"}
  <2>1. /\ Heard(reports', {"STMt", "STMd", "STMo", "STMf", "early"})
        /\ Kind(Head(reports)) \in {"STMt", "STMd", "STMo", "STMf", "early"}
    BY <1>1, HeardTail DEF Halted
  <2>2. Head(reports) \in Reports
    BY <1>1
  <2> QED
    BY <2>1, <2>2, KindEvent
<1>3. engine' = engine \/ \E e \in Told : Tell(e)
  BY DEF Handle, Heartbeat, Underrun, DecodeComplete, TrackStarted, Flushed, Paused, Resumed,
         DecodeError, Told
<1>4. Engine!IsStopped(engine')
  BY <1>3, TellLands DEF Lands, Halted
<1>5. player'.mode = "stop"
  <2>1. CASE Head(reports).event = "STMf"
    <3>1. Flushed
      BY <2>1 DEF Handle, Heartbeat, Underrun, DecodeComplete, TrackStarted, Paused, Resumed,
                  DecodeError, Report
    <3>2. CASE player.fresh
      BY <3>1, <3>2 DEF Flushed, Halted
    <3>3. CASE ~player.fresh
      <4>1. player' = [Forget(player) EXCEPT !.mode = IF @ = "pause" THEN @ ELSE PlayMode(engine')]
        BY <3>1, <3>3 DEF Flushed
      <4>2. Forget(player) \in PlayerStates /\ Forget(player).mode = "stop"
        BY <1>1, ForgetEffect DEF Halted
      <4>3. PlayMode(engine') = "stop"
        BY <1>4 DEF PlayMode
      <4> QED
        BY <4>1, <4>2, <4>3 DEF PlayerStates
    <3> QED
      BY <3>2, <3>3
  <2>2. CASE Head(reports).event # "STMf"
    BY <1>2, <2>2, HandleEffect DEF Halted
  <2> QED
    BY <2>1, <2>2
<1> QED
  BY <1>1, <1>2, <1>4, <1>5 DEF Halted, Engine!IsStopped

LEMMA HandleTruthful ==
    ASSUME Inv, Proper(engine), Truthful, Handle
    PROVE  Truthful'
<1>1. /\ reports \in Seq(Reports) /\ reports # <<>> /\ reports' = Tail(reports)
      /\ UNCHANGED <<requests, link, links, wire, device>>
  BY DEF Inv, PlaybackTypeOK, Handle, Heartbeat, Underrun, DecodeComplete, TrackStarted,
         Flushed, Paused, Resumed, DecodeError, Report
<1>2. \A i \in 1 .. Len(Tail(reports)) :
        Tail(reports)[i] = reports[i + 1] /\ i + 1 \in 1 .. Len(reports)
  BY <1>1
<1>3. Connected' /\ OnlyStreams'
  BY <1>1, <1>2 DEF Truthful, Connected, OnlyStreams
<1>4. ASSUME FailureTold(reports, player.mode) PROVE FailureTold(Tail(reports), player'.mode)
  BY <1>1, <1>4, HandleEffect, FailureHandled
<1>5. ASSUME StartTold(reports, device.phase, player, ends)
      PROVE  StartTold(Tail(reports), device.phase, player', ends')
  BY <1>1, <1>5, HandleEffect, StartHandled
<1>6. Halted => Halted'
  BY HandleHalted
<1>7. Settled'
  BY <1>1, <1>4, <1>5, <1>6 DEF Truthful, Settled, Loading
<1>8. Stopping'
  BY <1>1, <1>6 DEF Truthful, Stopping, Loading
<1> QED
  BY <1>3, <1>7, <1>8 DEF Truthful

\* The end of a track starts the next one, unless it has been handled, and then
\* the start of a new one has not been heard of.  A queue that does not repeat
\* stops at its end, when nothing else is under way if it is left alone.
LEMMA AdvanceTruthful ==
    ASSUME RepeatOn \/ InStep, Inv, Proper(engine), Truthful, Advance
    PROVE  Truthful'
<1> DEFINE end == Head(ends)
           p == [Forget(player) EXCEPT !.done = Ended(player, end), !.dry = "none"]
           next == NextSong(p.position)
<1>1. /\ player \in PlayerStates /\ end \in Ends
      /\ UNCHANGED <<link, links, reports, device>>
  BY DEF Inv, PlaybackTypeOK, Advance
<1>2. /\ p \in PlayerStates /\ p.sent = None /\ p.running = None
      /\ p.claim = player.claim /\ p.position \in 1 .. Count
  <2>1. Ended(player, end) \in MaybeTrack
    BY <1>1 DEF Ended, Ends, PlayerStates
  <2>2. /\ Forget(player) \in PlayerStates /\ Forget(player).sent = None
        /\ Forget(player).running = None /\ Forget(player).claim = player.claim
    BY <1>1, ForgetEffect DEF Forget, PlayerStates
  <2> QED
    BY <2>1, <2>2 DEF PlayerStates
<1>3. \/ next \in 1 .. Count
      \/ next = 0 /\ InStep
  <2>1. next \in 0 .. Count
    BY <1>2, NextSongType
  <2>2. RepeatOn => next # 0
    BY <1>2, CountType, OptionsAssumption DEF NextSong, RepeatOn
  <2> QED
    BY <2>1, <2>2, CountType
<1>4. \/ Handled(player, end) /\ UNCHANGED <<player, engine, wire, requests>>
      \/ next # 0 /\ UNCHANGED <<engine, wire>> /\ \E r \in Slots : Start(r, p, next, "end", link)
      \/ next = 0 /\ StopPlayer(p) /\ requests' = requests
  BY DEF Advance
<1> HIDE DEF p, next
<1>5. CASE Handled(player, end) /\ UNCHANGED <<player, engine, wire, requests>>
  <2>1. ~Known(player)
    BY <1>5 DEF Handled, Known
  <2>2. Connected' /\ OnlyStreams'
    BY <1>1, <1>5 DEF Truthful, Connected, OnlyStreams
  <2>3. Halted => Halted'
    BY <1>1, <1>5 DEF Halted, Heard, Engine!IsStopped
  <2>4. Settled'
    BY <1>1, <1>5, <2>1, <2>3 DEF Truthful, Settled, StartTold, Loading
  <2>5. Stopping'
    BY <1>1, <1>5, <2>3 DEF Truthful, Stopping, Loading
  <2> QED
    BY <2>2, <2>4, <2>5 DEF Truthful
<1>6. CASE next # 0 /\ UNCHANGED <<engine, wire>> /\ \E r \in Slots : Start(r, p, next, "end", link)
  <2>1. PICK r \in Slots : Start(r, p, next, "end", link)
    BY <1>6
  <2>2. next \in 1 .. Count
    BY <1>3, <1>6
  <2>3. Connected' /\ OnlyStreams' /\ Loading'
    BY <1>1, <1>2, <1>6, <2>1, <2>2, StartTruthful
  <2> QED
    BY <2>3 DEF Truthful, Settled, Stopping
<1>7. CASE next = 0 /\ StopPlayer(p) /\ requests' = requests
  <2>1. Done
    BY <1>1, <1>3, <1>7, CountType
       DEF InStep, Stage, Asked, StreamSent, Opening, Sounding, Drained, Over, Advance
  <2>2. /\ player' = [Forget(p) EXCEPT !.mode = "stop"] /\ wire' = Append(<<>>, Frame("q"))
        /\ Tell("Stop")
    BY <1>7, <2>1 DEF StopPlayer, Truthful, Connected, Done
  <2>3. player'.mode = "stop" /\ Engine!IsStopped(engine')
    <3>1. player'.mode = "stop"
      BY <1>2, <2>2, ForgetEffect DEF PlayerStates
    <3>2. Engine!IsStopped(engine')
      BY <2>2, TellLands DEF Lands, Told
    <3> QED
      BY <3>1, <3>2
  <2>4. Len(wire') = 1 /\ wire' # <<>> /\ wire'[1].cmd = "q"
    BY <2>2 DEF Frame
  <2>5. Halted'
    BY <1>1, <2>1, <2>3 DEF Halted, Done, Heard, Engine!IsStopped
  <2>6. Connected' /\ OnlyStreams'
    BY <1>1, <1>7, <2>4 DEF Truthful, Connected, OnlyStreams
  <2> QED
    BY <2>4, <2>5, <2>6 DEF Truthful, Stopping, Settled
<1> QED
  BY <1>4, <1>5, <1>6, <1>7

\* While the connection is up, what the player says is sent.
LEMMA SaysTold ==
    ASSUME Inv, Truthful, PlayerActs, device' \in Devices,
           NEW e \in {"STMt", "STMd", "STMs", "STMf", "STMp", "STMr", "STMn", "STMo"},
           NEW moving \in BOOLEAN, Says(e, moving)
    PROVE  \E r \in Reports : /\ reports' = Append(reports, r) /\ r.event = e
                              /\ r.empty = (device'.phase # "running")
<1> DEFINE r == [event |-> e, empty |-> device'.phase # "running", moving |-> moving,
                 over |-> IF device'.phase = "drained" THEN device.stream ELSE 0]
<1>1. reports' = Append(reports, r)
  BY DEF Says, Truthful, Connected
<1>2. r \in Reports
  BY DEF Reports, Inv, PlaybackTypeOK, Devices
<1> QED
  BY <1>1, <1>2

\* A step of the player keeps what the server has.
LEMMA PlayerActsConnected ==
    ASSUME Truthful, PlayerActs
    PROVE  Connected' /\ (Loading' <=> Loading) /\ UNCHANGED <<player, ends>>
BY DEF Truthful, Connected, PlayerActs, Loading

LEMMA ObeyTruthful ==
    ASSUME Inv, Truthful, Obey
    PROVE  Truthful'
<1> DEFINE f == Head(wire)
<1>1. /\ wire \in Seq(Frames) /\ wire # <<>> /\ wire' = Tail(wire) /\ PlayerActs
      /\ reports \in Seq(Reports) /\ f = wire[1] /\ f \in Frames
  BY DEF Inv, PlaybackTypeOK, Obey
<1>2. f.cmd \in {"s", "q"}
  BY <1>1 DEF Truthful, OnlyStreams
<1>3. \/ /\ f.cmd = "s" /\ device' = [Silent EXCEPT !.phase = "opening", !.stream = f.stream]
      \/ /\ f.cmd = "q" /\ device' = Silent
  BY <1>2 DEF Obey
<1>4. Says("STMf", FALSE)
  BY <1>2 DEF Obey
<1>5. device' \in Devices
  <2>1. f.stream \in Nat
    BY <1>1 DEF Frames
  <2> QED
    BY <1>3, <2>1, SilentType DEF Silent, Devices
<1>6. PICK r \in Reports : reports' = Append(reports, r) /\ r.event = "STMf"
  BY <1>1, <1>4, <1>5, SaysTold
<1>7. /\ \A i \in 1 .. Len(Tail(wire)) : Tail(wire)[i] = wire[i + 1] /\ i + 1 \in 1 .. Len(wire)
      /\ Len(Tail(wire)) + 1 = Len(wire) /\ Len(Tail(wire)) \in Nat
      /\ Tail(wire) # <<>> => Len(Tail(wire)) \in 1 .. Len(Tail(wire))
      /\ Tail(wire) = <<>> => Len(wire) = 1
  <2> DEFINE w == Tail(wire)
  <2>1. /\ w \in Seq(Frames) /\ Len(w) \in Nat /\ Len(w) + 1 = Len(wire)
        /\ \A i \in 1 .. Len(w) : w[i] = wire[i + 1] /\ i + 1 \in 1 .. Len(wire)
    BY <1>1
  <2> HIDE DEF w
  <2>2. w # <<>> => Len(w) # 0
    BY <2>1
  <2>3. w = <<>> => Len(w) = 0
    OBVIOUS
  <2> QED
    BY <2>1, <2>2, <2>3 DEF w
<1>8. /\ Len(reports') = Len(reports) + 1 /\ reports'[Len(reports) + 1] = r
      /\ \A i \in 1 .. Len(reports) : reports'[i] = reports[i]
      /\ Len(reports) \in Nat
  BY <1>1, <1>6
<1>9. OnlyStreams'
  <2>1. \A i \in 1 .. Len(wire') : wire'[i].cmd \in {"s", "q"}
    BY <1>1, <1>7 DEF Truthful, OnlyStreams
  <2>2. \A i \in 1 .. Len(reports') : reports'[i].event \notin {"STMp", "STMr"}
    <3> TAKE i \in 1 .. Len(reports')
    <3>1. CASE i = Len(reports) + 1
      BY <1>6, <1>8, <3>1
    <3>2. CASE i # Len(reports) + 1
      BY <1>8, <3>2 DEF Truthful, OnlyStreams
    <3> QED
      BY <3>1, <3>2
  <2>3. device'.paused = FALSE
    <3>1. CASE device' = [Silent EXCEPT !.phase = "opening", !.stream = f.stream]
      BY <3>1 DEF Silent
    <3>2. CASE device' = Silent
      BY <3>2 DEF Silent
    <3> QED
      BY <1>3, <3>1, <3>2
  <2> QED
    BY <2>1, <2>2, <2>3 DEF OnlyStreams
<1>10. Loading' = Loading /\ UNCHANGED <<player, engine>>
  BY <1>1 DEF PlayerActs, Loading
<1>11. Settled'
  <2> SUFFICES ASSUME wire' = <<>>, ~Loading
               PROVE  /\ device'.phase = "idle" => Halted'
                      /\ device'.phase \in {"idle", "opening"}
    BY <1>10 DEF Settled
  <2>1. CASE f.cmd = "s"
    <3>1. device' = [Silent EXCEPT !.phase = "opening", !.stream = f.stream]
      BY <1>3, <2>1
    <3>2. device'.phase = "opening"
      BY <3>1 DEF Silent
    <3> QED
      BY <3>2
  <2>2. CASE f.cmd = "q"
    <3>1. Halted
      BY <1>1, <1>7, <2>2 DEF Truthful, Stopping
    <3>2. device'.phase = "idle"
      BY <1>3, <2>2 DEF Silent
    <3>3. Heard(reports', {"STMt", "STMd", "STMo", "STMf", "early"})
      <4>1. Kind(r) = "STMf"
        BY <1>6, KindEvent
      <4> QED
        BY <1>1, <1>6, <3>1, <4>1, HeardAppend DEF Halted
    <3> QED
      BY <1>10, <3>1, <3>2, <3>3 DEF Halted, Engine!IsStopped
  <2> QED
    BY <1>2, <2>1, <2>2
<1>12. Stopping'
  <2> SUFFICES ASSUME wire' # <<>>, ~Loading PROVE wire'[Len(wire')].cmd = "s"
    BY <1>10 DEF Stopping
  <2>1. Len(wire') \in 1 .. Len(wire') /\ Len(wire') + 1 = Len(wire)
    BY <1>1, <1>7
  <2>2. wire'[Len(wire')] = wire[Len(wire)] /\ Len(wire) # 1
    BY <1>1, <1>7, <2>1
  <2> QED
    BY <1>1, <2>2 DEF Truthful, Stopping
<1> QED
  BY <1>1, <1>9, <1>11, <1>12, PlayerActsConnected DEF Truthful

LEMMA FetchTruthful ==
    ASSUME Inv, Truthful, Fetch
    PROVE  Truthful'
<1>1. device'.phase = "filling" /\ device'.paused = device.paused /\ device.phase = "opening"
  BY DEF Fetch, Inv, PlaybackTypeOK, Devices
<1>2. OnlyStreams' /\ Settled'
  BY <1>1 DEF Fetch, Truthful, OnlyStreams, Settled
<1>3. Stopping'
  BY <1>1 DEF Fetch, PlayerActs, Truthful, Stopping, Halted, Loading
<1> QED
  BY <1>2, <1>3, PlayerActsConnected DEF Truthful, Fetch

LEMMA DeviceTruthful ==
    ASSUME Inv, Truthful, Starve \/ Begin \/ Decoded \/ Drain \/ Broken \/ Tick
    PROVE  Truthful'
<1>1. /\ reports \in Seq(Reports) /\ device \in Devices /\ PlayerActs /\ wire' = wire
  BY DEF Inv, PlaybackTypeOK, Starve, Begin, Decoded, Drain, Broken, Tick
<1>2. /\ device' \in Devices /\ ~device'.paused
      /\ \E r \in Reports :
           /\ reports' = Append(reports, r)
           /\ \/ /\ r.event = "STMs" /\ device.phase = "filling"
                 /\ device'.phase = "running"
              \/ r.event \in {"STMd", "STMt"} /\ device'.phase = device.phase
              \/ /\ r.event = "STMo" /\ device' = device
                 /\ device.phase \in {"opening", "filling"}
              \/ /\ r.event = "STMo" /\ r.empty /\ device.phase = "running"
                 /\ device'.phase = "drained"
              \/ /\ r.event = "STMn" /\ device.phase = "filling"
                 /\ device'.phase = "idle"
  <2>1. ~device.paused
    BY DEF Truthful, OnlyStreams
  <2>2. CASE Begin
    <3>1. /\ device' \in Devices /\ ~device'.paused /\ device'.phase = "running"
          /\ Says("STMs", FALSE) /\ device.phase = "filling"
      BY <1>1, <2>1, <2>2 DEF Begin, Devices
    <3> QED
      BY <1>1, <3>1, SaysTold
  <2>3. CASE Decoded
    <3>1. /\ device' \in Devices /\ ~device'.paused /\ device'.phase = device.phase
          /\ Says("STMd", FALSE)
      BY <1>1, <2>1, <2>3 DEF Decoded, Devices
    <3> QED
      BY <1>1, <3>1, SaysTold
  <2>4. CASE Drain
    <3>1. /\ device' \in Devices /\ ~device'.paused /\ device'.phase = "drained"
          /\ device.phase = "running" /\ Says("STMo", FALSE)
      BY <1>1, <2>1, <2>4 DEF Drain, Devices
    <3>2. PICK r \in Reports : /\ reports' = Append(reports, r) /\ r.event = "STMo"
                               /\ r.empty = (device'.phase # "running")
      BY <1>1, <3>1, SaysTold
    <3> QED
      BY <3>1, <3>2
  <2>5. CASE Broken
    <3>1. device' = Silent /\ Says("STMn", FALSE) /\ device.phase = "filling"
      BY <2>5 DEF Broken
    <3>2. device' \in Devices /\ ~device'.paused /\ device'.phase = "idle"
      BY <3>1, SilentType DEF Silent
    <3> QED
      BY <1>1, <3>1, <3>2, SaysTold
  <2>6. CASE Tick
    <3>1. PICK moving \in {FALSE, device.phase = "running" /\ ~device.paused} : Says("STMt", moving)
      BY <2>6 DEF Tick
    <3>2. device' = device /\ moving \in BOOLEAN
      BY <2>6 DEF Tick
    <3> QED
      BY <1>1, <2>1, <3>1, <3>2, SaysTold
  <2>7. CASE Starve
    <3>1. device' = device /\ Says("STMo", FALSE) /\ device.phase \in {"opening", "filling"}
      BY <2>7 DEF Starve
    <3> QED
      BY <1>1, <2>1, <3>1, SaysTold
  <2> QED
    BY <2>2, <2>3, <2>4, <2>5, <2>6, <2>7
<1>3. PICK r \in Reports :
        /\ reports' = Append(reports, r)
        /\ \/ r.event = "STMs" /\ device.phase = "filling" /\ device'.phase = "running"
           \/ r.event \in {"STMd", "STMt"} /\ device'.phase = device.phase
           \/ r.event = "STMo" /\ device' = device /\ device.phase \in {"opening", "filling"}
           \/ r.event = "STMo" /\ r.empty /\ device.phase = "running" /\ device'.phase = "drained"
           \/ r.event = "STMn" /\ device.phase = "filling" /\ device'.phase = "idle"
  BY <1>2
<1>4. OnlyStreams'
  <2>1. \A i \in 1 .. Len(reports') : reports'[i] \in {r} \/ (i \in 1 .. Len(reports) /\ reports'[i] = reports[i])
    BY <1>1, <1>3
  <2>2. \A i \in 1 .. Len(reports') : reports'[i].event \notin {"STMp", "STMr"}
    BY <1>3, <2>1 DEF Truthful, OnlyStreams
  <2> QED
    BY <1>1, <1>2, <2>2 DEF Truthful, OnlyStreams
<1>5. Halted => Halted'
  <2> SUFFICES ASSUME Halted PROVE Halted'
    OBVIOUS
  <2>1. r.event \in {"STMd", "STMt", "STMo"} /\ device'.phase \notin {"opening", "filling"}
    BY <1>3 DEF Halted
  <2>2. Heard(reports', {"STMt", "STMd", "STMo", "STMf", "early"})
    BY <1>1, <1>3, <2>1, HeardAppend DEF Halted, Kind
  <2>3. UNCHANGED <<player, engine>>
    BY <1>1 DEF PlayerActs
  <2> QED
    BY <2>1, <2>2, <2>3 DEF Halted, Engine!IsStopped
<1>6. Stopping'
  BY <1>1, <1>5, PlayerActsConnected DEF Truthful, Stopping
<1>7. Settled'
  <2>1. player' = player /\ ends' = ends /\ (Loading' <=> Loading)
    BY <1>1, PlayerActsConnected
  <2> SUFFICES ASSUME wire = <<>>, ~Loading
               PROVE  /\ device'.phase = "idle" => FailureTold(reports', player.mode) \/ Halted'
                      /\ device'.phase \in {"running", "drained"} =>
                           StartTold(reports', device'.phase, player, ends)
    BY <1>1, <2>1 DEF Settled
  <2>2. /\ device.phase = "idle" => FailureTold(reports, player.mode) \/ Halted
        /\ device.phase \in {"running", "drained"} =>
             StartTold(reports, device.phase, player, ends)
    BY DEF Truthful, Settled
  <2>3. CASE r.event = "STMs" /\ device'.phase = "running"
    BY <1>1, <1>3, <2>3, AppendTold
  <2>4. CASE r.event \in {"STMd", "STMt"} /\ device'.phase = device.phase
    <3>1. r.event \notin {"STMs", "STMf", "STMn"}
      BY <2>4
    <3>2. FailureTold(reports, player.mode) => FailureTold(reports', player.mode)
      BY <1>1, <1>3, <3>1, AppendTold
    <3>3. StartTold(reports, device.phase, player, ends)
            => StartTold(reports', device.phase, player, ends)
      BY <1>1, <1>3, <3>1, AppendTold
    <3> QED
      BY <1>5, <2>2, <2>4, <3>2, <3>3
  <2>5. CASE r.event = "STMo" /\ r.empty /\ device.phase = "running" /\ device'.phase = "drained"
    BY <1>1, <1>3, <2>2, <2>5, AppendTold
  <2>6. CASE r.event = "STMn" /\ device'.phase = "idle"
    BY <1>1, <1>3, <2>6, AppendTold
  <2>7. CASE device'.phase \in {"opening", "filling"}
    BY <2>7
  <2> QED
    BY <1>3, <2>3, <2>4, <2>5, <2>6, <2>7
<1> QED
  BY <1>1, <1>4, <1>6, <1>7, PlayerActsConnected DEF Truthful

LEMMA NextTruthful ==
    ASSUME NeverLost, NoPauses, Patient, RepeatOn \/ InStep, Inv, Proper(engine), Truthful,
           [Next]_vars
    PROVE  Truthful'
<1>1. ~(\E rebooted \in BOOLEAN : Hello(rebooted)) /\ ~Lost
  BY DEF NeverLost, Truthful, Connected, Hello, Lost
<1>2. CASE WindowCloses
  <2>1. player'.mode = player.mode /\ (Known(player) => Known(player'))
    BY <1>2 DEF WindowCloses, Inv, PlaybackTypeOK, PlayerStates, Known
  <2>2. Loading => Loading'
    BY <1>2 DEF WindowCloses, Loading
  <2> QED
    BY <1>2, <2>1, <2>2, QuietlyTruthful DEF WindowCloses
<1>3. CASE UNCHANGED vars
  <2>1. player' = player /\ requests' = requests /\ (Loading => Loading')
    BY <1>3 DEF vars, Loading
  <2> QED
    BY <1>3, <2>1, QuietlyTruthful DEF vars
<1>4. CASE Command
  <2>1. Play \/ Stop
    BY <1>4 DEF NoPauses, Command, Pause, Unpause, UserActs
  <2> QED
    BY <2>1, PlayTruthful, StopTruthful
<1> QED
  BY <1>1, <1>2, <1>3, <1>4, SendTruthful, FinishTruthful, HandleTruthful,
     AdvanceTruthful, ObeyTruthful, FetchTruthful, DeviceTruthful DEF Next

LEMMA AlwaysTruthful ==
    ASSUME Orderly
    PROVE  Spec => [](Inv /\ Truthful)
<1> DEFINE Aid == RepeatOn \/ InStep
<1>1. Init => Truthful
  <2> SUFFICES ASSUME Init PROVE Truthful
    OBVIOUS
  <2>1. wire = <<>> /\ reports = <<>> /\ device.phase = "idle" /\ player.mode = "stop"
    BY DEF Init, Silent
  <2>2. FailureTold(reports, player.mode)
    BY <2>1 DEF FailureTold
  <2>3. ~device.paused
    BY DEF Init, Silent
  <2> QED
    BY <2>1, <2>2, <2>3 DEF Init, Truthful, Connected, OnlyStreams, Stopping, Settled
<1>2. Inv /\ Proper(engine) /\ Aid /\ Truthful /\ [Next]_vars => Truthful'
  BY NextTruthful DEF Orderly
<1>3. Spec => []Aid
  <2>1. CASE RepeatOn
    <3>1. Aid
      BY <2>1
    <3> HIDE DEF Aid
    <3> QED
      BY <3>1, PTL
  <2>2. CASE LeftAlone
    <3>1. InStep => Aid
      OBVIOUS
    <3>2. Spec => []InStep
      BY <2>2, AlwaysInStep, PTL
    <3> HIDE DEF Aid
    <3> QED
      BY <3>1, <3>2, PTL
  <2> QED
    BY <2>1, <2>2 DEF Orderly
<1> HIDE DEF Aid
<1> QED
  BY <1>1, <1>2, <1>3, Invariance, ProperAlways, PTL DEF Spec

LEMMA StatusTold ==
    ASSUME Inv, Truthful, Quiet
    PROVE  player.mode = (IF ~Playing(device) THEN "stop"
                          ELSE IF device.paused THEN "pause" ELSE "play")
<1>1. /\ wire = <<>> /\ reports = <<>> /\ ends = <<>> /\ ~Loading
      /\ device.phase \in {"idle", "running", "drained"} /\ ~device.paused
  BY DEF Quiet, Loading, Inv, PlaybackTypeOK, Devices, Truthful, OnlyStreams
<1>2. device.phase = "idle" => player.mode = "stop"
  BY <1>1 DEF Truthful, Settled, FailureTold, Halted
<1>3. device.phase = "running" => player.mode = "play"
  BY <1>1 DEF Truthful, Settled, StartTold, Known
<1>4. device.phase # "drained"
  BY <1>1 DEF Truthful, Settled, StartTold, EndTold
<1> QED
  BY <1>1, <1>2, <1>3, <1>4 DEF Playing

\* With nothing on its way the status tells what the player does, while tracks
\* end or cannot be decoded and reports come as late as they may: for a queue
\* that repeats, whose users choose tracks with as many overlapping requests as
\* they like, or choose and stop them when nothing is under way; and for a
\* queue that is left alone, up to its end and after it.
THEOREM StatusTruthful ==
    ASSUME Orderly
    PROVE  Spec => []StatusTruth
<1>1. Inv /\ Truthful => StatusTruth
  BY StatusTold DEF StatusTruth
<1> QED
  BY <1>1, AlwaysTruthful, PTL

\* A play request that is answered without streaming finds the player playing:
\* users who wait for the status, and act on it, are never left with a player
\* that is silent while the server takes the track for playing already.
THEOREM SkipsPlaying ==
    ASSUME Orderly, ~Hasty
    PROVE  Spec => SkipsOnlyPlaying
<1> DEFINE Skips == \E r \in Slots : requests[r].pc = "idle" /\ requests'[r].pc = "finishing"
<1>1. Inv /\ Truthful /\ [Next]_vars => (Skips => HasStream)
  <2> SUFFICES ASSUME Inv, Truthful, [Next]_vars, Skips PROVE HasStream
    OBVIOUS
  <2>1. requests \in [Slots -> Requests] /\ player \in PlayerStates
    BY DEF Inv, PlaybackTypeOK
  <2>2. \/ Play \/ Advance
        \/ \E r \in Slots : Send(r) \/ Finish(r)
    <3>1. requests' # requests
      OBVIOUS
    <3>2. ~(\E rebooted \in BOOLEAN : Hello(rebooted))
      BY DEF Orderly, NeverLost, Truthful, Connected, Hello
    <3>3. ~Handle /\ ~Stop /\ ~Pause /\ ~Unpause
      BY <3>1 DEF Handle, Heartbeat, Underrun, DecodeComplete, TrackStarted, Flushed, Paused,
                  Resumed, DecodeError, Report, Stop, Pause, Unpause
    <3>4. ~WindowCloses /\ ~Lost /\ ~UNCHANGED vars
      BY <3>1 DEF WindowCloses, Lost, vars
    <3>5. ~Obey /\ ~Fetch /\ ~Starve /\ ~Begin /\ ~Decoded /\ ~Drain /\ ~Broken /\ ~Tick
      BY <3>1 DEF Obey, Fetch, Starve, Begin, Decoded, Drain, Broken, Tick, PlayerActs
    <3> QED
      BY <3>2, <3>3, <3>4, <3>5 DEF Next, Command
  <2>3. ASSUME NEW r \in Slots, NEW p \in PlayerStates, NEW i \in 1 .. Count,
               NEW by \in {"user", "end"}, Start(r, p, i, by, link), p.claim = player.claim
        PROVE  HasStream \/ (p.mode = "play" /\ (p.sent # None \/ p.running # None))
    <3> DEFINE t == TrackAt(i)
               q == Moved(p, i)
    <3>1. q.mode = p.mode /\ q.claim = p.claim /\ q.sent = p.sent /\ q.running = p.running
      BY DEF Moved, PlayerStates
    <3>2. t # None
      BY TrackAtType
    <3>3. AlreadyPlaying(q, t) \/ InFlight(q, t)
      <4>1. requests' # requests
        OBVIOUS
      <4>2. \A s \in Slots : requests[s].pc = "idle" => requests'[s].pc # "finishing" \/
              AlreadyPlaying(q, t) \/ InFlight(q, t)
        BY <2>1, <2>3 DEF Start
      <4> QED
        BY <4>2
    <3> HIDE DEF q, t
    <3>4. CASE AlreadyPlaying(q, t)
      BY <3>1, <3>2, <3>4 DEF AlreadyPlaying
    <3>5. CASE InFlight(q, t)
      BY <2>3, <3>1, <3>2, <3>5 DEF InFlight, Inv, ClaimHeld, HasStream
    <3> QED
      BY <3>3, <3>4, <3>5
  <2>4. CASE Play
    <3>1. Quiet
      BY <2>4 DEF Play, UserActs
    <3>2. HasStream \/ player.mode = "play"
      BY <2>1, <2>3, <2>4 DEF Play
    <3>3. player.mode = "play" => device.phase = "running"
      BY <3>1, StatusTold DEF Playing
    <3> QED
      BY <3>2, <3>3 DEF HasStream
  <2>5. CASE Advance
    <3> DEFINE end == Head(ends)
               p == [Forget(player) EXCEPT !.done = Ended(player, end), !.dry = "none"]
    <3>1. PICK r \in Slots : Start(r, p, NextSong(p.position), "end", link) /\ NextSong(p.position) # 0
      <4>1. requests' # requests
        OBVIOUS
      <4> QED
        BY <2>5, <4>1 DEF Advance
    <3>2. /\ p \in PlayerStates /\ p.sent = None /\ p.running = None /\ p.claim = player.claim
          /\ p.position \in 1 .. Count
      <4>1. Ended(player, end) \in MaybeTrack
        <5>1. end \in Ends
          BY <2>5 DEF Advance, Inv, PlaybackTypeOK
        <5> QED
          BY <2>1, <5>1 DEF Ended, Ends, PlayerStates
      <4>2. /\ Forget(player) \in PlayerStates /\ Forget(player).sent = None
            /\ Forget(player).running = None /\ Forget(player).claim = player.claim
        BY <2>1, ForgetEffect DEF Forget, PlayerStates
      <4> QED
        BY <4>1, <4>2 DEF PlayerStates
    <3>3. NextSong(p.position) \in 1 .. Count
      BY <3>1, <3>2, NextSongType, CountType
    <3> HIDE DEF p
    <3> QED
      BY <2>3, <3>1, <3>2, <3>3
  <2>6. CASE \E r \in Slots : Send(r) \/ Finish(r)
    <3>1. PICK r \in Slots : Send(r) \/ Finish(r)
      BY <2>6
    <3>2. requests[r].pc # "idle" /\ \A s \in Slots \ {r} : requests'[s] = requests[s]
      BY <2>1, <3>1 DEF Send, Finish
    <3> QED
      BY <3>2
  <2> QED
    BY <2>2, <2>4, <2>5, <2>6
<1>2. Spec => [][Skips => HasStream]_vars
  <2>1. Inv /\ Truthful /\ [Next]_vars => [Skips => HasStream]_vars
    BY <1>1
  <2> HIDE DEF Skips
  <2> QED
    BY <2>1, AlwaysTruthful, PTL DEF Spec
<1> QED
  BY <1>2 DEF SkipsOnlyPlaying
=============================================================================
