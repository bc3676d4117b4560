--------------------------- MODULE TrackPlayback ---------------------------
(* Playing a queue of local tracks on one player: the play requests of       *)
(* users and of the end of a track (player/manager.py), the strm frames they *)
(* send (networking/protocol.py), the STAT reports that answer them, and the *)
(* /stream.mp3 request by which the player fetches the audio (web/stream.py).*)
(* An action is what one asyncio task does between two suspensions; sending  *)
(* a frame does not suspend while the socket's write buffer has room.        *)
EXTENDS Integers, Sequences

CONSTANTS
    Playlist,       \* the track ids of player.playlist, all different
    Order,          \* player.shufflelist: queue index -> playlist index
    Repeat,         \* player.repeat: 0 off, 1 song, 2 all
    None,
    Slots,          \* play requests that may overlap
    ResumeOn,       \* the powerOnResume pref resumes a player that returns
    ResetOn,        \* it may also put the queue back to its start
    CliPause,       \* pause comes from the CLI, which does not look at the mode
    Commands,       \* what users do: a subset of {"play", "stop", "pause"}
    Hasty,          \* users act while frames are on their way
    LateDecode,     \* the player may report STMd after its output ran dry
    MaxAsks,        \* bound: user commands
    MaxLinks,       \* bound: control connections
    MaxStreams,     \* bound: streams sent
    MaxReports      \* bound: reports on their way

Count == Len(Playlist)

ASSUME QueueAssumption ==
    /\ Playlist \in Seq(Nat) /\ Count > 0
    /\ \A i, j \in 1 .. Count : Playlist[i] = Playlist[j] => i = j
    /\ Order \in [1 .. Count -> 1 .. Count]
    /\ \A i, j \in 1 .. Count : Order[i] = Order[j] => i = j
    /\ None \notin Nat
ASSUME OptionsAssumption ==
    /\ Repeat \in 0 .. 2
    /\ Commands \subseteq {"play", "stop", "pause"}
    /\ {ResumeOn, ResetOn, CliPause, Hasty, LateDecode} \subseteq BOOLEAN
    /\ MaxAsks \in Nat /\ MaxLinks \in Nat \ {0} /\ MaxStreams \in Nat /\ MaxReports \in Nat

VARIABLES
    player,         \* the PlayerState: see PlayerStates
    engine,         \* the player's StreamingController
    requests,       \* the play requests: see Requests
    ends,           \* pending _advance_after_track tasks
    link,           \* the registered control connection, 0 while offline
    wire,           \* strm frames on their way to the player
    reports,        \* STAT frames on their way to the server
    device,         \* the player itself
    asks,           \* user commands so far
    links,          \* control connections so far
    streams,        \* history: strm 's' frames sent so far
    announced,      \* history: the track of the last one
    advanced        \* history: the stream whose end moved the queue last

vars == <<player, engine, requests, ends, link, wire, reports, device,
          asks, links, streams, announced, advanced>>

Engine == INSTANCE StreamingController WITH
              Songs <- {"song"}, NoSong <- "none", PlaylistCount <- 1,
              MaxCallbackId <- 1, MaxQueue <- 2, ctl <- engine

Tracks == {Playlist[i] : i \in 1 .. Count}
MaybeTrack == Tracks \cup {None}
Modes == {"stop", "play", "pause"}

\* The fields of PlayerState that playback reads and writes.
PlayerStates ==
    [position : 1 .. Count,         \* playlist_position, a queue index
     mode     : Modes,
     sent     : MaybeTrack,         \* strm_sent_track
     running  : MaybeTrack,         \* playing_track_id
     claim    : MaybeTrack,         \* stream_in_flight
     started  : BOOLEAN,            \* _track_started_at is set
     dry      : {"none", "stale", "fresh"},  \* _last_stmd: unset, before, after it
     done     : MaybeTrack,         \* _track_end_done_for
     fresh    : BOOLEAN,            \* strm_sent_at is at most 3 s ago
     current  : MaybeTrack,         \* current_track_id
     resume   : BOOLEAN]            \* playing_at_power_off

Requests ==
    [pc    : {"idle", "loading", "finishing"},
     index : 1 .. Count,            \* the queue index asked for
     link  : 0 .. MaxLinks,         \* the connection whose writer it holds
     by    : {"user", "end", "reboot", "rejoin"}]

Frames == [cmd : {"s", "q", "p", "u"}, stream : Nat]

Reports ==
    [event  : {"STMt", "STMd", "STMs", "STMf", "STMp", "STMr", "STMn", "STMo"},
     empty  : BOOLEAN,              \* output_buffer_fullness = 0
     moving : BOOLEAN,              \* elapsed_seconds advanced
     over   : Nat]                  \* history: the stream that has played out, or 0

Ends ==
    [track : MaybeTrack,            \* the track that ended
     of    : Nat,                   \* history: the stream that had played out, or 0
     at    : Nat]                   \* history: streams when it was scheduled

Devices ==
    [phase   : {"idle", "opening", "filling", "running", "drained"},
     paused  : BOOLEAN,
     decoded : BOOLEAN,             \* STMd sent for this stream
     track   : MaybeTrack,          \* the audio it fetched
     stream  : Nat]

Silent == [phase |-> "idle", paused |-> FALSE, decoded |-> FALSE, track |-> None, stream |-> 0]

Init ==
    /\ player = [position |-> 1, mode |-> "stop", sent |-> None, running |-> None,
                 claim |-> None, started |-> FALSE, dry |-> "none", done |-> None,
                 fresh |-> FALSE, current |-> None, resume |-> FALSE]
    /\ engine = Engine!Fresh(FALSE)
    /\ requests = [r \in Slots |-> [pc |-> "idle", index |-> 1, link |-> 0, by |-> "user"]]
    /\ ends = <<>> /\ wire = <<>> /\ reports = <<>>
    /\ link = 1 /\ links = 1
    /\ device = Silent
    /\ asks = 0 /\ streams = 0 /\ announced = None /\ advanced = 0

-----------------------------------------------------------------------------
(* Helpers *)

\* playlist_item: what a queue index plays.
TrackAt(i) == Playlist[Order[i]]

\* The state machine is told of an event; callbacks, which the server never
\* registers, are all its cbid would tell apart.
Tell(e) == \E c \in Engine!Resolve(e, engine) : engine' = [c EXCEPT !.cbid = 0]

Frame(c) == [cmd |-> c, stream |-> streams]

\* Mutant: only one half is dropped.
Forget_Sent(p) == [p EXCEPT !.sent = None]

\* forget_stream: both halves of the guard against sending a track twice.
Forget(p) == [p EXCEPT !.sent = None, !.running = None]

\* The track the player is taken to be running.
Believed(p) == IF p.sent # None THEN p.sent ELSE p.current

Switching(p) == p.mode \in {"play", "pause"} \/ p.sent # None

AlreadyPlaying(p, t) == p.mode = "play" /\ t \in {p.sent, p.running}

InFlight(p, t) == p.claim = t

\* Mutant: the position moves only when the stream has been sent.
Moved_Later(p, i) == p

\* The position moves before anything is sent: a player may fetch at once.
Moved(p, i) == [p EXCEPT !.position = i]

\* playlist_play up to its first suspension: the position moves at once, the
\* track is claimed and its row is loaded; a track that plays already, or is
\* on its way, is taken for sent.
Start(r, p, i, by, l) ==
    LET t == TrackAt(i)
        q == Moved(p, i)
        request(pc) == [pc |-> pc, index |-> i, link |-> l, by |-> by]
    IN  /\ requests[r].pc = "idle"
        /\ IF l = 0
           THEN player' = q /\ UNCHANGED requests
           ELSE IF AlreadyPlaying(q, t) \/ InFlight(q, t)
           THEN /\ player' = [q EXCEPT !.mode = "play", !.current = t]
                /\ requests' = [requests EXCEPT ![r] = request("finishing")]
           ELSE /\ player' = [q EXCEPT !.claim = t]
                /\ requests' = [requests EXCEPT ![r] = request("loading")]

-----------------------------------------------------------------------------
(* Play requests *)

\* Mutant: the claim outlives the request.
Release_Keep(p, t) == p

\* The finally block of send_strm_to_player.
Release(p, t) == IF p.claim = t THEN [p EXCEPT !.claim = None] ELSE p

\* Mutant: a guard that is set already is not moved to the new track.
Sent_OldGuard(p, t) ==
    [p EXCEPT !.running = IF @ = t THEN t ELSE None, !.sent = IF @ = None THEN t ELSE @,
              !.fresh = TRUE, !.started = FALSE, !.mode = "play", !.current = t]

\* The bookkeeping after a strm 's' frame, up to play_track's next suspension.
Sent(p, t) ==
    [p EXCEPT !.running = IF @ = t THEN t ELSE None, !.sent = t, !.fresh = TRUE,
              !.started = FALSE, !.mode = "play", !.current = t]

\* The row is loaded. The old stream is stopped on the registered connection,
\* the new one starts on the connection the request began with.
Send(r) ==
    LET t == TrackAt(requests[r].index)
        stop == IF Switching(player) /\ link # 0 THEN <<Frame("q")>> ELSE <<>>
    IN  /\ requests[r].pc = "loading" /\ streams < MaxStreams
        /\ IF requests[r].link = link
           THEN /\ wire' = wire \o stop \o <<[cmd |-> "s", stream |-> streams + 1]>>
                /\ player' = Release(Sent(player, t), t)
                /\ Engine!NoteStrmSent("song")
                /\ requests' = [requests EXCEPT ![r].pc = "finishing"]
                /\ streams' = streams + 1
                /\ announced' = t
           ELSE /\ wire' = wire \o stop
                /\ player' = [Release(player, t) EXCEPT
                                !.resume = @ /\ requests[r].by \notin {"reboot", "rejoin"}]
                /\ requests' = [requests EXCEPT ![r].pc = "idle"]
                /\ UNCHANGED <<engine, streams, announced>>
        /\ UNCHANGED <<ends, link, reports, device, asks, links, advanced>>

\* The rest of play_track and playlist_play: the position is set once more.
Finish(r) ==
    /\ requests[r].pc = "finishing"
    /\ player' = [player EXCEPT !.position = requests[r].index,
                                !.resume = @ /\ requests[r].by \notin {"reboot", "rejoin"}]
    /\ requests' = [requests EXCEPT ![r].pc = "idle"]
    /\ UNCHANGED <<engine, ends, link, wire, reports, device, asks, links, streams, announced, advanced>>

-----------------------------------------------------------------------------
(* Users *)

\* Nothing is on its way, neither frames nor audio, and no task of the server
\* is about to act.
Quiet ==
    /\ wire = <<>> /\ reports = <<>> /\ ends = <<>>
    /\ device.phase \notin {"opening", "filling"}
    /\ \A r \in Slots : requests[r].pc = "idle"

UserActs(command) ==
    /\ command \in Commands
    /\ asks < MaxAsks
    /\ Hasty \/ Quiet
    /\ asks' = asks + 1
    /\ UNCHANGED <<ends, link, reports, device, links, streams, announced, advanced>>

\* playlist jump, index, next: a queue index to play.
Play ==
    /\ UserActs("play")
    /\ \E i \in 1 .. Count, r \in Slots : Start(r, player, i, "user", link)
    /\ UNCHANGED <<engine, wire>>

\* Mutant: the state machine is not told.
StopPlayer_Untold(p) ==
    IF link = 0 THEN player' = Forget(p) /\ UNCHANGED <<engine, wire>>
    ELSE /\ player' = [Forget(p) EXCEPT !.mode = "stop"]
         /\ wire' = Append(wire, Frame("q"))
         /\ UNCHANGED engine

\* stop_player: the guard is dropped even when the player is offline.
StopPlayer(p) ==
    IF link = 0 THEN player' = Forget(p) /\ UNCHANGED <<engine, wire>>
    ELSE /\ player' = [Forget(p) EXCEPT !.mode = "stop"]
         /\ wire' = Append(wire, Frame("q"))
         /\ Tell("Stop")

Stop == UserActs("stop") /\ StopPlayer(player) /\ UNCHANGED requests

\* pause_player: the web API asks for the mode first.
Pause ==
    /\ UserActs("pause")
    /\ CliPause \/ player.mode = "play"
    /\ link # 0
    /\ player' = [player EXCEPT !.mode = "pause"]
    /\ wire' = Append(wire, Frame("p"))
    /\ Tell("Pause")
    /\ UNCHANGED requests

Unpause ==
    /\ UserActs("pause")
    /\ CliPause \/ player.mode = "pause"
    /\ link # 0
    /\ player' = [player EXCEPT !.mode = "play"]
    /\ wire' = Append(wire, Frame("u"))
    /\ Tell("Resume")
    /\ UNCHANGED requests

-----------------------------------------------------------------------------
(* STAT reports: _handle_stat_frame. The reader of a new connection starts   *)
(* when the resumed playback has been asked for.                             *)

Resuming ==
    \E r \in Slots : /\ requests[r].pc # "idle" /\ requests[r].link = link
                     /\ requests[r].by \in {"reboot", "rejoin"}

Report(e) ==
    /\ reports # <<>> /\ Head(reports).event = e /\ ~Resuming
    /\ reports' = Tail(reports)
    /\ UNCHANGED <<requests, link, wire, device, asks, links, streams, announced, advanced>>

\* _schedule_track_end: the guard goes at once, a task will advance the queue.
TrackEnds(p) ==
    /\ player' = [Forget(p) EXCEPT !.dry = "none"]
    /\ ends' = Append(ends, [track |-> IF p.running # None THEN p.running ELSE p.sent,
                             of |-> Head(reports).over, at |-> streams])

\* An STMd came after the start of this stream, or before any start.
DecoderDry(p) == p.dry # "none" /\ (p.started => p.dry = "fresh")

\* Mutant: underruns end no track.
PlayedOut_Never(p) == p.dry # "none"

\* Mutant: any underrun ends the track.
PlayedOut_AnyUnderrun(p) == TRUE

\* _track_played_out, or an STMd of any age.
PlayedOut(p) == p.dry # "none" \/ p.started

\* Mutant: STMd is taken for the end of the track.
Heartbeat_DecodedIsOver ==
    /\ Report("STMt")
    /\ Tell("StatusHeartbeat")
    /\ LET moves == player.mode = "play" /\ Head(reports).moving
           p == IF moves THEN [player EXCEPT !.running = Believed(player)] ELSE player
       IN  IF p.mode = "play" /\ DecoderDry(p)
           THEN TrackEnds(p)
           ELSE player' = p /\ UNCHANGED ends

Heartbeat ==
    /\ Report("STMt")
    /\ Tell("StatusHeartbeat")
    /\ LET moves == player.mode = "play" /\ Head(reports).moving
           p == IF moves THEN [player EXCEPT !.running = Believed(player)] ELSE player
       IN  IF p.mode = "play" /\ Head(reports).empty /\ DecoderDry(p)
           THEN TrackEnds(p)
           ELSE player' = p /\ UNCHANGED ends

Underrun ==
    /\ Report("STMo")
    /\ Tell("OutputUnderrun")
    /\ IF player.mode = "play" /\ Head(reports).empty /\ PlayedOut(player)
       THEN TrackEnds(player)
       ELSE UNCHANGED <<player, ends>>

DecodeComplete ==
    /\ Report("STMd")
    /\ player' = [player EXCEPT !.dry = "fresh"]
    /\ UNCHANGED <<engine, ends>>

TrackStarted ==
    /\ Report("STMs")
    /\ Tell("Started")
    /\ player' = [player EXCEPT !.mode = "play", !.started = TRUE, !.done = None,
                                !.running = Believed(player),
                                !.dry = IF @ = "fresh" THEN "stale" ELSE @]
    /\ UNCHANGED ends

\* Mutant: the names of the device display.
PlayMode_Loading(c) ==
    IF Engine!IsStopped(c) THEN "stop"
    ELSE IF c.playing = "PAUSED" THEN "pause"
    ELSE IF c.playing = "BUFFERING" THEN "loading" ELSE "play"

\* Source::playmode: the mode the state machine stands for.
PlayMode(c) ==
    IF Engine!IsStopped(c) THEN "stop" ELSE IF c.playing = "PAUSED" THEN "pause" ELSE "play"

\* An STMf soon after a strm frame acknowledges that frame.
Flushed ==
    /\ Report("STMf")
    /\ IF player.fresh THEN UNCHANGED <<player, engine>>
       ELSE /\ Tell("Stopped")
            /\ player' = [Forget(player) EXCEPT
                            !.mode = IF @ = "pause" THEN @ ELSE PlayMode(engine')]
    /\ UNCHANGED ends

Paused ==
    /\ Report("STMp")
    /\ Tell("Pause")
    /\ player' = [player EXCEPT !.mode = "pause"]
    /\ UNCHANGED ends

Resumed ==
    /\ Report("STMr")
    /\ Tell("Resume")
    /\ player' = [player EXCEPT !.mode = "play"]
    /\ UNCHANGED ends

DecodeError ==
    /\ Report("STMn")
    /\ Tell("StreamingFailed")
    /\ player' = [Forget(player) EXCEPT !.mode = "stop"]
    /\ UNCHANGED ends

\* STRM_START_HANDSHAKE_WINDOW_S pass.
WindowCloses ==
    /\ player.fresh
    /\ player' = [player EXCEPT !.fresh = FALSE]
    /\ UNCHANGED <<engine, requests, ends, link, wire, reports, device,
                   asks, links, streams, announced, advanced>>

-----------------------------------------------------------------------------
(* The end of a track: _advance_after_track *)

\* The track whose end this is.
Ended(p, end) ==
    IF end.track # None THEN end.track ELSE IF p.running # None THEN p.running ELSE p.sent

\* The one-shot guard: the same end is reported more than once.
Handled(p, end) == p.done # None /\ Ended(p, end) \in {None, p.done}

\* nextsong, 0 at the end of the queue.
NextSong(i) ==
    IF Repeat = 1 THEN i
    ELSE IF i < Count THEN i + 1
    ELSE IF Repeat = 2 THEN 1 ELSE 0

Advance ==
    /\ ends # <<>>
    /\ ends' = Tail(ends)
    /\ LET end == Head(ends)
           p == [Forget(player) EXCEPT !.done = Ended(player, end), !.dry = "none"]
           next == NextSong(p.position)
       IN  /\ advanced' = IF Handled(player, end) THEN advanced ELSE end.at
           /\ IF Handled(player, end) THEN UNCHANGED <<player, engine, wire, requests>>
              ELSE IF next = 0 THEN StopPlayer(p) /\ UNCHANGED requests
              ELSE /\ \E r \in Slots : Start(r, p, next, "end", link)
                   /\ UNCHANGED <<engine, wire>>
    /\ UNCHANGED <<link, reports, device, asks, links, streams, announced>>

-----------------------------------------------------------------------------
(* The control connection *)

\* The connection is closed and its handler has cleaned up: whether the player
\* was playing is kept for its return. The player keeps its audio or drops it.
Lost ==
    /\ link # 0 /\ links < MaxLinks
    /\ link' = 0
    /\ player' = [Forget(player) EXCEPT !.resume = (player.mode = "play")]
    /\ wire' = <<>> /\ reports' = <<>>
    /\ device' \in {device, Silent}
    /\ UNCHANGED <<engine, requests, ends, asks, links, streams, announced, advanced>>

\* _register_player_writer
Welcome(p) == Forget(p)

\* The queue is put back to its start; what is played from there is not decided.
Reset(p) == [p EXCEPT !.position = 1, !.current = None]

\* A HELO, of a player that is offline or has a connection the server still
\* holds. The reconnect bit tells that it has not rebooted. resume_on_power
\* asks for the track it was playing, unless it plays already.
Hello(rebooted) ==
    /\ links < MaxLinks
    /\ links' = links + 1 /\ link' = links + 1
    /\ rebooted => device' = Silent
    /\ ~rebooted => UNCHANGED device
    /\ reports' = <<>>
    /\ engine' = Engine!Fresh(FALSE)
    /\ \E reset \in {FALSE, ResetOn} :
       LET plays == player.mode = "play" /\ link # 0
           p == IF reset /\ ~plays THEN Reset(Welcome(player)) ELSE Welcome(player)
       IN  IF plays \/ ~ResumeOn \/ ~p.resume
           THEN player' = p /\ wire' = <<>> /\ UNCHANGED requests
           ELSE IF ~rebooted /\ p.mode = "pause"
           THEN /\ player' = [p EXCEPT !.mode = "play", !.resume = FALSE]
                /\ wire' = <<Frame("u")>>
                /\ UNCHANGED requests
           ELSE /\ \E r \in Slots :
                    Start(r, p, p.position, IF rebooted THEN "reboot" ELSE "rejoin", link')
                /\ wire' = <<>>
    /\ UNCHANGED <<ends, asks, streams, announced, advanced>>

-----------------------------------------------------------------------------
(* The player: what the code in src/ relies on of Squeezelite and SqueezePlay *)

\* A task of the event loop that is ready runs before anything new is read from
\* the network: what a player does while an advance is pending comes after it.
PlayerActs ==
    /\ ends = <<>>
    /\ UNCHANGED <<player, engine, requests, ends, link, asks, links, streams, announced, advanced>>

\* The player reports; what it says while it is offline is lost.
Says(e, moving) ==
    LET r == [event |-> e, empty |-> device'.phase # "running", moving |-> moving,
              over |-> IF device'.phase = "drained" THEN device.stream ELSE 0]
    IN  IF link = 0 THEN UNCHANGED reports
        ELSE Len(reports) < MaxReports /\ reports' = Append(reports, r)

\* A strm frame arrives and is acknowledged.
Obey ==
    /\ wire # <<>>
    /\ wire' = Tail(wire)
    /\ LET f == Head(wire)
       IN  CASE f.cmd = "s" ->
                  /\ device' = [Silent EXCEPT !.phase = "opening", !.stream = f.stream]
                  /\ Says("STMf", FALSE)
             [] f.cmd = "q" -> device' = Silent /\ Says("STMf", FALSE)
             [] f.cmd = "p" ->
                  /\ device' = [device EXCEPT !.paused = TRUE]
                  /\ Says("STMp", FALSE)
             [] f.cmd = "u" ->
                  /\ device' = [device EXCEPT !.paused = FALSE]
                  /\ Says("STMr", FALSE)
    /\ PlayerActs

\* GET /stream.mp3?player=MAC: the server picks the item to send.
Served(i) == Playlist[i]

Fetch ==
    /\ device.phase = "opening"
    /\ device' = [device EXCEPT !.phase = "filling", !.track = Served(player.position)]
    /\ UNCHANGED <<wire, reports>>
    /\ PlayerActs

\* The output is empty until the stream starts, and the player may say so (the
\* underrun of a start).
Starve ==
    /\ device.phase \in {"opening", "filling"}
    /\ UNCHANGED <<wire, device>>
    /\ Says("STMo", FALSE)
    /\ PlayerActs

Begin ==
    /\ device.phase = "filling" /\ ~device.paused
    /\ device' = [device EXCEPT !.phase = "running"]
    /\ Says("STMs", FALSE)
    /\ UNCHANGED wire
    /\ PlayerActs

\* The decoder has read the whole file, which is reported once.
Decoded ==
    /\ ~device.decoded
    /\ device.phase = "running" \/ (LateDecode /\ device.phase = "drained")
    /\ device' = [device EXCEPT !.decoded = TRUE]
    /\ Says("STMd", FALSE)
    /\ UNCHANGED wire
    /\ PlayerActs

\* The output has played everything.
Drain ==
    /\ device.phase = "running" /\ ~device.paused
    /\ device' = [device EXCEPT !.phase = "drained"]
    /\ Says("STMo", FALSE)
    /\ UNCHANGED wire
    /\ PlayerActs

\* The track cannot be decoded.
Broken ==
    /\ device.phase = "filling"
    /\ device' = Silent
    /\ Says("STMn", FALSE)
    /\ UNCHANGED wire
    /\ PlayerActs

\* A timing tick, or the answer to the server's poll.
Tick ==
    /\ reports = <<>> /\ link # 0
    /\ UNCHANGED <<wire, device>>
    /\ \E moving \in {FALSE, device.phase = "running" /\ ~device.paused} : Says("STMt", moving)
    /\ PlayerActs

-----------------------------------------------------------------------------
Command == Play \/ Stop \/ Pause \/ Unpause

Handle == Heartbeat \/ Underrun \/ DecodeComplete \/ TrackStarted \/ Flushed
          \/ Paused \/ Resumed \/ DecodeError

Next ==
    \/ Command
    \/ \E r \in Slots : Send(r) \/ Finish(r)
    \/ Handle
    \/ WindowCloses
    \/ Advance
    \/ Lost
    \/ \E rebooted \in BOOLEAN : Hello(rebooted)
    \/ Obey \/ Fetch \/ Starve \/ Begin \/ Decoded \/ Drain \/ Broken \/ Tick

Spec == Init /\ [][Next]_vars

\* The event loop runs what is ready, and a player goes on playing what it has.
Fairness ==
    /\ \A r \in Slots : WF_vars(Send(r)) /\ WF_vars(Finish(r))
    /\ WF_vars(Handle) /\ WF_vars(Advance)
    /\ WF_vars(Obey) /\ WF_vars(Fetch) /\ WF_vars(Begin) /\ WF_vars(Drain)

FairSpec == Spec /\ Fairness

-----------------------------------------------------------------------------
(* Properties *)

\* What playback itself keeps has its type.
PlaybackTypeOK ==
    /\ player \in PlayerStates
    /\ requests \in [Slots -> Requests]
    /\ ends \in Seq(Ends)
    /\ link \in 0 .. MaxLinks /\ links \in 0 .. MaxLinks
    /\ wire \in Seq(Frames)
    /\ reports \in Seq(Reports)
    /\ device \in Devices
    /\ asks \in 0 .. MaxAsks
    /\ streams \in Nat /\ advanced \in Nat
    /\ announced \in MaybeTrack

\* Every variable keeps its type.
TypeOK == PlaybackTypeOK /\ engine \in Engine!Controllers

\* stream_in_flight is never left behind: a claimed track is being loaded by a
\* request that will release it, however requests for other tracks overlap.
ClaimHeld ==
    player.claim # None =>
        \E r \in Slots : requests[r].pc = "loading" /\ TrackAt(requests[r].index) = player.claim

\* Two concurrent requests for one track cannot both pass the check and send
\* (send_strm_to_player, R0.5-P3).
NoDoubleLoad ==
    \A r, q \in Slots :
        r # q /\ requests[r].pc = "loading" /\ requests[q].pc = "loading"
            => requests[r].index # requests[q].index

\* The guard names the track that was streamed last, if it names one, whatever
\* overlapping requests, ends and reconnects did in between; the caller cannot
\* set it optimistically (send_strm_to_player).
GuardTruth == player.sent \in {announced, None}

\* The end of a stream is noticed when that stream, and no earlier one, has
\* been played to its end (_track_played_out).
EndsPlayed == \A i \in 1 .. Len(ends) : ends[i].of = ends[i].at

Playing(d) == d.phase = "running"

\* With nothing on its way the status tells what the player does; a status
\* that says "play" for a silent player makes the next play of that track do
\* nothing (AlreadyPlaying).
StatusTruth ==
    Quiet /\ link # 0 =>
        player.mode = (IF ~Playing(device) THEN "stop"
                       ELSE IF device.paused THEN "pause" ELSE "play")

\* The player has the audio of a stream, or a request is about to send one.
HasStream ==
    \/ device.phase \in {"opening", "filling", "running"}
    \/ \E i \in 1 .. Len(wire) : wire[i].cmd = "s"
    \/ \E r \in Slots : requests[r].pc = "loading"

\* A play request that is answered without streaming is one that has nothing to
\* do: a guard that outlives the stream would leave the player silent
\* (send_strm_to_player, R0.5-P1).
SkipsOnlyPlaying ==
    [][(\E r \in Slots : requests[r].pc = "idle" /\ requests'[r].pc = "finishing")
         => HasStream]_vars

\* With nothing on its way, the player plays the track that the last strm frame
\* was sent for.
ServedAsSent ==
    Quiet /\ device.phase \in {"filling", "running", "drained"} /\ device.stream = streams
        => device.track = announced

\* However often the end of a stream is reported, it moves the queue once.
AdvanceOnce ==
    [][ends # <<>> /\ ends' = Tail(ends) /\ ~Handled(player, Head(ends))
         => Head(ends).at > advanced]_vars

\* The end of a stream moves the queue only while no newer stream has been sent:
\* the player does not hold the stream we sent any more (_advance_after_track).
EndsCurrent ==
    [][ends # <<>> /\ ends' = Tail(ends) /\ ~Handled(player, Head(ends))
         => Head(ends).at = streams]_vars

\* A queue goes on after a track: what has played out is followed by the next
\* track, or by a stop.
QueueGoesOn ==
    device.phase = "drained" ~> device.phase # "drained" \/ player.mode # "play" \/ link = 0

\* The reconnect bit means that only the control connection dropped: playback
\* that survived it is not started over (_handle_player, resume on connect).
RejoinKeepsStream ==
    [][\A r \in Slots :
         /\ requests[r].by = "rejoin" /\ requests[r].link = link
         /\ requests[r].pc = "loading" /\ requests'[r].pc = "finishing"
         => device.phase # "running"]_vars

\* With nothing on its way, the state machine stands for the mode that the
\* status tells.
EngineAgrees == Quiet /\ link # 0 => PlayMode(engine) = player.mode
=============================================================================
