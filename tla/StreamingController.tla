------------------------- MODULE StreamingController -------------------------
(***************************************************************************)
(* The playback state machine of one player: class StreamingController of  *)
(* src/lyrion/player/streaming.py.  An event is looked up in a table by    *)
(* (event, playing state, streaming state); the table names an action; the *)
(* action asks hooks (is the next song there? did the stream open? may we  *)
(* skip?) and updates the controller.                                      *)
(*                                                                         *)
(* An action is written as an operator from a controller to the SET of     *)
(* controllers it may leave behind, one for each answer its hooks can      *)
(* give, so that actions that call actions compose as they do in the code. *)
(*                                                                         *)
(* A controller is a record:                                               *)
(*   hooked               a full set of hooks; else default_hooks() only   *)
(*   playing, streaming   the two state variables the table is indexed by  *)
(*   rebuffering          an output underrun interrupted the song          *)
(*   queue                songqueue: head is streaming, last is playing    *)
(*   open                 song_stream_controller is not None               *)
(*   resume               resume_time is not None                          *)
(*   next                 next_track                                       *)
(*   cbid                 next_track_callback_id                           *)
(*   errors               consecutive_errors                               *)
(*   calls                get_next_song requests not answered yet          *)
(***************************************************************************)
EXTENDS Naturals, Sequences, FiniteSets

CONSTANTS
  Songs,            \* song objects (compared by identity)
  NoSong,           \* None
  PlaylistCount,    \* what the playlist_count hook answers
  MaxCallbackId,    \* bound: no event is handled once cbid reaches it
  MaxQueue          \* bound: no strm frame is noted on a queue this long

ASSUME SongsAssumption == NoSong \notin Songs
ASSUME BoundsAssumption ==
  /\ PlaylistCount \in Nat
  /\ MaxCallbackId \in Nat
  /\ MaxQueue \in Nat

VARIABLE ctl

vars == <<ctl>>

PlayingStates   == {"STOPPED", "BUFFERING", "WAITING_TO_SYNC", "PLAYING", "PAUSED"}
StreamingStates == {"IDLE", "STREAMING", "STREAMOUT", "TRACKWAIT"}

(* VALID_STATES: the combinations that do not log an error.                *)
ValidStates ==
  [p \in PlayingStates |->
     CASE p = "STOPPED" -> {"IDLE", "TRACKWAIT"}
       [] p \in {"BUFFERING", "WAITING_TO_SYNC"} -> {"STREAMING", "STREAMOUT"}
       [] OTHER -> StreamingStates]

Controllers ==
  [hooked      : BOOLEAN,
   playing     : PlayingStates,
   streaming   : StreamingStates,
   rebuffering : BOOLEAN,
   queue       : Seq(Songs),
   open        : BOOLEAN,
   resume      : BOOLEAN,
   next        : Songs \union {NoSong},
   cbid        : Nat,
   errors      : Nat,
   calls       : SUBSET [id : Nat, song : Songs]]

Fresh(hooked) ==
  [hooked |-> hooked, playing |-> "STOPPED", streaming |-> "IDLE", rebuffering |-> FALSE,
   queue |-> <<>>, open |-> FALSE, resume |-> FALSE, next |-> NoSong,
   cbid |-> 0, errors |-> 0, calls |-> {}]

-----------------------------------------------------------------------------
UserEvents   == {"Stop", "Play", "Pause", "Resume", "Flush", "Skip", "JumpToTime"}
PlayerEvents == {"ContinuePlay", "LocalEndOfStream", "BufferReady", "Started",
                 "StreamingFailed", "EndOfStream", "ReadyToStream", "Stopped",
                 "OutputUnderrun", "StatusHeartbeat"}

(* The events networking/protocol.py feeds: all that a controller with     *)
(* default_hooks() ever sees.                                              *)
LiveEvents == {"Stop", "Pause", "Resume", "Flush", "Started", "StreamingFailed",
               "Stopped", "OutputUnderrun", "StatusHeartbeat"}

(* STATE_TABLE.  The cells of the table that leave the controller alone    *)
(* (_NoOp, _BadState, _Invalid, _CheckSync, _CheckPaused: they log, or     *)
(* call a hook that owns no controller state) are all "Ignore".  _BadState *)
(* stands exactly in the cells outside VALID_STATES.                       *)
StateTable(e, p, s) ==
  LET buffering == p \in {"BUFFERING", "WAITING_TO_SYNC"}
      streaming == s \in {"STREAMING", "STREAMOUT"}
      started   == p \in {"PLAYING", "PAUSED"}
  IN
  IF s \notin ValidStates[p] THEN "Ignore" ELSE
  CASE e = "Stop" -> IF p = "STOPPED" /\ s = "IDLE" THEN "Ignore" ELSE "Stop"
    [] e = "Play" -> "StopGetNext"
    [] e = "ContinuePlay" ->
         (CASE p = "PAUSED" \/ (p = "STOPPED" /\ s = "IDLE") -> "Stop"
            [] p = "PLAYING" -> IF s = "TRACKWAIT" THEN "PlayIfReady" ELSE "Continue"
            [] OTHER -> "StopGetNext")
    [] e = "Pause" /\ p = "PLAYING" -> "Pause"
    [] e \in {"Pause", "Resume"} /\ p = "PAUSED" ->
         IF s = "IDLE" THEN "JumpOrResume" ELSE "Resume"
    [] e = "Flush" /\ started -> "FlushGetNext"
    [] e = "Skip" ->
         (CASE s = "IDLE" -> "StopGetNext"
            [] p = "STOPPED" /\ s # "IDLE" -> "Ignore"
            [] OTHER -> "Skip")
    [] e = "JumpToTime" /\ (buffering \/ p = "PLAYING") -> "JumpToTime"
    [] e = "JumpToTime" /\ p = "PAUSED" -> "JumpPaused"
    [] e = "NextTrackReady" /\ s = "TRACKWAIT" ->
         IF p = "STOPPED" THEN "Stream" ELSE "StreamIfReady"
    [] e = "NextTrackError" /\ s = "TRACKWAIT" -> "NextIfMore"
    [] e = "LocalEndOfStream" /\ s = "STREAMING" -> "Streamout"
    [] e = "BufferReady" /\ buffering ->
         IF p = "BUFFERING" THEN "WaitToSync" ELSE "StartIfReady"
    [] e = "Started" /\ (p = "BUFFERING" \/ (started /\ streaming)) -> "Playing"
    [] e = "Started" /\ started /\ ~streaming ->
         IF s = "IDLE" THEN "PlayAndNext" ELSE "PlayAndStream"
    [] e = "StreamingFailed" /\ streaming ->
         (CASE buffering -> "StopNextIfMore"
            [] p = "PLAYING" -> "SyncStopNext"
            [] OTHER -> "Stop")
    [] e = "EndOfStream" /\ buffering ->
         IF s = "STREAMING" THEN "StartStreamout" ELSE "Start"
    [] e = "EndOfStream" /\ p = "PLAYING" /\ streaming -> "AutoStart"
    [] e = "EndOfStream" /\ p = "PAUSED" /\ s = "STREAMING" -> "Streamout"
    [] e = "ReadyToStream" /\ started /\ s # "IDLE" ->
         (CASE s = "TRACKWAIT" -> "StreamIfReady"
            [] p = "PLAYING" /\ s = "STREAMOUT" -> "RetryOrNext"
            [] OTHER -> "NextIfMore")
    [] e = "Stopped" /\ started ->
         (CASE streaming -> "Buffering"
            [] p = "PLAYING" /\ s = "TRACKWAIT" -> "PlayIfReady"
            [] OTHER -> "Stopped")
    [] e = "OutputUnderrun" /\ p = "PLAYING" /\ streaming -> "Rebuffer"
    [] e = "StatusHeartbeat" /\ p = "WAITING_TO_SYNC" -> "StartIfReady"
    [] OTHER -> "Ignore"

-----------------------------------------------------------------------------
(* The two state mutators and the actions that leave one possible result.  *)

SetPlaying(c, p) ==
  [c EXCEPT !.playing = p,
            !.rebuffering = @ /\ p \in {"BUFFERING", "WAITING_TO_SYNC"}]

SetStreaming_KeepsId(c, s) ==
  [c EXCEPT !.streaming = s, !.next = IF s = "IDLE" THEN NoSong ELSE @]

SetStreaming(c, s) ==
  IF s = "IDLE"
  THEN [c EXCEPT !.streaming = s, !.cbid = @ + 1, !.next = NoSong]
  ELSE [c EXCEPT !.streaming = s]

EndAt(q, n) == IF Len(q) > n THEN SubSeq(q, Len(q) - n + 1, Len(q)) ELSE q

PlayingSong(c)   == IF c.queue = <<>> THEN NoSong ELSE c.queue[Len(c.queue)]
StreamingSong(c) == IF c.queue = <<>> THEN NoSong ELSE c.queue[1]

Stop(c) ==
  SetStreaming(SetPlaying([c EXCEPT !.queue = EndAt(@, 1), !.open = FALSE], "STOPPED"), "IDLE")

Playing(c) ==
  [IF c.rebuffering THEN c ELSE SetPlaying(c, "PLAYING") EXCEPT !.errors = 0]

Resume(c) == [SetPlaying(c, "PLAYING") EXCEPT !.resume = FALSE]

Pause(c) == SetPlaying([c EXCEPT !.resume = TRUE], "PAUSED")

Rebuffer(c) ==
  [SetPlaying(c, "BUFFERING") EXCEPT !.rebuffering = TRUE, !.resume = TRUE]

Start(c) == IF c.rebuffering THEN Resume(c) ELSE Playing(c)

PauseStreaming(c) ==
  IF c.streaming = "IDLE" THEN c ELSE SetStreaming([c EXCEPT !.open = FALSE], "IDLE")

-----------------------------------------------------------------------------
(* Asking for the next track.  make_song may fail: next_track_error then   *)
(* counts the error and resolves NextTrackError, whose _NextIfMore asks    *)
(* again if fewer than two songs are queued, until the errors exceed the   *)
(* playlist.  Failed(c, k) is the controller after k such rounds.          *)

Failed(c, k) ==
  IF k = 0 THEN c
  ELSE [c EXCEPT !.streaming = "IDLE", !.next = NoSong,
                 !.cbid = @ + 2 * k, !.errors = @ + k]

AwaitSong_Unnamed(c, song) ==
  [c EXCEPT !.streaming = "TRACKWAIT", !.next = NoSong, !.cbid = @ + 1,
            !.calls = @ \union {[id |-> c.cbid + 1, song |-> NoSong]}]

AwaitSong(c, song) ==
  [c EXCEPT !.streaming = "TRACKWAIT", !.next = NoSong, !.cbid = @ + 1,
            !.calls = @ \union {[id |-> c.cbid + 1, song |-> song]}]

GetNextTrack(c, ifMore) ==
  IF c.errors > PlaylistCount \/ ~c.hooked
  THEN {c}
  ELSE LET tries == IF Len(c.queue) < 2 THEN PlaylistCount + 1 - c.errors ELSE 1
       IN  (IF ifMore THEN {c} ELSE {})
             \union {Failed(c, k) : k \in 1 .. tries}
             \union {AwaitSong(Failed(c, k), song) : k \in 0 .. tries - 1, song \in Songs}

NextIfMore(c) ==
  LET d == SetStreaming(c, "IDLE")
  IN  IF Len(d.queue) < 2 THEN GetNextTrack(d, TRUE) ELSE {d}

StopGetNext(c) == GetNextTrack(Stop(c), FALSE)

Skip(c) == {c} \union StopGetNext(c)          \* the protocol handler may veto

-----------------------------------------------------------------------------
(* Streaming a song.                                                       *)

Opened_StaysStopped(c) ==
  [SetStreaming(c, "STREAMING") EXCEPT !.open = TRUE, !.next = NoSong]
Opened_NotKept(c) ==
  [SetStreaming(IF c.playing = "STOPPED" THEN SetPlaying(c, "BUFFERING") ELSE c,
                "STREAMING") EXCEPT !.next = NoSong]

Opened(c) ==
  LET d == SetStreaming(IF c.playing = "STOPPED" THEN SetPlaying(c, "BUFFERING") ELSE c,
                        "STREAMING")
  IN  [d EXCEPT !.open = TRUE, !.next = NoSong]

(* open_stream fails (and may be retried later), or it succeeds; players   *)
(* that report no track start are advanced at once.  Without hooks it      *)
(* always succeeds.                                                        *)
Stream(c, song) ==
  LET s == IF song # NoSong THEN song ELSE c.next
      q == EndAt(c.queue, 2)
      d == [c EXCEPT !.open = FALSE,
                     !.queue = IF q # <<>> /\ q[1] = s THEN q ELSE <<s>> \o q]
  IN  IF s = NoSong THEN NextIfMore(c)
      ELSE {Opened(d)} \union
           (IF c.hooked THEN {d, Playing(Opened(d))} \union NextIfMore(d) ELSE {})

StreamIfReady(c) ==
  {c} \union (IF c.next # NoSong /\ c.hooked THEN Stream(c, NoSong) ELSE {})

PlayIfReady(c) ==
  LET d == SetPlaying(c, "STOPPED")
  IN  IF d.next # NoSong THEN Stream(d, NoSong) ELSE {d}

(* Refused, past the end of the song, or restarted at the new position;    *)
(* without hooks the song has no duration and is restarted.                *)
JumpToTime(c) ==
  Stream(Stop(c), PlayingSong(Stop(c))) \union (IF c.hooked THEN Skip(c) ELSE {})

JumpPaused(c) ==
  {c, Stop(c), PauseStreaming([c EXCEPT !.resume = TRUE])}

JumpOrResume(c) ==
  IF c.resume THEN {[d EXCEPT !.resume = FALSE] : d \in JumpToTime(c)} ELSE {Resume(c)}

Continue(c) ==
  {SetStreaming(c, "STREAMOUT")} \union Stream(c, NoSong) \union JumpToTime(c)

FlushGetNext(c) ==
  GetNextTrack(SetStreaming([c EXCEPT !.queue = IF @ = <<>> THEN @ ELSE Tail(@)], "IDLE"), TRUE)

(* What the rest of a failed stream may do: retry later, or go on.         *)
RetryOrGoOn(c) == {c} \union GetNextTrack(c, TRUE)

SyncStopNext(c) ==
  RetryOrGoOn(SetStreaming(c, "IDLE")) \union
  (IF c.hooked THEN RetryOrGoOn(Stop(c)) \union RetryOrGoOn(SetStreaming(c, "STREAMOUT"))
             ELSE {})

RetryOrNext(c) ==
  LET d == SetStreaming(c, "IDLE")
  IN  NextIfMore(c) \union (IF c.hooked THEN Stream(d, StreamingSong(d)) ELSE {})

StartIfReady(c) == {c} \union (IF c.hooked THEN {Start(c)} ELSE {})

Outcomes(action, c) ==
  CASE action = "Ignore"         -> {c}
    [] action = "Stop"           -> {Stop(c)}
    [] action = "StopGetNext"    -> StopGetNext(c)
    [] action = "Skip"           -> Skip(c)
    [] action = "Pause"          -> {Pause(c)}
    [] action = "Resume"         -> {Resume(c)}
    [] action = "JumpOrResume"   -> JumpOrResume(c)
    [] action = "JumpToTime"     -> JumpToTime(c)
    [] action = "JumpPaused"     -> JumpPaused(c)
    [] action = "FlushGetNext"   -> FlushGetNext(c)
    [] action = "Stream"         -> Stream(c, NoSong)
    [] action = "StreamIfReady"  -> StreamIfReady(c)
    [] action = "PlayIfReady"    -> PlayIfReady(c)
    [] action = "NextIfMore"     -> NextIfMore(c)
    [] action \in {"Streamout", "AutoStart"} -> {SetStreaming(c, "STREAMOUT")}
    [] action = "StartStreamout" -> {Start(SetStreaming(c, "STREAMOUT"))}
    [] action = "Start"          -> {Start(c)}
    [] action = "StartIfReady"   -> StartIfReady(c)
    [] action = "WaitToSync"     -> StartIfReady(SetPlaying(c, "WAITING_TO_SYNC"))
    [] action = "Playing"        -> {Playing(c)}
    [] action = "PlayAndNext"    -> GetNextTrack(Playing(c), TRUE)
    [] action = "PlayAndStream"  -> StreamIfReady(Playing(c))
    [] action = "Continue"       -> Continue(c)
    [] action = "StopNextIfMore" -> RetryOrGoOn(Stop(c))
    [] action = "SyncStopNext"   -> SyncStopNext(c)
    [] action = "RetryOrNext"    -> RetryOrNext(c)
    [] action = "Buffering"      -> {SetPlaying(c, "BUFFERING")}
    [] action = "Stopped"        -> {SetPlaying(c, "STOPPED")}
    [] action = "Rebuffer"       -> {Rebuffer(c)}

(* resolve(): look the event up and run its action.                        *)
Resolve(e, c) == Outcomes(StateTable(e, c.playing, c.streaming), c)

-----------------------------------------------------------------------------
Init == ctl \in {Fresh(hooked) : hooked \in BOOLEAN}

(* The PlayControl interface; play() and skip() forgive earlier errors.    *)
UserAsks(e) ==
  /\ ctl.hooked \/ e \in LiveEvents
  /\ ctl.cbid < MaxCallbackId
  /\ ctl' \in Resolve(e, IF e \in {"Play", "Skip"} THEN [ctl EXCEPT !.errors = 0] ELSE ctl)

(* The PlayerNotificationHandler interface.                                *)
PlayerReports(e) ==
  /\ ctl.hooked \/ e \in LiveEvents
  /\ ctl.cbid < MaxCallbackId
  /\ ctl' \in Resolve(e, ctl)

NextTrackReady_AnyId(call) ==
  /\ ctl.cbid < MaxCallbackId
  /\ ctl' \in Resolve("NextTrackReady",
                      [ctl EXCEPT !.calls = @ \ {call}, !.next = call.song])

(* next_track_ready: get_next_song calls on_ready, at any later time.      *)
NextTrackReady(call) ==
  /\ ctl.cbid < MaxCallbackId
  /\ LET c == [ctl EXCEPT !.calls = @ \ {call}]
     IN  ctl' \in IF call.id = ctl.cbid
                  THEN Resolve("NextTrackReady", [c EXCEPT !.next = call.song])
                  ELSE {c}

(* next_track_error: get_next_song calls on_error.                         *)
NextTrackError(call) ==
  /\ ctl.cbid < MaxCallbackId
  /\ LET c == [ctl EXCEPT !.calls = @ \ {call}]
     IN  ctl' \in IF call.id = ctl.cbid
                  THEN Resolve("NextTrackError", [c EXCEPT !.errors = @ + 1])
                  ELSE {c}

NoteStrmSent_NoBuffering(track) ==
  /\ ~ctl.hooked
  /\ Len(ctl.queue) < MaxQueue
  /\ ctl' = SetStreaming([ctl EXCEPT !.next = NoSong], "STREAMING")

(* note_strm_sent: the server sent the strm frame itself.                  *)
NoteStrmSent(track) ==
  /\ ~ctl.hooked
  /\ Len(ctl.queue) < MaxQueue
  /\ LET song == IF track # NoSong THEN track
                 ELSE IF ctl.next # NoSong THEN ctl.next ELSE PlayingSong(ctl)
         c == [ctl EXCEPT !.next = NoSong,
                          !.queue = IF song = NoSong \/ StreamingSong(ctl) = song
                                    THEN @ ELSE <<song>> \o @]
     IN  ctl' = SetStreaming(IF c.playing = "STOPPED" THEN SetPlaying(c, "BUFFERING") ELSE c,
                             "STREAMING")

(* reset(mac): a (re)connecting player gets a new controller; callbacks of *)
(* the old one keep the old object.                                        *)
Reset == \E hooked \in BOOLEAN : ctl' = Fresh(hooked)

Next ==
  \/ \E e \in UserEvents : UserAsks(e)
  \/ \E e \in PlayerEvents : PlayerReports(e)
  \/ \E call \in ctl.calls : NextTrackReady(call) \/ NextTrackError(call)
  \/ \E track \in Songs \union {NoSong} : NoteStrmSent(track)
  \/ Reset

Spec == Init /\ [][Next]_vars

-----------------------------------------------------------------------------
IsStopped(c) == c.playing = "STOPPED" /\ c.streaming = "IDLE"

(* The controller is a record of the stated shape.                         *)
TypeOK == ctl \in Controllers

(* No event, in whatever order users, players and callbacks deliver them,  *)
(* leaves a combination of states that resolve() logs as invalid: every    *)
(* action the table can reach repairs both variables before it returns.    *)
StateValid == ctl.streaming \in ValidStates[ctl.playing]

(* The answer to a request for the next track counts only while the        *)
(* controller is still waiting for exactly that track: every path that     *)
(* leaves TRACKWAIT, or asks again, has made the older request's id stale. *)
CallbackDiscipline ==
  \A call \in ctl.calls :
    /\ call.id <= ctl.cbid
    /\ call.id = ctl.cbid => ctl.streaming = "TRACKWAIT" /\ ctl.next = NoSong
    /\ \A other \in ctl.calls : call.id = other.id => call = other

(* A song is held ready only while the controller waits to stream it: no   *)
(* path that stops, flushes or streams leaves a song behind that a later   *)
(* event could start.                                                      *)
ReadyOnlyWhileWaiting == ctl.next # NoSong => ctl.streaming = "TRACKWAIT"

(* A playlist of unplayable songs is given up: get_next_track stops asking *)
(* after one error more than the playlist has songs.                       *)
GivesUp == ctl.errors <= PlaylistCount + 1

(* With hooks, a controller in STREAMING holds an open source stream, and  *)
(* never one that a stop or a failed open has closed.                      *)
SourceOpen == ctl.hooked /\ ctl.streaming = "STREAMING" => ctl.open

(* Requests overtaken by a newer one are dead: whatever answer the older   *)
(* one still gets, and in whatever order the answers come, it changes      *)
(* neither the state nor the song that will be streamed.                   *)
OlderAnswersIgnored ==
  [][\A older, newer \in ctl.calls :
       older.id < newer.id /\ ctl'.calls = ctl.calls \ {older}
         => [ctl' EXCEPT !.calls = {}] = [ctl EXCEPT !.calls = {}]]_vars
=============================================================================
