# A TLA+ model of slimserver-python

slimserver-python is a music server in Python: it speaks SlimProto with hardware
and software players, keeps their queues and states, streams audio to them over
HTTP, and offers the command line, JSON-RPC, Cometd and web interfaces of the
Lyrion Music Server. It is one asyncio process (`src/src/lyrion`, about 79 000
lines); almost everything hard about it comes from tasks that suspend in the
middle of an operation, from players that answer late, twice or not at all, and
from timers. This directory holds the specifications of its core, the TLC
configurations that check them on small instances, and TLAPS proofs for every
value of the constants.

    tlc -workers 2 -config MCTrackPlayback.cfg MCTrackPlayback.tla
    tlapm TrackPlayback_proofs.tla

Source paths below are relative to `src/src/lyrion`.

## 1. Inventory

### The parts and how they interact

```
 user interfaces                 managers                     networking
 web/api.py, CLI, Jive --call--> player/manager.py --call--> networking/protocol.py
 web/cometd.py <--notify--+        |  PlayerState              |  TCP 3483: strm, audg, ...
                          |        |                           |  STAT, HELO, RESP, BYE!
 alarms.py --call---------+        +--> player/streaming.py <--+ events
                                                               v
                             web/stream.py <--HTTP GET-- the player
 control/rescan.py --process--> media/scan_worker.py --> database
```

Handlers call each other directly; shared state is module-level dictionaries and
the `PlayerState` objects of `PlayerManager.players`. There is one thread for all
of this, so state changes between two `await`s are atomic, and everything read
before an `await` may be stale after it. The scanner is a second process that
shares two files with the server.

| Component | State | Operations | Hard behaviours | What makes it correct |
|---|---|---|---|---|
| **Control connections** `networking/protocol.py` (`_handle_player`, `_keepalive_loop`, `_schedule_forget`), `PlayerManager.register_player` | writer registry, connection counter, heartbeat ages, forget task, `PlayerState.connected` | accept, HELO in two layouts, take-over by a newer socket, read, poll, drop, disconnect, forget | two handlers of one player at once; a replaced handler that ends late; death without a FIN; timer against reconnect | one live socket per player; online means served; an offline player is forgotten after exactly one grace period; subscribers know the truth |
| **Track playback** `player/manager.py` (`play_track`, `playlist_play`, `stop_player`, `pause_player`, `resume_on_power`), `protocol.py` (`send_strm_to_player`, `_handle_stat_frame`, `_advance_after_track`), `web/stream.py` | `PlayerState`: position, mode, `strm_sent_track`, `stream_in_flight`, `playing_track_id`, `_last_stmd`, `_track_end_done_for`, `playing_at_power_off`, ... | play, stop, pause, resume, eight kinds of STAT, end of track, connection lost, resume on connect, fetch | overlapping requests; one end reported three times; reports of the old stream after the new one started; guard read before and written after an await; reconnect with audio running | claims are released; the guard against sending twice is truthful; an end is noticed once, for the stream that ended; the queue goes on; the status is true when nothing is under way |
| **Playback state machine** `player/streaming.py` | playing state, streaming state, song queue, callback id, consecutive errors | 21 events through a 2-D table, hooks | answers to overtaken requests; errors without end; actions that call actions | only valid combinations; a late answer changes nothing; it gives up |
| **Sync groups** `player/manager.py` (`sync_players`, `unsync_player`, `unregister_player`) | `sync_master`, `sync_slaves` of every player | group, ungroup, regroup, forget | long legal sequences; a master that becomes a slave; a member that is forgotten | both ends of a link agree; no circles; no link to a forgotten player |
| Remote streams `protocol.py` (`send_remote_stream`, `_send_cont_after_resp`, `_handle_resp_frame`) | RESP waiters, ICY title | start a stream, RESP, cont, timeout | a second stream overwrites the waiter of the first, whose timeout then stops the newer one | each stream gets its own cont; a timeout ends only its own stream |
| Audio bodies `web/stream.py`, `media/transcoding.py` | open bodies, transcoder processes | GET, range, transcode, 404 | the item is chosen when the player asks, not when it was told to | the body is that of the announced stream |
| **Queue editing** `player/manager.py` (`reshuffle`, `shufflelist`, `playlist_add`, `playlist_remove`, `playlist_play`, `nextsong`), the `playlist` verbs of `web/api.py` and `control/cli_commands.py` | `playlist`, `shufflelist`, `shufflelist_mode`, `shuffle`, `playlist_position`, `current_track_id` | add, insert, remove, move, clear, load, shuffle, jump, play, advance; a look that draws the order anew | some paths keep the order, most leave it for the next look; positions are taken for indices and the other way round; a play that does not reach the player | the order is a permutation; the playing item stays under the position; a removal takes what was shown; a look ends |
| **Library rescan** `control/rescan.py`, `media/scan_state.py`, `media/scan_process.py`, `media/scan_worker.py` | queue of scans, running mode, process, watcher, progress and abort files | request, launch, abort, watch, reap | a launch that fails with scans queued; either process dying; abort against start | one scan at a time; a queued scan is started; scanning is not reported for ever |
| **Cometd sessions** `web/cometd.py`, `networking/cometd_stream.py` | clients, owner, open transports, event queue, grace, auto-execute timers | handshake, connect, subscribe, deliver, release, reap | the end of an old connection after the new one; reaper against reconnect; events taken off before they are written | a client that returns in time keeps its subscriptions and events |
| Alarms `alarms.py` | alarms (file), current, snoozes, state to restore | edit, fire, snooze, stop, restore | a second alarm during the first; a delayed restore after the next alarm; write-back of a stale copy | what the alarm changed is put back; an edit is never undone |
| Discovery `networking/discovery.py` | seen players and servers | beacons, TLV queries, SSDP | none that lasts: datagrams answered at once | |
| Notifications `control/notifications.py` | listeners, queue | subscribe, notify | filters per listener | |
| Request dispatcher `control/request.py` | two queues, workers, rate limits | submit, execute | a slow worker; the rate limit read before a sleep | |
| Import and tags, artwork, favorites, playlists, virtual libraries | database | one walk; single SQL transactions | network lookups | |
| Preferences and caches | key-value stores | get, set, expire | write-through only | |
| Commands, queries, menus, settings, web server, display, buttons, firmware, plugins, start-up, skins | none, or derived from the parts above | | | |

The parts in bold have modules. `PROJECT.json` lists each part with the reason when it is not modelled, and every
hazard at its line with the properties that would catch it.

## 2. The modules

| Module | Models | Run by |
|---|---|---|
| `StreamingController` | the state machine of `player/streaming.py` | `controller` |
| `SlimConnection` | the control connections of one player | `connection`, `connection_live` |
| `Presence` | abstract: what a client of the server may rely on about a player's presence | `connection`, as the property `KeepsPresence` |
| `TrackPlayback` | a queue of local tracks on one player; instantiates `StreamingController` | `playback*` |
| `SyncGroups` | membership of players in groups | `sync_groups` |
| `LibraryRescan` | the queue of scans, the scan processes and the files they share | `rescan` |
| `CometdSessions` | the session of one controller and the handlers of its sockets | `cometd`, `cometd_live` |
| `PlayQueue` | the list, the order and the position of one player's queue | `play_queue`, `play_queue_look` |
| `MC*` | symmetry sets and queues for TLC | |
| `*_proofs` | the theorems | `tlapm` |

### StreamingController

The controller is a record `ctl`. An event is looked up in `StateTable`, which is
the 2-D table of the source; each action is an operator from a controller to the
*set* of controllers its hooks may leave behind, so actions call actions as in the
code (`_Stop` inside `_StopGetNext` and so on). The guards of the table's cases exclude
each other, so that a CASE, which may take any arm that is true, means one thing.
`hooked` says whether a full set of hooks is registered or only `default_hooks()`,
which is how the server runs it; both kinds start in `Init`. `calls` holds the requests
for a next track that have not been answered, so answers may come late and in any
order. The strm frames that `protocol.py` notes in the song queue without asking the
table are `NoteStrmSent`.

### SlimConnection and Presence

One `stage` per accepted socket stands for its handler task: `greeting` before
HELO, `welcoming` between registering and the resumed playback, `reading`. The
registry variables are the module-level dictionaries, `heard` the age of the
heartbeat in keepalive intervals, `forget` the sleep of the forget task. `peer`
and `frames` are the far end: a player may be alive, silent (dead without a FIN)
or gone. `Leave` is the `finally` block, with its branches for a replaced socket, a
kept registration and the disconnect. `away` is a history variable, the intervals
since the player went offline: it is what `Presence` counts.

### TrackPlayback

`player` holds the fields of `PlayerState` that playback reads or writes (the
comment in `PlayerStates` names each). A play request is a process: `Start` is
`playlist_play` up to the database read (the position moves, the track is claimed,
or the request is taken for sent), `Send` is the rest of `send_strm_to_player`,
`Finish` the writes after it returns. Users may overlap (`Slots`). Each STAT event
has an action that is the whole branch of `_handle_stat_frame`: `Heartbeat` (STMt),
`Underrun` (STMo), `DecodeComplete` (STMd), `TrackStarted` (STMs), `Flushed` (STMf),
`Paused` (STMp), `Resumed` (STMr), `DecodeError` (STMn). `TrackEnds` schedules the
task `Advance`. `Lost` and `Hello` are the two ends of a control connection as
`SlimConnection` describes it, with `resume_on_power` in the latter (`ResumeOn` and
`ResetOn` are what the pref `powerOnResume` may ask for). `wire` and
`reports` are the two directions of the connection, in order (TCP). Every event is
also given to `StreamingController` (`Tell`), whose state `EngineAgrees` compares
with the status.

The player itself is external: `device` obeys strm frames in order, acknowledges
them, fetches, may report the underrun of a start (`Starve`), starts, decodes,
drains, may fail to decode, and ticks. It may
report that the decoder is done after its output ran dry when `LateDecode` holds.
Its clock moves or not in any tick while it plays. `of`, `over`, `at`, `streams`,
`announced` and `advanced` are history variables that tell streams apart; no action
of the server reads them.

### SyncGroups

`groups.master` and `groups.slaves` are the two fields of `PlayerState`; a list is
represented by how often each player stands in it, since its order is never read
and duplicates do occur. `Sync`, `Unsync` and `Regroup` are the entry points of the
command line, the settings page and the Jive menu; `LeavesOld` is the membership
test of `sync_players` exactly as it is written.

### LibraryRescan

`server` is the module state of `control/rescan.py` (queue, running scan, watchers),
which a restart of the server loses; `worker` holds one record per scan, since a
request, its queue entry and its process are one thing at different times;
`progress` and `marker` are the two files of `media/scan_state.py`. `RequestScan`,
`Reap` (`_watch_scan_process`) and `Kick` (`_watch_queue`) are the three places that
may launch, `Launch` is `_launch` with its failures. The process goes through
`Guard`, `Walk`, `Batch`, `Reconcile`, `EndImport`, `Finish`, `Exit`, one action for
each stretch between two looks at the abort marker; `Crash` may end it anywhere, and
`Restart` takes the server away while the process runs on (it is started in its own
session). `IsScanning` is the code's answer to "does a scan run", computed from the
module state, the progress file and whether the process in it is alive.

### CometdSessions

`client` is the one entry of `CometdManager._clients` that a controller with a UUID
always gets again; `conn` holds a record per socket for the task of
`cometd_stream.py` that serves it: idle between requests, polling, answering, opening
or streaming. Long polls and push tasks wait in `wait_for_events`; what wakes them,
what cuts them off and what `release_connection` and `remove_if_owner` do for an
owner and for a former owner are separate branches. A request is one step, although
the code executes it between looking up the session and delivering the result: what
a push may meet by then is what `Notify` meets, which pushes at any time. A stream
opens in two steps where the code takes one, so that more may come between than in
the code. The peer of a socket may be gone, or dead without a FIN. Time is counted in ticks of the reaper. `away` counts the
ticks without an owner or a stream, `sent` the events written to each socket; both
are history.

### PlayQueue

`queue` is a record of the six fields of `PlayerState` that editing reads or writes.
`Reshuffled` is `reshuffle` as the set of queues it may leave (a shuffle is any
permutation), `Looked` is `shufflelist`, which every reader of the queue goes
through and which draws an outdated order anew. `Played` is `playlist_play` with what
it calls, `WebPlayed` the web interface's own version, both for a frame that is sent
and for a player whose connection is gone; a play is one step here, its suspensions
are `TrackPlayback`'s. The commands come in two kinds, as in the code: those of the
manager that maintain the order (`Add`, `Delete`, `Clear`, `LoadStored`, `Shuffle`,
`PlayUrl`) and those that write the list, the mode or the position only (`WebAdd`,
`WebInsert`, `WebClear`, `WebLoad`, `WebJump`, `Move`, `SetMode`, `LoadStreams`). A
position or index counts from 1, the code's -1 is 0. The repeat mode is a parameter
of `Advance`, since nothing else here reads it. The saved position that `_album_shuffle`
falls back to is replaced by a free choice of the album in front; the rewriting of a
URL by a redirect is left out.

## 3. What the runs show

| Run | Checks | Bounds |
|---|---|---|
| `controller` | `StateValid`, `CallbackDiscipline`, `SourceOpen`, `OlderAnswersIgnored`: no order of events, hook answers and late answers leaves the table's valid states, or lets an overtaken answer count | two songs, queue of 3, 7 next-track requests |
| `connection` | `RegistryTrue` (the conjunction of `OneLiveSocket`, `OnlineHasSocket`, `ForgetArmed` and `ToldTruth`), and that the whole refines `Presence` | three sockets, both HELO layouts, two missed polls, grace of three intervals |
| `connection_live` | `SilentDropped`, `OfflineForgotten` | two sockets, text layout |
| `playback` | `ClaimHeld`, `GuardTruth` under impatient users who play, stop and pause while the connection comes and goes | two tracks, repeat all, two overlapping requests, two commands, two connections, two streams, one report under way |
| `playback_queue` | `EndsPlayed`, `StatusTruth`, `EngineAgrees`, `ServedAsSent`, `AdvanceOnce`, `QueueGoesOn`: a queue that is started and left alone plays to its end, one track at a time, and everything the server believes is so | three tracks, four streams, two reports under way |
| `playback_repeat` | `SkipsOnlyPlaying`: one song repeated and requested again, with late STMd | one track, four streams |
| `sync_groups` | `FollowerListed`, `NoLoop` | three players, three entries |
| `rescan` | `OneScan`, `AbortHonoured`, `AbortMeant`, `InOrder`, `ScanEnds`, `NextServed`: one scan at a time and in order, an abort stops the scan it was meant for and no other, and the queue goes on after every end of a process | three scans of up to two batches, one abort, one crash, one restart, launches that may fail, two retries |
| `cometd` | `CountTrue`, `OnceInOrder`, `ReapsOnlyAway`: the manager's idea of the open streams is exact, no event is written twice or out of order on one socket, nobody is reaped before the whole grace has passed | two sockets, two events, grace of one tick, autokill of two |
| `cometd_live` | `Forgotten`, `QueueServed`: a controller that left is forgotten, an event does not stay queued beside an open stream | two sockets, one event |
| `play_queue` | `OrderSound`, `CurrentKept`, `RemovesShown` under every editing and playing command, in the three shuffle modes, with streams in the queue and plays that do not reach the player | two tracks and a stream, which may repeat, three entries |
| `play_queue_look` | `LooksAnswered`, violated: see section 6 | as `play_queue` |

Every bound is a named constant in a guard (`MaxAsks`, `MaxLinks`, `MaxStreams`,
`MaxReports`, `MaxFrames`, `MaxQueue`, `MaxCallbackId`, `MaxEntries`, `MaxScans`,
`MaxBatches`, `MaxAborts`, `MaxCrashes`, `MaxRestarts`, `MaxEvents`, `MaxLen`). They are large
enough for the cases the properties are about: three sockets give a socket that
replaces a socket that has replaced one; two overlapping requests and two
connections give every order of claim, send, loss and release; four streams of one
track give three repeats, each end of which is reported as STMo, STMd and STMt. Three
scans give a queue behind a running scan that is itself followed by another; two
batches, an abort between them. Two sockets are an old and a new connection of one
controller; a third adds no relation between two of them. Three entries are enough
for an order that differs from the list before, at and behind the position, and for
the same track twice. The
song queue and callback ids of the controller repeat their behaviour after two
songs. Where an invariant is also proved, the bounds only limit the run: the proofs
do not assume their values. A model may come to a stop at a bound, so those
configurations switch deadlock checking off; `MCStreamingController.cfg`,
`MCSyncGroups.cfg` and the two of `PlayQueue` keep it on. Symmetry is used for sockets, songs, requests and
players, never in a run with liveness.

Each property of a passing run has a mutant: an operator next to the definition it
replaces, such as `Release_Keep` (the claim outlives the request) or
`TakeOver_Counts` (a socket that replaces another adds to the connection counter
instead of resetting it), under which the property fails.

### Fairness

`SlimConnection!Fairness`: time passes, a handler that can read reads, a task whose
sleep is over runs. The players owe nothing: `SilentDropped` and `OfflineForgotten`
hold although a player may stay silent for ever. `TrackPlayback!Fairness`: weak
fairness of the server's tasks (asyncio runs every ready task) and of the player
obeying a frame, fetching, starting and draining; without the last no track would
ever end. Commands, ticks, losses, reconnects and decode reports are not fair, so
`QueueGoesOn` does not rest on the user or on a lucky tick. `LibraryRescan!Fairness`:
the two watchers of the server (asyncio tasks in a sleep or a wait) and the steps of
a scan process that lives; neither requests, nor restarts or crashes. A crash is a
step that may happen, and `ScanEnds` holds with and without it.
`CometdSessions!Fairness`: time passes, the reaper runs, and every handler that has
something to do does it; the controllers owe nothing.

### Assumptions

* asyncio: what a task does between two suspensions is atomic. `await
  writer.drain()` does not suspend while the write buffer has room, so sending a
  frame belongs to the step before it; database reads do suspend.
* A task that is ready runs before anything new is read from the network
  (`PlayerActs` waits for `ends`): the loop polls the sockets once per iteration.
* The control connection delivers in order; what is under way is lost with it.
* The player is switched on, not in a sync group, and of the kind described above
  (Squeezelite, SqueezePlay), which sends the four-letter STAT codes. The branches
  for the words `pause`, `stop`, `play` and `load` (`networking/protocol.py:4889-4915`)
  are left out: the event field has four bytes, so the first cannot arrive, and the
  other three are sent by none of these players.
* In `LibraryRescan`, a process number is not reused while a file names it, and files
  are replaced as a whole (the code writes a temporary file and renames it).
* In `CometdSessions`, `DISCONNECT_GRACE` and the held poll are shorter than
  `LONG_POLLING_AUTOKILL` (`TicksAssumption`). A controller may ask for a longer poll
  with `advice.timeout`; the reaper then takes the session from under the poll.
* In `PlayQueue`, a track of the library exists when it is played; a play is not
  interrupted.
* In `SyncGroups`, a player is named by its registered MAC. `get_player` accepts
  other spellings, which only the command line passes on.

## 4. What is proved

All theorems hold for every value of the constants that satisfies the named
assumptions; each rests on an inductive invariant whose conjuncts are named, and
which TLC checked on small instances before it was proved.

* `SlimConnection_proofs`: type, `OneLiveSocket`, `OnlineHasSocket`, `ForgetArmed`,
  `ToldTruth`, together `RegistryTrue`, and the refinement of `Presence`, for any number of sockets. The
  invariant `IInv` adds which stages a registered socket's handler may be in, and
  that the age of an absence and the rest of the forget task's sleep add up to the
  grace period: without this the refinement step `Forget` does not go through.
* `StreamingController_proofs`: type, `StateValid`, `CallbackDiscipline`, `GivesUp`,
  `ReadyOnlyWhileWaiting`, `SourceOpen`. `Good(c)` is a predicate of a controller;
  one lemma per action says that the action maps good controllers to good ones (or
  to the intermediate ones its callers expect), and the table only composes them.
  `OlderAnswersIgnored` needs besides that no action of the table takes a request
  back (`Kept(c, d)`, again one lemma per action): if every outcome of an event
  contains the requests that were under way, then a step after which one is missing
  is its answer, and an overtaken answer runs no action at all.
* `TrackPlayback_proofs`: `PlaybackTypeOK`, `ClaimHeld` and `GuardTruth` are
  together inductive. `ClaimHeld` needs that a claim is written only by a request
  that goes to `loading` in the same step, and that `Send` releases a claim only of
  its own track; `GuardTruth` that the guard is written only where `announced` is.
  `TypeOK`, with the state machine: `Bare(c)` says that a live controller has no
  hooks (the server registers none, so it asks for no next track and opens no
  source), and that every action it can then reach keeps it one; the wider lemmas of
  `StreamingController_proofs` do not apply, because a controller without hooks may
  be in combinations of states that one with hooks never leaves.
  One theorem has conditions, named in the module. `ServedFaithfully` is
  `ServedAsSent` for any queue that is not shuffled, when play
  requests do not overlap and the connection stays up. `Serves` ties the chain
  together: a request that runs aims at the position (`Attached`), the position is
  that of the last frame sent or of one about to be sent (`Placed`), the player
  knows no other track (`Knows`), what it has opened is a frame of the past
  (`Numbered`), and what it fetched while the position was right is still that
  (`Fetched`). Without `Knows` a play of the track before last would be taken for
  sent and move the position away from what plays. Each condition is needed: TLC
  breaks the property without it.
* `PlaybackStatus_proofs`: what `TrackPlayback` promises of the status and of the
  ends of tracks.
  * `EngineValid` needs no condition: whatever the server tells a player's state
    machine, it is stopped and idle, buffering and streaming, or playing or paused
    with the stream open or not (`Proper`), so it never meets a combination that the
    table logs as invalid and then ignores.
  * `EndsNoticed`, `EngineStandsForMode` and `AdvancesOnce` hold for a queue that is
    left alone (`LeftAlone`): any list in any order, repeating or not, started by one
    play over a connection that stays up, whose tracks may fail to decode, with a
    player that tells the end of a file before the end of its sound. `InStep` says that
    server and player then go through one stream at a time, in the stages `Asked`,
    `StreamSent`, `Opening`, `Sounding`, `Drained`, `Done` and again `Asked`, or `Over`.
    Each stage says where the audio is, what the state machine and the mode are, and
    which reports may still be under way: of an earlier stage only ticks and
    acknowledgements, never an STMd; an underrun of the start is told before the start
    is (`EarlyFirst`), and the underrun of the end is the last of its stream. That is
    why neither the tick that finds the output empty nor the STMd that was remembered
    can end the next stream. Without the conditions it is false
    (section 6): an STMd after the underrun belongs to no stage (`LateDecode`), and a
    second play makes two streams share one.
  * `StatusTruthful`, and `SkipsPlaying` for users who wait until nothing is under way,
    hold when the connection stays up, nobody pauses, whoever stops does so when
    nothing is under way, and the queue repeats or is left alone (`Orderly`); any number
    of plays, overlapping and hasty ones too where nobody stops, decode reports after
    the underrun, and tracks that cannot be decoded. The properties speak
    of moments when nothing is under way, so `Settled` says for the moments before
    what the reports on their way will make of the status: of a player that is idle
    the server has heard last, or will hear last, that the stream failed
    (`FailureTold`), unless the queue was stopped and nothing under way can make it
    play again (`Halted`); of one that plays, or has played out, it will hear of the
    start, and of the end after it, or is about to advance and has not taken the end for
    a handled one (`StartTold`). `Stopping` says that a frame that stops a stream is
    followed by the next stream, so that its STMf never is the last word, or stops the
    queue. A stop for the end of the queue is such a one only because the end comes
    from `Done`, when nothing else is under way; with repeat off *and* a second play
    another stream may have been sent by then, and the code stops that one. This, a
    hasty stop and a pause break the properties (section 6) and are outside.
* `SyncGroups_proofs`: type, `FollowerListed` and `NoLoop` for any set of players, with
  one lemma for leaving a group and one for joining. A new link starts from a player
  that has no master, which is why no circle can close; with `FollowerListed`,
  `list.remove` in `sync_players` cannot raise.
* `LibraryRescan_proofs`: type, `OneScan`, `AbortMeant`, `AbortHonoured`, `InOrder`
  for any number of scans, batches and faults. The invariant says which stages a scan in the queue, the
  running scan and every earlier one may be in, that each child process that lives is
  watched, and that a marker in the file was written for a process that lived then;
  without the last a stale marker could stop the next scan. `AbortHonoured` needs
  the converse, that a marker is not lost before it is read (`AInv`): whoever runs a
  scan can write the marker (`Armed`), nothing is aborted or reconciled before it was
  launched (`Born`), a child keeps its channels while its server answers (`Attached`),
  every process belongs to this server until one is orphaned (`Parented`), and an
  aborted scan that has not looked yet finds the marker, with a batch left to look
  at, or walks over nothing (`Spares`).
* `CometdSessions_proofs`: type, `OwnerServes`, `GraceAlone`, `CountTrue`,
  `ReapsOnlyAway`, `OnceInOrder` for any number of sockets and any times. The core is that an owner
  has its connect in hand, that the count is the number of streams that serve this
  session, and that the history of the absence follows the grace that is left.
  `OnceInOrder` is inductive only together with where the events not yet written
  are (`Flowing`): the queue is increasing and comes after everything that was taken
  out of it, what a handler holds in its hand comes after what its socket was sent,
  and no two sockets hold or were sent the same event (`Flow`); a handler that takes
  events has an empty hand (`Tidy`), or it would lose them.
* `PlayQueue_proofs`: type, `OrderSound`, `CurrentKept`, `RemovesShown` for every
  library, album layout and length of the queue. `Good(q)` says of a queue that its
  order is a permutation of its own length and, if it was drawn with shuffle off, the
  identity: an outdated order is still sound, which is what lets `reshuffle` find the
  playing entry again. One lemma per operator (`ReshuffleKeepsGood`, `PlayedGood`,
  `RemovedGood`, ...) and per command; `UnlistedPlaces` and `GapCloses` show that the
  renumbering after a removal is a bijection, `RemovedListed` that list and order
  change together.

Only model-checked: the liveness properties and `QueueGoesOn` (the prover has no
support for fairness and ENABLED), and `RejoinKeepsStream` and the other properties of
section 6, which are false in general. Every invariant and every action property of a
passing run is the subject of a theorem. Where the theorem has a condition, the
run checks the property where the condition holds (`playback_queue` for `LeftAlone`), so
that its bounds hide nothing: without the condition the code breaks the property.
`MCPlaybackLate.cfg` allows what `AdvancesOnce` excludes, a second play is all that
`MCPlaybackLeftover.cfg` adds to the environment of `EndsNoticed`, and
`MCPlaybackCrossing.cfg` and `MCPlaybackPause.cfg` have the hasty stop and the pause
that `StatusTruthful` and `EngineStandsForMode` leave out (section 6).

## 5. Plan

Done, in the order of the first plan: `StreamingController`, `SlimConnection` with
`Presence`, `TrackPlayback`, `SyncGroups`, `LibraryRescan`, `CometdSessions`,
`PlayQueue`. What is left, what has the most actors first:

1. `TrackPlayback` with `PlayQueue`'s queue as a variable instead of its constant
   list: edits between the suspensions of a play, and the scan of `play_url` that puts
   the old queue back over them.
2. `Alarms`: fire, snooze, stop, delayed restore, edits. Properties: the state before
   the *first* alarm is what is restored; a write-back never undoes an edit. Two
   alarms, one player, volume of two levels. Reading the code for it has already
   shown that several of these do not hold (section 6).
3. `RemoteStreams`: RESP waiters and cont. Properties: a timeout acts on its own
   stream; each stream gets one cont. Two overlapping streams.
4. Proofs: every invariant of the runs that holds for more than the bounds of its run
   is proved, some under the conditions that section 4 names. Left are safety halves
   of the liveness properties (what stays enabled until it happens), and what the
   modules above will bring.
5. The audio bodies' 404 path and the request dispatcher, if they prove worth it.

The set of runs stays at a dozen so that it is quick to repeat: when a module comes
in, a run that shows a disagreement already recorded in section 6 makes room for it.

## 6. Disagreements between code and text

The run that ends in a counterexample, with the quoted text in `PROJECT.json`:

* `play_queue_look`: with the position outside the list, an outdated order and the
  current track in the list, looking at the queue asks for the playing position, which
  looks at the queue: the calls never end (`player/manager.py:594`). Executing
  `queue_order` on such a state raises `RecursionError`.

Five configurations of `MCTrackPlayback` reach one within a second; they show hazards that
`PROJECT.json` lists and no passing run covers, because the code breaks the property:

* `MCPlaybackLate.cfg` (`AdvanceOnce`): the player reports the end of the file after the
  end of the sound. The underrun has moved the queue on by then, to B; the late STMd is
  remembered (`_last_stmd`), and the next tick, whose output is still empty, schedules a
  second end. It has no track, because the first took the guard away, so
  `_advance_after_track` looks for one when it runs
  (`networking/protocol.py:5118-5121`), finds B, whose frame has gone out meanwhile, and
  moves on from B before it was heard. The docstring (`protocol.py:5107-5112`) names
  exactly these reports and says "One-shot per track".
* `MCPlaybackLeftover.cfg` (`EndsPlayed`): an underrun with an empty output ends the
  track when `_last_stmd` is set, however old (`protocol.py:4887`), and no strm frame
  clears it. An STMd and the last underrun of the stream before, or an STMd from before
  and the underrun of the new stream's own start, end a stream that has not begun.
  `protocol.py:5052-5055` says it "cannot be mistaken for a finished track", and
  `test_start_underrun_does_not_advance` tests it, for a player without an STMd.
* `MCPlaybackOvertaken.cfg` (`EndsCurrent`): a play is waiting for its row when the
  running track ends; its frame goes out, then the task of the end forgets the new guard
  and plays the track after the one that was asked for (`protocol.py:5128`, against
  5101-5103).
* `MCPlaybackCrossing.cfg` (`StatusTruth`): a stop crosses STMs on the wire. STMs sets
  the mode to play (`protocol.py:4747`), and the STMf of the stop falls into the 3 s
  handshake window and is ignored: a silent player with the status play, the fault that
  `tests/test_strm_idempotency.py:20-22` is about.
* `MCPlaybackPause.cfg` (`EngineAgrees`): pausing tells the state machine twice, and its
  table answers the second Pause by playing (`protocol.py:4837`,
  `player/streaming.py:149-155`); the mode and the machine it is said to follow disagree
  from then on.

Met while modelling besides. The properties are in the modules; a
configuration with these constants reproduces each:

| Property | Constants | What the code does | What the text says |
|---|---|---|---|
| `SlimConnection!ReplacedEndsQuietly` | as `MCConnectionLive.cfg`, specification `Spec` | a replaced socket whose handler ends after its successor has closed runs the disconnect block (`networking/protocol.py:1859`) | `protocol.py:1855-1857`: only a socket that is still the registered one may mark the player offline |
| `SlimConnection!SilentDropped` | as `MCConnectionLive.cfg` with `Kinds` = {"binary"} | no keepalive loop is started for the binary HELO (`protocol.py:310-315`) | |
| `TrackPlayback!ServedAsSent` | (A), `Order` Shuffled, `MaxAsks` 1 | `/stream.mp3` uses a queue position as a playlist index (`web/stream.py:476`) | `player/manager.py:2558-2561` |
| `TrackPlayback!RejoinKeepsStream` | (A), `MaxAsks` 1, `MaxLinks` 2 | a player whose control connection dropped while its audio ran on is started over (`player/manager.py:1685`) | `protocol.py:1555-1559` |
| `TrackPlayback!NoDoubleLoad` | (A), three slots, `Hasty` TRUE, `MaxAsks` 3 | `stream_in_flight` holds one track: of requests for A, B and A both for A send (`protocol.py:2649`) | |
| `TrackPlayback!StatusTruth` | (A), play and pause, `CliPause` TRUE | the CLI pauses or resumes a stopped player (`control/cli_commands.py:1303-1310`; `web/api.py:7826` asks for the mode first) | |
| `TrackPlayback!SkipsOnlyPlaying` | (A), `Playlist` Two, with pause, `MaxAsks` 4, `MaxStreams` 4, `MaxReports` 1 | a pause crosses the end of the track; the guard stays set | |
| `TrackPlayback!SkipsOnlyPlaying` | (A), `Playlist` Two, `MaxLinks` 2 | STMs is lost with the replaced connection | |
| `TrackPlayback!StatusTruth` | (A), `Playlist` Two, one slot, `MaxAsks` 3, `Repeat` 0 | the task of a track's end runs after the frame of a newer play was sent, and stops that one for the end of the queue; the rest as in `MCPlaybackCrossing.cfg` (`protocol.py:5128`) | |
| `TrackPlayback!AdvanceOnce` | as `MCPlaybackRepeat.cfg`, `MaxAsks` 3 | an STMd of a stopped stream ends the next one before its start; STMs then clears `_track_end_done_for`, and the real end advances again | `protocol.py:5107-5108`: "One-shot per track" |
| `TrackPlayback!AdvanceOnce` | as `MCPlaybackRepeat.cfg`, `MaxLinks` 2, or `MaxReports` 4 | the reports of one end come late enough, or over a new connection | as above |
| `SyncGroups!ListedFollows` | three players, `MaxEntries` 1 | a slave that changes groups stays in its former master's list (`player/manager.py:1819`), which still counts as synchronised and takes the player out of its new group when it is ungrouped | `manager.py:1816`: "Remove from any existing sync group" |
| `LibraryRescan!OneScanner` | as `MCLibraryRescan.cfg` | a restarted server does not read the progress file before its first launch, whose preparation resets it; the new process then finds no published scan and walks beside the one the old server left | the docstring of `media/scan_worker.py`: it refuses to start when a scan is already running |
| `LibraryRescan!QueueServed` | as `MCLibraryRescan.cfg` | the launch of a queued scan fails with another one behind it, and nothing starts that one before the next request | the docstring of `is_scanning`: "the next task starts the moment the current one ends" |
| `CometdSessions!ClosedWhenSilent` | as `MCCometdSessions.cfg` | a stream whose event another socket has taken is closed as silent at once (`networking/cometd_stream.py:617`) | the comment there: "No event within KEEPALIVETIMEOUT" |
| `CometdSessions!StreamsSpared` | as `MCCometdSessions.cfg` | a stream that outlives its session is not counted by the next one, which is reaped beside it (`web/cometd.py:851-857`) | `cometd.py:1063-1070`: "Clients with an open transport are never reaped" |
| `PlayQueue!ListsAll` | as `MCPlayQueue.cfg` | shuffle by album leaves streams out and numbers tracks among the tracks, not in the list; the order is therefore drawn anew at every look | `player/manager.py:509-510`: "a permutation of ``0 .. count-1``" |

(A): as `MCPlaybackQueue.cfg` with two slots, specification `Spec`, `MaxAsks` 2,
`MaxStreams` 6.

Met in the queue and covered by the guards of `CurrentKept` or by the model itself:
the web interface puts "play next" behind the queue position taken as an index of the
list, and jumps to and plays list indices, although it shows the queue in playing
order (`web/api.py:6182-6183`); moving an entry does not move the position
(`control/cli_commands.py:2364-2375`); clearing from the web leaves the position, so
the next queue begins in its middle; adding right after the shuffle button was turned
off loses the playing entry; a new list of the same length keeps the old order; a
jump on an outdated order plays another entry than was shown; `playlist play <n>`
sets the position even when there is no such entry.

Met while reading `alarms.py` for its module: snoozing a stream stops it
(`alarms.py:315-318`) and the expiry only unpauses (`alarms.py:461`), against the
docstring at 284-288; a second alarm records the state the first one left, and the
restore of the first, one second after its stop, may meet the second; a one-time
alarm writes back the copy it was fired with, over any edit; the power and stop
buttons do not end an alarm.

Also met: a player that reboots before the server has missed it is not resumed,
because the old socket makes it pass for playing (`player/manager.py:1641`, against
`protocol.py:1550-1555`); `note_strm_sent` lets `songqueue` grow past the two songs
that `player/streaming.py:790` keeps elsewhere; `get_sync_group` asked for a slave
leaves out the slave itself (`player/manager.py:1466-1469`).

## 7. Not modelled

Seeking, volume, power and fades, transitions and multi-format decisions in
playback; cancellation of tasks when the server stops; the bytes of frames; the
database; every row of the inventory that is not in bold (see the plan and the notes
in `PROJECT.json`). Alarms and remote streams are the ones still worth a module. The
rest is input and output, formatting, or a single step. The JavaScript of the web
interface and its vendored libraries (`src/html`, most lines of the repository) only
sends the commands modelled here and draws their answers: the program's own state is
the Python under `src/src/lyrion`, which is what the modules translate. The audio of sync groups is not started together by
this code (`README.md:59` of the repository), so there is nothing to model beyond
membership.
