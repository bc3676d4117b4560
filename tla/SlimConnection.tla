--------------------------- MODULE SlimConnection ---------------------------
(* The control connections of one player: the handler task the server runs  *)
(* for each accepted socket, the registry that names the player's current   *)
(* socket, the keepalive loops and the timer that forgets a lost player.    *)
(* asyncio runs one task at a time, so an action is everything a task does  *)
(* between two awaits.                                                      *)
EXTENDS Integers

CONSTANTS
    Sockets,        \* accepted sockets that may exist at the same time
    NoSocket,
    Kinds,          \* HELO layouts that arrive: "text" (Squeezelite), "binary" (SB1)
    MissLimit,      \* KEEPALIVE_MISS_LIMIT
    Grace,          \* FORGET_DISCONNECTED_TIME, in keepalive intervals
    MaxFrames       \* bound: frames waiting unread in one socket's buffer

ASSUME SocketsAssumption == NoSocket \notin Sockets
ASSUME KindsAssumption == Kinds \subseteq {"text", "binary"}
ASSUME LimitsAssumption == MissLimit \in Nat \ {0} /\ Grace \in Nat \ {0} /\ MaxFrames \in Nat

VARIABLES
    stage,          \* where each handler is: "none", "greeting", "welcoming", "reading"
    kind,           \* the HELO layout of each socket
    open,           \* the sockets whose writer the server has not closed
    peer,           \* the far end: "alive", "silent" (dead without a FIN), "gone"
    frames,         \* frames received and not yet read, per socket
    due,            \* keepalive loops whose sleep has ended
    writer,         \* _player_writers: the player's registered socket
    connections,    \* _player_connections, 0 when the key is missing
    heard,          \* intervals since the last frame; Unset when not watched
    forget,         \* intervals left of the forget task's sleep; Unset without one
    player,         \* PlayerManager.players: "absent", "online" or "offline"
    told,           \* the last ['client', ...] notification of this player
    away            \* history: intervals since the player went offline, up to Grace

socketVars == <<stage, kind, open, peer, frames, due>>
registry == <<writer, connections, heard, forget, player, told, away>>
vars == <<stage, kind, open, peer, frames, due,
          writer, connections, heard, forget, player, told, away>>

Unset == -1

Init ==
    /\ stage = [s \in Sockets |-> "none"]
    /\ kind = [s \in Sockets |-> "text"]
    /\ open = {}
    /\ peer = [s \in Sockets |-> "gone"]
    /\ frames = [s \in Sockets |-> 0]
    /\ due = {}
    /\ writer = NoSocket
    /\ connections = 0
    /\ heard = Unset
    /\ forget = Unset
    /\ player = "absent"
    /\ told = "none"
    /\ away = 0

-----------------------------------------------------------------------------
(* The network *)

\* A player connects and sends a HELO of some layout.
Hello(s) ==
    /\ stage[s] = "none"
    /\ \E k \in Kinds : kind' = [kind EXCEPT ![s] = k]
    /\ stage' = [stage EXCEPT ![s] = "greeting"]
    /\ open' = open \cup {s}
    /\ peer' = [peer EXCEPT ![s] = "alive"]
    /\ frames' = [frames EXCEPT ![s] = 0]
    /\ UNCHANGED <<due, registry>>

\* The player sends a frame, which waits in the stream reader.
PeerSends(s) ==
    /\ peer[s] = "alive" /\ s \in open /\ frames[s] < MaxFrames
    /\ frames' = [frames EXCEPT ![s] = @ + 1]
    /\ UNCHANGED <<stage, kind, open, peer, due, registry>>

\* The far end closes the connection, or vanishes without a FIN.
PeerLost(s) ==
    /\ peer[s] = "alive" /\ stage[s] # "none"
    /\ \E p \in {"silent", "gone"} : peer' = [peer EXCEPT ![s] = p]
    /\ UNCHANGED <<stage, kind, open, frames, due, registry>>

-----------------------------------------------------------------------------
(* The handler task of a socket *)

\* The next read meets the end of the stream: buffered frames come first.
AtEof(s) == frames[s] = 0 /\ (peer[s] = "gone" \/ s \notin open)

\* Mutant: connections are counted instead of the counter being reset.
TakeOver_Counts(s) ==
    /\ open' = open \ ({writer} \ {s})
    /\ writer' = s
    /\ connections' = connections + 1
    /\ heard' = 0
    /\ forget' = Unset

\* The socket replaces the registered one, which is closed; the heartbeat
\* starts afresh and the forget task is cancelled.
TakeOver(s) ==
    /\ open' = open \ ({writer} \ {s})
    /\ writer' = s
    /\ connections' = 1
    /\ heard' = 0
    /\ forget' = Unset

\* PlayerManager.register_player: the player is connected, new or again.
RegisterPlayer ==
    /\ player' = "online"
    /\ told' = IF player = "absent" THEN "new" ELSE "reconnect"
    /\ away' = 0

\* HELO answered: from here to the next await the socket takes over and the
\* player is registered, in both HELO layouts.
Register(s) ==
    /\ stage[s] = "greeting"
    /\ stage' = [stage EXCEPT ![s] = "welcoming"]
    /\ TakeOver(s)
    /\ RegisterPlayer
    /\ UNCHANGED <<kind, peer, frames, due>>

\* Volume, outputs, display and the resumed playback have been sent.
Welcomed(s) ==
    /\ stage[s] = "welcoming"
    /\ stage' = [stage EXCEPT ![s] = "reading"]
    /\ UNCHANGED <<kind, open, peer, frames, due, registry>>

\* A frame is read. The text reader stamps the player's heartbeat with it;
\* a UREQ frame (firmware update) then stops watching the player.
ReadFrame(s) ==
    /\ stage[s] = "reading" /\ frames[s] > 0
    /\ frames' = [frames EXCEPT ![s] = @ - 1]
    /\ IF kind[s] = "text" THEN heard' \in {0, Unset} ELSE UNCHANGED heard
    /\ UNCHANGED <<stage, kind, open, peer, due,
                   writer, connections, forget, player, told, away>>

\* Mutant: the grace period is one interval short.
ScheduleForget_Short == forget' = Grace - 1

\* _schedule_forget replaces a forget task that is still asleep.
ScheduleForget == forget' = Grace

\* Mutant: a stale keep_registered flag takes the branch that only marks the
\* player offline.
Disconnect_Keep(s) ==
    /\ connections' = 0
    /\ writer' = IF writer = s THEN NoSocket ELSE writer
    /\ heard' = Unset
    /\ player' = IF player = "online" THEN "offline" ELSE player
    /\ away' = IF player = "online" THEN 0 ELSE away
    /\ UNCHANGED <<told, forget>>

\* The player's last socket is gone: it goes offline and will be forgotten.
Disconnect(s) ==
    /\ connections' = 0
    /\ writer' = IF writer = s THEN NoSocket ELSE writer
    /\ heard' = Unset
    /\ player' = IF player = "online" THEN "offline" ELSE player
    /\ away' = IF player = "online" THEN 0 ELSE away
    /\ told' = "disconnect"
    /\ ScheduleForget

\* The counter the cleanup works with: a missing key counts as one.
Remaining == (IF connections = 0 THEN 1 ELSE connections) - 1

\* Mutant: the cleanup does not ask whose socket is registered.
Cleanup_AnySocket(s) ==
    IF Remaining <= 0 THEN Disconnect(s)
    ELSE connections' = Remaining /\ UNCHANGED <<writer, heard, forget, player, told, away>>

\* The handler's finally block. A socket that another one replaced leaves
\* the registry alone.
Cleanup(s) ==
    IF writer \notin {s, NoSocket} THEN UNCHANGED registry
    ELSE IF Remaining <= 0 THEN Disconnect(s)
    ELSE connections' = Remaining /\ UNCHANGED <<writer, heard, forget, player, told, away>>

Closed(s) ==
    /\ stage' = [stage EXCEPT ![s] = "none"]
    /\ open' = open \ {s}
    /\ due' = due \ {s}
    /\ UNCHANGED <<kind, peer, frames>>

\* The read loop ends: end of stream, a SHUT or bye frame, an oversized one.
Leave(s) ==
    /\ stage[s] = "reading"
    /\ AtEof(s) \/ frames[s] > 0
    /\ Closed(s)
    /\ Cleanup(s)

\* Writing the HELO answer fails. The binary layout has parsed its HELO by
\* then and runs the whole cleanup; the text layout has not.
GreetingFails(s) ==
    /\ stage[s] = "greeting" /\ peer[s] # "alive"
    /\ Closed(s)
    /\ IF kind[s] = "binary" THEN Cleanup(s) ELSE UNCHANGED registry

-----------------------------------------------------------------------------
(* Timers *)

\* Only the text layout starts a keepalive loop; it ends with its socket.
KeptAlive == {s \in open : kind[s] = "text" /\ stage[s] \in {"welcoming", "reading"}}

\* KEEPALIVE_SECONDS pass.
Tick ==
    /\ due' = due \cup KeptAlive
    /\ heard' = IF heard \in 0 .. MissLimit - 1 THEN heard + 1 ELSE heard
    /\ forget' = IF forget > 0 THEN forget - 1 ELSE forget
    /\ away' = IF player = "offline" /\ away < Grace THEN away + 1 ELSE away
    /\ UNCHANGED <<stage, kind, open, peer, frames, writer, connections, player, told>>

\* Mutant: the loop polls but never drops a silent player.
KeepAlive_PollOnly(s) ==
    /\ s \in due
    /\ due' = due \ {s}
    /\ UNCHANGED <<open, stage, kind, peer, frames, registry>>

\* A keepalive loop wakes: it closes the socket of a player that has been
\* silent for MissLimit intervals, and polls it with strm 't' otherwise.
KeepAlive(s) ==
    /\ s \in due
    /\ due' = due \ {s}
    /\ open' = IF heard >= MissLimit THEN open \ {s} ELSE open
    /\ UNCHANGED <<stage, kind, peer, frames, registry>>

\* The forget task wakes: an offline player is unregistered.
Forget ==
    /\ forget = 0
    /\ forget' = Unset
    /\ player' = IF player = "offline" THEN "absent" ELSE player
    /\ away' = IF player = "offline" THEN 0 ELSE away
    /\ UNCHANGED <<socketVars, writer, connections, heard, told>>

-----------------------------------------------------------------------------
Next ==
    \/ \E s \in Sockets : Hello(s) \/ PeerSends(s) \/ PeerLost(s)
    \/ \E s \in Sockets : Register(s) \/ Welcomed(s) \/ ReadFrame(s)
                          \/ Leave(s) \/ GreetingFails(s)
    \/ \E s \in Sockets : KeepAlive(s)
    \/ Tick
    \/ Forget

Spec == Init /\ [][Next]_vars

\* The event loop runs every ready task and every timer that has expired; a
\* handler that can read does read. Players need do nothing.
Fairness ==
    /\ WF_vars(Tick)
    /\ WF_vars(Forget)
    /\ \A s \in Sockets :
        /\ WF_vars(Register(s)) /\ WF_vars(Welcomed(s)) /\ WF_vars(KeepAlive(s))
        /\ WF_vars(ReadFrame(s)) /\ WF_vars(AtEof(s) /\ Leave(s))

FairSpec == Spec /\ Fairness

-----------------------------------------------------------------------------
(* Properties *)

\* Every variable keeps its type.
TypeOK ==
    /\ stage \in [Sockets -> {"none", "greeting", "welcoming", "reading"}]
    /\ kind \in [Sockets -> {"text", "binary"}]
    /\ open \subseteq Sockets
    /\ peer \in [Sockets -> {"alive", "silent", "gone"}]
    /\ frames \in [Sockets -> 0 .. MaxFrames]
    /\ due \subseteq Sockets
    /\ writer \in Sockets \cup {NoSocket}
    /\ connections \in 0 .. 1
    /\ heard \in Unset .. MissLimit
    /\ forget \in Unset .. Grace
    /\ player \in {"absent", "online", "offline"}
    /\ told \in {"none", "new", "reconnect", "disconnect"}
    /\ away \in 0 .. Grace

\* A player has one live socket: of the sockets that completed a HELO, only
\* the registered one is open on the server's side (_register_player_writer).
OneLiveSocket ==
    \A s \in open : stage[s] \in {"welcoming", "reading"} => s = writer

\* A player is listed as connected exactly while a socket is registered for
\* it, and that socket's handler is running, so commands reach a reader.
OnlineHasSocket ==
    /\ player = "online" <=> writer # NoSocket
    /\ writer # NoSocket => stage[writer] \in {"welcoming", "reading"}

\* An offline player always has a forget task waiting, or its entry would
\* stay for good; an online one never has.
ForgetArmed ==
    /\ player = "offline" => forget # Unset
    /\ player = "online" => forget = Unset

\* What subscribers were last told agrees with the list of players.
ToldTruth == player = "online" <=> told \in {"new", "reconnect"}

\* Socket registry, list of players, forget task and subscribers tell one
\* story after every step, whichever handler is where between its HELO and
\* its cleanup.
RegistryTrue == OneLiveSocket /\ OnlineHasSocket /\ ForgetArmed /\ ToldTruth

Known == INSTANCE Presence

\* Sockets, registry and timers together keep the promise of Presence: no
\* player is forgotten before its whole grace period has passed, and none
\* while it is connected.
KeepsPresence == Known!Spec

\* A registered player that stops answering without closing its socket is
\* dropped, unless it asked for a firmware update (_keepalive_loop).
SilentDropped ==
    \A s \in Sockets :
        (writer = s /\ peer[s] = "silent") ~> (writer # s \/ heard = Unset)

\* A player that does not come back is forgotten (forget_disconnected_client).
OfflineForgotten == (player = "offline") ~> (player # "offline")

\* A socket that a newer one replaced ends without a trace: it neither marks
\* the player disconnected nor restarts the forget timer.
ReplacedEndsQuietly ==
    [][\A s \in Sockets :
         stage[s] \in {"welcoming", "reading"} /\ stage'[s] = "none" /\ writer # s
            => UNCHANGED <<player, told, forget>>]_vars
=============================================================================
