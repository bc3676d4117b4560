---------------------------- MODULE CometdSessions ----------------------------
(* The Cometd session of one controller: CometdManager of web/cometd.py and   *)
(* the connection handlers of networking/cometd_stream.py. A controller that  *)
(* names a UUID in its handshake always gets the same client id, so there is  *)
(* one id here and the session behind it comes and goes.                      *)
(*                                                                            *)
(* A handler serves one socket. Between two requests it is idle; a long poll  *)
(* holds it until there are events; a streaming connect turns it into a       *)
(* stream for good, with a task of its own that pushes events into it. The    *)
(* controller may use its sockets in any way. What it subscribes to, and the  *)
(* content of events, is left out: an event is pushed to whoever is known.    *)
EXTENDS Naturals, Sequences, FiniteSets

CONSTANTS
    Conns,          \* the sockets
    None,           \* no socket: no owner
    MaxEvents,      \* bound: events pushed
    Hold,           \* LONG_POLL_TIMEOUT in ticks: a poll is held no longer
    KeepAlive,      \* KEEPALIVE_TIMEOUT in ticks: a stream is silent no longer
    Grace,          \* DISCONNECT_GRACE in ticks
    AutoKill        \* LONG_POLLING_AUTOKILL in ticks

ASSUME NoneAssumption == None \notin Conns
ASSUME ConnsAssumption == IsFiniteSet(Conns)
ASSUME TicksAssumption ==
    /\ MaxEvents \in Nat
    /\ Hold \in Nat \ {0} /\ KeepAlive \in Nat \ {0} /\ Grace \in Nat \ {0}
    /\ AutoKill \in Nat /\ Grace < AutoKill /\ Hold < AutoKill

VARIABLES
    client,         \* the entry of _clients
    conn,           \* the handlers
    pushed,         \* history: how many events were pushed
    sent,           \* history: the events written to each socket
    away,           \* history: ticks without an owner or a stream
    leftover        \* history: streams that were open when the session before was removed

vars == <<client, conn, pushed, sent, away, leftover>>

Off == Grace + 1    \* disconnect_at is None
Events == 1..MaxEvents

Clients ==
    [known : BOOLEAN,
     queue : Seq(Events),                       \* events
     idle : 0..AutoKill,                        \* ticks since last_seen
     open : Nat,                                \* connections
     owner : Conns \cup {None},
     transport : {"", "streaming", "long-polling"},
     grace : 0..Off]                            \* ticks until disconnect_at

\* fresh -> idle <-> polling -> answering; idle -> opening -> streaming; closed
Serving == {"polling", "answering", "opening", "streaming"}
Stages == Serving \cup {"fresh", "idle", "closed"}

\* What a poll or a push task does in wait_for_events; cut: its session was removed.
Waits == {"no", "ready", "waiting", "woken", "cut"}

Handlers ==
    [stage : Stages,
     serves : BOOLEAN,                          \* whether its connect was for this session
     wait : Waits,
     quiet : Nat,                               \* ticks in this wait
     busy : BOOLEAN,                            \* whether a relayed answer was written in it
     hand : Seq(Events),                        \* events taken for the answer to a poll
     peer : {"there", "dead", "gone"}]          \* dead: no FIN has come

TypeOK ==
    /\ client \in Clients
    /\ conn \in [Conns -> Handlers]
    /\ pushed \in 0..MaxEvents
    /\ sent \in [Conns -> Seq(Events)]
    /\ away \in 0..Grace
    /\ leftover \subseteq Conns

Unknown == [known |-> FALSE, queue |-> <<>>, idle |-> 0, open |-> 0, owner |-> None,
            transport |-> "", grace |-> Off]

Fresh == [stage |-> "fresh", serves |-> FALSE, wait |-> "no", quiet |-> 0, busy |-> FALSE,
          hand |-> <<>>, peer |-> "there"]

Ended == [Fresh EXCEPT !.stage = "closed", !.peer = "gone"]

Init ==
    /\ client = Unknown
    /\ conn = [k \in Conns |-> Fresh]
    /\ pushed = 0 /\ sent = [k \in Conns |-> <<>>]
    /\ away = 0 /\ leftover = {}

-----------------------------------------------------------------------------
(* CometdManager: operators from a session to the session it leaves.         *)

\* handshake, get_or_create
Met(c) == IF c.known THEN [c EXCEPT !.idle = 0] ELSE [Unknown EXCEPT !.known = TRUE]

\* touch
Touched(c) == IF c.known THEN [c EXCEPT !.idle = 0] ELSE c

\* register_connection and set_transport
Registered(c, k, transport) ==
    IF c.known THEN [c EXCEPT !.owner = k, !.idle = 0, !.grace = Off, !.transport = transport]
    ELSE c

\* unregister_connection
Unregistered(c, k) == IF c.known /\ c.owner = k THEN [c EXCEPT !.owner = None, !.idle = 0] ELSE c

\* Mutant: an opened transport is not counted.
Opened_Uncounted(c) == IF c.known THEN [c EXCEPT !.idle = 0, !.grace = Off] ELSE c

\* connection_open
Opened(c) == IF c.known THEN [c EXCEPT !.open = @ + 1, !.idle = 0, !.grace = Off] ELSE c

\* Mutant: the count may fall below 0.
Closed_Unclamped(c) == IF c.known THEN [c EXCEPT !.open = @ - 1, !.idle = 0] ELSE c

\* connection_closed
Closed(c) ==
    IF c.known THEN [c EXCEPT !.open = IF @ = 0 THEN 0 ELSE @ - 1, !.idle = 0] ELSE c

\* arm_disconnect
Armed(c) == IF c.open > 0 THEN c ELSE [c EXCEPT !.grace = Grace]

\* Mutant: the end of any stream arms the grace.
Released_Anyone(c, k) == IF c.known THEN Armed([c EXCEPT !.owner = IF @ = k THEN None ELSE @]) ELSE c

\* release_connection: only the owner may.
Released(c, k) == IF c.known /\ c.owner = k THEN Armed([c EXCEPT !.owner = None]) ELSE c

\* has_live_connection
Live(c) == c.known /\ (c.open > 0 \/ c.owner # None)

\* push, for the waiting handlers
Woken(handlers) ==
    [k \in Conns |-> IF handlers[k].wait = "waiting" THEN [handlers[k] EXCEPT !.wait = "woken"]
                     ELSE handlers[k]]

\* remove wakes whoever waits for the session; the first of them to run, the heir, gets
\* what its queue holds.
Orphaned(handlers, heir) ==
    [k \in Conns |->
        [handlers[k] EXCEPT !.serves = FALSE,
                            !.wait = IF @ \in {"waiting", "woken"} THEN "cut" ELSE @,
                            !.hand = IF k = heir THEN client.queue ELSE @]]

Heirs(handlers) ==
    {k \in Conns : \/ handlers[k].wait = "woken"
                   \/ handlers[k].stage = "opening" /\ handlers[k].serves}

Streams(handlers) == {k \in Conns : handlers[k].stage = "streaming"}

\* Whether a connect is under way that the manager counts or knows as the owner.
Held(c, handlers) ==
    c.owner # None \/ \E k \in Streams(handlers) : handlers[k].serves

\* remove, from the handlers as the caller leaves them
Remove(handlers) ==
    /\ client' = Unknown
    /\ \E heir \in IF Heirs(handlers) = {} THEN {None} ELSE Heirs(handlers) :
           conn' = Orphaned(handlers, heir)
    /\ leftover' = Streams(handlers)
    /\ away' = 0

\* A step that keeps the session, or makes it.
Keep(c, handlers) ==
    /\ client' = c
    /\ conn' = handlers
    /\ away' = IF Held(c, handlers) THEN 0 ELSE away
    /\ leftover' = IF c.known THEN leftover ELSE leftover \cap Streams(handlers)

\* push of one new event
Pushed(c) == [c EXCEPT !.queue = Append(@, pushed + 1)]

-----------------------------------------------------------------------------
(* Requests on an idle socket, and on a stream.                              *)

Reads(k, stage) == conn[k].stage = stage /\ conn[k].peer = "there"

Accept(k) ==
    /\ conn[k].stage = "fresh"
    /\ Keep(client, [conn EXCEPT ![k].stage = "idle"])
    /\ UNCHANGED <<pushed, sent>>

\* /meta/handshake
Handshake(k) ==
    /\ Reads(k, "idle") \/ Reads(k, "streaming")
    /\ Keep(Met(client), conn)
    /\ UNCHANGED <<pushed, sent>>

\* deliver_result: a poller has the result in the reply, anyone else has it pushed.
PushesResult(c) == c.known /\ c.transport # "long-polling"

\* The reply on an idle socket brings the queue along, unless a connection is there to.
Carries(k, c) == conn[k].stage = "idle" /\ c.known /\ ~Live(c)

\* /slim/request, and a subscription with or without a first result; with a client id or
\* (unnamed) with one found in its response channel. The request is executed in between:
\* a result that comes when the session has gone, or has another owner, is one that
\* Notify pushes, or none, after a request without a result.
Request(k) ==
    /\ Reads(k, "idle") \/ Reads(k, "streaming")
    /\ \E unnamed, result \in BOOLEAN :
         LET met == IF unnamed THEN Met(client) ELSE Touched(client)
             pushes == result /\ PushesResult(met)
             full == IF pushes THEN Pushed(met) ELSE met
         IN  /\ pushes => pushed < MaxEvents
             /\ Keep(IF Carries(k, full) THEN [full EXCEPT !.queue = <<>>] ELSE full,
                     IF pushes THEN Woken(conn) ELSE conn)
             /\ pushed' = IF pushes THEN pushed + 1 ELSE pushed
             /\ sent' = IF Carries(k, full) THEN [sent EXCEPT ![k] = @ \o full.queue] ELSE sent

\* /meta/disconnect
Disconnect(k) ==
    /\ Reads(k, "idle") \/ Reads(k, "streaming")
    /\ client.known
    /\ Remove(conn)
    /\ UNCHANGED <<pushed, sent>>

\* A connect for a session that is not known gets the advice to shake hands, and the
\* socket is closed.
Refused(k) ==
    /\ Reads(k, "idle") /\ ~client.known
    /\ Keep(client, [conn EXCEPT ![k] = Ended])
    /\ UNCHANGED <<pushed, sent>>

\* Events that are there answer a poll at once, and so does a hold time of 0.
PollConnect(k) ==
    /\ Reads(k, "idle") /\ client.known
    /\ \/ /\ Keep([Registered(client, k, "long-polling") EXCEPT !.queue = <<>>],
                  [conn EXCEPT ![k].stage = "answering", ![k].serves = TRUE,
                               ![k].hand = client.queue])
       \/ /\ client.queue = <<>>
          /\ Keep(Registered(client, k, "long-polling"),
                  [conn EXCEPT ![k].stage = "polling", ![k].serves = TRUE,
                               ![k].wait = "waiting", ![k].quiet = 0])
    /\ UNCHANGED <<pushed, sent>>

\* Mutant: the poll leaves the queue as it is.
PollReturns_KeepsQueue(k) ==
    /\ conn[k].stage = "polling"
    /\ conn[k].wait # "waiting" \/ conn[k].quiet = Hold
    /\ Keep(Touched(client),
            [conn EXCEPT ![k].stage = "answering", ![k].wait = "no", ![k].quiet = 0,
                         ![k].hand = IF conn[k].wait # "cut" THEN client.queue ELSE @])
    /\ UNCHANGED <<pushed, sent>>

\* The poll has waited: the events that are there now, if any.
PollReturns(k) ==
    /\ conn[k].stage = "polling"
    /\ conn[k].wait # "waiting" \/ conn[k].quiet = Hold
    /\ LET mine == conn[k].wait # "cut"
       IN  Keep(IF mine THEN [Touched(client) EXCEPT !.queue = <<>>] ELSE Touched(client),
                [conn EXCEPT ![k].stage = "answering", ![k].wait = "no", ![k].quiet = 0,
                             ![k].hand = IF mine THEN client.queue ELSE @])
    /\ UNCHANGED <<pushed, sent>>

\* The answer is written and the poll is no connection any more; or it cannot be
\* written, and the controller has to shake hands again.
PollAnswers(k) ==
    /\ conn[k].stage = "answering"
    /\ \/ /\ Keep(Unregistered(client, k),
                  [conn EXCEPT ![k].stage = "idle", ![k].serves = FALSE, ![k].hand = <<>>])
          /\ sent' = [sent EXCEPT ![k] = @ \o conn[k].hand]
       \/ /\ conn[k].peer # "there"
          /\ LET handlers == [conn EXCEPT ![k] = Ended]
             IN  IF client.known /\ client.owner = k THEN Remove(handlers) ELSE Keep(client, handlers)
          /\ UNCHANGED sent
    /\ UNCHANGED pushed

\* A streaming connect on an idle socket: registered, then answered.
StreamConnect(k) ==
    /\ Reads(k, "idle") /\ client.known
    /\ Keep(Registered(client, k, "streaming"),
            [conn EXCEPT ![k].stage = "opening", ![k].serves = TRUE])
    /\ UNCHANGED <<pushed, sent>>

\* The head and what is queued are written; the transport is counted, for whatever
\* session there is now, and the push task starts. Or they cannot be written: remove_if_owner.
\* The code goes on from StreamConnect at once; that others may come between here makes
\* more behaviours, not fewer.
StreamOpens(k) ==
    /\ conn[k].stage = "opening"
    /\ \/ /\ client' = [Opened(client) EXCEPT !.queue = IF conn[k].serves THEN <<>> ELSE @]
          /\ conn' = [conn EXCEPT ![k].stage = "streaming", ![k].wait = "ready",
                                  ![k].serves = client.known, ![k].hand = <<>>]
          /\ away' = 0
          /\ leftover' = IF client.known THEN leftover ELSE leftover \cup {k}
          /\ sent' = [sent EXCEPT ![k] = @ \o IF conn[k].serves THEN client.queue ELSE conn[k].hand]
       \/ /\ conn[k].peer # "there"
          /\ LET handlers == [conn EXCEPT ![k] = Ended]
             IN  IF client.known /\ client.owner = k THEN Remove(handlers) ELSE Keep(client, handlers)
          /\ UNCHANGED sent
    /\ UNCHANGED pushed

\* Another connect on a stream makes it the owner again, if the session is known. (It may
\* name another client id there; there is one here.)
StreamReconnect(k) ==
    /\ Reads(k, "streaming")
    /\ \/ /\ client.known
          /\ Keep(Registered(client, k, client.transport),
                  [conn EXCEPT ![k].serves = TRUE])
       \/ /\ ~client.known
          /\ Keep(client, [conn EXCEPT ![k].peer = "gone"])
    /\ UNCHANGED <<pushed, sent>>

\* A request for something else on a stream is relayed, its answer written.
Relay(k) ==
    /\ Reads(k, "streaming") /\ conn[k].wait \in {"waiting", "woken", "cut"}
    /\ Keep(client, [conn EXCEPT ![k].busy = TRUE])
    /\ UNCHANGED <<pushed, sent>>

-----------------------------------------------------------------------------
(* The push task of a stream.                                                *)

Waited(k, wait) ==
    [conn EXCEPT ![k].wait = wait, ![k].quiet = 0, ![k].busy = FALSE, ![k].hand = <<>>]
Again(k) == Waited(k, "ready")
Stopped(k) == Waited(k, "no")

\* The top of the loop: the session is gone, there are events, or the wait begins.
PushLoops(k) ==
    /\ conn[k].stage = "streaming" /\ conn[k].wait = "ready"
    /\ \/ ~client.known /\ Keep(client, Stopped(k)) /\ UNCHANGED sent
       \/ /\ client.known /\ client.queue # <<>>
          /\ Keep([client EXCEPT !.queue = <<>>], conn)
          /\ sent' = [sent EXCEPT ![k] = @ \o client.queue]
       \/ /\ client.known /\ client.queue = <<>>
          /\ Keep(client, Waited(k, "waiting"))
          /\ UNCHANGED sent
    /\ UNCHANGED pushed

\* Mutant: silence ends the push task and leaves the stream open.
PushReturns_LeavesOpen(k) ==
    /\ conn[k].stage = "streaming"
    /\ \/ conn[k].wait \in {"woken", "cut"}
       \/ conn[k].wait = "waiting" /\ conn[k].quiet = KeepAlive
    /\ LET events == IF conn[k].wait # "cut" THEN client.queue ELSE conn[k].hand
       IN  \/ /\ client.known /\ events # <<>> /\ conn[k].wait # "cut"
              /\ Keep([client EXCEPT !.queue = <<>>], Again(k))
              /\ sent' = [sent EXCEPT ![k] = @ \o events]
           \/ /\ ~client.known \/ events = <<>>
              /\ Keep(client, Stopped(k)) /\ UNCHANGED sent
    /\ UNCHANGED pushed

\* The wait is over. Of the waiters of one event the first has it and the others nothing,
\* which is taken for silence: the stream is closed, unless an answer was relayed meanwhile.
PushReturns(k) ==
    /\ conn[k].stage = "streaming"
    /\ \/ conn[k].wait \in {"woken", "cut"}
       \/ conn[k].wait = "waiting" /\ conn[k].quiet = KeepAlive
    /\ LET mine == conn[k].wait # "cut"
           events == IF mine THEN client.queue ELSE conn[k].hand
           emptied == IF mine THEN [client EXCEPT !.queue = <<>>] ELSE client
       IN  \/ ~client.known /\ Keep(client, Stopped(k)) /\ UNCHANGED sent
           \/ /\ client.known /\ events # <<>>
              /\ Keep(emptied, Again(k)) /\ sent' = [sent EXCEPT ![k] = @ \o events]
           \/ /\ client.known /\ events = <<>> /\ conn[k].busy
              /\ Keep(client, Again(k)) /\ UNCHANGED sent
           \/ /\ client.known /\ events = <<>> /\ ~conn[k].busy
              /\ Keep(client, [Stopped(k) EXCEPT ![k].peer = "gone"]) /\ UNCHANGED sent
    /\ UNCHANGED pushed

\* Mutant: the connection is given up and stays counted.
StreamEnds_StaysCounted(k) ==
    /\ conn[k].stage = "streaming" /\ conn[k].peer = "gone"
    /\ Keep(Released(client, k), [conn EXCEPT ![k] = Ended])
    /\ UNCHANGED <<pushed, sent>>

\* The stream has ended: the push task is cancelled, the connection given up.
StreamEnds(k) ==
    /\ conn[k].stage = "streaming" /\ conn[k].peer = "gone"
    /\ Keep(Released(Closed(client), k),
            [conn EXCEPT ![k] = Ended])
    /\ UNCHANGED <<pushed, sent>>

\* An idle socket has ended; it owns nothing.
SocketEnds(k) ==
    /\ conn[k].stage = "idle" /\ conn[k].peer = "gone"
    /\ LET handlers == [conn EXCEPT ![k] = Ended]
       IN  IF client.known /\ client.owner = k THEN Remove(handlers) ELSE Keep(client, handlers)
    /\ UNCHANGED <<pushed, sent>>

-----------------------------------------------------------------------------
(* The rest of the server, the network and time.                             *)

\* notify_player_status and the other notifiers push an event.
Notify ==
    /\ client.known /\ pushed < MaxEvents
    /\ Keep(Pushed(client), Woken(conn))
    /\ pushed' = pushed + 1
    /\ UNCHANGED sent

\* kill_idle_clients
Reap ==
    /\ client.known /\ client.open = 0
    /\ client.grace = 0 \/ client.idle = AutoKill
    /\ Remove(conn)
    /\ UNCHANGED <<pushed, sent>>

\* The peer closes its socket, or falls silent without a FIN, or TCP gives it up.
PeerLeaves(k) ==
    /\ conn[k].stage \notin {"fresh", "closed"} /\ conn[k].peer # "gone"
    /\ \E p \in {"dead", "gone"} \ {conn[k].peer} :
           Keep(client, [conn EXCEPT ![k].peer = p])
    /\ UNCHANGED <<pushed, sent>>

\* What is ready to run does so before time passes, and what has waited long enough.
Due(k) ==
    \/ conn[k].stage \in {"answering", "opening"}
    \/ conn[k].wait \in {"ready", "woken", "cut"}
    \/ conn[k].stage = "polling" /\ conn[k].quiet = Hold
    \/ conn[k].stage = "streaming" /\ conn[k].wait = "waiting" /\ conn[k].quiet = KeepAlive

Tick ==
    /\ \A k \in Conns : ~Due(k)
    /\ client' = [client EXCEPT !.idle = IF client.known /\ @ < AutoKill THEN @ + 1 ELSE @,
                                !.grace = IF @ \in {0, Off} THEN @ ELSE @ - 1]
    /\ conn' = [k \in Conns |-> IF conn[k].wait = "waiting" THEN [conn[k] EXCEPT !.quiet = @ + 1]
                                ELSE conn[k]]
    /\ away' = IF ~client.known \/ Held(client, conn) THEN 0
               ELSE IF away < Grace THEN away + 1 ELSE away
    /\ UNCHANGED <<pushed, sent, leftover>>

Handler(k) ==
    \/ PollReturns(k) \/ PollAnswers(k) \/ StreamOpens(k) \/ PushLoops(k) \/ PushReturns(k)
    \/ StreamEnds(k) \/ SocketEnds(k)

Controller(k) ==
    \/ Accept(k) \/ Handshake(k) \/ Request(k) \/ Disconnect(k) \/ Refused(k)
    \/ PollConnect(k) \/ StreamConnect(k) \/ StreamReconnect(k) \/ Relay(k) \/ PeerLeaves(k)

Next ==
    \/ \E k \in Conns : Handler(k) \/ Controller(k)
    \/ Notify \/ Reap \/ Tick

Spec == Init /\ [][Next]_vars

\* asyncio runs what is ready, time passes, and the reaper comes round.
Fairness == WF_vars(Tick) /\ WF_vars(Reap) /\ \A k \in Conns : WF_vars(Handler(k))

FairSpec == Spec /\ Fairness
-----------------------------------------------------------------------------
(* Properties.                                                              *)

\* Whoever owns the session is a handler that has its connect in hand: the end of an
\* older connection, or of one that only carried requests, leaves no stale owner.
OwnerServes ==
    client.known /\ client.owner # None =>
        conn[client.owner].stage \in Serving /\ conn[client.owner].serves

\* The time to return runs only while nobody owns the session and no stream is counted.
GraceAlone == client.known /\ client.grace # Off => client.owner = None /\ client.open = 0

\* The manager counts the open streams of the session exactly, as long as no stream
\* has outlived an earlier session: what the reaper spares is what is open.
CountTrue ==
    leftover = {} => client.open = Cardinality({k \in Streams(conn) : conn[k].serves})

\* No event is written twice, nor after a later one to the same socket.
OnceInOrder ==
    /\ \A k \in Conns : \A i, j \in DOMAIN sent[k] : i < j => sent[k][i] < sent[k][j]
    /\ \A k, m \in Conns : k # m =>
            \A i \in DOMAIN sent[k], j \in DOMAIN sent[m] : sent[k][i] # sent[m][j]

\* The reaper takes a session away only after the controller has been without an owner
\* or a stream for the whole time it was given to return.
ReapsOnlyAway == [][Reap => away = Grace \/ leftover # {}]_vars

\* A session whose sockets are all closed is forgotten: nothing keeps it counted.
Forgotten == (\A k \in Conns : conn[k].stage = "closed") ~> ~client.known

\* An event does not stay queued beside an open stream.
QueueServed ==
    \A k \in Conns :
        (client.queue # <<>> /\ conn[k].stage = "streaming" /\ conn[k].serves)
            ~> (client.queue = <<>> \/ conn[k].stage # "streaming" \/ leftover # {})

\* Violated: a stream is closed as silent only when it has been silent.
ClosedWhenSilent ==
    [][\A k \in Conns :
          conn[k].wait \in {"waiting", "woken"} /\ conn'[k].wait = "no"
          /\ conn[k].peer # "gone" /\ conn'[k].peer = "gone" => conn[k].quiet = KeepAlive]_vars

\* Violated: a session with an open stream is never reaped.
StreamsSpared == [][Reap => Streams(conn) = {}]_vars
=============================================================================
