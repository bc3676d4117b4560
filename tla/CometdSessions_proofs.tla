------------------------ MODULE CometdSessions_proofs ------------------------
(* Theorems about CometdSessions, for any number of sockets and events and    *)
(* any length of the hold, keep-alive, grace and autokill times.              *)
EXTENDS CometdSessions, FiniteSetTheorems, TLAPS

Owned(c, h) ==
    c.known /\ c.owner # None => h[c.owner].stage \in Serving /\ h[c.owner].serves

Alone(c) == c.known /\ c.grace # Off => c.owner = None /\ c.open = 0

\* The streams that serve the session.
Open(h) == {k \in Streams(h) : h[k].serves}

\* A stream that does not serve the session has outlived an earlier one.
Placed(c, h, l) ==
    \A k \in Conns : h[k].stage = "streaming" =>
        /\ h[k].serves => c.known
        /\ ~h[k].serves => k \in l

Counted(c, h, l) == (l = {} => c.open = Cardinality(Open(h))) /\ (~c.known => c.open = 0)

\* A poll waits, and no longer than it may.
Polls(h) ==
    \A k \in Conns : h[k].stage = "polling" =>
        h[k].wait \in {"waiting", "woken", "cut"} /\ h[k].quiet <= Hold

\* An owner that is no stream yet keeps the session from being idle.
Prompt(c, h) ==
    c.known /\ c.owner # None =>
        /\ h[c.owner].stage = "polling" => c.idle <= h[c.owner].quiet
        /\ h[c.owner].stage \in {"answering", "opening"} => c.idle = 0

\* Neither idleness nor the grace runs ahead of the time the controller is away.
Patient(c, h, a, l) ==
    /\ c.known /\ ~Held(c, h) => a = Grace \/ a >= c.idle
    /\ c.known /\ c.grace # Off /\ l = {} => a + c.grace >= Grace

SInv(c, h, a, l) ==
    /\ Owned(c, h) /\ Alone(c) /\ Placed(c, h, l) /\ Counted(c, h, l)
    /\ Polls(h) /\ Prompt(c, h) /\ Patient(c, h, a, l)

IInv == TypeOK /\ SInv(client, conn, away, leftover)

-----------------------------------------------------------------------------
(* Types.                                                                    *)

LEMMA Ticks ==
    /\ Hold \in Nat /\ Hold > 0 /\ KeepAlive \in Nat /\ KeepAlive > 0 /\ Grace \in Nat /\ Grace > 0
    /\ AutoKill \in Nat /\ Grace < AutoKill /\ Hold < AutoKill /\ MaxEvents \in Nat
    /\ Off = Grace + 1 /\ Off \in 0..Off /\ Grace \in 0..Off
BY TicksAssumption DEF Off

LEMMA ClientTypes ==
    /\ Unknown \in Clients
    /\ \A c \in Clients : [c EXCEPT !.queue = <<>>] \in Clients
    /\ \A c \in Clients : Met(c) \in Clients /\ Touched(c) \in Clients
    /\ \A c \in Clients, k \in Conns : Unregistered(c, k) \in Clients /\ Released(c, k) \in Clients
    /\ \A c \in Clients : Opened(c) \in Clients /\ Closed(c) \in Clients
    /\ \A c \in Clients, k \in Conns : \A t \in {"", "streaming", "long-polling"} :
          Registered(c, k, t) \in Clients
<1>0. <<>> \in Seq(Events) OBVIOUS
<1>1. Unknown \in Clients BY <1>0, Ticks DEF Unknown, Clients
<1>2. \A c \in Clients : [c EXCEPT !.queue = <<>>] \in Clients BY <1>0 DEF Clients
<1>3. 0 \in 0..AutoKill /\ Off \in 0..Off /\ Grace \in 0..Off BY Ticks
<1>4. \A c \in Clients : [c EXCEPT !.idle = 0] \in Clients
  <2> TAKE c \in Clients
  <2> QED BY <1>3 DEF Clients
<1>5. \A c \in Clients : Met(c) \in Clients /\ Touched(c) \in Clients
  <2>1. [Unknown EXCEPT !.known = TRUE] \in Clients BY <1>1 DEF Clients
  <2> QED BY <2>1, <1>4 DEF Met, Touched
<1>6. \A c \in Clients, k \in Conns : Unregistered(c, k) \in Clients
  <2> TAKE c \in Clients, k \in Conns
  <2> QED BY <1>3 DEF Unregistered, Clients
<1>7. \A c \in Clients, k \in Conns : Released(c, k) \in Clients
  <2> TAKE c \in Clients, k \in Conns
  <2> QED BY <1>3 DEF Released, Armed, Clients
<1>8. \A c \in Clients : Opened(c) \in Clients
  <2> TAKE c \in Clients
  <2>0. c.open \in Nat BY DEF Clients
  <2>1. c.open + 1 \in Nat BY <2>0
  <2> QED BY <1>3, <2>1 DEF Opened, Clients
<1>9. \A c \in Clients : Closed(c) \in Clients
  <2> TAKE c \in Clients
  <2>0. c.open \in Nat BY DEF Clients
  <2>1. (IF c.open = 0 THEN 0 ELSE c.open - 1) \in Nat BY <2>0
  <2> QED BY <1>3, <2>1 DEF Closed, Clients
<1>10. \A c \in Clients, k \in Conns : \A t \in {"", "streaming", "long-polling"} :
          Registered(c, k, t) \in Clients
  <2> TAKE c \in Clients, k \in Conns
  <2> TAKE t \in {"", "streaming", "long-polling"}
  <2> QED BY <1>3 DEF Registered, Clients
<1> QED BY <1>1, <1>2, <1>5, <1>6, <1>7, <1>8, <1>9, <1>10

LEMMA PushedType ==
    ASSUME NEW c \in Clients, pushed \in 0..MaxEvents, pushed < MaxEvents
    PROVE  Pushed(c) \in Clients
<1>1. pushed + 1 \in Events BY Ticks DEF Events
<1>2. c.queue \in Seq(Events) BY DEF Clients
<1>3. Append(c.queue, pushed + 1) \in Seq(Events) BY <1>1, <1>2
<1> QED BY <1>3 DEF Pushed, Clients

LEMMA HandlerTypes ==
    /\ Fresh \in Handlers /\ Ended \in Handlers
    /\ \A h \in Handlers, s \in Stages : [h EXCEPT !.stage = s] \in Handlers
<1>0. <<>> \in Seq(Events) OBVIOUS
<1> QED BY <1>0 DEF Fresh, Ended, Handlers, Stages, Serving, Waits

LEMMA SentType ==
    ASSUME NEW k \in Conns, sent \in [Conns -> Seq(Events)], NEW e \in Seq(Events)
    PROVE  [sent EXCEPT ![k] = @ \o e] \in [Conns -> Seq(Events)]
<1>1. sent[k] \in Seq(Events) OBVIOUS
<1>2. sent[k] \o e \in Seq(Events) BY <1>1
<1> QED BY <1>2

\* Once a session is there, or kept, TypeOK is a matter of the entry, the handlers and sent.
LEMMA KeepTypes ==
    ASSUME TypeOK, NEW c \in Clients, NEW h \in [Conns -> Handlers], Keep(c, h)
    PROVE  /\ client' = c /\ conn' = h /\ client' \in Clients /\ conn' \in [Conns -> Handlers]
           /\ away' \in 0..Grace /\ leftover' \subseteq Conns
BY Ticks DEF TypeOK, Keep, Streams

LEMMA OpenFinite == ASSUME NEW h PROVE IsFiniteSet(Open(h)) /\ Cardinality(Open(h)) \in Nat
<1>1. Open(h) \subseteq Conns BY DEF Open, Streams
<1> QED BY <1>1, ConnsAssumption, FS_Subset, FS_CardinalityType

LEMMA OpenEmpty ==
    ASSUME NEW h PROVE Cardinality(Open(h)) = 0 <=> \A k \in Conns : ~(h[k].stage = "streaming" /\ h[k].serves)
<1>1. Cardinality(Open(h)) = 0 <=> Open(h) = {} BY OpenFinite, FS_EmptySet
<1> QED BY <1>1 DEF Open, Streams

-----------------------------------------------------------------------------
(* What the steps of the manager keep.                                       *)

\* A step that neither opens nor ends a stream, nor starts the grace.
Smooth(c, h) ==
    /\ client.known => c.known
    /\ c.open = client.open
    /\ \A k \in Conns : h[k].stage = "streaming" <=> conn[k].stage = "streaming"
    /\ \A k \in Conns : h[k].stage = "streaming" =>
            h[k].serves = conn[k].serves \/ (client.known /\ h[k].serves)
    /\ Owned(c, h) /\ Alone(c) /\ Polls(h) /\ Prompt(c, h)
    /\ c.known => c.idle = 0 \/ (client.known /\ c.idle = client.idle
                                  /\ (client.owner # None => c.owner # None))
    /\ c.known => c.grace = Off \/ (client.known /\ c.grace = client.grace)

LEMMA KeepSame ==
    ASSUME IInv, NEW c \in Clients, NEW h \in [Conns -> Handlers], Keep(c, h), Smooth(c, h)
    PROVE  SInv(c, h, away', leftover')
<1>1. /\ Placed(client, conn, leftover) /\ Counted(client, conn, leftover)
      /\ Patient(client, conn, away, leftover)
  BY DEF IInv, SInv
<1> USE DEF Smooth
<1>2. /\ away' = IF Held(c, h) THEN 0 ELSE away
      /\ leftover' = IF c.known THEN leftover ELSE leftover \cap Streams(h)
  BY DEF Keep
<1>3. Placed(c, h, leftover') BY <1>1, <1>2 DEF Placed, Streams
<1>4. Counted(c, h, leftover')
  <2>1. ~c.known => c.open = 0 BY <1>1 DEF Counted
  <2>2. ASSUME leftover' = {}, client.known PROVE c.open = Cardinality(Open(h))
    <3>1. leftover = {} BY <1>2, <2>2
    <3>2. Open(h) = Open(conn) BY <1>1, <3>1 DEF Open, Streams, Placed
    <3> QED BY <1>1, <3>1, <3>2 DEF Counted
  <2>3. ASSUME ~client.known PROVE c.open = Cardinality(Open(h))
    <3>1. \A k \in Conns : ~(h[k].stage = "streaming" /\ h[k].serves) BY <1>1, <2>3 DEF Placed
    <3>2. client.open = 0 BY <1>1, <2>3 DEF Counted
    <3> QED BY <3>1, <3>2, OpenEmpty
  <2> QED BY <2>1, <2>2, <2>3 DEF Counted
<1>5. Patient(c, h, away', leftover')
  <2>0. away \in 0..Grace /\ c.idle \in Nat /\ c.grace \in Nat /\ Grace \in Nat
    <3>1. away \in 0..Grace BY DEF IInv, TypeOK
    <3>2. c.idle \in 0..AutoKill /\ c.grace \in 0..Off BY DEF Clients
    <3> QED BY <3>1, <3>2, Ticks
  <2>1. ASSUME c.known, ~Held(c, h) PROVE away' = Grace \/ away' >= c.idle
    <3>1. away' = away BY <1>2, <2>1
    <3>2. CASE c.idle = 0 BY <2>0, <3>1, <3>2
    <3>3. CASE c.idle # 0
      <4>1. client.known /\ c.idle = client.idle /\ (client.owner # None => c.owner # None)
        BY <2>1, <3>3
      <4>2. ~Held(client, conn) BY <2>1, <4>1 DEF Held, Streams
      <4> QED BY <1>1, <3>1, <4>1, <4>2 DEF Patient
    <3> QED BY <3>2, <3>3
  <2>2. ASSUME c.known, c.grace # Off, leftover' = {} PROVE away' + c.grace >= Grace
    <3>1. client.known /\ c.grace = client.grace /\ leftover = {} BY <1>2, <2>2
    <3>2. c.owner = None /\ c.open = 0 BY <2>2 DEF Alone
    <3>3. \A k \in Conns : ~(h[k].stage = "streaming" /\ h[k].serves)
      BY <1>4, <2>2, <3>2, OpenEmpty DEF Counted
    <3>4. ~Held(c, h) BY <3>2, <3>3 DEF Held, Streams
    <3>5. away' = away BY <1>2, <3>4
    <3> QED BY <1>1, <2>2, <3>1, <3>5 DEF Patient
  <2> QED BY <2>1, <2>2 DEF Patient
<1> QED BY <1>3, <1>4, <1>5 DEF SInv

\* The entry is gone: nothing is said of it, and no handler serves it.
LEMMA RemoveKeeps ==
    ASSUME IInv, NEW h \in [Conns -> Handlers], Polls(h), Remove(h)
    PROVE  /\ client' \in Clients /\ conn' \in [Conns -> Handlers]
           /\ away' \in 0..Grace /\ leftover' \subseteq Conns
           /\ SInv(client', conn', away', leftover')
<1>1. PICK heir \in Conns \cup {None} : conn' = Orphaned(h, heir) BY DEF Remove, Heirs
<1>2. client' = Unknown /\ leftover' = Streams(h) /\ away' = 0 BY DEF Remove
<1>3. client \in Clients /\ client.queue \in Seq(Events) BY DEF IInv, TypeOK, Clients
<1>4. conn' \in [Conns -> Handlers]
  <2>1. ASSUME NEW k \in Conns
        PROVE [h[k] EXCEPT !.serves = FALSE,
                           !.wait = IF @ \in {"waiting", "woken"} THEN "cut" ELSE @,
                           !.hand = IF k = heir THEN client.queue ELSE @] \in Handlers
    BY <1>3 DEF Handlers, Waits
  <2> QED BY <1>1, <2>1 DEF Orphaned
<1>5. \A k \in Conns : /\ conn'[k].stage = h[k].stage /\ ~conn'[k].serves /\ conn'[k].quiet = h[k].quiet
                       /\ conn'[k].wait = IF h[k].wait \in {"waiting", "woken"} THEN "cut" ELSE h[k].wait
  BY <1>1 DEF Orphaned, Handlers
<1>6. ~client'.known /\ client'.open = 0 BY <1>2 DEF Unknown
<1>7. Owned(client', conn') /\ Alone(client') /\ Prompt(client', conn')
      /\ Patient(client', conn', away', leftover')
  BY <1>6 DEF Owned, Alone, Prompt, Patient
<1>8. Placed(client', conn', leftover') BY <1>2, <1>5 DEF Placed, Streams
<1>9. Counted(client', conn', leftover')
  <2>1. Cardinality(Open(conn')) = 0 BY <1>5, OpenEmpty
  <2> QED BY <1>6, <2>1 DEF Counted
<1>10. Polls(conn') BY <1>5 DEF Polls
<1>11. client' \in Clients /\ away' \in 0..Grace /\ leftover' \subseteq Conns
  <2>1. client' \in Clients BY <1>2, ClientTypes
  <2>2. away' \in 0..Grace BY <1>2, Ticks
  <2>3. leftover' \subseteq Conns BY <1>2 DEF Streams
  <2> QED BY <2>1, <2>2, <2>3
<1> QED BY <1>4, <1>7, <1>8, <1>9, <1>10, <1>11 DEF SInv

\* Neither the ownership nor the count changes, and no handler takes up or gives up a connect.
LEMMA SmoothSame ==
    ASSUME IInv, NEW c \in Clients, NEW h \in [Conns -> Handlers],
           c.known = client.known, c.owner = client.owner, c.open = client.open,
           c.grace = client.grace, c.idle \in {0, client.idle},
           \A k \in Conns :
               \/ /\ h[k].stage = conn[k].stage /\ h[k].serves = conn[k].serves
                  /\ h[k].stage = "polling" => /\ h[k].quiet = conn[k].quiet
                                              /\ h[k].wait \in {"waiting", "woken", "cut"}
               \/ conn[k].stage \notin Serving /\ h[k].stage \notin Serving
    PROVE  Smooth(c, h)
<1>1. /\ Owned(client, conn) /\ Alone(client) /\ Polls(conn) /\ Prompt(client, conn)
  BY DEF IInv, SInv
<1>2. c.owner \in Conns \cup {None} BY DEF Clients
<1>3. \A k \in Conns : h[k].stage = "streaming" <=> conn[k].stage = "streaming" BY DEF Serving
<1>4. Owned(c, h) BY <1>1, <1>2 DEF Owned
<1>5. Polls(h) BY <1>1 DEF Polls, Serving
<1>6. Prompt(c, h)
  <2> SUFFICES ASSUME c.known, c.owner # None
               PROVE  /\ h[c.owner].stage = "polling" => c.idle <= h[c.owner].quiet
                      /\ h[c.owner].stage \in {"answering", "opening"} => c.idle = 0
    BY DEF Prompt
  <2>1. c.owner \in Conns /\ conn[c.owner].stage \in Serving BY <1>1, <1>2 DEF Owned
  <2>2. /\ h[c.owner].stage = conn[c.owner].stage
        /\ h[c.owner].stage = "polling" => h[c.owner].quiet = conn[c.owner].quiet
    BY <2>1
  <2>3. h[c.owner].quiet \in Nat BY <2>1 DEF Handlers
  <2> QED BY <1>1, <2>1, <2>2, <2>3 DEF Prompt
<1>7. Alone(c) BY <1>1 DEF Alone
<1>8. \A k \in Conns : h[k].stage = "streaming" => h[k].serves = conn[k].serves BY DEF Serving
<1>9. (c.known => c.idle = 0 \/ (client.known /\ c.idle = client.idle
                                  /\ (client.owner # None => c.owner # None)))
      /\ (c.known => c.grace = Off \/ (client.known /\ c.grace = client.grace))
  OBVIOUS
<1> QED BY <1>3, <1>4, <1>5, <1>6, <1>7, <1>8, <1>9 DEF Smooth

\* A session that is met for the first time has no owner and no stream.
LEMMA SmoothNew ==
    ASSUME IInv, NEW c \in Clients, ~client.known, c.known, c.owner = None, c.open = 0,
           c.grace = Off, c.idle = 0, NEW h \in [Conns -> Handlers],
           \A k \in Conns : /\ h[k].stage = conn[k].stage /\ h[k].serves = conn[k].serves
                            /\ h[k].stage = "polling" => /\ h[k].quiet = conn[k].quiet
                                                        /\ h[k].wait \in {"waiting", "woken", "cut"}
    PROVE  Smooth(c, h)
<1>1. Polls(conn) /\ Counted(client, conn, leftover) BY DEF IInv, SInv
<1>2. client.open = 0 BY <1>1 DEF Counted
<1>3. Polls(h) BY <1>1 DEF Polls
<1>4. Owned(c, h) /\ Alone(c) /\ Prompt(c, h) BY DEF Owned, Alone, Prompt
<1> QED BY <1>2, <1>3, <1>4 DEF Smooth

LEMMA KeepKept ==
    ASSUME IInv, NEW c \in Clients, NEW h \in [Conns -> Handlers], Keep(c, h), Smooth(c, h),
           pushed' \in 0..MaxEvents, sent' \in [Conns -> Seq(Events)]
    PROVE  IInv'
<1>1. SInv(c, h, away', leftover') BY KeepSame
<1>2. TypeOK BY DEF IInv
<1>3. /\ client' = c /\ conn' = h /\ client' \in Clients /\ conn' \in [Conns -> Handlers]
      /\ away' \in 0..Grace /\ leftover' \subseteq Conns
  BY <1>2, KeepTypes
<1> QED BY <1>1, <1>3 DEF IInv, TypeOK

LEMMA RemoveKept ==
    ASSUME IInv, NEW h \in [Conns -> Handlers], Polls(h), Remove(h), UNCHANGED <<pushed, sent>>
    PROVE  IInv'
<1>1. /\ client' \in Clients /\ conn' \in [Conns -> Handlers]
      /\ away' \in 0..Grace /\ leftover' \subseteq Conns
      /\ SInv(client', conn', away', leftover')
  BY RemoveKeeps
<1>2. pushed' \in 0..MaxEvents /\ sent' \in [Conns -> Seq(Events)] BY DEF IInv, TypeOK
<1> QED BY <1>1, <1>2 DEF IInv, TypeOK

LEMMA Typed ==
    ASSUME IInv
    PROVE  /\ client \in Clients /\ client.queue \in Seq(Events) /\ conn \in [Conns -> Handlers]
           /\ pushed \in 0..MaxEvents /\ sent \in [Conns -> Seq(Events)]
           /\ \A k \in Conns : conn[k].hand \in Seq(Events)
           /\ Polls(conn)
BY DEF IInv, SInv, TypeOK, Clients, Handlers

\* The empty queue is as good as any.
LEMMA Emptied ==
    ASSUME NEW c \in Clients
    PROVE  LET e == [c EXCEPT !.queue = <<>>]
           IN  /\ e \in Clients /\ e.known = c.known /\ e.owner = c.owner /\ e.open = c.open
               /\ e.grace = c.grace /\ e.idle = c.idle /\ e.transport = c.transport
<1>1. [c EXCEPT !.queue = <<>>] \in Clients BY ClientTypes
<1> QED BY <1>1 DEF Clients

LEMMA MetIs ==
    ASSUME NEW c \in Clients
    PROVE  LET e == Met(c)
           IN  /\ e \in Clients /\ e.known /\ e.idle = 0
               /\ c.known => e.owner = c.owner /\ e.open = c.open /\ e.grace = c.grace
               /\ ~c.known => e.owner = None /\ e.open = 0 /\ e.grace = Off
<1>1. Met(c) \in Clients BY ClientTypes
<1> QED BY <1>1 DEF Met, Unknown, Clients

LEMMA TouchedIs ==
    ASSUME NEW c \in Clients
    PROVE  LET e == Touched(c)
           IN  /\ e \in Clients /\ e.known = c.known /\ e.idle \in {0, c.idle} /\ (c.known => e.idle = 0)
               /\ e.owner = c.owner /\ e.open = c.open /\ e.grace = c.grace
<1>1. Touched(c) \in Clients BY ClientTypes
<1> QED BY <1>1 DEF Touched, Clients

LEMMA PushedIs ==
    ASSUME NEW c \in Clients, pushed \in 0..MaxEvents, pushed < MaxEvents
    PROVE  LET e == Pushed(c)
           IN  /\ e \in Clients /\ e.known = c.known /\ e.idle = c.idle
               /\ e.owner = c.owner /\ e.open = c.open /\ e.grace = c.grace
<1>1. Pushed(c) \in Clients BY PushedType
<1> QED BY <1>1 DEF Pushed, Clients

LEMMA RegisteredIs ==
    ASSUME NEW c \in Clients, c.known, NEW k \in Conns, NEW t \in {"", "streaming", "long-polling"}
    PROVE  LET e == Registered(c, k, t)
           IN  /\ e \in Clients /\ e.known /\ e.idle = 0 /\ e.owner = k
               /\ e.open = c.open /\ e.grace = Off
<1>1. Registered(c, k, t) \in Clients BY ClientTypes
<1> QED BY <1>1 DEF Registered, Clients

LEMMA WokenIs ==
    ASSUME NEW h \in [Conns -> Handlers]
    PROVE  /\ Woken(h) \in [Conns -> Handlers]
           /\ \A k \in Conns :
                 /\ Woken(h)[k].stage = h[k].stage /\ Woken(h)[k].serves = h[k].serves
                 /\ Woken(h)[k].quiet = h[k].quiet
                 /\ Woken(h)[k].wait = IF h[k].wait = "waiting" THEN "woken" ELSE h[k].wait
<1>1. ASSUME NEW k \in Conns PROVE [h[k] EXCEPT !.wait = "woken"] \in Handlers
  BY DEF Handlers, Waits
<1> QED BY <1>1 DEF Woken, Handlers

-----------------------------------------------------------------------------
(* One lemma per action.                                                     *)

LEMMA AcceptKeeps == ASSUME IInv, NEW k \in Conns, Accept(k) PROVE IInv'
<1> DEFINE h == [conn EXCEPT ![k].stage = "idle"]
<1>1. h \in [Conns -> Handlers] BY Typed DEF Handlers, Stages
<1>2. Smooth(client, h) BY <1>1, Typed, SmoothSame DEF Accept, Serving, Polls, Handlers
<1> QED BY <1>1, <1>2, Typed, KeepKept DEF Accept

LEMMA HandshakeKeeps == ASSUME IInv, NEW k \in Conns, Handshake(k) PROVE IInv'
<1>1. client \in Clients /\ conn \in [Conns -> Handlers] /\ Polls(conn) BY Typed
<1>2. CASE client.known
  <2>1. Smooth(Met(client), conn) BY <1>1, <1>2, MetIs, SmoothSame DEF Polls
  <2> QED BY <1>1, <2>1, MetIs, Typed, KeepKept DEF Handshake
<1>3. CASE ~client.known
  <2>1. Smooth(Met(client), conn) BY <1>1, <1>3, MetIs, SmoothNew DEF Polls
  <2> QED BY <1>1, <2>1, MetIs, Typed, KeepKept DEF Handshake
<1> QED BY <1>2, <1>3

LEMMA RequestKeeps == ASSUME IInv, NEW k \in Conns, Request(k) PROVE IInv'
<1>0. PICK unnamed \in BOOLEAN, result \in BOOLEAN :
         LET met == IF unnamed THEN Met(client) ELSE Touched(client)
             pushes == result /\ PushesResult(met)
             full == IF pushes THEN Pushed(met) ELSE met
         IN  /\ pushes => pushed < MaxEvents
             /\ Keep(IF Carries(k, full) THEN [full EXCEPT !.queue = <<>>] ELSE full,
                     IF pushes THEN Woken(conn) ELSE conn)
             /\ pushed' = IF pushes THEN pushed + 1 ELSE pushed
             /\ sent' = IF Carries(k, full) THEN [sent EXCEPT ![k] = @ \o full.queue] ELSE sent
  BY DEF Request
<1> DEFINE met == IF unnamed THEN Met(client) ELSE Touched(client)
           pushes == result /\ PushesResult(met)
           full == IF pushes THEN Pushed(met) ELSE met
           c == IF Carries(k, full) THEN [full EXCEPT !.queue = <<>>] ELSE full
           h == IF pushes THEN Woken(conn) ELSE conn
<1>1. /\ client \in Clients /\ conn \in [Conns -> Handlers] /\ Polls(conn)
      /\ pushed \in 0..MaxEvents /\ sent \in [Conns -> Seq(Events)]
  BY Typed
<1> DEFINE same == /\ met.known = client.known /\ met.idle \in {0, client.idle}
                   /\ met.owner = client.owner /\ met.open = client.open /\ met.grace = client.grace
           new == /\ ~client.known /\ met.known /\ met.idle = 0
                  /\ met.owner = None /\ met.open = 0 /\ met.grace = Off
<1>2. met \in Clients /\ (same \/ new)
  <2>1. CASE unnamed /\ client.known
    <3>1. met = Met(client) BY <2>1
    <3>2. client.known = TRUE /\ met.known = TRUE BY <1>1, <2>1, <3>1, MetIs DEF Clients
    <3> QED BY <1>1, <2>1, <3>1, <3>2, MetIs
  <2>2. CASE unnamed /\ ~client.known BY <1>1, <2>2, MetIs
  <2>3. CASE ~unnamed BY <1>1, <2>3, TouchedIs
  <2> QED BY <2>1, <2>2, <2>3
<1>3. /\ pushes => pushed < MaxEvents
      /\ Keep(c, h)
      /\ pushed' = IF pushes THEN pushed + 1 ELSE pushed
      /\ sent' = IF Carries(k, full) THEN [sent EXCEPT ![k] = @ \o full.queue] ELSE sent
  BY <1>0
<1> HIDE DEF met
<1>4. /\ full \in Clients /\ full.known = met.known /\ full.idle = met.idle
      /\ full.owner = met.owner /\ full.open = met.open /\ full.grace = met.grace
  BY <1>1, <1>2, <1>3, PushedIs
<1>5. /\ h \in [Conns -> Handlers]
      /\ \A m \in Conns :
            /\ h[m].stage = conn[m].stage /\ h[m].serves = conn[m].serves
            /\ h[m].stage = "polling" => /\ h[m].quiet = conn[m].quiet
                                        /\ h[m].wait \in {"waiting", "woken", "cut"}
  BY <1>1, WokenIs DEF Polls
<1>6. pushed' \in 0..MaxEvents BY <1>1, <1>3, Ticks
<1> HIDE DEF full, pushes, h
<1>7. /\ c \in Clients /\ c.known = met.known /\ c.idle = met.idle
      /\ c.owner = met.owner /\ c.open = met.open /\ c.grace = met.grace
  BY <1>4, Emptied
<1>8. sent' \in [Conns -> Seq(Events)]
  <2>1. full.queue \in Seq(Events) BY <1>4 DEF Clients
  <2>2. [sent EXCEPT ![k] = @ \o full.queue] \in [Conns -> Seq(Events)] BY <1>1, <2>1, SentType
  <2> QED BY <1>1, <1>3, <2>2
<1> HIDE DEF c
<1>9. Smooth(c, h)
  <2>1. CASE same
    <3>1. c.known = client.known /\ c.owner = client.owner /\ c.open = client.open
          /\ c.grace = client.grace /\ c.idle \in {0, client.idle}
      BY <1>7, <2>1
    <3> QED BY <1>5, <1>7, <3>1, SmoothSame
  <2>2. CASE new
    <3>1. ~client.known /\ c.known /\ c.owner = None /\ c.open = 0 /\ c.grace = Off /\ c.idle = 0
      BY <1>7, <2>2
    <3> QED BY <1>5, <1>7, <3>1, SmoothNew
  <2> QED BY <1>2, <2>1, <2>2
<1> QED BY <1>3, <1>5, <1>6, <1>7, <1>8, <1>9, KeepKept

LEMMA DisconnectKeeps == ASSUME IInv, NEW k \in Conns, Disconnect(k) PROVE IInv'
BY Typed, RemoveKept DEF Disconnect

LEMMA RefusedKeeps == ASSUME IInv, NEW k \in Conns, Refused(k) PROVE IInv'
<1> DEFINE h == [conn EXCEPT ![k] = Ended]
<1>1. h \in [Conns -> Handlers] BY Typed, HandlerTypes
<1>2. h[k].stage = "closed" /\ conn[k].stage = "idle" BY Typed DEF Refused, Reads, Ended, Fresh
<1>3. Smooth(client, h) BY <1>1, <1>2, Typed, SmoothSame DEF Serving, Polls
<1> QED BY <1>1, <1>3, Typed, KeepKept DEF Refused

\* A handler takes up a connect of a session that is known, on an idle socket, and owns it.
LEMMA SmoothTakes ==
    ASSUME IInv, NEW k \in Conns, conn[k].stage = "idle", client.known,
           NEW c \in Clients, c.known, c.idle = 0, c.owner = k, c.open = client.open, c.grace = Off,
           NEW h \in [Conns -> Handlers], \A m \in Conns \ {k} : h[m] = conn[m],
           h[k].stage \in {"polling", "answering", "opening"}, h[k].serves,
           h[k].stage = "polling" => h[k].wait = "waiting" /\ h[k].quiet = 0
    PROVE  Smooth(c, h)
<1>1. Polls(conn) BY DEF IInv, SInv
<1>2. Polls(h)
  <2> SUFFICES ASSUME NEW m \in Conns, h[m].stage = "polling"
               PROVE  h[m].wait \in {"waiting", "woken", "cut"} /\ h[m].quiet <= Hold
    BY DEF Polls
  <2> QED BY <1>1, Ticks DEF Polls
<1>3. h[k].quiet \in Nat BY DEF Handlers
<1>4. Owned(c, h) /\ Alone(c) BY DEF Owned, Alone, Serving
<1>5. Prompt(c, h) BY <1>3 DEF Prompt
<1>6. k # None BY NoneAssumption
<1>7. \A m \in Conns : h[m].stage = "streaming" => m # k OBVIOUS
<1>8. \A m \in Conns : h[m].stage = "streaming" <=> conn[m].stage = "streaming" BY <1>7
<1>9. \A m \in Conns : h[m].stage = "streaming" => h[m].serves = conn[m].serves BY <1>7
<1> QED BY <1>2, <1>4, <1>5, <1>6, <1>8, <1>9 DEF Smooth

LEMMA PollConnectKeeps == ASSUME IInv, NEW k \in Conns, PollConnect(k) PROVE IInv'
<1> DEFINE r == Registered(client, k, "long-polling")
           c == [r EXCEPT !.queue = <<>>]
           g == [conn EXCEPT ![k].stage = "answering", ![k].serves = TRUE, ![k].hand = client.queue]
           h == [conn EXCEPT ![k].stage = "polling", ![k].serves = TRUE,
                             ![k].wait = "waiting", ![k].quiet = 0]
<1>1. client.known /\ conn[k].stage = "idle" BY DEF PollConnect, Reads
<1>2. r \in Clients /\ r.known /\ r.idle = 0 /\ r.owner = k /\ r.open = client.open /\ r.grace = Off
  BY <1>1, Typed, RegisteredIs
<1>3. CASE Keep(c, g)
  <2>0. conn[k] \in Handlers /\ client.queue \in Seq(Events) BY Typed
  <2>a. [conn[k] EXCEPT !.stage = "answering", !.serves = TRUE, !.hand = client.queue] \in Handlers
    BY <2>0 DEF Handlers, Stages, Serving
  <2>1. g \in [Conns -> Handlers] BY <2>a, Typed
  <2>2. /\ \A m \in Conns \ {k} : g[m] = conn[m]
        /\ g[k].stage = "answering" /\ g[k].serves
    BY Typed DEF Handlers
  <2> HIDE DEF r, g
  <2>3. c \in Clients /\ c.known /\ c.idle = 0 /\ c.owner = k /\ c.open = client.open /\ c.grace = Off
    BY <1>2, Emptied
  <2> HIDE DEF c
  <2>4. Smooth(c, g) BY <1>1, <2>1, <2>2, <2>3, SmoothTakes
  <2> QED BY <1>3, <2>1, <2>3, <2>4, Typed, KeepKept DEF PollConnect
<1>4. CASE Keep(r, h)
  <2>0. conn[k] \in Handlers BY Typed
  <2>a. [conn[k] EXCEPT !.stage = "polling", !.serves = TRUE, !.wait = "waiting", !.quiet = 0] \in Handlers
    BY <2>0 DEF Handlers, Stages, Serving, Waits
  <2>1. h \in [Conns -> Handlers] BY <2>a, Typed
  <2>2. /\ \A m \in Conns \ {k} : h[m] = conn[m]
        /\ h[k].stage = "polling" /\ h[k].serves /\ h[k].wait = "waiting" /\ h[k].quiet = 0
    BY Typed DEF Handlers
  <2> HIDE DEF r, h
  <2>4. Smooth(r, h) BY <1>1, <1>2, <2>1, <2>2, SmoothTakes
  <2> QED BY <1>2, <1>4, <2>1, <2>4, Typed, KeepKept DEF PollConnect
<1> QED BY <1>3, <1>4 DEF PollConnect

LEMMA StreamConnectKeeps == ASSUME IInv, NEW k \in Conns, StreamConnect(k) PROVE IInv'
<1> DEFINE r == Registered(client, k, "streaming")
           h == [conn EXCEPT ![k].stage = "opening", ![k].serves = TRUE]
<1>1. client.known /\ conn[k].stage = "idle" BY DEF StreamConnect, Reads
<1>2. r \in Clients /\ r.known /\ r.idle = 0 /\ r.owner = k /\ r.open = client.open /\ r.grace = Off
  BY <1>1, Typed, RegisteredIs
<1>3. h \in [Conns -> Handlers] BY Typed DEF Handlers, Stages, Serving
<1>4. (\A m \in Conns \ {k} : h[m] = conn[m]) /\ h[k].stage = "opening" /\ h[k].serves
  BY Typed DEF Handlers
<1>5. Keep(r, h) BY DEF StreamConnect
<1> HIDE DEF r, h
<1>6. Smooth(r, h) BY <1>1, <1>2, <1>3, <1>4, SmoothTakes
<1> QED BY <1>2, <1>3, <1>5, <1>6, Typed, KeepKept DEF StreamConnect

\* A poll that ends its wait: nobody else is touched.
LEMMA PollReturnsKeeps == ASSUME IInv, NEW k \in Conns, PollReturns(k) PROVE IInv'
<1> DEFINE mine == conn[k].wait # "cut"
           t == Touched(client)
           c == IF mine THEN [t EXCEPT !.queue = <<>>] ELSE t
           h == [conn EXCEPT ![k].stage = "answering", ![k].wait = "no", ![k].quiet = 0,
                             ![k].hand = IF mine THEN client.queue ELSE @]
<1>0. conn[k].stage = "polling" /\ Keep(c, h) /\ UNCHANGED <<pushed, sent>> BY DEF PollReturns
<1>1. /\ t \in Clients /\ t.known = client.known /\ t.idle \in {0, client.idle}
      /\ t.known => t.idle = 0
      /\ t.owner = client.owner /\ t.open = client.open /\ t.grace = client.grace
  <2>1. client.known \in BOOLEAN BY Typed DEF Clients
  <2> QED BY <2>1, Typed, TouchedIs
<1>2. h \in [Conns -> Handlers]
  <2> DEFINE e == IF mine THEN client.queue ELSE conn[k].hand
  <2>1. e \in Seq(Events) /\ conn[k] \in Handlers BY Typed
  <2> HIDE DEF e
  <2>2. [conn[k] EXCEPT !.stage = "answering", !.wait = "no", !.quiet = 0, !.hand = e] \in Handlers
    BY <2>1 DEF Handlers, Stages, Serving, Waits
  <2> QED BY <2>2, Typed DEF e
<1>3. /\ \A m \in Conns \ {k} : h[m] = conn[m]
      /\ h[k].stage = "answering" /\ h[k].serves = conn[k].serves
  BY Typed DEF Handlers
<1> HIDE DEF t, h
<1>4. /\ c \in Clients /\ c.known = client.known /\ (c.known => c.idle = 0)
      /\ c.owner = client.owner /\ c.open = client.open /\ c.grace = client.grace
  BY <1>1, Emptied
<1> HIDE DEF c, mine
<1>5. Smooth(c, h)
  <2>1. Owned(client, conn) /\ Alone(client) /\ Polls(conn) /\ Prompt(client, conn)
    BY DEF IInv, SInv
  <2>2. Owned(c, h) BY <1>0, <1>3, <1>4, <2>1 DEF Owned, Serving, Clients
  <2>3. Alone(c) BY <1>4, <2>1 DEF Alone
  <2>4. Polls(h) BY <1>3, <2>1 DEF Polls
  <2>5. Prompt(c, h)
    <3> SUFFICES ASSUME c.known, c.owner # None
                 PROVE h[c.owner].stage = "polling" => c.idle <= h[c.owner].quiet
      BY <1>4 DEF Prompt
    <3>1. c.owner \in Conns BY <1>4 DEF Clients
    <3>2. h[c.owner].quiet \in Nat BY <1>2, <3>1 DEF Handlers
    <3> QED BY <1>4, <3>2
  <2>6. \A m \in Conns : h[m].stage = "streaming" => m # k BY <1>3
  <2>7. \A m \in Conns : h[m].stage = "streaming" <=> conn[m].stage = "streaming" BY <1>0, <1>3
  <2>8. \A m \in Conns : h[m].stage = "streaming" => h[m].serves = conn[m].serves BY <1>3, <2>6
  <2> QED BY <1>4, <2>2, <2>3, <2>4, <2>5, <2>7, <2>8 DEF Smooth
<1> QED BY <1>0, <1>2, <1>4, <1>5, Typed, KeepKept

\* A handler that is no stream gives up its connect, and does not own the session after it.
LEMMA SmoothGives ==
    ASSUME IInv, NEW k \in Conns, conn[k].stage # "streaming",
           NEW c \in Clients, c.known = client.known, c.open = client.open, c.grace = client.grace,
           c.known => c.owner # k,
           c = client \/ (c.idle = 0 /\ c.owner \in {client.owner, None}),
           NEW h \in [Conns -> Handlers], \A m \in Conns \ {k} : h[m] = conn[m],
           h[k].stage \in {"idle", "closed"}
    PROVE  Smooth(c, h)
<1>1. Owned(client, conn) /\ Alone(client) /\ Polls(conn) /\ Prompt(client, conn)
  BY DEF IInv, SInv
<1>2. c.owner \in Conns \cup {None} /\ c.owner \in {client.owner, None} BY DEF Clients
<1>3. \A m \in Conns : h[m].stage \in Serving => m # k /\ h[m] = conn[m] BY DEF Serving
<1>4. Owned(c, h) BY <1>1, <1>2 DEF Owned
<1>5. Alone(c) BY <1>1, <1>2 DEF Alone
<1>6. Polls(h) BY <1>1, <1>3 DEF Polls, Serving
<1>7. Prompt(c, h)
  <2> SUFFICES ASSUME c.known, c.owner # None
               PROVE  /\ h[c.owner].stage = "polling" => c.idle <= h[c.owner].quiet
                      /\ h[c.owner].stage \in {"answering", "opening"} => c.idle = 0
    BY DEF Prompt
  <2>1. c.owner \in Conns \ {k} /\ c.owner = client.owner BY <1>2
  <2>2. h[c.owner] = conn[c.owner] /\ h[c.owner].quiet \in Nat BY <2>1 DEF Handlers
  <2> QED BY <1>1, <2>1, <2>2 DEF Prompt
<1>8. \A m \in Conns : h[m].stage = "streaming" <=> conn[m].stage = "streaming"
  <2>1. h[k].stage # "streaming" OBVIOUS
  <2> QED BY <2>1
<1>9. \A m \in Conns : h[m].stage = "streaming" => h[m].serves = conn[m].serves
  BY <1>3 DEF Serving
<1>10. c.known => c.idle = 0 \/ (client.known /\ c.idle = client.idle
                                  /\ (client.owner # None => c.owner # None))
  OBVIOUS
<1>11. (client.known => c.known) /\ (c.known => c.grace = Off \/ (client.known /\ c.grace = client.grace))
  OBVIOUS
<1> QED BY <1>4, <1>5, <1>6, <1>7, <1>8, <1>9, <1>10, <1>11 DEF Smooth

\* The handler is over: remove_if_owner.
LEMMA EndedKeeps ==
    ASSUME IInv, NEW k \in Conns, conn[k].stage # "streaming", UNCHANGED <<pushed, sent>>,
           LET h == [conn EXCEPT ![k] = Ended]
           IN  IF client.known /\ client.owner = k THEN Remove(h) ELSE Keep(client, h)
    PROVE  IInv'
<1> DEFINE h == [conn EXCEPT ![k] = Ended]
<1>1. h \in [Conns -> Handlers] BY Typed, HandlerTypes
<1>2. (\A m \in Conns \ {k} : h[m] = conn[m]) /\ h[k].stage = "closed"
  BY Typed DEF Ended, Fresh
<1>3. IF client.known /\ client.owner = k THEN Remove(h) ELSE Keep(client, h) OBVIOUS
<1> HIDE DEF h
<1>4. CASE client.known /\ client.owner = k
  <2>1. Polls(h)
    <3> SUFFICES ASSUME NEW m \in Conns, h[m].stage = "polling"
                 PROVE  h[m].wait \in {"waiting", "woken", "cut"} /\ h[m].quiet <= Hold
      BY DEF Polls
    <3>1. h[m] = conn[m] BY <1>2
    <3> QED BY <3>1, Typed DEF Polls
  <2> QED BY <1>1, <1>3, <1>4, <2>1, RemoveKept
<1>5. CASE ~(client.known /\ client.owner = k)
  <2>1. client \in Clients BY Typed
  <2>2. client.known => client.owner # k BY <1>5
  <2>3. Smooth(client, h) BY <1>1, <1>2, <2>1, <2>2, SmoothGives
  <2> QED BY <1>1, <1>3, <1>5, <2>3, Typed, KeepKept
<1> QED BY <1>4, <1>5

LEMMA SocketEndsKeeps == ASSUME IInv, NEW k \in Conns, SocketEnds(k) PROVE IInv'
<1>1. conn[k].stage # "streaming" BY DEF SocketEnds
<1> QED BY <1>1, EndedKeeps DEF SocketEnds

LEMMA PollAnswersKeeps == ASSUME IInv, NEW k \in Conns, PollAnswers(k) PROVE IInv'
<1> DEFINE c == Unregistered(client, k)
           h == [conn EXCEPT ![k].stage = "idle", ![k].serves = FALSE, ![k].hand = <<>>]
<1>0. conn[k].stage = "answering" /\ pushed' = pushed BY DEF PollAnswers
<1>1. CASE Keep(c, h) /\ sent' = [sent EXCEPT ![k] = @ \o conn[k].hand]
  <2>1. /\ c \in Clients /\ c.known = client.known /\ c.open = client.open /\ c.grace = client.grace
        /\ c.known => c.owner # k
        /\ c = client \/ (c.idle = 0 /\ c.owner \in {client.owner, None})
    <3>1. client \in Clients /\ c \in Clients BY Typed, ClientTypes
    <3>2. CASE client.known /\ client.owner = k
      <4>1. k # None BY NoneAssumption
      <4> QED BY <3>1, <3>2, <4>1 DEF Unregistered, Clients
    <3>3. CASE ~(client.known /\ client.owner = k)
      <4>1. c = client BY <3>3 DEF Unregistered
      <4> QED BY <3>1, <3>3, <4>1
    <3> QED BY <3>2, <3>3
  <2>2. h \in [Conns -> Handlers]
    <3>1. <<>> \in Seq(Events) /\ conn[k] \in Handlers BY Typed
    <3>2. [conn[k] EXCEPT !.stage = "idle", !.serves = FALSE, !.hand = <<>>] \in Handlers
      BY <3>1 DEF Handlers, Stages
    <3> QED BY <3>2, Typed
  <2>3. (\A m \in Conns \ {k} : h[m] = conn[m]) /\ h[k].stage = "idle" BY Typed DEF Handlers
  <2> HIDE DEF c, h
  <2>4. Smooth(c, h) BY <1>0, <2>1, <2>2, <2>3, SmoothGives
  <2>5. sent' \in [Conns -> Seq(Events)]
    <3>1. conn[k].hand \in Seq(Events) /\ sent \in [Conns -> Seq(Events)] BY Typed
    <3> QED BY <1>1, <3>1, SentType
  <2> QED BY <1>0, <1>1, <2>1, <2>2, <2>4, <2>5, Typed, KeepKept
<1>2. CASE /\ LET g == [conn EXCEPT ![k] = Ended]
              IN  IF client.known /\ client.owner = k THEN Remove(g) ELSE Keep(client, g)
           /\ UNCHANGED sent
  BY <1>0, <1>2, EndedKeeps
<1> QED BY <1>1, <1>2 DEF PollAnswers

-----------------------------------------------------------------------------
(* The push task, and what happens to a handler without its doing.           *)

LEMMA RelayKeeps == ASSUME IInv, NEW k \in Conns, Relay(k) PROVE IInv'
<1> DEFINE h == [conn EXCEPT ![k].busy = TRUE]
<1>1. h \in [Conns -> Handlers]
  <2>1. [conn[k] EXCEPT !.busy = TRUE] \in Handlers BY Typed DEF Handlers
  <2> QED BY <2>1, Typed
<1>2. \A m \in Conns : /\ h[m].stage = conn[m].stage /\ h[m].serves = conn[m].serves
                       /\ h[m].quiet = conn[m].quiet /\ h[m].wait = conn[m].wait
  BY Typed DEF Handlers
<1> HIDE DEF h
<1>3. Smooth(client, h) BY <1>1, <1>2, Typed, SmoothSame DEF Polls
<1> QED BY <1>1, <1>3, Typed, KeepKept DEF Relay, h

LEMMA PeerLeavesKeeps == ASSUME IInv, NEW k \in Conns, PeerLeaves(k) PROVE IInv'
<1> PICK p \in {"dead", "gone"} : Keep(client, [conn EXCEPT ![k].peer = p]) BY DEF PeerLeaves
<1> DEFINE h == [conn EXCEPT ![k].peer = p]
<1>1. h \in [Conns -> Handlers]
  <2>1. [conn[k] EXCEPT !.peer = p] \in Handlers BY Typed DEF Handlers
  <2> QED BY <2>1, Typed
<1>2. \A m \in Conns : /\ h[m].stage = conn[m].stage /\ h[m].serves = conn[m].serves
                       /\ h[m].quiet = conn[m].quiet /\ h[m].wait = conn[m].wait
  BY Typed DEF Handlers
<1> HIDE DEF h
<1>3. Smooth(client, h) BY <1>1, <1>2, Typed, SmoothSame DEF Polls
<1> QED BY <1>1, <1>3, Typed, KeepKept DEF PeerLeaves, h

LEMMA NotifyKeeps == ASSUME IInv, Notify PROVE IInv'
<1> DEFINE c == Pushed(client)
           h == Woken(conn)
<1>0. Keep(c, h) /\ pushed < MaxEvents /\ pushed' = pushed + 1 /\ sent' = sent BY DEF Notify
<1>1. /\ c \in Clients /\ c.known = client.known /\ c.idle = client.idle
      /\ c.owner = client.owner /\ c.open = client.open /\ c.grace = client.grace
  BY <1>0, Typed, PushedIs
<1>2. /\ h \in [Conns -> Handlers]
      /\ \A m \in Conns :
            /\ h[m].stage = conn[m].stage /\ h[m].serves = conn[m].serves
            /\ h[m].stage = "polling" => /\ h[m].quiet = conn[m].quiet
                                        /\ h[m].wait \in {"waiting", "woken", "cut"}
  BY Typed, WokenIs DEF Polls
<1>3. pushed' \in 0..MaxEvents BY <1>0, Typed, Ticks
<1> HIDE DEF c, h
<1>4. Smooth(c, h) BY <1>1, <1>2, SmoothSame
<1> QED BY <1>0, <1>1, <1>2, <1>3, <1>4, Typed, KeepKept

LEMMA ReapKeeps == ASSUME IInv, Reap PROVE IInv'
BY Typed, RemoveKept DEF Reap

\* A stream goes on being one.
LEMMA StreamStays ==
    ASSUME IInv, NEW k \in Conns, conn[k].stage = "streaming",
           NEW c \in Clients, c.known = client.known, c.owner = client.owner, c.open = client.open,
           c.grace = client.grace, c.idle = client.idle,
           NEW r \in Handlers, r.stage = "streaming", r.serves = conn[k].serves,
           Keep(c, [conn EXCEPT ![k] = r]),
           pushed' = pushed, sent' \in [Conns -> Seq(Events)]
    PROVE  IInv'
<1> DEFINE h == [conn EXCEPT ![k] = r]
<1>1. h \in [Conns -> Handlers] BY Typed
<1>2. (\A m \in Conns \ {k} : h[m] = conn[m]) /\ h[k] = r BY Typed
<1>3. Keep(c, h) OBVIOUS
<1> HIDE DEF h
<1>4. \A m \in Conns :
            /\ h[m].stage = conn[m].stage /\ h[m].serves = conn[m].serves
            /\ h[m].stage = "polling" => /\ h[m].quiet = conn[m].quiet
                                        /\ h[m].wait \in {"waiting", "woken", "cut"}
  <2> TAKE m \in Conns
  <2>1. CASE m = k BY <1>2, <2>1
  <2>2. CASE m # k BY <1>2, <2>2, Typed DEF Polls
  <2> QED BY <2>1, <2>2
<1>5. Smooth(c, h) BY <1>1, <1>4, SmoothSame
<1> QED BY <1>1, <1>3, <1>5, Typed, KeepKept

LEMMA WaitedIs ==
    ASSUME IInv, NEW k \in Conns, NEW w \in Waits
    PROVE  \E r \in Handlers : /\ Waited(k, w) = [conn EXCEPT ![k] = r]
                               /\ r.stage = conn[k].stage /\ r.serves = conn[k].serves
<1> DEFINE r == [conn[k] EXCEPT !.wait = w, !.quiet = 0, !.busy = FALSE, !.hand = <<>>]
<1>1. <<>> \in Seq(Events) /\ conn[k] \in Handlers BY Typed
<1>2. r \in Handlers /\ r.stage = conn[k].stage /\ r.serves = conn[k].serves BY <1>1 DEF Handlers
<1>3. Waited(k, w) = [conn EXCEPT ![k] = r] BY Typed DEF Waited
<1> QED BY <1>2, <1>3

LEMMA StoppedIs ==
    ASSUME IInv, NEW k \in Conns
    PROVE  \E r \in Handlers : /\ [Stopped(k) EXCEPT ![k].peer = "gone"] = [conn EXCEPT ![k] = r]
                               /\ r.stage = conn[k].stage /\ r.serves = conn[k].serves
<1>0. "no" \in Waits BY DEF Waits
<1>1. PICK q \in Handlers : /\ Waited(k, "no") = [conn EXCEPT ![k] = q]
                            /\ q.stage = conn[k].stage /\ q.serves = conn[k].serves
  BY <1>0, WaitedIs
<1> DEFINE r == [q EXCEPT !.peer = "gone"]
<1>2. r \in Handlers /\ r.stage = conn[k].stage /\ r.serves = conn[k].serves BY <1>1 DEF Handlers
<1>3. [Stopped(k) EXCEPT ![k].peer = "gone"] = [conn EXCEPT ![k] = r] BY <1>1, Typed DEF Stopped
<1> QED BY <1>2, <1>3

\* What a push task may do with the entry, the handler and the socket.
LEMMA PushKeeps ==
    ASSUME IInv, NEW k \in Conns, conn[k].stage = "streaming",
           NEW c \in {client, [client EXCEPT !.queue = <<>>]}, NEW h, Keep(c, h),
           \/ h = conn
           \/ \E w \in Waits : h = Waited(k, w)
           \/ h = [Stopped(k) EXCEPT ![k].peer = "gone"],
           pushed' = pushed,
           sent' = sent \/ \E e \in Seq(Events) : sent' = [sent EXCEPT ![k] = @ \o e]
    PROVE  IInv'
<1>1. PICK r \in Handlers : h = [conn EXCEPT ![k] = r] /\ r.stage = conn[k].stage /\ r.serves = conn[k].serves
  <2>1. CASE h = conn
    <3>1. conn[k] \in Handlers /\ conn = [conn EXCEPT ![k] = conn[k]] BY Typed
    <3> QED BY <2>1, <3>1
  <2>2. CASE \E w \in Waits : h = Waited(k, w) BY <2>2, WaitedIs
  <2>3. CASE h = [Stopped(k) EXCEPT ![k].peer = "gone"] BY <2>3, StoppedIs
  <2> QED BY <2>1, <2>2, <2>3
<1>2. sent' \in [Conns -> Seq(Events)] BY Typed, SentType
<1>3. /\ c \in Clients /\ c.known = client.known /\ c.owner = client.owner /\ c.open = client.open
      /\ c.grace = client.grace /\ c.idle = client.idle
  BY Typed, Emptied
<1>4. Keep(c, [conn EXCEPT ![k] = r]) BY <1>1
<1> QED BY <1>1, <1>2, <1>3, <1>4, StreamStays

LEMMA PushLoopsKeeps == ASSUME IInv, NEW k \in Conns, PushLoops(k) PROVE IInv'
<1>0. conn[k].stage = "streaming" /\ pushed' = pushed BY DEF PushLoops
<1>1. "no" \in Waits /\ "waiting" \in Waits /\ client.queue \in Seq(Events) BY Typed DEF Waits
<1>2. CASE Keep(client, Stopped(k)) /\ sent' = sent
  BY <1>0, <1>1, <1>2, PushKeeps DEF Stopped
<1>3. CASE Keep([client EXCEPT !.queue = <<>>], conn) /\ sent' = [sent EXCEPT ![k] = @ \o client.queue]
  BY <1>0, <1>1, <1>3, PushKeeps
<1>4. CASE Keep(client, Waited(k, "waiting")) /\ sent' = sent
  BY <1>0, <1>1, <1>4, PushKeeps
<1> QED BY <1>2, <1>3, <1>4 DEF PushLoops

LEMMA PushReturnsKeeps == ASSUME IInv, NEW k \in Conns, PushReturns(k) PROVE IInv'
<1> DEFINE mine == conn[k].wait # "cut"
           e == IF mine THEN client.queue ELSE conn[k].hand
           c == IF mine THEN [client EXCEPT !.queue = <<>>] ELSE client
<1>0. conn[k].stage = "streaming" /\ pushed' = pushed BY DEF PushReturns
<1>1. "no" \in Waits /\ "ready" \in Waits /\ e \in Seq(Events) BY Typed DEF Waits
<1>2. CASE Keep(client, Stopped(k)) /\ sent' = sent
  BY <1>0, <1>1, <1>2, PushKeeps DEF Stopped
<1>3. CASE Keep(c, Again(k)) /\ sent' = [sent EXCEPT ![k] = @ \o e]
  <2>1. c \in {client, [client EXCEPT !.queue = <<>>]} OBVIOUS
  <2> HIDE DEF c, e
  <2> QED BY <1>0, <1>1, <1>3, <2>1, PushKeeps DEF Again
<1>4. CASE Keep(client, Again(k)) /\ sent' = sent
  BY <1>0, <1>1, <1>4, PushKeeps DEF Again
<1>5. CASE Keep(client, [Stopped(k) EXCEPT ![k].peer = "gone"]) /\ sent' = sent
  BY <1>0, <1>5, PushKeeps
<1> QED BY <1>2, <1>3, <1>4, <1>5 DEF PushReturns

-----------------------------------------------------------------------------
(* Streams open, are connected again, and end.                               *)

LEMMA StreamReconnectKeeps == ASSUME IInv, NEW k \in Conns, StreamReconnect(k) PROVE IInv'
<1>0. conn[k].stage = "streaming" /\ UNCHANGED <<pushed, sent>> BY DEF StreamReconnect, Reads
<1>1. CASE client.known /\ Keep(Registered(client, k, client.transport), [conn EXCEPT ![k].serves = TRUE])
  <2> DEFINE c == Registered(client, k, client.transport)
             h == [conn EXCEPT ![k].serves = TRUE]
  <2>1. client.transport \in {"", "streaming", "long-polling"} BY Typed DEF Clients
  <2>2. c \in Clients /\ c.known /\ c.idle = 0 /\ c.owner = k /\ c.open = client.open /\ c.grace = Off
    BY <1>1, <2>1, Typed, RegisteredIs
  <2>3. h \in [Conns -> Handlers]
    <3>1. [conn[k] EXCEPT !.serves = TRUE] \in Handlers BY Typed DEF Handlers
    <3> QED BY <3>1, Typed
  <2>4. (\A m \in Conns \ {k} : h[m] = conn[m]) /\ h[k].stage = "streaming" /\ h[k].serves
    BY <1>0, Typed DEF Handlers
  <2>5. Keep(c, h) BY <1>1
  <2> HIDE DEF c, h
  <2>6. Smooth(c, h)
    <3>1. \A m \in Conns : h[m].stage = "streaming" <=> conn[m].stage = "streaming"
      BY <1>0, <2>4
    <3>2. \A m \in Conns : h[m].stage = "streaming" =>
                h[m].serves = conn[m].serves \/ (client.known /\ h[m].serves)
      BY <1>1, <2>4
    <3>3. Owned(c, h) /\ Alone(c) /\ Prompt(c, h) BY <2>2, <2>4 DEF Owned, Alone, Prompt, Serving
    <3>4. Polls(h)
      <4> SUFFICES ASSUME NEW m \in Conns, h[m].stage = "polling"
                   PROVE  h[m].wait \in {"waiting", "woken", "cut"} /\ h[m].quiet <= Hold
        BY DEF Polls
      <4>1. h[m] = conn[m] BY <2>4
      <4> QED BY <4>1, Typed DEF Polls
    <3> QED BY <2>2, <3>1, <3>2, <3>3, <3>4 DEF Smooth
  <2> QED BY <1>0, <2>2, <2>3, <2>5, <2>6, Typed, KeepKept
<1>2. CASE Keep(client, [conn EXCEPT ![k].peer = "gone"])
  <2> DEFINE r == [conn[k] EXCEPT !.peer = "gone"]
  <2>1. r \in Handlers /\ r.stage = "streaming" /\ r.serves = conn[k].serves
    BY <1>0, Typed DEF Handlers
  <2>2. [conn EXCEPT ![k].peer = "gone"] = [conn EXCEPT ![k] = r] BY Typed
  <2> HIDE DEF r
  <2> QED BY <1>0, <1>2, <2>1, <2>2, Typed, StreamStays
<1> QED BY <1>1, <1>2 DEF StreamReconnect

LEMMA OpenedIs ==
    ASSUME NEW c \in Clients
    PROVE  LET e == Opened(c)
           IN  /\ e \in Clients /\ e.known = c.known /\ e.owner = c.owner
               /\ c.known => e.open = c.open + 1 /\ e.idle = 0 /\ e.grace = Off
               /\ ~c.known => e.open = c.open
<1>1. Opened(c) \in Clients BY ClientTypes
<1> QED BY <1>1 DEF Opened, Clients

\* One stream more is counted.
LEMMA StreamOpensKeeps ==
    ASSUME IInv, NEW k \in Conns, conn[k].stage = "opening", pushed' = pushed,
           NEW q \in Seq(Events), client' = [Opened(client) EXCEPT !.queue = q],
           NEW r \in Handlers, r.stage = "streaming", r.serves = client.known,
           conn' = [conn EXCEPT ![k] = r], away' = 0,
           leftover' = IF client.known THEN leftover ELSE leftover \cup {k},
           sent' \in [Conns -> Seq(Events)]
    PROVE  IInv'
<1>1. /\ Owned(client, conn) /\ Alone(client) /\ Polls(conn) /\ Prompt(client, conn)
      /\ Placed(client, conn, leftover) /\ Counted(client, conn, leftover)
  BY DEF IInv, SInv
<1>2. /\ client' \in Clients /\ client'.known = client.known /\ client'.owner = client.owner
      /\ client.known => client'.open = client.open + 1 /\ client'.idle = 0 /\ client'.grace = Off
      /\ ~client.known => client'.open = client.open
  <2>1. /\ Opened(client) \in Clients
        /\ Opened(client).known = client.known /\ Opened(client).owner = client.owner
        /\ client.known => /\ Opened(client).open = client.open + 1
                           /\ Opened(client).idle = 0 /\ Opened(client).grace = Off
        /\ ~client.known => Opened(client).open = client.open
    BY Typed, OpenedIs
  <2> QED BY <2>1 DEF Clients
<1>3. conn' \in [Conns -> Handlers] /\ (\A m \in Conns \ {k} : conn'[m] = conn[m]) /\ conn'[k] = r
  BY Typed
<1>4. k # None /\ client'.owner \in Conns \cup {None} BY <1>2, NoneAssumption DEF Clients
<1>5. Owned(client', conn')
  <2> SUFFICES ASSUME client'.known, client'.owner # None
               PROVE conn'[client'.owner].stage \in Serving /\ conn'[client'.owner].serves
    BY DEF Owned
  <2>1. CASE client'.owner = k BY <1>2, <1>3, <2>1 DEF Serving
  <2>2. CASE client'.owner # k BY <1>1, <1>2, <1>3, <1>4, <2>2 DEF Owned
  <2> QED BY <2>1, <2>2
<1>6. Alone(client') BY <1>2 DEF Alone
<1>7. Placed(client', conn', leftover')
  <2> SUFFICES ASSUME NEW m \in Conns, conn'[m].stage = "streaming"
               PROVE (conn'[m].serves => client'.known) /\ (~conn'[m].serves => m \in leftover')
    BY DEF Placed
  <2>1. CASE m = k BY <1>2, <1>3, <2>1
  <2>2. CASE m # k BY <1>1, <1>2, <1>3, <2>2 DEF Placed
  <2> QED BY <2>1, <2>2
<1>8. Counted(client', conn', leftover')
  <2>1. ~client'.known => client'.open = 0 BY <1>1, <1>2 DEF Counted
  <2>2. ASSUME leftover' = {} PROVE client'.open = Cardinality(Open(conn'))
    <3>1. client.known /\ leftover = {} BY <2>2
    <3>2. Open(conn') = Open(conn) \cup {k} BY <1>3, <3>1 DEF Open, Streams
    <3>3. k \notin Open(conn) BY DEF Open, Streams
    <3>4. Cardinality(Open(conn')) = Cardinality(Open(conn)) + 1
      BY <3>2, <3>3, OpenFinite, FS_AddElement
    <3> QED BY <1>1, <1>2, <3>1, <3>4 DEF Counted
  <2> QED BY <2>1, <2>2 DEF Counted
<1>9. Polls(conn')
  <2> SUFFICES ASSUME NEW m \in Conns, conn'[m].stage = "polling"
               PROVE  conn'[m].wait \in {"waiting", "woken", "cut"} /\ conn'[m].quiet <= Hold
    BY DEF Polls
  <2>1. conn'[m] = conn[m] BY <1>3
  <2> QED BY <1>1, <2>1 DEF Polls
<1>10. Prompt(client', conn')
  <2> SUFFICES ASSUME client'.known, client'.owner # None
               PROVE conn'[client'.owner].stage = "polling" => client'.idle <= conn'[client'.owner].quiet
    BY <1>2 DEF Prompt
  <2>1. conn'[client'.owner].quiet \in Nat BY <1>3, <1>4 DEF Handlers
  <2> QED BY <1>2, <2>1
<1>11. Patient(client', conn', away', leftover')
  <2>1. client'.known => Held(client', conn') BY <1>2, <1>3 DEF Held, Streams
  <2> QED BY <1>2, <2>1 DEF Patient
<1>12. TypeOK'
  <2>1. away' \in 0..Grace BY Ticks
  <2>2. leftover' \subseteq Conns BY DEF IInv, TypeOK
  <2> QED BY <1>2, <1>3, <2>1, <2>2, Typed DEF TypeOK
<1> QED BY <1>5, <1>6, <1>7, <1>8, <1>9, <1>10, <1>11, <1>12 DEF IInv, SInv

LEMMA OpeningKeeps == ASSUME IInv, NEW k \in Conns, StreamOpens(k) PROVE IInv'
<1>0. conn[k].stage = "opening" /\ pushed' = pushed BY DEF StreamOpens
<1> DEFINE mine == conn[k].serves
           q == IF mine THEN <<>> ELSE client.queue
           e == IF mine THEN client.queue ELSE conn[k].hand
           r == [conn[k] EXCEPT !.stage = "streaming", !.wait = "ready",
                                !.serves = client.known, !.hand = <<>>]
<1>1. CASE /\ client' = [Opened(client) EXCEPT !.queue = IF conn[k].serves THEN <<>> ELSE @]
           /\ conn' = [conn EXCEPT ![k].stage = "streaming", ![k].wait = "ready",
                                  ![k].serves = client.known, ![k].hand = <<>>]
           /\ away' = 0
           /\ leftover' = IF client.known THEN leftover ELSE leftover \cup {k}
           /\ sent' = [sent EXCEPT ![k] = @ \o IF conn[k].serves THEN client.queue ELSE conn[k].hand]
  <2>1. q \in Seq(Events) /\ e \in Seq(Events) BY Typed
  <2>2. client' = [Opened(client) EXCEPT !.queue = q]
    <3>1. Opened(client).queue = client.queue BY Typed DEF Opened, Clients
    <3> QED BY <1>1, <3>1
  <2>3. r \in Handlers /\ r.stage = "streaming" /\ r.serves = client.known
    <3>1. client.known \in BOOLEAN BY Typed DEF Clients
    <3>2. conn[k] \in Handlers BY Typed
    <3>3. <<>> \in Seq(Events) OBVIOUS
    <3>4. "streaming" \in Stages /\ "ready" \in Waits BY DEF Stages, Serving, Waits
    <3> QED BY <3>1, <3>2, <3>3, <3>4 DEF Handlers
  <2>4. conn' = [conn EXCEPT ![k] = r] BY <1>1, Typed
  <2>5. sent' = [sent EXCEPT ![k] = @ \o e] BY <1>1
  <2> HIDE DEF q, e, r
  <2>6. sent' \in [Conns -> Seq(Events)] BY <2>1, <2>5, Typed, SentType
  <2> QED BY <1>0, <1>1, <2>1, <2>2, <2>3, <2>4, <2>6, StreamOpensKeeps
<1>2. CASE /\ LET g == [conn EXCEPT ![k] = Ended]
              IN  IF client.known /\ client.owner = k THEN Remove(g) ELSE Keep(client, g)
           /\ UNCHANGED sent
  BY <1>0, <1>2, EndedKeeps
<1> QED BY <1>1, <1>2 DEF StreamOpens

\* What the end of a stream leaves of the session.
LEMMA GivenUpIs ==
    ASSUME NEW c \in Clients, NEW k \in Conns
    PROVE  LET e == Released(Closed(c), k)
           IN  /\ e \in Clients /\ e.known = c.known
               /\ ~c.known => e = c
               /\ c.known => /\ e.open = (IF c.open = 0 THEN 0 ELSE c.open - 1) /\ e.idle = 0
                             /\ e.owner = (IF c.owner = k THEN None ELSE c.owner)
                             /\ \/ e.grace = c.grace
                                \/ e.grace = Grace /\ e.owner = None /\ e.open = 0
<1> DEFINE d == Closed(c)
<1>1. d \in Clients BY ClientTypes
<1>2. /\ d.known = c.known /\ d.owner = c.owner /\ d.grace = c.grace
      /\ c.known => d.open = (IF c.open = 0 THEN 0 ELSE c.open - 1) /\ d.idle = 0
      /\ ~c.known => d = c
  BY DEF Closed, Clients
<1> HIDE DEF d
<1>3. Released(d, k) \in Clients BY <1>1, ClientTypes
<1>4. /\ Released(d, k).known = d.known /\ Released(d, k).open = d.open /\ Released(d, k).idle = d.idle
      /\ ~d.known => Released(d, k) = d
      /\ d.known => /\ Released(d, k).owner = (IF d.owner = k THEN None ELSE d.owner)
                    /\ \/ Released(d, k).grace = d.grace
                       \/ /\ Released(d, k).grace = Grace /\ Released(d, k).owner = None
                          /\ ~(d.open > 0)
  BY <1>1 DEF Released, Armed, Clients
<1>5. d.open \in Nat BY <1>1 DEF Clients
<1>6. ~(d.open > 0) => d.open = 0 BY <1>5
<1>7. /\ Released(d, k) \in Clients /\ Released(d, k).known = c.known
      /\ ~c.known => Released(d, k) = c
      /\ c.known => /\ Released(d, k).open = (IF c.open = 0 THEN 0 ELSE c.open - 1)
                    /\ Released(d, k).idle = 0
                    /\ Released(d, k).owner = (IF c.owner = k THEN None ELSE c.owner)
                    /\ \/ Released(d, k).grace = c.grace
                       \/ /\ Released(d, k).grace = Grace /\ Released(d, k).owner = None
                          /\ Released(d, k).open = 0
  BY <1>2, <1>3, <1>4, <1>6
<1> QED BY <1>7 DEF d

LEMMA StreamEndsKeeps == ASSUME IInv, NEW k \in Conns, StreamEnds(k) PROVE IInv'
<1> DEFINE c == Released(Closed(client), k)
           h == [conn EXCEPT ![k] = Ended]
<1>0. conn[k].stage = "streaming" /\ UNCHANGED <<pushed, sent>> /\ Keep(c, h) BY DEF StreamEnds
<1>1. /\ Owned(client, conn) /\ Alone(client) /\ Polls(conn) /\ Prompt(client, conn)
      /\ Placed(client, conn, leftover) /\ Counted(client, conn, leftover)
  BY DEF IInv, SInv
<1>2. /\ c \in Clients /\ c.known = client.known
      /\ ~client.known => c = client
      /\ client.known => /\ c.open = (IF client.open = 0 THEN 0 ELSE client.open - 1) /\ c.idle = 0
                         /\ c.owner = (IF client.owner = k THEN None ELSE client.owner)
                         /\ \/ c.grace = client.grace
                            \/ c.grace = Grace /\ c.owner = None /\ c.open = 0
  BY Typed, GivenUpIs
<1>3. /\ h \in [Conns -> Handlers] /\ (\A m \in Conns \ {k} : h[m] = conn[m])
      /\ h[k] = Ended /\ h[k].stage = "closed"
  <2>1. Ended.stage = "closed" BY DEF Ended, Fresh
  <2> QED BY <2>1, Typed, HandlerTypes
<1> HIDE DEF c, h
<1>4. /\ client' = c /\ conn' = h /\ client' \in Clients /\ conn' \in [Conns -> Handlers]
      /\ away' \in 0..Grace /\ leftover' \subseteq Conns
  <2>1. TypeOK BY DEF IInv
  <2> QED BY <2>1, <1>0, <1>2, <1>3, KeepTypes
<1>5. leftover' = IF c.known THEN leftover ELSE leftover \cap Streams(h) BY <1>0 DEF Keep
<1>6. k # None /\ c.owner \in Conns \cup {None} BY <1>2, NoneAssumption DEF Clients
<1>7. Owned(c, h)
  <2> SUFFICES ASSUME c.known, c.owner # None PROVE h[c.owner].stage \in Serving /\ h[c.owner].serves
    BY DEF Owned
  <2>1. c.owner \in Conns \ {k} /\ c.owner = client.owner BY <1>2, <1>6
  <2> QED BY <1>1, <1>2, <1>3, <2>1 DEF Owned
<1>8. Alone(c)
  <2> SUFFICES ASSUME c.known, c.grace # Off PROVE c.owner = None /\ c.open = 0 BY DEF Alone
  <2> QED BY <1>1, <1>2 DEF Alone
<1>9. Placed(c, h, leftover')
  <2> SUFFICES ASSUME NEW m \in Conns, h[m].stage = "streaming"
               PROVE (h[m].serves => c.known) /\ (~h[m].serves => m \in leftover')
    BY DEF Placed
  <2>1. m # k /\ h[m] = conn[m] BY <1>3
  <2> QED BY <1>1, <1>2, <1>5, <2>1 DEF Placed, Streams
<1>10. Counted(c, h, leftover')
  <2>1. ~c.known => c.open = 0 BY <1>1, <1>2 DEF Counted
  <2>2. ASSUME leftover' = {}, c.known PROVE c.open = Cardinality(Open(h))
    <3>1. leftover = {} /\ k \in Open(conn) BY <1>0, <1>1, <1>5, <2>2 DEF Placed, Open, Streams
    <3>2. Open(h) = Open(conn) \ {k} BY <1>3 DEF Open, Streams
    <3>3. Cardinality(Open(h)) = Cardinality(Open(conn)) - 1
      BY <3>1, <3>2, OpenFinite, FS_RemoveElement
    <3>4. client.open = Cardinality(Open(conn)) /\ Cardinality(Open(conn)) # 0
      BY <1>1, <3>1, OpenFinite, FS_EmptySet DEF Counted
    <3> QED BY <1>2, <2>2, <3>3, <3>4
  <2>3. ASSUME ~c.known PROVE Cardinality(Open(h)) = 0
    <3>1. \A m \in Conns : ~(h[m].stage = "streaming" /\ h[m].serves) BY <1>9, <2>3 DEF Placed
    <3> QED BY <3>1, OpenEmpty
  <2> QED BY <2>1, <2>2, <2>3 DEF Counted
<1>11. Polls(h)
  <2> SUFFICES ASSUME NEW m \in Conns, h[m].stage = "polling"
               PROVE  h[m].wait \in {"waiting", "woken", "cut"} /\ h[m].quiet <= Hold
    BY DEF Polls
  <2>1. h[m] = conn[m] BY <1>3
  <2> QED BY <1>1, <2>1 DEF Polls
<1>12. Prompt(c, h)
  <2> SUFFICES ASSUME c.known, c.owner # None
               PROVE  h[c.owner].stage = "polling" => c.idle <= h[c.owner].quiet
    BY <1>2 DEF Prompt
  <2>1. h[c.owner].quiet \in Nat BY <1>3, <1>6 DEF Handlers
  <2> QED BY <1>2, <2>1
<1>13. Patient(c, h, away', leftover')
  <2>1. c.known => away' >= c.idle BY <1>2, <1>4
  <2>2. ASSUME c.known, c.grace # Off, leftover' = {} PROVE away' + c.grace >= Grace
    <3>1. CASE c.grace = Grace
      <4>1. \A a \in 0..Grace : a + Grace >= Grace BY Ticks
      <4>2. away' + Grace >= Grace BY <1>4, <4>1
      <4> QED BY <3>1, <4>2
    <3>2. CASE c.grace = client.grace
      <4>1. client.open = 0 /\ leftover = {} BY <1>1, <1>2, <1>5, <2>2, <3>2 DEF Alone
      <4>2. ~conn[k].serves BY <1>0, <1>1, <4>1, OpenEmpty DEF Counted
      <4> QED BY <1>0, <1>1, <4>1, <4>2 DEF Placed
    <3> QED BY <1>2, <2>2, <3>1, <3>2
  <2> QED BY <2>1, <2>2 DEF Patient
<1>14. pushed' \in 0..MaxEvents /\ sent' \in [Conns -> Seq(Events)] BY <1>0, Typed
<1> QED BY <1>4, <1>7, <1>8, <1>9, <1>10, <1>11, <1>12, <1>13, <1>14 DEF IInv, SInv, TypeOK

-----------------------------------------------------------------------------
(* Time, and the next-state relation.                                        *)

LEMMA TickKeeps == ASSUME IInv, Tick PROVE IInv'
<1>1. /\ Owned(client, conn) /\ Alone(client) /\ Polls(conn) /\ Prompt(client, conn)
      /\ Placed(client, conn, leftover) /\ Counted(client, conn, leftover)
      /\ Patient(client, conn, away, leftover)
  BY DEF IInv, SInv
<1>2. /\ pushed' = pushed /\ sent' = sent /\ leftover' = leftover
      /\ away' = IF ~client.known \/ Held(client, conn) THEN 0
                 ELSE IF away < Grace THEN away + 1 ELSE away
  BY DEF Tick
<1>3. /\ client.idle \in 0..AutoKill /\ client.grace \in 0..Off /\ away \in 0..Grace /\ Grace \in Nat
      /\ client.owner \in Conns \cup {None} /\ AutoKill \in Nat /\ Off = Grace + 1
  <2>1. away \in 0..Grace BY DEF IInv, TypeOK
  <2> QED BY <2>1, Typed, Ticks DEF Clients
<1> DEFINE i == IF client.known /\ client.idle < AutoKill THEN client.idle + 1 ELSE client.idle
           g == IF client.grace \in {0, Off} THEN client.grace ELSE client.grace - 1
<1>4. i \in 0..AutoKill /\ g \in 0..Off /\ i <= client.idle + 1 /\ (client.grace = Off <=> g = Off)
      /\ (client.grace # Off => g >= client.grace - 1)
  BY <1>3
<1>5. client' = [client EXCEPT !.idle = i, !.grace = g] BY DEF Tick
<1> HIDE DEF i, g
<1>6. /\ client' \in Clients /\ client'.known = client.known /\ client'.owner = client.owner
      /\ client'.open = client.open /\ client'.idle = i /\ client'.grace = g
  BY <1>4, <1>5, Typed DEF Clients
<1>7. /\ conn' \in [Conns -> Handlers]
      /\ \A k \in Conns : /\ conn'[k].stage = conn[k].stage /\ conn'[k].serves = conn[k].serves
                          /\ conn'[k].wait = conn[k].wait
                          /\ conn'[k].quiet = IF conn[k].wait = "waiting" THEN conn[k].quiet + 1
                                              ELSE conn[k].quiet
  <2>1. conn' = [k \in Conns |-> IF conn[k].wait = "waiting" THEN [conn[k] EXCEPT !.quiet = @ + 1]
                                 ELSE conn[k]]
    BY DEF Tick
  <2>2. ASSUME NEW k \in Conns PROVE conn[k] \in Handlers /\ conn[k].quiet + 1 \in Nat
    <3>1. conn[k] \in Handlers BY Typed
    <3>2. conn[k].quiet \in Nat BY <3>1 DEF Handlers
    <3> QED BY <3>1, <3>2
  <2> QED BY <2>1, <2>2 DEF Handlers
<1>8. ASSUME NEW k \in Conns
      PROVE  /\ conn[k].stage \notin {"answering", "opening"}
             /\ conn[k].stage = "polling" => conn[k].wait = "waiting" /\ conn[k].quiet # Hold
  <2>1. ~Due(k) BY DEF Tick
  <2> QED BY <1>1, <2>1 DEF Due, Polls
<1>9. Owned(client', conn') /\ Alone(client') BY <1>1, <1>3, <1>4, <1>6, <1>7 DEF Owned, Alone
<1>10. Placed(client', conn', leftover') BY <1>1, <1>2, <1>6, <1>7 DEF Placed
<1>11. Open(conn') = Open(conn) BY <1>7 DEF Open, Streams
<1>12. Counted(client', conn', leftover') BY <1>1, <1>2, <1>6, <1>11 DEF Counted
<1>13. Polls(conn')
  <2> SUFFICES ASSUME NEW k \in Conns, conn'[k].stage = "polling"
               PROVE  conn'[k].wait \in {"waiting", "woken", "cut"} /\ conn'[k].quiet <= Hold
    BY DEF Polls
  <2>1. conn[k].wait = "waiting" /\ conn[k].quiet # Hold /\ conn[k].quiet <= Hold
    BY <1>1, <1>7, <1>8 DEF Polls
  <2>2. conn[k].quiet \in Nat BY Typed DEF Handlers
  <2>3. conn[k].quiet + 1 <= Hold BY <2>1, <2>2, Ticks
  <2> QED BY <1>7, <2>1, <2>3
<1>14. Prompt(client', conn')
  <2> SUFFICES ASSUME client'.known, client'.owner # None
               PROVE  /\ conn'[client'.owner].stage = "polling" => i <= conn'[client'.owner].quiet
                      /\ conn'[client'.owner].stage \notin {"answering", "opening"}
    BY <1>6 DEF Prompt
  <2> DEFINE k == client.owner
  <2>1. k \in Conns /\ client'.owner = k /\ client.known BY <1>3, <1>6
  <2> HIDE DEF k
  <2>2. conn'[k].stage \notin {"answering", "opening"} BY <1>7, <1>8, <2>1
  <2>3. ASSUME conn'[k].stage = "polling" PROVE i <= conn'[k].quiet
    <3>1. conn[k].stage = "polling" BY <1>7, <2>1, <2>3
    <3>2. conn[k].wait = "waiting" BY <1>8, <2>1, <3>1
    <3>3. client.idle <= conn[k].quiet BY <1>1, <1>6, <2>1, <3>1 DEF Prompt
    <3>4. conn[k].quiet \in Nat BY <2>1, Typed DEF Handlers
    <3>5. conn'[k].quiet = conn[k].quiet + 1 BY <1>7, <2>1, <3>2
    <3>6. client.idle + 1 <= conn[k].quiet + 1 BY <1>3, <3>3, <3>4
    <3> QED BY <1>3, <1>4, <3>4, <3>5, <3>6
  <2> QED BY <2>1, <2>2, <2>3
<1>15. Held(client', conn') <=> Held(client, conn) BY <1>6, <1>7 DEF Held, Streams
<1>16. away' \in 0..Grace BY <1>2, <1>3
<1>17. Patient(client', conn', away', leftover')
  <2>1. ASSUME client.known, ~Held(client, conn) PROVE away' = Grace \/ away' >= i
    <3>1. away' = IF away < Grace THEN away + 1 ELSE away BY <1>2, <2>1
    <3>2. away = Grace \/ away >= client.idle BY <1>1, <2>1 DEF Patient
    <3> QED BY <1>3, <1>4, <3>1, <3>2
  <2>2. ASSUME client.known, g # Off, leftover = {} PROVE away' + g >= Grace
    <3>1. client.grace # Off BY <1>4, <2>2
    <3>2. client.owner = None /\ client.open = 0 BY <1>1, <2>2, <3>1 DEF Alone
    <3>3. \A k \in Conns : ~(conn[k].stage = "streaming" /\ conn[k].serves)
      BY <1>1, <2>2, <3>2, OpenEmpty DEF Counted
    <3>4. ~Held(client, conn) BY <3>2, <3>3 DEF Held, Streams
    <3>5. away' = IF away < Grace THEN away + 1 ELSE away BY <1>2, <2>2, <3>4
    <3>6. away + client.grace >= Grace BY <1>1, <2>2, <3>1 DEF Patient
    <3> QED BY <1>3, <1>4, <3>1, <3>5, <3>6
  <2> QED BY <1>2, <1>6, <1>15, <2>1, <2>2 DEF Patient
<1>18. pushed' \in 0..MaxEvents /\ sent' \in [Conns -> Seq(Events)] BY <1>2, Typed
<1>19. leftover' \subseteq Conns BY <1>2 DEF IInv, TypeOK
<1> QED
  BY <1>6, <1>7, <1>9, <1>10, <1>12, <1>13, <1>14, <1>16, <1>17, <1>18, <1>19 DEF IInv, SInv, TypeOK

LEMMA InitInv == ASSUME Init PROVE IInv
<1>1. client = Unknown /\ conn = [k \in Conns |-> Fresh] BY DEF Init
<1>2. TypeOK
  <2>1. <<>> \in Seq(Events) OBVIOUS
  <2>2. sent \in [Conns -> Seq(Events)] BY <2>1 DEF Init
  <2>3. client \in Clients /\ conn \in [Conns -> Handlers] BY <1>1, ClientTypes, HandlerTypes
  <2>4. pushed \in 0..MaxEvents /\ away \in 0..Grace /\ leftover \subseteq Conns BY Ticks DEF Init
  <2> QED BY <2>2, <2>3, <2>4 DEF TypeOK
<1>3. ~client.known /\ client.open = 0 /\ \A k \in Conns : conn[k].stage = "fresh"
  BY <1>1 DEF Unknown, Fresh
<1>4. Owned(client, conn) /\ Alone(client) /\ Prompt(client, conn) /\ Patient(client, conn, away, leftover)
  BY <1>3 DEF Owned, Alone, Prompt, Patient
<1>5. Placed(client, conn, leftover) /\ Polls(conn) BY <1>3 DEF Placed, Polls
<1>6. Counted(client, conn, leftover)
  <2>1. Cardinality(Open(conn)) = 0 BY <1>3, OpenEmpty
  <2> QED BY <1>3, <2>1 DEF Counted
<1> QED BY <1>2, <1>4, <1>5, <1>6 DEF IInv, SInv

LEMMA NextKeeps == ASSUME IInv, [Next]_vars PROVE IInv'
<1>1. ASSUME NEW k \in Conns, Handler(k) PROVE IInv'
  BY <1>1, PollReturnsKeeps, PollAnswersKeeps, OpeningKeeps, PushLoopsKeeps, PushReturnsKeeps,
     StreamEndsKeeps, SocketEndsKeeps DEF Handler
<1>2. ASSUME NEW k \in Conns, Controller(k) PROVE IInv'
  BY <1>2, AcceptKeeps, HandshakeKeeps, RequestKeeps, DisconnectKeeps, RefusedKeeps, PollConnectKeeps,
     StreamConnectKeeps, StreamReconnectKeeps, RelayKeeps, PeerLeavesKeeps DEF Controller
<1>3. CASE Notify BY <1>3, NotifyKeeps
<1>4. CASE Reap BY <1>4, ReapKeeps
<1>5. CASE Tick BY <1>5, TickKeeps
<1>6. CASE UNCHANGED vars
  BY <1>6 DEF vars, IInv, TypeOK, SInv, Owned, Alone, Placed, Counted, Polls, Prompt, Patient, Held,
              Open, Streams
<1> QED BY <1>1, <1>2, <1>3, <1>4, <1>5, <1>6 DEF Next

LEMMA Invariant == Spec => []IInv
<1>1. Init => IInv BY InitInv
<1>2. IInv /\ [Next]_vars => IInv' BY NextKeeps
<1> QED BY <1>1, <1>2, PTL DEF Spec

-----------------------------------------------------------------------------
(* The way of an event: queued, in a hand, written.                          *)

Sorted(q) == \A i, j \in DOMAIN q : i < j => q[i] < q[j]
Elems(q) == {q[i] : i \in DOMAIN q}

\* What has left the queue for the socket k.
Got(h, s, k) == Elems(s[k]) \cup Elems(h[k].hand)

\* Every event is in one place: what is queued came after all that was taken out, and
\* what a socket holds came after all that was written to it.
Flow(q, h, s, n) ==
    /\ Sorted(q) /\ \A x \in Elems(q) : x <= n
    /\ \A k \in Conns :
          /\ Sorted(s[k]) /\ Sorted(h[k].hand)
          /\ \A x \in Elems(s[k]), y \in Elems(h[k].hand) : x < y
          /\ \A x \in Got(h, s, k) : x <= n /\ \A y \in Elems(q) : x < y
    /\ \A k, m \in Conns : k # m => Got(h, s, k) \cap Got(h, s, m) = {}

\* Only polls and streams wait, and who carries events in a reply has none in hand.
Neat(x) ==
    /\ x.stage \notin {"polling", "streaming"} => x.wait = "no"
    /\ x.stage \in {"fresh", "idle"} \/ (x.stage = "streaming" /\ x.wait = "ready") => x.hand = <<>>

Tidy(h) == \A k \in Conns : Neat(h[k])

Flowing == Flow(client.queue, conn, sent, pushed) /\ Tidy(conn)

LEMMA NoElems == Elems(<<>>) = {} /\ Sorted(<<>>)
BY DEF Elems, Sorted

LEMMA Joined ==
    ASSUME NEW a \in Seq(Events), NEW b \in Seq(Events)
    PROVE  /\ Elems(a \o b) = Elems(a) \cup Elems(b)
           /\ Sorted(a) /\ Sorted(b) /\ (\A x \in Elems(a), y \in Elems(b) : x < y) => Sorted(a \o b)
<1> DEFINE c == a \o b
<1>1. /\ Len(a) \in Nat /\ Len(b) \in Nat /\ DOMAIN a = 1..Len(a) /\ DOMAIN b = 1..Len(b)
      /\ DOMAIN c = 1..(Len(a) + Len(b))
      /\ \A i \in 1..(Len(a) + Len(b)) : c[i] = IF i <= Len(a) THEN a[i] ELSE b[i - Len(a)]
  OBVIOUS
<1> HIDE DEF c
<1>2. \A i \in DOMAIN c : \/ i \in DOMAIN a /\ c[i] = a[i]
                          \/ i > Len(a) /\ i - Len(a) \in DOMAIN b /\ c[i] = b[i - Len(a)]
  BY <1>1
<1>3. \A i \in DOMAIN a : i \in DOMAIN c /\ c[i] = a[i] BY <1>1
<1>4. \A i \in DOMAIN b : i + Len(a) \in DOMAIN c /\ c[i + Len(a)] = b[i] BY <1>1
<1>5. Elems(c) = Elems(a) \cup Elems(b)
  <2>1. Elems(c) \subseteq Elems(a) \cup Elems(b) BY <1>2 DEF Elems
  <2>2. Elems(a) \subseteq Elems(c) BY <1>3 DEF Elems
  <2>3. Elems(b) \subseteq Elems(c) BY <1>4 DEF Elems
  <2> QED BY <2>1, <2>2, <2>3
<1>6. ASSUME Sorted(a), Sorted(b), \A x \in Elems(a), y \in Elems(b) : x < y
      PROVE  Sorted(c)
  <2> SUFFICES ASSUME NEW i \in DOMAIN c, NEW j \in DOMAIN c, i < j PROVE c[i] < c[j]
    BY DEF Sorted
  <2>1. CASE j <= Len(a)
    <3>1. i \in DOMAIN a /\ j \in DOMAIN a /\ c[i] = a[i] /\ c[j] = a[j] BY <1>1, <2>1
    <3> QED BY <1>6, <3>1 DEF Sorted
  <2>2. CASE i <= Len(a) /\ j > Len(a)
    <3>1. i \in DOMAIN a /\ c[i] = a[i] /\ j - Len(a) \in DOMAIN b /\ c[j] = b[j - Len(a)]
      BY <1>1, <2>2
    <3> QED BY <1>6, <3>1 DEF Elems
  <2>3. CASE i > Len(a)
    <3>1. /\ i - Len(a) \in DOMAIN b /\ c[i] = b[i - Len(a)]
          /\ j - Len(a) \in DOMAIN b /\ c[j] = b[j - Len(a)] /\ i - Len(a) < j - Len(a)
      BY <1>1, <2>3
    <3> QED BY <1>6, <3>1 DEF Sorted
  <2> QED BY <1>1, <2>1, <2>2, <2>3
<1> QED BY <1>5, <1>6 DEF c

\* Events in hand may be lost, and so may those that are queued.
LEMMA FlowHands ==
    ASSUME NEW q, NEW h, NEW g, NEW s, NEW n, Flow(q, h, s, n),
           \A m \in Conns : g[m].hand \in {h[m].hand, <<>>}
    PROVE  Flow(q, g, s, n) /\ Flow(<<>>, g, s, n)
<1>1. \A m \in Conns : Elems(g[m].hand) \subseteq Elems(h[m].hand) /\ Sorted(g[m].hand)
  BY NoElems DEF Flow
<1>2. \A m \in Conns : Got(g, s, m) \subseteq Got(h, s, m) BY <1>1 DEF Got
<1>3. Flow(q, g, s, n)
  <2>1. Sorted(q) /\ \A x \in Elems(q) : x <= n BY DEF Flow
  <2>2. ASSUME NEW k \in Conns
        PROVE  /\ Sorted(s[k]) /\ Sorted(g[k].hand)
               /\ \A x \in Elems(s[k]), y \in Elems(g[k].hand) : x < y
               /\ \A x \in Got(g, s, k) : x <= n /\ \A y \in Elems(q) : x < y
    BY <1>1, <1>2 DEF Flow
  <2>3. \A k, m \in Conns : k # m => Got(g, s, k) \cap Got(g, s, m) = {} BY <1>2 DEF Flow
  <2> QED BY <2>1, <2>2, <2>3 DEF Flow
<1>4. Flow(<<>>, g, s, n) BY <1>3, NoElems DEF Flow
<1> QED BY <1>3, <1>4

\* The whole queue goes into one hand.
LEMMA FlowTake ==
    ASSUME NEW q \in Seq(Events), NEW h, NEW g, NEW s, NEW n, Flow(q, h, s, n), NEW t \in Conns,
           g[t].hand = q, \A m \in Conns \ {t} : g[m].hand \in {h[m].hand, <<>>}
    PROVE  Flow(<<>>, g, s, n)
<1>1. \A m \in Conns \ {t} : Elems(g[m].hand) \subseteq Elems(h[m].hand) /\ Sorted(g[m].hand)
  BY NoElems DEF Flow
<1>2. \A m \in Conns \ {t} : Got(g, s, m) \subseteq Got(h, s, m) BY <1>1 DEF Got
<1>3. Got(g, s, t) = Elems(s[t]) \cup Elems(q) /\ Elems(s[t]) \subseteq Got(h, s, t) BY DEF Got
<1>4. ASSUME NEW k \in Conns
      PROVE  /\ Sorted(s[k]) /\ Sorted(g[k].hand)
             /\ \A x \in Elems(s[k]), y \in Elems(g[k].hand) : x < y
             /\ \A x \in Got(g, s, k) : x <= n
  <2>1. CASE k = t BY <1>3, <2>1 DEF Flow
  <2>2. CASE k # t BY <1>1, <1>2, <2>2 DEF Flow
  <2> QED BY <2>1, <2>2
<1>5. \A m \in Conns : Got(h, s, m) \cap Elems(q) = {}
  <2> SUFFICES ASSUME NEW m \in Conns, NEW x \in Got(h, s, m), x \in Elems(q) PROVE FALSE OBVIOUS
  <2>1. x < x BY DEF Flow
  <2>2. x \in Nat BY Ticks DEF Elems, Events
  <2> QED BY <2>1, <2>2
<1>6. ASSUME NEW k \in Conns, NEW m \in Conns, k # m PROVE Got(g, s, k) \cap Got(g, s, m) = {}
  <2>1. Got(h, s, k) \cap Got(h, s, m) = {} BY <1>6 DEF Flow
  <2>2. CASE k = t
    <3>1. Got(g, s, m) \subseteq Got(h, s, m) BY <1>2, <1>6, <2>2
    <3> QED BY <1>3, <1>5, <2>1, <2>2, <3>1
  <2>3. CASE m = t
    <3>1. Got(g, s, k) \subseteq Got(h, s, k) BY <1>2, <1>6, <2>3
    <3> QED BY <1>3, <1>5, <2>1, <2>3, <3>1
  <2>4. CASE k # t /\ m # t BY <1>2, <2>1, <2>4
  <2> QED BY <2>2, <2>3, <2>4
<1> QED BY <1>4, <1>6, NoElems DEF Flow

\* What is in a hand is written.
LEMMA FlowWrite ==
    ASSUME NEW q, NEW h, NEW g, NEW s \in [Conns -> Seq(Events)], NEW n, Flow(q, h, s, n),
           NEW t \in Conns, h[t].hand \in Seq(Events), g[t].hand = <<>>,
           \A m \in Conns \ {t} : g[m].hand \in {h[m].hand, <<>>}
    PROVE  Flow(q, g, [s EXCEPT ![t] = @ \o h[t].hand], n)
<1> DEFINE z == [s EXCEPT ![t] = @ \o h[t].hand]
<1>1. z[t] = s[t] \o h[t].hand /\ \A m \in Conns \ {t} : z[m] = s[m] OBVIOUS
<1>2. s[t] \in Seq(Events) OBVIOUS
<1> HIDE DEF z
<1>3. Elems(z[t]) = Got(h, s, t) /\ Sorted(z[t]) BY <1>1, <1>2, Joined DEF Flow, Got
<1>4. Elems(g[t].hand) = {} /\ Sorted(g[t].hand) BY NoElems
<1>5. \A m \in Conns \ {t} : Elems(g[m].hand) \subseteq Elems(h[m].hand) /\ Sorted(g[m].hand)
  BY NoElems DEF Flow
<1>6. ASSUME NEW k \in Conns
      PROVE  /\ Sorted(z[k]) /\ Sorted(g[k].hand) /\ Got(g, z, k) \subseteq Got(h, s, k)
             /\ \A x \in Elems(z[k]), y \in Elems(g[k].hand) : x < y
  <2>1. CASE k = t BY <1>3, <1>4, <2>1 DEF Got
  <2>2. CASE k # t
    <3>1. z[k] = s[k] BY <1>1, <2>2
    <3> QED BY <1>5, <2>2, <3>1 DEF Flow, Got
  <2> QED BY <2>1, <2>2
<1>7. Sorted(q) /\ (\A x \in Elems(q) : x <= n)
      /\ (\A k \in Conns : \A x \in Got(h, s, k) : x <= n /\ \A y \in Elems(q) : x < y)
      /\ (\A k, m \in Conns : k # m => Got(h, s, k) \cap Got(h, s, m) = {})
  BY DEF Flow
<1>8. \A k, m \in Conns : k # m => Got(g, z, k) \cap Got(g, z, m) = {}
  <2> SUFFICES ASSUME NEW k \in Conns, NEW m \in Conns, k # m
               PROVE  Got(g, z, k) \cap Got(g, z, m) = {}
    OBVIOUS
  <2>1. Got(g, z, k) \subseteq Got(h, s, k) /\ Got(g, z, m) \subseteq Got(h, s, m) BY <1>6
  <2>2. Got(h, s, k) \cap Got(h, s, m) = {} BY <1>7
  <2> QED BY <2>1, <2>2
<1>9. \A k \in Conns : \A x \in Got(g, z, k) : x <= n /\ \A y \in Elems(q) : x < y BY <1>6, <1>7
<1>10. Flow(q, g, z, n) BY <1>6, <1>7, <1>8, <1>9 DEF Flow
<1> QED BY <1>10 DEF z

\* The whole queue is written at once.
LEMMA FlowCarry ==
    ASSUME NEW q \in Seq(Events), NEW h, NEW g, NEW s \in [Conns -> Seq(Events)], NEW n,
           Flow(q, h, s, n), NEW t \in Conns, g[t].hand = <<>>,
           \A m \in Conns \ {t} : g[m].hand \in {h[m].hand, <<>>}
    PROVE  Flow(<<>>, g, [s EXCEPT ![t] = @ \o q], n)
<1> DEFINE u == [m \in Conns |-> [hand |-> IF m = t THEN q ELSE h[m].hand]]
<1>1. u[t].hand = q /\ \A m \in Conns \ {t} : u[m].hand = h[m].hand OBVIOUS
<1> HIDE DEF u
<1>2. Flow(<<>>, u, s, n) BY <1>1, FlowTake
<1>3. Flow(<<>>, g, [s EXCEPT ![t] = @ \o u[t].hand], n) BY <1>1, <1>2, FlowWrite
<1> QED BY <1>1, <1>3

\* A new event is queued, as the last.
LEMMA FlowPush ==
    ASSUME NEW q \in Seq(Events), NEW h, NEW s \in [Conns -> Seq(Events)], NEW n \in Nat,
           Flow(q, h, s, n), \A k \in Conns : h[k].hand \in Seq(Events)
    PROVE  Flow(Append(q, n + 1), h, s, n + 1)
<1> DEFINE p == Append(q, n + 1)
<1>1. /\ Len(q) \in Nat /\ DOMAIN q = 1..Len(q) /\ DOMAIN p = 1..(Len(q) + 1)
      /\ p[Len(q) + 1] = n + 1 /\ \A i \in DOMAIN q : p[i] = q[i]
  OBVIOUS
<1> HIDE DEF p
<1>2. \A i \in DOMAIN p : (i \in DOMAIN q /\ p[i] = q[i]) \/ (i = Len(q) + 1 /\ p[i] = n + 1)
  BY <1>1
<1>3. Elems(p) \subseteq Elems(q) \cup {n + 1} BY <1>2 DEF Elems
<1>4. \A i \in DOMAIN q : q[i] \in Nat BY Ticks DEF Events
<1>5. \A x \in Elems(q) : x \in Nat /\ x <= n BY <1>4 DEF Flow, Elems
<1>6. Sorted(p)
  <2> SUFFICES ASSUME NEW i \in DOMAIN p, NEW j \in DOMAIN p, i < j PROVE p[i] < p[j] BY DEF Sorted
  <2>1. i \in DOMAIN q /\ p[i] = q[i] BY <1>1, <1>2
  <2>2. CASE j \in DOMAIN q BY <1>1, <2>1, <2>2 DEF Flow, Sorted
  <2>3. CASE j = Len(q) + 1 /\ p[j] = n + 1
    <3>1. q[i] \in Elems(q) BY <2>1 DEF Elems
    <3> QED BY <1>5, <2>1, <2>3, <3>1
  <2> QED BY <1>2, <2>2, <2>3
<1>7. ASSUME NEW k \in Conns, NEW x \in Got(h, s, k)
      PROVE  x <= n + 1 /\ \A y \in Elems(p) : x < y
  <2>1. x <= n /\ \A y \in Elems(q) : x < y BY DEF Flow
  <2>2. x \in Nat
    <3>1. s[k] \in Seq(Events) /\ h[k].hand \in Seq(Events) OBVIOUS
    <3>2. x \in Events BY <3>1 DEF Got, Elems
    <3> QED BY <3>2, Ticks DEF Events
  <2> QED BY <1>3, <2>1, <2>2
<1>8. \A x \in Elems(p) : x <= n + 1 BY <1>3, <1>5
<1> QED BY <1>6, <1>7, <1>8 DEF Flow, p

\* No operator of the manager but push writes the queue; a session met anew has none.
LEMMA QueueIs ==
    ASSUME NEW c \in Clients, NEW k \in Conns, NEW t \in {"", "streaming", "long-polling"}
    PROVE  /\ Met(c).queue \in {c.queue, <<>>} /\ Touched(c).queue = c.queue
           /\ Registered(c, k, t).queue = c.queue /\ Unregistered(c, k).queue = c.queue
           /\ Opened(c).queue = c.queue /\ Closed(c).queue = c.queue
           /\ Released(c, k).queue = c.queue
           /\ Pushed(c).queue = Append(c.queue, pushed + 1)
           /\ Unknown.queue = <<>>
<1>1. Met(c).queue \in {c.queue, <<>>} BY DEF Clients, Met, Unknown
<1>2. Touched(c).queue = c.queue BY DEF Clients, Touched
<1>3. Registered(c, k, t).queue = c.queue BY DEF Clients, Registered
<1>4. Unregistered(c, k).queue = c.queue BY DEF Clients, Unregistered
<1>5. Opened(c).queue = c.queue /\ Closed(c).queue = c.queue BY DEF Clients, Opened, Closed
<1>6. Released(c, k).queue = c.queue BY DEF Clients, Released, Armed
<1>7. Pushed(c).queue = Append(c.queue, pushed + 1) BY DEF Clients, Pushed
<1>8. Unknown.queue = <<>> BY DEF Unknown
<1> QED BY <1>1, <1>2, <1>3, <1>4, <1>5, <1>6, <1>7, <1>8

LEMMA EmptyIs == ASSUME NEW c \in Clients PROVE [c EXCEPT !.queue = <<>>].queue = <<>>
BY DEF Clients

LEMMA KeepIs == ASSUME NEW c, NEW h, Keep(c, h) PROVE client' = c /\ conn' = h
BY DEF Keep

\* Nothing is written and nothing taken, though the queue or a hand may be given up.
LEMMA FlowKept ==
    ASSUME Flowing, NEW c, NEW h, Keep(c, h), c.queue \in {client.queue, <<>>},
           UNCHANGED <<pushed, sent>>, \A m \in Conns : h[m].hand \in {conn[m].hand, <<>>}, Tidy(h)
    PROVE  Flowing'
<1>1. client' = c /\ conn' = h BY KeepIs
<1>2. Flow(c.queue, h, sent, pushed) BY FlowHands DEF Flowing
<1> QED BY <1>1, <1>2 DEF Flowing

LEMMA TidyOne ==
    ASSUME Tidy(conn), NEW k \in Conns, NEW h, \A m \in Conns \ {k} : h[m] = conn[m], Neat(h[k])
    PROVE  Tidy(h)
BY DEF Tidy

\* The same, when one handler moves.
LEMMA FlowOne ==
    ASSUME Flowing, NEW c, NEW h, Keep(c, h), c.queue \in {client.queue, <<>>},
           UNCHANGED <<pushed, sent>>, NEW k \in Conns, \A m \in Conns \ {k} : h[m] = conn[m],
           Neat(h[k]), h[k].hand \in {conn[k].hand, <<>>}
    PROVE  Flowing'
<1>1. Tidy(h) BY TidyOne DEF Flowing
<1>2. \A m \in Conns : h[m].hand \in {conn[m].hand, <<>>} OBVIOUS
<1> QED BY <1>1, <1>2, FlowKept

\* The heir takes what was queued, the others keep what they hold.
LEMMA FlowRemove ==
    ASSUME IInv, Flowing, NEW h \in [Conns -> Handlers], Remove(h), Tidy(h),
           \A m \in Conns : h[m].hand \in {conn[m].hand, <<>>}, UNCHANGED <<pushed, sent>>
    PROVE  Flowing'
<1>1. PICK heir \in IF Heirs(h) = {} THEN {None} ELSE Heirs(h) : conn' = Orphaned(h, heir)
  BY DEF Remove
<1>2. client'.queue = <<>> BY QueueIs DEF Remove, Unknown
<1>3. \A m \in Conns :
          /\ conn'[m].stage = h[m].stage
          /\ conn'[m].wait = IF h[m].wait \in {"waiting", "woken"} THEN "cut" ELSE h[m].wait
          /\ conn'[m].hand = IF m = heir THEN client.queue ELSE h[m].hand
  BY <1>1 DEF Orphaned, Handlers
<1>4. heir \in Conns => h[heir].wait = "woken" \/ h[heir].stage = "opening"
  BY <1>1, NoneAssumption DEF Heirs
<1>5. Tidy(conn')
  <2> SUFFICES ASSUME NEW m \in Conns PROVE Neat(conn'[m]) BY DEF Tidy
  <2>1. Neat(h[m]) BY DEF Tidy
  <2> QED BY <1>3, <1>4, <2>1 DEF Neat
<1>6. Flow(<<>>, conn', sent, pushed)
  <2>1. CASE heir \in Conns
    <3>1. \A m \in Conns \ {heir} : conn'[m].hand \in {conn[m].hand, <<>>} BY <1>3
    <3> QED BY <1>3, <2>1, <3>1, Typed, FlowTake DEF Flowing
  <2>2. CASE heir \notin Conns
    <3>1. \A m \in Conns : conn'[m].hand \in {conn[m].hand, <<>>} BY <1>3, <2>2
    <3> QED BY <3>1, FlowHands DEF Flowing
  <2> QED BY <2>1, <2>2
<1> QED BY <1>2, <1>5, <1>6 DEF Flowing

LEMMA WokenFlows ==
    ASSUME Tidy(conn), conn \in [Conns -> Handlers]
    PROVE  Tidy(Woken(conn)) /\ \A m \in Conns : Woken(conn)[m].hand = conn[m].hand
<1>1. \A m \in Conns : Woken(conn)[m].hand = conn[m].hand BY DEF Woken, Handlers
<1>2. ASSUME NEW m \in Conns PROVE Neat(Woken(conn)[m])
  <2>1. Neat(conn[m]) BY DEF Tidy
  <2>2. /\ Woken(conn)[m].stage = conn[m].stage
        /\ Woken(conn)[m].wait = IF conn[m].wait = "waiting" THEN "woken" ELSE conn[m].wait
    BY WokenIs
  <2> QED BY <1>1, <2>1, <2>2 DEF Neat
<1> QED BY <1>1, <1>2 DEF Tidy

LEMMA PushFlows ==
    ASSUME IInv, Flowing, NEW h, \A m \in Conns : h[m].hand = conn[m].hand
    PROVE  Flow(Append(client.queue, pushed + 1), h, sent, pushed + 1)
<1>1. Flow(client.queue, h, sent, pushed) BY FlowHands DEF Flowing
<1>2. pushed \in Nat BY Typed, Ticks
<1>3. \A m \in Conns : h[m].hand \in Seq(Events) BY Typed
<1> QED BY <1>1, <1>2, <1>3, Typed, FlowPush

LEMMA AcceptFlows == ASSUME IInv, Flowing, NEW k \in Conns, Accept(k) PROVE Flowing'
<1> DEFINE h == [conn EXCEPT ![k].stage = "idle"]
<1>1. /\ \A m \in Conns \ {k} : h[m] = conn[m]
      /\ h[k].stage = "idle" /\ h[k].wait = conn[k].wait /\ h[k].hand = conn[k].hand
  BY Typed DEF Handlers
<1>2. Neat(conn[k]) BY DEF Flowing, Tidy
<1>3. Neat(h[k]) BY <1>1, <1>2 DEF Neat, Accept
<1> QED BY <1>1, <1>3, FlowOne DEF Accept

LEMMA HandshakeFlows == ASSUME IInv, Flowing, NEW k \in Conns, Handshake(k) PROVE Flowing'
BY Typed, QueueIs, FlowKept DEF Handshake, Flowing

LEMMA RequestFlows == ASSUME IInv, Flowing, NEW k \in Conns, Request(k) PROVE Flowing'
<1>0. PICK unnamed \in BOOLEAN, result \in BOOLEAN :
         LET met == IF unnamed THEN Met(client) ELSE Touched(client)
             pushes == result /\ PushesResult(met)
             full == IF pushes THEN Pushed(met) ELSE met
         IN  /\ pushes => pushed < MaxEvents
             /\ Keep(IF Carries(k, full) THEN [full EXCEPT !.queue = <<>>] ELSE full,
                     IF pushes THEN Woken(conn) ELSE conn)
             /\ pushed' = IF pushes THEN pushed + 1 ELSE pushed
             /\ sent' = IF Carries(k, full) THEN [sent EXCEPT ![k] = @ \o full.queue] ELSE sent
  BY DEF Request
<1> DEFINE met == IF unnamed THEN Met(client) ELSE Touched(client)
           pushes == result /\ PushesResult(met)
           full == IF pushes THEN Pushed(met) ELSE met
           c == IF Carries(k, full) THEN [full EXCEPT !.queue = <<>>] ELSE full
           h == IF pushes THEN Woken(conn) ELSE conn
<1>1. met \in Clients /\ met.queue \in {client.queue, <<>>} BY Typed, MetIs, TouchedIs, QueueIs
<1> HIDE DEF met
<1>2. /\ pushes => pushed < MaxEvents
      /\ client' = c /\ conn' = h
      /\ pushed' = IF pushes THEN pushed + 1 ELSE pushed
      /\ sent' = IF Carries(k, full) THEN [sent EXCEPT ![k] = @ \o full.queue] ELSE sent
  BY <1>0, KeepIs DEF met
<1>3. full \in Clients BY <1>1, <1>2, Typed, PushedIs
<1>4. Tidy(h) /\ \A m \in Conns : h[m].hand = conn[m].hand BY Typed, WokenFlows DEF Flowing
<1>5. Flow(full.queue, h, sent, pushed')
  <2>1. Flow(client.queue, h, sent, pushed) /\ Flow(<<>>, h, sent, pushed)
    BY <1>4, FlowHands DEF Flowing
  <2>2. Flow(met.queue, h, sent, pushed) BY <1>1, <2>1
  <2>3. CASE pushes
    <3>1. full.queue = Append(met.queue, pushed + 1) /\ pushed' = pushed + 1
      BY <1>1, <1>2, <2>3, QueueIs
    <3>2. met.queue \in Seq(Events) BY <1>1 DEF Clients
    <3>3. pushed \in Nat /\ \A m \in Conns : h[m].hand \in Seq(Events) BY <1>4, Typed, Ticks
    <3> QED BY <2>2, <3>1, <3>2, <3>3, Typed, FlowPush
  <2>4. CASE ~pushes BY <1>2, <2>2, <2>4
  <2> QED BY <2>3, <2>4
<1> HIDE DEF full, h, pushes
<1>6. CASE Carries(k, full)
  <2>1. conn[k].hand = <<>>
    <3>1. Neat(conn[k]) BY DEF Flowing, Tidy
    <3> QED BY <1>6, <3>1 DEF Neat, Carries
  <2>2. full.queue \in Seq(Events) BY <1>3 DEF Clients
  <2>3. c.queue = <<>> BY <1>3, <1>6, EmptyIs
  <2>4. Flow(<<>>, h, sent', pushed') BY <1>2, <1>4, <1>5, <1>6, <2>1, <2>2, Typed, FlowCarry
  <2> QED BY <1>2, <1>4, <2>3, <2>4 DEF Flowing
<1>7. CASE ~Carries(k, full) BY <1>2, <1>4, <1>5, <1>7 DEF Flowing
<1> QED BY <1>6, <1>7

LEMMA DisconnectFlows == ASSUME IInv, Flowing, NEW k \in Conns, Disconnect(k) PROVE Flowing'
BY Typed, FlowRemove DEF Disconnect, Flowing

LEMMA ReapFlows == ASSUME IInv, Flowing, Reap PROVE Flowing'
BY Typed, FlowRemove DEF Reap, Flowing

LEMMA EndedIs ==
    ASSUME IInv, Flowing, NEW k \in Conns
    PROVE  LET h == [conn EXCEPT ![k] = Ended]
           IN  /\ h \in [Conns -> Handlers] /\ \A m \in Conns \ {k} : h[m] = conn[m]
               /\ Neat(h[k]) /\ h[k].hand = <<>> /\ Tidy(h)
<1> DEFINE h == [conn EXCEPT ![k] = Ended]
<1>1. h \in [Conns -> Handlers] /\ h[k] = Ended /\ \A m \in Conns \ {k} : h[m] = conn[m]
  BY Typed, HandlerTypes
<1>2. Neat(Ended) /\ Ended.hand = <<>> BY DEF Neat, Ended, Fresh
<1> HIDE DEF h
<1>3. Tidy(h) BY <1>1, <1>2, TidyOne DEF Flowing
<1> QED BY <1>1, <1>2, <1>3 DEF h

LEMMA RefusedFlows == ASSUME IInv, Flowing, NEW k \in Conns, Refused(k) PROVE Flowing'
BY EndedIs, FlowOne DEF Refused

LEMMA EndedFlows ==
    ASSUME IInv, Flowing, NEW k \in Conns, UNCHANGED <<pushed, sent>>,
           LET h == [conn EXCEPT ![k] = Ended]
           IN  IF client.known /\ client.owner = k THEN Remove(h) ELSE Keep(client, h)
    PROVE  Flowing'
<1> DEFINE h == [conn EXCEPT ![k] = Ended]
<1>1. /\ h \in [Conns -> Handlers] /\ \A m \in Conns \ {k} : h[m] = conn[m]
      /\ Neat(h[k]) /\ h[k].hand = <<>> /\ Tidy(h)
  BY EndedIs
<1>2. Remove(h) \/ Keep(client, h) OBVIOUS
<1> HIDE DEF h
<1>3. \A m \in Conns : h[m].hand \in {conn[m].hand, <<>>} BY <1>1
<1> QED BY <1>1, <1>2, <1>3, FlowRemove, FlowOne

LEMMA SocketEndsFlows == ASSUME IInv, Flowing, NEW k \in Conns, SocketEnds(k) PROVE Flowing'
BY EndedFlows DEF SocketEnds

LEMMA StreamEndsFlows == ASSUME IInv, Flowing, NEW k \in Conns, StreamEnds(k) PROVE Flowing'
<1>1. Released(Closed(client), k).queue = client.queue
  <2>1. Closed(client) \in Clients BY Typed, ClientTypes
  <2> QED BY <2>1, Typed, QueueIs
<1> QED BY <1>1, EndedIs, FlowOne DEF StreamEnds

LEMMA PollConnectFlows == ASSUME IInv, Flowing, NEW k \in Conns, PollConnect(k) PROVE Flowing'
<1> DEFINE r == Registered(client, k, "long-polling")
           g == [conn EXCEPT ![k].stage = "answering", ![k].serves = TRUE, ![k].hand = client.queue]
           h == [conn EXCEPT ![k].stage = "polling", ![k].serves = TRUE,
                             ![k].wait = "waiting", ![k].quiet = 0]
<1>0. conn[k].stage = "idle" /\ Neat(conn[k]) BY DEF PollConnect, Reads, Flowing, Tidy
<1>1. r \in Clients /\ r.queue = client.queue BY Typed, ClientTypes, QueueIs
<1> HIDE DEF r
<1>2. CASE Keep([r EXCEPT !.queue = <<>>], g)
  <2>1. /\ \A m \in Conns \ {k} : g[m] = conn[m]
        /\ g[k].stage = "answering" /\ g[k].wait = conn[k].wait /\ g[k].hand = client.queue
    BY Typed DEF Handlers
  <2>2. client'.queue = <<>> /\ conn' = g BY <1>1, <1>2, KeepIs, EmptyIs
  <2> HIDE DEF g
  <2>3. Neat(g[k]) BY <1>0, <2>1 DEF Neat
  <2>4. Tidy(g) BY <2>1, <2>3, TidyOne DEF Flowing
  <2>5. \A m \in Conns \ {k} : g[m].hand \in {conn[m].hand, <<>>} BY <2>1
  <2>6. Flow(<<>>, g, sent, pushed) BY <2>1, <2>5, Typed, FlowTake DEF Flowing
  <2> QED BY <2>2, <2>4, <2>6 DEF Flowing, PollConnect
<1>3. CASE Keep(r, h)
  <2>1. /\ \A m \in Conns \ {k} : h[m] = conn[m]
        /\ h[k].stage = "polling" /\ h[k].wait = "waiting" /\ h[k].hand = conn[k].hand
    BY Typed DEF Handlers
  <2> HIDE DEF h
  <2>2. Neat(h[k]) BY <2>1 DEF Neat
  <2>3. UNCHANGED <<pushed, sent>> BY DEF PollConnect
  <2> QED BY <1>1, <1>3, <2>1, <2>2, <2>3, FlowOne
<1> QED BY <1>2, <1>3 DEF PollConnect, r

LEMMA StreamConnectFlows == ASSUME IInv, Flowing, NEW k \in Conns, StreamConnect(k) PROVE Flowing'
<1> DEFINE r == Registered(client, k, "streaming")
           h == [conn EXCEPT ![k].stage = "opening", ![k].serves = TRUE]
<1>0. conn[k].stage = "idle" /\ Neat(conn[k]) BY DEF StreamConnect, Reads, Flowing, Tidy
<1>1. r.queue = client.queue BY Typed, QueueIs
<1>2. /\ \A m \in Conns \ {k} : h[m] = conn[m]
      /\ h[k].stage = "opening" /\ h[k].wait = conn[k].wait /\ h[k].hand = conn[k].hand
  BY Typed DEF Handlers
<1>3. Keep(r, h) /\ UNCHANGED <<pushed, sent>> BY DEF StreamConnect
<1> HIDE DEF r, h
<1>4. Neat(h[k]) BY <1>0, <1>2 DEF Neat
<1> QED BY <1>1, <1>2, <1>3, <1>4, FlowOne

LEMMA StreamReconnectFlows ==
    ASSUME IInv, Flowing, NEW k \in Conns, StreamReconnect(k) PROVE Flowing'
<1> DEFINE r == Registered(client, k, client.transport)
           g == [conn EXCEPT ![k].serves = TRUE]
           h == [conn EXCEPT ![k].peer = "gone"]
<1>0. Neat(conn[k]) BY DEF Flowing, Tidy
<1>1. r.queue = client.queue
  <2>1. client.transport \in {"", "streaming", "long-polling"} BY Typed DEF Clients
  <2> QED BY <2>1, Typed, QueueIs
<1>2. /\ \A m \in Conns \ {k} : g[m] = conn[m] /\ h[m] = conn[m]
      /\ g[k].stage = conn[k].stage /\ g[k].wait = conn[k].wait /\ g[k].hand = conn[k].hand
      /\ h[k].stage = conn[k].stage /\ h[k].wait = conn[k].wait /\ h[k].hand = conn[k].hand
  BY Typed DEF Handlers
<1>3. (Keep(r, g) \/ Keep(client, h)) /\ UNCHANGED <<pushed, sent>> BY DEF StreamReconnect
<1> HIDE DEF r, g, h
<1>4. Neat(g[k]) /\ Neat(h[k]) BY <1>0, <1>2 DEF Neat
<1>5. CASE Keep(r, g) BY <1>1, <1>2, <1>3, <1>4, <1>5, FlowOne
<1>6. CASE Keep(client, h) BY <1>2, <1>3, <1>4, <1>6, FlowOne
<1> QED BY <1>3, <1>5, <1>6

LEMMA RelayFlows == ASSUME IInv, Flowing, NEW k \in Conns, Relay(k) PROVE Flowing'
<1> DEFINE h == [conn EXCEPT ![k].busy = TRUE]
<1>1. /\ \A m \in Conns \ {k} : h[m] = conn[m]
      /\ h[k].stage = conn[k].stage /\ h[k].wait = conn[k].wait /\ h[k].hand = conn[k].hand
  BY Typed DEF Handlers
<1>2. Neat(h[k]) BY <1>1 DEF Neat, Flowing, Tidy
<1> QED BY <1>1, <1>2, FlowOne DEF Relay

LEMMA PeerLeavesFlows == ASSUME IInv, Flowing, NEW k \in Conns, PeerLeaves(k) PROVE Flowing'
<1> PICK p \in {"dead", "gone"} : Keep(client, [conn EXCEPT ![k].peer = p]) BY DEF PeerLeaves
<1> DEFINE h == [conn EXCEPT ![k].peer = p]
<1>1. /\ \A m \in Conns \ {k} : h[m] = conn[m]
      /\ h[k].stage = conn[k].stage /\ h[k].wait = conn[k].wait /\ h[k].hand = conn[k].hand
  BY Typed DEF Handlers
<1>2. Neat(h[k]) BY <1>1 DEF Neat, Flowing, Tidy
<1> QED BY <1>1, <1>2, FlowOne DEF PeerLeaves

LEMMA PollReturnsFlows == ASSUME IInv, Flowing, NEW k \in Conns, PollReturns(k) PROVE Flowing'
<1> DEFINE mine == conn[k].wait # "cut"
           t == Touched(client)
           c == IF mine THEN [t EXCEPT !.queue = <<>>] ELSE t
           h == [conn EXCEPT ![k].stage = "answering", ![k].wait = "no", ![k].quiet = 0,
                             ![k].hand = IF mine THEN client.queue ELSE @]
<1>0. Keep(c, h) /\ UNCHANGED <<pushed, sent>> BY DEF PollReturns
<1>1. t \in Clients /\ t.queue = client.queue BY Typed, ClientTypes, QueueIs
<1>2. /\ \A m \in Conns \ {k} : h[m] = conn[m]
      /\ h[k].stage = "answering" /\ h[k].wait = "no"
      /\ h[k].hand = IF mine THEN client.queue ELSE conn[k].hand
  BY Typed DEF Handlers
<1> HIDE DEF t, h
<1>3. Neat(h[k]) BY <1>2 DEF Neat
<1>4. CASE mine
  <2>1. c.queue = <<>> BY <1>1, <1>4, EmptyIs
  <2>2. \A m \in Conns \ {k} : h[m].hand \in {conn[m].hand, <<>>} BY <1>2
  <2>3. Flow(<<>>, h, sent, pushed) BY <1>2, <1>4, <2>2, Typed, FlowTake DEF Flowing
  <2>4. Tidy(h) BY <1>2, <1>3, TidyOne DEF Flowing
  <2> QED BY <1>0, <2>1, <2>3, <2>4, KeepIs DEF Flowing
<1>5. CASE ~mine
  <2>1. c = t BY <1>5
  <2> QED BY <1>0, <1>1, <1>2, <1>3, <1>5, <2>1, FlowOne
<1> QED BY <1>4, <1>5

LEMMA PollAnswersFlows == ASSUME IInv, Flowing, NEW k \in Conns, PollAnswers(k) PROVE Flowing'
<1> DEFINE c == Unregistered(client, k)
           h == [conn EXCEPT ![k].stage = "idle", ![k].serves = FALSE, ![k].hand = <<>>]
<1>0. conn[k].stage = "answering" /\ pushed' = pushed BY DEF PollAnswers
<1>1. CASE Keep(c, h) /\ sent' = [sent EXCEPT ![k] = @ \o conn[k].hand]
  <2>1. c.queue = client.queue BY Typed, QueueIs
  <2>2. /\ \A m \in Conns \ {k} : h[m] = conn[m]
        /\ h[k].stage = "idle" /\ h[k].wait = conn[k].wait /\ h[k].hand = <<>>
    BY Typed DEF Handlers
  <2> HIDE DEF c, h
  <2>3. Neat(conn[k]) BY DEF Flowing, Tidy
  <2>4. Neat(h[k]) BY <1>0, <2>2, <2>3 DEF Neat
  <2>5. Tidy(h) BY <2>2, <2>4, TidyOne DEF Flowing
  <2>6. \A m \in Conns \ {k} : h[m].hand \in {conn[m].hand, <<>>} BY <2>2
  <2>7. Flow(client.queue, h, sent', pushed) BY <1>1, <2>2, <2>6, Typed, FlowWrite DEF Flowing
  <2> QED BY <1>0, <1>1, <2>1, <2>5, <2>7, KeepIs DEF Flowing
<1>2. CASE /\ LET g == [conn EXCEPT ![k] = Ended]
              IN  IF client.known /\ client.owner = k THEN Remove(g) ELSE Keep(client, g)
           /\ UNCHANGED sent
  BY <1>0, <1>2, EndedFlows
<1> QED BY <1>1, <1>2 DEF PollAnswers

LEMMA StreamOpensFlows == ASSUME IInv, Flowing, NEW k \in Conns, StreamOpens(k) PROVE Flowing'
<1> DEFINE o == Opened(client)
           c == [o EXCEPT !.queue = IF conn[k].serves THEN <<>> ELSE @]
           h == [conn EXCEPT ![k].stage = "streaming", ![k].wait = "ready",
                             ![k].serves = client.known, ![k].hand = <<>>]
           z == [sent EXCEPT ![k] = @ \o IF conn[k].serves THEN client.queue ELSE conn[k].hand]
<1>0. pushed' = pushed BY DEF StreamOpens
<1>1. CASE client' = c /\ conn' = h /\ sent' = z
  <2>1. o \in Clients /\ o.queue = client.queue BY Typed, ClientTypes, QueueIs
  <2>2. c.queue = IF conn[k].serves THEN <<>> ELSE client.queue BY <2>1 DEF Clients
  <2>3. /\ \A m \in Conns \ {k} : h[m] = conn[m]
        /\ h[k].stage = "streaming" /\ h[k].wait = "ready" /\ h[k].hand = <<>>
    BY Typed DEF Handlers
  <2> HIDE DEF c, h
  <2>4. Neat(h[k]) BY <2>3 DEF Neat
  <2>5. Tidy(h) BY <2>3, <2>4, TidyOne DEF Flowing
  <2>6. \A m \in Conns \ {k} : h[m].hand \in {conn[m].hand, <<>>} BY <2>3
  <2>7. Flow(c.queue, h, z, pushed)
    <3>1. CASE conn[k].serves
      <4>1. z = [sent EXCEPT ![k] = @ \o client.queue] BY <3>1
      <4> HIDE DEF z
      <4>2. Flow(<<>>, h, [sent EXCEPT ![k] = @ \o client.queue], pushed)
        BY <2>3, <2>6, Typed, FlowCarry DEF Flowing
      <4> QED BY <2>2, <3>1, <4>1, <4>2
    <3>2. CASE ~conn[k].serves
      <4>1. z = [sent EXCEPT ![k] = @ \o conn[k].hand] BY <3>2
      <4> HIDE DEF z
      <4>2. Flow(client.queue, h, [sent EXCEPT ![k] = @ \o conn[k].hand], pushed)
        BY <2>3, <2>6, Typed, FlowWrite DEF Flowing
      <4> QED BY <2>2, <3>2, <4>1, <4>2
    <3> QED BY <3>1, <3>2
  <2> QED BY <1>0, <1>1, <2>5, <2>7 DEF Flowing
<1>2. CASE /\ LET g == [conn EXCEPT ![k] = Ended]
              IN  IF client.known /\ client.owner = k THEN Remove(g) ELSE Keep(client, g)
           /\ UNCHANGED sent
  BY <1>0, <1>2, EndedFlows
<1> QED BY <1>1, <1>2 DEF StreamOpens

\* A push task that turns to its next wait, or to none, has nothing in hand.
LEMMA WaitedFlows ==
    ASSUME IInv, Flowing, NEW k \in Conns, conn[k].stage = "streaming", NEW w
    PROVE  LET h == Waited(k, w)
           IN  /\ \A m \in Conns \ {k} : h[m] = conn[m]
               /\ h[k].hand = <<>> /\ Neat(h[k]) /\ Tidy(h)
<1> DEFINE h == Waited(k, w)
<1>1. /\ \A m \in Conns \ {k} : h[m] = conn[m]
      /\ h[k].hand = <<>> /\ h[k].stage = conn[k].stage
  BY Typed DEF Waited, Handlers
<1> HIDE DEF h
<1>2. Neat(h[k]) BY <1>1 DEF Neat
<1>3. Tidy(h) BY <1>1, <1>2, TidyOne DEF Flowing
<1> QED BY <1>1, <1>2, <1>3 DEF h

LEMMA PushLoopsFlows == ASSUME IInv, Flowing, NEW k \in Conns, PushLoops(k) PROVE Flowing'
<1>0. conn[k].stage = "streaming" /\ conn[k].wait = "ready" /\ pushed' = pushed BY DEF PushLoops
<1>1. CASE \E w \in {"no", "waiting"} : Keep(client, Waited(k, w)) /\ UNCHANGED sent
  BY <1>0, <1>1, WaitedFlows, FlowOne
<1>2. CASE /\ Keep([client EXCEPT !.queue = <<>>], conn)
           /\ sent' = [sent EXCEPT ![k] = @ \o client.queue]
  <2>1. conn[k].hand = <<>>
    <3>1. Neat(conn[k]) BY DEF Flowing, Tidy
    <3> QED BY <1>0, <3>1 DEF Neat
  <2>2. client'.queue = <<>> /\ conn' = conn BY <1>2, KeepIs, Typed, EmptyIs
  <2>3. Flow(<<>>, conn, sent', pushed) BY <1>2, <2>1, Typed, FlowCarry DEF Flowing
  <2> QED BY <1>0, <2>2, <2>3 DEF Flowing
<1> QED BY <1>1, <1>2 DEF PushLoops, Stopped

LEMMA PushReturnsFlows == ASSUME IInv, Flowing, NEW k \in Conns, PushReturns(k) PROVE Flowing'
<1> DEFINE mine == conn[k].wait # "cut"
           events == IF mine THEN client.queue ELSE conn[k].hand
           emptied == IF mine THEN [client EXCEPT !.queue = <<>>] ELSE client
<1>0. conn[k].stage = "streaming" /\ pushed' = pushed BY DEF PushReturns
<1>1. CASE \E w \in {"no", "ready"} : Keep(client, Waited(k, w)) /\ UNCHANGED sent
  BY <1>0, <1>1, WaitedFlows, FlowOne
<1>2. CASE Keep(client, [Stopped(k) EXCEPT ![k].peer = "gone"]) /\ UNCHANGED sent
  <2> DEFINE g == Waited(k, "no")
             h == [g EXCEPT ![k].peer = "gone"]
  <2>1. (\A m \in Conns \ {k} : g[m] = conn[m]) /\ g[k].hand = <<>> /\ Neat(g[k])
    BY <1>0, WaitedFlows
  <2>2. g \in [Conns -> Handlers] BY WaitedIs, Typed DEF Waits
  <2> HIDE DEF g
  <2>3. /\ \A m \in Conns \ {k} : h[m] = conn[m]
        /\ h[k].hand = <<>> /\ h[k].stage = g[k].stage /\ h[k].wait = g[k].wait
    BY <2>1, <2>2 DEF Handlers
  <2>4. Keep(client, h) BY <1>2 DEF Stopped, g
  <2> HIDE DEF h
  <2>5. Neat(h[k]) BY <2>1, <2>3 DEF Neat
  <2> QED BY <1>0, <1>2, <2>3, <2>4, <2>5, FlowOne
<1>3. CASE Keep(emptied, Again(k)) /\ sent' = [sent EXCEPT ![k] = @ \o events]
  <2> DEFINE h == Waited(k, "ready")
  <2>1. (\A m \in Conns \ {k} : h[m] = conn[m]) /\ h[k].hand = <<>> /\ Tidy(h)
    BY <1>0, WaitedFlows
  <2>2. client' = emptied /\ conn' = h BY <1>3, KeepIs DEF Again
  <2> HIDE DEF h
  <2>3. \A m \in Conns \ {k} : h[m].hand \in {conn[m].hand, <<>>} BY <2>1
  <2>4. Flow(emptied.queue, h, sent', pushed)
    <3>1. CASE mine
      <4>1. emptied.queue = <<>> BY <3>1, Typed, EmptyIs
      <4>2. sent' = [sent EXCEPT ![k] = @ \o client.queue] BY <1>3, <3>1
      <4>3. Flow(<<>>, h, [sent EXCEPT ![k] = @ \o client.queue], pushed)
        BY <2>1, <2>3, Typed, FlowCarry DEF Flowing
      <4> QED BY <4>1, <4>2, <4>3
    <3>2. CASE ~mine
      <4>1. emptied = client BY <3>2
      <4>2. sent' = [sent EXCEPT ![k] = @ \o conn[k].hand] BY <1>3, <3>2
      <4>3. Flow(client.queue, h, [sent EXCEPT ![k] = @ \o conn[k].hand], pushed)
        BY <2>1, <2>3, Typed, FlowWrite DEF Flowing
      <4> QED BY <4>1, <4>2, <4>3
    <3> QED BY <3>1, <3>2
  <2> QED BY <1>0, <2>1, <2>2, <2>4 DEF Flowing
<1> QED BY <1>1, <1>2, <1>3 DEF PushReturns, Stopped, Again

LEMMA NotifyFlows == ASSUME IInv, Flowing, Notify PROVE Flowing'
<1>1. client' = Pushed(client) /\ conn' = Woken(conn) /\ pushed' = pushed + 1 /\ sent' = sent
  BY KeepIs DEF Notify
<1>2. Tidy(Woken(conn)) /\ \A m \in Conns : Woken(conn)[m].hand = conn[m].hand
  BY Typed, WokenFlows DEF Flowing
<1>3. Pushed(client).queue = Append(client.queue, pushed + 1) BY Typed DEF Pushed, Clients
<1>4. Flow(Append(client.queue, pushed + 1), Woken(conn), sent, pushed + 1) BY <1>2, PushFlows
<1> QED BY <1>1, <1>2, <1>3, <1>4 DEF Flowing

LEMMA TickFlows == ASSUME IInv, Flowing, Tick PROVE Flowing'
<1>1. client'.queue = client.queue BY Typed DEF Tick, Clients
<1>2. sent' = sent /\ pushed' = pushed BY DEF Tick
<1>3. \A m \in Conns : /\ conn'[m].hand = conn[m].hand /\ conn'[m].stage = conn[m].stage
                       /\ conn'[m].wait = conn[m].wait
  BY Typed DEF Tick, Handlers
<1>4. Flow(client.queue, conn', sent, pushed) BY <1>3, FlowHands DEF Flowing
<1>5. Tidy(conn') BY <1>3 DEF Flowing, Tidy, Neat
<1> QED BY <1>1, <1>2, <1>4, <1>5 DEF Flowing

LEMMA InitFlowing == ASSUME Init PROVE Flowing
<1>1. client.queue = <<>> /\ \A k \in Conns : sent[k] = <<>> /\ conn[k] = Fresh BY DEF Init, Unknown
<1>2. Fresh.hand = <<>> /\ Neat(Fresh) BY DEF Fresh, Neat
<1>3. \A k \in Conns : Got(conn, sent, k) = {} BY <1>1, <1>2, NoElems DEF Got
<1>4. Flow(client.queue, conn, sent, pushed) BY <1>1, <1>2, <1>3, NoElems DEF Flow
<1> QED BY <1>1, <1>2, <1>4 DEF Flowing, Tidy

LEMMA NextFlowing == ASSUME IInv, Flowing, [Next]_vars PROVE Flowing'
<1>1. ASSUME NEW k \in Conns, Handler(k) PROVE Flowing'
  BY <1>1, PollReturnsFlows, PollAnswersFlows, StreamOpensFlows, PushLoopsFlows, PushReturnsFlows,
     StreamEndsFlows, SocketEndsFlows DEF Handler
<1>2. ASSUME NEW k \in Conns, Controller(k) PROVE Flowing'
  BY <1>2, AcceptFlows, HandshakeFlows, RequestFlows, DisconnectFlows, RefusedFlows, PollConnectFlows,
     StreamConnectFlows, StreamReconnectFlows, RelayFlows, PeerLeavesFlows DEF Controller
<1>3. CASE Notify BY <1>3, NotifyFlows
<1>4. CASE Reap BY <1>4, ReapFlows
<1>5. CASE Tick BY <1>5, TickFlows
<1>6. CASE UNCHANGED vars BY <1>6 DEF vars, Flowing
<1> QED BY <1>1, <1>2, <1>3, <1>4, <1>5, <1>6 DEF Next

LEMMA FlowInvariant == Spec => []Flowing
<1>1. Init => Flowing BY InitFlowing
<1>2. IInv /\ Flowing /\ [Next]_vars => Flowing' BY NextFlowing
<1> QED BY <1>1, <1>2, Invariant, PTL DEF Spec

-----------------------------------------------------------------------------
(* Theorems.                                                                 *)

\* Every variable keeps its type: the count never falls below 0, the history of the time
\* away never exceeds the grace.
THEOREM TypeCorrect == Spec => []TypeOK
<1>1. IInv => TypeOK BY DEF IInv
<1> QED BY <1>1, Invariant, PTL

\* remove_if_owner and release_connection are asked by the handler that owns the session,
\* and no handler that has given its connect up is still the owner.
THEOREM OwnerCorrect == Spec => []OwnerServes
<1>1. IInv => OwnerServes BY DEF IInv, SInv, Owned, OwnerServes
<1> QED BY <1>1, Invariant, PTL

\* The time to return runs only while the session has neither an owner nor a stream.
THEOREM GraceCorrect == Spec => []GraceAlone
<1>1. IInv => GraceAlone BY DEF IInv, SInv, Alone, GraceAlone
<1> QED BY <1>1, Invariant, PTL

\* connection_open and connection_closed keep the count of the streams exact, while no
\* stream has outlived an earlier session.
THEOREM CountCorrect == Spec => []CountTrue
<1>1. IInv => CountTrue BY DEF IInv, SInv, Counted, CountTrue, Open
<1> QED BY <1>1, Invariant, PTL

\* push, deliver_result, wait_for_events and remove pass an event on at most once: it is in
\* the queue, in the hand of one handler or written to one socket, and each socket gets its
\* events in the order they were pushed, over any number of polls, streams and lost answers.
THEOREM EventsOnceInOrder == Spec => []OnceInOrder
<1>1. ASSUME Flowing PROVE OnceInOrder
  <2>1. ASSUME NEW k \in Conns, NEW i \in DOMAIN sent[k], NEW j \in DOMAIN sent[k], i < j
        PROVE  sent[k][i] < sent[k][j]
    BY <1>1, <2>1 DEF Flowing, Flow, Sorted
  <2>2. ASSUME NEW k \in Conns, NEW m \in Conns, k # m,
               NEW i \in DOMAIN sent[k], NEW j \in DOMAIN sent[m]
        PROVE  sent[k][i] # sent[m][j]
    <3>1. Got(conn, sent, k) \cap Got(conn, sent, m) = {} BY <1>1, <2>2 DEF Flowing, Flow
    <3>2. sent[k][i] \in Got(conn, sent, k) /\ sent[m][j] \in Got(conn, sent, m) BY DEF Got, Elems
    <3> QED BY <3>1, <3>2
  <2> QED BY <2>1, <2>2 DEF OnceInOrder
<1> QED BY <1>1, FlowInvariant, PTL

\* kill_idle_clients reaps only who has been away for the whole grace.
THEOREM ReapsCorrect == Spec => ReapsOnlyAway
<1>1. ASSUME IInv, Reap, leftover = {} PROVE away = Grace
  <2>1. /\ Owned(client, conn) /\ Alone(client) /\ Counted(client, conn, leftover)
        /\ Polls(conn) /\ Prompt(client, conn) /\ Patient(client, conn, away, leftover)
    BY <1>1 DEF IInv, SInv
  <2>2. /\ client.known /\ client.open = 0
        /\ client.grace = 0 \/ client.idle = AutoKill
    BY <1>1 DEF Reap
  <2>3. \A k \in Conns : ~(conn[k].stage = "streaming" /\ conn[k].serves)
    BY <1>1, <2>1, <2>2, OpenEmpty DEF Counted
  <2>4. away \in 0..Grace /\ client.owner \in Conns \cup {None} BY <1>1, Typed DEF IInv, TypeOK, Clients
  <2>5. CASE client.grace = 0
    <3>1. client.grace # Off BY <2>5, Ticks
    <3>2. away + 0 >= Grace BY <1>1, <2>1, <2>2, <2>5, <3>1 DEF Patient
    <3> QED BY <2>4, <3>2, Ticks
  <2>6. CASE client.idle = AutoKill
    <3>1. client.owner = None
      <4> SUFFICES ASSUME client.owner # None PROVE FALSE OBVIOUS
      <4> DEFINE k == client.owner
      <4>1. k \in Conns /\ k # None BY <2>4
      <4>2. conn[k].stage \in Serving /\ conn[k].serves BY <2>1, <2>2 DEF Owned
      <4>3. conn[k].stage # "streaming" BY <2>3, <4>1, <4>2
      <4>4. conn[k].stage = "polling" \/ conn[k].stage \in {"answering", "opening"}
        BY <4>2, <4>3 DEF Serving
      <4>5. conn[k].quiet \in Nat BY <1>1, <4>1, Typed DEF Handlers
      <4>6. conn[k].stage = "polling" => client.idle <= conn[k].quiet /\ conn[k].quiet <= Hold
        BY <2>1, <2>2, <4>1 DEF Prompt, Polls
      <4>7. conn[k].stage \in {"answering", "opening"} => client.idle = 0
        BY <2>1, <2>2 DEF Prompt
      <4> HIDE DEF k
      <4> QED BY <2>6, <4>4, <4>5, <4>6, <4>7, Ticks
    <3>2. ~Held(client, conn) BY <2>3, <3>1 DEF Held, Streams
    <3>3. away = Grace \/ away >= client.idle BY <2>1, <2>2, <3>2 DEF Patient
    <3> QED BY <2>4, <2>6, <3>3, Ticks
  <2> QED BY <2>2, <2>5, <2>6
<1>2. IInv /\ [Next]_vars => [Reap => away = Grace \/ leftover # {}]_vars BY <1>1
<1> QED BY <1>2, Invariant, PTL DEF Spec, ReapsOnlyAway
=============================================================================
