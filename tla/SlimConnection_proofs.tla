----------------------- MODULE SlimConnection_proofs -----------------------
(* Proofs about the connection registry: its invariants hold for any number *)
(* of sockets and any limits, and it implements Presence.                   *)
EXTENDS SlimConnection, TLAPS

\* The counter is one while a socket is registered and missing otherwise.
CountsWriter ==
    connections = IF writer = NoSocket THEN 0 ELSE 1

\* What is left of the forget task's sleep covers what is left of the grace
\* period, so the task cannot wake early.
TimerCoversGrace == player = "offline" => forget + away >= Grace

\* The inductive invariant.
IInv ==
    /\ TypeOK
    /\ OneLiveSocket
    /\ OnlineHasSocket
    /\ ForgetArmed
    /\ ToldTruth
    /\ CountsWriter
    /\ TimerCoversGrace

-----------------------------------------------------------------------------
\* What the cleanup of a socket can do under the invariant: leave the
\* registry alone, or disconnect the player.
LEMMA CleanupCases ==
    ASSUME IInv, NEW s \in Sockets, Cleanup(s)
    PROVE  \/ writer \notin {s, NoSocket} /\ UNCHANGED registry
           \/ writer \in {s, NoSocket} /\ Disconnect(s)
  <1>1. CASE writer \notin {s, NoSocket}
    BY <1>1 DEF Cleanup
  <1>2. CASE writer \in {s, NoSocket}
    <2>1. Remaining = 0
      BY <1>2, SocketsAssumption DEF IInv, CountsWriter, Remaining
    <2> QED BY <1>2, <2>1 DEF Cleanup
  <1> QED BY <1>1, <1>2

\* After a disconnect the registry is empty and the forget task has the whole
\* grace period to wait.
LEMMA DisconnectEffect ==
    ASSUME IInv, NEW s \in Sockets, writer \in {s, NoSocket}, Disconnect(s)
    PROVE  /\ writer' = NoSocket /\ connections' = 0 /\ heard' = Unset
           /\ forget' = Grace /\ told' = "disconnect"
           /\ player' \in {"absent", "offline"} /\ away' \in 0 .. Grace
           /\ player = "online" => player' = "offline" /\ away' = 0
           /\ player # "online" => player' = player /\ away' = away
  BY LimitsAssumption DEF IInv, TypeOK, Disconnect, ScheduleForget

-----------------------------------------------------------------------------
\* A handler that ends keeps the invariant, whatever its cleanup does.
LEMMA ClosedKeeps ==
    ASSUME IInv, NEW s \in Sockets, Closed(s),
           \/ UNCHANGED registry /\ writer # s
           \/ writer \in {s, NoSocket} /\ Disconnect(s)
    PROVE  IInv'
  <1>1. CASE UNCHANGED registry /\ writer # s
    BY <1>1, SocketsAssumption, LimitsAssumption
       DEF IInv, TypeOK, OneLiveSocket, OnlineHasSocket, ForgetArmed, ToldTruth,
           CountsWriter, TimerCoversGrace, Closed, registry, Unset
  <1>2. CASE writer \in {s, NoSocket} /\ Disconnect(s)
    <2>1. /\ writer' = NoSocket /\ connections' = 0 /\ heard' = Unset
          /\ forget' = Grace /\ told' = "disconnect"
          /\ player' \in {"absent", "offline"} /\ away' \in 0 .. Grace
      BY <1>2, DisconnectEffect
    <2>2. TypeOK'
      BY <2>1, LimitsAssumption DEF IInv, TypeOK, Closed, Unset
    <2>3. OneLiveSocket'
      BY <1>2, <2>1, SocketsAssumption DEF IInv, TypeOK, OneLiveSocket, Closed
    <2> QED
      BY <2>1, <2>2, <2>3, LimitsAssumption
         DEF IInv, OnlineHasSocket, ForgetArmed, ToldTruth, CountsWriter,
             TimerCoversGrace, Unset
  <1> QED BY <1>1, <1>2

\* A HELO keeps the invariant: the one socket that was live is closed.
LEMMA RegisterKeeps ==
    ASSUME IInv, NEW s \in Sockets, Register(s)
    PROVE  IInv'
  <1>1. TypeOK'
    BY LimitsAssumption DEF IInv, TypeOK, Register, TakeOver, RegisterPlayer, Unset
  <1>2. OneLiveSocket'
    BY DEF IInv, TypeOK, OneLiveSocket, Register, TakeOver, RegisterPlayer
  <1>3. OnlineHasSocket'
    BY SocketsAssumption DEF IInv, TypeOK, OnlineHasSocket, Register, TakeOver, RegisterPlayer
  <1>4. /\ ForgetArmed' /\ ToldTruth' /\ CountsWriter' /\ TimerCoversGrace'
    BY SocketsAssumption
       DEF Register, TakeOver, RegisterPlayer, ForgetArmed, ToldTruth, CountsWriter, TimerCoversGrace
  <1> QED BY <1>1, <1>2, <1>3, <1>4 DEF IInv

\* The passing of an interval keeps the invariant.
LEMMA TickKeeps ==
    ASSUME IInv, Tick
    PROVE  IInv'
  <1>1. TypeOK'
    BY LimitsAssumption DEF IInv, TypeOK, Tick, KeptAlive, Unset
  <1>2. TimerCoversGrace' /\ ForgetArmed'
    BY LimitsAssumption DEF IInv, TypeOK, Tick, TimerCoversGrace, ForgetArmed, Unset
  <1>3. OneLiveSocket' /\ OnlineHasSocket' /\ ToldTruth' /\ CountsWriter'
    BY DEF IInv, Tick, OneLiveSocket, OnlineHasSocket, ToldTruth, CountsWriter
  <1> QED BY <1>1, <1>2, <1>3 DEF IInv

\* The invariant is inductive.
THEOREM Invariance == Spec => []IInv
  <1>1. Init => IInv
    BY SocketsAssumption, LimitsAssumption
       DEF Init, IInv, TypeOK, OneLiveSocket, OnlineHasSocket, ForgetArmed,
           ToldTruth, CountsWriter, TimerCoversGrace, Unset
  <1>2. IInv /\ [Next]_vars => IInv'
    <2> SUFFICES ASSUME IInv, [Next]_vars PROVE IInv'
      OBVIOUS
    <2> USE DEF socketVars, registry
    <2>1. ASSUME NEW s \in Sockets, Hello(s) PROVE IInv'
      <3>1. TypeOK'
        BY <2>1, KindsAssumption, LimitsAssumption DEF IInv, TypeOK, Hello
      <3> QED
        BY <2>1, <3>1 DEF IInv, TypeOK, Hello, OneLiveSocket, OnlineHasSocket,
           ForgetArmed, ToldTruth, CountsWriter, TimerCoversGrace
    <2>2. ASSUME NEW s \in Sockets, PeerSends(s) PROVE IInv'
      BY <2>2, LimitsAssumption
         DEF IInv, TypeOK, PeerSends, OneLiveSocket, OnlineHasSocket,
             ForgetArmed, ToldTruth, CountsWriter, TimerCoversGrace
    <2>3. ASSUME NEW s \in Sockets, PeerLost(s) PROVE IInv'
      BY <2>3 DEF IInv, TypeOK, PeerLost, OneLiveSocket, OnlineHasSocket,
         ForgetArmed, ToldTruth, CountsWriter, TimerCoversGrace
    <2>4. ASSUME NEW s \in Sockets, Register(s) PROVE IInv'
      BY <2>4, RegisterKeeps
    <2>5. ASSUME NEW s \in Sockets, Welcomed(s) PROVE IInv'
      BY <2>5 DEF IInv, TypeOK, Welcomed, OneLiveSocket, OnlineHasSocket,
         ForgetArmed, ToldTruth, CountsWriter, TimerCoversGrace
    <2>6. ASSUME NEW s \in Sockets, ReadFrame(s) PROVE IInv'
      <3>1. TypeOK'
        BY <2>6, LimitsAssumption DEF IInv, TypeOK, ReadFrame, Unset
      <3> QED
        BY <2>6, <3>1 DEF IInv, ReadFrame, OneLiveSocket, OnlineHasSocket,
           ForgetArmed, ToldTruth, CountsWriter, TimerCoversGrace
    <2>7. ASSUME NEW s \in Sockets, Leave(s) PROVE IInv'
      <3>1. Closed(s) /\ Cleanup(s)
        BY <2>7 DEF Leave
      <3> HIDE DEF registry
      <3> QED BY <3>1, CleanupCases, ClosedKeeps
    <2>8. ASSUME NEW s \in Sockets, GreetingFails(s) PROVE IInv'
      <3> HIDE DEF registry
      <3>1. Closed(s) /\ writer # s
        BY <2>8, SocketsAssumption DEF GreetingFails, IInv, OnlineHasSocket
      <3>2. CASE Cleanup(s)
        BY <3>1, <3>2, CleanupCases, ClosedKeeps
      <3>3. CASE UNCHANGED registry
        BY <3>1, <3>3, ClosedKeeps
      <3> QED BY <2>8, <3>2, <3>3 DEF GreetingFails
    <2>9. ASSUME NEW s \in Sockets, KeepAlive(s) PROVE IInv'
      BY <2>9 DEF IInv, TypeOK, KeepAlive, OneLiveSocket, OnlineHasSocket,
         ForgetArmed, ToldTruth, CountsWriter, TimerCoversGrace
    <2>10. CASE Tick
      BY <2>10, TickKeeps
    <2>11. CASE Forget
      BY <2>11, LimitsAssumption
         DEF IInv, TypeOK, Forget, OneLiveSocket, OnlineHasSocket,
             ForgetArmed, ToldTruth, CountsWriter, TimerCoversGrace, Unset
    <2>12. CASE UNCHANGED vars
      BY <2>12 DEF vars, IInv, TypeOK, OneLiveSocket, OnlineHasSocket,
         ForgetArmed, ToldTruth, CountsWriter, TimerCoversGrace
    <2> QED
      BY <2>1, <2>2, <2>3, <2>4, <2>5, <2>6, <2>7, <2>8, <2>9, <2>10, <2>11, <2>12
         DEF Next
  <1> QED BY <1>1, <1>2, PTL DEF Spec

\* Every variable keeps its type, for any number of sockets.
THEOREM TypeCorrect == Spec => []TypeOK
  BY Invariance, PTL DEF IInv

\* A player never has two live sockets.
THEOREM SocketsExclusive == Spec => []OneLiveSocket
  BY Invariance, PTL DEF IInv

\* A player is listed as connected exactly while a socket serves it.
THEOREM OnlineServed == Spec => []OnlineHasSocket
  BY Invariance, PTL DEF IInv

\* An offline player always has its forget task, an online one never.
THEOREM TimersArmed == Spec => []ForgetArmed
  BY Invariance, PTL DEF IInv

\* Subscribers were last told what the list of players says.
THEOREM SubscribersTold == Spec => []ToldTruth
  BY Invariance, PTL DEF IInv

\* Sockets, registry, forget task and subscribers agree.
THEOREM RegistryCorrect == Spec => []RegistryTrue
  <1>1. IInv => RegistryTrue
    BY DEF IInv, RegistryTrue
  <1> QED BY <1>1, Invariance, PTL

-----------------------------------------------------------------------------
\* A cleanup is invisible to Presence, or makes the player vanish.
LEMMA CleanupPresence ==
    ASSUME IInv, NEW s \in Sockets, Cleanup(s)
    PROVE  [Known!Next]_(Known!vars)
  <1>1. CASE UNCHANGED registry
    BY <1>1 DEF registry, Known!vars
  <1>2. CASE writer \in {s, NoSocket} /\ Disconnect(s)
    BY <1>2, DisconnectEffect DEF Known!Next, Known!Vanish, Known!vars
  <1> QED BY <1>1, <1>2, CleanupCases

\* The sockets, the registry and the timers implement Presence: a player is
\* forgotten only after a whole grace period offline.
THEOREM ImplementsPresence == Spec => KeepsPresence
  <1>1. Init => Known!Init
    BY DEF Init, Known!Init
  <1>2. IInv /\ [Next]_vars => [Known!Next]_(Known!vars)
    <2> SUFFICES ASSUME IInv, [Next]_vars PROVE [Known!Next]_(Known!vars)
      OBVIOUS
    <2>1. ASSUME NEW s \in Sockets,
                 \/ Hello(s) \/ PeerSends(s) \/ PeerLost(s) \/ Welcomed(s)
                 \/ ReadFrame(s) \/ KeepAlive(s)
          PROVE  UNCHANGED <<player, away>>
      BY <2>1 DEF Hello, PeerSends, PeerLost, Welcomed, ReadFrame, KeepAlive, registry
    <2>2. ASSUME NEW s \in Sockets, Register(s) PROVE Known!Appear
      BY <2>2 DEF Register, RegisterPlayer, Known!Appear
    <2>3. ASSUME NEW s \in Sockets, Leave(s) PROVE [Known!Next]_(Known!vars)
      BY <2>3, CleanupPresence DEF Leave
    <2>4. ASSUME NEW s \in Sockets, GreetingFails(s) PROVE [Known!Next]_(Known!vars)
      BY <2>4, CleanupPresence DEF GreetingFails, registry, Known!vars
    <2>5. CASE Tick
      BY <2>5 DEF Tick, Known!Next, Known!Wait, Known!vars
    <2>6. CASE Forget
      BY <2>6, LimitsAssumption DEF IInv, TypeOK, TimerCoversGrace, Forget, Unset, Known!Next, Known!Forget,
         Known!vars
    <2>7. CASE UNCHANGED vars
      BY <2>7 DEF vars, Known!vars
    <2> QED
      BY <2>1, <2>2, <2>3, <2>4, <2>5, <2>6, <2>7 DEF Next, Known!Next, Known!vars
  <1> QED BY <1>1, <1>2, Invariance, PTL DEF Spec, KeepsPresence, Known!Spec
=============================================================================
