------------------------ MODULE LibraryRescan_proofs ------------------------
(* Theorems about LibraryRescan, for any number of scans, batches, aborts,  *)
(* crashes and restarts.                                                    *)
EXTENDS LibraryRescan, TLAPS

Live == Busy \cup {"zombie"}

\* What waits was asked for after everything that was taken out, in order.
Ordered(q, last) ==
    /\ \A i \in DOMAIN q : q[i] > last /\ q[i] <= asked
    /\ \A i, j \in DOMAIN q : i < j => q[i] < q[j]

QueueOrdered == taken <= asked /\ Ordered(server.queue, taken)

\* The server watches exactly the scan it believes to run.
Watched == server.watching = IF server.running = None THEN {} ELSE {server.running}

\* No process of this server is left over but that one.
OneChild ==
    \A s \in Scans : worker[s].child /\ worker[s].stage \in Live => s = server.running

\* The watcher of the queue is there only while something waits and nothing runs.
KickerIdle == server.kicker => server.running = None /\ server.queue # <<>>

\* The marker is there only for scans that lived when it was written.
MarkerMeant == marker => \A s \in Scans : worker[s].stage \in Busy => s \in condemned

SInv == TypeOK /\ QueueOrdered /\ Watched /\ OneChild /\ KickerIdle
IInv == SInv /\ MarkerMeant /\ AbortMeant

USE DEF None

-----------------------------------------------------------------------------
LEMMA UnbornType == Unborn \in Workers /\ [Unborn EXCEPT !.stage = "starting", !.child = TRUE] \in Workers
<1>1. 0 \in 0..MaxRetries BY RetriesAssumption
<1> QED BY <1>1 DEF Unborn, Workers, Stages, Busy

\* The rest of an ordered queue is ordered, and later than its head.
LEMMA TailOrdered ==
    ASSUME NEW q \in Seq(Scans), q # <<>>, NEW last \in Nat, Ordered(q, last), asked \in Nat
    PROVE  /\ Head(q) \in Scans /\ Tail(q) \in Seq(Scans)
           /\ Head(q) > last /\ Head(q) <= asked
           /\ Ordered(Tail(q), Head(q))
<1>1. Len(q) \in Nat /\ Len(q) > 0 /\ DOMAIN q = 1..Len(q) OBVIOUS
<1>2. Head(q) = q[1] /\ Head(q) \in Scans /\ Tail(q) \in Seq(Scans) OBVIOUS
<1>3. Len(Tail(q)) = Len(q) - 1 /\ DOMAIN Tail(q) = 1..(Len(q) - 1)
      /\ \A i \in 1..(Len(q) - 1) : Tail(q)[i] = q[i + 1]
  BY <1>1
<1>4. Head(q) > last /\ Head(q) <= asked BY <1>1, <1>2 DEF Ordered
<1>5. \A i \in DOMAIN Tail(q) : Tail(q)[i] > Head(q) /\ Tail(q)[i] <= asked
  BY <1>1, <1>2, <1>3 DEF Ordered
<1>6. \A i, j \in DOMAIN Tail(q) : i < j => Tail(q)[i] < Tail(q)[j]
  BY <1>1, <1>3 DEF Ordered
<1> QED BY <1>2, <1>4, <1>5, <1>6 DEF Ordered

\* A scan that is launched while nothing runs is the only one, and is not aborted
\* by a marker that was there before.
LEMMA LaunchKeeps ==
    ASSUME NEW base \in Servers, NEW procs \in [Scans -> Workers], NEW s \in Scans,
           progress \in Scans \cup {None}, marker \in BOOLEAN,
           base.running = None, base.watching = {}, ~base.kicker,
           \A t \in Scans : procs[t].child => procs[t].stage \notin Live,
           marker => \A t \in Scans : procs[t].stage \in Busy => t \in condemned,
           \A t \in Scans : procs[t].aborted => t \in condemned,
           Launch(base, procs, s), UNCHANGED condemned
    PROVE  /\ server' \in Servers /\ worker' \in [Scans -> Workers]
           /\ progress' \in Scans \cup {None} /\ marker' \in BOOLEAN
           /\ taken' = s /\ server'.queue = base.queue
           /\ Watched' /\ OneChild' /\ KickerIdle' /\ MarkerMeant' /\ AbortMeant'
<1> USE DEF Launch
<1>1. taken' = s OBVIOUS
<1>2. CASE server' = base /\ worker' = procs /\ UNCHANGED <<progress, marker>>
  BY <1>1, <1>2 DEF Servers, Watched, OneChild, KickerIdle, MarkerMeant, AbortMeant
<1>3. CASE /\ PrepareChannels
           /\ server' = [base EXCEPT !.armed = TRUE] /\ worker' = procs
  BY <1>1, <1>3 DEF PrepareChannels, Servers, Watched, OneChild, KickerIdle, MarkerMeant, AbortMeant
<1>4. CASE /\ PrepareChannels
           /\ server' = [base EXCEPT !.armed = TRUE, !.running = s, !.watching = @ \cup {s}]
           /\ worker' = [procs EXCEPT ![s] = [Unborn EXCEPT !.stage = "starting", !.child = TRUE]]
  <2>1. server' \in Servers /\ server'.queue = base.queue /\ server'.running = s
        /\ server'.watching = {s} /\ ~server'.kicker
    BY <1>4 DEF Servers
  <2>2. worker' \in [Scans -> Workers] BY <1>4, UnbornType
  <2>3. \A t \in Scans : t # s => worker'[t] = procs[t] BY <1>4
  <2>4. worker'[s] = [Unborn EXCEPT !.stage = "starting", !.child = TRUE] /\ ~worker'[s].aborted
    BY <1>4 DEF Unborn
  <2>5. progress' = None /\ marker' = FALSE BY <1>4 DEF PrepareChannels
  <2>6. s # None BY DEF Scans
  <2>7. Watched' /\ KickerIdle' BY <2>1, <2>6 DEF Watched, KickerIdle
  <2>8. OneChild' BY <2>1, <2>3 DEF OneChild
  <2>9. MarkerMeant' /\ AbortMeant' BY <2>3, <2>4, <2>5 DEF MarkerMeant, AbortMeant
  <2> QED BY <1>1, <2>1, <2>2, <2>5, <2>7, <2>8, <2>9
<1> QED BY <1>1, <1>2, <1>3, <1>4

-----------------------------------------------------------------------------
\* What the steps of a scan process have in common.
Progressed(s) ==
    /\ worker' \in [Scans -> Workers] /\ progress' \in Scans \cup {None} /\ marker' \in BOOLEAN
    /\ \A t \in Scans : t # s => worker'[t] = worker[t]
    /\ worker[s].stage \in Busy
    /\ worker'[s].child = worker[s].child
    /\ worker'[s].aborted => worker[s].aborted \/ marker
    /\ marker' => marker
    /\ reconciled' \subseteq Scans
    /\ faults' \in [aborts : Nat, crashes : Nat, restarts : Nat]

LEMMA NotifiedType ==
    ASSUME NEW w \in Workers
    PROVE  /\ Notified(w) \in Workers
           /\ Notified(w).child = w.child /\ Notified(w).aborted = w.aborted
<1> DEFINE missed == IF w.child THEN 0 ELSE IF w.missed < MaxRetries THEN w.missed + 1 ELSE w.missed
           attached == w.attached /\ (w.missed = MaxRetries \/ missed < MaxRetries)
<1>1. missed \in 0..MaxRetries BY RetriesAssumption DEF Workers
<1>2. Notified(w) = [[w EXCEPT !.missed = missed] EXCEPT !.attached = attached]
  BY DEF Notified, Workers
<1>3. attached \in BOOLEAN BY DEF Workers
<1> HIDE DEF missed, attached
<1> QED BY <1>1, <1>2, <1>3 DEF Workers

LEMMA FinishFacts ==
    ASSUME TypeOK, NEW s \in Scans, Finish(s)
    PROVE  progress' \in Scans \cup {None} /\ marker' \in BOOLEAN /\ (marker' => marker)
BY DEF TypeOK, Finish

LEMMA EndedType == ASSUME NEW s \in Scans PROVE Ended(s) \in {"zombie", "gone"}
BY DEF Ended

\* Every step of a scan process leaves the others alone, and starts from a process
\* that lives.
LEMMA WorksProgress ==
    ASSUME TypeOK, NEW s \in Scans, Works(s) \/ Crash(s)
    PROVE  Progressed(s)
<1> USE DEF Progressed
<1>0. worker[s] \in Workers /\ worker \in [Scans -> Workers] BY DEF TypeOK
<1>1. CASE Guard(s)
  <2>1. worker'[s] = [worker[s] EXCEPT !.attached = TRUE,
                        !.stage = IF progress \in {None, s} THEN "opening" ELSE Ended(s)]
        /\ \A t \in Scans : t # s => worker'[t] = worker[t]
    BY <1>0, <1>1 DEF Guard
  <2>2. worker'[s] \in Workers BY <1>0, <2>1, EndedType DEF Workers, Stages, Busy
  <2>3. worker' \in [Scans -> Workers] BY <1>0, <1>1, <2>2 DEF Guard
  <2>4. worker'[s].child = worker[s].child /\ worker'[s].aborted = worker[s].aborted
    BY <1>0, <2>1 DEF Workers
  <2> QED BY <1>1, <2>1, <2>3, <2>4 DEF Guard, Busy, TypeOK
<1>2. CASE Walk(s)
  <2>1. CASE \E n \in 0..MaxBatches :
                worker' = [worker EXCEPT ![s].stage = "walking", ![s].left = n, ![s].found = n > 0]
    <3>1. PICK n \in 0..MaxBatches :
                worker' = [worker EXCEPT ![s].stage = "walking", ![s].left = n, ![s].found = n > 0]
      BY <2>1
    <3>2. n \in Nat /\ (n > 0) \in BOOLEAN BY BoundsAssumption
    <3>3. worker'[s] = [worker[s] EXCEPT !.stage = "walking", !.left = n, !.found = n > 0]
      BY <1>0, <3>1
    <3>4. worker'[s] \in Workers BY <1>0, <3>2, <3>3 DEF Workers, Stages, Busy
    <3>5. worker' \in [Scans -> Workers] BY <1>0, <3>1, <3>4
    <3>6. \A t \in Scans : t # s => worker'[t] = worker[t] BY <1>0, <3>1
    <3>7. progress' \in Scans \cup {None} /\ marker' \in BOOLEAN /\ (marker' => marker)
      <4>1. CASE progress' = s /\ UNCHANGED marker BY <4>1 DEF TypeOK
      <4>2. CASE Finish(s) BY <4>2, FinishFacts
      <4> QED BY <1>2, <4>1, <4>2 DEF Walk
    <3>8. worker'[s].child = worker[s].child /\ worker'[s].aborted = worker[s].aborted
      BY <1>0, <3>3 DEF Workers
    <3> QED BY <1>2, <3>5, <3>6, <3>7, <3>8 DEF Walk, Busy, TypeOK
  <2>2. CASE worker' = [worker EXCEPT ![s].stage = "draining"] /\ Finish(s)
    BY <1>0, <1>2, <2>2, FinishFacts DEF Walk, Busy, Stages, TypeOK, Workers
  <2> QED BY <1>2, <2>1, <2>2 DEF Walk
<1>3. CASE Batch(s)
  <2>1. CASE AbortSeen(s) /\ \E n \in 0..(worker[s].left - 1) :
                 worker' = [worker EXCEPT ![s].left = n, ![s].aborted = TRUE]
    <3>1. PICK n \in 0..(worker[s].left - 1) :
                 worker' = [worker EXCEPT ![s].left = n, ![s].aborted = TRUE]
      BY <2>1
    <3>2. n \in Nat BY <1>0 DEF Workers
    <3>3. worker'[s] = [worker[s] EXCEPT !.left = n, !.aborted = TRUE]
      BY <1>0, <3>1
    <3>4. worker'[s] \in Workers BY <1>0, <3>2, <3>3 DEF Workers
    <3>5. worker' \in [Scans -> Workers] BY <1>0, <3>1, <3>4
    <3> QED BY <1>0, <1>3, <2>1, <3>1, <3>3, <3>5 DEF Batch, AbortSeen, Busy, TypeOK, Workers
  <2>2. CASE ~AbortSeen(s)
    <3> DEFINE w == [worker[s] EXCEPT !.left = worker[s].left - 1]
    <3>1. worker[s].left - 1 \in Nat BY <1>0, <1>3 DEF Batch, Workers
    <3>2. w \in Workers /\ w.child = worker[s].child /\ w.aborted = worker[s].aborted
      BY <1>0, <3>1 DEF Workers
    <3>3. worker' = [worker EXCEPT ![s] = Notified(w)] BY <1>0, <1>3, <2>2 DEF Batch
    <3> HIDE DEF w
    <3>4. worker'[s] = Notified(w) /\ \A t \in Scans : t # s => worker'[t] = worker[t]
      BY <1>0, <3>3
    <3>5. worker' \in [Scans -> Workers] BY <1>0, <3>2, <3>3, NotifiedType
    <3> QED BY <1>3, <2>2, <3>2, <3>4, <3>5, NotifiedType DEF Batch, Busy, TypeOK
  <2> QED BY <1>3, <2>1, <2>2 DEF Batch
<1>4. CASE Reconcile(s)
  <2> DEFINE w == [worker[s] EXCEPT !.stage = "closing"]
  <2>1. w \in Workers /\ w.child = worker[s].child /\ w.aborted = worker[s].aborted
    BY <1>0 DEF Workers, Stages, Busy
  <2>2. worker' = [worker EXCEPT ![s] = Notified(w)] BY <1>0, <1>4 DEF Reconcile
  <2> HIDE DEF w
  <2>3. worker'[s] = Notified(w) /\ \A t \in Scans : t # s => worker'[t] = worker[t]
    BY <1>0, <2>2
  <2>4. worker' \in [Scans -> Workers] BY <1>0, <2>1, <2>2, NotifiedType
  <2> QED BY <1>4, <2>1, <2>3, <2>4, NotifiedType DEF Reconcile, Busy, TypeOK
<1>5. CASE EndImport(s)
  BY <1>0, <1>5, FinishFacts DEF EndImport, Busy, Stages, TypeOK, Workers
<1>6. CASE Exit(s)
  BY <1>0, <1>6, FinishFacts, EndedType DEF Exit, Busy, Stages, TypeOK, Workers
<1>7. CASE Crash(s)
  <2>1. worker' = [worker EXCEPT ![s].stage = Ended(s)] BY <1>7 DEF Crash
  <2>2. worker' \in [Scans -> Workers] /\ worker'[s].child = worker[s].child
        /\ worker'[s].aborted = worker[s].aborted /\ \A t \in Scans : t # s => worker'[t] = worker[t]
    BY <1>0, <2>1, EndedType DEF Workers, Stages
  <2>3. faults' \in [aborts : Nat, crashes : Nat, restarts : Nat] BY <1>7 DEF Crash, TypeOK
  <2> QED BY <1>7, <2>2, <2>3 DEF Crash, TypeOK
<1> QED BY <1>1, <1>2, <1>3, <1>4, <1>5, <1>6, <1>7 DEF Works

\* A step of a scan process keeps the invariant.
LEMMA WorkerKeeps ==
    ASSUME IInv, NEW s \in Scans, Works(s) \/ Crash(s), UNCHANGED serverSide
    PROVE  IInv'
<1>1. Progressed(s) BY WorksProgress DEF IInv, SInv
<1> USE DEF IInv, SInv, serverSide, Progressed
<1>2. TypeOK' BY <1>1 DEF TypeOK
<1>3. QueueOrdered' BY DEF QueueOrdered, Ordered
<1>4. Watched' BY DEF Watched
<1>5. OneChild' BY <1>1 DEF OneChild, Live
<1>6. KickerIdle' BY DEF KickerIdle
<1>7. MarkerMeant' BY <1>1 DEF MarkerMeant
<1>8. AbortMeant' BY <1>1 DEF AbortMeant, MarkerMeant
<1> QED BY <1>2, <1>3, <1>4, <1>5, <1>6, <1>7, <1>8

\* _start_next_queued, called when nothing runs and no process of this server is left.
LEMMA StartNextKeeps ==
    ASSUME IInv, NEW base \in Servers, NEW procs \in [Scans -> Workers],
           base.queue = server.queue, base.running = None, base.watching = {}, ~base.kicker,
           \A t \in Scans : procs[t].child => procs[t].stage \notin Live,
           \A t \in Scans : procs[t].stage \in Busy => worker[t].stage \in Busy,
           \A t \in Scans : procs[t].aborted => worker[t].aborted,
           StartNextQueued(base, procs),
           UNCHANGED <<asked, condemned, doomed, reconciled, orphaned, faults>>
    PROVE  IInv' /\ (taken' # taken => taken' > taken)
<1> USE DEF IInv, SInv
<1>1. CASE /\ base.queue = <<>> /\ server' = base /\ worker' = procs
           /\ UNCHANGED <<progress, marker, taken>>
  <2>1. TypeOK' BY <1>1 DEF TypeOK
  <2>2. QueueOrdered' BY <1>1 DEF QueueOrdered, Ordered
  <2>3. Watched' /\ KickerIdle' BY <1>1 DEF Watched, KickerIdle
  <2>4. OneChild' BY <1>1 DEF OneChild
  <2>5. MarkerMeant' /\ AbortMeant' BY <1>1 DEF MarkerMeant, AbortMeant
  <2> QED BY <1>1, <2>1, <2>2, <2>3, <2>4, <2>5
<1>2. CASE /\ base.queue # <<>>
           /\ Launch([base EXCEPT !.queue = Tail(@)], procs, Head(base.queue))
  <2> DEFINE q == base.queue
             b == [base EXCEPT !.queue = Tail(q)]
             h == Head(q)
  <2>1. q \in Seq(Scans) /\ q # <<>> /\ Ordered(q, taken) /\ taken \in Nat /\ asked \in Nat
    BY <1>2 DEF Servers, QueueOrdered, TypeOK, Scans
  <2>2. h \in Scans /\ Tail(q) \in Seq(Scans) /\ h > taken /\ h <= asked /\ Ordered(Tail(q), h)
    BY <2>1, TailOrdered
  <2>3. b \in Servers /\ b.queue = Tail(q) /\ b.running = None /\ b.watching = {} /\ ~b.kicker
    BY <2>2 DEF Servers
  <2>4. Launch(b, procs, h) BY <1>2
  <2> HIDE DEF q, b, h
  <2>5. progress \in Scans \cup {None} /\ marker \in BOOLEAN BY DEF TypeOK
  <2>6. marker => \A t \in Scans : procs[t].stage \in Busy => t \in condemned BY DEF MarkerMeant
  <2>7. \A t \in Scans : procs[t].aborted => t \in condemned BY DEF AbortMeant
  <2>8. /\ server' \in Servers /\ worker' \in [Scans -> Workers]
        /\ progress' \in Scans \cup {None} /\ marker' \in BOOLEAN
        /\ taken' = h /\ server'.queue = b.queue
        /\ Watched' /\ OneChild' /\ KickerIdle' /\ MarkerMeant' /\ AbortMeant'
    BY <2>2, <2>3, <2>4, <2>5, <2>6, <2>7, LaunchKeeps
  <2>9. TypeOK' BY <2>2, <2>8 DEF TypeOK
  <2>10. QueueOrdered' BY <2>2, <2>3, <2>8 DEF QueueOrdered, Ordered
  <2> QED BY <2>2, <2>8, <2>9, <2>10
<1> QED BY <1>1, <1>2 DEF StartNextQueued

LEMMA ReapKeeps ==
    ASSUME IInv, NEW s \in Scans, Reap(s)
    PROVE  IInv' /\ (taken' # taken => taken' > taken)
<1> DEFINE base == [server EXCEPT !.watching = @ \ {s}, !.running = None, !.armed = FALSE]
           procs == [worker EXCEPT ![s].stage = "gone"]
<1>1. server.running = s /\ server.watching = {s} /\ ~server.kicker
  BY DEF Reap, IInv, SInv, Watched, KickerIdle, Scans
<1>2. base \in Servers /\ base.queue = server.queue /\ base.running = None
      /\ base.watching = {} /\ ~base.kicker
  BY <1>1 DEF IInv, SInv, TypeOK, Servers
<1>3. procs \in [Scans -> Workers] /\ procs[s].stage = "gone" /\ procs[s].aborted = worker[s].aborted
      /\ \A t \in Scans : t # s => procs[t] = worker[t]
  BY DEF IInv, SInv, TypeOK, Workers, Stages
<1>4. StartNextQueued(base, procs)
      /\ UNCHANGED <<asked, condemned, doomed, reconciled, orphaned, faults>>
  BY DEF Reap
<1> HIDE DEF base, procs
<1>5. \A t \in Scans : procs[t].child => procs[t].stage \notin Live
  BY <1>1, <1>3 DEF IInv, SInv, OneChild, Live, Busy
<1>6. \A t \in Scans : procs[t].stage \in Busy => worker[t].stage \in Busy BY <1>3 DEF Busy
<1>7. \A t \in Scans : procs[t].aborted => worker[t].aborted BY <1>3
<1> QED BY <1>2, <1>3, <1>4, <1>5, <1>6, <1>7, StartNextKeeps

LEMMA KickKeeps ==
    ASSUME IInv, Kick
    PROVE  IInv' /\ (taken' # taken => taken' > taken)
<1> DEFINE base == [server EXCEPT !.kicker = FALSE]
<1>1. server.running = None /\ server.watching = {}
  BY DEF Kick, IInv, SInv, Watched, KickerIdle
<1>2. base \in Servers /\ base.queue = server.queue /\ base.running = None
      /\ base.watching = {} /\ ~base.kicker
  BY <1>1 DEF IInv, SInv, TypeOK, Servers
<1>3. StartNextQueued(base, worker)
      /\ UNCHANGED <<asked, condemned, doomed, reconciled, orphaned, faults>>
  BY DEF Kick
<1>4. worker \in [Scans -> Workers] BY DEF IInv, SInv, TypeOK
<1> HIDE DEF base
<1>5. \A t \in Scans : worker[t].child => worker[t].stage \notin Live
  BY <1>1 DEF IInv, SInv, OneChild, Scans
<1> QED BY <1>2, <1>3, <1>4, <1>5, StartNextKeeps

LEMMA RequestKeeps ==
    ASSUME IInv, RequestScan
    PROVE  IInv' /\ (taken' # taken => taken' > taken)
<1> DEFINE n == asked + 1
<1> USE DEF IInv, SInv
<1>1. asked \in Nat /\ n \in Scans /\ asked' = n /\ taken \in Nat /\ taken <= asked
      /\ n \in Nat /\ taken < n /\ n \in 0..MaxScans
  BY BoundsAssumption DEF RequestScan, TypeOK, Scans, QueueOrdered
<1>2. CASE /\ server' = [server EXCEPT !.queue = Append(@, n), !.kicker = @ \/ server.running = None]
           /\ UNCHANGED <<worker, progress, marker, taken>>
  <2> DEFINE q == server.queue
  <2>1. q \in Seq(Scans) /\ Append(q, n) \in Seq(Scans)
    BY <1>1 DEF TypeOK, Servers
  <2>2. server'.queue = Append(q, n) /\ server'.running = server.running
        /\ server'.watching = server.watching
        /\ (server'.kicker => server.kicker \/ server.running = None)
    BY <1>2 DEF TypeOK, Servers
  <2>3. server' \in Servers
    <3>1. (server.kicker \/ server.running = None) \in BOOLEAN BY DEF TypeOK, Servers
    <3> QED BY <1>2, <2>1, <3>1 DEF TypeOK, Servers
  <2>4. Len(Append(q, n)) = Len(q) + 1 /\ Append(q, n)[Len(q) + 1] = n
        /\ \A i \in 1..Len(q) : Append(q, n)[i] = q[i]
        /\ DOMAIN Append(q, n) = 1..(Len(q) + 1) /\ DOMAIN q = 1..Len(q) /\ Len(q) \in Nat
    BY <2>1
  <2>5. Ordered(q, taken) BY DEF QueueOrdered
  <2>6. \A i \in 1..Len(q) : q[i] \in Nat /\ q[i] > taken /\ q[i] <= asked
    <3>1. \A i \in 1..Len(q) : q[i] \in Scans BY <2>1
    <3>2. \A i \in 1..Len(q) : q[i] \in Nat BY <3>1 DEF Scans
    <3>3. \A i \in 1..Len(q) : q[i] > taken /\ q[i] <= asked BY <2>4, <2>5 DEF Ordered
    <3> QED BY <3>2, <3>3
  <2>7. \A i \in 1..(Len(q) + 1) : Append(q, n)[i] > taken /\ Append(q, n)[i] <= n
    BY <1>1, <2>4, <2>6
  <2>8. \A i, j \in 1..(Len(q) + 1) : i < j => Append(q, n)[i] < Append(q, n)[j]
    BY <1>1, <2>4, <2>5, <2>6 DEF Ordered
  <2> HIDE DEF q
  <2>9. QueueOrdered' BY <1>1, <1>2, <2>2, <2>4, <2>7, <2>8 DEF QueueOrdered, Ordered
  <2>10. Watched' /\ OneChild' BY <1>2, <2>2 DEF Watched, OneChild
  <2>11. Append(q, n) # <<>> BY <2>1, <2>4
  <2>12. KickerIdle' BY <2>2, <2>11 DEF KickerIdle
  <2>13. MarkerMeant' /\ AbortMeant' BY <1>2 DEF MarkerMeant, AbortMeant, RequestScan
  <2>14. TypeOK' BY <1>1, <1>2, <2>3 DEF TypeOK, RequestScan
  <2> QED BY <1>2, <2>9, <2>10, <2>12, <2>13, <2>14
<1>3. CASE ~IsScanning /\ Launch(server, worker, n)
  <2>1. server.running = None /\ server.queue = <<>> BY <1>3 DEF IsScanning
  <2>2. server.watching = {} /\ ~server.kicker BY <2>1 DEF Watched, KickerIdle
  <2>3. server \in Servers /\ worker \in [Scans -> Workers]
        /\ progress \in Scans \cup {None} /\ marker \in BOOLEAN
    BY DEF TypeOK
  <2>4. \A t \in Scans : worker[t].child => worker[t].stage \notin Live
    BY <2>1 DEF OneChild, Scans
  <2>5. marker => \A t \in Scans : worker[t].stage \in Busy => t \in condemned BY DEF MarkerMeant
  <2>6. \A t \in Scans : worker[t].aborted => t \in condemned BY DEF AbortMeant
  <2>7. UNCHANGED <<condemned, doomed, reconciled, orphaned, faults>> BY DEF RequestScan
  <2>8. /\ server' \in Servers /\ worker' \in [Scans -> Workers]
        /\ progress' \in Scans \cup {None} /\ marker' \in BOOLEAN
        /\ taken' = n /\ server'.queue = server.queue
        /\ Watched' /\ OneChild' /\ KickerIdle' /\ MarkerMeant' /\ AbortMeant'
    BY <1>1, <1>3, <2>1, <2>2, <2>3, <2>4, <2>5, <2>6, <2>7, LaunchKeeps
  <2>9. QueueOrdered' BY <1>1, <2>1, <2>8 DEF QueueOrdered, Ordered
  <2>10. TypeOK' BY <1>1, <2>7, <2>8 DEF TypeOK
  <2> QED BY <1>1, <2>8, <2>9, <2>10
<1> QED BY <1>2, <1>3 DEF RequestScan

LEMMA AbortKeeps ==
    ASSUME IInv, NEW armed \in BOOLEAN, WriteMarker(armed),
           server' \in Servers, server'.queue = server.queue, server'.running = server.running,
           server'.watching = server.watching, server'.kicker = server.kicker
    PROVE  IInv' /\ taken' = taken
<1> USE DEF IInv, SInv, WriteMarker
<1>1. TypeOK'
  <2>1. faults' \in [aborts : Nat, crashes : Nat, restarts : Nat] BY DEF TypeOK
  <2>2. condemned' \subseteq Scans /\ doomed' \subseteq Scans /\ marker' \in BOOLEAN BY DEF TypeOK
  <2> QED BY <2>1, <2>2 DEF TypeOK
<1>2. QueueOrdered' BY DEF QueueOrdered, Ordered
<1>3. Watched' /\ OneChild' /\ KickerIdle' BY DEF Watched, OneChild, KickerIdle
<1>4. MarkerMeant' BY DEF MarkerMeant, Alive
<1>5. AbortMeant' BY DEF AbortMeant
<1> QED BY <1>1, <1>2, <1>3, <1>4, <1>5

LEMMA StoppedType ==
    /\ Stopped \in Servers /\ Stopped.queue = <<>> /\ Stopped.running = None
    /\ Stopped.watching = {} /\ Stopped.kicker = FALSE
<1>1. <<>> \in Seq(Scans) OBVIOUS
<1> QED BY <1>1 DEF Stopped, Servers

LEMMA RestartKeeps ==
    ASSUME IInv, Restart
    PROVE  IInv' /\ taken' = taken
<1> USE DEF IInv, SInv, Restart
<1>1. server' = Stopped /\ server' \in Servers /\ server'.queue = <<>> /\ server'.running = None
      /\ server'.watching = {} /\ ~server'.kicker
  BY StoppedType
<1>2. \A s \in Scans : worker'[s] = [worker[s] EXCEPT !.child = FALSE,
                             !.stage = IF @ = "zombie" THEN "gone" ELSE @]
  OBVIOUS
<1>3. \A s \in Scans : /\ worker'[s] \in Workers /\ ~worker'[s].child
                       /\ worker'[s].aborted = worker[s].aborted
                       /\ (worker'[s].stage \in Busy => worker[s].stage \in Busy)
  <2> SUFFICES ASSUME NEW s \in Scans
               PROVE  /\ worker'[s] \in Workers /\ ~worker'[s].child
                      /\ worker'[s].aborted = worker[s].aborted
                      /\ (worker'[s].stage \in Busy => worker[s].stage \in Busy)
    OBVIOUS
  <2> DEFINE stage == IF worker[s].stage = "zombie" THEN "gone" ELSE worker[s].stage
  <2>1. worker[s] \in Workers BY DEF TypeOK
  <2>2. stage \in Stages /\ (stage \in Busy => worker[s].stage \in Busy)
    BY <2>1 DEF Workers, Stages, Busy
  <2>3. worker'[s] = [worker[s] EXCEPT !.child = FALSE, !.stage = stage] BY <1>2
  <2> HIDE DEF stage
  <2> QED BY <2>1, <2>2, <2>3 DEF Workers
<1>4. worker' \in [Scans -> Workers]
  <2>1. worker' = [s \in Scans |-> worker'[s]] OBVIOUS
  <2> QED BY <1>3, <2>1
<1>5. TypeOK'
  <2>1. faults' \in [aborts : Nat, crashes : Nat, restarts : Nat]
    <3>1. faults \in [aborts : Nat, crashes : Nat, restarts : Nat] BY Zenon DEF TypeOK
    <3>2. faults' = [faults EXCEPT !.restarts = faults.restarts + 1] BY Zenon
    <3> HIDE DEF IInv, SInv, Restart
    <3> QED BY <3>1, <3>2
  <2>2. orphaned' \subseteq Scans BY DEF TypeOK
  <2> QED BY <1>1, <1>4, <2>1, <2>2 DEF TypeOK
<1>6. QueueOrdered'
  <2>1. server'.queue = <<>> /\ taken' = taken /\ asked' = asked BY <1>1, Zenon
  <2>2. taken <= asked BY Zenon DEF QueueOrdered
  <2> HIDE DEF IInv, SInv, Restart
  <2> QED BY <2>1, <2>2 DEF QueueOrdered, Ordered
<1>7. Watched' /\ KickerIdle' BY <1>1 DEF Watched, KickerIdle
<1>8. OneChild' BY <1>3 DEF OneChild
<1>9. MarkerMeant' /\ AbortMeant' BY <1>3 DEF MarkerMeant, AbortMeant
<1> QED BY <1>5, <1>6, <1>7, <1>8, <1>9

LEMMA InitInv == Init => IInv
<1> SUFFICES ASSUME Init PROVE IInv OBVIOUS
<1>1. server \in Servers BY StoppedType DEF Init
<1>2. TypeOK
  <2>1. worker \in [Scans -> Workers] BY UnbornType DEF Init
  <2>2. 0 \in 0..MaxScans BY BoundsAssumption
  <2> QED BY <1>1, <2>1, <2>2 DEF Init, TypeOK
<1>3. QueueOrdered BY DEF Init, QueueOrdered, Ordered, Stopped
<1>4. Watched /\ KickerIdle BY DEF Init, Watched, KickerIdle, Stopped
<1>5. OneChild /\ AbortMeant BY DEF Init, OneChild, AbortMeant, Unborn
<1>6. MarkerMeant BY DEF Init, MarkerMeant
<1> QED BY <1>2, <1>3, <1>4, <1>5, <1>6 DEF IInv, SInv

LEMMA NextKeeps ==
    ASSUME IInv, [Next]_vars
    PROVE  IInv' /\ (taken' # taken => taken' > taken)
<1>1. CASE RequestScan BY <1>1, RequestKeeps
<1>2. CASE RequestAbort
  <2> DEFINE armed == server.armed \/ IsScanning
  <2>1. armed \in BOOLEAN BY DEF IInv, SInv, TypeOK, Servers, IsScanning, Published
  <2>2. WriteMarker(armed) /\ server' = [server EXCEPT !.armed = armed] BY <1>2 DEF RequestAbort
  <2> HIDE DEF armed
  <2>3. server' \in Servers /\ server'.queue = server.queue /\ server'.running = server.running
        /\ server'.watching = server.watching /\ server'.kicker = server.kicker
    BY <2>1, <2>2 DEF IInv, SInv, TypeOK, Servers
  <2> QED BY <2>1, <2>2, <2>3, AbortKeeps
<1>3. CASE AbortDirect
  <2>1. server.armed \in BOOLEAN /\ server \in Servers BY DEF IInv, SInv, TypeOK, Servers
  <2> QED BY <1>3, <2>1, AbortKeeps DEF AbortDirect
<1>4. CASE Kick BY <1>4, KickKeeps
<1>5. CASE Restart BY <1>5, RestartKeeps
<1>6. ASSUME NEW s \in Scans, Reap(s) PROVE IInv' /\ (taken' # taken => taken' > taken)
  BY <1>6, ReapKeeps
<1>7. ASSUME NEW s \in Scans, Works(s) \/ Crash(s), UNCHANGED serverSide
      PROVE IInv' /\ (taken' # taken => taken' > taken)
  BY <1>7, WorkerKeeps DEF serverSide
<1>8. CASE UNCHANGED vars
  <2>1. SInv' BY <1>8 DEF vars, IInv, SInv, TypeOK, QueueOrdered, Ordered, Watched, OneChild, KickerIdle
  <2>2. MarkerMeant' /\ AbortMeant' BY <1>8 DEF vars, IInv, MarkerMeant, AbortMeant
  <2> QED BY <1>8, <2>1, <2>2 DEF IInv, vars
<1> QED BY <1>1, <1>2, <1>3, <1>4, <1>5, <1>6, <1>7, <1>8 DEF Next

LEMMA Invariant == Spec => []IInv
BY InitInv, NextKeeps, PTL DEF Spec

-----------------------------------------------------------------------------
(* What an abort promises: from the marker to the reconciliation.            *)

\* The stages in which the channels of a process are set.
Opened == {"opening", "walking", "closing", "draining"}

\* Whoever runs a scan has set the channels, so an abort of it writes the marker.
Armed == server.running # None => server.armed

\* What was not taken out yet has no process, no abort and no reconciliation.
Born ==
    /\ server.running <= taken
    /\ \A s \in Scans : worker[s].stage # "unborn" => s <= taken
    /\ \A s \in doomed \cup reconciled : s <= taken

\* A process keeps its channels as long as its server answers.
Attached == \A s \in Scans : worker[s].child /\ worker[s].stage \in Opened => worker[s].attached

\* Nothing is reconciled before the walk is over.
Late == \A s \in Scans : worker[s].stage \in {"starting", "opening", "walking"} => s \notin reconciled

\* Until a server goes while a scan runs, every scan process is one of this server.
Parented == orphaned = {} => \A s \in Scans : worker[s].stage \in Busy => worker[s].child

\* The scan s has nothing reconciled, and the marker is there as long as it has not
\* looked, unless it walks over nothing.
Spares(s) ==
    /\ s \notin reconciled
    /\ worker[s].stage \in {"starting", "opening"} => marker
    /\ worker[s].stage = "walking" =>
          worker[s].aborted \/ ~worker[s].found \/ (marker /\ worker[s].left > 0)

DoomedSpare == orphaned = {} => \A s \in doomed : Spares(s)

AInv == Armed /\ Born /\ Attached /\ Late /\ Parented /\ DoomedSpare

\* What a step of the process s does with its channels and with the tracks it missed.
Checked(s) ==
    /\ worker[s].child /\ worker'[s].stage \in Opened
           /\ (worker[s].stage \in Opened => worker[s].attached) => worker'[s].attached
    /\ reconciled' \subseteq reconciled \cup {s}
    /\ worker'[s].stage \in {"starting", "opening", "walking"} =>
           worker[s].stage \in {"starting", "opening", "walking"} /\ reconciled' = reconciled
    /\ Spares(s) /\ (worker[s].stage = "walking" => worker[s].attached) => Spares(s)'

LEMMA NotifiedKeeps ==
    ASSUME NEW w \in Workers
    PROVE  /\ Notified(w).stage = w.stage /\ Notified(w).left = w.left
           /\ Notified(w).found = w.found
           /\ w.child /\ w.attached => Notified(w).attached
BY RetriesAssumption DEF Notified, Workers

LEMMA WorksChecked ==
    ASSUME TypeOK, NEW s \in Scans, Works(s) \/ Crash(s)
    PROVE  Checked(s)
<1>0. worker[s] \in Workers /\ worker \in [Scans -> Workers] BY DEF TypeOK
<1> USE DEF Checked, Opened, Spares
<1>1. CASE Guard(s)
  <2>1. worker'[s] = [worker[s] EXCEPT !.attached = TRUE,
                        !.stage = IF progress \in {None, s} THEN "opening" ELSE Ended(s)]
    BY <1>0, <1>1 DEF Guard
  <2>2. /\ worker'[s].attached /\ worker'[s].stage \in {"opening", "zombie", "gone"}
    BY <1>0, <2>1, EndedType DEF Workers
  <2> QED BY <1>1, <2>2 DEF Guard
<1>2. CASE Walk(s)
  <2>1. CASE \E n \in 0..MaxBatches :
                worker' = [worker EXCEPT ![s].stage = "walking", ![s].left = n, ![s].found = n > 0]
             /\ progress' = s /\ UNCHANGED marker
    <3>1. PICK n \in 0..MaxBatches :
                worker' = [worker EXCEPT ![s].stage = "walking", ![s].left = n, ![s].found = n > 0]
      BY <2>1
    <3>2. worker'[s] = [worker[s] EXCEPT !.stage = "walking", !.left = n, !.found = n > 0]
      BY <1>0, <3>1
    <3>3. /\ worker'[s].stage = "walking" /\ worker'[s].attached = worker[s].attached
          /\ worker'[s].left = n /\ worker'[s].found = (n > 0)
      BY <1>0, <3>2 DEF Workers
    <3>4. ~worker'[s].found \/ worker'[s].left > 0 BY <3>3
    <3>5. worker[s].stage = "opening" /\ reconciled' = reconciled /\ marker' = marker
      BY <1>2, <2>1 DEF Walk
    <3> QED BY <3>3, <3>4, <3>5
  <2>2. CASE worker' = [worker EXCEPT ![s].stage = "draining"]
    <3>1. worker'[s] = [worker[s] EXCEPT !.stage = "draining"] BY <1>0, <2>2
    <3>2. worker'[s].stage = "draining" /\ worker'[s].attached = worker[s].attached
      BY <1>0, <3>1 DEF Workers
    <3> QED BY <1>2, <3>2 DEF Walk
  <2> QED BY <1>2, <2>1, <2>2 DEF Walk
<1>3. CASE Batch(s)
  <2>1. CASE AbortSeen(s) /\ \E n \in 0..(worker[s].left - 1) :
                 worker' = [worker EXCEPT ![s].left = n, ![s].aborted = TRUE]
    <3>1. PICK n \in 0..(worker[s].left - 1) :
                 worker' = [worker EXCEPT ![s].left = n, ![s].aborted = TRUE]
      BY <2>1
    <3>2. worker'[s] = [worker[s] EXCEPT !.left = n, !.aborted = TRUE]
      BY <1>0, <3>1
    <3>3. /\ worker'[s].stage = worker[s].stage /\ worker'[s].aborted
          /\ worker'[s].attached = worker[s].attached
      BY <1>0, <3>2 DEF Workers
    <3> QED BY <1>3, <3>3 DEF Batch
  <2>2. CASE ~AbortSeen(s)
    <3> DEFINE w == [worker[s] EXCEPT !.left = worker[s].left - 1]
    <3>1. worker[s].left - 1 \in Nat BY <1>0, <1>3 DEF Batch, Workers
    <3>2. /\ w \in Workers /\ w.child = worker[s].child /\ w.aborted = worker[s].aborted
          /\ w.stage = worker[s].stage /\ w.found = worker[s].found /\ w.attached = worker[s].attached
      BY <1>0, <3>1 DEF Workers
    <3>3. worker' = [worker EXCEPT ![s] = Notified(w)] BY <1>0, <1>3, <2>2 DEF Batch
    <3> HIDE DEF w
    <3>4. worker'[s] = Notified(w) BY <1>0, <3>3
    <3>5. /\ worker'[s].stage = worker[s].stage /\ worker'[s].found = worker[s].found
          /\ worker'[s].aborted = worker[s].aborted
          /\ worker[s].child /\ worker[s].attached => worker'[s].attached
      BY <3>2, <3>4, NotifiedType, NotifiedKeeps
    <3> QED BY <1>3, <2>2, <3>5 DEF Batch, AbortSeen
  <2> QED BY <1>3, <2>1, <2>2 DEF Batch
<1>4. CASE Reconcile(s)
  <2> DEFINE w == [worker[s] EXCEPT !.stage = "closing"]
  <2>1. w \in Workers /\ w.child = worker[s].child /\ w.stage = "closing" /\ w.attached = worker[s].attached
    BY <1>0 DEF Workers, Stages, Busy
  <2>2. worker' = [worker EXCEPT ![s] = Notified(w)] BY <1>0, <1>4 DEF Reconcile
  <2> HIDE DEF w
  <2>3. worker'[s] = Notified(w) BY <1>0, <2>2
  <2>4. worker'[s].stage = "closing" /\ (worker[s].child /\ worker[s].attached => worker'[s].attached)
    BY <2>1, <2>3, NotifiedKeeps
  <2>5. worker[s].left = 0 /\ worker[s].stage = "walking" BY <1>4 DEF Reconcile
  <2>6. reconciled' = IF worker[s].found /\ ~worker[s].aborted THEN reconciled \cup {s} ELSE reconciled
    BY <1>4 DEF Reconcile
  <2>7. ~(worker[s].left > 0) BY <2>5
  <2> QED BY <2>4, <2>5, <2>6, <2>7
<1>5. CASE EndImport(s)
  <2>1. worker'[s] = [worker[s] EXCEPT !.stage = "draining"] BY <1>0, <1>5 DEF EndImport
  <2>2. worker'[s].stage = "draining" /\ worker'[s].attached = worker[s].attached
    BY <1>0, <2>1 DEF Workers
  <2> QED BY <1>5, <2>2 DEF EndImport
<1>6. CASE Exit(s) \/ Crash(s)
  <2>1. worker'[s] = [worker[s] EXCEPT !.stage = Ended(s)] BY <1>0, <1>6 DEF Exit, Crash
  <2>2. worker'[s].stage \in {"zombie", "gone"} BY <1>0, <2>1, EndedType DEF Workers
  <2> QED BY <1>6, <2>2 DEF Exit, Crash
<1> QED BY <1>1, <1>2, <1>3, <1>4, <1>5, <1>6 DEF Works

LEMMA WorkerSpares ==
    ASSUME IInv, AInv, NEW s \in Scans, Works(s) \/ Crash(s), UNCHANGED serverSide
    PROVE  AInv'
<1>1. Progressed(s) /\ Checked(s) BY WorksProgress, WorksChecked DEF IInv, SInv
<1> USE DEF serverSide
<1>2. worker[s].stage \in Busy /\ \A t \in Scans : t # s => worker'[t] = worker[t]
  BY <1>1 DEF Progressed
<1>3. Armed' BY DEF AInv, Armed
<1>4. s <= taken BY <1>2 DEF AInv, Born, Busy
<1>5. Born'
  <2>1. reconciled' \subseteq reconciled \cup {s} BY <1>1 DEF Checked
  <2> QED BY <1>2, <1>4, <2>1 DEF AInv, Born
<1>6. Attached' BY <1>1, <1>2 DEF AInv, Attached, Checked, Progressed
<1>7. Late'
  <2> SUFFICES ASSUME NEW t \in Scans, worker'[t].stage \in {"starting", "opening", "walking"}
               PROVE  t \notin reconciled'
    BY DEF Late
  <2> QED BY <1>1, <1>2 DEF AInv, Late, Checked
<1>8. Parented' BY <1>1, <1>2 DEF AInv, Parented, Progressed
<1>9. DoomedSpare'
  <2> SUFFICES ASSUME orphaned = {}, NEW t \in doomed PROVE Spares(t)'
    BY DEF DoomedSpare
  <2>1. Spares(t) /\ t \in Scans BY DEF AInv, DoomedSpare, IInv, SInv, TypeOK
  <2>2. CASE t = s
    <3>1. worker[s].child BY <1>2 DEF AInv, Parented
    <3>2. worker[s].stage = "walking" => worker[s].attached BY <3>1 DEF AInv, Attached, Opened
    <3> QED BY <1>1, <2>1, <2>2, <3>2 DEF Checked
  <2>3. CASE t # s
    <3>1. worker[t].stage \notin Busy
      BY <1>2, <2>1, <2>3 DEF AInv, Parented, IInv, SInv, OneChild, Live
    <3>2. worker'[t] = worker[t] /\ t \notin reconciled' BY <1>1, <1>2, <2>1, <2>3 DEF Checked, Spares
    <3> QED BY <3>1, <3>2 DEF Spares, Busy
  <2> QED BY <2>2, <2>3
<1> QED BY <1>3, <1>5, <1>6, <1>7, <1>8, <1>9 DEF AInv

\* A launch finds nothing of its scan, and no process that an abort could still reach.
LEMMA LaunchSpares ==
    ASSUME IInv, AInv, NEW base \in Servers, NEW procs \in [Scans -> Workers], NEW s \in Scans,
           s > taken, base.running = None,
           \A t \in Scans : /\ procs[t].child = worker[t].child /\ procs[t].attached = worker[t].attached
                            /\ procs[t].stage \in {worker[t].stage, "gone"}
                            /\ (procs[t].stage \in Busy => procs[t] = worker[t]),
           \A t \in Scans : procs[t].child => procs[t].stage \notin Live,
           \A t \in Scans : procs[t].stage = "unborn" <=> worker[t].stage = "unborn",
           Launch(base, procs, s), UNCHANGED <<condemned, doomed, reconciled, orphaned>>
    PROVE  AInv'
<1> USE DEF Launch
<1>1. taken' = s /\ taken \in Nat /\ s \in Nat BY DEF IInv, SInv, TypeOK, Scans
<1>2. s \notin doomed /\ s \notin reconciled BY <1>1 DEF AInv, Born
<1>3. server'.running \in {None, s} /\ (server'.running # None => server'.armed)
  <2>1. CASE server' = base BY <2>1
  <2>2. CASE server' = [base EXCEPT !.armed = TRUE] BY <2>2 DEF Servers
  <2>3. CASE server' = [base EXCEPT !.armed = TRUE, !.running = s, !.watching = @ \cup {s}]
    BY <2>3 DEF Servers
  <2> QED BY <2>1, <2>2, <2>3
<1>4. \/ worker' = procs
      \/ worker' = [procs EXCEPT ![s] = [Unborn EXCEPT !.stage = "starting", !.child = TRUE]]
  OBVIOUS
<1>5. \A t \in Scans : t # s => worker'[t] = procs[t] BY <1>4
<1>6. worker'[s] = procs[s] \/ (worker'[s].stage = "starting" /\ worker'[s].child)
  BY <1>4 DEF Unborn
<1>7. Armed' BY <1>3 DEF Armed
<1>8. Born'
  <2>1. \A t \in Scans : t <= taken => t <= s BY <1>1 DEF Scans
  <2>2. doomed \subseteq Scans /\ reconciled \subseteq Scans BY DEF IInv, SInv, TypeOK
  <2>3. server'.running <= s BY <1>1, <1>3
  <2>4. \A t \in doomed \cup reconciled : t <= s BY <2>1, <2>2 DEF AInv, Born
  <2>5. \A t \in Scans : t # s /\ worker'[t].stage # "unborn" => t <= s
    BY <1>5, <2>1 DEF AInv, Born
  <2> QED BY <1>1, <2>3, <2>4, <2>5 DEF Born
<1>9. Attached'
  BY <1>5, <1>6 DEF AInv, Attached, Opened, Busy
<1>10. Late' BY <1>2, <1>5, <1>6 DEF AInv, Late, Busy
<1>11. Parented' BY <1>5, <1>6 DEF AInv, Parented
<1>12. DoomedSpare'
  <2> SUFFICES ASSUME orphaned = {}, NEW t \in doomed PROVE Spares(t)'
    BY DEF DoomedSpare
  <2>1. Spares(t) /\ t \in Scans /\ t # s BY <1>2 DEF AInv, DoomedSpare, IInv, SInv, TypeOK
  <2>2. worker'[t] = procs[t] BY <1>5, <2>1
  <2>3. procs[t].stage \notin Busy BY <2>1 DEF AInv, Parented, Live
  <2> QED BY <2>1, <2>2, <2>3 DEF Spares, Busy
<1> QED BY <1>7, <1>8, <1>9, <1>10, <1>11, <1>12 DEF AInv

\* _start_next_queued, called when nothing runs.
LEMMA StartNextSpares ==
    ASSUME IInv, AInv, NEW base \in Servers, NEW procs \in [Scans -> Workers],
           base.queue = server.queue, base.running = None,
           \A t \in Scans : /\ procs[t].child = worker[t].child /\ procs[t].attached = worker[t].attached
                            /\ procs[t].stage \in {worker[t].stage, "gone"}
                            /\ (procs[t].stage \in Busy => procs[t] = worker[t]),
           \A t \in Scans : procs[t].child => procs[t].stage \notin Live,
           \A t \in Scans : procs[t].stage = "unborn" <=> worker[t].stage = "unborn",
           StartNextQueued(base, procs),
           UNCHANGED <<asked, condemned, doomed, reconciled, orphaned, faults>>
    PROVE  AInv'
<1>1. CASE server' = base /\ worker' = procs /\ UNCHANGED <<progress, marker, taken>>
  <2>1. Armed' BY <1>1 DEF Armed
  <2>2. Born'
    <3>1. taken \in Nat BY DEF IInv, SInv, TypeOK, Scans
    <3> QED BY <1>1, <3>1 DEF AInv, Born
  <2>3. Attached' BY <1>1 DEF AInv, Attached, Opened, Busy
  <2>4. Late' BY <1>1 DEF AInv, Late, Busy
  <2>5. Parented' BY <1>1 DEF AInv, Parented
  <2>6. DoomedSpare'
    <3> SUFFICES ASSUME orphaned = {}, NEW t \in doomed PROVE Spares(t)'
      BY <1>1 DEF DoomedSpare
    <3>1. Spares(t) /\ t \in Scans BY DEF AInv, DoomedSpare, IInv, SInv, TypeOK
    <3> QED BY <1>1, <3>1 DEF Spares, Busy
  <2> QED BY <2>1, <2>2, <2>3, <2>4, <2>5, <2>6 DEF AInv
<1>2. CASE /\ base.queue # <<>>
           /\ Launch([base EXCEPT !.queue = Tail(@)], procs, Head(base.queue))
  <2> DEFINE b == [base EXCEPT !.queue = Tail(base.queue)]
             h == Head(base.queue)
  <2>1. /\ base.queue \in Seq(Scans) /\ Ordered(base.queue, taken) /\ taken \in Nat /\ asked \in Nat
    BY DEF Servers, IInv, SInv, QueueOrdered, TypeOK, Scans
  <2>2. h \in Scans /\ Tail(base.queue) \in Seq(Scans) /\ h > taken BY <1>2, <2>1, TailOrdered
  <2>3. b \in Servers /\ b.running = None BY <2>2 DEF Servers
  <2>4. Launch(b, procs, h) BY <1>2
  <2> HIDE DEF b, h
  <2> QED BY <2>2, <2>3, <2>4, LaunchSpares
<1> QED BY <1>1, <1>2 DEF StartNextQueued

LEMMA ReapSpares == ASSUME IInv, AInv, NEW s \in Scans, Reap(s) PROVE AInv'
<1> DEFINE base == [server EXCEPT !.watching = @ \ {s}, !.running = None, !.armed = FALSE]
           procs == [worker EXCEPT ![s].stage = "gone"]
<1>1. server.running = s /\ worker[s].stage = "zombie"
  BY DEF Reap, IInv, SInv, Watched, Scans
<1>2. base \in Servers /\ base.queue = server.queue /\ base.running = None
  BY DEF IInv, SInv, TypeOK, Servers
<1>3. worker \in [Scans -> Workers] BY DEF IInv, SInv, TypeOK
<1>4. procs[s] = [worker[s] EXCEPT !.stage = "gone"] /\ \A t \in Scans : t # s => procs[t] = worker[t]
  BY <1>3
<1>5. /\ procs[s].stage = "gone" /\ procs[s].child = worker[s].child
      /\ procs[s].attached = worker[s].attached
      /\ procs \in [Scans -> Workers]
  BY <1>3, <1>4 DEF Workers, Stages
<1>6. StartNextQueued(base, procs)
      /\ UNCHANGED <<asked, condemned, doomed, reconciled, orphaned, faults>>
  BY DEF Reap
<1> HIDE DEF base, procs
<1>7. \A t \in Scans : procs[t].child => procs[t].stage \notin Live
  BY <1>1, <1>4, <1>5 DEF IInv, SInv, OneChild, Live, Busy
<1>8. \A t \in Scans : /\ procs[t].child = worker[t].child /\ procs[t].attached = worker[t].attached
                       /\ procs[t].stage \in {worker[t].stage, "gone"}
                       /\ (procs[t].stage \in Busy => procs[t] = worker[t])
  BY <1>4, <1>5 DEF Busy
<1>9. \A t \in Scans : procs[t].stage = "unborn" <=> worker[t].stage = "unborn" BY <1>1, <1>4, <1>5
<1> QED BY <1>2, <1>5, <1>6, <1>7, <1>8, <1>9, StartNextSpares

LEMMA KickSpares == ASSUME IInv, AInv, Kick PROVE AInv'
<1> DEFINE base == [server EXCEPT !.kicker = FALSE]
<1>1. server.running = None BY DEF Kick, IInv, SInv, KickerIdle
<1>2. base \in Servers /\ base.queue = server.queue /\ base.running = None
  BY <1>1 DEF IInv, SInv, TypeOK, Servers
<1>3. StartNextQueued(base, worker)
      /\ UNCHANGED <<asked, condemned, doomed, reconciled, orphaned, faults>>
  BY DEF Kick
<1> HIDE DEF base
<1>4. worker \in [Scans -> Workers] BY DEF IInv, SInv, TypeOK
<1>5. \A t \in Scans : worker[t].child => worker[t].stage \notin Live
  BY <1>1 DEF IInv, SInv, OneChild, Scans
<1> QED BY <1>2, <1>3, <1>4, <1>5, StartNextSpares

LEMMA RequestSpares == ASSUME IInv, AInv, RequestScan PROVE AInv'
<1>1. UNCHANGED <<condemned, doomed, reconciled, orphaned>> BY DEF RequestScan
<1>2. CASE /\ server' = [server EXCEPT !.queue = Append(@, asked + 1),
                                       !.kicker = @ \/ server.running = None]
           /\ UNCHANGED <<worker, progress, marker, taken>>
  <2>1. server'.running = server.running /\ server'.armed = server.armed
    BY <1>2 DEF IInv, SInv, TypeOK, Servers
  <2> QED BY <1>1, <1>2, <2>1
          DEF AInv, Armed, Born, Attached, Late, Parented, DoomedSpare, Spares
<1>3. CASE ~IsScanning /\ Launch(server, worker, asked + 1)
  <2>1. server.running = None BY <1>3 DEF IsScanning
  <2>2. server \in Servers /\ worker \in [Scans -> Workers] BY DEF IInv, SInv, TypeOK
  <2>3. asked + 1 \in Scans /\ asked + 1 > taken
    BY BoundsAssumption DEF RequestScan, IInv, SInv, TypeOK, Scans, QueueOrdered
  <2>4. \A t \in Scans : worker[t].child => worker[t].stage \notin Live
    BY <2>1 DEF IInv, SInv, OneChild, Scans
  <2> QED BY <1>1, <1>3, <2>1, <2>2, <2>3, <2>4, LaunchSpares
<1> QED BY <1>2, <1>3 DEF RequestScan

\* An abort writes the marker wherever a scan of this server has still to look for it.
LEMMA AbortSpares ==
    ASSUME IInv, AInv, NEW armed \in BOOLEAN, WriteMarker(armed),
           server.running # None => armed, server.armed => armed,
           server'.running = server.running, server'.armed = armed \/ server' = server
    PROVE  AInv'
<1> USE DEF WriteMarker
<1>1. UNCHANGED <<worker, taken, reconciled, orphaned>> OBVIOUS
<1>2. Armed' BY DEF AInv, Armed
<1>3. \A s \in doomed' : s \in doomed \/ (s \in Scans /\ s = server.running /\ WillCheck(s))
  OBVIOUS
<1>4. Born' BY <1>1, <1>3 DEF AInv, Born
<1>5. Attached' /\ Late' /\ Parented' BY <1>1 DEF AInv, Attached, Late, Parented
<1>6. DoomedSpare'
  <2> SUFFICES ASSUME orphaned = {}, NEW s \in doomed' PROVE Spares(s)'
    BY <1>1 DEF DoomedSpare
  <2>1. marker => marker' BY DEF IInv, SInv, TypeOK
  <2>2. CASE s \in doomed BY <1>1, <2>1, <2>2 DEF AInv, DoomedSpare, Spares
  <2>3. CASE s \in Scans /\ s = server.running /\ WillCheck(s)
    <3>1. armed /\ marker' BY <2>3 DEF Scans
    <3>2. worker[s].stage \in {"starting", "opening", "walking"}
          /\ (worker[s].stage = "walking" => worker[s].left > 0)
      BY <2>3 DEF WillCheck
    <3> QED BY <1>1, <2>3, <3>1, <3>2 DEF AInv, Late, Spares
  <2> QED BY <1>3, <2>2, <2>3
<1> QED BY <1>2, <1>4, <1>5, <1>6 DEF AInv

LEMMA RestartSpares == ASSUME IInv, AInv, Restart PROVE AInv'
<1>1. UNCHANGED <<marker, taken, doomed, reconciled>> /\ server' = Stopped
      /\ orphaned' = orphaned \cup {s \in Scans : worker[s].stage \in Busy}
  BY DEF Restart
<1>2. \A s \in Scans : /\ ~worker'[s].child
                       /\ worker'[s].stage = IF worker[s].stage = "zombie" THEN "gone" ELSE worker[s].stage
                       /\ (worker'[s].stage \in Busy => worker[s].stage \in Busy)
  <2> SUFFICES ASSUME NEW s \in Scans
               PROVE  /\ ~worker'[s].child
                      /\ worker'[s].stage = IF worker[s].stage = "zombie" THEN "gone" ELSE worker[s].stage
                      /\ (worker'[s].stage \in Busy => worker[s].stage \in Busy)
    OBVIOUS
  <2>1. worker[s] \in Workers BY DEF IInv, SInv, TypeOK
  <2>2. worker'[s] = [worker[s] EXCEPT !.child = FALSE,
                             !.stage = IF @ = "zombie" THEN "gone" ELSE @]
    BY DEF Restart
  <2> QED BY <2>1, <2>2 DEF Workers, Busy
<1>3. Armed' BY <1>1 DEF Armed, Stopped
<1>4. Born'
  <2>1. taken \in Nat BY DEF IInv, SInv, TypeOK, Scans
  <2>2. server'.running <= taken' BY <1>1, <2>1 DEF Stopped
  <2> QED BY <1>1, <1>2, <2>2 DEF AInv, Born
<1>5. Attached' BY <1>2 DEF Attached
<1>6. Late' BY <1>1, <1>2 DEF AInv, Late
<1>7. orphaned' = {} => orphaned = {} /\ \A s \in Scans : worker[s].stage \notin Busy BY <1>1
<1>8. Parented' BY <1>2, <1>7 DEF Parented
<1>9. DoomedSpare'
  <2> SUFFICES ASSUME orphaned' = {}, NEW s \in doomed PROVE Spares(s)'
    BY <1>1 DEF DoomedSpare
  <2>1. Spares(s) /\ s \in Scans BY <1>7 DEF AInv, DoomedSpare, IInv, SInv, TypeOK
  <2>2. worker'[s].stage \notin Busy BY <1>2, <1>7, <2>1
  <2> QED BY <1>1, <2>1, <2>2 DEF Spares, Busy
<1> QED BY <1>3, <1>4, <1>5, <1>6, <1>8, <1>9 DEF AInv

LEMMA InitSpares == Init => AInv
<1> SUFFICES ASSUME Init PROVE AInv OBVIOUS
<1>1. server.running = None /\ \A s \in Scans : worker[s] = Unborn BY DEF Init, Stopped
<1>2. doomed = {} /\ reconciled = {} /\ taken = None BY DEF Init
<1>3. Armed /\ Born BY <1>1, <1>2 DEF Armed, Born, Unborn
<1>4. Attached /\ Late /\ Parented BY <1>1 DEF Attached, Late, Parented, Unborn, Opened, Busy
<1>5. DoomedSpare BY <1>2 DEF DoomedSpare
<1> QED BY <1>3, <1>4, <1>5 DEF AInv

LEMMA NextSpares == ASSUME IInv, AInv, [Next]_vars PROVE AInv'
<1>1. CASE RequestAbort
  <2> DEFINE armed == server.armed \/ IsScanning
  <2>1. armed \in BOOLEAN BY DEF IInv, SInv, TypeOK, Servers, IsScanning, Published
  <2>2. WriteMarker(armed) /\ server' = [server EXCEPT !.armed = armed] BY <1>1 DEF RequestAbort
  <2>3. (server.running # None => armed) /\ (server.armed => armed) BY DEF IsScanning
  <2> HIDE DEF armed
  <2>4. server'.running = server.running /\ server'.armed = armed
    BY <2>1, <2>2 DEF IInv, SInv, TypeOK, Servers
  <2> QED BY <2>1, <2>2, <2>3, <2>4, AbortSpares
<1>2. CASE AbortDirect
  <2>1. server.armed \in BOOLEAN /\ (server.running # None => server.armed)
    BY DEF IInv, SInv, TypeOK, Servers, AInv, Armed
  <2> QED BY <1>2, <2>1, AbortSpares DEF AbortDirect
<1>3. ASSUME NEW s \in Scans, Works(s) \/ Crash(s), UNCHANGED serverSide PROVE AInv'
  BY <1>3, WorkerSpares
<1>4. ASSUME NEW s \in Scans, Reap(s) PROVE AInv' BY <1>4, ReapSpares
<1>5. CASE UNCHANGED vars
  BY <1>5 DEF vars, AInv, Armed, Born, Attached, Late, Parented, DoomedSpare, Spares
<1> QED BY <1>1, <1>2, <1>3, <1>4, <1>5, RequestSpares, KickSpares, RestartSpares DEF Next

LEMMA SparesInvariant == Spec => [](IInv /\ AInv)
<1>1. Init => IInv /\ AInv BY InitInv, InitSpares
<1>2. IInv /\ AInv /\ [Next]_vars => (IInv /\ AInv)' BY NextKeeps, NextSpares
<1> QED BY <1>1, <1>2, PTL DEF Spec

-----------------------------------------------------------------------------
\* Every variable keeps its type.
THEOREM TypeCorrect == Spec => []TypeOK
<1>1. IInv => TypeOK BY DEF IInv, SInv
<1> QED BY <1>1, Invariant, PTL

\* No second scan process is ever started next to a first (request_scan, the two
\* watchers and the queue of rescan.py).
THEOREM ScansAlone == Spec => []OneScan
<1>1. IInv => OneScan
  <2> SUFFICES ASSUME IInv, NEW s \in Scans, worker[s].child, Alive(s)
               PROVE s = server.running /\ server.watching = {s}
    BY DEF OneScan
  <2>1. s = server.running BY DEF IInv, SInv, OneChild, Alive, Live
  <2>2. s # None BY DEF Scans
  <2> QED BY <2>1, <2>2 DEF IInv, SInv, Watched
<1> QED BY <1>1, Invariant, PTL

\* An abort cuts short only scans that lived when it was asked for (prepare_channels
\* against the marker of request_abort).
THEOREM AbortsMeant == Spec => []AbortMeant
<1>1. IInv => AbortMeant BY DEF IInv
<1> QED BY <1>1, Invariant, PTL

\* Scans are launched in the order they were asked for, none twice (_QUEUE).
THEOREM ScansInOrder == Spec => InOrder
<1>1. IInv /\ [Next]_vars => [taken' # taken => taken' > taken]_vars
  BY NextKeeps
<1> QED BY <1>1, Invariant, PTL DEF Spec, InOrder

\* A scan that had still a batch before it when it was aborted removes nothing from the
\* library, as long as no server went while a scan ran (the marker of request_abort
\* against the finish of ScanState and prepare_channels).
THEOREM AbortsHonoured == Spec => []AbortHonoured
<1>1. AInv => AbortHonoured BY DEF AInv, DoomedSpare, Spares, AbortHonoured
<1> QED BY <1>1, SparesInvariant, PTL
=============================================================================
