---------------------------- MODULE LibraryRescan ----------------------------
(* Library scans: the queue of control/rescan.py in the server, the scan     *)
(* process of media/scan_worker.py with the import it runs, and the two      *)
(* files they share (media/scan_state.py). A scan is numbered in the order   *)
(* in which it was asked for; its process is known by the same number.       *)
(*                                                                           *)
(* The server may go and come back while a scan process runs on; a scan      *)
(* process may die at any point. What only rescanprogress reports            *)
(* (percentages, the last failure, the total time) is left out.              *)
EXTENDS Naturals, Sequences

CONSTANTS
    MaxScans,       \* bound: scans asked for
    MaxBatches,     \* bound: batches of files one walk finds
    MaxAborts,      \* bound: abort requests
    MaxCrashes,     \* bound: scan processes that die
    MaxRestarts,    \* bound: restarts of the server
    MaxRetries,     \* MAX_RETRIES: notifies that fail before the scan gives up publishing
    LaunchMayFail   \* whether a launch may find no folder, no database or no process

ASSUME BoundsAssumption ==
    /\ MaxScans \in Nat /\ MaxBatches \in Nat /\ MaxAborts \in Nat
    /\ MaxCrashes \in Nat /\ MaxRestarts \in Nat
ASSUME RetriesAssumption == MaxRetries \in Nat \ {0}
ASSUME LaunchAssumption == LaunchMayFail \in BOOLEAN

Scans == 1..MaxScans
None == 0           \* no scan: the value of _RUNNING, and of a file that says nothing

VARIABLES
    server,         \* the module variables of rescan.py, lost in a restart
    worker,         \* the scan processes
    progress,       \* the process that the progress file says is scanning, or None
    marker,         \* whether the abort marker exists
    asked,          \* history: how many scans were asked for
    taken,          \* history: the last scan that was taken out to be launched
    condemned,      \* history: scans that were alive when an abort was asked for
    doomed,         \* history: those that still had a check for it before them
    reconciled,     \* history: scans that removed the tracks they did not see
    orphaned,       \* history: scans whose server went while they ran
    faults          \* bounds: aborts, crashes and restarts so far

vars == <<server, worker, progress, marker, asked, taken, condemned, doomed,
          reconciled, orphaned, faults>>
history == <<asked, taken, condemned, doomed, reconciled, orphaned, faults>>

Servers ==
    [queue : Seq(Scans),            \* _QUEUE
     running : Scans \cup {None},   \* _RUNNING
     watching : SUBSET Scans,       \* tasks of _watch_scan_process
     kicker : BOOLEAN,              \* _WATCHER, the task of _watch_queue
     armed : BOOLEAN]               \* whether the channel paths are set

\* unborn -> starting -> opening -> walking -> closing -> draining -> zombie -> gone
Busy == {"starting", "opening", "walking", "closing", "draining"}
Stages == Busy \cup {"unborn", "zombie", "gone"}

Workers ==
    [stage : Stages,
     attached : BOOLEAN,        \* channel paths of the process
     left : Nat,                \* batches the walk has still to hand over
     found : BOOLEAN,           \* whether the walk found any file
     aborted : BOOLEAN,         \* the local variable of import_music
     missed : 0..MaxRetries,    \* failed_notifies
     child : BOOLEAN]           \* whether the server that started it still runs

TypeOK ==
    /\ server \in Servers
    /\ worker \in [Scans -> Workers]
    /\ progress \in Scans \cup {None}
    /\ marker \in BOOLEAN
    /\ asked \in 0..MaxScans
    /\ taken \in Scans \cup {None}
    /\ condemned \subseteq Scans /\ doomed \subseteq Scans
    /\ reconciled \subseteq Scans /\ orphaned \subseteq Scans
    /\ faults \in [aborts : Nat, crashes : Nat, restarts : Nat]

Stopped == [queue |-> <<>>, running |-> None, watching |-> {}, kicker |-> FALSE, armed |-> FALSE]

Unborn == [stage |-> "unborn", attached |-> FALSE, left |-> 0, found |-> FALSE,
           aborted |-> FALSE, missed |-> 0, child |-> FALSE]

Init ==
    /\ server = Stopped
    /\ worker = [s \in Scans |-> Unborn]
    /\ progress = None /\ marker = FALSE
    /\ asked = 0 /\ taken = None
    /\ condemned = {} /\ doomed = {} /\ reconciled = {} /\ orphaned = {}
    /\ faults = [aborts |-> 0, crashes |-> 0, restarts |-> 0]

-----------------------------------------------------------------------------
(* The server.                                                              *)

\* A process answers a signal 0 until its parent has reaped it.
Alive(s) == worker[s].stage \in Busy \cup {"zombie"}

\* live_published_state: what another process publishes, if it is still alive.
Published == server.armed /\ progress # None /\ Alive(progress)

\* Mutant: only what is published counts as scanning.
IsScanning_PublishedOnly == Published \/ server.queue # <<>>

IsScanning == Published \/ server.running # None \/ server.queue # <<>>

\* Mutant: the abort marker of an earlier scan stays.
PrepareChannels_KeepsMarker == progress' = None /\ UNCHANGED marker

\* prepare_channels: what an earlier scan left behind is removed.
PrepareChannels == progress' = None /\ marker' = FALSE

\* _launch(s), from the server's variables and processes as its caller leaves them:
\* there may be no folder to scan, no database path or no process; otherwise the
\* process is started and watched.
Launch(base, procs, s) ==
    /\ taken' = s
    /\ \/ LaunchMayFail /\ server' = base /\ worker' = procs /\ UNCHANGED <<progress, marker>>
       \/ /\ PrepareChannels
          /\ \/ LaunchMayFail /\ server' = [base EXCEPT !.armed = TRUE] /\ worker' = procs
             \/ /\ server' = [base EXCEPT !.armed = TRUE, !.running = s,
                                          !.watching = @ \cup {s}]
                /\ worker' = [procs EXCEPT ![s] =
                                 [Unborn EXCEPT !.stage = "starting", !.child = TRUE]]

\* Mutant: the newest request comes first.
StartNextQueued_Newest(base, procs) ==
    \/ /\ base.queue = <<>>
       /\ server' = base /\ worker' = procs
       /\ UNCHANGED <<progress, marker, taken>>
    \/ /\ base.queue # <<>>
       /\ Launch([base EXCEPT !.queue = SubSeq(@, 1, Len(@) - 1)], procs,
                 base.queue[Len(base.queue)])

\* _start_next_queued
StartNextQueued(base, procs) ==
    \/ /\ base.queue = <<>>
       /\ server' = base /\ worker' = procs
       /\ UNCHANGED <<progress, marker, taken>>
    \/ /\ base.queue # <<>>
       /\ Launch([base EXCEPT !.queue = Tail(@)], procs, Head(base.queue))

\* request_scan: started at once, or queued behind what runs.
RequestScan ==
    /\ asked < MaxScans
    /\ asked' = asked + 1
    /\ \/ /\ IsScanning
          /\ server' = [server EXCEPT !.queue = Append(@, asked + 1),
                                      !.kicker = @ \/ server.running = None]
          /\ UNCHANGED <<worker, progress, marker, taken>>
       \/ ~IsScanning /\ Launch(server, worker, asked + 1)
    /\ UNCHANGED <<condemned, doomed, reconciled, orphaned, faults>>

\* Mutant: the watcher waits until the progress file says that the scan is over.
Reap_WaitsForProgress(s) ==
    /\ s \in server.watching
    /\ worker[s].stage = "zombie" /\ progress # s
    /\ StartNextQueued([server EXCEPT !.watching = @ \ {s}, !.running = None, !.armed = FALSE],
                       [worker EXCEPT ![s].stage = "gone"])
    /\ UNCHANGED <<asked, condemned, doomed, reconciled, orphaned, faults>>

\* Mutant: the next scan is left to the next request.
Reap_LeavesQueue(s) ==
    /\ s \in server.watching
    /\ worker[s].stage = "zombie"
    /\ server' = [server EXCEPT !.watching = @ \ {s}, !.running = None, !.armed = FALSE]
    /\ worker' = [worker EXCEPT ![s].stage = "gone"]
    /\ UNCHANGED <<progress, marker, asked, taken, condemned, doomed, reconciled, orphaned, faults>>

\* _watch_scan_process(s) finds that the process has ended, however it did.
Reap(s) ==
    /\ s \in server.watching
    /\ worker[s].stage = "zombie"
    /\ StartNextQueued([server EXCEPT !.watching = @ \ {s}, !.running = None, !.armed = FALSE],
                       [worker EXCEPT ![s].stage = "gone"])
    /\ UNCHANGED <<asked, condemned, doomed, reconciled, orphaned, faults>>

\* _watch_queue finds that the scan it was started for has ended.
Kick ==
    /\ server.kicker
    /\ ~Published \/ server.queue = <<>>
    /\ StartNextQueued([server EXCEPT !.kicker = FALSE], worker)
    /\ UNCHANGED <<asked, condemned, doomed, reconciled, orphaned, faults>>

\* The scan s has still to look for the marker at least once.
WillCheck(s) ==
    \/ worker[s].stage \in {"starting", "opening"}
    \/ worker[s].stage = "walking" /\ worker[s].left > 0

\* The abort marker is written where the channels are set.
WriteMarker(armed) ==
    /\ faults.aborts < MaxAborts
    /\ faults' = [faults EXCEPT !.aborts = @ + 1]
    /\ marker' = (marker \/ armed)
    /\ condemned' = condemned \cup {s \in Scans : Alive(s)}
    /\ doomed' = doomed \cup {s \in Scans : s = server.running /\ WillCheck(s)}
    /\ UNCHANGED <<worker, progress, asked, taken, reconciled, orphaned>>

\* abortscan of the command line: request_abort sets the channels if it has to.
RequestAbort ==
    LET armed == server.armed \/ IsScanning
    IN  WriteMarker(armed) /\ server' = [server EXCEPT !.armed = armed]

\* abortscan of the web interface goes to the scan state directly.
AbortDirect == WriteMarker(server.armed) /\ UNCHANGED server

\* The server stops, or dies, and starts again: what it knew is lost, and the scan
\* processes run on.
Restart ==
    /\ faults.restarts < MaxRestarts
    /\ faults' = [faults EXCEPT !.restarts = @ + 1]
    /\ server' = Stopped
    /\ worker' = [s \in Scans |->
                     [worker[s] EXCEPT !.child = FALSE,
                                       !.stage = IF @ = "zombie" THEN "gone" ELSE @]]
    /\ orphaned' = orphaned \cup {s \in Scans : worker[s].stage \in Busy}
    /\ UNCHANGED <<progress, marker, asked, taken, condemned, doomed, reconciled>>

-----------------------------------------------------------------------------
(* The scan process.                                                        *)

AbortSeen(s) == worker[s].attached /\ marker

Ended(s) == IF worker[s].child THEN "zombie" ELSE "gone"

\* ScanState.finish of the process s: no abort is pending and nothing is scanning.
Finish(s) ==
    /\ marker' = IF worker[s].attached THEN FALSE ELSE marker
    /\ progress' = IF worker[s].attached THEN None ELSE progress

serverSide == <<server, asked, taken, condemned, doomed, orphaned>>

\* _run: the channels are set, and another scan that publishes is left alone.
Guard(s) ==
    /\ worker[s].stage = "starting"
    /\ worker' = [worker EXCEPT ![s].attached = TRUE,
                                ![s].stage = IF progress \in {None, s} THEN "opening" ELSE Ended(s)]
    /\ UNCHANGED <<progress, marker, reconciled, faults>>

\* Mutant: the state of the scan is reset as it starts, and the marker with it.
Walk_ClearsMarker(s) ==
    /\ worker[s].stage = "opening"
    /\ \E n \in 0..MaxBatches :
           worker' = [worker EXCEPT ![s].stage = "walking", ![s].left = n, ![s].found = n > 0]
    /\ progress' = s /\ marker' = FALSE
    /\ UNCHANGED <<reconciled, faults>>

\* import_music starts to walk, if the folder can be read; otherwise it is over.
Walk(s) ==
    /\ worker[s].stage = "opening"
    /\ \/ /\ \E n \in 0..MaxBatches :
                 worker' = [worker EXCEPT ![s].stage = "walking", ![s].left = n,
                                          ![s].found = n > 0]
          /\ progress' = s
          /\ UNCHANGED marker
       \/ worker' = [worker EXCEPT ![s].stage = "draining"] /\ Finish(s)
    /\ UNCHANGED <<reconciled, faults>>

\* _on_progress: after MAX_RETRIES notifies without a server, nobody reads any more.
Notified(w) ==
    LET missed == IF w.child THEN 0 ELSE IF w.missed < MaxRetries THEN w.missed + 1 ELSE w.missed
    IN  [w EXCEPT !.missed = missed,
                  !.attached = @ /\ (w.missed = MaxRetries \/ missed < MaxRetries)]

\* Mutant: a batch is counted off when the walk is over.
Batch_Unchecked(s) ==
    /\ worker[s].stage = "walking"
    /\ worker' = [worker EXCEPT ![s].left = @ - 1]
    /\ UNCHANGED <<progress, marker, reconciled, faults>>

\* A batch is imported and published, or thrown away after an abort, which also
\* stops the walk early.
Batch(s) ==
    /\ worker[s].stage = "walking" /\ worker[s].left > 0
    /\ \/ /\ AbortSeen(s)
          /\ \E n \in 0..(worker[s].left - 1) :
                 worker' = [worker EXCEPT ![s].left = n, ![s].aborted = TRUE]
          /\ UNCHANGED progress
       \/ /\ ~AbortSeen(s)
          /\ worker' = [worker EXCEPT ![s] = Notified([worker[s] EXCEPT !.left = @ - 1])]
          /\ progress' = IF worker[s].attached THEN s ELSE progress
    /\ UNCHANGED <<marker, reconciled, faults>>

\* The walk is over: what it did not see is removed, never after an abort.
Reconcile(s) ==
    /\ worker[s].stage = "walking" /\ worker[s].left = 0
    /\ reconciled' = IF worker[s].found /\ ~worker[s].aborted THEN reconciled \cup {s}
                     ELSE reconciled
    /\ worker' = [worker EXCEPT ![s] = Notified([worker[s] EXCEPT !.stage = "closing"])]
    /\ UNCHANGED <<progress, marker, faults>>

\* import_music ends; lookups under way may take a while yet.
EndImport(s) ==
    /\ worker[s].stage = "closing"
    /\ worker' = [worker EXCEPT ![s].stage = "draining"]
    /\ Finish(s)
    /\ UNCHANGED <<reconciled, faults>>

\* The finally block of _run, at the end or after an exception.
Exit(s) ==
    /\ worker[s].stage \in {"walking", "closing", "draining"}
    /\ worker' = [worker EXCEPT ![s].stage = Ended(s)]
    /\ Finish(s)
    /\ UNCHANGED <<reconciled, faults>>

\* The process is killed, or fails before the try block.
Crash(s) ==
    /\ faults.crashes < MaxCrashes
    /\ worker[s].stage \in Busy
    /\ faults' = [faults EXCEPT !.crashes = @ + 1]
    /\ worker' = [worker EXCEPT ![s].stage = Ended(s)]
    /\ UNCHANGED <<progress, marker, reconciled>>

Works(s) == Guard(s) \/ Walk(s) \/ Batch(s) \/ Reconcile(s) \/ EndImport(s) \/ Exit(s)

-----------------------------------------------------------------------------
Next ==
    \/ RequestScan \/ RequestAbort \/ AbortDirect \/ Kick \/ Restart
    \/ \E s \in Scans : Reap(s)
    \/ \E s \in Scans : (Works(s) \/ Crash(s)) /\ UNCHANGED serverSide

Spec == Init /\ [][Next]_vars

\* asyncio runs its tasks, and a scan of a finite folder goes on.
Fairness ==
    /\ WF_vars(Kick)
    /\ \A s \in Scans : WF_vars(Reap(s)) /\ WF_vars(Works(s) /\ UNCHANGED serverSide)

FairSpec == Spec /\ Fairness

-----------------------------------------------------------------------------
(* Properties.                                                              *)

\* Of the scan processes this server started at most one has not been reaped, and it
\* is the one the server believes to run and watches: whatever mix of requests,
\* queue, watchers and failing launches, no second scan is started next to a first.
OneScan ==
    \A s \in Scans : worker[s].child /\ Alive(s) =>
        s = server.running /\ server.watching = {s}

\* A scan that had still a batch before it when it was aborted removes nothing from
\* the library, although the marker passes through a file that several processes
\* write; a scan process of an earlier server may take the marker away.
AbortHonoured == orphaned = {} => doomed \cap reconciled = {}

\* A scan is cut short only by an abort that was asked for while its process lived:
\* a marker that comes late, or that a dead process left, never stops a later scan.
AbortMeant == \A s \in Scans : worker[s].aborted => s \in condemned

\* Scans are launched in the order they were asked for, and none twice.
InOrder == [][taken' # taken => taken' > taken]_vars

\* Whatever becomes of a scan process, the server notices, and takes out the next one.
ScanEnds == \A s \in Scans : server.running = s ~> server.running # s
NextServed ==
    \A s \in Scans : (server.running # None /\ server.queue # <<>> /\ Head(server.queue) = s)
                        ~> \A i \in DOMAIN server.queue : server.queue[i] # s

\* Violated after a restart: never do two processes walk the library at a time.
OneScanner ==
    \A s, t \in Scans : worker[s].stage = "walking" /\ worker[t].stage = "walking" => s = t

\* Violated when a launch fails: what is queued is launched.
QueueServed ==
    \A s \in Scans : (\E i \in DOMAIN server.queue : server.queue[i] = s)
                        ~> (\A i \in DOMAIN server.queue : server.queue[i] # s)
=============================================================================
