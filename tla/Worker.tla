------------------------------- MODULE Worker -------------------------------
(***************************************************************************)
(* The life of a TaskHubGrpcWorker: the threads that call start() and      *)
(* stop(), the run loop with its connection to the sidecar, the reader     *)
(* thread of each stream, the queues and semaphores of _AsyncWorkerManager *)
(* and the thread pool that executes work items and sends their results.   *)
(* What a workflow turn does is in Orchestrator, its history cache in      *)
(* HistoryCache.                                                           *)
(*                                                                         *)
(* The connection calls (Hello, backoff, joins) block the event loop, so   *)
(* queues are only consumed while the loop awaits the reader's queue.      *)
(* Each connection opens at most one stream: both are one link.  The       *)
(* sidecar is external: it sends an item on the open stream, sends it      *)
(* again when that stream ends, and takes a result only from the stream it *)
(* sent the item on.  A result lost on a stream that stays open is not     *)
(* modelled.                                                               *)
(***************************************************************************)
EXTENDS Naturals, FiniteSets

CONSTANTS
  Items,        \* work items
  MaxLinks,     \* bound: connections
  Limit,        \* kind of semaphore -> its size
  PoolSize,     \* maximum_thread_pool_workers
  Scenes        \* what is to be done and what may go wrong

(* A scene has                                                             *)
(*   kind        the kind of each item: "workflow", "activity", "async",   *)
(*               or "absent"                                               *)
(*   faults      how many connections, streams, readers, fetches may fail  *)
(*   fatal       whether a reader may fail with a RuntimeError             *)
(*   starts      how often start() is called                               *)
(*   stops       whether stop() is called, at any time after a start()     *)
(*   joinExpires whether join() of the run loop may reach _stop_timeout    *)
Kinds == {"workflow", "activity", "async", "absent"}
Semaphores == {"orchestration", "activity"}

ASSUME WorkerAssumption ==
  /\ IsFiniteSet(Items) /\ MaxLinks \in Nat
  /\ Limit \in [Semaphores -> Nat \ {0}] /\ PoolSize \in Nat \ {0}
  /\ Scenes \subseteq [kind: [Items -> Kinds], faults: Nat, fatal: BOOLEAN,
                       starts: Nat, stops: BOOLEAN, joinExpires: BOOLEAN]

VARIABLES
  scene,
  shutdown, streamReady, isRunning,  \* _shutdown, _stream_ready, _is_running
  hasLoop,      \* _runLoop is not None
  starter, stopper,  \* where the threads in start() and stop() are
  starts,       \* calls of start() so far
  loop,         \* where the run loop is
  conn,         \* current_stub of the run loop, 0 for None
  channel,      \* _current_channel, 0 for None
  retired,      \* channels whose deferred close is to come
  opened,       \* connections made so far
  link,         \* state of each link
  reader,       \* the reader thread of each link
  job,          \* where an item that came on a link is
  poolShut,     \* _AsyncWorkerManager._shutdown and the pool's
  gaveUp,       \* join() of the run loop has expired
  pend,         \* sidecar: 0, the link an item was sent on, or Done
  faults

userVars == <<isRunning, hasLoop, starter, stopper, starts, poolShut, gaveUp>>
linkVars == <<conn, channel, retired, opened, link, reader>>
vars == <<scene, shutdown, streamReady, userVars, loop, linkVars, job, pend, faults>>

Links == 1 .. MaxLinks
Done == MaxLinks + 1
Kind(i) == scene.kind[i]
SemaphoreOf(i) == IF Kind(i) = "workflow" THEN "orchestration" ELSE "activity"
OnLoop(i) == Kind(i) = "async"
Jobs == Items \X Links
Stage(j) == job[j[1]][j[2]]
Move(i, n, from, to) ==
  job[i][n] = from /\ job' = [job EXCEPT ![i][n] = to]

----------------------------------------------------------------------------
(* Connections.                                                            *)

\* The sidecar takes back what it sent on a link that is gone.
TakenBack(n) == [i \in Items |-> IF pend[i] = n THEN 0 ELSE pend[i]]

\* A closed channel cancels its stream.
Closed(n) == [link EXCEPT ![n] = "closed"]

\* A slip: the channel is dropped without a deferred close.
RetireForgotten(n) == retired

\* invalidate_connection: the channel is closed later
Retire(n) == IF n = 0 THEN retired ELSE retired \cup {n}

Invalidate ==
  /\ conn' = 0 /\ channel' = 0
  /\ retired' = Retire(conn)

\* _schedule_deferred_channel_close, after its grace period or on shutdown
DeferredClose ==
  \E n \in retired :
    /\ retired' = retired \ {n}
    /\ link' = Closed(n) /\ pend' = TakenBack(n)
    /\ UNCHANGED <<scene, shutdown, streamReady, userVars, loop, conn, channel,
                   opened, reader, job, faults>>

\* The network or the sidecar ends a stream.
StreamEnds ==
  \E n \in Links :
    /\ link[n] = "streaming" /\ faults < scene.faults
    /\ faults' = faults + 1
    /\ link' = [link EXCEPT ![n] = "ended"] /\ pend' = TakenBack(n)
    /\ UNCHANGED <<scene, shutdown, streamReady, userVars, loop, conn, channel,
                   retired, opened, reader, job>>

----------------------------------------------------------------------------
(* _async_run_loop                                                         *)

Fails == faults < scene.faults /\ faults' = faults + 1

\* The head of the loop, which has no stub: it is to connect.
LoopTop ==
  /\ loop = "top"
  /\ IF shutdown THEN loop' = "ending" ELSE opened + 1 \in Links /\ loop' = "connect"
  /\ UNCHANGED <<scene, shutdown, streamReady, userVars, linkVars, job, pend, faults>>

\* A new channel for Hello, also when stop() has come in between and has found
\* none to close.
Connect ==
  /\ loop = "connect" /\ opened + 1 \in Links
  /\ loop' = "hello"
  /\ opened' = opened + 1
  /\ link' = [link EXCEPT ![opened + 1] = "channel"]
  /\ conn' = opened + 1 /\ channel' = opened + 1
  /\ UNCHANGED <<scene, shutdown, streamReady, userVars, retired, reader, job, pend, faults>>

HelloReturns ==
  /\ loop = "hello" /\ link[conn] = "channel"
  /\ loop' = "open"
  /\ UNCHANGED <<scene, shutdown, streamReady, userVars, linkVars, job, pend, faults>>

\* Hello raises, because the sidecar is away or stop() closed the channel.
\* create_fresh_connection drops its channel unclosed.
HelloFails ==
  /\ loop = "hello"
  /\ \/ link[conn] = "closed" /\ UNCHANGED faults
     \/ link[conn] = "channel" /\ Fails
  /\ loop' = "backoff" /\ conn' = 0 /\ channel' = 0
  /\ UNCHANGED <<scene, shutdown, streamReady, userVars, retired, opened, link, reader, job, pend>>

Backoff ==
  /\ loop = "backoff"
  /\ loop' = IF shutdown THEN "ending" ELSE "top"
  /\ UNCHANGED <<scene, shutdown, streamReady, userVars, linkVars, job, pend, faults>>

\* GetWorkItems, the reader thread, and the readiness flag
OpenStream ==
  /\ loop = "open" /\ link[conn] = "channel"
  /\ link' = [link EXCEPT ![conn] = "streaming"]
  /\ reader' = [reader EXCEPT ![conn] = "reading"]
  /\ streamReady' = TRUE
  /\ loop' = "listen"
  /\ UNCHANGED <<scene, shutdown, userVars, conn, channel, retired, opened, job, pend, faults>>

\* GetWorkItems on a channel that stop() has closed raises ValueError.
OpenFails ==
  /\ loop = "open" /\ link[conn] = "closed"
  /\ IF shutdown THEN loop' = "ending" /\ UNCHANGED <<conn, channel, retired>>
                 ELSE loop' = "top" /\ Invalidate
  /\ UNCHANGED <<scene, shutdown, streamReady, userVars, opened, link, reader, job, pend, faults>>

\* submit_orchestration or submit_activity for an item the reader passed on
Submit ==
  /\ loop = "listen" /\ ~shutdown /\ ~poolShut
  /\ \E i \in Items : Move(i, conn, "read", "queued")
  /\ UNCHANGED <<scene, shutdown, streamReady, userVars, loop, linkVars, pend, faults>>

Unread(n) == \E i \in Items : job[i][n] = "read"

\* A slip: the listener waits for the sentinel even on shutdown.
LeavesAtSentinel == reader[conn] = "finished" /\ ~Unread(conn)
Leaves == shutdown \/ poolShut \/ (reader[conn] = "finished" /\ ~Unread(conn))

\* The loop leaves the stream: on shutdown, or at the reader's sentinel,
\* which comes after all items; then it reconnects.
Leave ==
  /\ loop = "listen" /\ Leaves
  /\ IF shutdown THEN loop' = "ending" /\ UNCHANGED <<conn, channel, retired>>
                 ELSE loop' = "top" /\ Invalidate
  /\ UNCHANGED <<scene, shutdown, streamReady, userVars, opened, link, reader, job, pend, faults>>

\* The reader passed an exception on.  Any but a RuntimeError reconnects.
ReaderRaised ==
  /\ loop = "listen" /\ ~shutdown /\ ~Unread(conn)
  /\ \/ reader[conn] = "raised" /\ loop' = "top"
     \/ reader[conn] = "fatal" /\ loop' = "ending"
  /\ reader' = [reader EXCEPT ![conn] = "finished"]
  /\ Invalidate
  /\ UNCHANGED <<scene, shutdown, streamReady, userVars, opened, link, job, pend, faults>>

\* The jobs that end when worker_task is cancelled: those in the queues, those
\* that wait for a semaphore or a thread, and the coroutines of async
\* activities.  A thread that runs goes on.
Cancelled(i, n) ==
  \/ job[i][n] \in {"queued", "pool", "result"}
  \/ job[i][n] = "running" /\ OnLoop(i)

\* The end of _async_run_loop: the connection goes, worker_task is cancelled.
LoopEnds ==
  /\ loop = "ending"
  /\ loop' = "ended" /\ Invalidate
  /\ job' = [i \in Items |-> [n \in Links |->
               IF Cancelled(i, n) THEN "gone" ELSE job[i][n]]]
  /\ UNCHANGED <<scene, shutdown, streamReady, userVars, opened, link, reader, pend, faults>>

----------------------------------------------------------------------------
(* stream_reader                                                           *)

ReadItem ==
  \E i \in Items, n \in Links :
    /\ reader[n] = "reading" /\ link[n] = "streaming"
    /\ IF shutdown
       THEN Move(i, n, "sent", "gone") /\ reader' = [reader EXCEPT ![n] = "finished"]
       ELSE Move(i, n, "sent", "read") /\ UNCHANGED reader
    /\ UNCHANGED <<scene, shutdown, streamReady, userVars, loop, conn, channel,
                   retired, opened, link, pend, faults>>

\* StopIteration, an RpcError of any code, or shutdown: the sentinel.
ReaderFinishes ==
  \E n \in Links :
    /\ reader[n] = "reading" /\ (link[n] # "streaming" \/ shutdown)
    /\ reader' = [reader EXCEPT ![n] = "finished"]
    /\ UNCHANGED <<scene, shutdown, streamReady, userVars, loop, conn, channel,
                   retired, opened, link, job, pend, faults>>

\* Any other exception is passed on to the run loop.
ReaderFails ==
  \E n \in Links, how \in {"raised"} \cup (IF scene.fatal THEN {"fatal"} ELSE {}) :
    /\ reader[n] = "reading" /\ link[n] = "streaming" /\ ~shutdown /\ Fails
    /\ reader' = [reader EXCEPT ![n] = how]
    /\ UNCHANGED <<scene, shutdown, streamReady, userVars, loop, conn, channel,
                   retired, opened, link, job, pend>>

----------------------------------------------------------------------------
(* _AsyncWorkerManager and the thread pool                                 *)

Holders(sem) == {j \in Jobs : SemaphoreOf(j[1]) = sem /\
                   Stage(j) \in {"pool", "running", "result", "sending"}}
Busy == {j \in Jobs : \/ Stage(j) = "sending"
                      \/ Stage(j) = "running" /\ ~OnLoop(j[1])}

\* A slip: one more than the semaphore allows.
HasSlotOffByOne(sem) == Cardinality(Holders(sem)) <= Limit[sem]
HasSlot(sem) == Cardinality(Holders(sem)) < Limit[sem]

\* _consume_queue makes a task of each queued item; in _process_work_item it
\* takes the semaphore, and in _run_func an async activity runs on
\* the loop, the rest is submitted to the pool, or dropped if that has been shut down.
Acquire ==
  /\ loop = "listen"
  /\ \E i \in Items, n \in Links :
       /\ HasSlot(SemaphoreOf(i))
       /\ Move(i, n, "queued", IF OnLoop(i) THEN "running"
                             ELSE IF poolShut THEN "gone" ELSE "pool")
  /\ UNCHANGED <<scene, shutdown, streamReady, userVars, loop, linkVars, pend, faults>>

\* A thread of the pool takes a submitted function, or an async result.
PoolTakes ==
  /\ Cardinality(Busy) < PoolSize
  /\ \E i \in Items, n \in Links : \/ Move(i, n, "pool", "running")
                                   \/ Move(i, n, "result", "sending")
  /\ UNCHANGED <<scene, shutdown, streamReady, userVars, loop, linkVars, pend, faults>>

\* _execute_orchestrator, _execute_activity, _execute_activity_async: user
\* code returned or raised, either is a response.  A response of a coroutine
\* goes to the pool, unless that has been shut down.
Executed ==
  /\ \E i \in Items, n \in Links :
       /\ OnLoop(i) => loop = "listen"
       /\ Move(i, n, "running", IF ~OnLoop(i) THEN "sending"
                                ELSE IF poolShut THEN "gone" ELSE "result")
  /\ UNCHANGED <<scene, shutdown, streamReady, userVars, loop, linkVars, pend, faults>>

\* _resolve_history failed: no response, and teardown_stream cancels the
\* stream the item came on, which may have ended already.
ResolutionFails(i, n) ==
  /\ Kind(i) = "workflow" /\ Fails
  /\ Move(i, n, "running", "gone")
  /\ IF link[n] = "streaming"
     THEN link' = [link EXCEPT ![n] = "ended"] /\ pend' = TakenBack(n)
     ELSE UNCHANGED <<link, pend>>

TearDown ==
  /\ \E i \in Items, n \in Links : ResolutionFails(i, n)
  /\ UNCHANGED <<scene, shutdown, streamReady, userVars, loop, conn, channel,
                 retired, opened, reader>>

\* CompleteOrchestratorTask or CompleteActivityTask; one that is too large
\* is replaced by a failure.  Any error is logged and the item left to the
\* sidecar.
Send ==
  /\ \E i \in Items, n \in Links :
       /\ Move(i, n, "sending", "gone")
       /\ pend' = IF link[n] = "streaming" /\ pend[i] = n
                  THEN [pend EXCEPT ![i] = Done] ELSE pend
  /\ UNCHANGED <<scene, shutdown, streamReady, userVars, loop, linkVars, faults>>

----------------------------------------------------------------------------
(* start() and stop(), in threads of the application                       *)

\* Up to the wait for _stream_ready; the manager's run() clears its flag,
\* but the pool stays shut down.
Start ==
  /\ starter = "idle" /\ ~isRunning /\ loop \in {"none", "ended"}
  /\ stopper \in {"idle", "stopped"} /\ starts < scene.starts
  /\ starts' = starts + 1
  /\ starter' = "waiting" /\ stopper' = "idle"
  /\ hasLoop' = TRUE /\ loop' = "top"
  /\ UNCHANGED <<scene, shutdown, streamReady, isRunning, poolShut, gaveUp, linkVars,
                 job, pend, faults>>

StartReturns ==
  /\ starter = "waiting" /\ streamReady
  /\ starter' = "idle" /\ isRunning' = TRUE
  /\ UNCHANGED <<scene, shutdown, streamReady, hasLoop, stopper, starts, poolShut,
                 gaveUp, loop, linkVars, job, pend, faults>>

StartRaises ==
  /\ starter = "waiting" /\ ~streamReady
  /\ shutdown \/ loop = "ended"
  /\ starter' = "idle"
  /\ UNCHANGED <<scene, shutdown, streamReady, isRunning, hasLoop, stopper, starts,
                 poolShut, gaveUp, loop, linkVars, job, pend, faults>>

\* stop(): sets the flag, then closes the current channel ...
Stop ==
  /\ stopper = "idle" /\ scene.stops /\ hasLoop
  /\ stopper' = "closing" /\ shutdown' = TRUE
  /\ UNCHANGED <<scene, streamReady, isRunning, hasLoop, starter, starts, poolShut,
                 gaveUp, loop, linkVars, job, pend, faults>>

CloseCurrent ==
  IF channel = 0 THEN UNCHANGED <<channel, link, pend>>
  ELSE /\ link' = Closed(channel) /\ pend' = TakenBack(channel)
       /\ channel' = 0

StopCloses ==
  /\ stopper = "closing" /\ stopper' = "joining"
  /\ CloseCurrent
  /\ UNCHANGED <<scene, shutdown, streamReady, isRunning, hasLoop, starter, starts,
                 poolShut, gaveUp, loop, conn, retired, opened, reader, job, faults>>

\* ... joins the run loop, or gives up on it, and shuts the pool down ...
StopJoins ==
  /\ stopper = "joining" /\ stopper' = "draining"
  /\ \/ loop = "ended" /\ retired = {} /\ UNCHANGED gaveUp
     \/ scene.joinExpires /\ loop # "ended" /\ gaveUp' = TRUE
  /\ poolShut' = TRUE
  /\ UNCHANGED <<scene, shutdown, streamReady, isRunning, hasLoop, starter, starts,
                 loop, linkVars, job, pend, faults>>

InPool(j) == j \in Busy \/ Stage(j) \in {"pool", "result"}

\* A slip: the pool is shut down without waiting for its threads.
PoolDrainedAtOnce == TRUE
PoolDrained == \A j \in Jobs : ~InPool(j)

\* ... which waits for the functions it was given.
StopReturns ==
  /\ stopper = "draining" /\ PoolDrained
  /\ stopper' = "stopped" /\ isRunning' = FALSE /\ hasLoop' = FALSE
  /\ UNCHANGED <<scene, shutdown, streamReady, starter, starts, poolShut, gaveUp,
                 loop, linkVars, job, pend, faults>>

----------------------------------------------------------------------------
(* The sidecar (external).                                                 *)

Dispatch ==
  \E i \in Items, n \in Links :
    /\ link[n] = "streaming" /\ pend[i] = 0
    /\ Move(i, n, "none", "sent") /\ pend' = [pend EXCEPT ![i] = n]
    /\ UNCHANGED <<scene, shutdown, streamReady, userVars, loop, linkVars, faults>>

----------------------------------------------------------------------------
Init ==
  /\ scene \in Scenes
  /\ shutdown = FALSE /\ streamReady = FALSE /\ isRunning = FALSE /\ hasLoop = FALSE
  /\ starter = "idle" /\ stopper = "idle" /\ starts = 0
  /\ loop = "none" /\ conn = 0 /\ channel = 0 /\ retired = {} /\ opened = 0
  /\ link = [n \in Links |-> "none"] /\ reader = [n \in Links |-> "none"]
  /\ job = [i \in Items |-> [n \in Links |-> "none"]]
  /\ poolShut = FALSE /\ gaveUp = FALSE
  /\ pend = [i \in Items |-> IF Kind(i) = "absent" THEN Done ELSE 0] /\ faults = 0

Loop == LoopTop \/ Connect \/ HelloReturns \/ HelloFails \/ Backoff \/ OpenStream \/ OpenFails
        \/ Submit \/ Leave \/ ReaderRaised \/ LoopEnds
Pool == PoolTakes \/ Executed \/ Send
User == Start \/ StartReturns \/ StartRaises \/ Stop \/ StopCloses \/ StopJoins \/ StopReturns
Next == Loop \/ Acquire \/ Pool \/ TearDown \/ User \/ ReadItem \/ ReaderFinishes
        \/ ReaderFails \/ DeferredClose \/ StreamEnds \/ Dispatch

Spec == Init /\ [][Next]_vars

(* Threads run, calls return, and user code ends.  Nothing is assumed of   *)
(* faults, nor of the application's calls of start() and stop().  Each     *)
(* step uses up something that is bounded, so no thread can be overtaken   *)
(* forever and one condition serves for all of them.                       *)
Progress == Loop \/ Acquire \/ Pool \/ ReadItem \/ ReaderFinishes \/ DeferredClose
            \/ Dispatch \/ StartReturns \/ StartRaises \/ StopCloses \/ StopJoins
            \/ StopReturns

FairSpec == Spec /\ WF_vars(Progress)

----------------------------------------------------------------------------
(* Properties.                                                             *)

\* stop() leaves nothing behind: once it has returned, no thread of the pool
\* executes or answers a work item and none is to come, even when join() gave
\* up on the run loop; and if it did not, no coroutine runs either, and every
\* channel is closed.
QuietAfterStop ==
  stopper = "stopped" =>
    /\ \A j \in Jobs : ~InPool(j)
    /\ ~gaveUp => /\ \A j \in Jobs : Stage(j) # "running"
                  /\ \A n \in Links : link[n] # "streaming"

\* The semaphores and the pool bound what is executed at a time, over all
\* streams: work of a stream that was given up counts until it ends.
WithinLimits ==
  /\ \A sem \in Semaphores :
       Cardinality({j \in Jobs : SemaphoreOf(j[1]) = sem /\ Stage(j) = "running"})
         <= Limit[sem]
  /\ Cardinality(Busy) <= PoolSize

\* A worker that was stopped can be started again: when the second start()
\* has returned, as opposed to raised, its run loop listens or reconnects.
RestartListens == starts > 1 /\ isRunning /\ ~gaveUp => loop # "ended" \/ stopper # "idle"

\* Every work item of a running worker is answered in the end, however often
\* its stream breaks in any stage of it, unless the worker is stopped.
Served == isRunning ~> (\A i \in Items : pend[i] = Done) \/ shutdown \/ loop = "ended"

\* stop() returns, whatever the run loop is waiting for when it is called.
StopEnds == stopper = "closing" ~> stopper = "stopped"
=============================================================================
