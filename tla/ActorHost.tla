----------------------------- MODULE ActorHost -----------------------------
(***************************************************************************)
(* ActorGrpcHost: actors hosted over a stream that the application opens.  *)
(* start() waits for the registration, a task serves one stream after the  *)
(* other, each callback is a task of its own, and stop() cancels, drains   *)
(* and leaves the host restartable.  Everything runs on one event loop: a  *)
(* step is what happens between two awaits.                                *)
(*                                                                         *)
(* What actor code does to its state is in ActorManager.  The sidecar is   *)
(* external: it sends an actor one callback at a time, takes back what it  *)
(* sent on a stream that has ended, and sends it again on the next.        *)
(***************************************************************************)
EXTENDS Naturals, FiniteSets

CONSTANTS
  Requests,    \* callbacks
  Actors,      \* actor ids of a registered type
  Unhosted,    \* stands for an actor of a type that is not registered
  MaxStreams,  \* bound: streams opened
  Scenes       \* the callbacks, and what may go wrong

(* A scene has                                                             *)
(*   actor   the actor each callback is for                                *)
(*   kind    "invoke", "reminder", "timer", "deactivate", or "absent"      *)
(*   breaks  streams that end, or handshakes that fail, transiently        *)
(*   ends    other ways for a stream to end: "cancelled" (status           *)
(*           CANCELLED) and "fatal" (any other status, a first message     *)
(*           that is no acknowledgement, a channel that never recovers)    *)
(*   starts  calls of start(); stops: calls of stop()                      *)
(*   hangs   whether actor code may never end                              *)
ASSUME HostAssumption ==
  /\ IsFiniteSet(Requests) /\ Unhosted \notin Actors /\ MaxStreams \in Nat
  /\ Scenes \subseteq
       [actor: [Requests -> Actors \cup {Unhosted}],
        kind: [Requests -> {"invoke", "reminder", "timer", "deactivate", "absent"}],
        breaks: Nat, ends: SUBSET {"cancelled", "fatal"}, starts: Nat, stops: Nat,
        hangs: BOOLEAN]

Streams == 1 .. MaxStreams

VARIABLES
  scene,
  starter,     \* the task in start(): "idle", "waiting", "cleaning"
  stopper,     \* the task in stop(): "idle", "joining", "draining"
  runTask,     \* _run_task is not None
  run,         \* where _run_loop is
  registered,  \* _registered
  stopping,    \* _stopping
  session,     \* the stream of _session, 0 for None
  closed,      \* streams whose _StreamSession is closed
  opened,      \* streams opened so far
  task,        \* the dispatch task of a callback that came on a stream
  active,      \* _active_actors: the callback and stream that made the object
  channel,     \* whether the channel is open
  outcome,     \* how the last start() ended, "none" while none has
  starts, stops,
  live,        \* sidecar: streams it takes to be alive
  pend,        \* sidecar: 0, the stream a callback was sent on, or Done
  stray,       \* sidecar: a reply came that it does not expect
  breaks

hostVars == <<starter, stopper, runTask, registered, stopping, outcome, starts, stops>>
streamVars == <<run, session, closed, opened, channel>>
sidecarVars == <<live, pend, stray, breaks>>
vars == <<scene, hostVars, streamVars, task, active, sidecarVars>>

Done == MaxStreams + 1
NoObject == <<>>
Tasks == Requests \X Streams
Stage(t) == task[t[1]][t[2]]
Move(r, s, from, to) == task[r][s] = from /\ task' = [task EXCEPT ![r][s] = to]
Pending == {t \in Tasks : Stage(t) \notin {"none", "sent", "done"}}  \* _dispatch_tasks
ActorOf(r) == scene.actor[r]

TakenBack(s) == [r \in Requests |-> IF pend[r] = s THEN 0 ELSE pend[r]]

----------------------------------------------------------------------------
(* start(), stop() and close()                                             *)

\* Up to the wait for _registered or the end of the run task.
Start ==
  /\ starter = "idle" /\ stopper = "idle" /\ ~runTask /\ channel
  /\ starts < scene.starts /\ starts' = starts + 1
  /\ starter' = "waiting" /\ runTask' = TRUE /\ run' = "connect"
  /\ stopping' = FALSE /\ registered' = FALSE /\ outcome' = "none"
  /\ UNCHANGED <<scene, stopper, stops, session, closed, opened, channel, task, active, sidecarVars>>

\* A slip: start() does not look at the run task.
StartEndsBlindly == "returned"

\* The run task may end before anything was registered.  A task that ended
\* cleanly has a result, and start() returns.
StartEnds == IF run \in {"failed", "cancelled"} THEN "raises" ELSE "returned"

StartReturns ==
  /\ starter = "waiting"
  /\ registered \/ run \in {"clean", "failed", "cancelled"}
  /\ IF StartEnds = "returned"
     THEN starter' = "idle" /\ outcome' = "returned"
     ELSE starter' = "cleaning" /\ UNCHANGED outcome
  /\ UNCHANGED <<scene, stopper, runTask, registered, stopping, starts, stops,
                 streamVars, task, active, sidecarVars>>

\* close(): what is left of stop() when the run task has ended, then the
\* channel, and start() raises.
StartCloses ==
  /\ starter = "cleaning" /\ Pending = {} /\ stopper = "idle"
  /\ starter' = "idle" /\ outcome' = "raised"
  /\ runTask' = FALSE /\ registered' = FALSE /\ stopping' = TRUE /\ channel' = FALSE
  /\ UNCHANGED <<scene, stopper, starts, stops, run, session, closed, opened,
                 task, active, sidecarVars>>

\* _on_run_task_done: a failure after start() returned makes the host
\* startable again.
RunTaskDone ==
  /\ run = "failed" /\ starter = "idle" /\ runTask /\ ~stopping
  /\ runTask' = FALSE /\ registered' = FALSE
  /\ UNCHANGED <<scene, starter, stopper, stopping, outcome, starts, stops,
                 streamVars, task, active, sidecarVars>>

\* The finally of _run_session.
SessionCloses ==
  /\ closed' = IF session = 0 THEN closed ELSE closed \cup {session}
  /\ session' = 0
  /\ live' = live \ {session} /\ pend' = TakenBack(session)

\* stop() cancels the run task, whatever it awaits.
Stop ==
  /\ stopper = "idle" /\ stops < scene.stops /\ starts > 0
  /\ stops' = stops + 1 /\ stopping' = TRUE
  /\ stopper' = "joining"
  /\ IF run \in {"connect", "handshake", "serving", "recover"}
     THEN run' = "cancelled" /\ SessionCloses
     ELSE UNCHANGED <<run, closed, session, live, pend>>
  /\ UNCHANGED <<scene, starter, runTask, registered, outcome, starts, opened,
                 channel, task, active, stray, breaks>>

StopJoined ==
  /\ stopper = "joining" /\ stopper' = "draining" /\ runTask' = FALSE
  /\ UNCHANGED <<scene, starter, registered, stopping, outcome, starts, stops,
                 streamVars, task, active, sidecarVars>>

\* A slip: stop() does not wait for the tasks that outlive the timeout.
DrainedEarly == TRUE
Drained == Pending = {}

\* _drain_dispatch_tasks is over, and stop() returns.
StopReturns ==
  /\ stopper = "draining" /\ Drained
  /\ stopper' = "idle" /\ registered' = FALSE
  /\ UNCHANGED <<scene, starter, runTask, stopping, outcome, starts, stops,
                 streamVars, task, active, sidecarVars>>

\* A slip: what outlives the timeout is left running.
StageAfterDrainUncancelled(r, s) == task[r][s]
StageAfterDrain(r, s) == IF <<r, s>> \in Pending THEN "done" ELSE task[r][s]

\* The drain timeout: what still runs is cancelled.  A task in the middle of
\* an activation leaves no object behind.
DrainTimeout ==
  /\ stopper = "draining" \/ starter = "cleaning"
  /\ Pending # {}
  /\ task' = [r \in Requests |-> [s \in Streams |-> StageAfterDrain(r, s)]]
  /\ UNCHANGED <<scene, hostVars, streamVars, active, sidecarVars>>

----------------------------------------------------------------------------
(* _run_loop and _run_session                                              *)

\* The stream, the session and the registration message.
Connect ==
  /\ run = "connect" /\ opened + 1 \in Streams
  /\ opened' = opened + 1 /\ session' = opened + 1
  /\ live' = live \cup {opened + 1}
  /\ run' = "handshake"
  /\ UNCHANGED <<scene, hostVars, closed, channel, task, active, pend, stray, breaks>>

Acknowledged ==
  /\ run = "handshake" /\ session \in live
  /\ run' = "serving" /\ registered' = TRUE
  /\ UNCHANGED <<scene, starter, stopper, runTask, stopping, outcome, starts, stops,
                 session, closed, opened, channel, task, active, sidecarVars>>

\* EOF, a handshake timeout or a transient status: the loop reconnects.
Disconnect ==
  /\ run \in {"handshake", "serving"} /\ breaks < scene.breaks
  /\ breaks' = breaks + 1 /\ run' = "recover" /\ SessionCloses
  /\ UNCHANGED <<scene, hostVars, opened, channel, task, active, stray>>

\* _wait_for_channel_ready, whose timeout ends the loop, and the delay.
Recover ==
  /\ run = "recover"
  /\ run' \in {"connect"} \cup (IF "fatal" \in scene.ends THEN {"failed"} ELSE {})
  /\ UNCHANGED <<scene, hostVars, session, closed, opened, channel, task, active, sidecarVars>>

\* Status CANCELLED ends the loop cleanly, anything else with an exception.
StreamFails ==
  /\ run \in {"handshake", "serving"}
  /\ \E how \in scene.ends : run' = IF how = "cancelled" THEN "clean" ELSE "failed"
  /\ SessionCloses
  /\ UNCHANGED <<scene, hostVars, opened, channel, task, active, stray, breaks>>

----------------------------------------------------------------------------
(* _dispatch and the handlers, in a task per callback                      *)

\* The read loop makes a task of a message.
Receive ==
  \E r \in Requests :
    /\ run = "serving" /\ Move(r, session, "sent", "arrived")
    /\ UNCHANGED <<scene, hostVars, streamVars, active, sidecarVars>>

\* A slip: the actor is activated by every call.
MustActivateAlways(a) == TRUE
MustActivate(a) == active[a] = NoObject

\* _guard_and_handle: a type that is not hosted is answered at once; a call,
\* a reminder and a timer activate the actor if need be.
Handle ==
  \E r \in Requests, s \in Streams :
    /\ IF ActorOf(r) = Unhosted THEN Move(r, s, "arrived", "replying") /\ UNCHANGED active
       ELSE IF scene.kind[r] = "deactivate"
       THEN /\ Move(r, s, "arrived", IF active[ActorOf(r)] = NoObject THEN "replying" ELSE "acting")
            /\ active' = [active EXCEPT ![ActorOf(r)] = NoObject]
       ELSE /\ Move(r, s, "arrived", IF MustActivate(ActorOf(r)) THEN "activating" ELSE "acting")
            /\ UNCHANGED active
    /\ UNCHANGED <<scene, hostVars, streamVars, sidecarVars>>

\* activate_actor: _on_activate_internal has returned, or it has raised
Activated ==
  \E r \in Requests, s \in Streams :
    /\ \/ /\ Move(r, s, "activating", "acting")
          /\ active' = [active EXCEPT ![ActorOf(r)] = <<r, s>>]
       \/ Move(r, s, "activating", "replying") /\ UNCHANGED active
    /\ UNCHANGED <<scene, hostVars, streamVars, sidecarVars>>

\* Actor code returned or raised: either is a reply.
Acted ==
  \E r \in Requests, s \in Streams :
    /\ Move(r, s, "acting", "replying")
    /\ UNCHANGED <<scene, hostVars, streamVars, active, sidecarVars>>

\* A slip: the reply goes to the session of the host.
ReplySessionCurrent(s) == session
ReplySession(s) == s

\* A slip: one flag for all sessions.
SessionClosedEver(s) == closed # {}
SessionClosed(s) == s \in closed

\* _StreamSession.send waits for the lock; the reply of a closed session is
\* dropped.
StartsToWrite ==
  \E r \in Requests, s \in Streams :
    /\ \A q \in Requests : task[q][s] # "writing"
    /\ Move(r, s, "replying",
            IF ReplySession(s) = 0 \/ SessionClosed(ReplySession(s)) THEN "done" ELSE "writing")
    /\ UNCHANGED <<scene, hostVars, streamVars, active, sidecarVars>>

\* The write fails with the stream, or the reply arrives.
Written ==
  \E r \in Requests, s \in Streams :
    LET to == ReplySession(s) IN
    /\ Move(r, s, "writing", "done")
    /\ IF to \in live
       THEN /\ stray' = (stray \/ pend[r] # to)
            /\ pend' = IF pend[r] = to THEN [pend EXCEPT ![r] = Done] ELSE pend
            /\ UNCHANGED closed
       ELSE closed' = closed \cup ({to} \ {0}) /\ UNCHANGED <<stray, pend>>
    /\ UNCHANGED <<scene, hostVars, run, session, opened, channel, active, live, breaks>>

----------------------------------------------------------------------------
(* The sidecar (external).                                                 *)

Send ==
  \E r \in Requests, s \in live :
    /\ run = "serving" /\ s = session /\ pend[r] = 0
    /\ \A q \in Requests : ActorOf(q) = ActorOf(r) => pend[q] \in {0, Done}
    /\ Move(r, s, "none", "sent") /\ pend' = [pend EXCEPT ![r] = s]
    /\ UNCHANGED <<scene, hostVars, streamVars, active, live, stray, breaks>>

----------------------------------------------------------------------------
Init ==
  /\ scene \in Scenes
  /\ starter = "idle" /\ stopper = "idle" /\ runTask = FALSE /\ run = "none"
  /\ registered = FALSE /\ stopping = FALSE /\ session = 0 /\ closed = {} /\ opened = 0
  /\ task = [r \in Requests |-> [s \in Streams |-> "none"]]
  /\ active = [a \in Actors |-> NoObject]
  /\ channel = TRUE /\ outcome = "none" /\ starts = 0 /\ stops = 0
  /\ live = {} /\ stray = FALSE /\ breaks = 0
  /\ pend = [r \in Requests |-> IF scene.kind[r] = "absent" THEN Done ELSE 0]

Host == StartReturns \/ StartCloses \/ RunTaskDone \/ StopJoined \/ StopReturns \/ DrainTimeout
Session == Connect \/ Acknowledged \/ Recover \/ Receive
Handler == Handle \/ Activated \/ StartsToWrite \/ Written
Next == Start \/ Stop \/ Host \/ Session \/ Handler \/ Acted \/ Disconnect \/ StreamFails \/ Send

Spec == Init /\ [][Next]_vars

(* The event loop runs what is ready, a handshake is answered, the sidecar *)
(* sends.  Each of these steps uses up something bounded, so one condition *)
(* serves for all.  Actor code ends, unless the scene says that it hangs.  *)
FairSpec == /\ Spec /\ WF_vars(Host \/ Session \/ Handler \/ Send)
            /\ WF_vars(Acted /\ ~scene.hangs)

----------------------------------------------------------------------------
(* Properties.                                                             *)

\* "A reply correlated to a dead stream is never sent on its successor":
\* the sidecar only ever gets replies to what it sent on that very stream.
NoStrayReply == ~stray

\* When stop() has returned, the run task has ended, no session is open and
\* no handler runs, whatever was going on when it was called.
StopLeavesNothing ==
  stopping /\ stopper = "idle" /\ starter = "idle" =>
    run \notin {"connect", "handshake", "serving", "recover"} /\ session = 0 /\ Pending = {}

\* start() returns only when the sidecar has acknowledged the registration,
\* unless stop() was called meanwhile.
StartMeansRegistered ==
  [][outcome' = "returned" /\ outcome # "returned" => registered \/ stopping]_vars

\* An active actor lives until it is deactivated.  It is replaced only by a
\* handler of another stream: one that outlived its stream may activate the
\* actor at the same time as the first call of the next stream, since the
\* manager looks for the object before the awaits of the activation.
ObjectsPersist ==
  [][\A a \in Actors :
       active'[a] # active[a] =>
         \/ NoObject \in {active[a], active'[a]}
         \/ active[a][2] # active'[a][2]]_vars

\* A callback is answered in the end, on whatever stream, unless the host is
\* stopped, its run task ends or actor code hangs.
Answered ==
  run = "serving" ~> (\A r \in Requests : pend[r] = Done)
                     \/ stopping \/ run \in {"clean", "failed"} \/ scene.hangs

\* stop() returns, even if actor code never does.
StopEnds == stopper # "idle" ~> stopper = "idle"
=============================================================================
