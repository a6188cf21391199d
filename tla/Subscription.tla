---------------------------- MODULE Subscription ----------------------------
(***************************************************************************)
(* A streaming subscription with a handler, threaded or asyncio: the       *)
(* stream_messages loop, the streams it opens one after the other, the     *)
(* request iterator of every stream, and the user's close().               *)
(*                                                                         *)
(* All streams share one _send_queue and one _stream_active flag.  gRPC    *)
(* runs each request iterator in a thread (or task) of its own; on a       *)
(* stream that is gone it notices only when the iterator yields, so what   *)
(* that iterator takes from the queue is lost and it is not asked again.   *)
(* asyncio's cancel() also ends the iterator of a stream still open.       *)
(* The sidecar is external: it sends again what was not answered on a      *)
(* stream that ended, and what was answered with a retry; an answer on     *)
(* another stream than the message's is ignored.                           *)
(***************************************************************************)
EXTENDS Naturals, Sequences, FiniteSets

CONSTANTS
  Messages,     \* messages there may be
  MaxFaults,    \* bound: failures of streams, health checks and handlers
  Scenes        \* which client, the topic's messages, how many failures and
                \* whether the user closes

ASSUME SubscriptionAssumption ==
  /\ IsFiniteSet(Messages) /\ MaxFaults \in Nat
  /\ Scenes \subseteq [kind: {"sync", "aio"}, topic: SUBSET Messages,
                       faults: 0 .. MaxFaults, closes: BOOLEAN]

VARIABLES
  scene,
  at, by,       \* where the loop is, and who called start(): "subscribe",
                \* "next" for next_message, "loop" for stream_messages
  msg,          \* message in the handler
  stream,       \* number of the current _stream, 0 for None
  active,       \* _stream_active
  up,           \* state of each stream: "open" or how it ended
  iter,         \* request iterator of each stream
  sendQueue,    \* _send_queue
  closed,       \* the user has called close()
  handled,      \* messages the handler has been called with
  place,        \* sidecar: 0 to be sent, the stream a message is out on, Acked
  swallowed,    \* messages whose answer a dead stream's iterator has taken
  outage,       \* the loop's own reconnect has found no healthy sidecar
  faults

streamVars == <<stream, active, up, iter>>
loopVars == <<at, by, msg>>
vars == <<scene, loopVars, streamVars, sendQueue, closed, handled, place,
          swallowed, outage, faults>>

kind == scene.kind

\* Every stream but the first follows a failure or the user's close().
Streams == 1 .. MaxFaults + 2
Acked == MaxFaults + 3
\* How the other side ends a stream: "reset" is a CANCELLED of the sidecar or
\* of a proxy, "ended" an end without an error.
Errors == {"lost", "internal", "reset", "other", "ended"}
Statuses == {"success", "retry"}

Fault == faults < scene.faults /\ faults' = faults + 1

\* What is out on a stream that ends is to be sent again.
Returned(s) == [m \in Messages |-> IF place[m] = s THEN 0 ELSE place[m]]

\* A stream ends: gRPC lets go of its iterator unless that is in get().
End(s, how, inGet) ==
  /\ up' = [up EXCEPT ![s] = how]
  /\ place' = Returned(s)
  /\ iter' = [iter EXCEPT ![s] = IF @ = "get" THEN inGet ELSE "done"]

----------------------------------------------------------------------------
(* Subscription.start, close and reconnect_stream.                         *)

Open(s) == s # 0 /\ up[s] = "open"

\* close(): the flag is cleared and the current stream cancelled.
CloseStream ==
  /\ active' = FALSE
  /\ UNCHANGED stream
  /\ IF Open(stream)
     THEN End(stream, "cancelled", IF kind = "aio" THEN "done" ELSE "get")
     ELSE UNCHANGED <<up, place, iter>>

Reconnect(caller) == CloseStream /\ at' = "health" /\ by' = caller

\* An exception leaves start() or wait_for_sidecar().
StartRaises ==
  \/ /\ kind = "sync" /\ by = "next" /\ Reconnect("loop")
  \/ /\ kind = "sync" /\ by = "loop" /\ at' = "sleep"
     /\ UNCHANGED <<by, streamVars, place>>
  \/ /\ kind = "aio" \/ by = "subscribe"
     /\ at' = "ended"
     /\ UNCHANGED <<by, streamVars, place>>

\* The sidecar is healthy, or not within DAPR_HEALTH_TIMEOUT.
WaitForSidecar ==
  /\ at = "health" /\ at' = "start"
  /\ UNCHANGED <<scene, by, msg, streamVars, sendQueue, closed, handled, place,
                 swallowed, outage, faults>>

HealthTimesOut ==
  /\ at = "health" /\ Fault /\ StartRaises
  /\ outage' = (outage \/ by = "loop")
  /\ UNCHANGED <<scene, msg, sendQueue, closed, handled, swallowed>>

\* The stub opens the stream and starts its request iterator.  A thread can
\* be interrupted before it sets the flag, a coroutine cannot.
StartStream ==
  /\ at = "start"
  /\ stream' = stream + 1
  /\ up' = [up EXCEPT ![stream'] = "open"]
  /\ iter' = [iter EXCEPT ![stream'] = "check"]
  /\ IF kind = "sync" THEN at' = "activate" /\ UNCHANGED active
     ELSE at' = "first" /\ active' = TRUE
  /\ UNCHANGED <<scene, by, msg, sendQueue, closed, handled, place, swallowed,
                 outage, faults>>

SetStreamActive ==
  /\ at = "activate" /\ at' = "first" /\ active' = TRUE
  /\ UNCHANGED <<scene, by, msg, stream, up, iter, sendQueue, closed, handled,
                 place, swallowed, outage, faults>>

\* The initial message is discarded; asyncio's read() takes the end of the
\* stream for one.
FirstMessage ==
  /\ at = "first" /\ at' = "next"
  /\ Open(stream) \/ (kind = "aio" /\ up[stream] = "ended")
  /\ by' = "loop"
  /\ UNCHANGED <<scene, msg, streamVars, sendQueue, closed, handled, place,
                 swallowed, outage, faults>>

FirstFails ==
  /\ at = "first" /\ ~Open(stream)
  /\ ~(kind = "aio" /\ up[stream] = "ended")
  /\ StartRaises
  /\ UNCHANGED <<scene, msg, sendQueue, closed, handled, swallowed, outage, faults>>

----------------------------------------------------------------------------
(* next_message and the loop of stream_messages.                           *)

\* A slip: the end of a stream is taken for the end of the subscription.
OnReadErrorGivesUp(e) ==
  IF e = "lost" \/ (e = "internal" /\ kind = "sync") THEN "next" ELSE "end"

\* What becomes of an error of next(): a reconnect by next_message or by the
\* loop, or the end of the loop.  CANCELLED is taken for the user's close().
OnReadError(e) ==
  CASE e \in {"cancelled", "reset"} -> "end"
    [] e = "lost" -> "next"
    [] e = "internal" /\ kind = "sync" -> "next"
    [] OTHER -> IF kind = "sync" THEN "loop" ELSE "end"

\* StreamInactiveError ends the loop.
NextMessage ==
  /\ at = "next"
  /\ at' = IF active THEN "read" ELSE "ended"
  /\ UNCHANGED <<scene, by, msg, streamVars, sendQueue, closed, handled, place,
                 swallowed, outage, faults>>

Receive(m) ==
  /\ at = "read" /\ Open(stream) /\ place[m] = 0
  /\ at' = "handle" /\ msg' = m
  /\ place' = [place EXCEPT ![m] = stream]
  /\ handled' = handled \cup {m}
  /\ UNCHANGED <<scene, by, streamVars, sendQueue, closed, swallowed, outage, faults>>

ReadFails ==
  /\ at = "read" /\ ~Open(stream)
  /\ LET then == OnReadError(up[stream]) IN
     IF then = "end" THEN at' = "ended" /\ UNCHANGED <<by, streamVars, place>>
     ELSE Reconnect(then)
  /\ UNCHANGED <<scene, msg, sendQueue, closed, handled, swallowed, outage, faults>>

\* The handler returns a response, and respond() queues it on an active
\* stream, whichever that is.
Respond(status) ==
  /\ at = "handle" /\ at' = "next"
  /\ sendQueue' = IF active
                  THEN Append(sendQueue, [id |-> msg, status |-> status])
                  ELSE sendQueue
  /\ UNCHANGED <<scene, by, msg, streamVars, closed, handled, place, swallowed,
                 outage, faults>>

NoResponse ==
  /\ at = "handle" /\ at' = "next"
  /\ UNCHANGED <<scene, by, msg, streamVars, sendQueue, closed, handled, place,
                 swallowed, outage, faults>>

HandlerRaises ==
  /\ at = "handle" /\ Fault
  /\ IF kind = "sync" THEN Reconnect("loop")
     ELSE at' = "ended" /\ UNCHANGED <<by, streamVars, place>>
  /\ UNCHANGED <<scene, msg, sendQueue, closed, handled, swallowed, outage>>

BackOffEnds ==
  /\ at = "sleep" /\ at' = "next"
  /\ UNCHANGED <<scene, by, msg, streamVars, sendQueue, closed, handled, place,
                 swallowed, outage, faults>>

----------------------------------------------------------------------------
(* The request iterator of a stream.                                       *)

\* while self._is_stream_active(): the iterator ends, and with it the
\* sending side of its stream, when the flag is not set.
CheckActive(s) ==
  /\ iter[s] = "check"
  /\ iter' = [iter EXCEPT ![s] = IF active THEN "get" ELSE "done"]
  /\ UNCHANGED <<scene, loopVars, stream, active, up, sendQueue, closed,
                 handled, place, swallowed, outage, faults>>

\* get() returns a response, which the stream sends if it is still open.
TakeResponse(s) ==
  /\ iter[s] = "get" /\ sendQueue # <<>>
  /\ sendQueue' = Tail(sendQueue)
  /\ LET r == Head(sendQueue) IN
     IF Open(s)
     THEN /\ iter' = [iter EXCEPT ![s] = "check"]
          /\ place' = IF place[r.id] # s THEN place
                      ELSE [place EXCEPT ![r.id] =
                              IF r.status = "retry" THEN 0 ELSE Acked]
          /\ UNCHANGED swallowed
     ELSE /\ iter' = [iter EXCEPT ![s] = "done"]
          /\ swallowed' = swallowed \cup {r.id}
          /\ UNCHANGED place
  /\ UNCHANGED <<scene, loopVars, stream, active, up, closed, handled,
                 outage, faults>>

\* A slip: the iterator ends when nothing came for a second.
AfterIdleEnds == "done"

\* asyncio's get() has a timeout; a thread's waits for ever.
AfterIdle == "check"

GetTimesOut(s) ==
  /\ kind = "aio" /\ iter[s] = "get" /\ sendQueue = <<>>
  /\ iter' = [iter EXCEPT ![s] = AfterIdle]
  /\ UNCHANGED <<scene, loopVars, stream, active, up, sendQueue, closed,
                 handled, place, swallowed, outage, faults>>

----------------------------------------------------------------------------
(* The user, the sidecar.                                                  *)

\* close_subscription(), which is there once subscribe() has returned.
Close ==
  /\ scene.closes /\ by # "subscribe" /\ ~closed /\ closed' = TRUE
  /\ CloseStream
  /\ UNCHANGED <<scene, loopVars, sendQueue, handled, swallowed, outage, faults>>

StreamFails(e) ==
  /\ Open(stream) /\ Fault
  /\ End(stream, e, "get")
  /\ UNCHANGED <<scene, loopVars, stream, active, sendQueue, closed, handled,
                 swallowed, outage>>

----------------------------------------------------------------------------
Init ==
  /\ scene \in Scenes
  /\ at = "start" /\ by = "subscribe" /\ msg = CHOOSE m \in Messages : TRUE
  /\ stream = 0 /\ active = FALSE
  /\ up = [s \in Streams |-> "none"]
  /\ iter = [s \in Streams |-> "none"]
  /\ sendQueue = <<>> /\ closed = FALSE /\ handled = {}
  /\ place = [m \in Messages |-> IF m \in scene.topic THEN 0 ELSE Acked]
  /\ swallowed = {} /\ outage = FALSE /\ faults = 0

LoopStep ==
  \/ WaitForSidecar
  \/ StartStream \/ SetStreamActive \/ FirstMessage \/ FirstFails
  \/ NextMessage \/ ReadFails \/ NoResponse \/ BackOffEnds
  \/ \E status \in Statuses : Respond(status)

IterStep(s) == CheckActive(s) \/ TakeResponse(s) \/ GetTimesOut(s)

Next ==
  \/ LoopStep
  \/ \E m \in Messages : Receive(m)
  \/ \E s \in Streams : IterStep(s)
  \/ HealthTimesOut \/ HandlerRaises \/ Close
  \/ \E e \in Errors : StreamFails(e)

Spec == Init /\ [][Next]_vars

\* Threads and tasks are scheduled, handlers return, and the broker does not
\* keep a message back for ever.
FairSpec ==
  /\ Spec
  /\ WF_vars(LoopStep)
  /\ \A s \in Streams : WF_vars(IterStep(s))
  /\ \A m \in Messages : SF_vars(Receive(m))

----------------------------------------------------------------------------
(* Properties.                                                             *)

\* The loop has ended on a stream that the other side ended with CANCELLED.
ResetEndsLoop == at = "ended" /\ by # "subscribe" /\ up[stream] = "reset"

\* Failures come to an end (MaxFaults).  Whatever other status a stream failed
\* with, and whenever the handler raised, the loop of the threaded client ends
\* up on an open stream and the handler gets every message, unless the user
\* closes the subscription.  Two failures end the loop: a stream that is ended
\* with CANCELLED while the loop reads it (see OutlivesReset), and a reconnect
\* by the loop itself that finds no healthy sidecar (see OutlivesOutage).
Handled ==
  \A m \in Messages :
    (kind = "sync" /\ by # "subscribe" /\ place[m] = 0) ~>
      (m \in handled \/ closed \/ outage \/ ResetEndsLoop)

Out(m) == place[m] \in Streams

\* A response queued for a message that is out on a stream reaches the
\* sidecar there, or the stream ends first, or a threaded stream's iterator
\* had ended because the flag was not set yet when it looked, or the iterator of an earlier
\* stream, still in get(), took the response and lost it.
Answered ==
  \A m \in Messages :
    (Out(m) /\ \E i \in DOMAIN sendQueue : sendQueue[i].id = m) ~>
      (\/ ~Out(m)
       \/ kind = "sync" /\ iter[place[m]] = "done"
       \/ m \in swallowed)

\* The loop of the threaded client backs off and tries again while the
\* sidecar is unavailable: it ends only when the user has closed, or for a
\* stream that said CANCELLED.
OutlivesOutage ==
  (kind = "sync" /\ at = "ended" /\ by # "subscribe") => closed \/ ResetEndsLoop

\* A stream that somebody else cancels does not end the subscription.
OutlivesReset == kind = "sync" /\ ResetEndsLoop => closed

\* A subscription the user has closed opens no stream.
ClosedIsFinal == [][closed => stream' = stream]_vars

=============================================================================
