---------------------------- MODULE ServersProofs ----------------------------
(***************************************************************************)
(* Proofs about the two ways in which the sidecar calls an application.    *)
(*                                                                         *)
(* ActorHost, for every set of callbacks and actors and every number of    *)
(* streams: replies stay on their stream, an actor is activated once per   *)
(* stream, and stop() leaves nothing behind.                               *)
(*                                                                         *)
(* AppCallbacks, for every set of handlers, topics and kinds of events and *)
(* every number and order of registrations: an event reaches the handler   *)
(* that was registered for it.                                             *)
(***************************************************************************)
EXTENDS ActorHost, AppCallbacks, WellFoundedInduction, SequenceTheorems, TLAPS

Stages == {"none", "sent", "arrived", "activating", "acting", "replying", "writing", "done"}
Runs == {"none", "connect", "handshake", "serving", "recover", "clean", "failed", "cancelled"}

TypeOK ==
  /\ scene \in Scenes
  /\ starter \in {"idle", "waiting", "cleaning"} /\ stopper \in {"idle", "joining", "draining"}
  /\ runTask \in BOOLEAN /\ registered \in BOOLEAN /\ stopping \in BOOLEAN
  /\ channel \in BOOLEAN /\ stray \in BOOLEAN
  /\ run \in Runs
  /\ opened \in 0 .. MaxStreams /\ session \in 0 .. opened
  /\ closed \subseteq 1 .. opened /\ live \subseteq 1 .. opened
  /\ task \in [Requests -> [Streams -> Stages]]
  /\ active \in [Actors -> {NoObject} \cup Tasks]
  /\ outcome \in {"none", "returned", "raised"}
  /\ starts \in Nat /\ stops \in Nat /\ breaks \in Nat
  /\ pend \in [Requests -> 0 .. Done]

Running == {"connect", "handshake", "serving", "recover"}

\* A session is open while the run loop talks to the sidecar; once stop() has
\* been called, or the run task is forgotten, the run loop is over; and when
\* stop() has returned the handlers are, too.
RunInv ==
  /\ session # 0 => run \in {"handshake", "serving"}
  /\ run \in {"handshake", "serving"} => session # 0
  /\ starter = "cleaning" => run \in {"failed", "cancelled"}
  /\ stopping \/ ~runTask => run \notin Running
  /\ stopper # "idle" => stopping
  /\ stopping /\ stopper = "idle" => Pending = {}

\* The callback r that came on s is the business of a handler or on its way.
Open(r, s) == task[r][s] \notin {"none", "done"}

\* The sidecar waits for a callback on the stream on which it is open, if that
\* is alive; a stream that is to come has none.
PendInv ==
  \A r \in Requests, s \in Streams :
    /\ Open(r, s) /\ s \in live => pend[r] = s
    /\ s > opened => task[r][s] = "none"

\* An actor has one callback at a time open on a stream, dead or alive; what
\* activates it has found no object, and finds none made on its own stream.
TurnInv ==
  \A r \in Requests, s \in Streams :
    /\ \A q \in Requests : Open(r, s) /\ Open(q, s) /\ ActorOf(q) = ActorOf(r) => q = r
    /\ task[r][s] = "activating" =>
         /\ ActorOf(r) \in Actors
         /\ active[ActorOf(r)] = NoObject \/ active[ActorOf(r)][2] # s

IInv == TypeOK /\ RunInv /\ PendInv /\ TurnInv /\ NoStrayReply

----------------------------------------------------------------------------
(* The initial state.                                                      *)

\* Nothing has been opened, sent or activated.
LEMMA InitInv == Init => IInv
<1> SUFFICES ASSUME Init PROVE IInv
  OBVIOUS
<1> USE DEF Init
<1>1. TypeOK
  <2>1. pend \in [Requests -> 0 .. Done]
    BY HostAssumption DEF Done
  <2>2. task \in [Requests -> [Streams -> Stages]]
    BY DEF Stages
  <2>3. 0 \in 0 .. MaxStreams /\ 0 \in 0 .. opened
    BY HostAssumption
  <2>4. active \in [Actors -> {NoObject} \cup Tasks]
    OBVIOUS
  <2> QED
    BY <2>1, <2>2, <2>3, <2>4 DEF TypeOK, Runs
<1>2. RunInv
  <2>1. Pending = {}
    BY DEF Pending, Stage, Tasks
  <2> QED
    BY <2>1 DEF RunInv, Running
<1>3. PendInv /\ TurnInv /\ NoStrayReply
  BY DEF PendInv, TurnInv, NoStrayReply, Open
<1> QED
  BY <1>1, <1>2, <1>3 DEF IInv

----------------------------------------------------------------------------
(* Steps that leave the callbacks alone.                                   *)

\* What the sidecar takes back it may send again.
LEMMA TakenBackType ==
  ASSUME TypeOK, NEW s
  PROVE  TakenBack(s) \in [Requests -> 0 .. Done]
BY HostAssumption DEF TypeOK, TakenBack, Done

\* The invariants of the callbacks do not depend on the host's own state.
LEMMA CallbacksKept ==
  ASSUME IInv, UNCHANGED <<scene, opened, task, active, live, pend, stray>>
  PROVE  PendInv' /\ TurnInv' /\ NoStrayReply' /\ Pending' = Pending
BY DEF IInv, PendInv, TurnInv, NoStrayReply, Open, ActorOf, Pending, Stage, Tasks

\* They survive the end of a session: what it had open is taken back.
LEMMA CloseKeeps ==
  ASSUME IInv, SessionCloses, UNCHANGED <<scene, opened, task, active, stray>>
  PROVE  /\ PendInv' /\ TurnInv' /\ NoStrayReply' /\ Pending' = Pending
         /\ session' = 0 /\ live' \subseteq 1 .. opened /\ closed' \subseteq 1 .. opened
         /\ pend' \in [Requests -> 0 .. Done]
<1>1. TurnInv' /\ NoStrayReply' /\ Pending' = Pending
  BY DEF IInv, TurnInv, NoStrayReply, Open, ActorOf, Pending, Stage, Tasks
<1>2. PendInv'
  BY DEF IInv, PendInv, Open, SessionCloses, TakenBack, TypeOK
<1>3. closed' \subseteq 1 .. opened
  BY DEF IInv, SessionCloses, TypeOK
<1>4. pend' \in [Requests -> 0 .. Done]
  BY TakenBackType DEF IInv, SessionCloses
<1> QED
  BY <1>1, <1>2, <1>3, <1>4 DEF SessionCloses, IInv, TypeOK

\* start(), stop() and close() preserve the invariant.
LEMMA HostInv ==
  ASSUME IInv, Start \/ StartReturns \/ StartCloses \/ RunTaskDone \/ StopJoined \/ StopReturns
  PROVE  IInv'
<1> USE DEF IInv
<1>1. UNCHANGED <<scene, opened, task, active, live, pend, stray>>
  BY DEF Start, StartReturns, StartCloses, RunTaskDone, StopJoined, StopReturns, streamVars,
         sidecarVars
<1>2. PendInv' /\ TurnInv' /\ NoStrayReply' /\ Pending' = Pending
  BY <1>1, CallbacksKept
<1>3. TypeOK' /\ RunInv'
  <2>1. CASE Start
    <3>1. TypeOK'
      <4>1. starts' \in Nat /\ run' \in Runs
        BY <2>1 DEF Start, TypeOK, Runs
      <4>2. starter' \in {"idle", "waiting", "cleaning"} /\ outcome' \in {"none", "returned", "raised"}
        BY <2>1 DEF Start
      <4> QED
        BY <2>1, <4>1, <4>2 DEF Start, TypeOK, sidecarVars
    <3>2. session = 0
      BY <2>1 DEF Start, RunInv, Running
    <3>3. RunInv'
      BY <2>1, <3>2 DEF Start, RunInv
    <3> QED
      BY <3>1, <3>3
  <2>2. CASE StartReturns
    <3>1. UNCHANGED <<run, session, stopping, stopper, runTask>>
      BY <2>2 DEF StartReturns, streamVars
    <3>2. starter' = "idle" \/ (starter' = "cleaning" /\ run \in {"failed", "cancelled"})
      BY <2>2 DEF StartReturns, StartEnds
    <3>3. RunInv'
      BY <3>1, <3>2, <1>2 DEF RunInv
    <3>4. TypeOK'
      BY <2>2, <3>2 DEF StartReturns, TypeOK, streamVars, sidecarVars
    <3> QED
      BY <3>3, <3>4
  <2>3. CASE StartCloses
    BY <2>3, <1>2 DEF StartCloses, TypeOK, RunInv, sidecarVars, Running
  <2>4. CASE RunTaskDone
    BY <2>4, <1>2 DEF RunTaskDone, Running, TypeOK, RunInv, streamVars, sidecarVars
  <2>5. CASE StopJoined
    BY <2>5, <1>2 DEF StopJoined, TypeOK, RunInv, streamVars, sidecarVars
  <2>6. CASE StopReturns
    BY <2>6, <1>2 DEF StopReturns, Drained, TypeOK, RunInv, streamVars, sidecarVars
  <2> QED
    BY <2>1, <2>2, <2>3, <2>4, <2>5, <2>6
<1> QED
  BY <1>2, <1>3

\* So do the call of stop() and the ends of a stream.
LEMMA EndsInv ==
  ASSUME IInv, Stop \/ Disconnect \/ StreamFails
  PROVE  IInv'
<1> USE DEF IInv
<1>1. CASE Stop /\ run \in Running
  <2>1. PendInv' /\ TurnInv' /\ NoStrayReply' /\ Pending' = Pending
    BY <1>1, CloseKeeps DEF Stop, Running
  <2>2. TypeOK'
    BY <1>1, CloseKeeps DEF Stop, Running, TypeOK, Runs
  <2>3. RunInv'
    BY <1>1, CloseKeeps DEF Stop, Running, RunInv
  <2> QED
    BY <2>1, <2>2, <2>3
<1>2. CASE Stop /\ run \notin Running
  <2>1. UNCHANGED <<scene, opened, task, active, live, pend, stray>>
    BY <1>2 DEF Stop, Running
  <2>2. PendInv' /\ TurnInv' /\ NoStrayReply' /\ Pending' = Pending
    BY <2>1, CallbacksKept
  <2>3. /\ UNCHANGED <<run, closed, session, live, pend, scene, starter, runTask, registered,
                       outcome, starts, opened, channel, task, active, stray, breaks>>
        /\ stopping' = TRUE /\ stopper' = "joining" /\ stops' = stops + 1
    BY <1>2 DEF Stop, Running
  <2>4. TypeOK'
    BY <2>3 DEF TypeOK
  <2>5. RunInv'
    BY <1>2, <2>3 DEF RunInv
  <2> QED
    BY <2>2, <2>4, <2>5
<1>3. CASE Disconnect \/ StreamFails
  <2>1. /\ SessionCloses /\ UNCHANGED <<scene, opened, task, active, stray, hostVars, channel>>
        /\ run \in {"handshake", "serving"} /\ run' \in {"recover", "clean", "failed"}
        /\ breaks' \in Nat
    BY <1>3 DEF Disconnect, StreamFails, hostVars, TypeOK
  <2>2. PendInv' /\ TurnInv' /\ NoStrayReply' /\ Pending' = Pending
    BY <2>1, CloseKeeps
  <2>3. TypeOK'
    BY <2>1, CloseKeeps DEF TypeOK, Runs, hostVars
  <2>4. RunInv'
    BY <2>1, CloseKeeps DEF RunInv, hostVars, Running, TypeOK
  <2> QED
    BY <2>2, <2>3, <2>4
<1> QED
  BY <1>1, <1>2, <1>3

\* So do the steps of the run loop that get a stream to serve.
LEMMA ConnectInv ==
  ASSUME IInv, Connect \/ Acknowledged \/ Recover
  PROVE  IInv'
<1> USE DEF IInv
<1>1. CASE Connect
  <2>1. opened + 1 \in Streams /\ opened \in Nat /\ opened' = opened + 1
    BY <1>1 DEF Connect, TypeOK
  <2>2. TypeOK'
    BY <1>1, <2>1 DEF Connect, TypeOK, Runs, hostVars, Streams
  <2>3. PendInv'
    BY <1>1, <2>1 DEF Connect, PendInv, Open, Streams
  <2>4. TurnInv' /\ NoStrayReply' /\ Pending' = Pending
    BY <1>1 DEF Connect, TurnInv, NoStrayReply, Open, ActorOf, Pending, Stage, Tasks
  <2>5. RunInv'
    BY <1>1, <2>1, <2>4 DEF Connect, RunInv, hostVars, Running
  <2> QED
    BY <2>2, <2>3, <2>4, <2>5
<1>2. CASE Acknowledged \/ Recover
  <2>1. UNCHANGED <<scene, opened, task, active, live, pend, stray>>
    BY <1>2 DEF Acknowledged, Recover, sidecarVars
  <2>2. PendInv' /\ TurnInv' /\ NoStrayReply' /\ Pending' = Pending
    BY <2>1, CallbacksKept
  <2>3. CASE Acknowledged
    <3>1. TypeOK'
      BY <2>3 DEF Acknowledged, TypeOK, Runs, sidecarVars
    <3>2. RunInv'
      BY <2>3, <2>2 DEF Acknowledged, RunInv, Running
    <3> QED
      BY <2>2, <3>1, <3>2
  <2>4. CASE Recover
    <3>1. run' \in {"connect", "failed"}
      BY <2>4 DEF Recover
    <3>2. TypeOK'
      BY <2>4, <3>1 DEF Recover, TypeOK, Runs, sidecarVars, hostVars
    <3>3. RunInv'
      BY <2>4, <2>2, <3>1 DEF Recover, RunInv, Running, hostVars
    <3> QED
      BY <2>2, <3>2, <3>3
  <2> QED
    BY <1>2, <2>3, <2>4
<1> QED
  BY <1>1, <1>2

----------------------------------------------------------------------------
(* The handlers.                                                           *)

\* The stage of a callback after a move, and of the others.
LEMMA Moved ==
  ASSUME TypeOK, NEW r \in Requests, NEW s \in Streams, NEW from, NEW to, Move(r, s, from, to)
  PROVE  /\ task[r][s] = from
         /\ \A q \in Requests, p \in Streams :
              task'[q][p] = IF q = r /\ p = s THEN to ELSE task[q][p]
         /\ to \in Stages => task' \in [Requests -> [Streams -> Stages]]
BY DEF TypeOK, Move

\* A step of a handler that neither begins nor activates, and has its own
\* effect on the objects, preserves the invariant.
LEMMA HandlerMoves ==
  ASSUME IInv, NEW r \in Requests, NEW s \in Streams, NEW from, NEW to,
         Move(r, s, from, to), from \notin {"none", "done"}, to \in Stages \ {"none", "sent"},
         from = "sent" => run = "serving",
         UNCHANGED <<scene, hostVars, run, session, opened, channel, live, pend, stray, breaks>>,
         closed' \subseteq 1 .. opened,
         active' \in [Actors -> {NoObject} \cup Tasks],
         \A a \in Actors :
           \/ active'[a] \in {active[a], NoObject}
           \/ active'[a] = <<r, s>> /\ from = "activating" /\ a = ActorOf(r),
         to = "activating" => /\ ActorOf(r) \in Actors
                              /\ active'[ActorOf(r)] = NoObject
  PROVE  IInv'
<1> USE DEF IInv
<1>1. /\ task[r][s] = from /\ task' \in [Requests -> [Streams -> Stages]]
      /\ \A q \in Requests, p \in Streams :
           task'[q][p] = IF q = r /\ p = s THEN to ELSE task[q][p]
  BY Moved
<1>2. TypeOK'
  BY <1>1 DEF TypeOK, hostVars
<1>3. RunInv'
  <2>1. stopping /\ stopper = "idle" => Pending' = {}
    <3> SUFFICES ASSUME stopping, stopper = "idle" PROVE Pending' = {}
      OBVIOUS
    <3>1. Pending = {}
      BY DEF RunInv
    <3>2. from = "sent" /\ run = "serving"
      <4>1. <<r, s>> \in Tasks /\ <<r, s>> \notin Pending
        BY <3>1 DEF Tasks
      <4> QED
        BY <4>1, <1>1 DEF Pending, Stage
    <3> QED
      BY <3>2 DEF RunInv, Running
  <2> QED
    BY <2>1 DEF RunInv, hostVars
<1>4. \A q \in Requests, p \in Streams : Open(q, p)' => Open(q, p)
  BY <1>1 DEF Open
<1>5. PendInv'
  <2>1. ASSUME NEW q \in Requests, NEW p \in Streams, p > opened PROVE task'[q][p] = "none"
    BY <1>1, <2>1 DEF PendInv
  <2> QED
    BY <1>4, <2>1 DEF PendInv
<1>6. TurnInv'
  <2> SUFFICES ASSUME NEW q \in Requests, NEW p \in Streams
               PROVE  /\ \A q2 \in Requests :
                           Open(q, p)' /\ Open(q2, p)' /\ ActorOf(q2)' = ActorOf(q)' => q2 = q
                      /\ task'[q][p] = "activating" =>
                           /\ ActorOf(q)' \in Actors
                           /\ \/ active'[ActorOf(q)'] = NoObject
                              \/ active'[ActorOf(q)'][2] # p
    BY DEF TurnInv
  <2>1. \A q2 \in Requests : ActorOf(q2)' = ActorOf(q2)
    BY DEF ActorOf
  <2>2. \A q2 \in Requests :
          Open(q, p)' /\ Open(q2, p)' /\ ActorOf(q2)' = ActorOf(q)' => q2 = q
    BY <1>4, <2>1 DEF TurnInv
  <2>3. ASSUME task'[q][p] = "activating"
        PROVE  /\ ActorOf(q) \in Actors
               /\ active'[ActorOf(q)] = NoObject \/ active'[ActorOf(q)][2] # p
    <3>1. CASE q = r /\ p = s
      BY <3>1, <2>3, <1>1
    <3>2. CASE ~(q = r /\ p = s)
      <4>1. task[q][p] = "activating"
        BY <3>2, <2>3, <1>1
      <4>2. /\ ActorOf(q) \in Actors
            /\ active[ActorOf(q)] = NoObject \/ active[ActorOf(q)][2] # p
        BY <4>1 DEF TurnInv
      <4>3. CASE active'[ActorOf(q)] \in {active[ActorOf(q)], NoObject}
        BY <4>2, <4>3
      <4>4. CASE active'[ActorOf(q)] \notin {active[ActorOf(q)], NoObject}
        <5>1. active'[ActorOf(q)] = <<r, s>> /\ ActorOf(q) = ActorOf(r) /\ from = "activating"
          BY <4>2, <4>4
        <5>2. p # s
          <6>1. Open(q, p) /\ Open(r, s)
            BY <4>1, <5>1, <1>1 DEF Open
          <6> QED
            BY <6>1, <5>1, <3>2 DEF TurnInv
        <5> QED
          BY <5>1, <5>2, <4>2
      <4> QED
        BY <4>3, <4>4
    <3> QED
      BY <3>1, <3>2
  <2> QED
    BY <2>1, <2>2, <2>3
<1>7. NoStrayReply'
  BY DEF NoStrayReply
<1> QED
  BY <1>2, <1>3, <1>5, <1>6, <1>7

\* The handlers up to the reply preserve the invariant.
LEMMA HandlerInv ==
  ASSUME IInv, Receive \/ Handle \/ Activated \/ Acted \/ StartsToWrite
  PROVE  IInv'
<1>1. /\ UNCHANGED <<scene, hostVars, run, session, opened, channel, live, pend, stray, breaks>>
      /\ closed' \subseteq 1 .. opened
  BY DEF Receive, Handle, Activated, Acted, StartsToWrite, streamVars, sidecarVars, IInv, TypeOK
<1>2. active \in [Actors -> {NoObject} \cup Tasks]
  BY DEF IInv, TypeOK
<1>3. CASE Receive
  <2>1. session \in Streams
    BY <1>3, HostAssumption DEF Receive, IInv, RunInv, TypeOK, Streams
  <2>2. PICK r \in Requests : run = "serving" /\ Move(r, session, "sent", "arrived")
    BY <1>3 DEF Receive
  <2>3. UNCHANGED active
    BY <1>3 DEF Receive
  <2> QED
    BY <1>1, <1>2, <2>1, <2>2, <2>3, HandlerMoves DEF Stages
<1>4. CASE Handle
  <2>1. PICK r \in Requests, s \in Streams :
          IF ActorOf(r) = Unhosted THEN Move(r, s, "arrived", "replying") /\ UNCHANGED active
          ELSE IF scene.kind[r] = "deactivate"
          THEN /\ Move(r, s, "arrived",
                       IF active[ActorOf(r)] = NoObject THEN "replying" ELSE "acting")
               /\ active' = [active EXCEPT ![ActorOf(r)] = NoObject]
          ELSE /\ Move(r, s, "arrived",
                       IF MustActivate(ActorOf(r)) THEN "activating" ELSE "acting")
               /\ UNCHANGED active
    BY <1>4 DEF Handle
  <2>2. ActorOf(r) \in Actors \cup {Unhosted}
    BY HostAssumption DEF IInv, TypeOK, ActorOf
  <2>3. CASE ActorOf(r) = Unhosted
    BY <1>1, <1>2, <2>1, <2>3, HandlerMoves DEF Stages
  <2>4. CASE ActorOf(r) # Unhosted /\ scene.kind[r] = "deactivate"
    <3>1. PICK to \in {"replying", "acting"} : Move(r, s, "arrived", to)
      BY <2>1, <2>4
    <3>2. active' \in [Actors -> {NoObject} \cup Tasks]
      BY <1>2, <2>1, <2>4
    <3>3. \A a \in Actors : active'[a] \in {active[a], NoObject}
      BY <1>2, <2>1, <2>4
    <3> QED
      BY <1>1, <3>1, <3>2, <3>3, HandlerMoves DEF Stages
  <2>5. CASE ActorOf(r) # Unhosted /\ scene.kind[r] # "deactivate"
    <3>1. PICK to \in {"activating", "acting"} :
            /\ Move(r, s, "arrived", to) /\ UNCHANGED active
            /\ to = "activating" => active[ActorOf(r)] = NoObject
      BY <2>1, <2>5 DEF MustActivate
    <3> QED
      BY <1>1, <1>2, <2>2, <2>5, <3>1, HandlerMoves DEF Stages
  <2> QED
    BY <2>3, <2>4, <2>5
<1>5. CASE Activated
  <2>1. PICK r \in Requests, s \in Streams :
          \/ /\ Move(r, s, "activating", "acting")
             /\ active' = [active EXCEPT ![ActorOf(r)] = <<r, s>>]
          \/ Move(r, s, "activating", "replying") /\ UNCHANGED active
    BY <1>5 DEF Activated
  <2>2. PICK to \in {"acting", "replying"} : Move(r, s, "activating", to)
    BY <2>1
  <2>3. active' \in [Actors -> {NoObject} \cup Tasks]
    BY <1>2, <2>1 DEF Tasks
  <2>4. \A a \in Actors : \/ active'[a] = active[a]
                          \/ active'[a] = <<r, s>> /\ a = ActorOf(r)
    BY <1>2, <2>1
  <2> QED
    BY <1>1, <2>2, <2>3, <2>4, HandlerMoves DEF Stages
<1>6. CASE Acted
  BY <1>1, <1>2, <1>6, HandlerMoves DEF Acted, Stages
<1>7. CASE StartsToWrite
  <2>1. PICK r \in Requests, s \in Streams, to \in {"done", "writing"} :
          Move(r, s, "replying", to) /\ UNCHANGED active
    BY <1>7 DEF StartsToWrite
  <2> QED
    BY <1>1, <1>2, <2>1, HandlerMoves DEF Stages
<1> QED
  BY <1>3, <1>4, <1>5, <1>6, <1>7

\* The reply of a handler, which the sidecar expects if it comes.
LEMMA WrittenInv ==
  ASSUME IInv, Written
  PROVE  IInv'
<1> USE DEF IInv
<1>1. PICK r \in Requests, s \in Streams :
        /\ Move(r, s, "writing", "done")
        /\ IF s \in live
           THEN /\ stray' = (stray \/ pend[r] # s)
                /\ pend' = IF pend[r] = s THEN [pend EXCEPT ![r] = Done] ELSE pend
                /\ UNCHANGED closed
           ELSE closed' = closed \cup ({s} \ {0}) /\ UNCHANGED <<stray, pend>>
  BY DEF Written, ReplySession
<1>2. UNCHANGED <<scene, hostVars, run, session, opened, channel, active, live, breaks>>
  BY DEF Written
<1>3. active \in [Actors -> {NoObject} \cup Tasks]
  BY DEF TypeOK
<1>4. CASE s \notin live
  <2>1. s <= opened
    <3>1. task[r][s] # "none"
      BY <1>1 DEF Move
    <3> QED
      BY <3>1, HostAssumption DEF PendInv, TypeOK, Streams
  <2>2. closed' \subseteq 1 .. opened
    <3>1. s \in 1 .. opened
      BY <2>1, HostAssumption DEF TypeOK, Streams
    <3> QED
      BY <1>1, <1>4, <3>1 DEF TypeOK
  <2> QED
    BY <1>1, <1>2, <1>3, <1>4, <2>2, HandlerMoves DEF Stages
<1>5. CASE s \in live
  <2>1. task[r][s] = "writing" /\ pend[r] = s
    BY <1>1, <1>5 DEF Move, PendInv, Open
  <2>2. stray' = FALSE /\ pend' = [pend EXCEPT ![r] = Done] /\ closed' = closed
    BY <1>1, <1>5, <2>1 DEF NoStrayReply
  <2>3. /\ task' \in [Requests -> [Streams -> Stages]]
        /\ \A q \in Requests, p \in Streams :
             task'[q][p] = IF q = r /\ p = s THEN "done" ELSE task[q][p]
    BY <1>1, Moved DEF Stages
  <2>4. TypeOK'
    <3>1. pend' \in [Requests -> 0 .. Done]
      BY <2>2, HostAssumption DEF TypeOK, Done
    <3> QED
      BY <1>2, <2>2, <2>3, <3>1 DEF TypeOK, hostVars
  <2>5. Pending' \subseteq Pending
    BY <2>3 DEF Pending, Stage, Tasks
  <2>6. RunInv'
    BY <1>2, <2>5 DEF RunInv, hostVars
  <2>7. \A q \in Requests, p \in Streams : Open(q, p)' => Open(q, p) /\ ~(q = r /\ p = s)
    BY <2>3 DEF Open
  <2>8. PendInv'
    <3>1. ASSUME NEW q \in Requests, NEW p \in Streams, Open(q, p)', p \in live PROVE pend'[q] = p
      <4>1. pend[q] = p /\ ~(q = r /\ p = s)
        BY <2>7, <3>1 DEF PendInv
      <4> QED
        BY <4>1, <2>1, <2>2 DEF TypeOK
    <3>2. ASSUME NEW q \in Requests, NEW p \in Streams, p > opened PROVE task'[q][p] = "none"
      BY <2>1, <2>3, <3>2 DEF PendInv
    <3> QED
      BY <1>2, <3>1, <3>2 DEF PendInv
  <2>9. TurnInv'
    BY <1>2, <2>3, <2>7 DEF TurnInv, ActorOf
  <2> QED
    BY <2>2, <2>4, <2>6, <2>8, <2>9 DEF NoStrayReply
<1> QED
  BY <1>4, <1>5

\* The sidecar sends a callback, when the actor has no other.
LEMMA SendInv ==
  ASSUME IInv, Send
  PROVE  IInv'
<1> USE DEF IInv
<1>1. PICK r \in Requests, s \in live :
        /\ run = "serving" /\ s = session /\ pend[r] = 0
        /\ \A q \in Requests : ActorOf(q) = ActorOf(r) => pend[q] \in {0, Done}
        /\ Move(r, s, "none", "sent") /\ pend' = [pend EXCEPT ![r] = s]
  BY DEF Send
<1>2. UNCHANGED <<scene, hostVars, streamVars, active, live, stray, breaks>>
  BY DEF Send
<1>3. s \in Streams /\ s <= opened /\ s # 0 /\ s # Done
  BY <1>1, HostAssumption DEF TypeOK, Streams, Done
<1>4. /\ task[r][s] = "none" /\ task' \in [Requests -> [Streams -> Stages]]
      /\ \A q \in Requests, p \in Streams :
           task'[q][p] = IF q = r /\ p = s THEN "sent" ELSE task[q][p]
  BY <1>1, <1>3, Moved DEF Stages
<1>5. TypeOK'
  <2>1. pend' \in [Requests -> 0 .. Done]
    BY <1>1, <1>3, HostAssumption DEF TypeOK, Done, Streams
  <2> QED
    BY <1>2, <1>4, <2>1 DEF TypeOK, hostVars, streamVars
<1>6. RunInv'
  <2>1. Pending' = Pending
    BY <1>4 DEF Pending, Stage, Tasks
  <2> QED
    BY <1>2, <2>1 DEF RunInv, hostVars, streamVars
<1>7. \A q \in Requests, p \in Streams : Open(q, p)' => Open(q, p) \/ (q = r /\ p = s)
  BY <1>4 DEF Open
<1>8. PendInv'
  <2>1. ASSUME NEW q \in Requests, NEW p \in Streams, Open(q, p)', p \in live PROVE pend'[q] = p
    <3>1. CASE q = r /\ p = s
      BY <3>1, <1>1 DEF TypeOK
    <3>2. CASE ~(q = r /\ p = s)
      <4>1. pend[q] = p
        BY <3>2, <2>1, <1>7 DEF PendInv
      <4>2. p # 0
        BY HostAssumption DEF Streams
      <4> QED
        BY <4>1, <4>2, <1>1 DEF TypeOK
    <3> QED
      BY <3>1, <3>2
  <2>2. ASSUME NEW q \in Requests, NEW p \in Streams, p > opened PROVE task'[q][p] = "none"
    BY <1>3, <1>4, <2>2 DEF PendInv, TypeOK, Streams
  <2> QED
    BY <1>2, <2>1, <2>2 DEF PendInv, streamVars
<1>9. TurnInv'
  <2>1. ASSUME NEW q \in Requests, ActorOf(q) = ActorOf(r) PROVE ~Open(q, s)
    <3>1. pend[q] \in {0, Done}
      BY <1>1, <2>1
    <3> QED
      BY <1>1, <1>3, <3>1 DEF PendInv
  <2>2. ASSUME NEW q \in Requests, NEW p \in Streams, NEW q2 \in Requests,
               Open(q, p)', Open(q2, p)', ActorOf(q2) = ActorOf(q)
        PROVE  q2 = q
    BY <2>1, <2>2, <1>7 DEF TurnInv
  <2>3. \A q \in Requests, p \in Streams :
          task'[q][p] = "activating" => task[q][p] = "activating"
    BY <1>4
  <2>4. \A q \in Requests : ActorOf(q)' = ActorOf(q)
    BY <1>2 DEF ActorOf
  <2> QED
    BY <1>2, <2>2, <2>3, <2>4 DEF TurnInv
<1>10. NoStrayReply'
  BY <1>2 DEF NoStrayReply
<1> QED
  BY <1>5, <1>6, <1>8, <1>9, <1>10

\* The drain timeout ends handlers.
LEMMA DrainInv ==
  ASSUME IInv, DrainTimeout
  PROVE  IInv'
<1> USE DEF IInv
<1>1. UNCHANGED <<scene, hostVars, streamVars, active, sidecarVars>>
  BY DEF DrainTimeout
<1>2. /\ task' \in [Requests -> [Streams -> Stages]]
      /\ \A q \in Requests, p \in Streams :
           task'[q][p] = IF <<q, p>> \in Pending THEN "done" ELSE task[q][p]
  BY DEF DrainTimeout, StageAfterDrain, TypeOK, Stages
<1>3. TypeOK'
  BY <1>1, <1>2 DEF TypeOK, hostVars, streamVars, sidecarVars
<1>4. Pending' \subseteq Pending
  BY <1>2 DEF Pending, Stage, Tasks
<1>5. RunInv'
  BY <1>1, <1>4 DEF RunInv, hostVars, streamVars
<1>6. \A q \in Requests, p \in Streams :
        (Open(q, p)' => Open(q, p)) /\ (task[q][p] = "none" => task'[q][p] = "none")
  BY <1>2 DEF Open, Pending, Stage
<1>7. PendInv'
  BY <1>1, <1>6 DEF PendInv, streamVars, sidecarVars
<1>8. TurnInv'
  BY <1>1, <1>2, <1>6 DEF TurnInv, ActorOf
<1>9. NoStrayReply'
  BY <1>1 DEF NoStrayReply, sidecarVars
<1> QED
  BY <1>3, <1>5, <1>7, <1>8, <1>9

----------------------------------------------------------------------------
(* The theorems.                                                           *)

\* The variables of the host always have their types, and sessions, handlers
\* and what the sidecar expects agree, whenever streams break and start() and
\* stop() are called.
THEOREM Invariance == Spec => []IInv
<1>1. IInv /\ [Next]_vars => IInv'
  <2> SUFFICES ASSUME IInv, [Next]_vars PROVE IInv'
    OBVIOUS
  <2>1. CASE Next
    BY <2>1, HostInv, EndsInv, ConnectInv, HandlerInv, WrittenInv, SendInv, DrainInv
    DEF Next, Host, Session, Handler
  <2>2. CASE UNCHANGED vars
    <3> USE <2>2 DEF vars, hostVars, streamVars, sidecarVars
    <3>1. PendInv' /\ TurnInv' /\ NoStrayReply' /\ Pending' = Pending
      BY CallbacksKept
    <3>2. TypeOK'
      BY DEF IInv, TypeOK
    <3>3. RunInv'
      BY <3>1 DEF IInv, RunInv
    <3> QED
      BY <3>1, <3>2, <3>3 DEF IInv
  <2> QED
    BY <2>1, <2>2
<1> QED
  BY <1>1, InitInv, PTL DEF Spec

\* No reply comes on a stream on which the sidecar has not sent the callback,
\* or no longer waits for it, however handlers outlive their streams.
THEOREM RepliesExpected == Spec => []NoStrayReply
<1>1. IInv => NoStrayReply
  BY DEF IInv
<1> QED
  BY <1>1, Invariance, PTL

\* When stop() has returned, the run task has ended, no session is open and
\* no handler runs.
THEOREM StopIsComplete == Spec => []StopLeavesNothing
<1>1. IInv => StopLeavesNothing
  BY DEF IInv, RunInv, StopLeavesNothing, Running
<1> QED
  BY <1>1, Invariance, PTL

\* An active actor is replaced only after its deactivation, or by a handler
\* of another stream than the one that activated it.
THEOREM ActorsPersist == Spec => ObjectsPersist
<1>1. IInv /\ [Next]_vars =>
        [\A a \in Actors :
           active'[a] # active[a] =>
             \/ NoObject \in {active[a], active'[a]}
             \/ active[a][2] # active'[a][2]]_vars
  <2> SUFFICES ASSUME IInv, Next, NEW a \in Actors, active'[a] # active[a]
               PROVE  \/ NoObject \in {active[a], active'[a]}
                      \/ active[a][2] # active'[a][2]
    OBVIOUS
  <2>1. active' # active
    OBVIOUS
  <2>2. Handle \/ Activated
    BY <2>1 DEF Next, Host, Session, Handler, Start, Stop, StartReturns, StartCloses, RunTaskDone,
            StopJoined, StopReturns, DrainTimeout, Connect, Acknowledged, Recover, Receive,
            StartsToWrite, Written, Acted, Disconnect, StreamFails, Send
  <2>3. active \in [Actors -> {NoObject} \cup Tasks]
    BY DEF IInv, TypeOK
  <2>4. CASE Handle
    BY <2>1, <2>3, <2>4 DEF Handle
  <2>5. CASE Activated
    <3>1. PICK r \in Requests, s \in Streams :
            /\ task[r][s] = "activating"
            /\ active' = [active EXCEPT ![ActorOf(r)] = <<r, s>>]
      BY <2>1, <2>5 DEF Activated, Move
    <3>2. a = ActorOf(r) /\ active'[a] = <<r, s>>
      BY <2>3, <3>1
    <3>3. active[a] = NoObject \/ active[a][2] # s
      BY <3>1, <3>2 DEF IInv, TurnInv
    <3> QED
      BY <3>2, <3>3
  <2> QED
    BY <2>2, <2>4, <2>5
<1> QED
  BY <1>1, Invariance, PTL DEF Spec, ObjectsPersist

\* start() returns only when the sidecar has acknowledged the registration, or
\* stop() was called, if no stream ends with status CANCELLED: one that does
\* ends the run task without an error, and start() then returns unregistered.
THEOREM StartRegistered ==
  ASSUME \A sc \in Scenes : "cancelled" \notin sc.ends
  PROVE  Spec => StartMeansRegistered
<1> DEFINE Unclean == scene \in Scenes /\ run # "clean"
<1>1. Init => Unclean
  BY DEF Init
<1>2. Unclean /\ [Next]_vars => Unclean'
  <2> SUFFICES ASSUME Unclean, [Next]_vars PROVE Unclean'
    OBVIOUS
  <2>1. scene' = scene
    BY DEF Next, Host, Session, Handler, Start, Stop, StartReturns, StartCloses, RunTaskDone,
           StopJoined, StopReturns, DrainTimeout, Connect, Acknowledged, Recover, Receive,
           Handle, Activated, StartsToWrite, Written, Acted, Disconnect, StreamFails, Send, vars
  <2>2. CASE StreamFails
    BY <2>1, <2>2 DEF StreamFails
  <2>3. CASE Recover
    BY <2>1, <2>3 DEF Recover
  <2>4. CASE Start \/ Stop \/ Host \/ Connect \/ Acknowledged \/ Receive
    BY <2>1, <2>4 DEF Host, Start, Stop, StartReturns, StartCloses, RunTaskDone, StopJoined,
           StopReturns, DrainTimeout, Connect, Acknowledged, Receive, streamVars
  <2>5. CASE Handler \/ Acted \/ Disconnect \/ Send \/ UNCHANGED vars
    BY <2>1, <2>5 DEF Handler, Handle, Activated, StartsToWrite, Written, Acted, Disconnect, Send,
           streamVars, vars
  <2> QED
    BY <2>2, <2>3, <2>4, <2>5 DEF Next, Session
<1>3. Unclean /\ [Next]_vars =>
        [outcome' = "returned" /\ outcome # "returned" => registered \/ stopping]_vars
  <2> SUFFICES ASSUME Unclean, Next, outcome' = "returned", outcome # "returned"
               PROVE  registered
    OBVIOUS
  <2>1. StartReturns
    BY DEF Next, Host, Session, Handler, Start, Stop, StartCloses, RunTaskDone, StopJoined,
           StopReturns, DrainTimeout, Connect, Acknowledged, Recover, Receive, Handle, Activated,
           StartsToWrite, Written, Acted, Disconnect, StreamFails, Send, hostVars
  <2> QED
    BY <2>1 DEF StartReturns, StartEnds
<1> QED
  BY <1>1, <1>2, <1>3, PTL DEF Spec, StartMeansRegistered

----------------------------------------------------------------------------
(* The servers of an application: invariants.                              *)

Registrations ==
  [topic: Topics, cb: Handlers \cup {Nothing}, rule: Rules \cup {Nothing}, unchecked: BOOLEAN]
TopicRules == [match: Matches, priority: Priorities, path: STRING]
TopicSubs == [topic: Topics, rules: Seq(TopicRules), default: STRING \cup {NoPath}]

AppTypes ==
  /\ server \in {"grpc", "flask", "fastapi"}
  /\ taken \in Seq(Registrations) /\ topics \in Seq(TopicSubs)
  /\ listed \in [subs: Seq(TopicSubs), taken: Seq(Registrations)]
  /\ routes \in Seq([route: Topics, cb: Handlers])
  /\ subscriptions \in Seq([topic: Topics, route: Topics, cb: Handlers])

\* The key of a registration in _topic_map; a second one is refused.
Key(x) == <<x.topic, PathFor(x.cb, x.rule)>>
KeysDiffer(T) == \A i, j \in DOMAIN T : Key(T[i]) = Key(T[j]) => i = j

\* The tables hold what was registered; of a route, what was last.
TablesOK ==
  /\ \A i \in DOMAIN taken : /\ Key(taken[i]) \in DOMAIN topic_map
                             /\ topic_map[Key(taken[i])] = taken[i].cb
                             /\ Route(taken[i]) \in DOMAIN route_map
  /\ \A k \in DOMAIN topic_map : \E i \in DOMAIN taken : k = Key(taken[i])
  /\ \A p \in DOMAIN route_map :
       \E i \in DOMAIN taken : p = Route(taken[i]) /\ route_map[p] = taken[i].cb

\* Registration x made the rule r of topic t.
Makes(x, t, r) == x.topic = t /\ x.rule # Nothing /\ r = NewRule(x.cb, x.rule)

Sorted(rules) ==
  \A q, r \in DOMAIN rules : q < r => rules[q].priority <= rules[r].priority

\* Rules of one priority are in the order of their registrations.
Stable(rules, t, T) ==
  \A q, r \in DOMAIN rules : \A i, j \in DOMAIN T :
    q < r /\ rules[q].priority = rules[r].priority
      /\ Makes(T[i], t, rules[q]) /\ Makes(T[j], t, rules[r]) => i < j

\* The rules of a topic are those of its registrations.
RulesOK(rules, t, T) ==
  /\ \A q \in DOMAIN rules : \E i \in DOMAIN T : Makes(T[i], t, rules[q])
  /\ \A i \in DOMAIN T : T[i].topic = t /\ T[i].rule # Nothing =>
       \E q \in DOMAIN rules : Makes(T[i], t, rules[q])
  /\ Sorted(rules) /\ Stable(rules, t, T)

SubsOK(subs, T) ==
  /\ \A k \in DOMAIN subs : /\ subs[k].default \in {subs[k].topic, NoPath}
                            /\ RulesOK(subs[k].rules, subs[k].topic, T)
  /\ \A i \in DOMAIN T : \E k \in DOMAIN subs : subs[k].topic = T[i].topic

\* What the sidecar lists was registered before it asked.
ListedOK ==
  /\ SubsOK(listed.subs, listed.taken)
  /\ \A i \in DOMAIN listed.taken : i \in DOMAIN taken /\ taken[i] = listed.taken[i]

\* Flask has one function per route, and FastAPI has that of a subscription.
RoutesOK ==
  /\ server = "grpc" => subscriptions = <<>>
  /\ server = "flask" => \A i, j \in DOMAIN routes :
                           routes[i].route = routes[j].route => routes[i].cb = routes[j].cb
  /\ \A i \in DOMAIN subscriptions : \E j \in DOMAIN routes :
       routes[j].route = subscriptions[i].route /\ routes[j].cb = subscriptions[i].cb

AppInv ==
  AppTypes /\ KeysDiffer(taken) /\ TablesOK /\ SubsOK(topics, taken) /\ ListedOK /\ RoutesOK

----------------------------------------------------------------------------
(* The servers of an application: proofs.                                  *)

(* The least number of a set that is not empty.                            *)
LEMMA LeastNumber ==
  ASSUME NEW S, S \subseteq Nat, S # {}
  PROVE  Min(S) \in S /\ \A y \in S : Min(S) <= y
<1> DEFINE R == OpToRel(<, Nat)
<1>1. IsWellFoundedOn(R, Nat)
  BY NatLessThanWellFounded
<1>2. \A x, y \in Nat : x < y => <<x, y>> \in R
  BY DEF OpToRel
<1> HIDE DEF R
<1>3. PICK x \in S : \A y \in S : ~(<<y, x>> \in R)
  BY <1>1, WFMin
<1>4. ASSUME NEW y \in S PROVE x <= y
  <2>1. x \in Nat /\ y \in Nat /\ ~(y < x)
    BY <1>2, <1>3
  <2> QED BY <2>1
<1> QED BY <1>4 DEF Min

\* Where the stable sort puts a new rule.
Place(rules, p, k) ==
  /\ \A i \in 1 .. k : rules[i].priority <= p
  /\ \A i \in k + 1 .. Len(rules) : rules[i].priority > p

LEMMA PlaceExists ==
  ASSUME NEW rules \in Seq(TopicRules), Sorted(rules), NEW p \in Priorities
  PROVE  \E k \in 0 .. Len(rules) : Place(rules, p, k)
<1> DEFINE S == {i \in DOMAIN rules : rules[i].priority > p}
<1>0. /\ Len(rules) \in Nat /\ DOMAIN rules = 1 .. Len(rules) /\ p \in Int
      /\ \A i \in DOMAIN rules : rules[i].priority \in Int
  <2>1. Len(rules) \in Nat /\ DOMAIN rules = 1 .. Len(rules)
    BY LenProperties
  <2>2. \A i \in DOMAIN rules : rules[i] \in TopicRules
    BY <2>1, ElementOfSeq
  <2>3. \A x \in TopicRules : x.priority \in Int
    BY AppAssumption DEF TopicRules
  <2> QED BY <2>1, <2>2, <2>3, AppAssumption
<1>1. CASE S = {}
  <2>1. Place(rules, p, Len(rules))
    BY <1>0, <1>1 DEF Place
  <2> QED BY <1>0, <2>1
<1>2. CASE S # {}
  <2>1. PICK m : m = Min(S)
    OBVIOUS
  <2>2. m \in S /\ \A y \in S : m <= y
    <3>1. S \subseteq Nat
      BY <1>0
    <3> QED BY <1>2, <2>1, <3>1, LeastNumber
  <2>3. m \in 1 .. Len(rules) /\ m - 1 \in 0 .. Len(rules)
    BY <1>0, <2>2
  <2>4. \A i \in 1 .. m - 1 : rules[i].priority <= p
    <3> TAKE i \in 1 .. m - 1
    <3>1. i \in DOMAIN rules /\ ~(m <= i)
      BY <1>0, <2>3
    <3>2. i \notin S
      BY <2>2, <3>1
    <3> QED BY <1>0, <3>1, <3>2
  <2>5. \A i \in (m - 1) + 1 .. Len(rules) : rules[i].priority > p
    <3> TAKE i \in (m - 1) + 1 .. Len(rules)
    <3>1. i \in DOMAIN rules /\ m \in DOMAIN rules /\ (m = i \/ m < i)
      BY <1>0, <2>3
    <3>2. rules[m].priority > p
      BY <2>2
    <3>3. rules[m].priority <= rules[i].priority
      BY <1>0, <3>1 DEF Sorted
    <3> QED BY <1>0, <3>1, <3>2, <3>3
  <2> QED BY <2>3, <2>4, <2>5 DEF Place
<1> QED BY <1>1, <1>2

\* s is the list rules with r put in after the first k.
PutIn(s, rules, r, k) ==
  /\ s \in Seq(TopicRules) /\ DOMAIN s = 1 .. Len(rules) + 1
  /\ \A q \in 1 .. k : s[q] = rules[q]
  /\ s[k + 1] = r
  /\ \A q \in k + 2 .. Len(rules) + 1 : s[q] = rules[q - 1]

(* Insert puts a rule in its place.                                        *)
LEMMA Inserted ==
  ASSUME NEW rules \in Seq(TopicRules), Sorted(rules), NEW r \in TopicRules
  PROVE  \E k \in 0 .. Len(rules) :
           Place(rules, r.priority, k) /\ PutIn(Insert(rules, r), rules, r, k)
<1>1. r.priority \in Priorities
  BY DEF TopicRules
<1>2. PICK k \in 0 .. Len(rules) : 
        /\ Place(rules, r.priority, k)
        /\ k = CHOOSE k0 \in 0 .. Len(rules) : Place(rules, r.priority, k0)
  BY <1>1, PlaceExists
<1>3. Insert(rules, r) = SubSeq(rules, 1, k) \o <<r>> \o SubSeq(rules, k + 1, Len(rules))
  BY <1>2, Zenon DEF Insert, Place
<1>4. PICK n \in Nat : n = Len(rules) /\ k \in 0 .. n
  BY LenProperties
<1>5. PICK a : a = SubSeq(rules, 1, k)
  OBVIOUS
<1>6. PICK c : c = SubSeq(rules, k + 1, Len(rules))
  OBVIOUS
<1>16. a \in Seq(TopicRules) /\ Len(a) = k /\ \A q \in 1 .. k : a[q] = rules[q]
  <2>1. \A i \in 1 .. k : i \in 1 .. Len(rules) /\ rules[i] \in TopicRules
    BY <1>4, LenProperties, ElementOfSeq
  <2> QED BY <1>4, <1>5, <2>1, SubSeqProperties
<1>17. c \in Seq(TopicRules) /\ Len(c) = n - k /\ \A q \in 1 .. n - k : c[q] = rules[k + q]
  <2>1. \A i \in k + 1 .. n : i \in 1 .. Len(rules) /\ rules[i] \in TopicRules
    BY <1>4, LenProperties, ElementOfSeq
  <2>2. k + 1 \in Int /\ n \in Int
    BY <1>4
  <2>3. /\ c \in Seq(TopicRules)
        /\ Len(c) = IF k + 1 <= n THEN n - (k + 1) + 1 ELSE 0
        /\ \A q \in 1 .. n - (k + 1) + 1 : c[q] = rules[(k + 1) + q - 1]
    BY <1>4, <1>6, <2>1, <2>2, SubSeqProperties
  <2>4. n - (k + 1) + 1 = n - k /\ \A q \in Int : (k + 1) + q - 1 = k + q
    BY <1>4
  <2>5. \A q \in 1 .. n - k : c[q] = rules[k + q]
    BY <2>3, <2>4
  <2> QED BY <1>4, <2>3, <2>4, <2>5
<1>7. PICK b \in Seq(TopicRules) : b = Append(a, r)
  BY <1>16, AppendProperties
<1>18. Len(b) = k + 1 /\ \A q \in 1 .. k : b[q] = rules[q]
  BY <1>4, <1>7, <1>16
<1>8. PICK s \in Seq(TopicRules) : s = b \o c
  BY <1>7, <1>17, ConcatProperties
<1>9. /\ Len(s) = n + 1
      /\ \A q \in 1 .. k + 1 : s[q] = b[q]
      /\ \A q \in k + 2 .. n + 1 : s[q] = c[q - (k + 1)]
  BY <1>4, <1>8, <1>17, <1>18, ConcatProperties
<1>10. DOMAIN s = 1 .. n + 1
  BY <1>8, <1>9, LenProperties
<1>11. b[k + 1] = r
  BY <1>4, <1>7, <1>16
<1>12. \A q \in k + 2 .. n + 1 : s[q] = rules[q - 1]
  <2> TAKE q \in k + 2 .. n + 1
  <2>1. q - (k + 1) \in 1 .. n - k /\ k + (q - (k + 1)) = q - 1
    BY <1>4
  <2> QED BY <1>9, <1>17, <2>1
<1>13. PutIn(s, rules, r, k)
  <2>1. \A q \in 1 .. k : q \in 1 .. k + 1
    BY <1>4
  <2>2. k + 1 \in 1 .. k + 1
    BY <1>4
  <2>3. \A q \in 1 .. k : s[q] = rules[q]
    BY <1>9, <1>18, <2>1
  <2>4. s[k + 1] = r
    BY <1>9, <1>11, <2>2
  <2> QED BY <1>4, <1>10, <1>12, <2>3, <2>4 DEF PutIn
<1>14. s = Insert(rules, r)
  <2>1. a \o <<r>> = Append(a, r)
    BY <1>16, SMT
  <2> QED BY <1>3, <1>5, <1>6, <1>7, <1>8, <2>1
<1> QED BY <1>2, <1>13, <1>14

(* A registration is a topic, a handler and perhaps a rule.                *)
LEMMA RegistrationFields ==
  ASSUME NEW x \in Registrations
  PROVE  /\ x.topic \in Topics /\ x.topic # NoPath /\ x.cb \in Handlers \cup {Nothing}
         /\ x.rule # Nothing =>
              /\ x.rule \in Rules /\ NewRule(x.cb, x.rule) \in TopicRules
              /\ PathFor(x.cb, x.rule) = RulePath(x.cb, x.rule)
              /\ RulePath(x.cb, x.rule) # NoPath
         /\ x.rule = Nothing => PathFor(x.cb, x.rule) = NoPath
<1>1. /\ x.topic \in Topics /\ x.topic # NoPath /\ x.cb \in Handlers \cup {Nothing}
      /\ x.rule \in Rules \cup {Nothing}
  BY AppAssumption DEF Registrations
<1>2. ASSUME x.rule # Nothing
      PROVE  /\ NewRule(x.cb, x.rule) \in TopicRules
             /\ RulePath(x.cb, x.rule) # NoPath
  <2>1. /\ x.rule.match \in Matches /\ x.rule.match \in STRING /\ x.rule.match # NoPath
        /\ x.rule.priority \in Priorities
    BY <1>1, <1>2, AppAssumption DEF Rules
  <2>2. RulePath(x.cb, x.rule) \in STRING /\ RulePath(x.cb, x.rule) # NoPath
    <3>1. CASE x.cb = Nothing
      BY <2>1, <3>1 DEF RulePath
    <3>2. CASE x.cb # Nothing
      BY <1>1, <3>2, AppAssumption DEF RulePath
    <3> QED BY <3>1, <3>2
  <2> QED BY <2>1, <2>2 DEF NewRule, TopicRules
<1> QED BY <1>1, <1>2 DEF PathFor

\* The rules that match an event, the registrations with such a rule, and
\* those of the best priority among registrations.
RulesFor(rules, kind) == {q \in DOMAIN rules : rules[q].match = kind}
RegsFor(T, t, kind) ==
  {i \in DOMAIN T : T[i].topic = t /\ T[i].rule # Nothing /\ T[i].rule.match = kind}
BestOf(T, regs) ==
  {i \in regs : \A j \in regs : T[i].rule.priority <= T[j].rule.priority}

(* The first rule that matches is that of the registration wanted.         *)
LEMMA FirstRuleIsBest ==
  ASSUME NEW T \in Seq(Registrations), KeysDiffer(T), NEW rules \in Seq(TopicRules), NEW t,
         RulesOK(rules, t, T), NEW kind,
         NEW match, match = RulesFor(rules, kind), NEW regs, regs = RegsFor(T, t, kind),
         NEW best, best = BestOf(T, regs)
  PROVE  /\ match = {} <=> regs = {}
         /\ match # {} => /\ Min(best) \in regs
                          /\ Makes(T[Min(best)], t, rules[Min(match)])
<1>0. /\ match = {q \in DOMAIN rules : rules[q].match = kind}
      /\ regs = {i \in DOMAIN T : T[i].topic = t /\ T[i].rule # Nothing /\ T[i].rule.match = kind}
      /\ best = {i \in regs : \A j \in regs : T[i].rule.priority <= T[j].rule.priority}
  BY DEF RulesFor, RegsFor, BestOf
<1>1. /\ DOMAIN T \subseteq Nat /\ DOMAIN rules \subseteq Nat
      /\ \A i \in DOMAIN T : T[i] \in Registrations
      /\ \A q \in DOMAIN rules : rules[q] \in TopicRules
  <2>1. DOMAIN T = 1 .. Len(T) /\ Len(T) \in Nat /\ DOMAIN rules = 1 .. Len(rules) /\ Len(rules) \in Nat
    BY LenProperties
  <2> QED BY <2>1, ElementOfSeq
<1>2. ASSUME NEW i \in DOMAIN T, NEW q \in DOMAIN rules, Makes(T[i], t, rules[q])
      PROVE  /\ T[i].rule.match = rules[q].match /\ T[i].rule.priority = rules[q].priority
             /\ i \in regs <=> q \in match
  BY <1>0, <1>2 DEF Makes, NewRule
<1>3. ASSUME NEW i \in regs
      PROVE  \E q \in match : Makes(T[i], t, rules[q])
  <2>1. PICK q \in DOMAIN rules : Makes(T[i], t, rules[q])
    BY <1>0, <1>3 DEF RulesOK
  <2>2. i \in DOMAIN T
    BY <1>0
  <2> QED BY <1>2, <1>3, <2>1, <2>2
<1>4. ASSUME NEW q \in match
      PROVE  \E i \in regs : Makes(T[i], t, rules[q])
  <2>1. PICK i \in DOMAIN T : Makes(T[i], t, rules[q])
    BY <1>0, <1>4 DEF RulesOK
  <2>2. q \in DOMAIN rules
    BY <1>0
  <2> QED BY <1>2, <1>4, <2>1, <2>2
<1>5. ASSUME NEW i \in DOMAIN T, NEW j \in DOMAIN T, NEW r,
             Makes(T[i], t, r), Makes(T[j], t, r)
      PROVE  i = j
  <2>1. Key(T[i]) = <<t, r.path>> /\ Key(T[j]) = <<t, r.path>>
    BY <1>1, <1>5 DEF Makes, NewRule, Key, PathFor
  <2> QED BY <2>1 DEF KeysDiffer
<1>6. ASSUME match # {}
      PROVE  Min(best) \in regs /\ Makes(T[Min(best)], t, rules[Min(match)])
  <2>1. PICK q \in match : q = Min(match) /\ \A r \in match : q <= r
    <3>1. match \subseteq Nat
      BY <1>0, <1>1
    <3> QED BY <1>6, <3>1, LeastNumber
  <2>2. PICK i \in regs : Makes(T[i], t, rules[q])
    BY <1>4
  <2>3. q \in DOMAIN rules /\ i \in DOMAIN T
    BY <1>0
  <2>4. ASSUME NEW j \in regs
        PROVE  /\ T[i].rule.priority <= T[j].rule.priority
               /\ T[i].rule.priority = T[j].rule.priority => i <= j
    <3>1. PICK r \in match : Makes(T[j], t, rules[r])
      BY <1>3
    <3>2. /\ T[i].rule.priority = rules[q].priority /\ T[j].rule.priority = rules[r].priority
          /\ rules[q].priority \in Int
      <4>1. rules[q] \in TopicRules
        BY <1>0, <1>1
      <4> QED BY <1>0, <1>2, <2>2, <3>1, <4>1, AppAssumption DEF TopicRules
    <3>3. q \in Nat /\ r \in Nat /\ i \in Nat /\ j \in Nat /\ q <= r
      BY <1>0, <1>1, <2>1
    <3>4. CASE q = r
      <4>1. i = j
        BY <1>0, <1>5, <2>2, <3>1, <3>4
      <4> QED BY <3>2, <3>3, <4>1
    <3>5. CASE q < r
      <4>1. rules[q].priority <= rules[r].priority
        BY <1>0, <3>5 DEF RulesOK, Sorted
      <4>2. rules[q].priority = rules[r].priority => i < j
        BY <1>0, <2>2, <3>1, <3>5 DEF RulesOK, Stable
      <4> QED BY <3>2, <3>3, <4>1, <4>2
    <3> QED BY <3>3, <3>4, <3>5
  <2>5. i \in best /\ best \subseteq Nat
    BY <1>0, <1>1, <2>4
  <2>6. PICK b \in best : b = Min(best) /\ \A j \in best : b <= j
    BY <2>5, LeastNumber
  <2>7. T[i].rule.priority = T[b].rule.priority
    <3>1. T[i].rule.priority <= T[b].rule.priority /\ T[b].rule.priority <= T[i].rule.priority
      BY <1>0, <2>4
    <3>2. T[i].rule.priority \in Int /\ T[b].rule.priority \in Int
      <4>1. T[i].rule \in Rules /\ T[b].rule \in Rules
        BY <1>0, <1>1, RegistrationFields
      <4> QED BY <4>1, AppAssumption DEF Rules
    <3> QED BY <3>1, <3>2
  <2>8. i = b
    <3>1. i <= b /\ b <= i /\ i \in Nat /\ b \in Nat
      BY <1>0, <2>4, <2>5, <2>6, <2>7
    <3> QED BY <3>1
  <2> QED BY <1>0, <2>1, <2>2, <2>6, <2>8
<1>7. match = {} <=> regs = {}
  BY <1>3, <1>4
<1> QED BY <1>6, <1>7

(* _get_topic_callback finds the handler of a registration: by its key, by *)
(* its route, and by its topic when the sidecar sends the topic as route.  *)
LEMMA LookedUp ==
  ASSUME AppInv, NEW i \in DOMAIN taken
  PROVE  LET x == taken[i]
         IN /\ _get_topic_callback(x.topic, PathFor(x.cb, x.rule)) = x.cb
            /\ \A t \in Topics \cup {Concrete} :
                 /\ <<t, Route(x)>> \notin DOMAIN topic_map
                 /\ \A j \in DOMAIN taken : Route(taken[j]) = Route(x) => taken[j].cb = x.cb
                 => _get_topic_callback(t, Route(x)) = x.cb
<1>1. PICK x : x = taken[i]
  OBVIOUS
<1>2. _get_topic_callback(x.topic, PathFor(x.cb, x.rule)) = x.cb
  <2>1. Key(x) \in DOMAIN topic_map /\ topic_map[Key(x)] = x.cb
    BY <1>1 DEF AppInv, TablesOK
  <2> QED BY <2>1 DEF Key, _get_topic_callback
<1>3. ASSUME NEW t, <<t, Route(x)>> \notin DOMAIN topic_map,
             \A j \in DOMAIN taken : Route(taken[j]) = Route(x) => taken[j].cb = x.cb
      PROVE  _get_topic_callback(t, Route(x)) = x.cb
  <2>1. Route(x) \in DOMAIN route_map
    BY <1>1 DEF AppInv, TablesOK
  <2>2. route_map[Route(x)] = x.cb
    BY <1>3, <2>1 DEF AppInv, TablesOK
  <2> QED BY <1>3, <2>1, <2>2 DEF _get_topic_callback
<1> QED BY <1>1, <1>2, <1>3

(* An event reaches the handler that was registered for it.                *)
LEMMA EventsFindHandlers ==
  ASSUME AppInv
  PROVE  EventFindsHandler
<1> SUFFICES ASSUME NEW s \in DOMAIN listed.subs, NEW kind \in Kinds, NEW sub,
                    sub = listed.subs[s],
                    Matching(sub.topic, kind) \cup WithoutRule(sub.topic) # {},
                    ~RoutesClash(sub), ~NoDefault(sub.topic)
             PROVE  _get_topic_callback(EventTopic(sub.topic), RouteOf(sub, kind))
                      = Wanted(sub.topic, kind)
  BY DEF EventFindsHandler
<1>1. PICK T \in Seq(Registrations) : T = listed.taken
  BY DEF AppInv, AppTypes
<1>2. sub \in TopicSubs
  <2>1. listed.subs \in Seq(TopicSubs)
    BY DEF AppInv, AppTypes
  <2> QED BY <2>1, LenProperties, ElementOfSeq
<1>3. PICK t \in Topics : t = sub.topic
  BY <1>2 DEF TopicSubs
<1>4. PICK rules \in Seq(TopicRules) : rules = sub.rules
  BY <1>2 DEF TopicSubs
<1>5. RulesOK(rules, t, T) /\ sub.default \in {t, NoPath}
  BY <1>1, <1>3, <1>4 DEF AppInv, ListedOK, SubsOK
<1>6. /\ DOMAIN T \subseteq Nat /\ \A i \in DOMAIN T : T[i] \in Registrations
      /\ \A i \in DOMAIN T : i \in DOMAIN taken /\ taken[i] = T[i]
  <2>1. DOMAIN T = 1 .. Len(T) /\ Len(T) \in Nat
    BY LenProperties
  <2>2. \A i \in DOMAIN T : T[i] \in Registrations
    BY <2>1, ElementOfSeq
  <2> QED BY <1>1, <2>1, <2>2 DEF AppInv, ListedOK
<1>7. KeysDiffer(T)
  BY <1>6 DEF AppInv, KeysDiffer
<1>8. PICK regs : regs = Matching(t, kind)
  OBVIOUS
<1>9. regs = RegsFor(T, t, kind)
  BY <1>1, <1>8 DEF Matching, RegsFor
<1>10. PICK match : match = RulesFor(rules, kind)
  OBVIOUS
<1>11. Best(t, kind) = BestOf(T, regs)
  BY <1>1, <1>8 DEF Best, BestOf
<1>12. PICK best : best = Best(t, kind)
  OBVIOUS
<1>13. /\ match = {} <=> regs = {}
       /\ match # {} => Min(best) \in regs /\ Makes(T[Min(best)], t, rules[Min(match)])
  BY <1>5, <1>7, <1>9, <1>10, <1>11, <1>12, FirstRuleIsBest
<1>14. RouteOf(sub, kind) = IF match = {} THEN sub.default ELSE rules[Min(match)].path
  <2>1. RouteOf(sub, kind) = IF match = {} THEN sub.default ELSE sub.rules[Min(match)].path
    BY <1>4, <1>10 DEF RouteOf, RulesFor
  <2> QED BY <1>4, <2>1
<1>15. \A j \in DOMAIN taken : taken[j] \in Registrations
  <2>1. taken \in Seq(Registrations)
    BY DEF AppInv, AppTypes
  <2> QED BY <2>1, LenProperties, ElementOfSeq
\* The handler of registration i, if the sidecar sends its route.
<1>16. ASSUME NEW i \in DOMAIN taken, taken[i].topic = t, t \in Wildcards
       PROVE  _get_topic_callback(EventTopic(t), Route(taken[i])) = taken[i].cb
  <2>1. EventTopic(t) = Concrete
    BY <1>16 DEF EventTopic
  <2>2. <<Concrete, Route(taken[i])>> \notin DOMAIN topic_map
    <3>1. ASSUME <<Concrete, Route(taken[i])>> \in DOMAIN topic_map PROVE FALSE
      <4>1. PICK j \in DOMAIN taken : <<Concrete, Route(taken[i])>> = Key(taken[j])
        BY <3>1 DEF AppInv, TablesOK
      <4>2. taken[j].topic = Concrete /\ taken[j].topic \in Topics
        BY <1>15, <4>1, RegistrationFields DEF Key
      <4> QED BY <4>2, AppAssumption
    <3> QED BY <3>1
  <2>3. \A j \in DOMAIN taken : Route(taken[j]) = Route(taken[i]) => taken[j].cb = taken[i].cb
    BY <1>3, <1>16 DEF RoutesClash
  <2> QED BY <2>1, <2>2, <2>3, LookedUp
<1>17. ASSUME match # {}
       PROVE  _get_topic_callback(EventTopic(t), RouteOf(sub, kind)) = Wanted(t, kind)
  <2>1. PICK i \in DOMAIN T : i = Min(best) /\ Makes(T[i], t, rules[Min(match)])
    BY <1>9, <1>13, <1>17 DEF RegsFor
  <2>2. /\ i \in DOMAIN taken /\ taken[i] = T[i] /\ T[i] \in Registrations
        /\ T[i].rule # Nothing /\ T[i].topic = t
    BY <1>6, <2>1 DEF Makes
  <2>3. Wanted(t, kind) = T[i].cb
    <3>1. Matching(t, kind) # {}
      BY <1>8, <1>13, <1>17
    <3> QED BY <1>1, <1>12, <2>1, <3>1 DEF Wanted
  <2>4. /\ RouteOf(sub, kind) = RulePath(T[i].cb, T[i].rule)
        /\ RouteOf(sub, kind) = PathFor(T[i].cb, T[i].rule)
        /\ RouteOf(sub, kind) = Route(T[i])
    BY <1>14, <1>17, <2>1 DEF Makes, NewRule, PathFor, Route
  <2>5. CASE t \in Wildcards
    BY <1>16, <2>2, <2>3, <2>4, <2>5
  <2>6. CASE t \notin Wildcards
    <3>1. EventTopic(t) = t
      BY <2>6 DEF EventTopic
    <3> QED BY <2>2, <2>3, <2>4, <3>1, LookedUp
  <2> QED BY <2>5, <2>6
<1>18. ASSUME match = {}
       PROVE  _get_topic_callback(EventTopic(t), RouteOf(sub, kind)) = Wanted(t, kind)
  <2>1. regs = {} /\ WithoutRule(t) # {}
    BY <1>3, <1>8, <1>13, <1>18
  <2>2. WithoutRule(t) = {i \in DOMAIN T : T[i].topic = t /\ T[i].rule = Nothing}
    BY <1>1 DEF WithoutRule
  <2>3. PICK i \in WithoutRule(t) : i = Min(WithoutRule(t))
    <3>1. WithoutRule(t) \subseteq Nat
      BY <1>6, <2>2
    <3> QED BY <2>1, <3>1, LeastNumber
  <2>4. /\ i \in DOMAIN taken /\ taken[i] = T[i] /\ T[i] \in Registrations
        /\ T[i].rule = Nothing /\ T[i].topic = t
    BY <1>6, <2>2
  <2>5. Wanted(t, kind) = T[i].cb
    BY <1>1, <1>8, <2>1, <2>3 DEF Wanted
  <2>6. Route(T[i]) = t /\ PathFor(T[i].cb, T[i].rule) = NoPath
    BY <2>4 DEF Route, PathFor
  <2>7. RouteOf(sub, kind) = sub.default
    BY <1>14, <1>18
  <2>8. t # NoPath
    BY AppAssumption
  <2>9. CASE sub.default = NoPath
    <3>1. t \notin Wildcards
      BY <1>3, <2>9 DEF NoDefault
    <3>2. EventTopic(t) = t
      BY <3>1 DEF EventTopic
    <3> QED BY <2>4, <2>5, <2>6, <2>7, <2>9, <3>2, LookedUp
  <2>10. CASE sub.default = t /\ t \in Wildcards
    BY <1>16, <2>4, <2>5, <2>6, <2>7, <2>10
  <2>11. CASE sub.default = t /\ t \notin Wildcards
    <3>1. EventTopic(t) = t
      BY <2>11 DEF EventTopic
    <3>2. \A j \in DOMAIN taken : Route(taken[j]) = t => taken[j].cb = T[i].cb
      BY <1>3, <2>4, <2>6, <2>8, <2>11 DEF RoutesClash
    <3>3. CASE <<t, t>> \notin DOMAIN topic_map
      <4>1. _get_topic_callback(t, Route(taken[i])) = taken[i].cb
        BY <2>4, <2>6, <3>2, <3>3, LookedUp
      <4> QED BY <2>4, <2>5, <2>6, <2>7, <2>11, <3>1, <4>1
    <3>4. CASE <<t, t>> \in DOMAIN topic_map
      <4>1. PICK j \in DOMAIN taken : <<t, t>> = Key(taken[j])
        BY <3>4 DEF AppInv, TablesOK
      <4>2. taken[j].topic = t /\ PathFor(taken[j].cb, taken[j].rule) = t
        BY <4>1 DEF Key
      <4>3. taken[j].rule # Nothing /\ Route(taken[j]) = t
        BY <2>8, <4>2 DEF PathFor, Route
      <4>4. taken[j].cb = T[i].cb
        BY <3>2, <4>3
      <4>5. _get_topic_callback(t, t) = taken[j].cb
        BY <4>2, LookedUp
      <4> QED BY <2>5, <2>7, <2>11, <3>1, <4>4, <4>5
    <3> QED BY <3>3, <3>4
  <2> QED BY <1>5, <2>9, <2>10, <2>11
<1> QED BY <1>3, <1>17, <1>18

(* An event over HTTP reaches the function of its subscription.            *)
LEMMA PostsFindHandlers ==
  ASSUME AppInv
  PROVE  PostFindsHandler
<1> SUFFICES ASSUME NEW i \in DOMAIN subscriptions, NEW sub, sub = subscriptions[i],
                    server = "fastapi" =>
                      \A r \in DOMAIN routes : routes[r].route = sub.route => routes[r].cb = sub.cb
             PROVE  RouteHandler(sub.route) = sub.cb
  BY DEF PostFindsHandler
<1>1. PICK j \in DOMAIN routes : routes[j].route = sub.route /\ routes[j].cb = sub.cb
  BY DEF AppInv, RoutesOK
<1>2. PICK S : S = {r \in DOMAIN routes : routes[r].route = sub.route}
  OBVIOUS
<1>3. S \subseteq Nat /\ S # {}
  <2>1. routes \in Seq([route: Topics, cb: Handlers])
    BY DEF AppInv, AppTypes
  <2>2. DOMAIN routes \subseteq Nat
    BY <2>1, LenProperties
  <2> QED BY <1>1, <1>2, <2>2
<1>4. Min(S) \in S
  BY <1>3, LeastNumber
<1>5. PICK r \in DOMAIN routes : r = Min(S) /\ routes[r].route = sub.route
  BY <1>2, <1>4
<1>6. RouteHandler(sub.route) = routes[r].cb
  BY <1>2, <1>5 DEF RouteHandler
<1>7. server \in {"fastapi", "flask"}
  <2>1. subscriptions # <<>>
    BY EmptySeq
  <2> QED BY <2>1 DEF AppInv, AppTypes, RoutesOK
<1>8. routes[r].cb = sub.cb
  <2>1. CASE server = "fastapi"
    BY <1>5, <2>1
  <2>2. CASE server = "flask"
    BY <1>1, <1>5, <2>2 DEF AppInv, RoutesOK
  <2> QED BY <1>7, <2>1, <2>2
<1> QED BY <1>6, <1>8

\* T with one more registration, under a key of its own.
OneMore(T, x, T2) ==
  /\ T2 \in Seq(Registrations) /\ DOMAIN T2 = DOMAIN T \cup {Len(T) + 1}
  /\ \A i \in DOMAIN T : T2[i] = T[i] /\ i \in Nat /\ i < Len(T) + 1
  /\ T2[Len(T) + 1] = x /\ Len(T) \in Nat
  /\ KeysDiffer(T2)

LEMMA Registered ==
  ASSUME NEW T \in Seq(Registrations), KeysDiffer(T), NEW x \in Registrations,
         \A i \in DOMAIN T : Key(T[i]) # Key(x)
  PROVE  OneMore(T, x, Append(T, x))
<1>1. PICK n \in Nat : n = Len(T) /\ DOMAIN T = 1 .. n
  BY LenProperties
<1>2. PICK T2 \in Seq(Registrations) : T2 = Append(T, x)
  BY AppendProperties
<1>3. /\ Len(T2) = n + 1 /\ \A i \in 1 .. n : T2[i] = T[i]
      /\ T2[n + 1] = x
  BY <1>1, <1>2, AppendProperties
<1>4. DOMAIN T2 = 1 .. n + 1
  BY <1>2, <1>3, LenProperties
<1>5. 1 .. n + 1 = 1 .. n \cup {n + 1} /\ \A i \in 1 .. n : i \in Nat /\ i < n + 1
  BY <1>1
<1>6. KeysDiffer(T2)
  <2> SUFFICES ASSUME NEW i \in DOMAIN T2, NEW j \in DOMAIN T2, Key(T2[i]) = Key(T2[j])
               PROVE  i = j
    BY DEF KeysDiffer
  <2>1. i \in DOMAIN T /\ j \in DOMAIN T => i = j
    BY <1>1, <1>3 DEF KeysDiffer
  <2>2. i = n + 1 \/ i \in DOMAIN T
    BY <1>1, <1>4
  <2>3. j = n + 1 \/ j \in DOMAIN T
    BY <1>1, <1>4
  <2>4. ~(i = n + 1 /\ j \in DOMAIN T) /\ ~(j = n + 1 /\ i \in DOMAIN T)
    BY <1>1, <1>3
  <2> QED BY <2>1, <2>2, <2>3, <2>4
<1> QED BY <1>1, <1>2, <1>3, <1>4, <1>5, <1>6 DEF OneMore

(* Two registrations do not make the same rule.                            *)
LEMMA OneMaker ==
  ASSUME NEW T \in Seq(Registrations), KeysDiffer(T), NEW i \in DOMAIN T, NEW j \in DOMAIN T,
         NEW t, NEW r, Makes(T[i], t, r), Makes(T[j], t, r)
  PROVE  i = j
<1>1. T[i] \in Registrations /\ T[j] \in Registrations
  BY LenProperties, ElementOfSeq
<1>2. Key(T[i]) = <<t, r.path>> /\ Key(T[j]) = <<t, r.path>>
  BY <1>1 DEF Makes, NewRule, Key, PathFor
<1> QED BY <1>2 DEF KeysDiffer

(* The rules of a topic after a registration for another, or without rule. *)
LEMMA RulesUnmoved ==
  ASSUME NEW T \in Seq(Registrations), NEW x \in Registrations, NEW T2, OneMore(T, x, T2),
         NEW rules \in Seq(TopicRules), NEW t, RulesOK(rules, t, T),
         x.topic # t \/ x.rule = Nothing
  PROVE  RulesOK(rules, t, T2)
<1>1. \A r : ~Makes(x, t, r)
  BY DEF Makes
<1>2. ASSUME NEW q \in DOMAIN rules
      PROVE  \E i \in DOMAIN T2 : Makes(T2[i], t, rules[q])
  BY DEF RulesOK, OneMore
<1>3. ASSUME NEW i \in DOMAIN T2, T2[i].topic = t, T2[i].rule # Nothing
      PROVE  \E q \in DOMAIN rules : Makes(T2[i], t, rules[q])
  BY <1>3 DEF RulesOK, OneMore
<1>4. Stable(rules, t, T2)
  <2> SUFFICES ASSUME NEW q \in DOMAIN rules, NEW r \in DOMAIN rules,
                      NEW i \in DOMAIN T2, NEW j \in DOMAIN T2,
                      q < r, rules[q].priority = rules[r].priority,
                      Makes(T2[i], t, rules[q]), Makes(T2[j], t, rules[r])
               PROVE  i < j
    BY DEF Stable
  <2>1. i \in DOMAIN T /\ j \in DOMAIN T /\ T2[i] = T[i] /\ T2[j] = T[j]
    BY <1>1 DEF OneMore
  <2> QED BY <2>1 DEF RulesOK, Stable
<1> QED BY <1>2, <1>3, <1>4 DEF RulesOK

(* The rules of a topic after a registration with a rule for it.           *)
LEMMA RuleAdded ==
  ASSUME NEW T \in Seq(Registrations), NEW x \in Registrations, NEW T2, OneMore(T, x, T2),
         NEW rules \in Seq(TopicRules), NEW t, RulesOK(rules, t, T),
         x.topic = t, x.rule # Nothing
  PROVE  /\ Insert(rules, NewRule(x.cb, x.rule)) \in Seq(TopicRules)
         /\ RulesOK(Insert(rules, NewRule(x.cb, x.rule)), t, T2)
<1>1. PICK n \in Nat, m \in Nat : /\ n = Len(T) /\ m = Len(rules) /\ DOMAIN rules = 1 .. m
                                  /\ DOMAIN T2 = DOMAIN T \cup {n + 1}
  BY LenProperties DEF OneMore
<1>2. PICK new \in TopicRules : new = NewRule(x.cb, x.rule)
  BY RegistrationFields
<1>3. PICK s : s = Insert(rules, new)
  OBVIOUS
<1>4. PICK k \in 0 .. m : Place(rules, new.priority, k) /\ PutIn(s, rules, new, k)
  BY <1>1, <1>3, Inserted DEF RulesOK
<1>5. /\ s \in Seq(TopicRules) /\ DOMAIN s = 1 .. m + 1 /\ s[k + 1] = new
      /\ \A q \in 1 .. k : s[q] = rules[q]
      /\ \A q \in k + 2 .. m + 1 : s[q] = rules[q - 1]
  BY <1>1, <1>4 DEF PutIn
<1>6. \A q \in DOMAIN s : \/ q \in 1 .. k /\ q \in DOMAIN rules
                          \/ q = k + 1
                          \/ q \in k + 2 .. m + 1 /\ q - 1 \in DOMAIN rules
  BY <1>1, <1>5
<1>7. Makes(x, t, new) /\ n + 1 \in DOMAIN T2 /\ T2[n + 1] = x /\ n + 1 \in Nat
  BY <1>1, <1>2 DEF Makes, OneMore
<1>8. \A i \in DOMAIN T : T2[i] = T[i] /\ i \in DOMAIN T2 /\ i \in Nat /\ i < n + 1
  BY <1>1 DEF OneMore
<1>9. T2 \in Seq(Registrations) /\ KeysDiffer(T2)
  BY DEF OneMore
<1>10. ASSUME NEW i \in DOMAIN T2, Makes(T2[i], t, new)
       PROVE  i = n + 1
  BY <1>7, <1>9, <1>10, OneMaker
<1>11. ASSUME NEW i \in DOMAIN T2, NEW q \in DOMAIN rules, Makes(T2[i], t, rules[q])
       PROVE  i \in DOMAIN T /\ T2[i] = T[i]
  <2>1. PICK j \in DOMAIN T : Makes(T[j], t, rules[q])
    BY DEF RulesOK
  <2>2. j \in DOMAIN T2 /\ Makes(T2[j], t, rules[q])
    BY <1>8, <2>1
  <2>3. i = j
    BY <1>9, <1>11, <2>2, OneMaker
  <2> QED BY <1>8, <2>3
<1>12. ASSUME NEW q \in DOMAIN s
       PROVE  \E i \in DOMAIN T2 : Makes(T2[i], t, s[q])
  <2>1. CASE q = k + 1
    BY <1>5, <1>7, <2>1
  <2>2. ASSUME NEW p \in DOMAIN rules, s[q] = rules[p]
        PROVE  \E i \in DOMAIN T2 : Makes(T2[i], t, s[q])
    BY <1>8, <2>2 DEF RulesOK
  <2> QED BY <1>5, <1>6, <2>1, <2>2
<1>13. ASSUME NEW p \in DOMAIN rules
       PROVE  \E q \in DOMAIN s : s[q] = rules[p]
  <2>1. CASE p \in 1 .. k
    <3>1. p \in DOMAIN s /\ s[p] = rules[p]
      BY <1>1, <1>5, <2>1
    <3> QED BY <3>1
  <2>2. CASE p \notin 1 .. k
    <3>1. p + 1 \in k + 2 .. m + 1 /\ p + 1 \in DOMAIN s /\ (p + 1) - 1 = p
      BY <1>1, <1>5, <2>2
    <3> QED BY <1>5, <3>1
  <2> QED BY <2>1, <2>2
<1>14. ASSUME NEW i \in DOMAIN T2, T2[i].topic = t, T2[i].rule # Nothing
       PROVE  \E q \in DOMAIN s : Makes(T2[i], t, s[q])
  <2>1. CASE i = n + 1
    <3>1. k + 1 \in DOMAIN s
      BY <1>5
    <3> QED BY <1>5, <1>7, <2>1, <3>1
  <2>2. CASE i \in DOMAIN T
    <3>1. PICK p \in DOMAIN rules : Makes(T[i], t, rules[p])
      BY <1>8, <1>14, <2>2 DEF RulesOK
    <3> QED BY <1>8, <1>13, <2>2, <3>1
  <2> QED BY <1>1, <2>1, <2>2
<1>15. \A p \in DOMAIN rules : rules[p].priority \in Int
  <2>1. \A p \in DOMAIN rules : rules[p] \in TopicRules
    BY <1>1, ElementOfSeq
  <2> QED BY <2>1, AppAssumption DEF TopicRules
<1>16. new.priority \in Int
  BY AppAssumption DEF TopicRules
<1>17. /\ \A p \in 1 .. k : rules[p].priority <= new.priority
       /\ \A p \in k + 1 .. m : rules[p].priority > new.priority
  BY <1>1, <1>4 DEF Place
\* A rule of s is an old one, at or before its place there, or the new one.
<1>18. ASSUME NEW q \in DOMAIN s, NEW r \in DOMAIN s, q < r
       PROVE  \/ \E p \in DOMAIN rules, o \in DOMAIN rules :
                   p < o /\ s[q] = rules[p] /\ s[r] = rules[o]
              \/ /\ s[r] = new
                 /\ \E p \in DOMAIN rules : s[q] = rules[p] /\ rules[p].priority <= new.priority
              \/ /\ s[q] = new
                 /\ \E o \in DOMAIN rules : s[r] = rules[o] /\ rules[o].priority > new.priority
  <2>0. q \in 1 .. m + 1 /\ r \in 1 .. m + 1
    BY <1>5
  <2>1. CASE r \in 1 .. k
    <3>1. q \in 1 .. k /\ q \in DOMAIN rules /\ r \in DOMAIN rules
      BY <1>1, <1>18, <2>0, <2>1
    <3> QED BY <1>5, <1>18, <2>1, <3>1
  <2>2. CASE r = k + 1
    <3>1. q \in 1 .. k /\ q \in DOMAIN rules
      BY <1>1, <1>18, <2>0, <2>2
    <3> QED BY <1>5, <1>17, <2>2, <3>1
  <2>3. CASE r \in k + 2 .. m + 1
    <3>1. r - 1 \in DOMAIN rules /\ r - 1 \in k + 1 .. m /\ s[r] = rules[r - 1]
      BY <1>1, <1>5, <2>3
    <3>2. CASE q \in 1 .. k
      <4>1. q \in DOMAIN rules /\ q < r - 1
        BY <1>1, <2>3, <3>2
      <4> QED BY <1>5, <3>1, <3>2, <4>1
    <3>3. CASE q = k + 1
      BY <1>5, <1>17, <3>1, <3>3
    <3>4. CASE q \in k + 2 .. m + 1
      <4>1. q - 1 \in DOMAIN rules /\ q - 1 < r - 1 /\ s[q] = rules[q - 1]
        BY <1>1, <1>5, <1>18, <2>0, <3>4
      <4> QED BY <3>1, <4>1
    <3> QED BY <2>0, <3>2, <3>3, <3>4
  <2> QED BY <2>0, <2>1, <2>2, <2>3
<1>19. Sorted(s)
  <2> SUFFICES ASSUME NEW q \in DOMAIN s, NEW r \in DOMAIN s, q < r
               PROVE  s[q].priority <= s[r].priority
    BY DEF Sorted
  <2>1. ASSUME NEW p \in DOMAIN rules, NEW o \in DOMAIN rules, p < o
        PROVE  rules[p].priority <= rules[o].priority
    BY <2>1 DEF RulesOK, Sorted
  <2>2. \A o \in DOMAIN rules :
          rules[o].priority > new.priority => new.priority <= rules[o].priority
    BY <1>15, <1>16
  <2> QED BY <1>18, <2>1, <2>2
<1>20. Stable(s, t, T2)
  <2> SUFFICES ASSUME NEW q \in DOMAIN s, NEW r \in DOMAIN s, NEW i \in DOMAIN T2,
                      NEW j \in DOMAIN T2, q < r, s[q].priority = s[r].priority,
                      Makes(T2[i], t, s[q]), Makes(T2[j], t, s[r])
               PROVE  i < j
    BY DEF Stable
  <2>1. ASSUME NEW p \in DOMAIN rules, NEW o \in DOMAIN rules,
               p < o, s[q] = rules[p], s[r] = rules[o]
        PROVE  i < j
    <3>1. /\ i \in DOMAIN T /\ j \in DOMAIN T
          /\ Makes(T[i], t, rules[p]) /\ Makes(T[j], t, rules[o])
      BY <1>11, <2>1
    <3> QED BY <2>1, <3>1 DEF RulesOK, Stable
  <2>2. ASSUME NEW p \in DOMAIN rules, s[q] = rules[p], s[r] = new
        PROVE  i < j
    <3>1. i \in DOMAIN T /\ j = n + 1
      BY <1>10, <1>11, <2>2
    <3> QED BY <1>8, <3>1
  <2>3. ASSUME NEW o \in DOMAIN rules, s[q] = new, s[r] = rules[o],
               rules[o].priority > new.priority
        PROVE  FALSE
    <3>1. ~(rules[o].priority > rules[o].priority)
      BY <1>15
    <3> QED BY <2>3, <3>1
  <2> QED BY <1>18, <2>1, <2>2, <2>3
<1>21. RulesOK(s, t, T2)
  BY <1>12, <1>14, <1>19, <1>20 DEF RulesOK
<1> QED BY <1>2, <1>3, <1>5, <1>21

(* Nothing is registered at first.                                         *)
LEMMA AppInitially ==
  ASSUME AppInit
  PROVE  AppInv
<1>1. /\ DOMAIN taken = {} /\ DOMAIN topics = {} /\ DOMAIN topic_map = {} /\ DOMAIN route_map = {}
      /\ DOMAIN routes = {} /\ DOMAIN subscriptions = {}
      /\ DOMAIN listed.subs = {} /\ DOMAIN listed.taken = {} /\ subscriptions = <<>>
  BY DEF AppInit
<1>2. AppTypes
  BY DEF AppInit, AppTypes
<1> QED BY <1>1, <1>2 DEF AppInv, KeysDiffer, TablesOK, SubsOK, ListedOK, RoutesOK

(* A new subscription for a topic without one, as WithTopic adds it.       *)
LEMMA TopicAdded ==
  ASSUME AppInv, NEW topic \in Topics, NEW rule, NEW unchecked
  PROVE  LET subs == WithTopic(topic, rule, unchecked)
         IN /\ subs \in Seq(TopicSubs)
            /\ SubsOK(subs, taken) \/ \A i \in DOMAIN taken : taken[i].topic # topic
            /\ \A k \in DOMAIN subs :
                 /\ subs[k].default \in {subs[k].topic, NoPath}
                 /\ RulesOK(subs[k].rules, subs[k].topic, taken)
            /\ \A i \in DOMAIN taken : \E k \in DOMAIN subs : subs[k].topic = taken[i].topic
            /\ \E k \in DOMAIN subs : subs[k].topic = topic
<1>1. PICK subs : subs = WithTopic(topic, rule, unchecked)
  OBVIOUS
<1>2. /\ topics \in Seq(TopicSubs) /\ SubsOK(topics, taken)
  BY DEF AppInv, AppTypes
<1>3. CASE \E i \in DOMAIN topics : topics[i].topic = topic
  BY <1>2, <1>3 DEF WithTopic, SubsOK
<1>4. CASE ~\E i \in DOMAIN topics : topics[i].topic = topic
  <2>1. PICK new : new = NewSubscription(topic, rule, unchecked)
    OBVIOUS
  <2>2. /\ new.topic = topic /\ new.rules = <<>> /\ new.default \in {topic, NoPath}
        /\ new \in TopicSubs
    <3>1. topic \in STRING
      BY AppAssumption
    <3>2. <<>> \in Seq(TopicRules)
      OBVIOUS
    <3> QED BY <2>1, <3>1, <3>2 DEF NewSubscription, TopicSubs
  <2>3. subs = Append(topics, new)
    BY <1>1, <1>4, <2>1 DEF WithTopic
  <2>4. PICK n \in Nat : n = Len(topics) /\ DOMAIN topics = 1 .. n
    BY <1>2, LenProperties
  <2>5. /\ subs \in Seq(TopicSubs) /\ Len(subs) = n + 1
        /\ \A k \in 1 .. n : subs[k] = topics[k]
        /\ subs[n + 1] = new
    BY <1>2, <2>2, <2>3, <2>4, AppendProperties
  <2>6. DOMAIN subs = 1 .. n + 1
    BY <2>5, LenProperties
  <2>7. \A i \in DOMAIN taken : taken[i].topic # topic
    BY <1>2, <1>4 DEF SubsOK
  <2>8. RulesOK(new.rules, topic, taken)
    <3>1. DOMAIN new.rules = {}
      BY <2>2
    <3> QED BY <2>7, <3>1 DEF RulesOK, Sorted, Stable
  <2>9. ASSUME NEW k \in DOMAIN subs
        PROVE  /\ subs[k].default \in {subs[k].topic, NoPath}
               /\ RulesOK(subs[k].rules, subs[k].topic, taken)
    <3>1. CASE k = n + 1
      BY <2>2, <2>5, <2>8, <3>1
    <3>2. CASE k \in 1 .. n
      BY <1>2, <2>4, <2>5, <3>2 DEF SubsOK
    <3> QED BY <2>4, <2>6, <2>9, <3>1, <3>2
  <2>10. ASSUME NEW i \in DOMAIN taken
         PROVE  \E k \in DOMAIN subs : subs[k].topic = taken[i].topic
    <3>1. PICK k \in DOMAIN topics : topics[k].topic = taken[i].topic
      BY <1>2 DEF SubsOK
    <3>2. k \in DOMAIN subs /\ subs[k] = topics[k]
      BY <2>4, <2>5, <2>6, <3>1
    <3> QED BY <3>1, <3>2
  <2>11. n + 1 \in DOMAIN subs
    BY <2>4, <2>6
  <2> QED BY <1>1, <2>2, <2>5, <2>7, <2>9, <2>10, <2>11
<1> QED BY <1>3, <1>4

(* The subscriptions after a registration.                                 *)
LEMMA SubscriptionsKept ==
  ASSUME AppInv, NEW x \in Registrations, NEW T2, OneMore(taken, x, T2),
         NEW subs, subs = WithTopic(x.topic, x.rule, x.unchecked),
         NEW subs2, subs2 = WithRule(subs, x.topic, x.cb, x.rule)
  PROVE  subs2 \in Seq(TopicSubs) /\ SubsOK(subs2, T2)
<1>1. taken \in Seq(Registrations) /\ x.topic \in Topics
  BY RegistrationFields DEF AppInv, AppTypes
<1>2. /\ subs \in Seq(TopicSubs)
      /\ \A k \in DOMAIN subs : /\ subs[k].default \in {subs[k].topic, NoPath}
                                /\ RulesOK(subs[k].rules, subs[k].topic, taken)
      /\ \A i \in DOMAIN taken : \E k \in DOMAIN subs : subs[k].topic = taken[i].topic
      /\ \E k \in DOMAIN subs : subs[k].topic = x.topic
  BY <1>1, TopicAdded
<1>3. PICK n \in Nat : n = Len(subs) /\ DOMAIN subs = 1 .. n
  BY <1>2, LenProperties
<1>4. DOMAIN subs2 = 1 .. n
  BY <1>3 DEF WithRule
<1>5. ASSUME NEW k \in DOMAIN subs
      PROVE  /\ subs2[k] \in TopicSubs
             /\ subs2[k].topic = subs[k].topic /\ subs2[k].default = subs[k].default
             /\ RulesOK(subs2[k].rules, subs2[k].topic, T2)
  <2>1. /\ subs[k] \in TopicSubs /\ subs[k].rules \in Seq(TopicRules)
        /\ RulesOK(subs[k].rules, subs[k].topic, taken)
    <3>1. subs[k] \in TopicSubs
      BY <1>2, <1>3, ElementOfSeq
    <3> QED BY <1>2, <3>1 DEF TopicSubs
  <2>2. CASE subs[k].topic = x.topic /\ x.rule # Nothing
    <3>1. PICK rules : rules = Insert(subs[k].rules, NewRule(x.cb, x.rule))
      OBVIOUS
    <3>2. rules \in Seq(TopicRules) /\ RulesOK(rules, subs[k].topic, T2)
      BY <1>1, <2>1, <2>2, <3>1, RuleAdded
    <3>3. subs2[k] = [subs[k] EXCEPT !.rules = rules]
      BY <2>2, <3>1 DEF WithRule
    <3> QED BY <2>1, <3>2, <3>3 DEF TopicSubs
  <2>3. CASE ~(subs[k].topic = x.topic /\ x.rule # Nothing)
    <3>1. subs2[k] = subs[k]
      BY <2>3 DEF WithRule
    <3>2. RulesOK(subs[k].rules, subs[k].topic, T2)
      BY <1>1, <2>1, <2>3, RulesUnmoved
    <3> QED BY <2>1, <3>1, <3>2
  <2> QED BY <2>2, <2>3
<1>6. subs2 \in Seq(TopicSubs)
  <2>1. subs2 = [i \in 1 .. n |-> subs2[i]]
    BY <1>3 DEF WithRule
  <2> QED BY <1>3, <1>5, <2>1
<1>7. ASSUME NEW i \in DOMAIN T2
      PROVE  \E k \in DOMAIN subs2 : subs2[k].topic = T2[i].topic
  <2>1. \E k \in DOMAIN subs : subs[k].topic = T2[i].topic
    <3>1. CASE i \in DOMAIN taken
      <4>1. T2[i] = taken[i]
        BY <3>1 DEF OneMore
      <4> QED BY <1>2, <3>1, <4>1
    <3>2. CASE i = Len(taken) + 1
      <4>1. T2[i] = x
        BY <3>2 DEF OneMore
      <4> QED BY <1>2, <4>1
    <3> QED BY <3>1, <3>2 DEF OneMore
  <2> QED BY <1>3, <1>4, <1>5, <2>1
<1> QED BY <1>2, <1>3, <1>4, <1>5, <1>6, <1>7 DEF SubsOK

(* The tables after a registration.                                        *)
LEMMA TablesKept ==
  ASSUME AppInv, NEW x \in Registrations, NEW T2, OneMore(taken, x, T2),
         T2 = taken', Key(x) \notin DOMAIN topic_map,
         topic_map' = Entered(topic_map, Key(x), x.cb),
         route_map' = Entered(route_map, Route(x), x.cb)
  PROVE  TablesOK'
<1>1. /\ DOMAIN topic_map' = DOMAIN topic_map \cup {Key(x)} /\ topic_map'[Key(x)] = x.cb
      /\ \A k \in DOMAIN topic_map : topic_map'[k] = topic_map[k]
  BY DEF Entered
<1>2. /\ DOMAIN route_map' = DOMAIN route_map \cup {Route(x)} /\ route_map'[Route(x)] = x.cb
      /\ \A p \in DOMAIN route_map : p # Route(x) => route_map'[p] = route_map[p]
  BY DEF Entered
<1>3. /\ DOMAIN T2 = DOMAIN taken \cup {Len(taken) + 1} /\ T2[Len(taken) + 1] = x
      /\ \A i \in DOMAIN taken : T2[i] = taken[i]
  BY DEF OneMore
<1>4. TablesOK
  BY DEF AppInv
<1>5. ASSUME NEW i \in DOMAIN T2
      PROVE  /\ Key(T2[i]) \in DOMAIN topic_map' /\ topic_map'[Key(T2[i])] = T2[i].cb
             /\ Route(T2[i]) \in DOMAIN route_map'
  BY <1>1, <1>2, <1>3, <1>4 DEF TablesOK
<1>6. ASSUME NEW k \in DOMAIN topic_map'
      PROVE  \E i \in DOMAIN T2 : k = Key(T2[i])
  <2>1. CASE k = Key(x)
    BY <1>3, <2>1
  <2>2. CASE k \in DOMAIN topic_map
    <3>1. PICK i \in DOMAIN taken : k = Key(taken[i])
      BY <1>4, <2>2 DEF TablesOK
    <3> QED BY <1>3, <3>1
  <2> QED BY <1>1, <2>1, <2>2
<1>7. ASSUME NEW p \in DOMAIN route_map'
      PROVE  \E i \in DOMAIN T2 : p = Route(T2[i]) /\ route_map'[p] = T2[i].cb
  <2>1. CASE p = Route(x)
    BY <1>2, <1>3, <2>1
  <2>2. CASE p # Route(x)
    <3>1. PICK i \in DOMAIN taken : p = Route(taken[i]) /\ route_map[p] = taken[i].cb
      BY <1>2, <1>4, <2>2 DEF TablesOK
    <3> QED BY <1>2, <1>3, <2>2, <3>1
  <2> QED BY <2>1, <2>2
<1> QED BY <1>5, <1>6, <1>7 DEF TablesOK, Key, Route

\* What AppInv is about.
serverVars == <<server, topic_map, route_map, topics, taken, listed, routes, subscriptions>>

(* A registration over gRPC preserves the invariant.                       *)
LEMMA TopicRegistered ==
  ASSUME AppInv, NEW topic \in Topics, NEW cb \in Handlers \cup {Nothing},
         NEW rule \in Rules \cup {Nothing}, NEW unchecked \in BOOLEAN,
         register_topic(topic, cb, rule, unchecked)
  PROVE  AppInv'
<1>1. PICK x \in Registrations :
        x = [topic |-> topic, cb |-> cb, rule |-> rule, unchecked |-> unchecked]
  BY DEF Registrations
<1>2. /\ x.topic = topic /\ x.cb = cb /\ x.rule = rule /\ x.unchecked = unchecked
      /\ Key(x) = <<topic, PathFor(cb, rule)>>
      /\ Route(x) = IF rule = Nothing THEN topic ELSE PathFor(cb, rule)
  BY <1>1 DEF Key, Route, PathFor
<1>3. /\ Key(x) \notin DOMAIN topic_map
      /\ topic_map' = Entered(topic_map, Key(x), x.cb)
      /\ route_map' = Entered(route_map, Route(x), x.cb)
      /\ topics' = WithRule(WithTopic(x.topic, x.rule, x.unchecked), x.topic, x.cb, x.rule)
      /\ taken' = Append(taken, x)
      /\ UNCHANGED <<server, listed, routes, subscriptions>>
  BY <1>1, <1>2 DEF register_topic, httpVars
<1>4. /\ AppTypes /\ taken \in Seq(Registrations) /\ KeysDiffer(taken) /\ TablesOK
      /\ ListedOK /\ RoutesOK
  BY DEF AppInv, AppTypes
<1>5. PICK T2 : T2 = Append(taken, x)
  OBVIOUS
<1>6. OneMore(taken, x, T2)
  <2>1. \A i \in DOMAIN taken : Key(taken[i]) # Key(x)
    BY <1>3, <1>4 DEF TablesOK
  <2> QED BY <1>4, <1>5, <2>1, Registered
<1>7. T2 = taken' /\ T2 \in Seq(Registrations) /\ KeysDiffer(T2)
  BY <1>3, <1>5, <1>6 DEF OneMore
<1>8. topics' \in Seq(TopicSubs) /\ SubsOK(topics', T2)
  BY <1>3, <1>6, SubscriptionsKept
<1>9. TablesOK'
  BY <1>3, <1>6, <1>7, TablesKept
<1>10. AppTypes'
  BY <1>3, <1>4, <1>7, <1>8 DEF AppTypes
<1>11. ListedOK'
  <2>1. ASSUME NEW i \in DOMAIN listed.taken
        PROVE  i \in DOMAIN T2 /\ T2[i] = listed.taken[i]
    <3>1. i \in DOMAIN taken /\ taken[i] = listed.taken[i]
      BY <1>4 DEF ListedOK
    <3> QED BY <1>6, <3>1 DEF OneMore
  <2> QED BY <1>3, <1>4, <1>7, <2>1 DEF ListedOK
<1>12. RoutesOK'
  BY <1>3, <1>4 DEF RoutesOK
<1>13. KeysDiffer(taken')
  BY <1>7
<1>14. SubsOK(topics', taken')
  BY <1>7, <1>8
<1> QED BY <1>9, <1>10, <1>11, <1>12, <1>13, <1>14 DEF AppInv, KeysDiffer, SubsOK

(* A subscription over HTTP preserves it.                                  *)
LEMMA Subscribed ==
  ASSUME AppInv, NEW topic \in Topics, NEW route \in Topics, NEW cb \in Handlers,
         subscribe(topic, route, cb)
  PROVE  AppInv'
<1>1. /\ server # "grpc"
      /\ server = "flask" => \A i \in DOMAIN routes : routes[i].route = route => routes[i].cb = cb
      /\ routes' = Append(routes, [route |-> route, cb |-> cb])
      /\ subscriptions' = Append(subscriptions, [topic |-> topic, route |-> route, cb |-> cb])
      /\ UNCHANGED <<server, topic_map, route_map, topics, taken, listed>>
  BY DEF subscribe, grpcVars
<1>2. /\ routes \in Seq([route: Topics, cb: Handlers])
      /\ subscriptions \in Seq([topic: Topics, route: Topics, cb: Handlers])
      /\ AppTypes /\ RoutesOK
  BY DEF AppInv, AppTypes
<1>3. PICK n \in Nat : n = Len(routes) /\ DOMAIN routes = 1 .. n
  BY <1>2, LenProperties
<1>4. PICK m \in Nat : m = Len(subscriptions) /\ DOMAIN subscriptions = 1 .. m
  BY <1>2, LenProperties
<1>5. /\ routes' \in Seq([route: Topics, cb: Handlers]) /\ DOMAIN routes' = 1 .. n + 1
      /\ \A i \in 1 .. n : routes'[i] = routes[i]
      /\ routes'[n + 1] = [route |-> route, cb |-> cb]
  <2>1. PICK r : r = [route |-> route, cb |-> cb]
    OBVIOUS
  <2>2. r \in [route: Topics, cb: Handlers] /\ routes' = Append(routes, r)
    BY <1>1, <2>1
  <2>3. /\ routes' \in Seq([route: Topics, cb: Handlers]) /\ Len(routes') = n + 1
        /\ \A i \in 1 .. n : routes'[i] = routes[i]
        /\ routes'[n + 1] = r
    BY <1>2, <1>3, <2>2, AppendProperties
  <2> QED BY <2>1, <2>3, LenProperties
<1>6. /\ subscriptions' \in Seq([topic: Topics, route: Topics, cb: Handlers])
      /\ DOMAIN subscriptions' = 1 .. m + 1
      /\ \A i \in 1 .. m : subscriptions'[i] = subscriptions[i]
      /\ subscriptions'[m + 1] = [topic |-> topic, route |-> route, cb |-> cb]
  <2>1. PICK s : s = [topic |-> topic, route |-> route, cb |-> cb]
    OBVIOUS
  <2>2. s \in [topic: Topics, route: Topics, cb: Handlers] /\ subscriptions' = Append(subscriptions, s)
    BY <1>1, <2>1
  <2>3. /\ subscriptions' \in Seq([topic: Topics, route: Topics, cb: Handlers])
        /\ Len(subscriptions') = m + 1
        /\ \A i \in 1 .. m : subscriptions'[i] = subscriptions[i]
        /\ subscriptions'[m + 1] = s
    BY <1>2, <1>4, <2>2, AppendProperties
  <2> QED BY <2>1, <2>3, LenProperties
<1>7. ASSUME server = "flask", NEW i \in DOMAIN routes', NEW j \in DOMAIN routes',
             routes'[i].route = routes'[j].route
      PROVE  routes'[i].cb = routes'[j].cb
  <2>1. \A k \in DOMAIN routes' : k \in DOMAIN routes \/ k = n + 1
    BY <1>3, <1>5
  <2>2. \A k \in DOMAIN routes : routes[k].route = route => routes[k].cb = cb
    BY <1>1, <1>7
  <2>3. \A k, l \in DOMAIN routes : routes[k].route = routes[l].route => routes[k].cb = routes[l].cb
    BY <1>2, <1>7 DEF RoutesOK
  <2> QED BY <1>3, <1>5, <1>7, <2>1, <2>2, <2>3
<1>8. ASSUME NEW i \in DOMAIN subscriptions'
      PROVE  \E j \in DOMAIN routes' :
               routes'[j].route = subscriptions'[i].route /\ routes'[j].cb = subscriptions'[i].cb
  <2>1. CASE i = m + 1
    <3>1. n + 1 \in DOMAIN routes'
      BY <1>5
    <3> QED BY <1>5, <1>6, <2>1, <3>1
  <2>2. CASE i \in DOMAIN subscriptions
    <3>1. PICK j \in DOMAIN routes :
            routes[j].route = subscriptions[i].route /\ routes[j].cb = subscriptions[i].cb
      BY <1>2, <2>2 DEF RoutesOK
    <3>2. j \in DOMAIN routes' /\ routes'[j] = routes[j]
      BY <1>3, <1>5
    <3> QED BY <1>4, <1>6, <2>2, <3>1, <3>2
  <2> QED BY <1>4, <1>6, <2>1, <2>2
<1>9. RoutesOK'
  BY <1>1, <1>7, <1>8 DEF RoutesOK
<1>10. AppTypes'
  BY <1>1, <1>2, <1>5, <1>6 DEF AppTypes
<1> QED BY <1>1, <1>9, <1>10 DEF AppInv, KeysDiffer, TablesOK, SubsOK, ListedOK

(* The list of the subscriptions preserves it.                             *)
LEMMA SubscriptionsListed ==
  ASSUME AppInv, List
  PROVE  AppInv'
<1>1. /\ listed' = [subs |-> topics, taken |-> taken]
      /\ UNCHANGED <<server, topic_map, route_map, topics, taken, routes, subscriptions>>
  BY DEF List, httpVars
<1>2. AppTypes'
  BY <1>1 DEF AppInv, AppTypes
<1>3. ListedOK'
  BY <1>1 DEF AppInv, ListedOK
<1> QED BY <1>1, <1>2, <1>3 DEF AppInv, KeysDiffer, TablesOK, SubsOK, RoutesOK

(* So does a step that leaves alone what it is about.                      *)
LEMMA ServerUnmoved ==
  ASSUME AppInv, UNCHANGED serverVars
  PROVE  AppInv'
BY DEF serverVars, AppInv, AppTypes, KeysDiffer, TablesOK, SubsOK, ListedOK, RoutesOK

(* Every step preserves it.                                                *)
LEMMA AppStep ==
  ASSUME AppInv, [AppNext]_appVars
  PROVE  AppInv'
<1>1. ASSUME NEW a, Answer(a) PROVE UNCHANGED serverVars
  BY <1>1 DEF Answer, grpcVars, httpVars, serverVars
<1>2. ASSUME NEW t \in Topics, NEW cb \in Handlers \cup {Nothing}, NEW r \in Rules \cup {Nothing},
             NEW u \in BOOLEAN, register_topic(t, cb, r, u)
      PROVE  AppInv'
  BY <1>2, TopicRegistered
<1>3. ASSUME NEW k, NEW cb, register(k, "x", cb)
      PROVE  AppInv'
  <2>1. UNCHANGED serverVars
    BY <1>3 DEF register, grpcVars, httpVars, serverVars
  <2> QED BY <2>1, ServerUnmoved
<1>4. ASSUME List PROVE AppInv'
  BY <1>4, SubscriptionsListed
<1>5. ASSUME NEW s, NEW k, NEW r, OnTopicEvent(s, k, r) \/ OnBulkTopicEvent(s, k, r)
      PROVE  AppInv'
  BY <1>1, <1>5, ServerUnmoved DEF OnTopicEvent, OnBulkTopicEvent
<1>6. ASSUME NEW k, NEW v, OnNamed(k, "x", v)
      PROVE  AppInv'
  BY <1>1, <1>6, ServerUnmoved DEF OnNamed
<1>7. ASSUME NEW cb, register_actor("x", cb)
      PROVE  AppInv'
  <2>1. UNCHANGED serverVars
    BY <1>7 DEF register_actor, grpcVars, httpVars, serverVars
  <2> QED BY <2>1, ServerUnmoved
<1>8. ASSUME NEW t \in Topics, NEW r \in Topics, NEW cb \in Handlers, subscribe(t, r, cb)
      PROVE  AppInv'
  BY <1>8, Subscribed
<1>9. ASSUME NEW r, FlaskActor("x", r) \/ FastApiActor("x", r)
      PROVE  AppInv'
  BY <1>1, <1>9, ServerUnmoved DEF FlaskActor, FastApiActor
<1>10. ASSUME NEW s, OnHttpEvent(s)
       PROVE  AppInv'
  BY <1>1, <1>10, ServerUnmoved DEF OnHttpEvent
<1>11. ASSUME UNCHANGED appVars
       PROVE  AppInv'
  <2>1. UNCHANGED serverVars
    BY <1>11 DEF appVars, grpcVars, httpVars, serverVars
  <2> QED BY <2>1, ServerUnmoved
<1> QED BY <1>2, <1>3, <1>4, <1>5, <1>6, <1>7, <1>8, <1>9, <1>10, <1>11 DEF AppNext

(* The invariant of the servers: no two registrations share a topic and a  *)
(* path, the tables hold what was registered, and the rules that the       *)
(* sidecar was told are those of the registrations, in the order of their  *)
(* priorities, and for one priority in that of registration                *)
(* (_servicer.py, register_topic).                                         *)
THEOREM AppInvariance == AppSpec => []AppInv
<1>1. AppInit => AppInv
  BY AppInitially
<1>2. AppInv /\ [AppNext]_appVars => AppInv'
  BY AppStep
<1> QED BY <1>1, <1>2, PTL DEF AppSpec

(* Whatever is registered and in whatever order, before or after the       *)
(* sidecar listed the subscriptions, an event of a topic reaches the first *)
(* of the handlers that were registered for it with the lowest priority    *)
(* number, or else the one without a rule, and an event that is posted to  *)
(* a route reaches the function subscribed there, unless the application   *)
(* gave the route to another one, too (_servicer.py, register_topic and    *)
(* _get_topic_callback; DaprApp.subscribe).                                *)
THEOREM HandlersFound == AppSpec => []OwnHandler
<1>1. AppInv => OwnHandler
  BY EventsFindHandlers, PostsFindHandlers DEF OwnHandler
<1> QED BY <1>1, AppInvariance, PTL
=============================================================================
