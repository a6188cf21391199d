---------------------------- MODULE ClientsProofs ----------------------------
(***************************************************************************)
(* Proofs about the clients: the calls they retry, for every set of        *)
(* callers, every method, policy, timeout and number of faults; and what   *)
(* is kept between the calls: the connections to MCP servers, the watchers *)
(* of configurations and the documents of sessions and threads.            *)
(***************************************************************************)
EXTENDS Calls, Mcp, Configuration, Documents, FiniteSetTheorems, SequenceTheorems,
        WellFoundedInduction, TLAPS

----------------------------------------------------------------------------
(* Calls: no call is sent more often or takes longer than was agreed, and  *)
(* what a caller is told is true.                                          *)

Phases == {"idle", "sent", "served", "sleeping", "done"}
Replies == {"none", "ok", "refused", "invalid", "unimplemented"}
Outcomes == {"none", "value", "refused", "failed", "closed", "argument", "timeout", "transient"}
Exceptions == {"none", "ValueError", "TimeoutError", "ClientError", "RpcError",
               "DaprGrpcError", "DaprInternalError", "DaprHttpError"}
Statuses == {"none"} \cup ErrorsOf("wait")
Times == Nat \cup {Never}

Records ==
  [phase: Phases, alpha: BOOLEAN, attempt: Nat, sends: Nat, lost: Nat, reply: Replies,
   outcome: Outcomes, raised: Exceptions, deadline: Times, window: Times,
   backoff: Nat \ {0}, wake: Times, sentAt: Nat, status: Statuses, streak: Nat,
   ended: Times]

CallsTypeOK ==
  /\ scene \in Scenes /\ caller \in [Callers -> Records]
  /\ applied \in [Callers -> Nat] /\ late \in [Callers -> Nat] /\ first \subseteq Callers
  /\ closed \in BOOLEAN /\ faults \in Nat /\ now \in Nat
  /\ \A c \in Callers \ Present : caller[c].phase = "idle"

\* Where a call that is w stands with its RetryPolicy: a sleeper has an attempt
\* left, and the attempts at the stable API were counted before those at the
\* alpha API.
PolicyOK(c, w) ==
  /\ w.alpha => Method(c).alpha
  /\ w.phase = "sleeping" => w.lost > 0 /\ Method(c).engine # "single"
  /\ Method(c).engine \in {"rpc", "http"} /\ scene.attempts # -1 =>
       /\ w.attempt < Tries
       /\ w.sends <= w.attempt + 1 + (IF w.alpha THEN Tries ELSE 0)
       /\ w.phase = "sleeping" => w.attempt + 1 < Tries

\* Where a wait stands with its timeout at time t: nothing it does goes beyond
\* the deadline, only an unbounded wait has a window, and a status that is a
\* timeout, or may be one, has ended it.
WaitOK(c, w, t) ==
  Method(c).engine = "wait" =>
    /\ Unbounded => w.deadline = Never
    /\ ~Unbounded => w.window = Never
    /\ w.deadline # Never /\ w.phase \in {"sent", "served"} => t <= w.deadline
    /\ w.phase = "sleeping" => t <= w.wake /\ (w.deadline # Never => w.wake <= w.deadline)
    /\ w.phase # "done" => w.status \notin {"cancelled", "deadline"}
    /\ w.phase = "done" =>
         /\ w.deadline # Never => w.ended <= w.deadline
         /\ w.outcome = "timeout" => w.ended = w.deadline \/ w.status = "deadline"
         /\ w.outcome = "failed" /\ w.status = "cancelled" =>
              w.deadline = Never \/ w.ended < w.deadline
         /\ w.outcome = "transient" => w.deadline = Never /\ w.ended >= w.window

\* A request that is on its way, or was not executed, is the first of its call.
Fresh(w) == w.phase = "sent" \/ (w.phase = "served" /\ w.reply # "ok")

\* What the sidecar has done, with a executions, l requests that it may still
\* execute and f the caller that was first, fits what the caller knows.
EffectOK(c, w, a, l, f) ==
  /\ w.outcome # "none" => w.phase = "done"
  /\ w.phase = "idle" => w = Idle
  /\ w.sends = 0 => /\ a = 0 /\ l = 0 /\ c \notin f
                    /\ w.phase \in {"idle", "done"} /\ w.outcome \notin {"value", "refused"}
  /\ ((w.phase = "served" /\ w.reply = "ok") \/ w.outcome = "value")
     /\ Method(c).effect # "read" => a > 0
  /\ w.lost = 0 /\ (Fresh(w) \/ w.outcome = "refused") => l = 0 /\ c \notin f
  /\ Method(c).engine = "single" =>
       /\ a + l <= 1
       /\ Fresh(w) => a = 0
       /\ w.phase \in {"sent", "served"} => l = 0

CallOK(c) ==
  /\ PolicyOK(c, caller[c]) /\ WaitOK(c, caller[c], now)
  /\ EffectOK(c, caller[c], applied[c], late[c], first)

CallsInv == CallsTypeOK /\ \A c \in Present : CallOK(c)

----------------------------------------------------------------------------
(* Facts about scenes and steps.                                           *)

\* What a scene tells of a call.
LEMMA SceneFacts ==
  ASSUME CallsTypeOK
  PROVE  /\ Present \subseteq Callers /\ \A c \in Present : Method(c) \in Methods
         /\ scene.attempts \in Nat \cup {-1} /\ scene.timeout \in Nat
         /\ scene.attempts # -1 => Tries \in Nat \ {0}
<1>1. scene \in [method: UNION {[P -> Methods] : P \in SUBSET Callers}, good: BOOLEAN,
                 attempts: Nat \cup {-1}, timeout: Nat, limit: Nat, faults: Nat,
                 bare: BOOLEAN, closes: BOOLEAN]
  BY CallsAssumption DEF CallsTypeOK
<1>2. PICK P \in SUBSET Callers : scene.method \in [P -> Methods]
  BY <1>1
<1>3. Present \subseteq Callers /\ \A c \in Present : Method(c) \in Methods
  BY <1>2 DEF Present, Method
<1> QED
  BY <1>1, <1>3 DEF Tries

\* A call that has not begun.
LEMMA IdleType == Idle \in Records
<1>1. Never \in Times
  BY DEF Times
<1> QED
  BY <1>1 DEF Records, Idle, Phases, Replies, Outcomes, Exceptions, Statuses

\* A step of the call of c, with what it does at the sidecar, preserves the
\* invariant if c is left in order.
LEMMA OneCaller ==
  ASSUME CallsInv, NEW c \in Present, UNCHANGED <<scene, now>>,
         NEW new \in Records, Become(c, new), faults' \in Nat, closed' = closed,
         NEW a \in Nat, applied' = [applied EXCEPT ![c] = a],
         NEW l \in Nat, late' = [late EXCEPT ![c] = l],
         first' \in {first, {c}},
         PolicyOK(c, new), WaitOK(c, new, now), EffectOK(c, new, a, l, first')
  PROVE  CallsInv'
<1> USE SceneFacts DEF CallsInv
<1>1. c \in Callers /\ Present' = Present /\ Tries' = Tries /\ Unbounded' = Unbounded
      /\ \A d \in Present : Method(d)' = Method(d)
  BY DEF Present, Method, Tries, Unbounded
<1>2. CallsTypeOK'
  BY <1>1 DEF CallsTypeOK, Become
<1>3. ASSUME NEW d \in Present PROVE CallOK(d)'
  <2>1. CASE d = c
    <3>1. caller'[c] = new /\ applied'[c] = a /\ late'[c] = l
      BY <1>1 DEF CallsTypeOK, Become
    <3> QED
      BY <1>1, <2>1, <3>1 DEF CallOK, EffectOK, PolicyOK, WaitOK, Fresh, Idle
  <2>2. CASE d # c
    <3>1. caller'[d] = caller[d] /\ applied'[d] = applied[d] /\ late'[d] = late[d]
      BY <1>1, <2>2 DEF CallsTypeOK, Become
    <3>2. d \notin first => d \notin first'
      BY <2>2
    <3>3. CallOK(d)
      OBVIOUS
    <3> QED
      BY <1>1, <3>1, <3>2, <3>3 DEF CallOK, EffectOK, PolicyOK, WaitOK, Fresh
  <2> QED
    BY <2>1, <2>2
<1> QED
  BY <1>1, <1>2, <1>3

\* A step of c that the sidecar has no part in.
LEMMA OwnStep ==
  ASSUME CallsInv, NEW c \in Present, UNCHANGED <<scene, now, applied, late, first, closed, faults>>,
         NEW new \in Records, Become(c, new),
         PolicyOK(c, new), WaitOK(c, new, now), EffectOK(c, new, applied[c], late[c], first)
  PROVE  CallsInv'
<1>1. c \in Callers /\ applied[c] \in Nat /\ late[c] \in Nat /\ faults' \in Nat
  BY SceneFacts DEF CallsInv, CallsTypeOK
<1>2. applied' = [applied EXCEPT ![c] = applied[c]] /\ late' = [late EXCEPT ![c] = late[c]]
  BY <1>1 DEF CallsInv, CallsTypeOK
<1> QED
  BY <1>1, <1>2, OneCaller

\* What is known of the call of c.
LEMMA CallFacts ==
  ASSUME CallsInv, NEW c \in Present
  PROVE  /\ c \in Callers /\ caller[c] \in Records /\ Method(c) \in Methods
         /\ applied[c] \in Nat /\ late[c] \in Nat /\ now \in Nat /\ faults \in Nat
         /\ PolicyOK(c, caller[c]) /\ WaitOK(c, caller[c], now)
         /\ EffectOK(c, caller[c], applied[c], late[c], first)
         /\ scene.attempts \in Nat \cup {-1} /\ scene.timeout \in Nat
         /\ scene.attempts # -1 => Tries \in Nat \ {0}
BY SceneFacts DEF CallsInv, CallsTypeOK, CallOK

----------------------------------------------------------------------------
(* The end of a call.                                                      *)

\* The record of a call that ends with status s and k as the start of its streak.
Over(w, s, k, what, raised) == End([w EXCEPT !.status = s, !.streak = k], what, raised)

\* What the end of a call changes.
LEMMA OverFields ==
  ASSUME NEW w \in Records, now \in Nat, NEW s \in Statuses, NEW k \in Nat,
         NEW o \in Outcomes, NEW e \in Exceptions
  PROVE  /\ Over(w, s, k, o, e) \in Records
         /\ Over(w, s, k, o, e).phase = "done" /\ Over(w, s, k, o, e).outcome = o
         /\ Over(w, s, k, o, e).ended = now /\ Over(w, s, k, o, e).status = s
         /\ Over(w, s, k, o, e).alpha = w.alpha /\ Over(w, s, k, o, e).attempt = w.attempt
         /\ Over(w, s, k, o, e).sends = w.sends /\ Over(w, s, k, o, e).lost = w.lost
         /\ Over(w, s, k, o, e).reply = w.reply /\ Over(w, s, k, o, e).deadline = w.deadline
         /\ Over(w, s, k, o, e).window = w.window
<1>1. now \in Times /\ "done" \in Phases
  BY DEF Times, Phases
<1>2. Over(w, s, k, o, e) \in Records
  BY <1>1 DEF Over, End, Records
<1> QED
  BY <1>2 DEF Over, End, Records

\* An end that no status brought.
LEMMA OverSame ==
  ASSUME NEW w \in Records, NEW o, NEW e
  PROVE  End(w, o, e) = Over(w, w.status, w.streak, o, e) /\ w.status \in Statuses /\ w.streak \in Nat
<1>1. w = [w EXCEPT !.status = w.status, !.streak = w.streak]
  BY DEF Records
<1> QED
  BY <1>1 DEF Over, Records

\* A call that has not ended may end with any outcome that is no promise, or
\* whose promise is kept, and a request of it be left behind when it was sent.
LEMMA OverOK ==
  ASSUME CallsInv, NEW c \in Present, caller[c].phase # "done", NEW s \in Statuses, NEW k \in Nat,
         NEW o \in Outcomes \ {"none"}, NEW e \in Exceptions, NEW l \in Nat,
         l = late[c] \/ (l = late[c] + 1 /\ caller[c].phase = "sent"),
         o = "value" => caller[c].phase = "served" /\ caller[c].reply = "ok" /\ l = late[c],
         o = "refused" => caller[c].phase = "served" /\ caller[c].reply # "ok" /\ l = late[c],
         Method(c).engine = "wait" =>
           /\ o = "timeout" => \/ caller[c].deadline # Never /\ now >= caller[c].deadline
                               \/ s = "deadline"
           /\ o = "failed" /\ s = "cancelled" =>
                ~(caller[c].deadline # Never /\ now >= caller[c].deadline)
           /\ o = "transient" => caller[c].deadline = Never /\ now >= caller[c].window
  PROVE  LET new == Over(caller[c], s, k, o, e) IN
         /\ new \in Records /\ PolicyOK(c, new) /\ WaitOK(c, new, now)
         /\ EffectOK(c, new, applied[c], l, first)
<1> USE CallFacts
<1> DEFINE new == Over(caller[c], s, k, o, e)
<1>1. /\ new \in Records /\ new.phase = "done" /\ new.outcome = o /\ new.ended = now
      /\ new.status = s /\ new.alpha = caller[c].alpha /\ new.attempt = caller[c].attempt
      /\ new.sends = caller[c].sends /\ new.lost = caller[c].lost /\ new.reply = caller[c].reply
      /\ new.deadline = caller[c].deadline /\ new.window = caller[c].window
  BY OverFields
<1> HIDE DEF new
<1>2. PolicyOK(c, new)
  BY <1>1 DEF PolicyOK
<1>3. WaitOK(c, new, now)
  <2> SUFFICES ASSUME Method(c).engine = "wait" PROVE WaitOK(c, new, now)
    BY DEF WaitOK
  <2>1. caller[c].deadline # Never => now <= caller[c].deadline
    <3>1. caller[c].phase \in {"idle", "sent", "served", "sleeping"}
      BY DEF Records, Phases
    <3>2. caller[c].phase = "idle" => caller[c].deadline = Never
      BY DEF EffectOK, Idle
    <3>3. /\ caller[c].deadline \in Nat \cup {-1} /\ caller[c].wake \in Nat \cup {-1}
      BY DEF Records, Times, Never
    <3> QED
      BY <3>1, <3>2, <3>3 DEF WaitOK
  <2>2. caller[c].deadline \in Nat \cup {-1}
    BY DEF Records, Times, Never
  <2> QED
    BY <1>1, <2>1, <2>2 DEF WaitOK, Never
<1>4. EffectOK(c, new, applied[c], l, first)
  BY <1>1 DEF EffectOK, Fresh, Records, Idle
<1> QED
  BY <1>1, <1>2, <1>3, <1>4 DEF new

\* The end of a call that is told by its caller only.
LEMMA FinishInv ==
  ASSUME CallsInv, NEW c \in Present, UNCHANGED <<scene, now, applied, late, first, closed, faults>>,
         caller[c].phase # "done", NEW o \in Outcomes \ {"none"}, NEW e \in Exceptions,
         Finish(c, o, e),
         o = "value" => caller[c].phase = "served" /\ caller[c].reply = "ok",
         o = "refused" => caller[c].phase = "served" /\ caller[c].reply # "ok",
         Method(c).engine = "wait" =>
           /\ o = "timeout" => caller[c].deadline # Never /\ now >= caller[c].deadline
           /\ o # "transient"
  PROVE  CallsInv'
<1> DEFINE w == caller[c]
           new == Over(w, w.status, w.streak, o, e)
<1>1. /\ Become(c, new) /\ late[c] \in Nat /\ w.status \in Statuses /\ w.streak \in Nat
  BY CallFacts, OverSame DEF Finish
<1>2. Method(c).engine = "wait" => w.status # "cancelled"
  BY CallFacts DEF WaitOK
<1>3. /\ new \in Records /\ PolicyOK(c, new) /\ WaitOK(c, new, now)
      /\ EffectOK(c, new, applied[c], late[c], first)
  BY <1>1, <1>2, OverOK
<1> QED
  BY <1>1, <1>3, OwnStep

\* A request of a call: the record.
Sent(w) == [w EXCEPT !.phase = "sent", !.sends = @ + 1, !.sentAt = now]

\* What a send changes.
LEMMA SentFields ==
  ASSUME NEW w \in Records, now \in Nat
  PROVE  /\ Sent(w) \in Records
         /\ Sent(w).phase = "sent" /\ Sent(w).sends = w.sends + 1
         /\ Sent(w).alpha = w.alpha /\ Sent(w).attempt = w.attempt /\ Sent(w).lost = w.lost
         /\ Sent(w).reply = w.reply /\ Sent(w).outcome = w.outcome /\ Sent(w).window = w.window
         /\ Sent(w).deadline = w.deadline /\ Sent(w).status = w.status
<1>1. w.sends + 1 \in Nat
  BY DEF Records
<1>2. Sent(w) \in Records
  BY <1>1 DEF Sent, Records, Phases
<1> QED
  BY <1>2 DEF Sent, Records

\* A send of a record that is in order once sent, or its end on a closed channel.
LEMMA SendInv ==
  ASSUME CallsInv, NEW c \in Present, UNCHANGED <<scene, now, applied, late, first, closed, faults>>,
         caller[c].phase # "done",
         NEW new \in Records, Send(c, new),
         PolicyOK(c, Sent(new)), WaitOK(c, Sent(new), now),
         EffectOK(c, Sent(new), applied[c], late[c], first)
  PROVE  CallsInv'
<1> USE CallFacts
<1>1. CASE ChannelClosed(c)
  <2>1. Finish(c, "closed", "ValueError")
    BY <1>1 DEF Send
  <2> QED
    BY <2>1, FinishInv DEF Outcomes, Exceptions
<1>2. CASE ~ChannelClosed(c)
  <2>1. Become(c, Sent(new))
    BY <1>2 DEF Send, Sent
  <2>2. Sent(new) \in Records
    BY SentFields
  <2> QED
    BY <2>1, <2>2, OwnStep
<1> QED
  BY <1>1, <1>2

\* The exceptions that a method may raise.
LEMMA RaisesKnown ==
  ASSUME CallsInv, NEW c \in Present
  PROVE  Method(c).raises \in Exceptions
BY CallFacts DEF Methods, Exceptions

----------------------------------------------------------------------------
(* The steps of a call.                                                    *)

\* The first request, or bad arguments.
LEMMA BeginInv ==
  ASSUME CallsInv, NEW c \in Present, Begin(c)
  PROVE  CallsInv'
<1> USE CallFacts
<1>1. UNCHANGED <<scene, now, applied, late, first, closed, faults>> /\ caller[c].phase = "idle"
  BY DEF Begin
<1>2. caller[c] = Idle
  BY <1>1 DEF EffectOK
<1>5. applied[c] = 0 /\ late[c] = 0 /\ c \notin first
  <2>1. caller[c].sends = 0
    BY <1>2 DEF Idle
  <2> QED
    BY <2>1 DEF EffectOK
<1>3. CASE Method(c).checks /\ ~scene.good
  <2>1. Finish(c, "argument", "ValueError")
    BY <1>3 DEF Begin
  <2> QED
    BY <1>1, <2>1, FinishInv DEF Outcomes, Exceptions
<1>4. CASE ~(Method(c).checks /\ ~scene.good)
  <2> DEFINE d == IF Method(c).engine = "wait" /\ ~Unbounded THEN now + scene.timeout ELSE Never
             new == [Idle EXCEPT !.deadline = d]
  <2>1. Send(c, new)
    BY <1>4 DEF Begin
  <2>2. d \in Times /\ (d # Never => now <= d /\ ~Unbounded)
        /\ (Method(c).engine = "wait" /\ Unbounded => d = Never)
    BY DEF Times, Never
  <2> HIDE DEF d
  <2>3. new \in Records
    BY <2>2, IdleType DEF Records
  <2>4. /\ new.sends = 0 /\ new.attempt = 0 /\ new.alpha = FALSE /\ new.lost = 0
        /\ new.outcome = "none" /\ new.deadline = d /\ new.window = Never /\ new.status = "none"
    BY DEF Idle
  <2> HIDE DEF new
  <2>5. PolicyOK(c, Sent(new))
    BY <2>3, <2>4, SentFields DEF PolicyOK
  <2>6. WaitOK(c, Sent(new), now)
    BY <2>2, <2>3, <2>4, SentFields DEF WaitOK
  <2>7. EffectOK(c, Sent(new), applied[c], late[c], first)
    BY <1>5, <2>3, <2>4, SentFields DEF EffectOK, Fresh
  <2> QED
    BY <1>1, <2>1, <2>3, <2>5, <2>6, <2>7, SendInv
<1> QED
  BY <1>3, <1>4

\* The next attempt of a policy: a sleeper has one.
LEMMA PolicyRetriesInv ==
  ASSUME CallsInv, NEW c \in Present, PolicyRetries(c)
  PROVE  CallsInv'
<1> USE CallFacts
<1> DEFINE new == [caller[c] EXCEPT !.attempt = @ + 1]
<1>1. UNCHANGED <<scene, now, applied, late, first, closed, faults>> /\ Send(c, new)
      /\ caller[c].phase = "sleeping" /\ Method(c).engine # "wait"
  BY DEF PolicyRetries
<1>2. new \in Records
  <2>1. caller[c].attempt + 1 \in Nat
    BY DEF Records
  <2> QED
    BY <2>1 DEF Records
<1>3. /\ new.sends = caller[c].sends /\ new.attempt = caller[c].attempt + 1
      /\ new.alpha = caller[c].alpha /\ new.lost = caller[c].lost
      /\ new.outcome = caller[c].outcome
      /\ caller[c].sends \in Nat /\ caller[c].attempt \in Nat
  BY DEF Records
<1> HIDE DEF new
<1>4. PolicyOK(c, Sent(new))
  BY <1>1, <1>2, <1>3, SentFields DEF PolicyOK
<1>5. WaitOK(c, Sent(new), now)
  BY <1>1 DEF WaitOK
<1>6. EffectOK(c, Sent(new), applied[c], late[c], first)
  BY <1>1, <1>2, <1>3, SentFields DEF EffectOK, PolicyOK, Fresh
<1> QED
  BY <1>1, <1>2, <1>4, <1>5, <1>6, SendInv

\* The next call of a wait, if there is time left.
LEMMA WaitRetriesInv ==
  ASSUME CallsInv, NEW c \in Present, WaitRetries(c)
  PROVE  CallsInv'
<1> USE CallFacts
<1>1. UNCHANGED <<scene, now, applied, late, first, closed, faults>>
      /\ caller[c].phase = "sleeping" /\ Method(c).engine = "wait" /\ now >= caller[c].wake
  BY DEF WaitRetries
<1>2. CASE caller[c].deadline # Never /\ now >= caller[c].deadline
  <2>1. Finish(c, "timeout", "TimeoutError")
    BY <1>2 DEF WaitRetries
  <2> QED
    BY <1>1, <1>2, <2>1, FinishInv DEF Outcomes, Exceptions
<1>3. CASE ~(caller[c].deadline # Never /\ now >= caller[c].deadline)
  <2>1. Send(c, caller[c])
    BY <1>3 DEF WaitRetries
  <2>5. caller[c].sends \in Nat /\ caller[c].deadline \in Nat \cup {-1}
    BY DEF Records, Times, Never
  <2>2. PolicyOK(c, Sent(caller[c]))
    BY <1>1, SentFields DEF PolicyOK
  <2>3. WaitOK(c, Sent(caller[c]), now)
    BY <1>1, <1>3, <2>5, SentFields DEF WaitOK
  <2>4. EffectOK(c, Sent(caller[c]), applied[c], late[c], first)
    BY <1>1, <2>5, SentFields DEF EffectOK, PolicyOK, Fresh
  <2> QED
    BY <1>1, <2>1, <2>2, <2>3, <2>4, SendInv
<1> QED
  BY <1>2, <1>3

\* The reply of the sidecar.
LEMMA RepliedInv ==
  ASSUME CallsInv, NEW c \in Present, Replied(c)
  PROVE  CallsInv'
<1> USE CallFacts
<1>1. UNCHANGED <<scene, now, applied, late, first, closed, faults>> /\ caller[c].phase = "served"
  BY DEF Replied
<1>2. Method(c).raises \in Exceptions
  BY RaisesKnown
<1>3. CASE caller[c].reply = "ok"
  <2>1. Finish(c, "value", "none")
    BY <1>3 DEF Replied
  <2> QED
    BY <1>1, <1>3, <2>1, FinishInv DEF Outcomes, Exceptions
<1>4. CASE caller[c].reply = "refused"
  <2>1. Finish(c, "refused", "none") \/ Finish(c, "refused", Method(c).raises)
    BY <1>4 DEF Replied, Fail
  <2> QED
    BY <1>1, <1>2, <1>4, <2>1, FinishInv DEF Outcomes, Exceptions
<1>5. CASE caller[c].reply = "unimplemented" /\ Method(c).alpha /\ ~caller[c].alpha
  <2> DEFINE new == [caller[c] EXCEPT !.alpha = TRUE, !.attempt = 0]
  <2>1. Send(c, new)
    BY <1>5 DEF Replied
  <2>2. new \in Records
    BY DEF Records
  <2>3. /\ new.sends = caller[c].sends /\ new.attempt = 0 /\ new.alpha = TRUE
        /\ new.lost = caller[c].lost /\ new.outcome = caller[c].outcome
        /\ new.deadline = caller[c].deadline /\ new.window = caller[c].window
        /\ new.status = caller[c].status /\ caller[c].sends \in Nat /\ caller[c].attempt \in Nat
    BY DEF Records
  <2> HIDE DEF new
  <2>4. PolicyOK(c, Sent(new))
    BY <1>1, <1>5, <2>2, <2>3, SentFields DEF PolicyOK
  <2>5. WaitOK(c, Sent(new), now)
    BY <1>1, <2>2, <2>3, SentFields DEF WaitOK
  <2>6. EffectOK(c, Sent(new), applied[c], late[c], first)
    BY <1>1, <1>5, <2>2, <2>3, SentFields DEF EffectOK, Fresh
  <2> QED
    BY <1>1, <2>1, <2>2, <2>4, <2>5, <2>6, SendInv
<1>6. CASE /\ caller[c].reply \notin {"ok", "refused"}
           /\ ~(caller[c].reply = "unimplemented" /\ Method(c).alpha /\ ~caller[c].alpha)
  <2>1. Finish(c, "failed", Method(c).raises)
    BY <1>6 DEF Replied, Fail
  <2> QED
    BY <1>1, <1>2, <2>1, FinishInv DEF Outcomes
<1> QED
  BY <1>3, <1>4, <1>5, <1>6

\* The record of a call that sleeps before its next attempt.
Asleep(w, s, window, streak, wake, backoff) ==
  [w EXCEPT !.phase = "sleeping", !.lost = @ + 1, !.status = s, !.window = window,
            !.streak = streak, !.wake = wake, !.backoff = backoff]

LEMMA AsleepRecord ==
  ASSUME NEW w \in Records, NEW s \in Statuses, NEW window \in Times, NEW streak \in Nat,
         NEW wake \in Times, NEW backoff \in Nat \ {0}
  PROVE  Asleep(w, s, window, streak, wake, backoff) \in Records
<1>1. w.lost + 1 \in Nat
  BY DEF Records
<1> QED
  BY <1>1 DEF Asleep, Records, Phases

\* A sleep is in order if an attempt is left, and ends by the deadline of a wait.
LEMMA AsleepOK ==
  ASSUME CallsInv, NEW c \in Present, caller[c].phase \in {"sent", "served"}, NEW l \in Nat,
         Method(c).engine # "single", NEW s \in Statuses,
         NEW window \in Times, NEW streak \in Nat, NEW wake \in Times, NEW backoff \in Nat \ {0},
         Method(c).engine \in {"rpc", "http"} /\ scene.attempts # -1 =>
           caller[c].attempt + 1 < Tries,
         Method(c).engine = "wait" =>
           /\ ~Unbounded => window = Never
           /\ s \notin {"cancelled", "deadline"}
           /\ now <= wake /\ (caller[c].deadline # Never => wake <= caller[c].deadline)
  PROVE  LET new == Asleep(caller[c], s, window, streak, wake, backoff) IN
         /\ new \in Records /\ PolicyOK(c, new) /\ WaitOK(c, new, now)
         /\ EffectOK(c, new, applied[c], l, first)
<1> USE CallFacts
<1> DEFINE new == Asleep(caller[c], s, window, streak, wake, backoff)
<1>1. caller[c].lost + 1 \in Nat /\ caller[c].lost \in Nat
  BY DEF Records
<1>2. new \in Records
  BY AsleepRecord
<1>3. /\ new.phase = "sleeping" /\ new.lost = caller[c].lost + 1 /\ new.window = window
      /\ new.wake = wake /\ new.alpha = caller[c].alpha /\ new.attempt = caller[c].attempt
      /\ new.sends = caller[c].sends /\ new.outcome = caller[c].outcome
      /\ new.deadline = caller[c].deadline /\ new.status = s
  BY DEF Asleep, Records
<1> HIDE DEF new
<1>4. PolicyOK(c, new)
  BY <1>1, <1>3 DEF PolicyOK
<1>5. WaitOK(c, new, now)
  BY <1>3 DEF WaitOK
<1>6. EffectOK(c, new, applied[c], l, first)
  BY <1>1, <1>3 DEF EffectOK, Fresh
<1> QED
  BY <1>2, <1>4, <1>5, <1>6 DEF new

\* A set of numbers has a least element, and Least finds it.
LEMMA LeastOf ==
  ASSUME NEW S, S \subseteq Nat, S # {}
  PROVE  Least(S) \in S /\ \A y \in S : Least(S) <= y
<1> DEFINE R == OpToRel(<, Nat)
<1>1. IsWellFoundedOn(R, Nat)
  BY NatLessThanWellFounded
<1>2. \A x, y \in Nat : x < y => <<x, y>> \in R
  BY DEF OpToRel
<1> HIDE DEF R
<1>3. PICK x \in S : \A y \in S : ~(<<y, x>> \in R)
  BY <1>1, WFMin
<1>4. ASSUME NEW y \in S PROVE x <= y
  <2>1. x \in Nat /\ y \in Nat /\ ~(y < x)
    BY <1>2, <1>3
  <2> QED
    BY <2>1
<1> QED
  BY <1>4 DEF Least

\* A wait that fails sleeps no longer than it has time, or ends.
LEMMA WaitFailsStep ==
  ASSUME CallsInv, NEW c \in Present, caller[c].phase \in {"sent", "served"},
         Method(c).engine = "wait", NEW code \in ErrorsOf("wait"), WaitFails(c, code), NEW l \in Nat,
         l = late[c] \/ (l = late[c] + 1 /\ caller[c].phase = "sent")
  PROVE  \E new \in Records :
           /\ Become(c, new) /\ PolicyOK(c, new) /\ WaitOK(c, new, now)
           /\ EffectOK(c, new, applied[c], l, first)
<1> USE CallFacts
<1> DEFINE w == caller[c]
           spent == w.deadline # Never /\ now >= w.deadline
           over == Unbounded /\ w.window # Never /\ now >= w.window
           window == OpenWindow(w)
           wake == now + SleepFor(w, window)
           backoff == Least({2 * w.backoff, BackoffCap})
           Ends(k, o, e) == Become(c, Over(w, code, k, o, e))
           sleeps == Become(c, Asleep(w, code, window, Streak(w), wake, backoff))
<1>1. \/ Ends(w.streak, "timeout", "TimeoutError") /\ (spent \/ code = "deadline")
      \/ Ends(w.streak, "failed", Method(c).raises) /\ ~(code = "cancelled" /\ spent)
      \/ Ends(Streak(w), "transient", "RpcError") /\ over
      \/ sleeps /\ code \in TransientRpcCodes /\ ~spent /\ ~over
  <2> DEFINE v == [w EXCEPT !.status = code]
  <2>1. /\ v.deadline = w.deadline /\ v.window = w.window /\ v.backoff = w.backoff
        /\ v.sentAt = w.sentAt /\ v.streak = w.streak
    BY DEF Records
  <2>2. v = [w EXCEPT !.status = code, !.streak = w.streak]
    BY DEF Records
  <2>3. [v EXCEPT !.streak = Streak(w)] = [w EXCEPT !.status = code, !.streak = Streak(w)]
    BY DEF Records
  <2>4. [v EXCEPT !.phase = "sleeping", !.lost = @ + 1, !.window = window, !.streak = Streak(w),
                  !.wake = wake, !.backoff = Least({2 * @, BackoffCap})]
          = Asleep(w, code, window, Streak(w), wake, backoff)
    <3> HIDE DEF window, wake
    <3> QED
      BY DEF Asleep, Records
  <2> HIDE DEF v
  <2>5. Streak(v) = Streak(w) /\ OpenWindow(v) = window /\ SleepFor(v, window) = SleepFor(w, window)
    BY <2>1 DEF Streak, OpenWindow, SleepFor
  <2>6. \/ Become(c, End(v, "timeout", "TimeoutError")) /\ (spent \/ code = "deadline")
        \/ Become(c, End(v, "failed", Method(c).raises)) /\ ~(code = "cancelled" /\ spent)
        \/ Become(c, End([v EXCEPT !.streak = Streak(v)], "transient", "RpcError")) /\ over
        \/ /\ code \in TransientRpcCodes /\ ~spent /\ ~over
           /\ Become(c, [v EXCEPT !.phase = "sleeping", !.lost = @ + 1, !.window = OpenWindow(v),
                                  !.streak = Streak(v), !.wake = now + SleepFor(v, OpenWindow(v)),
                                  !.backoff = Least({2 * @, BackoffCap})])
    BY <2>1 DEF WaitFails, v
  <2> HIDE DEF window
  <2> QED
    BY <2>2, <2>3, <2>4, <2>5, <2>6 DEF Over, v
<1>2. /\ w.deadline \in Nat \cup {-1} /\ w.window \in Nat \cup {-1} /\ w.backoff \in Nat \ {0}
      /\ w.streak \in Nat /\ Window \in Nat /\ BackoffCap \in Nat \ {0} /\ code \in Statuses
  BY CallsAssumption DEF Records, Times, Never, Statuses
<1>3. Streak(w) \in Nat
  BY <1>2 DEF Streak
<1>4. ASSUME NEW k \in Nat, NEW o \in {"timeout", "failed", "transient"}, NEW e \in Exceptions,
             Ends(k, o, e),
             o = "timeout" => spent \/ code = "deadline",
             o = "failed" => ~(code = "cancelled" /\ spent),
             o = "transient" => over
      PROVE \E new \in Records :
           /\ Become(c, new) /\ PolicyOK(c, new) /\ WaitOK(c, new, now)
           /\ EffectOK(c, new, applied[c], l, first)
  <2>1. o \in Outcomes \ {"none"}
    BY DEF Outcomes
  <2>2. over => w.deadline = Never
    BY DEF WaitOK
  <2>3. LET new == Over(w, code, k, o, e) IN
        /\ new \in Records /\ PolicyOK(c, new) /\ WaitOK(c, new, now)
        /\ EffectOK(c, new, applied[c], l, first)
    BY <1>2, <1>4, <2>1, <2>2, OverOK
  <2> QED
    BY <1>4, <2>3
<1>7. ASSUME sleeps, code \in TransientRpcCodes, ~spent, ~over
      PROVE \E new \in Records :
           /\ Become(c, new) /\ PolicyOK(c, new) /\ WaitOK(c, new, now)
           /\ EffectOK(c, new, applied[c], l, first)
  <2>1. /\ window \in Times /\ (~Unbounded => window = Never)
        /\ window # Never => window - now \in Nat
    <3>1. CASE Unbounded
      BY <1>2, <1>7, <3>1 DEF OpenWindow, Times, Never
    <3>2. CASE ~Unbounded
      BY <3>2 DEF OpenWindow, Times, WaitOK
    <3> QED
      BY <3>1, <3>2
  <2>2. w.deadline # Never => w.deadline - now \in Nat
    BY <1>2, <1>7 DEF Never
  <2>3. SleepFor(w, window) \in Nat
        /\ (w.deadline # Never => SleepFor(w, window) <= w.deadline - now)
    <3> DEFINE B == IF w.deadline = Never THEN {} ELSE {w.deadline - now}
               C == IF window = Never THEN {} ELSE {window - now}
               S == {w.backoff} \cup B \cup C
    <3> HIDE DEF window
    <3>1. S \subseteq Nat /\ w.backoff \in S
      BY <1>2, <2>1, <2>2
    <3>2. w.deadline # Never => w.deadline - now \in S
      OBVIOUS
    <3>3. SleepFor(w, window) = Least(S)
      BY DEF SleepFor
    <3> HIDE DEF S
    <3> QED
      BY <3>1, <3>2, <3>3, LeastOf
  <2>4. backoff \in Nat \ {0}
    <3> DEFINE S == {2 * w.backoff, BackoffCap}
    <3>1. S \subseteq Nat \ {0} /\ S # {}
      BY <1>2
    <3> HIDE DEF S
    <3>2. Least(S) \in S
      BY <3>1, LeastOf
    <3> QED
      BY <3>1, <3>2 DEF S
  <2>5. wake \in Times /\ now <= wake /\ (w.deadline # Never => wake <= w.deadline)
    BY <1>2, <2>3 DEF Times, Never
  <2>7. code \notin {"cancelled", "deadline"}
    BY <1>7 DEF TransientRpcCodes
  <2> HIDE DEF window, wake, backoff
  <2>6. LET new == Asleep(w, code, window, Streak(w), wake, backoff) IN
         /\ new \in Records /\ PolicyOK(c, new) /\ WaitOK(c, new, now)
         /\ EffectOK(c, new, applied[c], l, first)
    BY <1>2, <1>3, <2>1, <2>4, <2>5, <2>7, AsleepOK
  <2> QED
    BY <1>7, <2>6
<1>8. Method(c).raises \in Exceptions /\ "TimeoutError" \in Exceptions /\ "RpcError" \in Exceptions
  BY RaisesKnown DEF Exceptions
<1> HIDE DEF Ends, sleeps, spent, over
<1> QED
  BY <1>1, <1>2, <1>3, <1>4, <1>7, <1>8

\* The deadline of a wait on the wire: the caller's, or the limit of its call.
LEMMA WaitExpiresInv ==
  ASSUME CallsInv, NEW c \in Present, WaitExpires(c)
  PROVE  CallsInv'
<1> USE CallFacts
<1>1. /\ UNCHANGED <<scene, now, applied, late, first, closed, faults>>
      /\ caller[c].phase \in {"sent", "served"} /\ Method(c).engine = "wait"
  BY DEF WaitExpires, CallDeadline
<1>2. CASE Unbounded
  <2>1. WaitFails(c, "deadline") /\ "deadline" \in ErrorsOf("wait")
    BY <1>2 DEF WaitExpires, ErrorsOf
  <2> QED
    BY <1>1, <2>1, WaitFailsStep, OwnStep
<1>3. CASE ~Unbounded
  <2>1. Finish(c, "timeout", "TimeoutError")
    BY <1>3 DEF WaitExpires
  <2>2. caller[c].deadline # Never /\ now >= caller[c].deadline
    BY <1>1, <1>3 DEF WaitExpires, CallDeadline, WaitOK
  <2> QED
    BY <1>1, <2>1, <2>2, FinishInv DEF Outcomes, Exceptions
<1> QED
  BY <1>2, <1>3

\* An attempt fails.
LEMMA FailsInv ==
  ASSUME CallsInv, NEW c \in Present, Fails(c)
  PROVE  CallsInv'
<1> USE CallFacts
<1>1. /\ UNCHANGED <<scene, now, applied, first, closed>> /\ faults' \in Nat
      /\ caller[c].phase \in {"sent", "served"}
  BY DEF Fails
<1>2. PICK l \in Nat : /\ late' = [late EXCEPT ![c] = l]
                       /\ l = late[c] \/ (l = late[c] + 1 /\ caller[c].phase = "sent")
  <2>1. CASE UNCHANGED late
    <3>1. late' = [late EXCEPT ![c] = late[c]]
      BY <2>1 DEF CallsInv, CallsTypeOK
    <3> QED
      BY <3>1
  <2>2. CASE caller[c].phase = "sent" /\ late' = [late EXCEPT ![c] = @ + 1]
    <3>1. late[c] + 1 \in Nat /\ late' = [late EXCEPT ![c] = late[c] + 1]
      BY <2>2
    <3> QED
      BY <2>2, <3>1
  <2> QED
    BY <2>1, <2>2 DEF Fails
<1>3. PICK code \in ErrorsOf(Method(c).engine) :
        IF Method(c).engine = "wait" THEN WaitFails(c, code) ELSE PolicyFails(c, code)
  BY DEF Fails
<1>4. \E new \in Records :
        /\ Become(c, new) /\ PolicyOK(c, new) /\ WaitOK(c, new, now)
        /\ EffectOK(c, new, applied[c], l, first)
  <2>1. CASE Method(c).engine = "wait"
    BY <1>1, <1>2, <1>3, <2>1, WaitFailsStep DEF Statuses
  <2>2. CASE Method(c).engine # "wait" /\ code \in Retryable(Method(c).engine)
             /\ ~LastAttempt(caller[c].attempt)
    <3> DEFINE w == caller[c]
    <3>1. Become(c, [w EXCEPT !.phase = "sleeping", !.lost = @ + 1])
      BY <1>3, <2>2 DEF PolicyFails
    <3>2. /\ w.status \in Statuses /\ w.window \in Times /\ w.streak \in Nat /\ w.wake \in Times /\ w.backoff \in Nat \ {0}
          /\ w.attempt \in Nat
      BY DEF Records
    <3>3. [w EXCEPT !.phase = "sleeping", !.lost = @ + 1]
            = Asleep(w, w.status, w.window, w.streak, w.wake, w.backoff)
      BY DEF Asleep, Records
    <3>4. Method(c).engine # "single"
      BY <2>2 DEF Retryable
    <3>5. Method(c).engine \in {"rpc", "http"} /\ scene.attempts # -1 => w.attempt + 1 < Tries
      BY <2>2, <3>2 DEF LastAttempt, PolicyOK, Tries
    <3>6. LET new == Asleep(w, w.status, w.window, w.streak, w.wake, w.backoff) IN
         /\ new \in Records /\ PolicyOK(c, new) /\ WaitOK(c, new, now)
         /\ EffectOK(c, new, applied[c], l, first)
      BY <1>1, <2>2, <3>2, <3>4, <3>5, AsleepOK
    <3> QED
      BY <3>1, <3>3, <3>6
  <2>3. CASE Method(c).engine # "wait"
             /\ ~(code \in Retryable(Method(c).engine) /\ ~LastAttempt(caller[c].attempt))
    <3>1. PICK e \in Exceptions : Finish(c, "failed", e)
      <4>1. Method(c).raises \in Exceptions /\ "ClientError" \in Exceptions
        BY RaisesKnown DEF Exceptions
      <4> QED
        BY <1>3, <2>3, <4>1 DEF PolicyFails, GiveUp
    <3> DEFINE w == caller[c]
               new == Over(w, w.status, w.streak, "failed", e)
    <3>2. Become(c, new) /\ w.status \in Statuses /\ w.streak \in Nat
      BY <3>1, OverSame DEF Finish
    <3>3. /\ new \in Records /\ PolicyOK(c, new) /\ WaitOK(c, new, now)
          /\ EffectOK(c, new, applied[c], l, first)
      BY <1>1, <1>2, <2>3, <3>2, OverOK DEF Outcomes
    <3> QED
      BY <3>2, <3>3
  <2> QED
    BY <2>1, <2>2, <2>3
<1>5. applied' = [applied EXCEPT ![c] = applied[c]]
  BY <1>1 DEF CallsInv, CallsTypeOK
<1> QED
  BY <1>1, <1>2, <1>4, <1>5, OneCaller

LEMMA ServedRecord ==
  ASSUME NEW w \in Records, NEW r \in Replies
  PROVE  [w EXCEPT !.phase = "served", !.reply = r] \in Records
BY DEF Records, Phases

\* The sidecar answers, and executes what it accepts.
LEMMA ServeInv ==
  ASSUME CallsInv, NEW c \in Present, Serve(c)
  PROVE  CallsInv'
<1> USE CallFacts
<1> DEFINE new == [caller[c] EXCEPT !.phase = "served", !.reply = ReplyTo(c)]
<1>1. /\ UNCHANGED <<scene, now, late, closed, faults>> /\ caller[c].phase = "sent"
      /\ Become(c, new)
  BY DEF Serve
<1>2. ReplyTo(c) \in Replies \ {"none"}
  BY DEF ReplyTo, Replies
<1>3. new \in Records
  BY <1>2, ServedRecord
<1>4. /\ new.phase = "served" /\ new.reply = ReplyTo(c) /\ new.alpha = caller[c].alpha
      /\ new.attempt = caller[c].attempt /\ new.sends = caller[c].sends
      /\ new.lost = caller[c].lost /\ new.outcome = caller[c].outcome
      /\ new.deadline = caller[c].deadline /\ new.window = caller[c].window
      /\ new.status = caller[c].status
  BY DEF Records
<1> HIDE DEF new
<1>5. PolicyOK(c, new)
  BY <1>1, <1>4 DEF PolicyOK
<1>6. WaitOK(c, new, now)
  BY <1>1, <1>4 DEF WaitOK
<1>7. late' = [late EXCEPT ![c] = late[c]]
  BY <1>1 DEF CallsInv, CallsTypeOK
<1>8. CASE ReplyTo(c) = "ok" /\ Method(c).effect # "read"
  <2>1. /\ applied' = [applied EXCEPT ![c] = applied[c] + 1] /\ first' \in {first, {c}}
        /\ applied[c] + 1 \in Nat
    BY <1>8 DEF Serve, Execute, ReplyTo
  <2>2. EffectOK(c, new, applied[c] + 1, late[c], first')
    BY <1>1, <1>4, <1>8, <2>1 DEF EffectOK, Fresh
  <2> QED
    BY <1>1, <1>3, <1>5, <1>6, <1>7, <2>1, <2>2, OneCaller
<1>9. CASE ~(ReplyTo(c) = "ok" /\ Method(c).effect # "read")
  <2>1. UNCHANGED <<applied, first>>
    BY <1>9 DEF Serve, Execute
  <2>2. applied' = [applied EXCEPT ![c] = applied[c]]
    BY <2>1 DEF CallsInv, CallsTypeOK
  <2>3. EffectOK(c, new, applied[c], late[c], first')
    BY <1>1, <1>4, <1>9, <2>1 DEF EffectOK, Fresh
  <2> QED
    BY <1>1, <1>3, <1>5, <1>6, <1>7, <2>1, <2>2, <2>3, OneCaller
<1> QED
  BY <1>8, <1>9

\* The sidecar executes a request that its caller has given up.
LEMMA ServeLateInv ==
  ASSUME CallsInv, NEW c \in Present, ServeLate(c)
  PROVE  CallsInv'
<1> USE CallFacts
<1>1. /\ UNCHANGED <<scene, caller, closed, faults, now>> /\ late[c] > 0 /\ late[c] - 1 \in Nat
      /\ late' = [late EXCEPT ![c] = late[c] - 1]
  BY DEF ServeLate
<1>2. Become(c, caller[c])
  BY <1>1 DEF Become, CallsInv, CallsTypeOK
<1>3. CASE UNCHANGED <<applied, first>>
  <2>1. applied' = [applied EXCEPT ![c] = applied[c]]
    BY <1>3 DEF CallsInv, CallsTypeOK
  <2>2. EffectOK(c, caller[c], applied[c], late[c] - 1, first')
    BY <1>1, <1>3 DEF EffectOK, Fresh
  <2> QED
    BY <1>1, <1>2, <1>3, <2>1, <2>2, OneCaller
<1>4. CASE applied' = [applied EXCEPT ![c] = @ + 1] /\ first' \in {first, {c}}
  <2>1. applied' = [applied EXCEPT ![c] = applied[c] + 1] /\ applied[c] + 1 \in Nat
    BY <1>4
  <2>2. EffectOK(c, caller[c], applied[c] + 1, late[c] - 1, first')
    BY <1>1, <1>4 DEF EffectOK, Fresh
  <2> QED
    BY <1>1, <1>2, <1>4, <2>1, <2>2, OneCaller
<1> QED
  BY <1>3, <1>4 DEF ServeLate, Execute

\* close() ends what is on the wire.
LEMMA CloseInv ==
  ASSUME CallsInv, Close
  PROVE  CallsInv'
<1> USE DEF CallsInv
<1> DEFINE Cut(c) == caller[c].phase \in {"sent", "served"} /\ Method(c).engine # "http"
<1>1. /\ UNCHANGED <<scene, applied, late, first, faults, now>> /\ closed' = TRUE
      /\ caller' = [c \in Callers |-> IF Cut(c) THEN End(caller[c], "closed", Method(c).raises)
                                                ELSE caller[c]]
  BY DEF Close, End
<1>2. /\ Present \subseteq Callers /\ Present' = Present /\ Tries' = Tries /\ Unbounded' = Unbounded
      /\ \A c \in Present : Method(c)' = Method(c)
  BY <1>1, SceneFacts DEF Present, Method, Tries, Unbounded
<1>3. ASSUME NEW c \in Present
      PROVE  /\ caller'[c] \in Records /\ PolicyOK(c, caller'[c]) /\ WaitOK(c, caller'[c], now)
             /\ EffectOK(c, caller'[c], applied[c], late[c], first)
  <2>1. CASE Cut(c)
    <3> DEFINE w == caller[c]
               new == Over(w, w.status, w.streak, "closed", Method(c).raises)
    <3>1. caller'[c] = new /\ w.status \in Statuses /\ w.streak \in Nat
      BY <1>1, <1>2, <2>1, OverSame, CallFacts
    <3>2. Method(c).raises \in Exceptions /\ late[c] \in Nat
      BY RaisesKnown, CallFacts
    <3>3. /\ new \in Records /\ PolicyOK(c, new) /\ WaitOK(c, new, now)
          /\ EffectOK(c, new, applied[c], late[c], first)
      BY <2>1, <3>1, <3>2, OverOK DEF Outcomes
    <3> QED
      BY <3>1, <3>3
  <2>2. CASE ~Cut(c)
    BY <1>1, <1>2, <2>2, CallFacts
  <2> QED
    BY <2>1, <2>2
<1>4. \A c \in Callers \ Present : caller'[c] = caller[c]
  BY <1>1 DEF CallsTypeOK
<1>5. CallsTypeOK'
  <2>1. caller' \in [Callers -> Records]
    BY <1>1, <1>3, <1>4 DEF CallsTypeOK
  <2> QED
    BY <1>1, <1>2, <1>4, <2>1 DEF CallsTypeOK
<1>6. ASSUME NEW c \in Present PROVE CallOK(c)'
  <2>1. PolicyOK(c, caller[c])'
    BY <1>1, <1>2, <1>3 DEF PolicyOK
  <2>2. WaitOK(c, caller[c], now)'
    BY <1>1, <1>2, <1>3 DEF WaitOK
  <2>3. EffectOK(c, caller[c], applied[c], late[c], first)'
    BY <1>1, <1>2, <1>3 DEF EffectOK
  <2> QED
    BY <2>1, <2>2, <2>3 DEF CallOK
<1> QED
  BY <1>2, <1>5, <1>6

\* Time passes, but not past a deadline or the end of a sleep.
LEMMA TickInv ==
  ASSUME CallsInv, Tick
  PROVE  CallsInv'
<1>1. UNCHANGED <<scene, caller, applied, late, first, closed, faults>> /\ now' = now + 1
  BY DEF Tick
<1>2. /\ Present' = Present /\ Tries' = Tries /\ Unbounded' = Unbounded
      /\ \A c \in Present : Method(c)' = Method(c)
  BY <1>1 DEF Present, Method, Tries, Unbounded
<1>3. CallsTypeOK'
  BY <1>1, <1>2 DEF CallsInv, CallsTypeOK
<1>4. ASSUME NEW c \in Present PROVE CallOK(c)'
  <2> USE CallFacts
  <2>1. caller[c].deadline \in Nat \cup {-1} /\ caller[c].wake \in Nat \cup {-1}
    BY DEF Records, Times, Never
  <2>2. /\ caller[c].phase = "sleeping" => caller[c].wake # now
        /\ Method(c).engine = "wait" /\ caller[c].deadline # Never
           /\ caller[c].phase \in {"sent", "served"} => caller[c].deadline # now
    BY DEF Tick, CallDeadline, WaitOK
  <2>3. WaitOK(c, caller[c], now + 1)
    BY <2>1, <2>2 DEF WaitOK
  <2> QED
    BY <1>1, <1>2, <2>3 DEF CallOK, PolicyOK, WaitOK, EffectOK
<1> QED
  BY <1>2, <1>3, <1>4 DEF CallsInv

----------------------------------------------------------------------------
(* The theorems.                                                           *)

\* Nobody has begun.
LEMMA InitInv == CallsInit => CallsInv
<1> SUFFICES ASSUME CallsInit PROVE CallsInv
  OBVIOUS
<1>1. CallsTypeOK
  BY IdleType DEF CallsInit, CallsTypeOK, Idle, Nobody
<1>2. ASSUME NEW c \in Present PROVE CallOK(c)
  <2>1. /\ caller[c] = Idle /\ applied[c] = 0 /\ late[c] = 0 /\ first = {} /\ now = 0
        /\ scene.attempts # -1 => Tries \in Nat \ {0}
    BY <1>1, SceneFacts DEF CallsInit, Nobody
  <2> QED
    BY <2>1 DEF CallOK, PolicyOK, WaitOK, EffectOK, Fresh, Idle
<1> QED
  BY <1>1, <1>2 DEF CallsInv

\* The records of the callers, the attempts they have left, the time they have
\* left and what the sidecar has done for them agree, for every scene.
THEOREM CallsInvariance == CallsSpec => []CallsInv
<1>1. CallsInv /\ [CallsNext]_callsVars => CallsInv'
  <2> SUFFICES ASSUME CallsInv, [CallsNext]_callsVars PROVE CallsInv'
    OBVIOUS
  <2>1. CASE CallsNext
    BY <2>1, BeginInv, PolicyRetriesInv, WaitRetriesInv, WaitExpiresInv, RepliedInv, FailsInv,
       ServeInv, ServeLateInv, CloseInv, TickInv
    DEF CallsNext, Step
  <2>2. CASE UNCHANGED callsVars
    BY <2>2 DEF callsVars, CallsInv, CallsTypeOK, CallOK, PolicyOK, WaitOK, EffectOK, Present, Method,
                Tries, Unbounded
  <2> QED
    BY <2>1, <2>2
<1> QED
  BY <1>1, InitInv, PTL DEF CallsSpec

\* The sidecar sees a call no more often than its policy allows for each of the
\* two APIs, one that nobody retries has its effect at most once, and a wait
\* ends by its timeout, says TimeoutError before it or without one only for a
\* DEADLINE_EXCEEDED that is not the caller's, and CANCELLED only before it.
THEOREM LimitsKept == CallsSpec => []InLimits
<1>1. CallsInv => InLimits
  <2> SUFFICES ASSUME CallsInv PROVE InLimits
    OBVIOUS
  <2> USE CallFacts
  <2>1. WithinPolicy
    <3> SUFFICES ASSUME NEW c \in Present
                 PROVE  /\ Method(c).engine \in {"rpc", "http"} /\ scene.attempts # -1 =>
                             caller[c].sends <= Tries * (IF Method(c).alpha THEN 2 ELSE 1)
                        /\ Method(c).engine = "single" => applied[c] <= 1
      BY DEF WithinPolicy
    <3>1. ASSUME Method(c).engine \in {"rpc", "http"}, scene.attempts # -1
          PROVE  caller[c].sends <= Tries * (IF Method(c).alpha THEN 2 ELSE 1)
      <4>1. /\ caller[c].sends <= Tries + (IF caller[c].alpha THEN Tries ELSE 0)
            /\ Tries \in Nat \ {0} /\ caller[c].sends \in Nat
        BY <3>1 DEF PolicyOK, Records
      <4>2. CASE Method(c).alpha
        <5>1. caller[c].sends <= Tries + Tries
          BY <4>1
        <5>2. Tries + Tries = Tries * 2
          BY <4>1
        <5> QED
          BY <4>2, <5>1, <5>2
      <4>3. CASE ~Method(c).alpha
        <5>1. caller[c].sends <= Tries
          BY <4>1, <4>3 DEF PolicyOK
        <5>2. Tries = Tries * 1
          BY <4>1
        <5> QED
          BY <4>3, <5>1, <5>2
      <4> QED
        BY <4>2, <4>3
    <3>2. Method(c).engine = "single" => applied[c] <= 1
      BY DEF EffectOK
    <3> QED
      BY <3>1, <3>2
  <2>2. WaitKept
    BY DEF WaitKept, WaitOK
  <2> QED
    BY <2>1, <2>2 DEF InLimits
<1> QED
  BY <1>1, CallsInvariance, PTL

\* A caller that gets a value had its effect, one that is refused had none unless
\* an attempt was lost, and one that sent nothing had none.
THEOREM CallersToldTruth == CallsSpec => []Honest
<1>1. CallsInv => Honest
  BY CallFacts DEF Honest, EffectOK
<1> QED
  BY <1>1, CallsInvariance, PTL

----------------------------------------------------------------------------
(* DaprMCPClient: invariants.                                              *)

\* The time a connect may take beyond its timeout.
Slack == Max({RpcTicks, 2})

ConnectRecords ==
  [stage: Running \cup {"none", "raised", "returned"},
   server: Servers \cup {CHOOSE s \in Servers : TRUE}, deadline: Nat, until: Nat]

McpTypeOK ==
  /\ clock \in Nat /\ connects \in [Connects -> ConnectRecords]
  /\ \A c \in Connects : connects[c].stage # "none" => connects[c].server \in Servers
  /\ listing \in [Connects -> [status: {"none", "running", "completed", "failed", "gone", "malformed"},
                               tools: SUBSET ToolNames]]
  /\ server_tools \in [Servers -> SUBSET SUBSET ToolNames]

\* What a connect does ends neither in the past nor after its deadline and the
\* slack, and it only sleeps if there is an attempt to come.
EndsInTime(r) ==
  r.stage \in Running =>
    /\ clock <= r.until /\ r.until <= r.deadline + Slack
    /\ r.stage = "sleeping" => r.until <= r.deadline

\* A connect that has returned has a listing that no step changes.
McpInv ==
  /\ McpTypeOK /\ FromListing
  /\ \A c \in Connects : /\ EndsInTime(connects[c])
                         /\ connects[c].stage = "returned" => listing[c].status = "completed"

----------------------------------------------------------------------------
(* DaprMCPClient: proofs.                                                  *)

\* The greater of two numbers.
LEMMA MaxOfTwo ==
  ASSUME NEW a \in Nat, NEW b \in Nat
  PROVE  Max({a, b}) \in Nat /\ a <= Max({a, b}) /\ b <= Max({a, b}) /\ Max({a, b}) \in {a, b}
<1>1. \E x \in {a, b} : \A y \in {a, b} : x >= y
  <2>1. CASE a >= b
    BY <2>1
  <2>2. CASE b >= a
    BY <2>2
  <2> QED
    BY <2>1, <2>2
<1>2. Max({a, b}) \in {a, b} /\ \A y \in {a, b} : Max({a, b}) >= y
  BY <1>1 DEF Max
<1> QED
  BY <1>2

\* A step of a connect that neither returns nor touches listings or tools.
LEMMA ConnectMoves ==
  ASSUME McpInv, NEW c \in Connects, UNCHANGED <<clock, listing, server_tools>>,
         NEW r \in ConnectRecords,
         r.stage # "none" => r.server \in Servers,
         connects' = [connects EXCEPT ![c] = r],
         connects[c].stage # "returned", r.stage # "returned", EndsInTime(r)
  PROVE  McpInv'
<1> USE DEF McpInv
<1>1. \A d \in Connects : connects'[d] = IF d = c THEN r ELSE connects[d]
  BY DEF McpTypeOK
<1>2. McpTypeOK'
  BY <1>1 DEF McpTypeOK
<1>3. ASSUME NEW s \in Servers
      PROVE  {d \in Connects : connects'[d].server = s /\ connects'[d].stage = "returned"}
               = {d \in Connects : connects[d].server = s /\ connects[d].stage = "returned"}
  BY <1>1
<1>4. FromListing'
  BY <1>3 DEF FromListing
<1>5. \A d \in Connects : EndsInTime(connects[d])'
  BY <1>1 DEF EndsInTime
<1> QED
  BY <1>1, <1>2, <1>4, <1>5

\* Every step of a connect, of the sidecar and of the clock.
LEMMA McpStep == McpInv /\ [McpNext]_mcpVars => McpInv'
<1> SUFFICES ASSUME McpInv, [McpNext]_mcpVars PROVE McpInv'
  OBVIOUS
<1> USE DEF McpInv
<1>0. RpcTicks \in Nat /\ Timeout \in Nat /\ Slack \in Nat /\ RpcTicks <= Slack /\ 2 <= Slack
      /\ clock \in Nat
  BY McpAssumption, MaxOfTwo DEF Slack, McpTypeOK
<1>a. \A c \in Connects : connects[c].deadline \in Nat /\ connects[c].until \in Nat
  BY DEF McpTypeOK, ConnectRecords
<1>b. ASSUME NEW c \in Connects, connects[c].stage \in Running, NEW stage \in Running \cup {"raised"},
             NEW until \in Nat, Move(c, stage, until), UNCHANGED <<clock, listing, server_tools>>,
             EndsInTime([stage |-> stage, server |-> connects[c].server,
                         deadline |-> connects[c].deadline, until |-> until])
      PROVE  McpInv'
  <2> DEFINE r == [connects[c] EXCEPT !.stage = stage, !.until = until]
  <2>0. connects[c] \in ConnectRecords
    BY DEF McpTypeOK
  <2>1. /\ r.stage = stage /\ r.server = connects[c].server /\ r.deadline = connects[c].deadline
        /\ r.until = until /\ r \in ConnectRecords
    BY <1>b, <2>0 DEF ConnectRecords
  <2>2. connects' = [connects EXCEPT ![c] = r]
    BY <1>b DEF Move, McpTypeOK
  <2> HIDE DEF r
  <2>3. /\ connects[c].server \in Servers /\ connects[c].stage # "returned"
        /\ r.stage # "returned" /\ EndsInTime(r)
    BY <1>b, <2>1 DEF McpTypeOK, Running, EndsInTime
  <2> QED
    BY <1>b, <2>1, <2>2, <2>3, ConnectMoves
<1>c. ASSUME NEW c \in Connects, connects[c].stage \in Running, Raises(c),
             UNCHANGED <<clock, listing, server_tools>>
      PROVE  McpInv'
  <2>1. EndsInTime([stage |-> "raised", server |-> connects[c].server,
                    deadline |-> connects[c].deadline, until |-> clock])
    BY DEF EndsInTime, Running
  <2> QED
    BY <1>0, <1>b, <1>c, <2>1 DEF Raises
<1>1. ASSUME NEW c \in Connects, NEW s \in Servers, Connect(c, s) PROVE McpInv'
  <2> DEFINE r == [stage |-> "scheduling", server |-> s, deadline |-> clock + Timeout,
                   until |-> clock + RpcTicks]
  <2>1. EndsInTime(r)
    BY <1>0 DEF EndsInTime
  <2>2. r \in ConnectRecords /\ r.server \in Servers /\ r.stage = "scheduling"
    BY <1>0 DEF Running, ConnectRecords
  <2> QED
    BY <1>1, <2>1, <2>2, ConnectMoves DEF Connect
<1>2. ASSUME NEW c \in Connects, Scheduled(c) PROVE McpInv'
  <2>1. CASE Remaining(c) = 0
    BY <1>2, <1>c, <2>1 DEF Scheduled, Running
  <2>2. CASE Remaining(c) # 0
    <3>1. connects[c].deadline > clock /\ Remaining(c) = connects[c].deadline - clock
      BY <2>2 DEF Remaining
    <3>0. connects[c].deadline \in Nat /\ Remaining(c) \in Nat
      BY <1>0, <1>a, <3>1
    <3>2. 2 * (Remaining(c) \div 2) \in Nat /\ 2 * (Remaining(c) \div 2) <= Remaining(c)
      BY <3>0
    <3>3. WaitFor(Remaining(c)) \in Nat
          /\ (WaitFor(Remaining(c)) = 2 \/ WaitFor(Remaining(c)) <= Remaining(c))
      BY <3>2, MaxOfTwo DEF WaitFor
    <3>4. clock + WaitFor(Remaining(c)) <= connects[c].deadline + Slack
      BY <1>0, <3>0, <3>1, <3>3
    <3>5. EndsInTime([stage |-> "waiting", server |-> connects[c].server,
                      deadline |-> connects[c].deadline, until |-> clock + WaitFor(Remaining(c))])
      BY <1>0, <3>3, <3>4 DEF EndsInTime
    <3> QED
      BY <1>0, <1>2, <1>b, <2>2, <3>3, <3>5 DEF Scheduled, Running
  <2> QED
    BY <2>1, <2>2
<1>3. ASSUME NEW c \in Connects, ScheduleRetries(c) PROVE McpInv'
  <2>1. CASE Remaining(c) = 0
    BY <1>3, <1>c, <2>1 DEF ScheduleRetries, Running
  <2>2. CASE Remaining(c) # 0
    <3>0. connects[c].deadline \in Nat
      BY <1>a
    <3>1. clock + 1 <= connects[c].deadline
      BY <1>0, <2>2, <3>0 DEF Remaining
    <3>2. EndsInTime([stage |-> "sleeping", server |-> connects[c].server,
                      deadline |-> connects[c].deadline, until |-> clock + 1])
      BY <1>0, <3>0, <3>1 DEF EndsInTime
    <3> QED
      BY <1>0, <1>3, <1>b, <2>2, <3>2 DEF ScheduleRetries, Running
  <2> QED
    BY <2>1, <2>2
<1>4. ASSUME NEW c \in Connects, ScheduleFails(c) PROVE McpInv'
  BY <1>4, <1>c DEF ScheduleFails, Running
<1>5. ASSUME NEW c \in Connects, Wakes(c) PROVE McpInv'
  <2>1. clock <= connects[c].deadline /\ connects[c].deadline \in Nat
    BY <1>5, <1>a DEF Wakes, EndsInTime, Running
  <2>2. EndsInTime([stage |-> "scheduling", server |-> connects[c].server,
                    deadline |-> connects[c].deadline, until |-> clock + RpcTicks])
    BY <1>0, <2>1 DEF EndsInTime
  <2> QED
    BY <1>0, <1>5, <1>b, <2>2 DEF Wakes, Running
<1>6. ASSUME NEW c \in Connects, WaitReturns(c) PROVE McpInv'
  <2>1. CASE listing[c].status # "completed"
    BY <1>6, <1>c, <2>1 DEF WaitReturns, Running
  <2>2. CASE listing[c].status = "completed"
    <3> DEFINE s == connects[c].server
               kept1 == listing[c].tools \cap Allowed
    <3>1. /\ server_tools' = [server_tools EXCEPT ![s] = {kept1}]
          /\ connects' = [connects EXCEPT ![c].stage = "returned", ![c].until = clock]
          /\ connects[c].stage = "waiting" /\ clock' = clock /\ listing' = listing
      BY <1>6, <2>2 DEF WaitReturns, process_list_tools_result, Move
    <3>2. s \in Servers /\ kept1 \in SUBSET ToolNames
      BY <3>1 DEF McpTypeOK
    <3> DEFINE r == [connects[c] EXCEPT !.stage = "returned", !.until = clock]
    <3>0. connects[c] \in ConnectRecords /\ connects' = [connects EXCEPT ![c] = r]
      BY <3>1 DEF McpTypeOK
    <3>r. r.stage = "returned" /\ r.server = s /\ r \in ConnectRecords
      BY <1>0, <3>0 DEF ConnectRecords
    <3> HIDE DEF r
    <3>3. \A d \in Connects : connects'[d] = IF d = c THEN r ELSE connects[d]
      BY <3>0 DEF McpTypeOK
    <3>4. connects'[c].server = s /\ connects'[c].stage = "returned"
      BY <3>3, <3>r
    <3>5. McpTypeOK'
      <4>1. connects' \in [Connects -> ConnectRecords]
        BY <3>0, <3>r DEF McpTypeOK
      <4>2. \A d \in Connects : connects'[d].stage # "none" => connects'[d].server \in Servers
        BY <3>2, <3>3, <3>4 DEF McpTypeOK
      <4>3. server_tools' \in [Servers -> SUBSET SUBSET ToolNames]
        BY <3>1, <3>2 DEF McpTypeOK
      <4> QED
        BY <3>1, <4>1, <4>2, <4>3 DEF McpTypeOK
    <3>6. ASSUME NEW x \in Servers
          PROVE  LET done1 == {d \in Connects : connects'[d].server = x /\ connects'[d].stage = "returned"}
                 IN  /\ server_tools'[x] # {} <=> done1 # {}
                     /\ server_tools'[x] \subseteq {listing'[d].tools \cap Allowed : d \in done1}
      <4> DEFINE now1 == {d \in Connects : connects'[d].server = x /\ connects'[d].stage = "returned"}
                 was1 == {d \in Connects : connects[d].server = x /\ connects[d].stage = "returned"}
      <4> SUFFICES /\ server_tools'[x] # {} <=> now1 # {}
                   /\ server_tools'[x] \subseteq {listing'[d].tools \cap Allowed : d \in now1}
        OBVIOUS
      <4>1. CASE x = s
        <5>1. c \in now1 /\ server_tools'[x] = {kept1}
          BY <3>1, <3>2, <3>4, <4>1 DEF McpTypeOK
        <5> QED
          BY <3>1, <5>1
      <4>2. CASE x # s
        <5>1. now1 = was1 /\ server_tools'[x] = server_tools[x]
          BY <3>1, <3>2, <3>3, <3>4, <4>2 DEF McpTypeOK
        <5>2. /\ server_tools[x] # {} <=> was1 # {}
              /\ server_tools[x] \subseteq {listing[d].tools \cap Allowed : d \in was1}
          BY DEF FromListing
        <5> HIDE DEF now1, was1
        <5> QED
          BY <3>1, <5>1, <5>2
      <4> QED
        BY <4>1, <4>2
    <3>7. FromListing'
      BY <3>6 DEF FromListing
    <3>8. \A d \in Connects : EndsInTime(connects[d])'
      BY <3>1, <3>3, <3>4 DEF EndsInTime, Running
    <3> QED
      BY <2>2, <3>1, <3>3, <3>5, <3>7, <3>8
  <2> QED
    BY <2>1, <2>2
<1>7. ASSUME NEW c \in Connects, ListingExpires(c) PROVE McpInv'
  BY <1>7, <1>c DEF ListingExpires, Running
<1>8. ASSUME NEW c \in Connects, NEW l \in [status: {"running", "completed", "failed", "gone", "malformed"},
                                           tools: SUBSET ToolNames],
             listing[c].status \in {"none", "running"}, listing' = [listing EXCEPT ![c] = l],
             UNCHANGED <<clock, connects, server_tools>>
      PROVE  McpInv'
  <2>1. \A d \in Connects : connects[d].stage = "returned" => listing'[d] = listing[d]
    BY <1>8 DEF McpTypeOK
  <2>2. McpTypeOK'
    BY <1>8 DEF McpTypeOK
  <2>3. FromListing'
    BY <1>8, <2>1 DEF FromListing
  <2>4. \A d \in Connects : EndsInTime(connects[d])'
    BY <1>8 DEF EndsInTime
  <2> QED
    BY <1>8, <2>1, <2>2, <2>3, <2>4
<1>9. ASSUME NEW c \in Connects, StartInstance(c) PROVE McpInv'
  BY <1>8, <1>9 DEF StartInstance
<1>10. ASSUME NEW c \in Connects, NEW status \in {"completed", "failed", "gone", "malformed"},
              NEW tools \in SUBSET ToolNames,
              ListTools(c, status, IF status = "completed" THEN tools ELSE {})
       PROVE  McpInv'
  <2>1. [status |-> status, tools |-> IF status = "completed" THEN tools ELSE {}]
          \in [status: {"running", "completed", "failed", "gone", "malformed"}, tools: SUBSET ToolNames]
    OBVIOUS
  <2> QED
    BY <1>8, <1>10, <2>1 DEF ListTools
<1>11. CASE ClockTicks
  <2>1. McpTypeOK' /\ FromListing'
    BY <1>11 DEF ClockTicks, McpTypeOK, FromListing
  <2>2. ASSUME NEW d \in Connects PROVE EndsInTime(connects[d])'
    <3>1. connects[d].deadline \in Nat /\ connects[d].until \in Nat /\ EndsInTime(connects[d])
      BY <1>a
    <3>2. connects[d].stage \in Running => clock + 1 <= connects[d].until
      BY <1>0, <1>11, <3>1 DEF ClockTicks
    <3> QED
      BY <1>0, <1>11, <3>1, <3>2 DEF ClockTicks, EndsInTime
  <2> QED
    BY <1>11, <2>1, <2>2 DEF ClockTicks
<1>12. CASE UNCHANGED mcpVars
  BY <1>12 DEF mcpVars, McpTypeOK, FromListing, EndsInTime
<1> QED
  BY <1>1, <1>2, <1>3, <1>4, <1>5, <1>6, <1>7, <1>9, <1>10, <1>11, <1>12 DEF McpNext

\* connect returns or raises within its timeout, give or take an answer of the
\* sidecar or the second a wait has at least, and the tools of a server come
\* from a listing that completed, for any number of overlapping connects.
THEOREM McpConnectsInTime == McpSpec => []ConnectsInTime
<1>1. McpInit => McpInv
  <2> SUFFICES ASSUME McpInit PROVE McpInv
    OBVIOUS
  <2>1. McpTypeOK
    BY DEF McpInit, McpTypeOK, ConnectRecords
  <2>2. \A c \in Connects : connects[c].stage = "none"
    BY DEF McpInit
  <2>3. \A s \in Servers : server_tools[s] = {}
    BY DEF McpInit
  <2>4. FromListing
    BY <2>2, <2>3 DEF FromListing
  <2> QED
    BY <2>1, <2>2, <2>4 DEF McpInv, EndsInTime, Running
<1>2. McpInv => ConnectsInTime
  <2> SUFFICES ASSUME McpInv PROVE ConnectsInTime
    OBVIOUS
  <2>1. ASSUME NEW c \in Connects, connects[c].stage \in Running
        PROVE  clock <= connects[c].deadline + Max({RpcTicks, 2})
    <3>1. Slack \in Nat
      BY McpAssumption, MaxOfTwo DEF Slack
    <3>2. clock <= connects[c].until /\ connects[c].until <= connects[c].deadline + Slack
          /\ clock \in Nat /\ connects[c].until \in Nat /\ connects[c].deadline \in Nat
      BY <2>1 DEF McpInv, McpTypeOK, ConnectRecords, EndsInTime
    <3> QED
      BY <3>1, <3>2 DEF Slack
  <2> QED
    BY <2>1 DEF ConnectsInTime, InTime, McpInv
<1> QED
  BY <1>1, <1>2, McpStep, PTL DEF McpSpec

----------------------------------------------------------------------------
(* ConfigurationWatcher: invariants.                                       *)

WatcherRecords ==
  [caller: {"idle", "refused", "waiting", "id", "blank", "none"}, aio: BOOLEAN,
   thread: {"off", "reading", "first", "handling", "stopped"}, id: BOOLEAN, event: BOOLEAN,
   waited: Nat, taken: Nat, step: Nat, handled: Seq(Nat)]

ConfigTypeOK ==
  /\ watch \in [Watchers -> WatcherRecords] /\ answers \in [Watchers -> Seq(BOOLEAN)]
  /\ ended \subseteq Watchers

\* The id is assigned before the event, and both with the first response.
FirstInv(r) ==
  /\ r.event => r.id = TRUE
  /\ r.step >= 1 => r.id = TRUE
  /\ r.taken = 0 => r.step = 0 /\ r.thread \notin {"first", "handling"}
  /\ r.thread = "first" => r.step < 2
  /\ r.caller # "blank" /\ (r.caller = "idle" => r.thread = "off")

Handled(r) == IF r.thread \in {"first", "handling"} THEN r.taken - 1 ELSE r.taken

\* The handler of a watcher that is r has had the changes of stream a, once
\* and in order.
HandledInv(r, a) ==
  /\ r.taken <= Len(a)
  /\ {r.handled[i] : i \in DOMAIN r.handled} = {i \in 1 .. Handled(r) : a[i]}
  /\ \A i, j \in DOMAIN r.handled : i < j => r.handled[i] < r.handled[j]

ConfigInv ==
  ConfigTypeOK /\ \A w \in Watchers : FirstInv(watch[w]) /\ HandledInv(watch[w], answers[w])

----------------------------------------------------------------------------
(* ConfigurationWatcher: proofs.                                           *)

\* A step of the caller or of the thread of one watcher.
LEMMA WatcherMoves ==
  ASSUME ConfigInv, NEW w \in Watchers, NEW r \in WatcherRecords, Update(w, r),
         FirstInv(r), HandledInv(r, answers[w])
  PROVE  ConfigInv'
<1> USE DEF ConfigInv
<1>1. /\ answers' = answers /\ ended' = ended
      /\ \A v \in Watchers : watch'[v] = IF v = w THEN r ELSE watch[v]
  BY DEF Update, ConfigTypeOK
<1>2. ConfigTypeOK'
  BY DEF Update, ConfigTypeOK
<1>3. ASSUME NEW v \in Watchers PROVE (FirstInv(watch[v]) /\ HandledInv(watch[v], answers[v]))'
  <2>1. FirstInv(watch'[v]) /\ HandledInv(watch'[v], answers[v])
    BY <1>1
  <2> QED
    BY <1>1, <2>1 DEF FirstInv, HandledInv, Handled
<1> QED
  BY <1>2, <1>3

\* A step that leaves what has been read and handled alone.
LEMMA SameHandled ==
  ASSUME NEW r, NEW q, NEW a, HandledInv(r, a), q.taken = r.taken, q.handled = r.handled,
         q.thread \in {"first", "handling"} <=> r.thread \in {"first", "handling"}
  PROVE  HandledInv(q, a)
BY DEF HandledInv, Handled

\* Every step of a watcher, of the sidecar and of the clock.
LEMMA ConfigStep == ConfigInv /\ [ConfigNext]_configVars => ConfigInv'
<1> SUFFICES ASSUME ConfigInv, [ConfigNext]_configVars PROVE ConfigInv'
  OBVIOUS
<1>0. CASE UNCHANGED configVars
  BY <1>0 DEF configVars, ConfigInv, ConfigTypeOK, FirstInv, HandledInv, Handled
<1> SUFFICES ASSUME NEW w \in Watchers,
               \/ Subscribe(w) \/ AioSubscribe(w) \/ SubscribeReturns(w) \/ SubscribeTimesOut(w)
               \/ Unsubscribe(w)
               \/ ReadResponse(w) \/ AssignFirst(w) \/ Handle(w) \/ ThreadStops(w)
               \/ Respond(w) \/ StreamBreaks(w) \/ TimePasses(w)
             PROVE ConfigInv'
  BY <1>0 DEF ConfigNext
<1> DEFINE r == watch[w]
<1>1. /\ r \in WatcherRecords /\ FirstInv(r) /\ HandledInv(r, answers[w])
      /\ answers[w] \in Seq(BOOLEAN)
  BY DEF ConfigInv, ConfigTypeOK
<1>2. ASSUME NEW q \in WatcherRecords, Update(w, q), FirstInv(q), q.taken = r.taken,
             q.handled = r.handled,
             q.thread \in {"first", "handling"} <=> r.thread \in {"first", "handling"}
      PROVE  ConfigInv'
  BY <1>1, <1>2, SameHandled, WatcherMoves
<1> HIDE DEF r
<1>3. ASSUME NEW c \in {"refused", "id", "none"}, r.thread = "off" \/ c # "idle",
             Update(w, [r EXCEPT !.caller = c])
      PROVE  ConfigInv'
  <2> DEFINE q == [r EXCEPT !.caller = c]
  <2>1. /\ q \in WatcherRecords /\ q.thread = r.thread /\ q.id = r.id /\ q.event = r.event
        /\ q.taken = r.taken /\ q.step = r.step /\ q.handled = r.handled /\ q.caller = c
    BY <1>1, <1>3 DEF WatcherRecords
  <2> HIDE DEF q
  <2>2. FirstInv(q)
    BY <1>1, <1>3, <2>1 DEF FirstInv
  <2> QED
    BY <1>2, <1>3, <2>1, <2>2 DEF q
<1>4. ASSUME r.caller = "idle", NEW aio \in BOOLEAN,
             Update(w, [r EXCEPT !.caller = "waiting", !.thread = "reading", !.aio = aio])
      PROVE  ConfigInv'
  <2> DEFINE q == [r EXCEPT !.caller = "waiting", !.thread = "reading", !.aio = aio]
  <2>1. /\ q \in WatcherRecords /\ q.thread = "reading" /\ q.id = r.id /\ q.event = r.event
        /\ q.taken = r.taken /\ q.step = r.step /\ q.handled = r.handled /\ q.caller = "waiting"
    BY <1>1, <1>4 DEF WatcherRecords
  <2> HIDE DEF q
  <2>2. FirstInv(q) /\ r.thread = "off"
    BY <1>1, <1>4, <2>1 DEF FirstInv
  <2> QED
    BY <1>2, <1>4, <2>1, <2>2 DEF q
<1>5. CASE Subscribe(w)
  <2>1. r.caller = "idle" /\ r.aio \in BOOLEAN
    BY <1>1, <1>5 DEF Subscribe, r, WatcherRecords
  <2>2. [r EXCEPT !.caller = "waiting", !.thread = "reading"]
          = [r EXCEPT !.caller = "waiting", !.thread = "reading", !.aio = r.aio]
    BY <1>1 DEF WatcherRecords
  <2> QED
    BY <1>3, <1>4, <1>5, <2>1, <2>2 DEF Subscribe, r
<1>6. CASE AioSubscribe(w)
  BY <1>3, <1>4, <1>6 DEF AioSubscribe, r
<1>7. CASE SubscribeReturns(w)
  <2>1. r.event /\ r.id = TRUE
    BY <1>1, <1>7 DEF SubscribeReturns, FirstInv, r
  <2> QED
    BY <1>3, <1>7, <2>1 DEF SubscribeReturns, r
<1>8. CASE SubscribeTimesOut(w)
  BY <1>3, <1>8 DEF SubscribeTimesOut, r
<1>9. CASE Unsubscribe(w) \/ StreamBreaks(w)
  BY <1>9 DEF Unsubscribe, StreamBreaks, ConfigInv, ConfigTypeOK, FirstInv, HandledInv, Handled
<1>10. CASE ReadResponse(w)
  <2> DEFINE thread == IF r.taken = 0 THEN "first" ELSE "handling"
             q == [r EXCEPT !.taken = r.taken + 1, !.thread = thread]
  <2>0. r.taken + 1 \in Nat /\ r.taken \in Nat /\ r.thread = "reading" /\ r.taken < Len(answers[w])
        /\ Len(answers[w]) \in Nat
    BY <1>1, <1>10 DEF ReadResponse, WatcherRecords, r
  <2>1. /\ q \in WatcherRecords /\ q.thread = thread /\ q.id = r.id /\ q.event = r.event
        /\ q.taken = r.taken + 1 /\ q.step = r.step /\ q.handled = r.handled /\ q.caller = r.caller
    BY <1>1, <2>0 DEF WatcherRecords
  <2>u. Update(w, q)
    BY <1>10 DEF ReadResponse, r
  <2> HIDE DEF q
  <2>2. FirstInv(q)
    BY <1>1, <2>0, <2>1 DEF FirstInv
  <2>3. Handled(q) = Handled(r)
    BY <2>0, <2>1 DEF Handled
  <2>4. HandledInv(q, answers[w])
    BY <1>1, <2>0, <2>1, <2>3 DEF HandledInv
  <2> QED
    BY <2>1, <2>2, <2>4, <2>u, WatcherMoves
<1>11. CASE AssignFirst(w)
  <2>0. r.thread = "first" /\ r.step \in 0 .. 1 /\ Len(FirstSteps) = 2 /\ r.taken # 0
    <3>1. r.thread = "first" /\ r.step \in Nat /\ r.step < 2 /\ r.taken # 0
      BY <1>1, <1>11 DEF AssignFirst, FirstInv, WatcherRecords, r
    <3>2. Len(FirstSteps) = 2
      BY DEF FirstSteps
    <3> QED
      BY <3>1, <3>2
  <2>1. CASE r.step = 0
    <3> DEFINE q == [r EXCEPT !.id = TRUE, !.step = 1, !.thread = "first"]
    <3>1. FirstSteps[r.step + 1] = "id" /\ r.step + 1 = 1 /\ r.step + 1 # Len(FirstSteps)
      BY <2>0, <2>1 DEF FirstSteps
    <3>u. Update(w, q)
      BY <1>11, <3>1 DEF AssignFirst, r
    <3>2. /\ q \in WatcherRecords /\ q.thread = "first" /\ q.id = TRUE /\ q.event = r.event
          /\ q.taken = r.taken /\ q.step = 1 /\ q.handled = r.handled /\ q.caller = r.caller
      BY <1>1 DEF WatcherRecords
    <3> HIDE DEF q
    <3>3. FirstInv(q)
      BY <1>1, <2>0, <3>2 DEF FirstInv
    <3> QED
      BY <1>2, <2>0, <3>2, <3>3, <3>u
  <2>2. CASE r.step = 1
    <3> DEFINE q == [r EXCEPT !.event = TRUE, !.step = 2, !.thread = "handling"]
    <3>1. FirstSteps[r.step + 1] = "event" /\ r.step + 1 = 2
      BY <2>2 DEF FirstSteps
    <3>u. Update(w, q)
      BY <1>11, <2>0, <3>1 DEF AssignFirst, r
    <3>2. /\ q \in WatcherRecords /\ q.thread = "handling" /\ q.id = r.id /\ q.event = TRUE
          /\ q.taken = r.taken /\ q.step = 2 /\ q.handled = r.handled /\ q.caller = r.caller
      BY <1>1 DEF WatcherRecords
    <3> HIDE DEF q
    <3>3. FirstInv(q)
      BY <1>1, <2>0, <2>2, <3>2 DEF FirstInv
    <3> QED
      BY <1>2, <2>0, <3>2, <3>3, <3>u
  <2> QED
    BY <2>0, <2>1, <2>2
<1>12. CASE Handle(w)
  <2>0. /\ r.thread = "handling" /\ r.taken \in Nat \ {0} /\ r.taken <= Len(answers[w])
        /\ Len(answers[w]) \in Nat /\ r.handled \in Seq(Nat)
    BY <1>1, <1>12 DEF Handle, WatcherRecords, FirstInv, HandledInv, r
  <2>1. ASSUME NEW thread \in {"reading", "stopped"}, NEW handled \in Seq(Nat),
               Update(w, [r EXCEPT !.thread = thread, !.handled = handled]),
               {handled[i] : i \in DOMAIN handled} = {i \in 1 .. r.taken : answers[w][i]},
               \A i, j \in DOMAIN handled : i < j => handled[i] < handled[j]
        PROVE  ConfigInv'
    <3> DEFINE q == [r EXCEPT !.thread = thread, !.handled = handled]
    <3>1. /\ q \in WatcherRecords /\ q.thread = thread /\ q.id = r.id /\ q.event = r.event
          /\ q.taken = r.taken /\ q.step = r.step /\ q.handled = handled /\ q.caller = r.caller
      BY <1>1, <2>1 DEF WatcherRecords
    <3> HIDE DEF q
    <3>2. FirstInv(q)
      BY <1>1, <2>0, <3>1 DEF FirstInv
    <3>3. Handled(q) = r.taken
      BY <2>1, <3>1 DEF Handled
    <3>4. HandledInv(q, answers[w])
      BY <2>0, <2>1, <3>1, <3>3 DEF HandledInv
    <3> QED
      BY <2>1, <3>1, <3>2, <3>4, WatcherMoves DEF q
  <2>2. /\ {r.handled[i] : i \in DOMAIN r.handled} = {i \in 1 .. r.taken - 1 : answers[w][i]}
        /\ \A i, j \in DOMAIN r.handled : i < j => r.handled[i] < r.handled[j]
    BY <1>1, <2>0 DEF HandledInv, Handled
  <2>3. CASE answers[w][r.taken]
    <3> DEFINE h == Append(r.handled, r.taken)
               n == Len(r.handled)
    <3>1. /\ h \in Seq(Nat) /\ n \in Nat /\ DOMAIN h = 1 .. n + 1 /\ h[n + 1] = r.taken
          /\ DOMAIN r.handled = 1 .. n /\ \A i \in 1 .. n : h[i] = r.handled[i]
      BY <2>0
    <3> HIDE DEF h, n
    <3>2. \A i \in 1 .. n : r.handled[i] \in 1 .. r.taken - 1
      BY <2>2, <3>1
    <3>3. {h[i] : i \in DOMAIN h} = {i \in 1 .. r.taken : answers[w][i]}
      <4>1. ASSUME NEW i \in DOMAIN h PROVE h[i] \in {x \in 1 .. r.taken : answers[w][x]}
        <5>1. CASE i = n + 1
          BY <2>0, <2>3, <3>1, <5>1
        <5>2. CASE i \in 1 .. n
          <6>1. r.handled[i] \in {x \in 1 .. r.taken - 1 : answers[w][x]}
            BY <2>2, <3>1, <5>2
          <6>2. h[i] = r.handled[i]
            BY <3>1, <5>2
          <6>3. 1 .. r.taken - 1 \subseteq 1 .. r.taken
            BY <2>0
          <6> QED
            BY <6>1, <6>2, <6>3
        <5> QED
          BY <3>1, <5>1, <5>2
      <4>2. ASSUME NEW x \in 1 .. r.taken, answers[w][x] PROVE \E i \in DOMAIN h : h[i] = x
        <5>1. CASE x = r.taken
          BY <3>1, <5>1
        <5>2. CASE x # r.taken
          <6>1. x \in {i \in 1 .. r.taken - 1 : answers[w][i]}
            BY <2>0, <4>2, <5>2
          <6>2. PICK i \in DOMAIN r.handled : r.handled[i] = x
            BY <2>2, <6>1
          <6> QED
            BY <3>1, <6>2
        <5> QED
          BY <5>1, <5>2
      <4> QED
        BY <4>1, <4>2
    <3>4. ASSUME NEW i \in DOMAIN h, NEW j \in DOMAIN h, i < j PROVE h[i] < h[j]
      <4>1. i \in 1 .. n /\ h[i] = r.handled[i] /\ r.handled[i] \in 1 .. r.taken - 1
        BY <3>1, <3>2, <3>4
      <4>2. CASE j = n + 1
        BY <2>0, <3>1, <4>1, <4>2
      <4>3. CASE j \in 1 .. n
        <5>1. r.handled[i] < r.handled[j]
          BY <2>2, <3>1, <3>4, <4>1, <4>3
        <5> QED
          BY <3>1, <4>1, <4>3, <5>1
      <4> QED
        BY <3>1, <4>2, <4>3
    <3>5. \E thread \in {"reading", "stopped"} : Update(w, [r EXCEPT !.thread = thread, !.handled = h])
      BY <1>12, <2>3 DEF Handle, r, h
    <3> QED
      BY <2>1, <3>1, <3>3, <3>4, <3>5
  <2>4. CASE ~answers[w][r.taken]
    <3>1. Update(w, [r EXCEPT !.thread = "reading",
                              !.handled = IF answers[w][r.taken] THEN Append(r.handled, r.taken)
                                          ELSE r.handled])
      BY <1>12, <2>4 DEF Handle, r
    <3>3. (IF answers[w][r.taken] THEN Append(r.handled, r.taken) ELSE r.handled) = r.handled
      BY <2>4
    <3>2. {i \in 1 .. r.taken - 1 : answers[w][i]} = {i \in 1 .. r.taken : answers[w][i]}
      BY <2>0, <2>4
    <3> QED
      BY <2>0, <2>1, <2>2, <3>1, <3>2, <3>3
  <2> QED
    BY <2>3, <2>4
<1>13. CASE ThreadStops(w)
  <2> DEFINE q == [r EXCEPT !.thread = "stopped"]
  <2>1. /\ q \in WatcherRecords /\ q.thread = "stopped" /\ q.id = r.id /\ q.event = r.event
        /\ q.taken = r.taken /\ q.step = r.step /\ q.handled = r.handled /\ q.caller = r.caller
    BY <1>1 DEF WatcherRecords
  <2>u. Update(w, q) /\ r.thread = "reading"
    BY <1>13 DEF ThreadStops, r
  <2> HIDE DEF q
  <2>2. FirstInv(q)
    BY <1>1, <2>1, <2>u DEF FirstInv
  <2> QED
    BY <1>2, <2>1, <2>2, <2>u
<1>14. CASE Respond(w)
  <2>0. PICK items \in BOOLEAN : answers' = [answers EXCEPT ![w] = Append(answers[w], items)]
    BY <1>14 DEF Respond
  <2>1. watch' = watch /\ ended' = ended
    BY <1>14 DEF Respond
  <2>2. /\ Append(answers[w], items) \in Seq(BOOLEAN)
        /\ Len(Append(answers[w], items)) = Len(answers[w]) + 1
        /\ \A i \in 1 .. Len(answers[w]) : Append(answers[w], items)[i] = answers[w][i]
        /\ Len(answers[w]) \in Nat
    BY <1>1
  <2>3. /\ ConfigTypeOK'
        /\ \A v \in Watchers : answers'[v] = IF v = w THEN Append(answers[w], items) ELSE answers[v]
    BY <2>0, <2>1, <2>2 DEF ConfigInv, ConfigTypeOK
  <2>4. HandledInv(r, Append(answers[w], items))
    <3>1. r.taken \in Nat /\ Handled(r) \in Int /\ Handled(r) <= r.taken /\ r.taken <= Len(answers[w])
      BY <1>1 DEF WatcherRecords, Handled, HandledInv
    <3>2. {i \in 1 .. Handled(r) : answers[w][i]} = {i \in 1 .. Handled(r) : Append(answers[w], items)[i]}
      BY <2>2, <3>1
    <3> QED
      BY <1>1, <2>2, <3>1, <3>2 DEF HandledInv
  <2>5. ASSUME NEW v \in Watchers PROVE (FirstInv(watch[v]) /\ HandledInv(watch[v], answers[v]))'
    <3>1. FirstInv(watch[v]) /\ HandledInv(watch[v], answers'[v])
      BY <2>3, <2>4 DEF ConfigInv, r
    <3> QED
      BY <2>1, <3>1 DEF FirstInv, HandledInv, Handled
  <2> QED
    BY <2>3, <2>5 DEF ConfigInv
<1>15. CASE TimePasses(w)
  <2> DEFINE q == [r EXCEPT !.waited = r.waited + 1]
  <2>0. r.waited + 1 \in Nat
    BY <1>1 DEF WatcherRecords
  <2>1. /\ q \in WatcherRecords /\ q.thread = r.thread /\ q.id = r.id /\ q.event = r.event
        /\ q.taken = r.taken /\ q.step = r.step /\ q.handled = r.handled /\ q.caller = r.caller
    BY <1>1, <2>0 DEF WatcherRecords
  <2>u. Update(w, q)
    BY <1>15 DEF TimePasses, r
  <2> HIDE DEF q
  <2>2. FirstInv(q)
    BY <1>1, <2>1 DEF FirstInv
  <2> QED
    BY <1>2, <2>1, <2>2, <2>u
<1> QED
  BY <1>5, <1>6, <1>7, <1>8, <1>9, <1>10, <1>11, <1>12, <1>13, <1>14, <1>15

\* The caller that is woken finds the id of its subscription, and the handler
\* has had every change that the thread has read, once and in order, for any
\* number of responses and however long the caller waits.
THEOREM WatchersHonest == ConfigSpec => []WatcherHonest
<1>1. ConfigInit => ConfigInv
  <2> SUFFICES ASSUME ConfigInit PROVE ConfigInv
    OBVIOUS
  <2>1. NewWatcher \in WatcherRecords /\ FirstInv(NewWatcher)
    BY DEF NewWatcher, WatcherRecords, FirstInv
  <2>2. HandledInv(NewWatcher, <<>>)
    BY DEF NewWatcher, HandledInv, Handled
  <2> QED
    BY <2>1, <2>2 DEF ConfigInit, ConfigInv, ConfigTypeOK
<1>2. ConfigInv => WatcherHonest
  BY DEF ConfigInv, WatcherHonest, FirstInv, HandledInv, Handled
<1> QED
  BY <1>1, <1>2, ConfigStep, PTL DEF ConfigSpec

----------------------------------------------------------------------------
(* Documents: what a store call of each method is.                         *)

Values ==
  {"session", "agent", "checkpoint", "writes"} \cup Ids \cup Seq(Agents) \cup Seq(Messages)

Docs == {<<>>} \cup {<<v>> : v \in Values}

\* What the keys of manifests, messages and pointers hold.
Holds(k, d) ==
  /\ d \in Docs
  /\ k = ManifestKey => d = <<>> \/ d[1] \in Seq(Agents)
  /\ k \in {MessagesKey(g) : g \in Agents} => d = <<>> \/ d[1] \in Seq(Messages)
  /\ k = LatestKey => d = <<>> \/ d[1] \in Ids
  /\ k = RegistryKey => d = <<>>

\* A document is not the absence of one.
LEMMA NotEmpty == ASSUME NEW v PROVE <<v>> # <<>>
<1>1. Len(<<v>>) = 1 /\ Len(<<>>) = 0
  OBVIOUS
<1> QED BY <1>1

\* Keys of different kinds and of different agents and checkpoints differ.
LEMMA KeysDiffer ==
  /\ \A g, h : AgentKey(g) = AgentKey(h) => g = h
  /\ \A g, h : MessagesKey(g) = MessagesKey(h) => g = h
  /\ \A g, h : AgentKey(g) # MessagesKey(h)
  /\ \A g, k : AgentKey(g) # CheckpointKey(k) /\ MessagesKey(g) # CheckpointKey(k)
  /\ \A g : AgentKey(g) \notin {SessionKey, ManifestKey, LatestKey, WritesLatestKey, RegistryKey, ThreadKey}
  /\ \A g : MessagesKey(g) \notin {SessionKey, ManifestKey, LatestKey, WritesLatestKey, RegistryKey, ThreadKey}
  /\ \A k : CheckpointKey(k) \notin {SessionKey, ManifestKey, LatestKey, WritesLatestKey, RegistryKey, ThreadKey}
  /\ SessionKey \notin {ManifestKey, LatestKey, WritesLatestKey, RegistryKey, ThreadKey}
  /\ ManifestKey \notin {LatestKey, WritesLatestKey, RegistryKey, ThreadKey}
  /\ LatestKey \notin {WritesLatestKey, RegistryKey, ThreadKey}
  /\ RegistryKey \notin {WritesLatestKey, ThreadKey}
<1>1. \A g, h : AgentKey(g)[2] = g /\ MessagesKey(h)[2] = h
  BY DEF AgentKey, MessagesKey
<1>2. \A g : AgentKey(g)[1] = "agents" /\ MessagesKey(g)[1] = "messages" /\ CheckpointKey(g)[1] = "checkpoint"
  BY DEF AgentKey, MessagesKey, CheckpointKey
<1>3. /\ SessionKey[1] = "session" /\ ManifestKey[1] = "manifest" /\ LatestKey[1] = "latest"
      /\ WritesLatestKey[1] = "latest" /\ RegistryKey[1] = "dapr_checkpoint_registry"
      /\ ThreadKey[1] = "key_prefix"
  BY DEF SessionKey, ManifestKey, LatestKey, WritesLatestKey, RegistryKey, ThreadKey
<1>4. Len(LatestKey) = 1 /\ Len(WritesLatestKey) = 2
  BY DEF LatestKey, WritesLatestKey
<1> QED
  BY <1>1, <1>2, <1>3, <1>4

\* How many documents a call has read after i store calls.
Reads(c, i) ==
  CASE c.method \in {"put", "put_writes"} -> 0
    [] c.method = "create_agent" -> IF i < 3 THEN 0 ELSE 1
    [] c.method = "delete_thread" -> IF i < 2 THEN 0 ELSE 1
    [] c.method \in {"update_message", "get_tuple"} -> IF i < 2 THEN i ELSE 2
    [] OTHER -> IF i = 0 THEN 0 ELSE 1

\* The key that a call reads first.
ReadKey(c) ==
  CASE c.method \in {"create_agent", "delete_session"} -> ManifestKey
    [] c.method \in {"create_message", "update_message", "list_messages"} -> MessagesKey(c.agent)
    [] c.method \in {"list", "delete_thread"} -> RegistryKey
    [] c.method = "create_session" -> SessionKey
    [] c.method = "update_agent" -> AgentKey(c.agent)
    [] OTHER -> LatestKey

\* What a call has read after i store calls.
SeenOK(c, i, r) ==
  /\ r \in Seq(Docs) /\ Len(r) = Reads(c, i)
  /\ Len(r) > 0 => Holds(ReadKey(c), r[1])
  /\ c.method = "update_message" /\ Len(r) = 2 => Holds(ReadKey(c), r[2])

\* What a call deletes and saves with the store call after i of them.
Deletes(c, i, r, k) ==
  \/ c.method = "delete_thread" /\ k = ThreadKey
  \/ /\ c.method = "delete_session"
     /\ \/ \E j \in 1 .. Len(Items(r, 1)) :
             \/ i = 2 * j - 1 /\ k = AgentKey(Items(r, 1)[j])
             \/ i = 2 * j /\ k = MessagesKey(Items(r, 1)[j])
        \/ i = 2 * Len(Items(r, 1)) + 1 /\ k = ManifestKey
        \/ i = 2 * Len(Items(r, 1)) + 2 /\ k = SessionKey

Saves(c, i, r, k, v) ==
  \/ c.method = "create_session" /\ k = SessionKey /\ v = "session"
  \/ c.method = "create_agent" /\ i = 0 /\ k = AgentKey(c.agent) /\ v = "agent"
  \/ c.method = "create_agent" /\ i = 1 /\ k = MessagesKey(c.agent) /\ v = <<>>
  \/ /\ c.method = "create_agent" /\ i = 3 /\ k = ManifestKey
     /\ v = IF Contains(Items(r, 1), c.agent) THEN Items(r, 1) ELSE Append(Items(r, 1), c.agent)
  \/ c.method = "update_agent" /\ i = 1 /\ k = AgentKey(c.agent) /\ v = "agent" /\ HasRead(r, 1)
  \/ /\ c.method = "create_message" /\ i = 1 /\ k = MessagesKey(c.agent)
     /\ v = Append(Items(r, 1), c.message)
  \/ /\ c.method = "update_message" /\ i = 2 /\ k = MessagesKey(c.agent)
     /\ v = Items(r, 2) /\ Contains(Items(r, 2), c.message)
  \/ c.method = "put" /\ i = 0 /\ k = CheckpointKey(PutId(c.config, c.ts, c.id)) /\ v = "checkpoint"
  \/ c.method = "put" /\ i = 1 /\ k = LatestKey /\ v = PutId(c.config, c.ts, c.id)
  \/ c.method = "put_writes" /\ k = CheckpointKey(c.config) /\ v = "writes"
  \/ c.method = "put_writes" /\ k = WritesLatestKey /\ v = c.config

\* The store call s after i of them.
Shape(c, i, r, s) ==
  \/ /\ s.do = "get" /\ s.key \in Keys /\ Reads(c, i + 1) = Len(r) + 1
     /\ Len(r) = 0 \/ c.method = "update_message" => s.key = ReadKey(c)
  \/ s.do = "delete" /\ Reads(c, i + 1) = Len(r) /\ Deletes(c, i, r, s.key)
  \/ s.do = "save" /\ Reads(c, i + 1) = Len(r) /\ Saves(c, i, r, s.key, s.value)

\* The arguments of calls.
LEMMA CallFields ==
  ASSUME NEW c \in DocCalls
  PROVE  /\ c.method \in {"create_session", "delete_session", "get_tuple", "list", "delete_thread",
                          "create_agent", "update_agent", "list_messages", "create_message",
                          "update_message", "put", "put_writes"}
         /\ c.method \in {"create_agent", "update_agent", "list_messages", "create_message",
                          "update_message"} => c.agent \in Agents
         /\ c.method \in {"create_message", "update_message"} => c.message \in Messages
         /\ c.method = "put" => c.config \in Ids /\ c.ts \in Ids /\ c.id \in Ids /\ PutId(c.config, c.ts, c.id) \in Ids
         /\ c.method = "put_writes" => c.config \in Ids /\ c.writes \in Nat
BY DEF DocCalls, PutId

\* A function on 1 .. n is a sequence of length n.
LEMMA FunctionIsSeq ==
  ASSUME NEW n \in Nat, NEW S, NEW f \in [1 .. n -> S]
  PROVE  f \in Seq(S) /\ Len(f) = n
<1>1. f \in Seq(S)
  BY SeqDef
<1> QED
  BY <1>1

\* The keys that the methods use are keys of the store.
LEMMA KeysKnown ==
  /\ {SessionKey, ManifestKey, LatestKey, WritesLatestKey, RegistryKey, ThreadKey} \subseteq Keys
  /\ \A g \in Agents : AgentKey(g) \in Keys /\ MessagesKey(g) \in Keys
  /\ \A k \in Ids : CheckpointKey(k) \in Keys
BY DEF Keys

\* A list that was read.
LEMMA ItemsType ==
  ASSUME NEW r \in Seq(Docs), NEW n \in Nat \ {0}, NEW k, n <= Len(r) => Holds(k, r[n])
  PROVE  /\ k = ManifestKey => Items(r, n) \in Seq(Agents)
         /\ k \in {MessagesKey(g) : g \in Agents} => Items(r, n) \in Seq(Messages)
<1>1. DOMAIN r = 1 .. Len(r) /\ Len(r) \in Nat
  OBVIOUS
<1>2. CASE n <= Len(r)
  BY <1>1, <1>2 DEF Items, HasRead, Read, Holds
<1>3. CASE ~(n <= Len(r))
  <2>1. Items(r, n) = <<>>
    BY <1>1, <1>3 DEF Items, HasRead, Read
  <2> QED
    BY <2>1
<1> QED
  BY <1>2, <1>3

\* The store calls of the methods for sessions and agents.
LEMMA AgentSteps ==
  ASSUME NEW c \in DocCalls, NEW i \in Nat, NEW r, SeenOK(c, i, r), i < Len(Plan(c, r)),
         Plan(c, r)[i + 1].do # "raise",
         c.method \in {"create_session", "create_agent", "update_agent"}
  PROVE  Shape(c, i, r, Plan(c, r)[i + 1])
<1>0. c.method \in {"create_agent", "update_agent"} => c.agent \in Agents
  BY CallFields
<1>1. CASE c.method = "create_session"
  <2> DEFINE q == IF HasRead(r, 1) THEN Raise ELSE Save(SessionKey, "session")
  <2>1. Plan(c, r) = <<Get(SessionKey), q>>
    BY <1>1 DEF Plan, CreateSession
  <2>2. q.do # "raise" => q.do = "save" /\ q.key = SessionKey /\ q.value = "session"
    BY DEF Raise, Save
  <2> HIDE DEF q
  <2>3. \/ i = 0 /\ Plan(c, r)[i + 1] = Get(SessionKey)
        \/ i = 1 /\ Plan(c, r)[i + 1] = q
    BY <2>1
  <2> QED
    BY <1>1, <2>2, <2>3, KeysKnown DEF Get, Shape, Reads, ReadKey, SeenOK, Saves
<1>2. CASE c.method = "create_agent"
  <2> DEFINE v == IF Contains(Items(r, 1), c.agent) THEN Items(r, 1) ELSE Append(Items(r, 1), c.agent)
  <2>1. Plan(c, r) = <<Save(AgentKey(c.agent), "agent"), Save(MessagesKey(c.agent), <<>>),
                       Get(ManifestKey), Save(ManifestKey, v)>>
    BY <1>2 DEF Plan, CreateAgent
  <2> HIDE DEF v
  <2>2. \/ i = 0 /\ Plan(c, r)[i + 1] = Save(AgentKey(c.agent), "agent")
        \/ i = 1 /\ Plan(c, r)[i + 1] = Save(MessagesKey(c.agent), <<>>)
        \/ i = 2 /\ Plan(c, r)[i + 1] = Get(ManifestKey)
        \/ i = 3 /\ Plan(c, r)[i + 1] = Save(ManifestKey, v)
    BY <2>1
  <2>3. CASE i = 2
    BY <1>2, <2>2, <2>3, KeysKnown DEF Get, Shape, Reads, ReadKey, SeenOK
  <2>4. CASE i # 2
    <3>1. /\ Plan(c, r)[i + 1].do = "save"
          /\ Saves(c, i, r, Plan(c, r)[i + 1].key, Plan(c, r)[i + 1].value)
      <4>1. CASE i = 0
        BY <1>2, <2>2, <4>1 DEF Save, Saves
      <4>2. CASE i = 1
        BY <1>2, <2>2, <4>2 DEF Save, Saves
      <4>3. CASE i = 3
        <5>1. Plan(c, r)[i + 1] = Save(ManifestKey, v)
          BY <2>2, <4>3
        <5>2. Saves(c, i, r, ManifestKey, v)
          BY <1>2, <4>3 DEF Saves, v
        <5> QED
          BY <5>1, <5>2 DEF Save
      <4> QED
        BY <2>2, <2>4, <4>1, <4>2, <4>3
    <3>2. Reads(c, i + 1) = Len(r)
      BY <1>2, <2>2, <2>4 DEF Reads, SeenOK
    <3> QED
      BY <3>1, <3>2 DEF Shape
  <2> QED
    BY <2>3, <2>4
<1>3. CASE c.method = "update_agent"
  <2> DEFINE q == IF HasRead(r, 1) THEN Save(AgentKey(c.agent), "agent") ELSE Raise
  <2>1. Plan(c, r) = <<Get(AgentKey(c.agent)), q>>
    BY <1>3 DEF Plan, UpdateAgent
  <2>2. q.do # "raise" => /\ q.do = "save" /\ q.key = AgentKey(c.agent) /\ q.value = "agent"
                          /\ HasRead(r, 1)
    BY DEF Raise, Save
  <2> HIDE DEF q
  <2>3. \/ i = 0 /\ Plan(c, r)[i + 1] = Get(AgentKey(c.agent))
        \/ i = 1 /\ Plan(c, r)[i + 1] = q
    BY <2>1
  <2> QED
    BY <1>0, <1>3, <2>2, <2>3, KeysKnown DEF Get, Shape, Reads, ReadKey, SeenOK, Saves
<1> QED
  BY <1>1, <1>2, <1>3

\* The store calls of the methods for messages.
LEMMA MessageSteps ==
  ASSUME NEW c \in DocCalls, NEW i \in Nat, NEW r, SeenOK(c, i, r), i < Len(Plan(c, r)),
         Plan(c, r)[i + 1].do # "raise",
         c.method \in {"create_message", "update_message", "list_messages"}
  PROVE  Shape(c, i, r, Plan(c, r)[i + 1])
<1> DEFINE k == MessagesKey(c.agent)
<1>0. k \in Keys
  BY CallFields, KeysKnown
<1>1. CASE c.method = "create_message"
  <2> DEFINE v == Append(Items(r, 1), c.message)
  <2>1. Plan(c, r) = <<Get(k), Save(k, v)>>
    BY <1>1 DEF Plan, CreateMessage
  <2> HIDE DEF v
  <2>2. \/ i = 0 /\ Plan(c, r)[i + 1] = Get(k)
        \/ i = 1 /\ Plan(c, r)[i + 1] = Save(k, v)
    BY <2>1
  <2> QED
    BY <1>0, <1>1, <2>2 DEF Get, Save, Shape, Reads, ReadKey, SeenOK, Saves, v
<1>2. CASE c.method = "update_message"
  <2> DEFINE q == IF Contains(Items(r, 2), c.message) THEN Save(k, Items(r, 2)) ELSE Raise
  <2>1. \/ Plan(c, r) = <<Get(k), Raise>>
        \/ Plan(c, r) = <<Get(k), Get(k), q>>
    BY <1>2 DEF Plan, UpdateMessage
  <2>2. q.do # "raise" => /\ q.do = "save" /\ q.key = k /\ q.value = Items(r, 2)
                          /\ Contains(Items(r, 2), c.message)
    BY DEF Raise, Save
  <2>3. Raise.do = "raise"
    BY DEF Raise
  <2> HIDE DEF q
  <2>4. \/ i \in {0, 1} /\ Plan(c, r)[i + 1] = Get(k)
        \/ i = 2 /\ Plan(c, r)[i + 1] = q
    BY <2>1, <2>3
  <2>5. CASE i \in {0, 1} /\ Plan(c, r)[i + 1] = Get(k)
    BY <1>0, <1>2, <2>5 DEF Get, Shape, Reads, ReadKey, SeenOK
  <2>6. CASE i = 2 /\ Plan(c, r)[i + 1] = q
    BY <1>2, <2>2, <2>6 DEF Shape, Reads, SeenOK, Saves
  <2> QED
    BY <2>4, <2>5, <2>6
<1>3. CASE c.method = "list_messages"
  <2>1. Plan(c, r) = <<Get(k)>>
    BY <1>3 DEF Plan, ListMessages
  <2>2. i = 0 /\ Plan(c, r)[i + 1] = Get(k)
    BY <2>1
  <2> QED
    BY <1>0, <1>3, <2>2 DEF Get, Shape, Reads, ReadKey, SeenOK
<1> QED
  BY <1>1, <1>2, <1>3

\* The store calls of the methods for threads.
LEMMA ThreadSteps ==
  ASSUME NEW c \in DocCalls, NEW i \in Nat, NEW r, SeenOK(c, i, r), i < Len(Plan(c, r)),
         Plan(c, r)[i + 1].do # "raise",
         c.method \in {"put", "put_writes", "get_tuple", "list", "delete_thread"}
  PROVE  Shape(c, i, r, Plan(c, r)[i + 1])
<1>0. r \in Seq(Docs) /\ DOMAIN r = 1 .. Len(r) /\ Len(r) \in Nat
  BY DEF SeenOK
<1>1. CASE c.method = "put"
  <2> DEFINE k == PutId(c.config, c.ts, c.id)
  <2>1. Plan(c, r) = <<Save(CheckpointKey(k), "checkpoint"), Save(LatestKey, k)>>
    BY <1>1 DEF Plan, Put
  <2>2. \/ i = 0 /\ Plan(c, r)[i + 1] = Save(CheckpointKey(k), "checkpoint")
        \/ i = 1 /\ Plan(c, r)[i + 1] = Save(LatestKey, k)
    BY <2>1
  <2> QED
    BY <1>1, <2>2 DEF Save, Shape, Reads, SeenOK, Saves
<1>2. CASE c.method = "put_writes"
  <2>0. c.writes \in Nat
    BY <1>2, CallFields
  <2>1. Plan(c, r) = [j \in 1 .. 2 * c.writes |->
          IF j % 2 = 1 THEN Save(CheckpointKey(c.config), "writes") ELSE Save(WritesLatestKey, c.config)]
    BY <1>2 DEF Plan, PutWrites
  <2>2. i + 1 \in 1 .. 2 * c.writes
    <3> DEFINE S == {Save(CheckpointKey(c.config), "writes"), Save(WritesLatestKey, c.config)}
    <3>0. 2 * c.writes \in Nat /\ Plan(c, r) \in [1 .. 2 * c.writes -> S]
      BY <2>0, <2>1
    <3> HIDE DEF S
    <3>1. Len(Plan(c, r)) = 2 * c.writes
      BY <3>0, FunctionIsSeq
    <3> QED
      BY <2>0, <3>1
  <2>3. Plan(c, r)[i + 1] \in {Save(CheckpointKey(c.config), "writes"), Save(WritesLatestKey, c.config)}
    BY <2>1, <2>2
  <2> QED
    BY <1>2, <2>3 DEF Save, Shape, Reads, SeenOK, Saves
<1>3. CASE c.method = "get_tuple"
  <2> DEFINE k == CheckpointKey(r[1][1])
  <2>1. \/ Len(r) = 0 /\ Plan(c, r) = <<Get(LatestKey)>>
        \/ Len(r) > 0 /\ r[1] # <<>> /\ Plan(c, r) = <<Get(LatestKey), Get(k), Raise>>
        \/ Len(r) > 0 /\ r[1] # <<>> /\ Plan(c, r) = <<Get(LatestKey), Get(k)>>
        \/ Len(r) > 0 /\ Plan(c, r) = <<Get(LatestKey)>>
    BY <1>0, <1>3 DEF Plan, GetTuple, HasRead, Read
  <2>2. Raise.do = "raise" /\ Len(r) = IF i < 2 THEN i ELSE 2
    BY <1>3 DEF Raise, SeenOK, Reads
  <2>3. \/ i = 0 /\ Plan(c, r)[i + 1] = Get(LatestKey)
        \/ i = 1 /\ r[1] # <<>> /\ Plan(c, r)[i + 1] = Get(k)
    BY <2>1, <2>2
  <2>4. i = 1 /\ r[1] # <<>> => k \in Keys
    BY <1>3, <2>2, KeysKnown DEF SeenOK, Holds, ReadKey
  <2> QED
    BY <1>3, <2>2, <2>3, <2>4, KeysKnown DEF Get, Shape, Reads, ReadKey
<1>4. Items(r, 1) = <<>> \/ c.method \notin {"list", "delete_thread"}
  <2>1. CASE c.method \in {"list", "delete_thread"}
    <3>1. 1 <= Len(r) => Holds(RegistryKey, r[1])
      BY <2>1 DEF SeenOK, ReadKey
    <3>2. Read(r, 1) = <<>>
      BY <1>0, <3>1 DEF Read, Holds
    <3>3. Items(r, 1) = <<>>
      BY <3>2 DEF Items, HasRead
    <3> QED
      BY <3>3
  <2> QED
    BY <2>1
<1>5. CASE c.method = "list"
  <2> DEFINE d == [j \in DOMAIN Items(r, 1) |-> Get(Items(r, 1)[j])]
  <2>1. Plan(c, r) = <<Get(RegistryKey)>> \o d
    BY <1>5 DEF Plan, ListCheckpoints
  <2>2. d = <<>>
    BY <1>4, <1>5
  <2> HIDE DEF d
  <2>3. Plan(c, r) = <<Get(RegistryKey)>>
    BY <2>1, <2>2
  <2>4. i = 0 /\ Plan(c, r)[i + 1] = Get(RegistryKey)
    BY <2>3
  <2> QED
    BY <1>5, <2>4, KeysKnown DEF Get, Shape, Reads, ReadKey, SeenOK
<1>6. CASE c.method = "delete_thread"
  <2>1. ~Contains(Items(r, 1), ThreadKey)
    BY <1>4, <1>6 DEF Contains
  <2>2. Plan(c, r) = <<Delete(ThreadKey), Get(RegistryKey)>>
    BY <1>6, <2>1 DEF Plan, DeleteThread
  <2>3. \/ i = 0 /\ Plan(c, r)[i + 1] = Delete(ThreadKey)
        \/ i = 1 /\ Plan(c, r)[i + 1] = Get(RegistryKey)
    BY <2>2
  <2> QED
    BY <1>6, <2>3, KeysKnown DEF Get, Delete, Shape, Reads, ReadKey, SeenOK, Deletes
<1> QED
  BY <1>1, <1>2, <1>3, <1>5, <1>6

\* The store calls of delete_session.
LEMMA DeleteSteps ==
  ASSUME NEW c \in DocCalls, NEW i \in Nat, NEW r, SeenOK(c, i, r), i < Len(Plan(c, r)),
         c.method = "delete_session"
  PROVE  Shape(c, i, r, Plan(c, r)[i + 1])
<1> DEFINE agents == Items(r, 1)
           n == Len(agents)
           d == AgentDeletions(agents)
<1>1. agents \in Seq(Agents) /\ n \in Nat
  <2>1. 1 <= Len(r) => Holds(ManifestKey, r[1])
    BY DEF SeenOK, ReadKey
  <2>2. r \in Seq(Docs)
    BY DEF SeenOK
  <2>3. agents \in Seq(Agents)
    BY <2>1, <2>2, ItemsType
  <2> QED
    BY <2>3
<1>2. Plan(c, r) = <<Get(ManifestKey)>> \o d \o <<Delete(ManifestKey), Delete(SessionKey)>>
  BY DEF Plan, DeleteSession
<1>3. /\ d \in [1 .. 2 * n -> {d[j] : j \in 1 .. 2 * n}]
      /\ \A j \in 1 .. 2 * n : d[j] = IF j % 2 = 1 THEN Delete(AgentKey(agents[(j + 1) \div 2]))
                                      ELSE Delete(MessagesKey(agents[j \div 2]))
  BY <1>1 DEF AgentDeletions
<1> HIDE DEF d
<1>4. d \in Seq({d[j] : j \in 1 .. 2 * n}) /\ Len(d) = 2 * n
  <2>1. 2 * n \in Nat
    BY <1>1
  <2> QED
    BY <1>3, <2>1, FunctionIsSeq
<1>5. /\ Len(Plan(c, r)) = 2 * n + 3
      /\ Plan(c, r)[1] = Get(ManifestKey)
      /\ \A j \in 1 .. 2 * n : Plan(c, r)[j + 1] = d[j]
      /\ Plan(c, r)[2 * n + 2] = Delete(ManifestKey)
      /\ Plan(c, r)[2 * n + 3] = Delete(SessionKey)
  <2> DEFINE a == <<Get(ManifestKey)>>
             z == <<Delete(ManifestKey), Delete(SessionKey)>>
             S == {d[j] : j \in 1 .. 2 * n} \cup {Get(ManifestKey), Delete(ManifestKey), Delete(SessionKey)}
  <2>1. /\ a \in Seq(S) /\ Len(a) = 1 /\ a[1] = Get(ManifestKey)
        /\ z \in Seq(S) /\ Len(z) = 2 /\ z[1] = Delete(ManifestKey) /\ z[2] = Delete(SessionKey)
        /\ d \in Seq(S)
    BY <1>4
  <2> HIDE DEF a, z, S
  <2>2. /\ a \o d \in Seq(S) /\ Len(a \o d) = 2 * n + 1 /\ (a \o d)[1] = a[1]
        /\ \A j \in 1 .. 2 * n : (a \o d)[j + 1] = d[j]
    <3>1. /\ a \o d \in Seq(S) /\ Len(a \o d) = Len(a) + Len(d)
          /\ \A j \in 1 .. Len(a) + Len(d) : (a \o d)[j] = IF j <= Len(a) THEN a[j] ELSE d[j - Len(a)]
      BY <2>1, ConcatProperties
    <3>2. 1 \in 1 .. Len(a) + Len(d)
          /\ \A j \in 1 .. 2 * n : j + 1 \in 1 .. Len(a) + Len(d) /\ ~(j + 1 <= Len(a)) /\ j + 1 - Len(a) = j
      BY <1>1, <1>4, <2>1
    <3>3. (a \o d)[1] = a[1]
      BY <2>1, <3>1, <3>2
    <3>4. ASSUME NEW j \in 1 .. 2 * n PROVE (a \o d)[j + 1] = d[j]
      BY <3>1, <3>2
    <3>5. Len(a \o d) = 2 * n + 1
      BY <1>1, <1>4, <2>1, <3>1
    <3> QED
      BY <3>1, <3>3, <3>4, <3>5
  <2>3. /\ Len((a \o d) \o z) = 2 * n + 3
        /\ \A j \in 1 .. 2 * n + 1 : ((a \o d) \o z)[j] = (a \o d)[j]
        /\ ((a \o d) \o z)[2 * n + 2] = z[1] /\ ((a \o d) \o z)[2 * n + 3] = z[2]
    <3> DEFINE b == a \o d
    <3>0. b \in Seq(S) /\ Len(b) = 2 * n + 1
      BY <2>2
    <3> HIDE DEF b
    <3>1. /\ Len(b \o z) = Len(b) + Len(z)
          /\ \A j \in 1 .. Len(b) + Len(z) : (b \o z)[j] = IF j <= Len(b) THEN b[j] ELSE z[j - Len(b)]
      BY <2>1, <3>0, ConcatProperties
    <3>2. /\ Len(b \o z) = 2 * n + 3
          /\ \A j \in 1 .. 2 * n + 1 : (b \o z)[j] = b[j]
      BY <1>1, <2>1, <3>0, <3>1
    <3>3. (b \o z)[2 * n + 2] = z[1] /\ (b \o z)[2 * n + 3] = z[2]
      BY <1>1, <2>1, <3>0, <3>1
    <3> QED
      BY <3>2, <3>3 DEF b
  <2>4. Plan(c, r) = (a \o d) \o z
    BY <1>2 DEF a, z
  <2>5. 1 \in 1 .. 2 * n + 1 /\ \A j \in 1 .. 2 * n : j + 1 \in 1 .. 2 * n + 1
    BY <1>1
  <2> QED
    BY <2>1, <2>2, <2>3, <2>4, <2>5
<1> HIDE DEF n
<1>6. Len(r) = IF i = 0 THEN 0 ELSE 1
  BY DEF SeenOK, Reads
<1>7. CASE i = 0
  BY <1>5, <1>6, <1>7, KeysKnown DEF Get, Shape, Reads, ReadKey
<1>8. ASSUME i # 0, NEW k, Plan(c, r)[i + 1] = Delete(k), Deletes(c, i, r, k)
      PROVE  Shape(c, i, r, Plan(c, r)[i + 1])
  BY <1>6, <1>8 DEF Delete, Shape, Reads
<1>9. CASE i = 2 * n + 1
  <2>1. Deletes(c, i, r, ManifestKey) /\ Plan(c, r)[i + 1] = Delete(ManifestKey) /\ i # 0
    BY <1>1, <1>5, <1>9 DEF Deletes, n
  <2> QED
    BY <1>8, <2>1
<1>10. CASE i = 2 * n + 2
  <2>1. Deletes(c, i, r, SessionKey) /\ Plan(c, r)[i + 1] = Delete(SessionKey) /\ i # 0
    BY <1>1, <1>5, <1>10 DEF Deletes, n
  <2> QED
    BY <1>8, <2>1
<1>11. CASE i \in 1 .. 2 * n /\ i % 2 = 1
  <2> DEFINE j == (i + 1) \div 2
  <2>1. j \in 1 .. n /\ i = 2 * j - 1
    BY <1>1, <1>11
  <2>2. Plan(c, r)[i + 1] = Delete(AgentKey(agents[j]))
    BY <1>3, <1>5, <1>11
  <2>3. Deletes(c, i, r, AgentKey(agents[j]))
    BY <2>1 DEF Deletes, n
  <2> QED
    BY <1>8, <1>11, <2>2, <2>3
<1>12. CASE i \in 1 .. 2 * n /\ i % 2 # 1
  <2> DEFINE j == i \div 2
  <2>1. j \in 1 .. n /\ i = 2 * j
    BY <1>1, <1>12
  <2>2. Plan(c, r)[i + 1] = Delete(MessagesKey(agents[j]))
    BY <1>3, <1>5, <1>12
  <2>3. Deletes(c, i, r, MessagesKey(agents[j]))
    BY <2>1 DEF Deletes, n
  <2> QED
    BY <1>8, <1>12, <2>2, <2>3
<1> QED
  BY <1>1, <1>5, <1>7, <1>9, <1>10, <1>11, <1>12

\* The store call that comes next, whatever the method.
LEMMA EveryStep ==
  ASSUME NEW c \in DocCalls, NEW i \in Nat, NEW r, SeenOK(c, i, r), i < Len(Plan(c, r)),
         Plan(c, r)[i + 1].do # "raise"
  PROVE  Shape(c, i, r, Plan(c, r)[i + 1])
BY CallFields, AgentSteps, MessageSteps, ThreadSteps, DeleteSteps

----------------------------------------------------------------------------
(* Documents: the state, whatever the methods.                             *)

DocTypeOK ==
  /\ script \in Scripts /\ store \in [Keys -> Docs] /\ \A k \in Keys : Holds(k, store[k])
  /\ done \in [Users -> Nat] /\ pc \in [Users -> Nat] /\ seen \in [Users -> Seq(Docs)]
  /\ outcome \in [Users -> {"none", "ok", "raised", "failed"}]
  /\ kept \in [Agents -> SUBSET Messages] /\ unlisted \subseteq Agents /\ lostCalls \in Nat

\* A call that has made no store call has read nothing.
DocInv ==
  /\ DocTypeOK
  /\ \A p \in Users : /\ pc[p] = 0 => seen[p] = <<>>
                      /\ Calling(p) => SeenOK(Current(p), pc[p], seen[p])

\* The calls of a script.
LEMMA CallsTyped ==
  ASSUME DocInv, NEW p \in Users
  PROVE  /\ script.calls[p] \in Seq(DocCalls)
         /\ Calling(p) => Current(p) \in DocCalls
<1>1. script.calls[p] \in Seq(DocCalls)
  BY DocumentsAssumption DEF DocInv, DocTypeOK
<1>2. done[p] \in Nat
  BY DEF DocInv, DocTypeOK
<1>3. ASSUME Calling(p) PROVE Current(p) \in DocCalls
  <2>1. done[p] + 1 \in 1 .. Len(script.calls[p])
    BY <1>1, <1>2, <1>3 DEF Calling
  <2> QED
    BY <1>1, <2>1 DEF Current
<1> QED
  BY <1>1, <1>3

\* What a call saves is a document of its key.
LEMMA SavedType ==
  ASSUME NEW c \in DocCalls, NEW i \in Nat, NEW r, SeenOK(c, i, r), NEW k, NEW v, Saves(c, i, r, k, v)
  PROVE  k \in Keys /\ Holds(k, <<v>>)
<1> USE KeysKnown, KeysDiffer
<1>0. <<v>>[1] = v /\ (v \in Values => <<v>> \in Docs)
  BY DEF Docs
<1>r. r \in Seq(Docs)
  BY DEF SeenOK
<1>1. CASE c.method = "create_session" \/ c.method = "update_agent"
  <2>1. k \in {SessionKey, AgentKey(c.agent)} /\ v \in Values /\ (k = AgentKey(c.agent) => c.agent \in Agents)
    BY <1>1, CallFields DEF Saves, Values
  <2> QED
    BY <1>0, <2>1 DEF Holds
<1>2. CASE c.method = "create_agent"
  <2>0. c.agent \in Agents
    BY <1>2, CallFields
  <2>1. CASE i = 0
    <3>1. k = AgentKey(c.agent) /\ v \in Values
      BY <1>2, <2>1 DEF Saves, Values
    <3> QED
      BY <1>0, <2>0, <3>1 DEF Holds
  <2>2. CASE i = 1
    <3>1. k = MessagesKey(c.agent) /\ v = <<>>
      BY <1>2, <2>2 DEF Saves
    <3>2. v \in Seq(Messages) /\ v \in Values
      BY <3>1 DEF Values
    <3> QED
      BY <1>0, <2>0, <3>1, <3>2 DEF Holds
  <2>3. CASE i = 3
    <3>1. k = ManifestKey
          /\ v = IF Contains(Items(r, 1), c.agent) THEN Items(r, 1) ELSE Append(Items(r, 1), c.agent)
      BY <1>2, <2>3 DEF Saves
    <3>2. 1 <= Len(r) => Holds(ManifestKey, r[1])
      BY <1>2, <1>r DEF SeenOK, ReadKey
    <3>3. Items(r, 1) \in Seq(Agents)
      BY <1>r, <3>2, ItemsType
    <3>4. v \in Seq(Agents) /\ v \in Values
      BY <2>0, <3>1, <3>3 DEF Values
    <3> QED
      BY <1>0, <3>1, <3>4 DEF Holds
  <2> QED
    BY <1>2, <2>1, <2>2, <2>3 DEF Saves
<1>3. CASE c.method \in {"create_message", "update_message"}
  <2>0. c.agent \in Agents /\ c.message \in Messages
    BY <1>3, CallFields
  <2>1. 1 <= Len(r) => Holds(MessagesKey(c.agent), r[1])
    BY <1>3, <1>r DEF SeenOK, ReadKey
  <2>2. c.method = "update_message" => (2 <= Len(r) => Holds(MessagesKey(c.agent), r[2]))
    BY <1>3, <1>r DEF SeenOK, ReadKey, Reads
  <2>m. MessagesKey(c.agent) \in {MessagesKey(g) : g \in Agents} /\ 1 \in Nat \ {0} /\ 2 \in Nat \ {0}
    BY <2>0
  <2>3. Items(r, 1) \in Seq(Messages)
    BY <1>r, <2>1, <2>m, ItemsType
  <2>4. ASSUME c.method = "update_message" PROVE Items(r, 2) \in Seq(Messages)
    BY <1>r, <2>2, <2>4, <2>m, ItemsType
  <2>5. k = MessagesKey(c.agent) /\ v \in Seq(Messages)
    BY <1>3, <2>0, <2>3, <2>4 DEF Saves
  <2>6. v \in Values
    BY <2>5 DEF Values
  <2> QED
    BY <1>0, <2>0, <2>5, <2>6 DEF Holds
<1>4. CASE c.method \in {"put", "put_writes"}
  <2>1. \/ k \in {CheckpointKey(x) : x \in Ids} /\ v \in {"checkpoint", "writes"}
        \/ k \in {LatestKey, WritesLatestKey} /\ v \in Ids
    BY <1>4, CallFields DEF Saves
  <2>2. v \in Values
    BY <2>1 DEF Values
  <2> QED
    BY <1>0, <2>1, <2>2 DEF Holds
<1> QED
  BY <1>1, <1>2, <1>3, <1>4 DEF Saves

\* What a call deletes is one of the keys.
LEMMA DeletedType ==
  ASSUME NEW c \in DocCalls, NEW i \in Nat, NEW r, SeenOK(c, i, r), NEW k, Deletes(c, i, r, k)
  PROVE  /\ k \in Keys
         /\ \/ k \in {SessionKey, ManifestKey, ThreadKey}
            \/ \E g \in Agents : k = AgentKey(g) \/ k = MessagesKey(g)
<1>1. CASE c.method = "delete_thread"
  BY <1>1, KeysKnown DEF Deletes
<1>2. CASE c.method = "delete_session"
  <2>1. 1 <= Len(r) => Holds(ManifestKey, r[1])
    BY <1>2 DEF SeenOK, ReadKey
  <2>2. r \in Seq(Docs)
    BY DEF SeenOK
  <2>3. Items(r, 1) \in Seq(Agents)
    BY <2>1, <2>2, ItemsType
  <2>4. \A j \in 1 .. Len(Items(r, 1)) : Items(r, 1)[j] \in Agents
    BY <2>3
  <2> QED
    BY <1>2, <2>4, KeysKnown DEF Deletes
<1> QED
  BY <1>1, <1>2 DEF Deletes

\* The store after a store call.
LEMMA AppliedType ==
  ASSUME DocTypeOK, NEW c \in DocCalls, NEW i \in Nat, NEW r, SeenOK(c, i, r), NEW s, Shape(c, i, r, s)
  PROVE  /\ s.do = "get" => Applied(s) = store
         /\ s.do = "delete" => Applied(s) = [store EXCEPT ![s.key] = <<>>]
         /\ s.do = "save" => Applied(s) = [store EXCEPT ![s.key] = <<s.value>>]
         /\ s.do \in {"get", "delete", "save"} /\ s.key \in Keys
         /\ Applied(s) \in [Keys -> Docs] /\ \A k \in Keys : Holds(k, Applied(s)[k])
<1>0. store \in [Keys -> Docs] /\ \A k \in Keys : Holds(k, store[k])
  BY DEF DocTypeOK
<1>e. <<>> \in Docs /\ \A k : Holds(k, <<>>)
  BY DEF Docs, Holds
<1>1. CASE s.do = "get"
  BY <1>0, <1>1 DEF Applied, Shape
<1>2. CASE s.do = "delete"
  <2>1. s.key \in Keys
    BY <1>2, DeletedType DEF Shape
  <2>2. Applied(s) = [store EXCEPT ![s.key] = <<>>]
    BY <1>2 DEF Applied
  <2> QED
    BY <1>0, <1>2, <1>e, <2>1, <2>2
<1>3. CASE s.do = "save"
  <2>1. s.key \in Keys /\ Holds(s.key, <<s.value>>)
    BY <1>3, SavedType DEF Shape
  <2>2. Applied(s) = [store EXCEPT ![s.key] = <<s.value>>]
    BY <1>3 DEF Applied
  <2>3. <<s.value>> \in Docs
    BY <2>1 DEF Holds
  <2> QED
    BY <1>0, <1>3, <2>1, <2>2, <2>3
<1> QED
  BY <1>1, <1>2, <1>3 DEF Shape

\* What is known of the store call that comes next.
LEMMA NextStoreCall ==
  ASSUME DocInv, NEW p \in Users, MidCall(p), StoreStep(p).do # "raise"
  PROVE  /\ Current(p) \in DocCalls /\ pc[p] \in Nat /\ SeenOK(Current(p), pc[p], seen[p])
         /\ Shape(Current(p), pc[p], seen[p], StoreStep(p))
<1>1. Current(p) \in DocCalls /\ pc[p] \in Nat /\ SeenOK(Current(p), pc[p], seen[p])
  BY CallsTyped DEF DocInv, DocTypeOK, MidCall
<1> QED
  BY <1>1, EveryStep DEF MidCall, StoreStep, Steps

\* A call that begins has read nothing.
LEMMA NothingRead == ASSUME NEW c PROVE SeenOK(c, 0, <<>>)
<1>1. Reads(c, 0) = 0
  BY DEF Reads
<1>2. <<>> \in Seq(Docs) /\ Len(<<>>) = 0
  OBVIOUS
<1> QED
  BY <1>1, <1>2 DEF SeenOK

\* What p does leaves the others where they are.
LEMMA OthersStay ==
  ASSUME DocInv, NEW p \in Users, script' = script, NEW d, NEW i, NEW r,
         done' = [done EXCEPT ![p] = d], pc' = [pc EXCEPT ![p] = i], seen' = [seen EXCEPT ![p] = r]
  PROVE  /\ done'[p] = d /\ pc'[p] = i /\ seen'[p] = r
         /\ \A q \in Users \ {p} : /\ Calling(q)' = Calling(q) /\ Current(q)' = Current(q)
                                    /\ done'[q] = done[q] /\ pc'[q] = pc[q] /\ seen'[q] = seen[q]
<1>1. /\ done'[p] = d /\ pc'[p] = i /\ seen'[p] = r
      /\ \A q \in Users \ {p} : done'[q] = done[q] /\ pc'[q] = pc[q] /\ seen'[q] = seen[q]
  BY DEF DocInv, DocTypeOK
<1> QED
  BY <1>1 DEF Calling, Current

\* The end of a call.
LEMMA EndedInv ==
  ASSUME DocInv, NEW p \in Users, NEW how \in {"ok", "raised", "failed"}, EndCall(p, how),
         script' = script, store' \in [Keys -> Docs], \A k \in Keys : Holds(k, store'[k]),
         kept' \in [Agents -> SUBSET Messages], unlisted' \subseteq Agents, lostCalls' \in Nat
  PROVE  DocInv'
<1>1. /\ done' = [done EXCEPT ![p] = done[p] + 1] /\ pc' = [pc EXCEPT ![p] = 0]
      /\ seen' = [seen EXCEPT ![p] = <<>>] /\ outcome' = [outcome EXCEPT ![p] = how]
  BY DEF EndCall
<1>2. done[p] + 1 \in Nat /\ <<>> \in Seq(Docs)
  BY DEF DocInv, DocTypeOK
<1>3. DocTypeOK'
  <2>1. /\ done' \in [Users -> Nat] /\ pc' \in [Users -> Nat] /\ seen' \in [Users -> Seq(Docs)]
        /\ outcome' \in [Users -> {"none", "ok", "raised", "failed"}]
    BY <1>1, <1>2 DEF DocInv, DocTypeOK
  <2>2. \A k \in Keys : Holds(k, store[k])'
    BY DEF Holds
  <2> QED
    BY <2>1, <2>2 DEF DocTypeOK, DocInv
<1>4. ASSUME NEW q \in Users
      PROVE  ((pc[q] = 0 => seen[q] = <<>>) /\ (Calling(q) => SeenOK(Current(q), pc[q], seen[q])))'
  <2>1. CASE q = p
    <3>1. pc'[p] = 0 /\ seen'[p] = <<>>
      BY <1>1 DEF DocInv, DocTypeOK
    <3>2. SeenOK(Current(p)', 0, <<>>)
      BY NothingRead
    <3>3. SeenOK(Current(p)', pc'[p], seen'[p])
      BY <3>1, <3>2
    <3> QED
      BY <2>1, <3>1, <3>3 DEF SeenOK
  <2>2. CASE q # p
    <3>1. /\ Calling(q)' = Calling(q) /\ Current(q)' = Current(q)
          /\ pc'[q] = pc[q] /\ seen'[q] = seen[q]
      BY <1>1, <2>2, OthersStay
    <3> QED
      BY <3>1 DEF DocInv
  <2> QED
    BY <2>1, <2>2
<1> QED
  BY <1>3, <1>4 DEF DocInv

\* Every step keeps the documents and what has been read of them in order.
LEMMA DocInvStep == DocInv /\ [DocNext]_docVars => DocInv'
<1> SUFFICES ASSUME DocInv, [DocNext]_docVars PROVE DocInv'
  OBVIOUS
<1>0. /\ store \in [Keys -> Docs] /\ \A k \in Keys : Holds(k, store[k])
      /\ kept \in [Agents -> SUBSET Messages] /\ unlisted \subseteq Agents /\ lostCalls \in Nat
  BY DEF DocInv, DocTypeOK
<1>1. ASSUME NEW p \in Users, MidCall(p), StoreStep(p).do # "raise",
             kept' = [g \in Agents |-> IF g \in Touched(Current(p)) THEN {} ELSE kept[g]],
             unlisted' = IF Current(p).method = "create_agent"
                         THEN unlisted \cup {Current(p).agent} ELSE unlisted
      PROVE  kept' \in [Agents -> SUBSET Messages] /\ unlisted' \subseteq Agents
  <2>1. Current(p).method = "create_agent" => Current(p).agent \in Agents
    BY <1>1, NextStoreCall, CallFields
  <2> QED
    BY <1>0, <1>1, <2>1
<1>2. ASSUME NEW p \in Users, StoreCall(p) PROVE DocInv'
  <2> DEFINE c == Current(p)
             i == pc[p]
             r == seen[p]
             s == StoreStep(p)
             q == IF s.do = "get" THEN Append(r, store[s.key]) ELSE r
  <2>1. MidCall(p) /\ s.do # "raise"
    BY <1>2 DEF StoreCall
  <2>2. c \in DocCalls /\ i \in Nat /\ SeenOK(c, i, r) /\ Shape(c, i, r, s) /\ r \in Seq(Docs)
    BY <2>1, NextStoreCall DEF SeenOK
  <2>3. /\ store' = Applied(s) /\ s.key \in Keys
        /\ store' \in [Keys -> Docs] /\ \A k \in Keys : Holds(k, store'[k])
    BY <1>2, <2>2, AppliedType DEF StoreCall, DocInv
  <2>4. /\ script' = script /\ done' = done /\ outcome' = outcome /\ lostCalls' = lostCalls
        /\ pc' = [pc EXCEPT ![p] = i + 1] /\ seen' = [seen EXCEPT ![p] = q]
    BY <1>2 DEF StoreCall, DocInv, DocTypeOK
  <2>5. SeenOK(c, i + 1, q)
    <3>1. CASE s.do = "get"
      <4>1. /\ Reads(c, i + 1) = Len(r) + 1
            /\ Len(r) = 0 \/ c.method = "update_message" => s.key = ReadKey(c)
        BY <2>2, <3>1 DEF Shape
      <4>2. store[s.key] \in Docs /\ Holds(s.key, store[s.key])
        BY <1>0, <2>3
      <4>3. /\ q \in Seq(Docs) /\ Len(q) = Len(r) + 1 /\ Len(r) \in Nat
            /\ \A j \in 1 .. Len(r) : q[j] = r[j]
            /\ q[Len(r) + 1] = store[s.key]
        BY <2>2, <3>1, <4>2
      <4> HIDE DEF q, c, i, r, s
      <4>4. Holds(ReadKey(c), q[1])
        <5>1. CASE Len(r) = 0
          BY <4>1, <4>2, <4>3, <5>1
        <5>2. CASE Len(r) # 0
          BY <2>2, <4>3, <5>2 DEF SeenOK
        <5> QED
          BY <5>1, <5>2
      <4>5. c.method = "update_message" /\ Len(q) = 2 => Holds(ReadKey(c), q[2])
        BY <4>1, <4>2, <4>3
      <4> QED
        BY <4>1, <4>3, <4>4, <4>5 DEF SeenOK
    <3>2. CASE s.do # "get"
      BY <2>2, <3>2 DEF Shape, SeenOK
    <3> QED
      BY <3>1, <3>2
  <2>6. q \in Seq(Docs) /\ i + 1 \in Nat /\ i + 1 # 0
    BY <2>2, <2>5 DEF SeenOK
  <2>7. DocTypeOK'
    <3>1. pc' \in [Users -> Nat] /\ seen' \in [Users -> Seq(Docs)]
      BY <2>4, <2>6 DEF DocInv, DocTypeOK
    <3>2. \A k \in Keys : Holds(k, store[k])'
      BY <2>3 DEF Holds
    <3>3. kept' \in [Agents -> SUBSET Messages] /\ unlisted' \subseteq Agents
      BY <1>1, <1>2, <2>1 DEF StoreCall
    <3> QED
      BY <2>3, <2>4, <3>1, <3>2, <3>3 DEF DocTypeOK, DocInv
  <2> HIDE DEF q, i, r, s
  <2>8. ASSUME NEW u \in Users
        PROVE  ((pc[u] = 0 => seen[u] = <<>>) /\ (Calling(u) => SeenOK(Current(u), pc[u], seen[u])))'
    <3>0. Calling(u)' = Calling(u) /\ Current(u)' = Current(u)
      BY <2>4 DEF Calling, Current
    <3>1. CASE u = p
      <4>1. pc'[p] = i + 1 /\ seen'[p] = q
        BY <2>4 DEF DocInv, DocTypeOK
      <4> QED
        BY <2>5, <2>6, <3>0, <3>1, <4>1
    <3>2. CASE u # p
      <4>1. pc'[u] = pc[u] /\ seen'[u] = seen[u]
        BY <2>4, <3>2 DEF DocInv, DocTypeOK
      <4> QED
        BY <3>0, <4>1 DEF DocInv
    <3> QED
      BY <3>1, <3>2
  <2> QED
    BY <2>7, <2>8 DEF DocInv
<1>3. ASSUME NEW p \in Users, Return(p) PROVE DocInv'
  <2>1. Current(p) \in DocCalls
    BY <1>3, CallsTyped DEF Return
  <2>2. kept' \in [Agents -> SUBSET Messages] /\ unlisted' \subseteq Agents
    <3>1. Current(p).method = "create_message" =>
            Current(p).agent \in Agents /\ Current(p).message \in Messages
      BY <2>1, CallFields
    <3> QED
      BY <1>0, <1>3, <3>1 DEF Return
  <2> QED
    BY <1>0, <1>3, <2>2, EndedInv DEF Return
<1>4. ASSUME NEW p \in Users, RaiseError(p) PROVE DocInv'
  BY <1>0, <1>4, EndedInv DEF RaiseError
<1>5. ASSUME NEW p \in Users, StoreFails(p) PROVE DocInv'
  <2>1. MidCall(p) /\ StoreStep(p).do # "raise" /\ lostCalls' \in Nat /\ script' = script
        /\ EndCall(p, "failed")
    BY <1>0, <1>5 DEF StoreFails
  <2>2. store' \in [Keys -> Docs] /\ \A k \in Keys : Holds(k, store'[k])
    <3>1. /\ Applied(StoreStep(p)) \in [Keys -> Docs]
          /\ \A k \in Keys : Holds(k, Applied(StoreStep(p))[k])
      BY <2>1, NextStoreCall, AppliedType DEF DocInv
    <3> QED
      BY <1>0, <1>5, <3>1 DEF StoreFails
  <2>3. kept' \in [Agents -> SUBSET Messages] /\ unlisted' \subseteq Agents
    BY <1>1, <1>5, <2>1 DEF StoreFails
  <2> QED
    BY <2>1, <2>2, <2>3, EndedInv
<1>6. CASE UNCHANGED docVars
  BY <1>6 DEF docVars, DocInv, DocTypeOK, Holds, Calling, Current
<1> QED
  BY <1>2, <1>3, <1>4, <1>5, <1>6 DEF DocNext

\* A new store.
LEMMA DocInvInit == DocInit => DocInv
<1> SUFFICES ASSUME DocInit PROVE DocInv
  OBVIOUS
<1>1. <<>> \in Docs /\ <<>> \in Seq(Docs) /\ \A k : Holds(k, <<>>)
  BY DEF Docs, Holds
<1>2. DocTypeOK
  BY <1>1 DEF DocInit, DocTypeOK
<1>3. \A p \in Users : pc[p] = 0 /\ seen[p] = <<>>
  BY DEF DocInit
<1>4. \A p \in Users : SeenOK(Current(p), pc[p], seen[p])
  BY <1>3, NothingRead
<1> QED
  BY <1>2, <1>3, <1>4 DEF DocInv

----------------------------------------------------------------------------
(* Documents: threads and their pointers.                                  *)

\* A put that has moved on has saved its checkpoint.
PutSaved(p) ==
  Calling(p) /\ Current(p).method = "put" /\ pc[p] > 0 =>
    Stored(CheckpointKey(PutId(Current(p).config, Current(p).ts, Current(p).id)))

PointerInv == PointerNamesSaved /\ \A p \in Users : PutSaved(p)

\* A store call leaves the checkpoints in the store; the first one of put adds
\* its checkpoint, and the pointer is the one of before or of that put.
LEMMA CheckpointsStay ==
  ASSUME DocInv, NEW p \in Users, MidCall(p), StoreStep(p).do # "raise", PointerInv,
         NEW st, st = Applied(StoreStep(p))
  PROVE  /\ \A k \in Ids : Stored(CheckpointKey(k)) => st[CheckpointKey(k)] # <<>>
         /\ st[LatestKey] = <<>> \/ st[CheckpointKey(st[LatestKey][1])] # <<>>
         /\ Current(p).method = "put" =>
              st[CheckpointKey(PutId(Current(p).config, Current(p).ts, Current(p).id))] # <<>>
<1> DEFINE c == Current(p)
           i == pc[p]
           r == seen[p]
           s == StoreStep(p)
<1>0. /\ c \in DocCalls /\ i \in Nat /\ SeenOK(c, i, r) /\ Shape(c, i, r, s)
      /\ DocTypeOK /\ store \in [Keys -> Docs] /\ Calling(p)
  BY NextStoreCall DEF DocInv, DocTypeOK, MidCall
<1>l. store[LatestKey] = <<>> \/ (store[LatestKey][1] \in Ids /\ Stored(CheckpointKey(store[LatestKey][1])))
  BY KeysKnown DEF DocInv, DocTypeOK, Holds, PointerInv, PointerNamesSaved, Stored
<1>k. LatestKey \in Keys /\ \A k \in Ids : CheckpointKey(k) \in Keys /\ CheckpointKey(k) # LatestKey
  BY KeysKnown, KeysDiffer
<1>p. c.method = "put" => /\ PutId(c.config, c.ts, c.id) \in Ids
                          /\ i > 0 => Stored(CheckpointKey(PutId(c.config, c.ts, c.id)))
  BY <1>0, CallFields DEF PointerInv, PutSaved
<1> HIDE DEF c, i, r, s
<1>a. /\ s.do = "get" => st = store
      /\ s.do = "delete" => st = [store EXCEPT ![s.key] = <<>>]
      /\ s.do = "save" => st = [store EXCEPT ![s.key] = <<s.value>>]
      /\ s.do \in {"get", "delete", "save"} /\ s.key \in Keys
  BY <1>0, AppliedType DEF s
<1> SUFFICES /\ \A k \in Ids : Stored(CheckpointKey(k)) => st[CheckpointKey(k)] # <<>>
             /\ st[LatestKey] = <<>> \/ st[CheckpointKey(st[LatestKey][1])] # <<>>
             /\ c.method = "put" => st[CheckpointKey(PutId(c.config, c.ts, c.id))] # <<>>
  BY DEF c
<1>1. CASE s.do = "get"
  <2>1. c.method # "put"
    BY <1>0, <1>1 DEF Shape, SeenOK, Reads
  <2> QED
    BY <1>1, <1>a, <1>l, <2>1 DEF Stored
<1>2. CASE s.do = "delete"
  <2>1. s.key # LatestKey /\ \A k \in Ids : s.key # CheckpointKey(k)
    BY <1>0, <1>2, DeletedType, KeysDiffer DEF Shape
  <2>2. c.method # "put"
    BY <1>0, <1>2 DEF Shape, Deletes
  <2> QED
    BY <1>0, <1>2, <1>a, <1>k, <1>l, <2>1, <2>2 DEF Stored
<1>3. CASE s.do = "save"
  <2>0. Saves(c, i, r, s.key, s.value) /\ <<s.value>> # <<>> /\ <<s.value>>[1] = s.value
    BY <1>0, <1>3, NotEmpty DEF Shape
  <2>1. \A k \in Ids : Stored(CheckpointKey(k)) => st[CheckpointKey(k)] # <<>>
    BY <1>0, <1>3, <1>a, <1>k, <2>0 DEF Stored
  <2>2. CASE s.key = LatestKey
    <3>1. c.method = "put" /\ i = 1 /\ s.value = PutId(c.config, c.ts, c.id)
      BY <1>0, <2>0, <2>2, KeysDiffer, CallFields DEF Saves
    <3>2. st[LatestKey] = <<s.value>>
      BY <1>0, <1>3, <1>a, <1>k, <2>2
    <3> QED
      BY <1>p, <2>0, <2>1, <3>1, <3>2
  <2>3. CASE s.key # LatestKey
    <3>1. st[LatestKey] = store[LatestKey]
      BY <1>0, <1>3, <1>a, <1>k, <2>3
    <3>2. c.method = "put" => s.key = CheckpointKey(PutId(c.config, c.ts, c.id))
      BY <2>0, <2>3 DEF Saves
    <3>3. c.method = "put" => st[CheckpointKey(PutId(c.config, c.ts, c.id))] # <<>>
      BY <1>0, <1>3, <1>a, <2>0, <3>2
    <3> QED
      BY <1>l, <2>1, <3>1, <3>3
  <2> QED
    BY <2>2, <2>3
<1> QED
  BY <1>1, <1>2, <1>3, <1>a

\* The latest pointer of a LangGraph thread names a checkpoint that is in the
\* store, for any number of users and of failing store calls.
THEOREM PointersNameSaved == DocSpec => []PointerNamesSaved
<1>1. DocInit => PointerInv
  <2> SUFFICES ASSUME DocInit PROVE PointerInv
    OBVIOUS
  <2>1. store[LatestKey] = <<>> /\ \A p \in Users : pc[p] = 0
    BY KeysKnown DEF DocInit
  <2> QED
    BY <2>1 DEF PointerInv, PointerNamesSaved, PutSaved, Stored
<1>2. DocInv /\ PointerInv /\ [DocNext]_docVars => PointerInv'
  <2> SUFFICES ASSUME DocInv, PointerInv, [DocNext]_docVars PROVE PointerInv'
    OBVIOUS
  <2>0. \A u \in Users : Calling(u) /\ Current(u).method = "put" =>
                          PutId(Current(u).config, Current(u).ts, Current(u).id) \in Ids
    BY CallsTyped, CallFields
  <2>1. ASSUME NEW p \in Users, EndCall(p, "ok") \/ EndCall(p, "raised") \/ EndCall(p, "failed"),
               script' = script, store' = store
        PROVE  PointerInv'
    <3>1. /\ pc'[p] = 0
          /\ \A u \in Users \ {p} : Calling(u)' = Calling(u) /\ Current(u)' = Current(u) /\ pc'[u] = pc[u]
      BY <2>1 DEF EndCall, Calling, Current, DocInv, DocTypeOK
    <3>2. ASSUME NEW u \in Users PROVE PutSaved(u)'
      BY <2>1, <3>1 DEF PointerInv, PutSaved, Stored
    <3> QED
      BY <2>1, <3>2 DEF PointerInv, PointerNamesSaved, Stored
  <2>2. ASSUME NEW p \in Users, MidCall(p), StoreStep(p).do # "raise", store' = Applied(StoreStep(p)),
               script' = script,
               \/ pc' = [pc EXCEPT ![p] = pc[p] + 1] /\ done' = done
               \/ pc' = [pc EXCEPT ![p] = 0] /\ done' = [done EXCEPT ![p] = done[p] + 1]
        PROVE  PointerInv'
    <3>1. /\ \A k \in Ids : Stored(CheckpointKey(k)) => store'[CheckpointKey(k)] # <<>>
          /\ store'[LatestKey] = <<>> \/ store'[CheckpointKey(store'[LatestKey][1])] # <<>>
          /\ Current(p).method = "put" =>
               store'[CheckpointKey(PutId(Current(p).config, Current(p).ts, Current(p).id))] # <<>>
      BY <2>2, CheckpointsStay
    <3>2. ASSUME NEW u \in Users PROVE PutSaved(u)'
      <4>1. CASE u = p
        <5>1. CASE pc' = [pc EXCEPT ![p] = pc[p] + 1] /\ done' = done
          <6>1. Current(p)' = Current(p)
            BY <2>2, <5>1 DEF Current
          <6> QED
            BY <3>1, <4>1, <6>1 DEF PutSaved, Stored
        <5>2. CASE pc' = [pc EXCEPT ![p] = 0] /\ done' = [done EXCEPT ![p] = done[p] + 1]
          <6>1. pc'[p] = 0
            BY <5>2 DEF DocInv, DocTypeOK
          <6> QED
            BY <4>1, <6>1 DEF PutSaved
        <5> QED
          BY <2>2, <5>1, <5>2
      <4>2. CASE u # p
        <5>1. Calling(u)' = Calling(u) /\ Current(u)' = Current(u) /\ pc'[u] = pc[u]
          BY <2>2, <4>2 DEF Calling, Current, DocInv, DocTypeOK
        <5> QED
          BY <2>0, <3>1, <5>1 DEF PutSaved, Stored, PointerInv
      <4> QED
        BY <4>1, <4>2
    <3> QED
      BY <3>1, <3>2 DEF PointerInv, PointerNamesSaved, Stored
  <2>3. ASSUME NEW p \in Users, StoreCall(p) PROVE PointerInv'
    BY <2>2, <2>3 DEF StoreCall
  <2>4. ASSUME NEW p \in Users, Return(p) PROVE PointerInv'
    BY <2>1, <2>4 DEF Return
  <2>5. ASSUME NEW p \in Users, RaiseError(p) PROVE PointerInv'
    BY <2>1, <2>5 DEF RaiseError
  <2>6. ASSUME NEW p \in Users, StoreFails(p) PROVE PointerInv'
    <3>1. MidCall(p) /\ StoreStep(p).do # "raise" /\ script' = script /\ EndCall(p, "failed")
          /\ (store' = store \/ store' = Applied(StoreStep(p)))
      BY <2>6 DEF StoreFails
    <3>2. CASE store' = store
      BY <2>1, <3>1, <3>2
    <3>3. CASE store' = Applied(StoreStep(p))
      BY <2>2, <3>1, <3>3 DEF EndCall
    <3> QED
      BY <3>1, <3>2, <3>3
  <2>7. CASE UNCHANGED docVars
    BY <2>7 DEF docVars, PointerInv, PointerNamesSaved, PutSaved, Stored, Calling, Current
  <2> QED
    BY <2>3, <2>4, <2>5, <2>6, <2>7 DEF DocNext
<1>3. PointerInv => PointerNamesSaved
  BY DEF PointerInv
<1> QED
  BY <1>1, <1>2, <1>3, DocInvInit, DocInvStep, PTL DEF DocSpec

----------------------------------------------------------------------------
(* Documents: the messages of an agent that one caller writes.             *)

Has(st, g, m) == st[MessagesKey(g)] # <<>> /\ Contains(st[MessagesKey(g)][1], m)

Writing(p, g) ==
  Calling(p) /\ Current(p).method \in {"create_message", "update_message"} /\ Current(p).agent = g

\* A writer of messages has read the list as it is.
ListRead(p, g) ==
  Writing(p, g) =>
    /\ Current(p).method = "create_message" =>
         /\ pc[p] = 1 => seen[p][1] = store[MessagesKey(g)]
         /\ pc[p] > 1 => Has(store, g, Current(p).message)
    /\ Current(p).method = "update_message" /\ pc[p] = 2 => seen[p][2] = store[MessagesKey(g)]

KeepInv ==
  \A g \in Agents : Cardinality(Writers(g)) <= 1 =>
    /\ \A m \in kept[g] : Has(store, g, m)
    /\ \A p \in Users : ListRead(p, g)

\* A set with at most one element.
LEMMA AtMostOne ==
  ASSUME NEW S, IsFiniteSet(S), Cardinality(S) <= 1, NEW x \in S, NEW y \in S
  PROVE  x = y
<1> SUFFICES ASSUME x # y PROVE FALSE
  OBVIOUS
<1>1. IsFiniteSet({x}) /\ Cardinality({x}) = 1
  BY FS_Singleton
<1>2. Cardinality({x} \cup {y}) = 2
  <2>1. y \notin {x}
    OBVIOUS
  <2>2. Cardinality({x} \cup {y}) = Cardinality({x}) + 1
    BY <1>1, <2>1, FS_AddElement
  <2> QED
    BY <1>1, <2>2
<1>3. Cardinality({x} \cup {y}) <= Cardinality(S) /\ Cardinality(S) \in Nat
  BY FS_Subset, FS_CardinalityType
<1> QED
  BY <1>2, <1>3

\* A user whose call writes the messages of an agent is one of its writers.
LEMMA SoleWriter ==
  ASSUME DocInv, NEW g \in Agents, Cardinality(Writers(g)) <= 1,
         NEW p \in Users, NEW q \in Users, Calling(p), Calling(q),
         \A u \in {p, q} :
           \/ /\ Current(u).method \in {"create_agent", "create_message", "update_message"}
              /\ Current(u).agent = g
           \/ Current(u).method = "delete_session"
  PROVE  p = q
<1>1. ASSUME NEW u \in {p, q} PROVE u \in Writers(g)
  <2>1. done[u] + 1 \in DOMAIN script.calls[u]
    <3>1. script.calls[u] \in Seq(DocCalls) /\ done[u] < Len(script.calls[u])
      BY <1>1, CallsTyped DEF Calling
    <3>2. done[u] \in Nat
      BY <1>1 DEF DocInv, DocTypeOK
    <3> QED
      BY <3>1, <3>2
  <2>2. \/ /\ Current(u).method \in {"create_agent", "create_message", "update_message"}
           /\ Current(u).agent = g
        \/ Current(u).method = "delete_session"
    BY <1>1
  <2>3. Current(u) = script.calls[u][done[u] + 1] /\ u \in Users
    BY <1>1 DEF Current
  <2> QED
    BY <2>1, <2>2, <2>3 DEF Writers
<1>2. IsFiniteSet(Writers(g))
  BY DocumentsAssumption, FS_Subset DEF Writers
<1> QED
  BY <1>1, <1>2, AtMostOne

\* A store call that writes the messages of g.
LEMMA MessageWrite ==
  ASSUME NEW c \in DocCalls, NEW i \in Nat, NEW r, SeenOK(c, i, r), NEW s, Shape(c, i, r, s),
         NEW g, s.do # "get", s.key = MessagesKey(g)
  PROVE  \/ c.method = "delete_session"
         \/ c.method = "create_agent" /\ c.agent = g /\ s.do = "save"
         \/ /\ c.method = "create_message" /\ c.agent = g /\ i = 1 /\ s.do = "save"
            /\ s.value = Append(Items(r, 1), c.message)
         \/ /\ c.method = "update_message" /\ c.agent = g /\ i = 2 /\ s.do = "save"
            /\ s.value = Items(r, 2) /\ Contains(Items(r, 2), c.message)
<1>1. CASE s.do = "delete"
  <2>1. Deletes(c, i, r, s.key)
    BY <1>1 DEF Shape
  <2> QED
    BY <2>1, KeysDiffer DEF Deletes
<1>2. CASE s.do = "save"
  <2>1. Saves(c, i, r, s.key, s.value)
    BY <1>2 DEF Shape
  <2> QED
    BY <1>2, <2>1, KeysDiffer DEF Saves
<1> QED
  BY <1>1, <1>2 DEF Shape

\* What a store call of p leaves of the messages of g.
LEMMA MessagesStay ==
  ASSUME DocInv, KeepInv, NEW p \in Users, MidCall(p), StoreStep(p).do # "raise",
         NEW st, st = Applied(StoreStep(p)), NEW g \in Agents, Cardinality(Writers(g)) <= 1
  PROVE  /\ \A m \in kept[g] : g \in Touched(Current(p)) \/ Has(st, g, m)
         /\ \A u \in Users \ {p} : Writing(u, g) => st[MessagesKey(g)] = store[MessagesKey(g)]
         /\ Writing(p, g) /\ Current(p).method = "create_message" /\ pc[p] = 1 =>
              Has(st, g, Current(p).message)
         /\ StoreStep(p).do = "get" => st = store
<1> DEFINE c == Current(p)
           i == pc[p]
           r == seen[p]
           s == StoreStep(p)
           k == MessagesKey(g)
<1>0. /\ c \in DocCalls /\ i \in Nat /\ SeenOK(c, i, r) /\ Shape(c, i, r, s)
      /\ DocTypeOK /\ store \in [Keys -> Docs] /\ Calling(p) /\ k \in Keys /\ Holds(k, store[k])
  BY NextStoreCall, KeysKnown DEF DocInv, DocTypeOK, MidCall
<1>a. /\ s.do = "get" => st = store
      /\ s.do = "delete" => st = [store EXCEPT ![s.key] = <<>>]
      /\ s.do = "save" => st = [store EXCEPT ![s.key] = <<s.value>>]
      /\ s.do \in {"get", "delete", "save"} /\ s.key \in Keys
  BY <1>0, AppliedType
<1>b. (\A m \in kept[g] : Has(store, g, m)) /\ ListRead(p, g)
  BY DEF KeepInv
<1>1. CASE s.do = "get" \/ s.key # k
  <2>1. st[k] = store[k]
    BY <1>0, <1>1, <1>a
  <2>2. c.method = "create_message" /\ i = 1 => s.do = "save" /\ s.key = MessagesKey(c.agent)
    BY <1>0 DEF Shape, Reads, SeenOK, Saves, Deletes
  <2> QED
    BY <1>1, <1>a, <1>b, <2>1, <2>2 DEF Has, Writing
<1>2. CASE s.do # "get" /\ s.key = k
  <2>1. \/ c.method = "delete_session"
        \/ c.method = "create_agent" /\ c.agent = g /\ s.do = "save"
        \/ /\ c.method = "create_message" /\ c.agent = g /\ i = 1 /\ s.do = "save"
           /\ s.value = Append(Items(r, 1), c.message)
        \/ /\ c.method = "update_message" /\ c.agent = g /\ i = 2 /\ s.do = "save"
           /\ s.value = Items(r, 2) /\ Contains(Items(r, 2), c.message)
    BY <1>0, <1>2, MessageWrite
  <2>2. \A u \in Users \ {p} : ~Writing(u, g)
    BY <1>0, <2>1, SoleWriter DEF Writing
  <2>3. CASE c.method \in {"delete_session", "create_agent"}
    <3>1. g \in Touched(c) /\ ~Writing(p, g)
      BY <2>1, <2>3 DEF Touched, Writing
    <3> QED
      BY <1>2, <2>2, <3>1
  <2>4. CASE c.method = "create_message"
    <3>0. c.agent = g /\ i = 1 /\ s.value = Append(Items(r, 1), c.message) /\ s.do = "save"
      BY <2>1, <2>4
    <3>1. st[k] = <<s.value>> /\ <<s.value>> # <<>> /\ <<s.value>>[1] = s.value
      BY <1>0, <1>2, <1>a, <3>0, NotEmpty
    <3>2. r[1] = store[k] /\ Len(r) = 1 /\ r \in Seq(Docs)
      BY <1>0, <1>b, <2>4, <3>0 DEF ListRead, Writing, SeenOK, Reads
    <3>3. Items(r, 1) = IF store[k] # <<>> THEN store[k][1] ELSE <<>>
      BY <3>2 DEF Items, HasRead, Read
    <3>4. Items(r, 1) \in Seq(Messages) /\ c.message \in Messages
      <4>1. k \in {MessagesKey(h) : h \in Agents} /\ 1 \in Nat \ {0}
        OBVIOUS
      <4> QED
        BY <1>0, <2>4, <3>2, <4>1, ItemsType, CallFields
    <3>5. \A m : m = c.message \/ Contains(Items(r, 1), m) => Contains(s.value, m)
      BY <3>0, <3>4 DEF Contains
    <3>6. \A m \in kept[g] : Contains(Items(r, 1), m)
      BY <1>b, <3>3 DEF Has
    <3> QED
      BY <1>2, <2>2, <3>1, <3>5, <3>6 DEF Has
  <2>5. CASE c.method = "update_message"
    <3>0. /\ c.agent = g /\ i = 2 /\ s.value = Items(r, 2) /\ s.do = "save"
          /\ Contains(Items(r, 2), c.message)
      BY <2>1, <2>5
    <3>1. st[k] = <<s.value>> /\ <<s.value>> # <<>> /\ <<s.value>>[1] = s.value
      BY <1>0, <1>2, <1>a, <3>0, NotEmpty
    <3>2. r[2] = store[k] /\ Len(r) = 2 /\ r \in Seq(Docs)
      BY <1>0, <1>b, <2>5, <3>0 DEF ListRead, Writing, SeenOK, Reads
    <3>3. Items(r, 2) = IF store[k] # <<>> THEN store[k][1] ELSE <<>>
      BY <3>2 DEF Items, HasRead, Read
    <3>6. \A m \in kept[g] : Contains(Items(r, 2), m)
      BY <1>b, <3>3 DEF Has
    <3> QED
      BY <1>2, <2>2, <2>5, <3>0, <3>1, <3>6 DEF Has
  <2> QED
    BY <2>1, <2>3, <2>4, <2>5
<1> QED
  BY <1>1, <1>2

\* Every step keeps the messages.
LEMMA KeepInvStep == DocInv /\ KeepInv /\ [DocNext]_docVars => KeepInv'
<1> SUFFICES ASSUME DocInv, KeepInv, [DocNext]_docVars PROVE KeepInv'
  OBVIOUS
<1>0. CASE UNCHANGED docVars
  BY <1>0 DEF docVars, KeepInv, ListRead, Writing, Has, Writers, Calling, Current
<1> SUFFICES ASSUME NEW p \in Users,
                    StoreCall(p) \/ Return(p) \/ RaiseError(p) \/ StoreFails(p),
                    NEW g \in Agents, Cardinality(Writers(g)) <= 1
             PROVE  /\ \A m \in kept'[g] : Has(store', g, m)
                    /\ \A u \in Users : ListRead(u, g)'
  <2>1. script' = script
    BY <1>0 DEF DocNext, StoreCall, Return, RaiseError, StoreFails, docVars
  <2>2. \A g \in Agents : Writers(g)' = Writers(g)
    BY <2>1 DEF Writers
  <2>3. \A g \in Agents : \A m : Has(store, g, m)' = Has(store', g, m)
    BY DEF Has
  <2> QED
    BY <1>0, <2>2, <2>3 DEF KeepInv, DocNext
<1> DEFINE k == MessagesKey(g)
<1>1. /\ \A m \in kept[g] : Has(store, g, m)
      /\ \A u \in Users : ListRead(u, g)
  BY DEF KeepInv
<1>2. ASSUME script' = script, EndCall(p, "ok") \/ EndCall(p, "raised") \/ EndCall(p, "failed"),
             \A u \in Users \ {p} : Writing(u, g) => store'[k] = store[k]
      PROVE  \A u \in Users : ListRead(u, g)'
  <2>1. ASSUME NEW u \in Users \ {p} PROVE ListRead(u, g)'
    <3>1. /\ Calling(u)' = Calling(u) /\ Current(u)' = Current(u)
          /\ pc'[u] = pc[u] /\ seen'[u] = seen[u]
      BY <1>2 DEF EndCall, Calling, Current, DocInv, DocTypeOK
    <3>2. Writing(u, g)' = Writing(u, g)
      BY <3>1 DEF Writing
    <3> QED
      BY <1>1, <1>2, <3>1, <3>2 DEF ListRead, Has
  <2>2. ListRead(p, g)'
    <3>1. pc'[p] = 0
      BY <1>2 DEF EndCall, DocInv, DocTypeOK
    <3> QED
      BY <3>1 DEF ListRead
  <2> QED
    BY <2>1, <2>2
<1>3. CASE StoreCall(p)
  <2> DEFINE c == Current(p)
             s == StoreStep(p)
  <2>1. MidCall(p) /\ s.do # "raise" /\ store' = Applied(s) /\ script' = script /\ done' = done
    BY <1>3 DEF StoreCall
  <2>2. /\ \A m \in kept[g] : g \in Touched(c) \/ Has(store', g, m)
        /\ \A u \in Users \ {p} : Writing(u, g) => store'[k] = store[k]
        /\ Writing(p, g) /\ c.method = "create_message" /\ pc[p] = 1 => Has(store', g, c.message)
        /\ s.do = "get" => store' = store
    BY <2>1, MessagesStay
  <2>3. \A m \in kept'[g] : Has(store', g, m)
    BY <1>3, <2>2 DEF StoreCall
  <2>4. /\ \A u \in Users : Calling(u)' = Calling(u) /\ Current(u)' = Current(u)
        /\ \A u \in Users : Writing(u, g)' = Writing(u, g)
    BY <2>1 DEF Calling, Current, Writing
  <2>5. ASSUME NEW u \in Users \ {p} PROVE ListRead(u, g)'
    <3>1. pc'[u] = pc[u] /\ seen'[u] = seen[u]
      BY <1>3 DEF StoreCall, DocInv, DocTypeOK
    <3> QED
      BY <1>1, <2>2, <2>4, <3>1 DEF ListRead, Has
  <2>6. ASSUME Writing(p, g) PROVE ListRead(p, g)'
    <3> DEFINE i == pc[p]
               r == seen[p]
    <3>0. /\ c \in DocCalls /\ i \in Nat /\ SeenOK(c, i, r) /\ Shape(c, i, r, s) /\ r \in Seq(Docs)
          /\ Calling(p) /\ c.agent = g /\ ReadKey(c) = k
      BY <2>1, <2>6, NextStoreCall DEF MidCall, SeenOK, Writing, ReadKey
    <3>1. pc'[p] = i + 1 /\ seen'[p] = IF s.do = "get" THEN Append(r, store[s.key]) ELSE r
      BY <1>3 DEF StoreCall, DocInv, DocTypeOK
    <3> HIDE DEF s
    <3>2. CASE c.method = "create_message"
      <4>1. CASE i = 0
        <5>1. Len(r) = 0 /\ s.do = "get" /\ s.key = k
          BY <3>0, <3>2, <4>1 DEF Shape, Reads, SeenOK, Saves, Deletes
        <5>2. seen'[p][1] = store[k]
          BY <3>0, <3>1, <5>1
        <5> QED
          BY <2>2, <2>4, <3>1, <3>2, <4>1, <5>1, <5>2 DEF ListRead
      <4>2. CASE i = 1
        <5>1. Has(store', g, c.message)
          BY <2>2, <2>6, <3>2, <4>2
        <5> QED
          BY <2>4, <3>1, <3>2, <4>2, <5>1 DEF ListRead, Has
      <4>3. CASE i > 1
        BY <3>0, <3>2, <4>3 DEF Shape, Reads, SeenOK, Saves, Deletes
      <4> QED
        BY <3>0, <4>1, <4>2, <4>3
    <3>3. CASE c.method = "update_message"
      <4>1. CASE i = 1
        <5>1. Len(r) = 1 /\ s.do = "get" /\ s.key = k
          BY <3>0, <3>3, <4>1 DEF Shape, Reads, SeenOK, Saves, Deletes
        <5>2. seen'[p][2] = store[k]
          BY <3>0, <3>1, <5>1
        <5> QED
          BY <2>2, <2>4, <3>1, <3>3, <4>1, <5>1, <5>2 DEF ListRead
      <4>2. CASE i # 1
        BY <2>4, <3>0, <3>1, <3>3, <4>2 DEF ListRead
      <4> QED
        BY <4>1, <4>2
    <3> QED
      BY <2>6, <3>2, <3>3 DEF Writing
  <2>7. ListRead(p, g)'
    BY <2>4, <2>6 DEF ListRead
  <2> QED
    BY <2>3, <2>5, <2>7
<1>4. CASE Return(p)
  <2> DEFINE c == Current(p)
  <2>1. store' = store /\ script' = script /\ EndCall(p, "ok") /\ Calling(p)
    BY <1>4 DEF Return
  <2>2. ASSUME NEW m \in kept'[g] PROVE Has(store, g, m)
    <3>1. CASE m \in kept[g]
      BY <1>1, <3>1
    <3>2. CASE m \notin kept[g]
      <4>1. c.method = "create_message" /\ c.agent = g /\ m = c.message
        BY <1>4, <2>2, <3>2 DEF Return, DocInv, DocTypeOK
      <4>2. Len(Steps(p)) = 2
        BY <4>1 DEF Steps, Plan, CreateMessage
      <4>3. pc[p] = 2
        BY <1>4, <4>2 DEF Return
      <4> QED
        BY <1>1, <2>1, <4>1, <4>3 DEF ListRead, Writing
    <3> QED
      BY <3>1, <3>2
  <2> QED
    BY <1>2, <2>1, <2>2
<1>5. CASE RaiseError(p)
  BY <1>1, <1>2, <1>5 DEF RaiseError
<1>6. CASE StoreFails(p)
  <2>1. /\ MidCall(p) /\ StoreStep(p).do # "raise" /\ script' = script /\ EndCall(p, "failed")
        /\ store' = store \/ store' = Applied(StoreStep(p))
        /\ kept'[g] = IF g \in Touched(Current(p)) THEN {} ELSE kept[g]
    BY <1>6 DEF StoreFails
  <2>2. CASE store' = store
    BY <1>1, <1>2, <2>1, <2>2
  <2>3. CASE store' = Applied(StoreStep(p))
    <3>1. /\ \A m \in kept[g] : g \in Touched(Current(p)) \/ Has(store', g, m)
          /\ \A u \in Users \ {p} : Writing(u, g) => store'[k] = store[k]
      BY <2>1, <2>3, MessagesStay
    <3> QED
      BY <1>2, <2>1, <3>1
  <2> QED
    BY <2>1, <2>2, <2>3
<1> QED
  BY <1>3, <1>4, <1>5, <1>6

----------------------------------------------------------------------------
(* Documents: the manifest of a session that one caller uses.              *)

Ordered == \A s \in Scripts : \A u \in Users : InOrder(s.calls[u])

ThreadMethods == {"put", "put_writes", "get_tuple", "list", "delete_thread"}

Listed(st, g) == st[ManifestKey] # <<>> /\ Contains(st[ManifestKey][1], g)
Known(st, un, g) == g \in un \/ Listed(st, g)
HasDoc(st, g) == st[AgentKey(g)] # <<>> \/ st[MessagesKey(g)] # <<>>

\* The agents that p has created since its last delete_session are known.
CreatedKnown(p) ==
  \A j \in 1 .. done[p] :
    LET calls == script.calls[p] IN
    /\ j \in DOMAIN calls /\ calls[j].method = "create_agent"
    /\ \A k \in j .. done[p] + 1 : k \in DOMAIN calls => calls[k].method # "delete_session"
    => Known(store, unlisted, calls[j].agent)

\* What a call that reads the manifest, an agent or messages has read is what
\* is there, and a delete_session has deleted what its list begins with.
DeleteRead(st, i, r) ==
  i > 0 /\ i <= 2 * Len(Items(r, 1)) + 1 =>
    /\ r[1] = st[ManifestKey]
    /\ \A j \in 1 .. Len(Items(r, 1)) :
         /\ i >= 2 * j => st[AgentKey(Items(r, 1)[j])] = <<>>
         /\ i > 2 * j => st[MessagesKey(Items(r, 1)[j])] = <<>>

SessionRead(st, un, c, i, r) ==
  /\ c.method = "create_agent" => /\ i > 0 => c.agent \in un
                                  /\ i = 3 => r[1] = st[ManifestKey]
                                  /\ i > 3 => Listed(st, c.agent)
  /\ c.method = "delete_session" => DeleteRead(st, i, r)
  /\ c.method = "update_agent" /\ i = 1 => r[1] = st[AgentKey(c.agent)]
  /\ c.method = "update_message" /\ i = 2 => r[2] = st[MessagesKey(c.agent)]

ListInv ==
  Cardinality(SessionUsers) <= 1 =>
    /\ \A g \in Agents : HasDoc(store, g) => Known(store, unlisted, g)
    /\ \A p \in Users : /\ CreatedKnown(p)
                        /\ Calling(p) => SessionRead(store, unlisted, Current(p), pc[p], seen[p])

\* Whoever calls a method of a session uses the session.
LEMMA SessionCaller ==
  ASSUME DocInv, Ordered, NEW p \in Users, Calling(p), Current(p).method \notin ThreadMethods
  PROVE  p \in SessionUsers
<1> DEFINE calls == script.calls[p]
           n == done[p] + 1
<1>1. n \in DOMAIN calls /\ Current(p) = calls[n] /\ InOrder(calls)
  BY CallsTyped DEF Calling, Current, DocInv, DocTypeOK, Ordered
<1>2. Current(p).method \in {"create_session", "delete_session", "create_agent", "update_agent",
                             "list_messages", "create_message", "update_message"}
  BY CallsTyped, CallFields DEF ThreadMethods
<1>3. \E j \in DOMAIN calls : calls[j].method \in {"create_agent", "delete_session", "create_session"}
  <2>1. CASE Current(p).method \in {"create_agent", "delete_session", "create_session"}
    BY <1>1, <2>1
  <2>2. CASE Current(p).method \notin {"create_agent", "delete_session", "create_session"}
    <3>1. PICK j \in 1 .. n - 1 : calls[j].method = "create_agent"
      BY <1>1, <1>2, <2>2 DEF InOrder
    <3>2. j \in DOMAIN calls
      BY <1>1, CallsTyped DEF DocInv, DocTypeOK
    <3> QED
      BY <3>1, <3>2
  <2> QED
    BY <2>1, <2>2
<1> QED
  BY <1>3 DEF SessionUsers

\* One user of a session.
LEMMA SoleUser ==
  ASSUME Cardinality(SessionUsers) <= 1, NEW p \in SessionUsers, NEW q \in SessionUsers
  PROVE  p = q
<1>1. IsFiniteSet(SessionUsers)
  BY DocumentsAssumption, FS_Subset DEF SessionUsers
<1> QED
  BY <1>1, AtMostOne

\* What a method of threads does to the documents of a session: nothing.
LEMMA ThreadsApart ==
  ASSUME DocTypeOK, NEW c \in DocCalls, NEW i \in Nat, NEW r, SeenOK(c, i, r), NEW s, Shape(c, i, r, s),
         c.method \in ThreadMethods
  PROVE  /\ Applied(s)[ManifestKey] = store[ManifestKey]
         /\ \A g \in Agents : /\ Applied(s)[AgentKey(g)] = store[AgentKey(g)]
                              /\ Applied(s)[MessagesKey(g)] = store[MessagesKey(g)]
<1>1. s.do = "get" \/ (s.key # ManifestKey /\ \A g \in Agents : s.key # AgentKey(g) /\ s.key # MessagesKey(g))
  <2>1. CASE s.do = "delete"
    BY <2>1, KeysDiffer DEF Shape, Deletes, ThreadMethods
  <2>2. CASE s.do = "save"
    BY <2>2, KeysDiffer DEF Shape, Saves, ThreadMethods
  <2> QED
    BY <2>1, <2>2 DEF Shape
<1>2. store \in [Keys -> Docs] /\ ManifestKey \in Keys
      /\ \A g \in Agents : AgentKey(g) \in Keys /\ MessagesKey(g) \in Keys
  BY KeysKnown DEF DocTypeOK
<1> QED
  BY <1>1, <1>2, AppliedType

\* What a store call of the only user of a session leaves of its documents:
\* what has a document is known, what was known is, unless the session is
\* being deleted, and the last store call of create_agent lists the agent.
LEMMA ListedStays ==
  ASSUME DocInv, ListInv, Ordered, Cardinality(SessionUsers) <= 1,
         NEW p \in Users, MidCall(p), StoreStep(p).do # "raise",
         NEW st, st = Applied(StoreStep(p)),
         NEW un, un = IF Current(p).method = "create_agent"
                      THEN unlisted \cup {Current(p).agent} ELSE unlisted
  PROVE  /\ \A g \in Agents : HasDoc(st, g) => Known(st, un, g)
         /\ \A g \in Agents : Known(store, unlisted, g) =>
              Current(p).method = "delete_session" \/ Known(st, un, g)
         /\ Current(p).method = "create_agent" /\ pc[p] = 3 => Listed(st, Current(p).agent)
<1> DEFINE c == Current(p)
           i == pc[p]
           r == seen[p]
           s == StoreStep(p)
<1>0. /\ c \in DocCalls /\ i \in Nat /\ SeenOK(c, i, r) /\ Shape(c, i, r, s)
      /\ DocTypeOK /\ store \in [Keys -> Docs] /\ Calling(p) /\ ManifestKey \in Keys
      /\ \A g \in Agents : AgentKey(g) \in Keys /\ MessagesKey(g) \in Keys
  BY NextStoreCall, KeysKnown DEF DocInv, DocTypeOK, MidCall
<1>a. /\ s.do = "get" => st = store
      /\ s.do = "delete" => st = [store EXCEPT ![s.key] = <<>>]
      /\ s.do = "save" => st = [store EXCEPT ![s.key] = <<s.value>>]
      /\ s.do \in {"get", "delete", "save"} /\ s.key \in Keys
  BY <1>0, AppliedType
<1>b. /\ \A g \in Agents : HasDoc(store, g) => Known(store, unlisted, g)
      /\ CreatedKnown(p) /\ SessionRead(store, unlisted, c, i, r)
  BY <1>0 DEF ListInv
<1>c. r \in Seq(Docs) /\ Len(r) = Reads(c, i)
  BY <1>0 DEF SeenOK
<1>1. CASE c.method \in ThreadMethods
  BY <1>0, <1>1, <1>b, ThreadsApart DEF HasDoc, Known, Listed, ThreadMethods
<1>2. ASSUME c.method # "delete_session", NEW g0, st[ManifestKey] = store[ManifestKey],
             \A g \in Agents \ {g0} : HasDoc(st, g) => HasDoc(store, g),
             g0 \in Agents /\ ~HasDoc(store, g0) => Known(store, un, g0),
             ~(c.method = "create_agent" /\ i = 3)
      PROVE  /\ \A g \in Agents : HasDoc(st, g) => Known(st, un, g)
             /\ \A g \in Agents : Known(store, unlisted, g) => Known(st, un, g)
             /\ c.method = "create_agent" /\ i = 3 => Listed(st, c.agent)
  <2>1. \A g \in Agents : Known(store, unlisted, g) => Known(st, un, g)
    BY <1>2 DEF Known, Listed
  <2>2. \A g \in Agents : HasDoc(st, g) => Known(st, un, g)
    BY <1>2, <1>b, <2>1 DEF Known, Listed
  <2> QED
    BY <1>2, <2>1, <2>2
<1>3. CASE s.do = "get"
  <2>2. c.method = "create_agent" => i # 3
    BY <1>0, <1>3 DEF Shape, Reads, SeenOK
  <2>3. st = store
    BY <1>3, <1>a
  <2>4. \A g \in Agents : Known(store, unlisted, g) => Known(st, un, g)
    BY <2>3 DEF Known
  <2> QED
    BY <1>b, <2>2, <2>3, <2>4
<1>4. CASE s.do = "save" /\ c.method \notin ThreadMethods
  <2>0. /\ Saves(c, i, r, s.key, s.value) /\ st = [store EXCEPT ![s.key] = <<s.value>>]
        /\ <<s.value>> # <<>> /\ <<s.value>>[1] = s.value
    BY <1>0, <1>4, <1>a, NotEmpty DEF Shape
  <2>1. CASE c.method = "create_session"
    <3>1. s.key = SessionKey
      BY <2>0, <2>1 DEF Saves
    <3>2. st[ManifestKey] = store[ManifestKey]
          /\ \A g \in Agents : st[AgentKey(g)] = store[AgentKey(g)] /\ st[MessagesKey(g)] = store[MessagesKey(g)]
      BY <1>0, <2>0, <3>1, KeysDiffer
    <3> QED
      BY <1>2, <2>1, <3>2, <1>b DEF HasDoc, Known, Listed
  <2>2. ASSUME c.method \in {"create_agent", "update_agent", "create_message", "update_message"},
               s.key \in {AgentKey(c.agent), MessagesKey(c.agent)},
               ~HasDoc(store, c.agent) => Known(store, un, c.agent)
        PROVE  /\ \A g \in Agents : HasDoc(st, g) => Known(st, un, g)
               /\ \A g \in Agents : Known(store, unlisted, g) => Known(st, un, g)
               /\ c.method = "create_agent" /\ i = 3 => Listed(st, c.agent)
    <3>1. st[ManifestKey] = store[ManifestKey]
          /\ \A g \in Agents \ {c.agent} :
                st[AgentKey(g)] = store[AgentKey(g)] /\ st[MessagesKey(g)] = store[MessagesKey(g)]
      BY <1>0, <2>0, <2>2, KeysDiffer
    <3>2. ~(c.method = "create_agent" /\ i = 3)
      BY <2>0, <2>2, KeysDiffer DEF Saves
    <3> QED
      BY <1>2, <2>2, <3>1, <3>2 DEF HasDoc
  <2>3. CASE c.method = "create_agent" /\ i # 3
    <3>1. s.key \in {AgentKey(c.agent), MessagesKey(c.agent)}
      BY <2>0, <2>3 DEF Saves
    <3> QED
      BY <2>2, <2>3, <3>1 DEF Known
  <2>4. CASE c.method = "create_agent" /\ i = 3
    <3>0. s.key = ManifestKey /\ c.agent \in Agents
          /\ s.value = IF Contains(Items(r, 1), c.agent) THEN Items(r, 1) ELSE Append(Items(r, 1), c.agent)
      BY <1>0, <2>0, <2>4, CallFields DEF Saves
    <3>1. r[1] = store[ManifestKey] /\ Len(r) = 1 /\ Holds(ManifestKey, r[1])
      BY <1>0, <1>b, <1>c, <2>4 DEF SessionRead, Reads, SeenOK, ReadKey
    <3>2. Items(r, 1) = IF store[ManifestKey] # <<>> THEN store[ManifestKey][1] ELSE <<>>
      BY <1>c, <3>1 DEF Items, HasRead, Read
    <3>3. Items(r, 1) \in Seq(Agents)
      <4>1. (1 <= Len(r) => Holds(ManifestKey, r[1])) /\ 1 \in Nat \ {0}
        BY <3>1
      <4> HIDE DEF r
      <4> QED
        BY <1>c, <4>1, ItemsType
    <3>4. \A g : g = c.agent \/ Contains(Items(r, 1), g) => Contains(s.value, g)
      BY <3>0, <3>3 DEF Contains
    <3>5. st[ManifestKey] = <<s.value>>
      BY <1>0, <2>0, <3>0
    <3>6. \A g : g = c.agent \/ Listed(store, g) => Listed(st, g)
      BY <2>0, <3>2, <3>4, <3>5 DEF Listed
    <3>7. \A g \in Agents : st[AgentKey(g)] = store[AgentKey(g)] /\ st[MessagesKey(g)] = store[MessagesKey(g)]
      BY <1>0, <2>0, <3>0, KeysDiffer
    <3> QED
      BY <1>b, <3>6, <3>7 DEF Known, HasDoc
  <2>5. CASE c.method = "update_agent"
    <3>1. s.key = AgentKey(c.agent) /\ i = 1 /\ HasRead(r, 1)
      BY <2>0, <2>5 DEF Saves
    <3>2. r[1] = store[AgentKey(c.agent)] /\ Len(r) = 1
      BY <1>b, <1>c, <2>5, <3>1 DEF SessionRead, Reads
    <3>3. HasDoc(store, c.agent)
      BY <1>c, <3>1, <3>2 DEF HasDoc, HasRead, Read
    <3> QED
      BY <2>2, <2>5, <3>1, <3>3
  <2>6. CASE c.method = "update_message"
    <3>1. s.key = MessagesKey(c.agent) /\ i = 2 /\ Contains(Items(r, 2), c.message)
      BY <2>0, <2>6 DEF Saves
    <3>2. r[2] = store[MessagesKey(c.agent)] /\ Len(r) = 2
      BY <1>b, <1>c, <2>6, <3>1 DEF SessionRead, Reads
    <3>3. store[MessagesKey(c.agent)] # <<>>
      <4>1. ASSUME store[MessagesKey(c.agent)] = <<>> PROVE FALSE
        <5>1. Items(r, 2) = <<>>
          BY <1>c, <3>2, <4>1 DEF Items, HasRead, Read
        <5> QED
          BY <3>1, <5>1 DEF Contains
      <4> QED
        BY <4>1
    <3> QED
      BY <2>2, <2>6, <3>1, <3>3 DEF HasDoc
  <2>7. CASE c.method = "create_message"
    <3>1. s.key = MessagesKey(c.agent)
      BY <2>0, <2>7 DEF Saves
    <3>2. Known(store, unlisted, c.agent)
      <4> DEFINE calls == script.calls[p]
                 n == done[p] + 1
      <4>1. n \in DOMAIN calls /\ c = calls[n] /\ InOrder(calls) /\ done[p] \in Nat
            /\ n - 1 = done[p] /\ DOMAIN calls = 1 .. Len(calls) /\ Len(calls) \in Nat
        BY <1>0, CallsTyped DEF Calling, Current, DocInv, DocTypeOK, Ordered
      <4>2. PICK j \in 1 .. n - 1 : /\ calls[j].method = "create_agent" /\ calls[j].agent = c.agent
                                    /\ \A k \in j .. n : calls[k].method # "delete_session"
        BY <2>7, <4>1 DEF InOrder
      <4>3. j \in 1 .. done[p] /\ j \in DOMAIN calls
        BY <4>1
      <4>4. Known(store, unlisted, calls[j].agent)
        BY <1>b, <4>2, <4>3 DEF CreatedKnown
      <4> QED
        BY <4>2, <4>4
    <3> QED
      BY <2>2, <2>7, <3>1, <3>2 DEF Known
  <2> QED
    BY <1>4, <2>0, <2>1, <2>3, <2>4, <2>5, <2>6, <2>7 DEF Saves, ThreadMethods
<1>5. CASE s.do = "delete" /\ c.method \notin ThreadMethods
  <2>0. /\ Deletes(c, i, r, s.key) /\ c.method = "delete_session"
        /\ st = [store EXCEPT ![s.key] = <<>>] /\ un = unlisted
    BY <1>0, <1>5, <1>a DEF Shape, Deletes, ThreadMethods
  <2>1. \A g \in Agents : HasDoc(st, g) => HasDoc(store, g)
    BY <1>0, <1>a, <2>0 DEF HasDoc
  <2>2. CASE s.key # ManifestKey
    <3>1. st[ManifestKey] = store[ManifestKey]
      BY <1>0, <1>a, <2>0, <2>2
    <3> QED
      BY <1>b, <2>0, <2>1, <3>1 DEF Known, Listed
  <2>3. CASE s.key = ManifestKey
    <3> DEFINE agents == Items(r, 1)
    <3>0. Len(r) = 1 /\ Holds(ManifestKey, r[1])
      <4>1. i # 0
        BY <2>0, <2>3, KeysDiffer DEF Deletes
      <4> QED
        BY <1>0, <1>c, <2>0, <4>1 DEF Reads, SeenOK, ReadKey
    <3>1. agents \in Seq(Agents) /\ Len(agents) \in Nat
      <4>0. (1 <= Len(r) => Holds(ManifestKey, r[1])) /\ 1 \in Nat \ {0}
        BY <3>0
      <4> HIDE DEF r
      <4>1. agents \in Seq(Agents)
        BY <1>c, <4>0, ItemsType
      <4> QED
        BY <4>1
    <3>2. i = 2 * Len(agents) + 1
      BY <2>0, <2>3, KeysDiffer DEF Deletes
    <3>3. r[1] = store[ManifestKey]
          /\ \A j \in 1 .. Len(agents) : store[AgentKey(agents[j])] = <<>> /\ store[MessagesKey(agents[j])] = <<>>
      BY <1>b, <2>0, <3>1, <3>2 DEF SessionRead, DeleteRead
    <3>4. agents = IF store[ManifestKey] # <<>> THEN store[ManifestKey][1] ELSE <<>>
      BY <1>c, <3>0, <3>3 DEF Items, HasRead, Read
    <3>5. ASSUME NEW g \in Agents, HasDoc(store, g) PROVE g \in unlisted
      <4>1. ASSUME Listed(store, g) PROVE FALSE
        <5>1. PICK j \in 1 .. Len(agents) : agents[j] = g
          BY <3>4, <4>1 DEF Listed, Contains
        <5> QED
          BY <3>3, <3>5, <5>1 DEF HasDoc
      <4> QED
        BY <1>b, <3>5, <4>1 DEF Known
    <3> QED
      BY <2>0, <2>1, <3>5 DEF Known
  <2> QED
    BY <2>2, <2>3
<1> QED
  BY <1>1, <1>3, <1>4, <1>5, <1>a

\* A create_agent that ends has made a store call, and none of them raises.
LEMMA CreateAgentEnds ==
  ASSUME NEW p \in Users, Current(p).method = "create_agent"
  PROVE  /\ Len(Steps(p)) = 4
         /\ pc[p] \in Nat /\ pc[p] < 4 => StoreStep(p).do # "raise"
<1> DEFINE c == Current(p)
           r == seen[p]
           v == IF Contains(Items(r, 1), c.agent) THEN Items(r, 1) ELSE Append(Items(r, 1), c.agent)
<1>1. Steps(p) = <<Save(AgentKey(c.agent), "agent"), Save(MessagesKey(c.agent), <<>>),
                   Get(ManifestKey), Save(ManifestKey, v)>>
  BY DEF Steps, Plan, CreateAgent
<1> HIDE DEF v
<1>2. \A k, x : Save(k, x).do = "save" /\ Get(k).do = "get"
  BY DEF Save, Get
<1>3. ASSUME pc[p] \in Nat, pc[p] < 4 PROVE StoreStep(p).do \in {"save", "get"}
  <2>1. pc[p] \in {0, 1, 2, 3}
    BY <1>3
  <2> QED
    BY <1>1, <1>2, <2>1 DEF StoreStep
<1> QED
  BY <1>1, <1>3

\* What a call of the only user of a session has read after one more store
\* call.
LEMMA ReadsOn ==
  ASSUME DocInv, ListInv, Ordered, Cardinality(SessionUsers) <= 1,
         NEW p \in Users, MidCall(p), StoreStep(p).do # "raise",
         NEW st, st = Applied(StoreStep(p)),
         NEW un, un = IF Current(p).method = "create_agent"
                      THEN unlisted \cup {Current(p).agent} ELSE unlisted,
         NEW q, q = IF StoreStep(p).do = "get" THEN Append(seen[p], store[StoreStep(p).key]) ELSE seen[p]
  PROVE  SessionRead(st, un, Current(p), pc[p] + 1, q)
<1> DEFINE c == Current(p)
           i == pc[p]
           r == seen[p]
           s == StoreStep(p)
<1>0. /\ c \in DocCalls /\ i \in Nat /\ SeenOK(c, i, r) /\ Shape(c, i, r, s)
      /\ DocTypeOK /\ store \in [Keys -> Docs] /\ Calling(p) /\ ManifestKey \in Keys
      /\ \A g \in Agents : AgentKey(g) \in Keys /\ MessagesKey(g) \in Keys
  BY NextStoreCall, KeysKnown DEF DocInv, DocTypeOK, MidCall
<1>a. /\ s.do = "get" => st = store
      /\ s.do = "delete" => st = [store EXCEPT ![s.key] = <<>>]
      /\ s.do = "save" => st = [store EXCEPT ![s.key] = <<s.value>>]
      /\ s.do \in {"get", "delete", "save"} /\ s.key \in Keys
  BY <1>0, AppliedType
<1>b. SessionRead(store, unlisted, c, i, r)
  BY <1>0 DEF ListInv
<1>c. r \in Seq(Docs) /\ Len(r) = Reads(c, i) /\ Len(r) \in Nat
  BY <1>0 DEF SeenOK
<1>l. c.method = "create_agent" /\ i = 3 => Listed(st, c.agent)
  BY ListedStays
<1>q. q = IF s.do = "get" THEN Append(r, store[s.key]) ELSE r
  OBVIOUS
<1>u. un = IF c.method = "create_agent" THEN unlisted \cup {c.agent} ELSE unlisted
  OBVIOUS
<1> HIDE DEF c, i, r, s
<1> SUFFICES SessionRead(st, un, c, i + 1, q)
  BY DEF c, i
<1>g. ASSUME s.do = "get" PROVE q[Len(r) + 1] = st[s.key] /\ st = store
  <2>1. q = Append(r, store[s.key]) /\ st = store
    BY <1>a, <1>g, <1>q
  <2> QED
    BY <1>0, <1>a, <1>c, <2>1
<1>1. CASE c.method = "create_agent"
  <2>1. c.agent \in un
    BY <1>1, <1>u
  <2>2. i + 1 = 3 => q[1] = st[ManifestKey]
    <3>1. ASSUME i = 2 PROVE s.do = "get" /\ s.key = ManifestKey /\ Len(r) = 0
      BY <1>0, <1>1, <1>c, <3>1 DEF Shape, Reads, ReadKey, Saves, Deletes
    <3> QED
      BY <1>0, <1>g, <3>1
  <2>3. i + 1 > 3 => i = 3
    BY <1>0, <1>1, <1>c DEF Shape, Reads, Saves, Deletes
  <2> QED
    BY <1>1, <1>l, <2>1, <2>2, <2>3 DEF SessionRead
<1>2. CASE c.method = "update_agent"
  <2>1. ASSUME i = 0 PROVE s.do = "get" /\ s.key = AgentKey(c.agent) /\ Len(r) = 0
    BY <1>0, <1>2, <1>c, <2>1 DEF Shape, Reads, ReadKey, Saves, Deletes
  <2> QED
    BY <1>0, <1>2, <1>g, <2>1 DEF SessionRead
<1>3. CASE c.method = "update_message"
  <2>1. ASSUME i = 1 PROVE s.do = "get" /\ s.key = MessagesKey(c.agent) /\ Len(r) = 1
    BY <1>0, <1>3, <1>c, <2>1 DEF Shape, Reads, ReadKey, Saves, Deletes
  <2>2. i + 1 = 2 => q[2] = st[MessagesKey(c.agent)]
    <3>1. ASSUME i = 1 PROVE q[2] = st[MessagesKey(c.agent)]
      <4>1. s.do = "get" /\ s.key = MessagesKey(c.agent) /\ Len(r) = 1
        BY <2>1, <3>1
      <4>2. q[Len(r) + 1] = st[s.key]
        BY <1>g, <4>1
      <4>3. Len(r) + 1 = 2
        BY <4>1
      <4> QED
        BY <4>1, <4>2, <4>3
    <3>2. i + 1 = 2 => i = 1
      BY <1>0
    <3> QED
      BY <3>1, <3>2
  <2> QED
    BY <1>3, <2>2 DEF SessionRead
<1>4. CASE c.method = "delete_session"
  <2>1. CASE i = 0
    <3>1. s.do = "get" /\ s.key = ManifestKey /\ Len(r) = 0
      BY <1>0, <1>4, <1>c, <2>1 DEF Shape, Reads, ReadKey, Saves, Deletes
    <3>2. q[1] = st[ManifestKey]
      BY <1>g, <3>1
    <3>3. \A j \in 1 .. Len(Items(q, 1)) : ~(1 >= 2 * j)
      OBVIOUS
    <3> QED
      BY <1>4, <2>1, <3>2, <3>3 DEF SessionRead, DeleteRead
  <2>2. CASE i # 0
    <3> DEFINE agents == Items(r, 1)
               n == Len(agents)
    <3>0. s.do = "delete" /\ Deletes(c, i, r, s.key) /\ Len(r) = 1 /\ Holds(ManifestKey, r[1]) /\ q = r
      BY <1>0, <1>4, <1>c, <1>q, <2>2 DEF Shape, Reads, ReadKey, Saves, SeenOK
    <3>1. agents \in Seq(Agents) /\ n \in Nat
      <4>0. (1 <= Len(r) => Holds(ManifestKey, r[1])) /\ 1 \in Nat \ {0}
        BY <3>0
      <4>1. agents \in Seq(Agents)
        BY <1>c, <4>0, ItemsType
      <4> QED
        BY <4>1
    <3>2. \A j \in 1 .. n : agents[j] \in Agents
      BY <3>1
    <3>3. st = [store EXCEPT ![s.key] = <<>>]
      BY <1>a, <3>0
    <3>d. \/ \E j \in 1 .. n : \/ (i = 2 * j - 1 /\ s.key = AgentKey(agents[j]))
                             \/ (i = 2 * j /\ s.key = MessagesKey(agents[j]))
          \/ (i = 2 * n + 1 /\ s.key = ManifestKey)
          \/ (i = 2 * n + 2 /\ s.key = SessionKey)
      BY <1>4, <3>0, Zenon DEF Deletes
    <3> SUFFICES ASSUME i + 1 <= 2 * n + 1 PROVE DeleteRead(st, i + 1, r)
      BY <1>4, <3>0 DEF SessionRead, DeleteRead
    <3>4. /\ r[1] = store[ManifestKey]
          /\ \A j \in 1 .. n : /\ i >= 2 * j => store[AgentKey(agents[j])] = <<>>
                               /\ i > 2 * j => store[MessagesKey(agents[j])] = <<>>
      BY <1>0, <1>4, <1>b, <2>2, <3>1 DEF SessionRead, DeleteRead
    <3>5. s.key # ManifestKey
      BY <1>0, <3>1, <3>d, KeysDiffer
    <3>6. st[ManifestKey] = store[ManifestKey]
      BY <1>0, <3>3, <3>5
    <3>7. ASSUME NEW j \in 1 .. n
          PROVE  /\ i + 1 >= 2 * j => st[AgentKey(agents[j])] = <<>>
                 /\ i + 1 > 2 * j => st[MessagesKey(agents[j])] = <<>>
      <4>0. AgentKey(agents[j]) \in Keys /\ MessagesKey(agents[j]) \in Keys
        BY <1>0, <3>2
      <4>1. /\ store[AgentKey(agents[j])] = <<>> => st[AgentKey(agents[j])] = <<>>
            /\ store[MessagesKey(agents[j])] = <<>> => st[MessagesKey(agents[j])] = <<>>
        BY <1>0, <3>3, <4>0
      <4>2. ASSUME i = 2 * j - 1 PROVE st[AgentKey(agents[j])] = <<>>
        <5>1. s.key = AgentKey(agents[j])
          BY <3>1, <3>d, <4>2
        <5> QED
          BY <1>0, <3>3, <4>0, <5>1
      <4>3. ASSUME i = 2 * j PROVE st[MessagesKey(agents[j])] = <<>>
        <5>1. s.key = MessagesKey(agents[j])
          BY <3>1, <3>d, <4>3
        <5> QED
          BY <1>0, <3>3, <4>0, <5>1
      <4>4. i + 1 >= 2 * j => i >= 2 * j \/ i = 2 * j - 1
        BY <1>0
      <4>5. i + 1 > 2 * j => i > 2 * j \/ i = 2 * j
        BY <1>0
      <4> QED
        BY <3>4, <4>1, <4>2, <4>3, <4>4, <4>5
    <3> QED
      BY <3>4, <3>6, <3>7 DEF DeleteRead
  <2> QED
    BY <2>1, <2>2
<1> QED
  BY <1>1, <1>2, <1>3, <1>4 DEF SessionRead

\* A store that holds the same documents of the session.
SameSession(st) ==
  /\ st[ManifestKey] = store[ManifestKey]
  /\ \A g \in Agents : st[AgentKey(g)] = store[AgentKey(g)] /\ st[MessagesKey(g)] = store[MessagesKey(g)]

\* What a call has read stays true of a store that holds the same documents.
LEMMA SameReads ==
  ASSUME NEW c \in DocCalls, NEW i \in Nat, NEW r, SeenOK(c, i, r), NEW un, NEW st,
         SameSession(st), SessionRead(store, un, c, i, r)
  PROVE  SessionRead(st, un, c, i, r)
<1>0. r \in Seq(Docs) /\ Len(r) = Reads(c, i) /\ Len(r) \in Nat
  BY DEF SeenOK
<1>1. CASE c.method = "delete_session"
  <2>1. ASSUME i > 0 PROVE Items(r, 1) \in Seq(Agents)
    <3>1. (1 <= Len(r) => Holds(ManifestKey, r[1])) /\ 1 \in Nat \ {0}
      BY <1>0, <1>1 DEF SeenOK, ReadKey
    <3> QED
      BY <1>0, <3>1, ItemsType
  <2>2. i > 0 => \A j \in 1 .. Len(Items(r, 1)) : Items(r, 1)[j] \in Agents
    BY <2>1
  <2>3. DeleteRead(store, i, r)
    BY <1>1 DEF SessionRead
  <2>4. DeleteRead(st, i, r)
    BY <2>2, <2>3 DEF DeleteRead, SameSession
  <2> QED
    BY <1>1, <2>4 DEF SessionRead
<1>2. CASE c.method # "delete_session"
  <2>1. c.method \in {"create_agent", "update_agent", "update_message"} => c.agent \in Agents
    BY CallFields
  <2> QED
    BY <1>2, <2>1 DEF SessionRead, SameSession, Listed
<1> QED
  BY <1>1, <1>2

\* What a step of p leaves of the others: they do not use the session, or the
\* step does not touch it.
LEMMA OtherUsers ==
  ASSUME DocInv, ListInv, Ordered, Cardinality(SessionUsers) <= 1,
         NEW p \in Users, Calling(p), script' = script,
         \/ SameSession(store') /\ unlisted' = unlisted
         \/ Current(p).method \notin ThreadMethods,
         NEW u \in Users, u # p, done'[u] = done[u], pc'[u] = pc[u], seen'[u] = seen[u]
  PROVE  /\ CreatedKnown(u)'
         /\ Calling(u)' => SessionRead(store', unlisted', Current(u)', pc'[u], seen'[u])
<1>1. Calling(u)' = Calling(u) /\ Current(u)' = Current(u)
  BY DEF Calling, Current
<1>2. CreatedKnown(u) /\ (Calling(u) => SessionRead(store, unlisted, Current(u), pc[u], seen[u]))
  BY DEF ListInv
<1>3. CASE SameSession(store') /\ unlisted' = unlisted
  <2>1. \A g : Known(store, unlisted, g)' = Known(store, unlisted, g)
    BY <1>3 DEF SameSession, Known, Listed
  <2>2. CreatedKnown(u)'
    BY <1>2, <2>1 DEF CreatedKnown
  <2>3. ASSUME Calling(u) PROVE SessionRead(store', unlisted', Current(u)', pc'[u], seen'[u])
    <3>1. Current(u) \in DocCalls /\ pc[u] \in Nat /\ SeenOK(Current(u), pc[u], seen[u])
      BY <2>3, CallsTyped DEF DocInv, DocTypeOK
    <3>2. SessionRead(store', unlisted, Current(u), pc[u], seen[u])
      BY <1>2, <1>3, <2>3, <3>1, SameReads
    <3> QED
      BY <1>1, <1>3, <3>2
  <2> QED
    BY <1>1, <2>2, <2>3
<1>4. CASE Current(p).method \notin ThreadMethods
  <2>1. p \in SessionUsers
    BY <1>4, SessionCaller
  <2>2. u \notin SessionUsers
    BY <2>1, SoleUser
  <2>3. \A j \in DOMAIN script.calls[u] : script.calls[u][j].method # "create_agent"
    BY <2>2 DEF SessionUsers
  <2>4. CreatedKnown(u)'
    BY <2>3 DEF CreatedKnown
  <2>5. Calling(u) => Current(u).method \in ThreadMethods
    BY <2>2, SessionCaller
  <2>6. Calling(u) => SessionRead(store', unlisted', Current(u)', pc'[u], seen'[u])
    BY <1>1, <2>5 DEF SessionRead, ThreadMethods
  <2> QED
    BY <1>1, <2>4, <2>6
<1> QED
  BY <1>3, <1>4

\* The end of a call of p.
LEMMA EndedList ==
  ASSUME DocInv, ListInv, Ordered, Cardinality(SessionUsers) <= 1,
         NEW p \in Users, Calling(p), script' = script, NEW how, EndCall(p, how),
         \/ SameSession(store') /\ unlisted' = unlisted
         \/ Current(p).method \notin ThreadMethods,
         \A g \in Agents : Known(store, unlisted, g) =>
           Current(p).method = "delete_session" \/ Known(store', unlisted', g),
         Current(p).method = "create_agent" => Known(store', unlisted', Current(p).agent),
         NEW u \in Users
  PROVE  /\ CreatedKnown(u)'
         /\ Calling(u)' => SessionRead(store', unlisted', Current(u)', pc'[u], seen'[u])
<1>0. /\ done \in [Users -> Nat] /\ pc \in [Users -> Nat] /\ DOMAIN seen = Users
      /\ done' = [done EXCEPT ![p] = @ + 1] /\ pc' = [pc EXCEPT ![p] = 0]
      /\ seen' = [seen EXCEPT ![p] = <<>>]
  BY DEF DocInv, DocTypeOK, EndCall
<1>1. CASE u # p
  <2>1. done'[u] = done[u] /\ pc'[u] = pc[u] /\ seen'[u] = seen[u]
    BY <1>0, <1>1
  <2> QED
    BY <1>1, <2>1, OtherUsers
<1>2. CASE u = p
  <2> DEFINE calls == script.calls[p]
             n == done[p] + 1
  <2>1. done[p] \in Nat /\ done'[p] = n /\ pc'[p] = 0
    BY <1>0
  <2>2. calls \in Seq(DocCalls) /\ n \in DOMAIN calls /\ Current(p) = calls[n]
    BY <2>1, CallsTyped DEF Calling, Current
  <2>3. CreatedKnown(p)'
    <3> SUFFICES ASSUME NEW j \in 1 .. n, j \in DOMAIN calls, calls[j].method = "create_agent",
                        \A k \in j .. n + 1 : k \in DOMAIN calls => calls[k].method # "delete_session"
                 PROVE  Known(store', unlisted', calls[j].agent)
      BY <2>1 DEF CreatedKnown, Known, Listed
    <3>1. calls[n].method # "delete_session"
      BY <2>1, <2>2
    <3>2. CASE j = n
      BY <2>2, <3>2
    <3>3. CASE j # n
      <4>1. j \in 1 .. done[p] /\ \A k \in j .. done[p] + 1 : k \in j .. n + 1
        BY <2>1, <3>3
      <4>2. Known(store, unlisted, calls[j].agent)
        BY <4>1 DEF ListInv, CreatedKnown
      <4>3. calls[j].agent \in Agents
        BY <2>2, CallFields
      <4> QED
        BY <2>2, <3>1, <4>2, <4>3
    <3> QED
      BY <3>2, <3>3
  <2>4. SessionRead(store', unlisted', Current(p)', 0, seen'[p])
    BY DEF SessionRead, DeleteRead
  <2> QED
    BY <1>2, <2>1, <2>3, <2>4
<1> QED
  BY <1>1, <1>2

\* What a store call leaves alone, whoever makes it.
LEMMA StoreCallApart ==
  ASSUME DocInv, NEW p \in Users, MidCall(p), StoreStep(p).do # "raise", Current(p).method \in ThreadMethods
  PROVE  SameSession(Applied(StoreStep(p)))
BY NextStoreCall, ThreadsApart DEF SameSession, DocInv

\* Every step keeps the manifest and what has been read of it in order.
LEMMA ListInvStep ==
  ASSUME Ordered
  PROVE  DocInv /\ ListInv /\ [DocNext]_docVars => ListInv'
<1> SUFFICES ASSUME DocInv, ListInv, [DocNext]_docVars PROVE ListInv'
  OBVIOUS
<1>0. CASE UNCHANGED docVars
  BY <1>0 DEF docVars, ListInv, CreatedKnown, Known, Listed, HasDoc, SessionRead, DeleteRead,
              SessionUsers, Calling, Current
<1> SUFFICES ASSUME NEW p \in Users,
                    StoreCall(p) \/ Return(p) \/ RaiseError(p) \/ StoreFails(p),
                    Cardinality(SessionUsers) <= 1
             PROVE  /\ \A g \in Agents : HasDoc(store', g) => Known(store', unlisted', g)
                    /\ \A u \in Users :
                         /\ CreatedKnown(u)'
                         /\ Calling(u)' => SessionRead(store', unlisted', Current(u)', pc'[u], seen'[u])
  <2>1. script' = script
    BY <1>0 DEF DocNext, StoreCall, Return, RaiseError, StoreFails, docVars
  <2>2. SessionUsers' = SessionUsers
    BY <2>1 DEF SessionUsers
  <2> QED
    BY <1>0, <2>2 DEF ListInv, DocNext, HasDoc, Known, Listed, SessionRead, DeleteRead
<1> DEFINE c == Current(p)
<1>1. /\ \A g \in Agents : HasDoc(store, g) => Known(store, unlisted, g)
      /\ CreatedKnown(p) /\ (Calling(p) => SessionRead(store, unlisted, c, pc[p], seen[p]))
  BY DEF ListInv
<1>2. /\ done \in [Users -> Nat] /\ pc \in [Users -> Nat] /\ DOMAIN seen = Users
      /\ done[p] \in Nat /\ pc[p] \in Nat
  BY DEF DocInv, DocTypeOK
<1>s. SameSession(store)
  BY DEF SameSession
<1>m. c.method \in ThreadMethods => c.method # "create_agent"
  BY DEF ThreadMethods
<1>3. CASE StoreCall(p)
  <2> DEFINE q == IF StoreStep(p).do = "get" THEN Append(seen[p], store[StoreStep(p).key]) ELSE seen[p]
  <2>1. /\ MidCall(p) /\ Calling(p) /\ StoreStep(p).do # "raise" /\ script' = script /\ done' = done
        /\ store' = Applied(StoreStep(p)) /\ pc' = [pc EXCEPT ![p] = @ + 1]
        /\ unlisted' = IF Current(p).method = "create_agent"
                       THEN unlisted \cup {Current(p).agent} ELSE unlisted
    BY <1>3 DEF StoreCall, MidCall
  <2>2. seen'[p] = q /\ \A u \in Users \ {p} : seen'[u] = seen[u]
    BY <1>2, <1>3 DEF StoreCall
  <2>3. /\ \A g \in Agents : HasDoc(store', g) => Known(store', unlisted', g)
        /\ \A g \in Agents : Known(store, unlisted, g) =>
             Current(p).method = "delete_session" \/ Known(store', unlisted', g)
    BY <2>1, ListedStays
  <2>4. c.method \notin ThreadMethods \/ (SameSession(store') /\ unlisted' = unlisted)
    BY <1>m, <2>1, StoreCallApart
  <2>5. ASSUME NEW u \in Users, u # p
        PROVE  /\ CreatedKnown(u)'
               /\ Calling(u)' => SessionRead(store', unlisted', Current(u)', pc'[u], seen'[u])
    <3>1. done'[u] = done[u] /\ pc'[u] = pc[u] /\ seen'[u] = seen[u]
      BY <1>2, <2>1, <2>2, <2>5
    <3> QED
      BY <2>1, <2>4, <2>5, <3>1, OtherUsers
  <2>6. CreatedKnown(p)'
    <3> DEFINE calls == script.calls[p]
               n == done[p] + 1
    <3>0. calls \in Seq(DocCalls) /\ n \in DOMAIN calls /\ Current(p) = calls[n]
      BY <1>2, <2>1, CallsTyped DEF Calling, Current
    <3> SUFFICES ASSUME NEW j \in 1 .. done[p], j \in DOMAIN calls, calls[j].method = "create_agent",
                        \A k \in j .. n : k \in DOMAIN calls => calls[k].method # "delete_session"
                 PROVE  Known(store', unlisted', calls[j].agent)
      BY <2>1 DEF CreatedKnown, Known, Listed
    <3>1. calls[n].method # "delete_session"
      <4>1. n \in j .. n
        BY <1>2
      <4> QED
        BY <3>0, <4>1
    <3>2. Known(store, unlisted, calls[j].agent)
      BY <1>1 DEF CreatedKnown
    <3>3. calls[j].agent \in Agents
      BY <3>0, CallFields
    <3> QED
      BY <2>3, <3>0, <3>1, <3>2, <3>3
  <2>7. SessionRead(store', unlisted', Current(p)', pc'[p], seen'[p])
    <3>1. Current(p)' = Current(p) /\ pc'[p] = pc[p] + 1
      BY <1>2, <2>1 DEF Current
    <3>2. SessionRead(store', unlisted', Current(p), pc[p] + 1, q)
      BY <2>1, ReadsOn
    <3> QED
      BY <2>2, <3>1, <3>2
  <2> QED
    BY <2>3, <2>5, <2>6, <2>7
<1>4. CASE Return(p)
  <2>1. /\ Calling(p) /\ pc[p] = Len(Steps(p)) /\ EndCall(p, "ok") /\ script' = script /\ store' = store
        /\ unlisted' = IF c.method = "create_agent" THEN unlisted \ {c.agent} ELSE unlisted
    BY <1>4 DEF Return
  <2>2. c.method = "create_agent" => Listed(store, c.agent)
    <3>1. ASSUME c.method = "create_agent" PROVE pc[p] = 4
      BY <2>1, <3>1, CreateAgentEnds
    <3>2. ASSUME c.method = "create_agent" PROVE pc[p] > 3
      BY <3>1, <3>2
    <3>3. SessionRead(store, unlisted, c, pc[p], seen[p])
      BY <1>1, <2>1
    <3> HIDE DEF c
    <3> QED
      BY <3>2, <3>3 DEF SessionRead
  <2>3. \A g : Known(store, unlisted, g) => Known(store', unlisted', g)
    BY <2>1, <2>2 DEF Known
  <2>4. c.method \notin ThreadMethods \/ (SameSession(store') /\ unlisted' = unlisted)
    BY <1>m, <1>s, <2>1
  <2>5. c.method = "create_agent" => Known(store', unlisted', c.agent)
    BY <2>1, <2>2 DEF Known
  <2>6. \A u \in Users : /\ CreatedKnown(u)'
                         /\ Calling(u)' => SessionRead(store', unlisted', Current(u)', pc'[u], seen'[u])
    BY <2>1, <2>3, <2>4, <2>5, EndedList
  <2> QED
    BY <1>1, <2>1, <2>3, <2>6
<1>5. CASE RaiseError(p)
  <2>1. /\ MidCall(p) /\ Calling(p) /\ StoreStep(p).do = "raise" /\ EndCall(p, "raised") /\ script' = script
        /\ store' = store /\ unlisted' = unlisted
    BY <1>5 DEF RaiseError, MidCall
  <2>2. c.method # "create_agent"
    <3>1. ASSUME c.method = "create_agent" PROVE FALSE
      <4>1. pc[p] < 4
        BY <2>1, <3>1, CreateAgentEnds DEF MidCall
      <4> QED
        BY <1>2, <2>1, <3>1, <4>1, CreateAgentEnds
    <3> QED
      BY <3>1
  <2>3. SameSession(store') /\ \A g : Known(store', unlisted', g) = Known(store, unlisted, g)
    BY <1>s, <2>1
  <2>4. \A u \in Users : /\ CreatedKnown(u)'
                         /\ Calling(u)' => SessionRead(store', unlisted', Current(u)', pc'[u], seen'[u])
    BY <2>1, <2>2, <2>3, EndedList
  <2> QED
    BY <1>1, <2>1, <2>4
<1>6. CASE StoreFails(p)
  <2>1. /\ MidCall(p) /\ Calling(p) /\ StoreStep(p).do # "raise" /\ EndCall(p, "failed") /\ script' = script
        /\ unlisted' = IF Current(p).method = "create_agent"
                       THEN unlisted \cup {Current(p).agent} ELSE unlisted
        /\ store' = store \/ store' = Applied(StoreStep(p))
    BY <1>6 DEF StoreFails, MidCall
  <2>2. /\ \A g \in Agents : HasDoc(store', g) => Known(store', unlisted', g)
        /\ \A g \in Agents : Known(store, unlisted, g) =>
             Current(p).method = "delete_session" \/ Known(store', unlisted', g)
    <3>1. CASE store' = store
      BY <1>1, <2>1, <3>1 DEF Known
    <3>2. CASE store' = Applied(StoreStep(p))
      BY <2>1, <3>2, ListedStays
    <3> QED
      BY <2>1, <3>1, <3>2
  <2>3. c.method \notin ThreadMethods \/ (SameSession(store') /\ unlisted' = unlisted)
    BY <1>m, <1>s, <2>1, StoreCallApart
  <2>4. c.method = "create_agent" => Known(store', unlisted', c.agent)
    BY <2>1 DEF Known
  <2>5. \A u \in Users : /\ CreatedKnown(u)'
                         /\ Calling(u)' => SessionRead(store', unlisted', Current(u)', pc'[u], seen'[u])
    BY <2>1, <2>2, <2>3, <2>4, EndedList
  <2> QED
    BY <2>2, <2>5
<1> QED
  BY <1>3, <1>4, <1>5, <1>6

\* A session can be deleted as a whole and loses no message before
\* (dapr_session_manager.py, create_agent, create_message): whatever the
\* scripts, the number of users and the store calls that fail, as long as each
\* user creates an agent before it uses it.
THEOREM SessionsKept ==
  ASSUME \A s \in Scripts : \A u \in Users : InOrder(s.calls[u])
  PROVE  DocSpec => []SessionKept
<1>0. Ordered
  BY DEF Ordered
<1>1. DocInit => DocInv /\ KeepInv /\ ListInv
  <2> SUFFICES ASSUME DocInit PROVE KeepInv /\ ListInv
    BY DocInvInit
  <2>1. /\ \A g \in Agents : kept[g] = {} /\ store[AgentKey(g)] = <<>> /\ store[MessagesKey(g)] = <<>>
        /\ \A p \in Users : done[p] = 0 /\ pc[p] = 0
    BY KeysKnown DEF DocInit
  <2>2. KeepInv
    BY <2>1 DEF KeepInv, ListRead
  <2>3. \A p \in Users : CreatedKnown(p) /\ SessionRead(store, unlisted, Current(p), pc[p], seen[p])
    BY <2>1 DEF CreatedKnown, SessionRead, DeleteRead
  <2> QED
    BY <2>1, <2>2, <2>3 DEF ListInv, HasDoc
<1>2. DocInv /\ KeepInv /\ ListInv /\ [DocNext]_docVars => (DocInv /\ KeepInv /\ ListInv)'
  BY <1>0, DocInvStep, KeepInvStep, ListInvStep
<1>3. KeepInv /\ ListInv => SessionKept
  <2>1. KeepInv => MessagesKept
    BY DEF KeepInv, MessagesKept, Has, Stored
  <2>2. ListInv => Reclaimable
    BY DEF ListInv, Reclaimable, AllListed, Stored, HasDoc, Known, Listed
  <2> QED
    BY <2>1, <2>2 DEF SessionKept
<1> QED
  BY <1>1, <1>2, <1>3, PTL DEF DocSpec
=============================================================================
