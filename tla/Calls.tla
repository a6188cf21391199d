------------------------------- MODULE Calls -------------------------------
(***************************************************************************)
(* How a method of a client reaches the sidecar: argument checks, the      *)
(* attempts of RetryPolicy (gRPC and HTTP) or of the workflow client's     *)
(* waits, the fallback to an alpha API, the exception that the caller      *)
(* sees, and close() of the client by another thread.  The methods         *)
(* themselves are records, in GrpcClient, AioGrpcClient, ActorClients and  *)
(* WorkflowClients.                                                        *)
(*                                                                         *)
(* The sidecar and the network are external.  A request or its reply may   *)
(* be lost, and a request the client has given up may be executed late.    *)
(***************************************************************************)
EXTENDS Integers, FiniteSets, ClientMethods

CONSTANTS
  Callers,      \* threads or tasks of the application
  Window,       \* _MAX_TRANSIENT_RETRY_SECONDS
  BackoffCap,   \* the longest sleep of a wait
  Horizon,      \* bound: the time while a wait is on the wire
  Scenes        \* who calls what, and what may go wrong

(* A scene has the method of each caller that takes part, whether its      *)
(* arguments are good,                                                     *)
(*   attempts  max_attempts of the RetryPolicy, -1 for no limit            *)
(*   timeout   of a wait, 0 for none                                       *)
(*   limit     DAPR_API_TIMEOUT_SECONDS, 0 when it is not set              *)
(*   faults    how many attempts may fail                                  *)
(*   bare      whether the sidecar only has the alpha APIs                 *)
(*   closes    whether close() is called                                   *)
ASSUME CallsAssumption ==
  /\ IsFiniteSet(Callers) /\ Window \in Nat /\ Horizon \in Nat
  /\ BackoffCap \in Nat \ {0}
  /\ Scenes \subseteq
       [method: UNION {[P -> Methods] : P \in SUBSET Callers}, good: BOOLEAN,
        attempts: Nat \cup {-1}, timeout: Nat, limit: Nat,
        faults: Nat, bare: BOOLEAN, closes: BOOLEAN]

VARIABLES
  scene,
  caller,   \* where each caller is
  applied,  \* sidecar: how often the call of a caller had its effect
  late,     \* sidecar: requests given up by the caller and not executed yet
  first,    \* sidecar: the caller whose "once" came first
  closed,   \* the channel is closed
  faults, now

callsVars == <<scene, caller, applied, late, first, closed, faults, now>>

Nobody == {}
Never == -1
Present == DOMAIN scene.method
Method(c) == scene.method[c]
Unbounded == scene.timeout = 0

Idle == [phase |-> "idle", alpha |-> FALSE, attempt |-> 0, sends |-> 0, lost |-> 0,
         reply |-> "none", outcome |-> "none", raised |-> "none",
         deadline |-> Never, window |-> Never, backoff |-> 1, wake |-> Never,
         sentAt |-> 0, status |-> "none", streak |-> 0, ended |-> Never]

Become(c, new) == caller' = [caller EXCEPT ![c] = new]


----------------------------------------------------------------------------
(* The end of a call.                                                      *)

End(w, outcome, raised) ==
  [w EXCEPT !.phase = "done", !.outcome = outcome, !.raised = raised, !.ended = now]

Finish(c, outcome, raised) == Become(c, End(caller[c], outcome, raised))

Fail(c, outcome) == Finish(c, outcome, Method(c).raises)

\* The HTTP client has a session for each call.
ChannelClosed(c) == closed /\ Method(c).engine # "http"

\* A request on the wire, or an error of the channel that is closed.
Send(c, new) ==
  IF ChannelClosed(c) THEN Finish(c, "closed", "ValueError")
  ELSE Become(c, [new EXCEPT !.phase = "sent", !.sends = @ + 1, !.sentAt = now])

Begin(c) ==
  /\ caller[c].phase = "idle"
  /\ IF Method(c).checks /\ ~scene.good THEN Finish(c, "argument", "ValueError")
     ELSE Send(c, [Idle EXCEPT !.deadline =
                     IF Method(c).engine = "wait" /\ ~Unbounded THEN now + scene.timeout
                     ELSE Never])
  /\ UNCHANGED <<scene, applied, late, first, closed, faults, now>>

----------------------------------------------------------------------------
(* RetryPolicy.run_rpc, run_rpc_async and make_http_call: max_attempts     *)
(* counts the first attempt too, and 0 stands for one.                     *)

\* The errors that the network and the sidecar give to an attempt: a status
\* of gRPC or of HTTP, or "broken" for an exception of the HTTP session.
ErrorsOf(engine) ==
  CASE engine = "http" -> {"busy", "error", "broken"}
    [] engine = "wait" -> {"unavailable", "precondition", "cancelled", "deadline"}
    [] OTHER -> {"unavailable", "deadline", "internal"}

\* retryable_grpc_status_codes and retryable_http_status_codes
Retryable(engine) ==
  CASE engine = "rpc" -> {"unavailable", "deadline"}
    [] engine = "http" -> {"busy"}
    [] OTHER -> {}

LastAttempt(attempt) ==
  scene.attempts # -1 /\ (scene.attempts = 0 \/ attempt = scene.attempts - 1)

\* A slip: the loop ends without an exception.
GiveUpSilently(c, code) == Finish(c, "value", "none")
GiveUp(c, code) ==
  Finish(c, "failed", IF code = "broken" THEN "ClientError" ELSE Method(c).raises)

PolicyFails(c, code) ==
  IF code \in Retryable(Method(c).engine) /\ ~LastAttempt(caller[c].attempt)
  THEN Become(c, [caller[c] EXCEPT !.phase = "sleeping", !.lost = @ + 1])
  ELSE GiveUp(c, code)

\* The next attempt, after the sleep.
PolicyRetries(c) ==
  /\ caller[c].phase = "sleeping" /\ Method(c).engine # "wait"
  /\ Send(c, [caller[c] EXCEPT !.attempt = @ + 1])
  /\ UNCHANGED <<scene, applied, late, first, closed, faults, now>>

----------------------------------------------------------------------------
(* _call_with_transient_retry, of a wait for the start or the completion   *)
(* of a workflow.                                                          *)

Least(S) == CHOOSE x \in S : \A y \in S : x <= y

TransientRpcCodes == {"unavailable", "precondition"}

\* A slip: the sleep is not cut to what is left of the timeout.
SleepForUncut(w, window) == w.backoff
SleepFor(w, window) ==
  Least({w.backoff}
        \cup (IF w.deadline = Never THEN {} ELSE {w.deadline - now})
        \cup (IF window = Never THEN {} ELSE {window - now}))

\* The first transient error of an unbounded wait opens the window.
OpenWindow(w) ==
  IF Unbounded /\ w.window = Never THEN now + Window ELSE w.window

\* The failures since the last call that was waiting for a while.
Streak(w) == IF w.sentAt < now \/ w.window = Never THEN now ELSE w.streak

\* DEADLINE_EXCEEDED is a timeout whoever sent it; CANCELLED is one when there
\* is no time left.
WaitFails(c, code) ==
  LET w == [caller[c] EXCEPT !.status = code]
      spent == w.deadline # Never /\ now >= w.deadline
      timeout == End(w, "timeout", "TimeoutError")
  IN IF code = "deadline" \/ (code = "cancelled" /\ spent) THEN Become(c, timeout)
     ELSE IF code \notin TransientRpcCodes THEN Become(c, End(w, "failed", Method(c).raises))
     ELSE IF Unbounded /\ w.window # Never /\ now >= w.window
     THEN Become(c, End([w EXCEPT !.streak = Streak(w)], "transient", "RpcError"))
     ELSE IF spent THEN Become(c, timeout)
     ELSE LET window == OpenWindow(w) IN
          Become(c, [w EXCEPT !.phase = "sleeping", !.lost = @ + 1,
                              !.window = window, !.streak = Streak(w),
                              !.wake = now + SleepFor(w, window),
                              !.backoff = Least({2 * @, BackoffCap})])

\* After the sleep a call is made with what is left of the timeout.
WaitRetries(c) ==
  /\ caller[c].phase = "sleeping" /\ Method(c).engine = "wait" /\ now >= caller[c].wake
  /\ IF caller[c].deadline # Never /\ now >= caller[c].deadline
     THEN Finish(c, "timeout", "TimeoutError")
     ELSE Send(c, caller[c])
  /\ UNCHANGED <<scene, applied, late, first, closed, faults, now>>

\* The deadline of a call on the wire: what is left of the timeout, or the
\* limit that DaprClientTimeoutInterceptor gives to a call without one.
CallDeadline(c) ==
  IF Method(c).engine # "wait" THEN Never
  ELSE IF ~Unbounded THEN caller[c].deadline
  ELSE IF scene.limit # 0 THEN caller[c].sentAt + scene.limit ELSE Never

\* DEADLINE_EXCEEDED, from the deadline that the call was given.
WaitExpires(c) ==
  /\ caller[c].phase \in {"sent", "served"}
  /\ CallDeadline(c) # Never /\ now >= CallDeadline(c)
  /\ IF Unbounded THEN WaitFails(c, "deadline") ELSE Finish(c, "timeout", "TimeoutError")
  /\ UNCHANGED <<scene, applied, late, first, closed, faults, now>>

----------------------------------------------------------------------------
(* What the sidecar (external) does with a request, and its reply.         *)

Execute(c) ==
  IF Method(c).effect = "read" \/ (Method(c).effect = "once" /\ first # Nobody)
  THEN UNCHANGED <<applied, first>>
  ELSE /\ applied' = [applied EXCEPT ![c] = @ + 1]
       /\ first' = IF Method(c).effect = "once" THEN {c} ELSE first

ReplyTo(c) ==
  IF scene.bare /\ ~caller[c].alpha THEN "unimplemented"
  ELSE IF ~scene.good THEN "invalid"
  ELSE IF Method(c).effect = "once" /\ first # Nobody THEN "refused" ELSE "ok"

----------------------------------------------------------------------------
(* The reply of the sidecar.                                               *)

Replied(c) ==
  LET w == caller[c]  m == Method(c) IN
  /\ w.phase = "served"
  /\ CASE w.reply = "ok" -> Finish(c, "value", "none")
       [] w.reply = "refused" /\ m.softly -> Finish(c, "refused", "none")
       [] w.reply = "refused" /\ ~m.softly -> Fail(c, "refused")
       [] w.reply = "unimplemented" /\ m.alpha /\ ~w.alpha ->
            Send(c, [w EXCEPT !.alpha = TRUE, !.attempt = 0])
       [] OTHER -> Fail(c, "failed")
  /\ UNCHANGED <<scene, applied, late, first, closed, faults, now>>

\* An attempt fails, before or after the sidecar has executed it.  A request
\* that has not been executed may still be.
Fails(c) ==
  /\ caller[c].phase \in {"sent", "served"}
  /\ faults < scene.faults /\ faults' = faults + 1
  /\ \E code \in ErrorsOf(Method(c).engine) :
       IF Method(c).engine = "wait" THEN WaitFails(c, code) ELSE PolicyFails(c, code)
  /\ \/ UNCHANGED late
     \/ /\ caller[c].phase = "sent" /\ ReplyTo(c) \in {"ok", "refused"}
        /\ late' = [late EXCEPT ![c] = @ + 1]
  /\ UNCHANGED <<scene, applied, first, closed, now>>

\* close(): what is on the wire fails with CANCELLED, which no policy
\* retries; a sleeper finds the channel closed when it wakes up.
Close ==
  /\ scene.closes /\ ~closed /\ closed' = TRUE
  /\ caller' = [c \in Callers |->
       IF caller[c].phase \in {"sent", "served"} /\ Method(c).engine # "http"
       THEN [caller[c] EXCEPT !.phase = "done", !.outcome = "closed",
                              !.raised = Method(c).raises, !.ended = now]
       ELSE caller[c]]
  /\ UNCHANGED <<scene, applied, late, first, faults, now>>

----------------------------------------------------------------------------
(* The sidecar and the clock (external).                                   *)

Serve(c) ==
  /\ caller[c].phase = "sent"
  /\ Become(c, [caller[c] EXCEPT !.phase = "served", !.reply = ReplyTo(c)])
  /\ IF ReplyTo(c) = "ok" THEN Execute(c) ELSE UNCHANGED <<applied, first>>
  /\ UNCHANGED <<scene, late, closed, faults, now>>

ServeLate(c) ==
  /\ late[c] > 0 /\ late' = [late EXCEPT ![c] = @ - 1]
  /\ Execute(c)
  /\ UNCHANGED <<scene, caller, closed, faults, now>>

\* Time passes while a wait is on the wire, up to the bound, or asleep, but
\* not past what it waits for.
Tick ==
  /\ \E c \in Present :
       /\ Method(c).engine = "wait"
       /\ caller[c].phase = "sleeping" \/ (caller[c].phase = "sent" /\ now < Horizon)
  /\ \A c \in Present :
       /\ caller[c].phase = "sleeping" => caller[c].wake # now
       /\ caller[c].phase \in {"sent", "served"} => CallDeadline(c) # now
  /\ now' = now + 1
  /\ UNCHANGED <<scene, caller, applied, late, first, closed, faults>>

----------------------------------------------------------------------------
CallsInit ==
  /\ scene \in Scenes
  /\ caller = [c \in Callers |-> Idle]
  /\ applied = [c \in Callers |-> 0] /\ late = [c \in Callers |-> 0] /\ first = Nobody
  /\ closed = FALSE /\ faults = 0 /\ now = 0

Step(c) == Begin(c) \/ PolicyRetries(c) \/ WaitRetries(c) \/ WaitExpires(c) \/ Replied(c) \/ Serve(c)
CallsNext ==
  \/ \E c \in Present : Step(c) \/ Fails(c) \/ ServeLate(c)
  \/ Close \/ Tick

CallsSpec == CallsInit /\ [][CallsNext]_callsVars

----------------------------------------------------------------------------
(* Properties.                                                             *)

Tries == IF scene.attempts = 0 THEN 1 ELSE scene.attempts

\* The sidecar sees a call no more often than the policy allows, for each of
\* its two APIs; and a call that nobody retries has its effect at most once.
WithinPolicy ==
  \A c \in Present :
    LET m == Method(c)  w == caller[c] IN
    /\ m.engine \in {"rpc", "http"} /\ scene.attempts # -1 =>
         w.sends <= Tries * (IF m.alpha THEN 2 ELSE 1)
    /\ m.engine = "single" => applied[c] <= 1

\* What the caller is told is true: a value means that the call had its
\* effect; a refusal means that it had none, unless an attempt of it was
\* lost on the way; and a call that was refused for its arguments, or given
\* up on a closed client before its first request, had none.
Honest ==
  \A c \in Present :
    LET m == Method(c)  w == caller[c] IN
    /\ w.outcome = "value" /\ m.effect # "read" =>
         applied[c] > 0
    /\ w.outcome = "refused" /\ w.lost = 0 => c \notin first
    /\ w.sends = 0 => applied[c] = 0

\* A wait with a timeout ends by then.  It says TimeoutError at its deadline,
\* and earlier or without one only when a call got a DEADLINE_EXCEEDED that is
\* not the caller's: of the sidecar, or of the limit of the interceptor.  It
\* says CANCELLED only while it has time left.  A wait without a timeout
\* reports a transient error only when the window that the first of them
\* opened is over.
WaitKept ==
  \A c \in Present :
    LET w == caller[c] IN
    w.phase = "done" /\ Method(c).engine = "wait" =>
      /\ w.deadline # Never => w.ended <= w.deadline
      /\ w.outcome = "timeout" => w.ended = w.deadline \/ w.status = "deadline"
      /\ w.outcome = "failed" /\ w.status = "cancelled" =>
           w.deadline = Never \/ w.ended < w.deadline
      /\ w.outcome = "transient" => w.deadline = Never /\ w.ended >= w.window

\* Nobody is kept longer, or sends more, than was agreed.
InLimits == WithinPolicy /\ WaitKept

\* "Bound how long we keep retrying consecutive transient errors": a wait
\* without a timeout gives up only when its calls have failed, one after the
\* other, for as long as the window.
GivesUpAfterWindow ==
  \A c \in Present :
    caller[c].outcome = "transient" => caller[c].ended - caller[c].streak >= Window

\* "Defaults to 0 seconds, meaning no timeout": a wait that was given none does
\* not end with TimeoutError.
NoTimeoutUnasked ==
  \A c \in Present : caller[c].outcome = "timeout" => ~Unbounded
=============================================================================
