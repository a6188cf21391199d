---------------------------- MODULE Orchestrator ----------------------------
(***************************************************************************)
(* One workflow instance: the replaying executor of _durabletask/worker.py *)
(* (_RuntimeOrchestrationContext, _OrchestrationExecutor) driven by the    *)
(* sidecar, which keeps the history and dispatches turns.                  *)
(*                                                                         *)
(* A turn is one call of execute(): a fresh context replays the committed  *)
(* history and then handles the new events.  Its steps are those of the    *)
(* code: take an event, climb the composites, resume the generator, run    *)
(* it to its next yield.  The workflow function is a program: a sequence   *)
(* of instructions over registers that hold the tasks it created.          *)
(*                                                                         *)
(* The sidecar is external.  It confirms the actions of a turn after the   *)
(* new events of that turn, delivers completions in any order and possibly *)
(* twice, and dispatches a turn again when its response is lost.           *)
(***************************************************************************)
EXTENDS TaskObjects

CONSTANTS
  Scenes,         \* what is run: a program and what may happen to it
  Names           \* the external event names

(* A scene bounds how often a kind of thing happens:                       *)
(*   prog         the workflow function                                    *)
(*   raises       external events raised by clients, per name              *)
(*   failures     failed attempts                                          *)
(*   duplicates   completions delivered twice                              *)
(*   losses       turns whose response is lost                             *)
(*   suspends     suspend requests, and resume requests                    *)
(*   terminates   terminate requests                                       *)
(*   generations  continue-as-new executions                               *)
(*   history      events in the history when a turn is dispatched          *)
(* and says whether                                                        *)
(*   careful      clients suspend and resume in turns                      *)
(*   upgrade      the first turns run on the code from before an upgrade:  *)
(*                no optional timers, and no patched branches              *)
(*   falsy        which payloads Python treats as false (0, "", [] ...)    *)
Bounds == {"raises", "failures", "duplicates", "losses", "suspends", "terminates",
           "generations", "history"}

(* The instructions of a workflow function.  A register is the number of   *)
(* the call whose task it holds; a handler of 0 is no handler.             *)
Instructions ==
  [op: {"schedule"}, kind: {"activity", "child", "timer"}, name: STRING, max: Nat]
  \cup [op: {"wait"}, name: Names, timeout: {"none", "zero", "limit"}]
  \cup [op: {"all", "any"}, of: Seq(Nat)]
  \cup [op: {"yield"}, of: Nat, handler: Nat]
  \cup [op: {"patched"}, name: STRING, otherwise: Nat]
  \cup [op: {"continue"}, save: BOOLEAN]
  \cup [op: {"return"}]

ASSUME OrchestratorAssumption ==
  /\ IsFiniteSet(Names) /\ Names \subseteq STRING
  /\ \A s \in Scenes :
       /\ s.prog \in Seq(Instructions)
       /\ \A b \in Bounds : s[b] \in Nat
       /\ {s.careful, s.upgrade} \subseteq BOOLEAN

VARIABLES
  scene,          \* the scene of this instance, fixed
  ctx,            \* _RuntimeOrchestrationContext of the running turn
  retry,          \* RetryableTask data and TimerTask._retryable_parent
  mode,           \* where execute() is: idle, event, resume, run, done
  pos,            \* number of events of hist \o batch taken so far
  suspended, buffer, drain,   \* _is_suspended, _suspended_events, loop index
  hist, inbox, batch, out, status, sdk,                        \* sidecar
  last,           \* history variable: the context at the last commit
  used            \* how much of each bound has been used

turnVars == <<tasks, notify, ctx, retry, mode, pos, suspended, buffer, drain>>
sidecarVars == <<hist, inbox, batch, out, status, sdk, last, used>>
vars == <<scene, turnVars, sidecarVars>>

prog == scene.prog

----------------------------------------------------------------------------
(* Instructions of a workflow function.                                    *)

Activity(name, max) == [op |-> "schedule", kind |-> "activity", name |-> name, max |-> max]
Child(name, max) == [op |-> "schedule", kind |-> "child", name |-> name, max |-> max]
Timer == [op |-> "schedule", kind |-> "timer", name |-> "timer", max |-> 0]
WaitFor(name, timeout) == [op |-> "wait", name |-> name, timeout |-> timeout]
All(regs) == [op |-> "all", of |-> regs]
Any(regs) == [op |-> "any", of |-> regs]
Yield(reg, handler) == [op |-> "yield", of |-> reg, handler |-> handler]
IfPatched(name, otherwise) == [op |-> "patched", name |-> name, otherwise |-> otherwise]
ContinueAsNew(save) == [op |-> "continue", save |-> save]
Return == [op |-> "return"]

----------------------------------------------------------------------------
(* History events, actions, the context.                                   *)

Event(type, id, name, val) ==
  [type |-> type, id |-> id, name |-> name, val |-> val, patches |-> {}]

Action(id, kind, name) == [id |-> id, kind |-> kind, name |-> name]

NewContext ==
  [gen |-> "none", pc |-> 0, prev |-> NoTask, env |-> <<>>, seen |-> <<>>,
   seq |-> 0, acts |-> {}, ptasks |-> {},
   recv |-> [n \in Names |-> <<>>], wait |-> [n \in Names |-> <<>>],
   got |-> [n \in Names |-> <<>>],
   status |-> "running", error |-> "none", save |-> FALSE,
   hpatch |-> {}, apatch |-> {}, unpatch |-> {}, epatch |-> {}]

NoRetry == [max |-> 0, attempt |-> 1, owner |-> NoTask, kind |-> "none", name |-> "none"]

\* next_sequence_number, the pending action and the task it will complete
Scheduled(c, kind, name, t) ==
  [c EXCEPT !.seq = @ + 1,
            !.acts = @ \cup {Action(c.seq + 1, kind, name)},
            !.ptasks = @ \cup {[id |-> c.seq + 1, task |-> t]}]

\* set_complete and set_failed: the completion action replaces the others
SetComplete(c, st) ==
  IF c.status # "running" THEN c
  ELSE [c EXCEPT !.status = st, !.seq = @ + 1,
                 !.acts = {Action(c.seq + 1, "complete", st)}]

SetFailed(c, why) == [SetComplete(c, "failed") EXCEPT !.error = why]

SetContinuedAsNew(c, save) ==
  IF c.status # "running" THEN c
  ELSE [c EXCEPT !.status = "continued", !.acts = {}, !.save = save]

GetActions(c) ==
  IF c.status = "continued" THEN {Action(c.seq + 1, "complete", "continued")}
  ELSE c.acts

IsOptionalTimer(a) == a.kind = "timer" /\ a.name = "optional"

PendingAt(c, id) == {a \in c.acts : a.id = id}

\* A slip: the ids above the dropped one stay where they are.
DropOptionalNoShift(c, id) ==
  [c EXCEPT !.acts = {a \in @ : a.id # id}, !.ptasks = {p \in @ : p.id # id}]

\* _drop_optional_pending_at
DropOptional(c, id) ==
  LET down(x) == IF x.id > id THEN [x EXCEPT !.id = @ - 1] ELSE x
  IN [c EXCEPT !.seq = @ - 1,
               !.acts = {down(a) : a \in {b \in c.acts : b.id # id}},
               !.ptasks = {down(p) : p \in {q \in c.ptasks : q.id # id}}]

\* _pending_tasks.pop(id): the task (NoTask if none), and the rest.
TaskAt(id) ==
  IF \E p \in ctx.ptasks : p.id = id
  THEN (CHOOSE p \in ctx.ptasks : p.id = id).task ELSE NoTask

Popped(id) == [ctx EXCEPT !.ptasks = {p \in @ : p.id # id}]

----------------------------------------------------------------------------
(* process_event                                                           *)

Events == hist \o batch
Draining == drain > 0
Replaying == pos <= Len(hist)

\* The next event: of the buffer while a resume drains it, else of the turn.
HasEvent == IF Draining THEN drain <= Len(buffer) ELSE pos < Len(Events)
Current == IF Draining THEN buffer[drain] ELSE Events[pos + 1]

\* A slip: external events are let through.
SuspendableButEvents(e) ==
  e.type \notin {"executionResumed", "executionTerminated", "eventRaised"}

\* _is_suspendable
Suspendable(e) == e.type \notin {"executionResumed", "executionTerminated"}

AtEvent == mode = "event" /\ notify = NoTask

Take ==
  IF Draining THEN drain' = drain + 1 /\ UNCHANGED pos
  ELSE pos' = pos + 1 /\ UNCHANGED drain

BufferEvent ==
  /\ AtEvent /\ HasEvent /\ suspended /\ Suspendable(Current)
  /\ buffer' = Append(buffer, Current)
  /\ Take
  /\ UNCHANGED <<tasks, notify, ctx, retry, mode, suspended>>

\* The handler of an event that is not held back.
On(types) ==
  /\ AtEvent /\ HasEvent /\ ~(suspended /\ Suspendable(Current))
  /\ Current.type \in types
  /\ Take

OnWorkflowStarted ==
  /\ On({"workflowStarted"})
  /\ ctx' = [ctx EXCEPT !.hpatch = @ \cup Current.patches]
  /\ UNCHANGED <<tasks, notify, retry, mode, suspended, buffer>>

\* fn(ctx, input) and ctx.run up to the first yield
OnExecutionStarted ==
  /\ On({"executionStarted"})
  /\ ctx' = [ctx EXCEPT !.gen = "live", !.pc = 1]
  /\ mode' = "run"
  /\ UNCHANGED <<tasks, notify, retry, suspended, buffer>>

\* An exception that process_event does not handle ends the turn.
FailTurn(c, why) == ctx' = SetFailed(c, why) /\ mode' = "done"

KindOf(type) ==
  CASE type = "taskScheduled" -> "activity"
    [] type = "childWorkflowInstanceCreated" -> "child"
    [] type = "timerCreated" -> "timer"

IsOptionalEvent(e) == e.type = "timerCreated" /\ e.name = "optional"

Matches(a, e) ==
  a.kind = KindOf(e.type) /\ (a.kind = "timer" \/ a.name = e.name)

\* Slips: the confirmed action stays pending; its task is popped with it.
ConfirmedKept(c, id) == c
ConfirmedWithTask(c, id) ==
  [c EXCEPT !.acts = @ \ PendingAt(c, id), !.ptasks = {p \in @ : p.id # id}]

Confirmed(c, id) == [c EXCEPT !.acts = @ \ PendingAt(c, id)]

\* timerCreated, taskScheduled and childWorkflowInstanceCreated confirm an
\* action, so that it is not scheduled again.  An optional timer that an
\* older SDK did not create is dropped; one that the program no longer
\* creates is ignored.
OnConfirmed ==
  /\ On({"taskScheduled", "childWorkflowInstanceCreated", "timerCreated"})
  /\ LET e == Current
         stale == \E a \in PendingAt(ctx, e.id) : IsOptionalTimer(a)
         c == IF stale /\ ~IsOptionalEvent(e) THEN DropOptional(ctx, e.id) ELSE ctx
         pending == PendingAt(c, e.id)
     IN IF IsOptionalEvent(e) /\ ~\E a \in pending : IsOptionalTimer(a)
        THEN UNCHANGED <<ctx, mode>>
        ELSE IF \E a \in pending : Matches(a, e)
        THEN ctx' = Confirmed(c, e.id) /\ UNCHANGED mode
        ELSE FailTurn(c, "nondeterminism")
  /\ UNCHANGED <<tasks, notify, retry, suspended, buffer>>

\* A completion for an id that no task waits for is ignored.
OnUnexpected ==
  /\ On({"timerFired", "taskCompleted", "taskFailed",
         "childWorkflowInstanceCompleted", "childWorkflowInstanceFailed"})
  /\ TaskAt(Current.id) = NoTask
  /\ UNCHANGED <<tasks, notify, ctx, retry, mode, suspended, buffer>>

OnCompleted ==
  /\ On({"taskCompleted", "childWorkflowInstanceCompleted"})
  /\ TaskAt(Current.id) # NoTask
  /\ Complete(TaskAt(Current.id), Current.val)
  /\ ctx' = Popped(Current.id)
  /\ mode' = "resume"
  /\ UNCHANGED <<retry, suspended, buffer>>

\* A slip: one attempt too many.
HasAttemptLeftOffByOne(r) == r.attempt <= r.max

\* compute_next_delay, without a retry timeout: an attempt is left.
HasAttemptLeft(r) == r.attempt < r.max

\* taskFailed and childWorkflowInstanceFailed: a retryable task goes to a
\* retry timer, with no resume; any other failure reaches the program.
OnFailed ==
  /\ On({"taskFailed", "childWorkflowInstanceFailed"})
  /\ TaskAt(Current.id) # NoTask
  /\ LET t == TaskAt(Current.id)
     IN IF retry[t].max > 0 /\ Current.name # "fatal" /\ HasAttemptLeft(retry[t])
        THEN \E u \in TaskId :
               /\ Fresh(u)
               /\ tasks' = [tasks EXCEPT ![u] = NewTask("inner", <<>>)]
               /\ retry' = [retry EXCEPT ![t].attempt = @ + 1, ![u].owner = t]
               /\ ctx' = Scheduled(Popped(Current.id), "timer", "retry", u)
               /\ UNCHANGED <<notify, mode>>
        ELSE /\ Fail(t)
             /\ ctx' = Popped(Current.id)
             /\ mode' = "resume"
             /\ UNCHANGED retry
  /\ UNCHANGED <<suspended, buffer>>

OnTimerFired ==
  /\ On({"timerFired"})
  /\ TaskAt(Current.id) # NoTask
  /\ LET t == TaskAt(Current.id)
         owner == retry[t].owner
     IN /\ Complete(t, 0)
        /\ IF owner # NoTask
           THEN /\ ctx' = Scheduled(Popped(Current.id), retry[owner].kind,
                                    retry[owner].name, owner)
                /\ UNCHANGED mode
           ELSE ctx' = Popped(Current.id) /\ mode' = "resume"
  /\ UNCHANGED <<retry, suspended, buffer>>

OnEventRaised ==
  /\ On({"eventRaised"})
  /\ LET n == Current.name
         waiters == ctx.wait[n]
     IN IF waiters # <<>>
        THEN /\ Complete(Head(waiters), Current.val)
             /\ ctx' = [ctx EXCEPT !.wait[n] = Tail(@),
                                   !.got[n] = Append(@, Current.val)]
             /\ mode' = "resume"
        ELSE /\ ctx' = [ctx EXCEPT !.recv[n] = Append(@, Current.val)]
             /\ UNCHANGED <<tasks, notify, mode>>
  /\ UNCHANGED <<retry, suspended, buffer>>

OnSuspended ==
  /\ On({"executionSuspended"})
  /\ suspended' = TRUE
  /\ UNCHANGED <<tasks, notify, ctx, retry, mode, buffer>>

\* executionResumed starts the loop over _suspended_events.  Without a
\* suspension it falls through to the branch for unknown events.
OnResumed ==
  /\ AtEvent /\ HasEvent /\ Current.type = "executionResumed"
  /\ IF suspended
     THEN /\ suspended' = FALSE /\ drain' = 1 /\ pos' = pos + 1
          /\ UNCHANGED <<ctx, mode>>
     ELSE FailTurn(ctx, "unknown event") /\ Take /\ UNCHANGED suspended
  /\ UNCHANGED <<tasks, notify, retry, buffer>>

\* The loop is over: _suspended_events = []
EndDrain ==
  /\ AtEvent /\ Draining /\ ~HasEvent
  /\ drain' = 0 /\ buffer' = <<>>
  /\ UNCHANGED <<tasks, notify, ctx, retry, mode, pos, suspended>>

OnTerminated ==
  /\ On({"executionTerminated"})
  /\ ctx' = SetComplete(ctx, "terminated")
  /\ UNCHANGED <<tasks, notify, retry, mode, suspended, buffer>>

EndTurn ==
  /\ AtEvent /\ ~Draining /\ ~HasEvent
  /\ mode' = "done"
  /\ UNCHANGED <<tasks, notify, ctx, retry, pos, suspended, buffer, drain>>

----------------------------------------------------------------------------
(* The composites and the generator.                                       *)

\* A slip: the waiter of a timed out wait stays registered.
HopKeepingWaiter ==
  /\ mode = "resume"
  /\ OnChildCompleted
  /\ UNCHANGED <<ctx, retry, mode, pos, suspended, buffer, drain>>

\* The list s after `if t in s: s.remove(t)'.
Without(s, t) ==
  IF t \notin Members(s) THEN s
  ELSE LET first == CHOOSE i \in DOMAIN s : s[i] = t /\ \A j \in 1 .. i - 1 : s[j] # t
       IN SubSeq(s, 1, first - 1) \o SubSeq(s, first + 1, Len(s))

\* One hop of a completion, with _unregister_stale_event_task.
Hop ==
  /\ mode = "resume"
  /\ OnChildCompleted
  /\ ctx' = [ctx EXCEPT !.wait = [n \in Names |-> Without(@[n], TimedOutWaiter)]]
  /\ UNCHANGED <<retry, mode, pos, suspended, buffer, drain>>

\* What the program does next; a function returns at its end.
Instruction == IF ctx.pc \in DOMAIN prog THEN prog[ctx.pc] ELSE Return

\* _previous_task is there and complete.
Ready == ctx.prev # NoTask /\ IsComplete(ctx.prev)
Returns == mode = "resume" /\ notify = NoTask /\ Ready

\* resume: what the generator awaits is not complete yet.
StayYielded ==
  /\ mode = "resume" /\ notify = NoTask /\ ~Ready
  /\ mode' = "event"
  /\ UNCHANGED <<tasks, notify, ctx, retry, pos, suspended, buffer, drain>>

\* send() or throw() into the generator: the program goes on after the
\* yield, in the handler of a failure, or fails with it.
ResumeGenerator ==
  /\ Returns /\ ctx.gen = "live"
  /\ LET t == ctx.prev
         failed == IsFailed(t)
         handler == Instruction.handler
         c == [ctx EXCEPT !.seen = Append(@, <<tasks[t].out, tasks[t].val>>)]
     IN IF failed /\ handler = 0
        THEN FailTurn([c EXCEPT !.gen = "done"], "exception")
        ELSE /\ ctx' = [c EXCEPT !.pc = IF failed THEN handler ELSE @ + 1]
             /\ mode' = "run"
  /\ UNCHANGED <<tasks, notify, retry, pos, suspended, buffer, drain>>

\* A generator that has returned raises StopIteration again, which changes
\* nothing; throw() hands the exception back, and that ends the turn.
ResumeFinished ==
  /\ Returns /\ ctx.gen = "done"
  /\ IF IsFailed(ctx.prev) THEN FailTurn(ctx, "exception")
     ELSE mode' = "event" /\ UNCHANGED ctx
  /\ UNCHANGED <<tasks, notify, retry, pos, suspended, buffer, drain>>

----------------------------------------------------------------------------
(* What the workflow function calls, between two yields.                   *)

AtInstruction(op) == mode = "run" /\ Instruction.op = op

\* The context after an instruction that put task t in the next register.
Assigned(t) == [ctx EXCEPT !.pc = @ + 1, !.env = Append(@, t)]

\* call_activity, call_sub_orchestrator and create_timer
RunSchedule ==
  /\ AtInstruction("schedule")
  /\ \E t \in TaskId :
       /\ Fresh(t)
       /\ tasks' = [tasks EXCEPT ![t] = NewTask("leaf", <<>>)]
       /\ retry' = [retry EXCEPT ![t] = [NoRetry EXCEPT
            !.max = Instruction.max, !.kind = Instruction.kind, !.name = Instruction.name]]
       /\ ctx' = Scheduled(Assigned(t), Instruction.kind, Instruction.name, t)
  /\ UNCHANGED <<notify, mode, pos, suspended, buffer, drain>>

\* wait_for_external_event that returns a complete task: the oldest event
\* that was buffered, or a cancellation for a timeout of zero.
RunWaitNow ==
  /\ AtInstruction("wait")
  /\ LET n == Instruction.name
         ready == ctx.recv[n] # <<>>
     IN \E t \in TaskId :
          /\ ready \/ Instruction.timeout = "zero"
          /\ Fresh(t)
          /\ IF ready
             THEN /\ tasks' = [tasks EXCEPT ![t] =
                                 Completed(NewTask("leaf", <<>>), Head(ctx.recv[n]))]
                  /\ ctx' = [Assigned(t) EXCEPT !.recv[n] = Tail(@),
                               !.got[n] = Append(@, Head(ctx.recv[n]))]
             ELSE /\ tasks' = [tasks EXCEPT ![t] = Failed(NewTask("leaf", <<>>), t)]
                  /\ ctx' = Assigned(t)
  /\ UNCHANGED <<notify, retry, mode, pos, suspended, buffer, drain>>

\* A slip: the events received so far are not looked at.
RegistersBlindly(i) == i.timeout # "zero"

\* No event of this name is buffered: the wait has to be registered.
Registers(i) == i.timeout # "zero" /\ ctx.recv[i.name] = <<>>

\* wait_for_external_event that registers a waiter and its timer, which is
\* optional when the wait is indefinite.
RunWait ==
  /\ AtInstruction("wait")
  /\ sdk = "new" \/ Instruction.timeout = "limit"
  /\ Registers(Instruction)
  /\ \E e \in TaskId :
       /\ e + 2 \in TaskId /\ EventWithTimeout(e, e + 1, e + 2)
       /\ ctx' = Scheduled([Assigned(e + 2) EXCEPT !.wait[Instruction.name] = Append(@, e)],
                 "timer", IF Instruction.timeout = "none" THEN "optional" ELSE "event", e + 1)
  /\ UNCHANGED <<notify, retry, mode, pos, suspended, buffer, drain>>

\* The indefinite wait before the upgrade: a waiter, and no timer.
RunWaitBeforeUpgrade ==
  /\ AtInstruction("wait")
  /\ sdk = "old" /\ Instruction.timeout = "none"
  /\ Registers(Instruction)
  /\ \E t \in TaskId :
       /\ Fresh(t)
       /\ tasks' = [tasks EXCEPT ![t] = NewTask("leaf", <<>>)]
       /\ ctx' = [Assigned(t) EXCEPT !.wait[Instruction.name] = Append(@, t)]
  /\ UNCHANGED <<notify, retry, mode, pos, suspended, buffer, drain>>

Assigns(regs) == regs \subseteq DOMAIN ctx.env

\* An exception in the program, which nothing there handles.
Raises == FailTurn([ctx EXCEPT !.gen = "done"], "exception")

\* when_all and when_any; ValueError, or a register that holds no task yet,
\* fails the workflow.
RunCompose ==
  /\ mode = "run" /\ Instruction.op \in {"all", "any"}
  /\ LET s == [i \in DOMAIN Instruction.of |-> ctx.env[Instruction.of[i]]]
     IN IF Assigns(Members(Instruction.of)) /\ Adoptable(s)
        THEN \E c \in TaskId :
               /\ IF Instruction.op = "all" THEN WhenAll(c, s) ELSE WhenAny(c, s)
               /\ ctx' = Assigned(c)
               /\ UNCHANGED mode
        ELSE Raises /\ UNCHANGED tasks
  /\ UNCHANGED <<notify, retry, pos, suspended, buffer, drain>>

\* A slip: a task that is complete when it is yielded is not noticed.
RunYieldAsleep ==
  /\ AtInstruction("yield")
  /\ ctx' = [ctx EXCEPT !.prev = ctx.env[Instruction.of]]
  /\ mode' = "event"
  /\ UNCHANGED <<tasks, notify, retry, pos, suspended, buffer, drain>>

\* The yield, after which the loop of resume (or run) looks at the task.
RunYield ==
  /\ AtInstruction("yield")
  /\ IF Assigns({Instruction.of})
     THEN ctx' = [ctx EXCEPT !.prev = ctx.env[Instruction.of]] /\ mode' = "resume"
     ELSE Raises
  /\ UNCHANGED <<tasks, notify, retry, pos, suspended, buffer, drain>>

\* _is_patched: an earlier answer stands; else the patch is in the history
\* read so far, or this is new work.
IsPatched(c, p) ==
  p \in c.apatch \/ (p \notin c.unpatch /\ (p \in c.hpatch \/ ~Replaying))

RunIfPatched ==
  /\ AtInstruction("patched")
  /\ LET p == Instruction.name
     IN IF sdk = "old" THEN ctx' = [ctx EXCEPT !.pc = Instruction.otherwise]
        ELSE IF IsPatched(ctx, p)
        THEN ctx' = [ctx EXCEPT !.pc = @ + 1, !.apatch = @ \cup {p}, !.epatch = @ \cup {p}]
        ELSE ctx' = [ctx EXCEPT !.pc = Instruction.otherwise, !.unpatch = @ \cup {p}]
  /\ UNCHANGED <<tasks, notify, retry, mode, pos, suspended, buffer, drain>>

RunContinueAsNew ==
  /\ AtInstruction("continue")
  /\ ctx' = [SetContinuedAsNew(ctx, Instruction.save) EXCEPT !.pc = @ + 1]
  /\ UNCHANGED <<tasks, notify, retry, mode, pos, suspended, buffer, drain>>

\* StopIteration
RunReturn ==
  /\ AtInstruction("return")
  /\ ctx' = SetComplete([ctx EXCEPT !.gen = "done"], "completed")
  /\ mode' = "event"
  /\ UNCHANGED <<tasks, notify, retry, pos, suspended, buffer, drain>>

----------------------------------------------------------------------------
(* The sidecar and the clients.  A worker takes no step of its own between *)
(* two turns, and nothing of a turn but its response outlives it.          *)

\* The next turn has a new context and a new executor.
NoTurn ==
  /\ ctx' = NewContext
  /\ tasks' = [t \in TaskId |-> Free] /\ notify' = NoTask
  /\ retry' = [t \in TaskId |-> NoRetry]
  /\ pos' = 0 /\ suspended' = FALSE /\ buffer' = <<>> /\ drain' = 0

Idle == mode = "idle" /\ status = "running"

Dispatch ==
  /\ Idle /\ inbox # <<>> /\ Len(hist) < scene.history
  /\ batch' = <<Event("workflowStarted", 0, "none", 0)>> \o inbox
  /\ inbox' = <<>>
  /\ mode' = "event"
  /\ UNCHANGED <<tasks, notify, ctx, retry, pos, suspended, buffer, drain,
                 hist, out, status, sdk, last, used>>

\* The event that records an action in the history.
Confirmation(a) ==
  Event(CASE a.kind = "activity" -> "taskScheduled"
          [] a.kind = "child" -> "childWorkflowInstanceCreated"
          [] a.kind = "timer" -> "timerCreated", a.id, a.name, 0)

\* The members of a set of actions in the order of their ids.
ById(A) ==
  {s \in [1 .. Cardinality(A) -> A] :
     Members(s) = A /\ \A i, j \in DOMAIN s : i < j => s[i].id < s[j].id}

\* The events of the turn as the sidecar stores them.
Recorded ==
  [i \in DOMAIN batch |->
     IF batch[i].type = "workflowStarted"
     THEN [batch[i] EXCEPT !.patches = ctx.epatch] ELSE batch[i]]

Scheduling == {a \in GetActions(ctx) : a.kind # "complete"}

\* What a replay must reproduce of a context.
Snapshot ==
  [pc |-> ctx.pc, prev |-> ctx.prev, env |-> ctx.env, seen |-> ctx.seen,
   seq |-> ctx.seq, ptasks |-> ctx.ptasks, recv |-> ctx.recv, wait |-> ctx.wait,
   got |-> ctx.got, apatch |-> ctx.apatch, tasks |-> tasks, retry |-> retry]

CommitTurn ==
  /\ mode = "done" /\ ctx.status # "continued"
  /\ \E order \in ById(Scheduling) :
       hist' = hist \o Recorded \o [i \in DOMAIN order |-> Confirmation(order[i])]
  /\ out' = out \cup {a \in Scheduling : ~IsOptionalTimer(a)}
  /\ status' = ctx.status
  /\ last' = [last EXCEPT !.snap = <<Snapshot>>]
  /\ batch' = <<>> /\ mode' = "idle" /\ NoTurn
  /\ UNCHANGED <<inbox, sdk, used>>

\* A slip: the carryover is lost.
CarryoverLost(c, n) == <<>>

\* The payloads of event n that get_actions hands to the next generation:
\* `to_json(value) if value else None'.
Carryover(c, n) ==
  IF ~c.save THEN <<>>
  ELSE [i \in DOMAIN c.recv[n] |-> IF c.recv[n][i] \in scene.falsy THEN 0 ELSE c.recv[n][i]]

\* The carryover of all names.  The model does not fix the order of events of
\* different names.
CarriedOver(c) ==
  UNION {{[name |-> n, at |-> i, val |-> Carryover(c, n)[i]] :
            i \in DOMAIN Carryover(c, n)} : n \in Names}

InOrder(A) ==
  {s \in [1 .. Cardinality(A) -> A] :
     /\ Members(s) = A
     /\ \A i, j \in DOMAIN s : i < j /\ s[i].name = s[j].name => s[i].at < s[j].at}

\* get_actions after continue_as_new, and the next execution it starts.
\* Work of the old execution is no longer delivered.
CommitContinued ==
  /\ mode = "done" /\ ctx.status = "continued" /\ used.gen < scene.generations
  /\ \E s \in InOrder(CarriedOver(ctx)) :
       inbox' = <<Event("executionStarted", 0, "none", 0)>>
                \o [i \in DOMAIN s |-> Event("eventRaised", 0, s[i].name, s[i].val)]
                \o inbox
  /\ hist' = <<>> /\ out' = {} /\ batch' = <<>>
  /\ last' = [snap |-> <<>>,
              before |-> [n \in Names |->
                last.before[n] \o ctx.got[n] \o
                IF ctx.save THEN <<>> ELSE ctx.recv[n]]]
  /\ used' = [used EXCEPT !.gen = @ + 1]
  /\ mode' = "idle" /\ NoTurn
  /\ UNCHANGED <<status, sdk>>

\* The response is lost, or the worker died: the events come again.
LoseTurn ==
  /\ mode = "done" /\ used.lost < scene.losses
  /\ used' = [used EXCEPT !.lost = @ + 1]
  /\ inbox' = Tail(batch) \o inbox /\ batch' = <<>>
  /\ mode' = "idle" /\ NoTurn
  /\ UNCHANGED <<hist, out, status, sdk, last>>

\* Between turns only the sidecar's state changes.
Between ==
  Idle /\ UNCHANGED <<turnVars, hist, batch, status, last>>

\* The outcome e of the work a arrives, and may arrive again.
Deliver(a, e, u) ==
  /\ Between
  /\ inbox' = Append(inbox, e)
  /\ \/ out' = out \ {a} /\ used' = u
     \/ /\ u.dup < scene.duplicates
        /\ used' = [u EXCEPT !.dup = @ + 1]
        /\ UNCHANGED out
  /\ UNCHANGED sdk

WorkDone ==
  \E a \in out :
    /\ a.kind # "timer"
    /\ Deliver(a, Event(IF a.kind = "activity" THEN "taskCompleted"
                        ELSE "childWorkflowInstanceCompleted", a.id, "none", a.id), used)

WorkFailed ==
  \E a \in out, how \in {"soft", "fatal"} :
    /\ a.kind # "timer" /\ used.failed < scene.failures
    /\ Deliver(a, Event(IF a.kind = "activity" THEN "taskFailed"
                        ELSE "childWorkflowInstanceFailed", a.id, how, 0),
               [used EXCEPT !.failed = @ + 1])

TimerFires ==
  \E a \in out :
    a.kind = "timer" /\ Deliver(a, Event("timerFired", a.id, "none", 0), used)

\* A request of a client: an event appended to the inbox.
Request(e, u) ==
  /\ Between
  /\ inbox' = Append(inbox, e) /\ used' = u
  /\ UNCHANGED <<out, sdk>>

\* raise_workflow_event: the payload of the i-th event of a name is i.
RaiseEvent ==
  \E n \in Names :
    /\ used.raised[n] < scene.raises
    /\ Request(Event("eventRaised", 0, n, used.raised[n] + 1),
               [used EXCEPT !.raised[n] = @ + 1])

SuspendRequested ==
  /\ used.susp < scene.suspends /\ (scene.careful => used.susp = used.res)
  /\ Request(Event("executionSuspended", 0, "none", 0), [used EXCEPT !.susp = @ + 1])

ResumeRequested ==
  /\ used.res < scene.suspends /\ (scene.careful => used.susp > used.res)
  /\ Request(Event("executionResumed", 0, "none", 0), [used EXCEPT !.res = @ + 1])

TerminateRequested ==
  /\ used.term < scene.terminates
  /\ Request(Event("executionTerminated", 0, "none", 0), [used EXCEPT !.term = @ + 1])

UpgradeWorker ==
  /\ Between /\ sdk = "old" /\ sdk' = "new"
  /\ UNCHANGED <<inbox, out, used>>

----------------------------------------------------------------------------

Init ==
  /\ scene \in Scenes
  /\ ctx = NewContext
  /\ tasks = [t \in TaskId |-> Free] /\ notify = NoTask
  /\ retry = [t \in TaskId |-> NoRetry]
  /\ mode = "idle" /\ pos = 0
  /\ suspended = FALSE /\ buffer = <<>> /\ drain = 0
  /\ hist = <<>> /\ batch = <<>> /\ out = {}
  /\ inbox = <<Event("executionStarted", 0, "none", 0)>>
  /\ status = "running"
  /\ sdk = IF scene.upgrade THEN "old" ELSE "new"
  /\ last = [snap |-> <<>>, before |-> [n \in Names |-> <<>>]]
  /\ used = [raised |-> [n \in Names |-> 0], failed |-> 0, dup |-> 0, lost |-> 0,
             susp |-> 0, res |-> 0, term |-> 0, gen |-> 0]

ProcessEvent ==
  \/ BufferEvent \/ OnWorkflowStarted \/ OnExecutionStarted \/ OnConfirmed
  \/ OnUnexpected \/ OnCompleted \/ OnFailed \/ OnTimerFired \/ OnEventRaised
  \/ OnSuspended \/ OnResumed \/ EndDrain \/ OnTerminated \/ EndTurn

RunProgram ==
  \/ StayYielded \/ ResumeGenerator \/ ResumeFinished
  \/ RunSchedule \/ RunWaitNow \/ RunWait \/ RunWaitBeforeUpgrade
  \/ RunCompose \/ RunYield \/ RunIfPatched \/ RunContinueAsNew \/ RunReturn

Turn == (ProcessEvent \/ Hop \/ RunProgram) /\ UNCHANGED sidecarVars

Commit == CommitTurn \/ CommitContinued

Outcome == WorkDone \/ WorkFailed \/ TimerFires

Client == RaiseEvent \/ SuspendRequested \/ ResumeRequested \/ TerminateRequested

Next ==
  /\ \/ Turn \/ Dispatch \/ Commit \/ LoseTurn
     \/ Outcome \/ Client \/ UpgradeWorker
  /\ UNCHANGED scene

Spec == Init /\ [][Next]_vars

\* The worker runs its turns, the sidecar dispatches them and stores their
\* responses, and scheduled work ends.  Nothing is assumed of clients.
FairSpec ==
  /\ Spec
  /\ WF_vars(Turn /\ UNCHANGED scene) /\ WF_vars(Dispatch /\ UNCHANGED scene)
  /\ WF_vars(Commit /\ UNCHANGED scene)
  /\ WF_vars(Outcome /\ UNCHANGED scene)

----------------------------------------------------------------------------
(* Properties.                                                             *)

EventTypes ==
  {"workflowStarted", "executionStarted", "taskScheduled", "taskCompleted",
   "taskFailed", "childWorkflowInstanceCreated", "childWorkflowInstanceCompleted",
   "childWorkflowInstanceFailed", "timerCreated", "timerFired", "eventRaised",
   "executionSuspended", "executionResumed", "executionTerminated"}

\* The state of a turn and of the sidecar has the shape of the code's: one
\* pending task per id, ids that next_sequence_number gave, positions within
\* the events, and a context whose status is one the response can carry.
TypeOK ==
  /\ tasks \in [TaskId -> Task] /\ notify \in TaskId \cup {NoTask}
  /\ mode \in {"idle", "event", "resume", "run", "done"}
  /\ pos \in 0 .. Len(Events) /\ drain \in 0 .. Len(buffer) + 1
  /\ \A i \in DOMAIN Events : Events[i].type \in EventTypes
  /\ ctx.status \in {"running", "completed", "failed", "terminated", "continued"}
  /\ \A a \in ctx.acts : a.id \in 1 .. ctx.seq
  /\ \A p, q \in ctx.ptasks :
       p.id \in 1 .. ctx.seq /\ (p.id = q.id \/ p.task = q.task => p = q)
  /\ status \in {"running", "completed", "failed", "terminated"}

\* The committed history has been replayed and no new event is taken yet.
Replayed ==
  AtEvent /\ ~Draining /\ pos = Len(hist) /\ last.snap # <<>>

\* Replaying the history rebuilds exactly the context the last turn ended
\* with: the same results seen, the same tasks, ids, waiters and buffered
\* events, although confirmations and completions are interleaved in the
\* history in another order than the one in which the calls were made.
\* Across an upgrade ids may move, and the program is still where it was.
ReplayEquivalence ==
  Replayed =>
    IF scene.upgrade
    THEN <<ctx.pc, ctx.seen, ctx.got>> =
           <<last.snap[1].pc, last.snap[1].seen, last.snap[1].got>>
    ELSE Snapshot = last.snap[1]

\* No turn fails with a NonDeterminismError: the program is deterministic,
\* so the history always matches what it does.
NoNonDeterminism == ctx.error # "nondeterminism"

Confirms(e) == e.type \in {"taskScheduled", "childWorkflowInstanceCreated", "timerCreated"}

\* An action whose confirmation is in the history is not returned again:
\* "Remove the taskScheduled event from the pending action list so we don't
\* schedule it again".
NoReschedule ==
  mode = "done" =>
    \A a \in Scheduling : \A i \in DOMAIN hist : Confirms(hist[i]) => hist[i].id # a.id

\* The actions of a finished workflow are cancelled: its response holds the
\* completion and nothing else ("Cancel any pending actions").
CompletionIsAlone ==
  mode = "done" /\ ctx.status # "running" => Scheduling = {}

\* A retry policy bounds the attempts of a task, whatever is delivered
\* twice, lost or replayed: the history never schedules more of them.
AttemptsBounded ==
  \A i \in DOMAIN prog :
    prog[i].op = "schedule" /\ prog[i].max > 0 =>
      Cardinality({j \in DOMAIN hist : Confirms(hist[j]) /\ hist[j].name = prog[i].name})
        <= prog[i].max

\* What a turn builds is well formed, and within the retry policies.
Inv == TypeOK /\ AttemptsBounded

Raised(n, s) == {i \in DOMAIN s : s[i].type = "eventRaised" /\ s[i].name = n}

\* The payloads of event n in s are lo + 1 .. hi, in this order.
Carries(n, s, lo, hi) ==
  /\ lo <= hi /\ {s[i].val : i \in Raised(n, s)} = lo + 1 .. hi
  /\ \A i, j \in Raised(n, s) : i < j => s[i].val < s[j].val

\* The events held back by a suspension that are not handled yet.
HeldBack == SubSeq(buffer, IF Draining THEN drain ELSE 1, Len(buffer))

\* Every event a client raised is somewhere exactly once, in order: given to
\* the program, buffered by name, held back by a suspension, or not taken
\* yet; also across continue_as_new with save_events.
EventsConserved ==
  AtEvent => \A n \in Names :
    LET taken == last.before[n] \o ctx.got[n] \o ctx.recv[n]
    IN /\ taken = [i \in 1 .. Len(taken) |-> i]
       /\ Carries(n, HeldBack \o SubSeq(Events, pos + 1, Len(Events)) \o inbox,
                  Len(taken), used.raised[n])

\* An event is never buffered while a waiter for its name is registered.
NoWaiterOverlooked ==
  \A n \in Names : ctx.wait[n] = <<>> \/ ctx.recv[n] = <<>>

\* The task an event completed belongs to a wait that had not timed out: the
\* payload is the result of the task the program holds.
EventReachesWaiter ==
  notify = NoTask => \A t \in TaskId :
    tasks[t].kind = "event" /\ tasks[tasks[t].kids[1]].out = "done" =>
      tasks[t].out = "done" /\ tasks[t].val = tasks[tasks[t].kids[1]].val

\* While it is suspended the workflow function does not run, and nothing
\* completes what it waits for.
SuspendedIsQuiet ==
  [][suspended /\ suspended' => UNCHANGED <<tasks, retry, ctx.pc, ctx.env, ctx.seen>>]_vars

\* An event that arrives during a suspension is held back once, until the
\* workflow is resumed: the list that the loop of executionResumed walks
\* never outgrows the events taken.
BufferedOnce == Len(buffer) <= pos

\* Nothing is left to do until a client raises the event awaited.
AwaitsClient ==
  /\ Idle /\ inbox = <<>> /\ out = {} /\ last.snap # <<>>
  /\ \E n \in Names : last.snap[1].wait[n] # <<>>

\* Every turn, replayed or not, ends, and work that ends lets the workflow
\* end: it only ever rests to wait for an event that no client has raised.
Finishes == <>[](status # "running" \/ AwaitsClient)
=============================================================================
