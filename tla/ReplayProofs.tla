---------------------------- MODULE ReplayProofs ----------------------------
(***************************************************************************)
(* Why a replay rebuilds what the last turn left: machine-checked proofs.  *)
(*                                                                         *)
(* A step of a turn is a function of what the turn is in, of the events    *)
(* and of how many of them are history.  The replay of a turn therefore    *)
(* goes through the states of the turn it replays, as long as both see the *)
(* same events and get the same answers from is_patched; then it confirms  *)
(* the actions of that turn; and only then does it meet new events.        *)
(***************************************************************************)
EXTENDS OrchestratorProofs

----------------------------------------------------------------------------
(* The task objects, over a table T.                                       *)

FreeSlot(T) ==
  CHOOSE t \in TaskId : T[t].kind = "free" /\ \A u \in TaskId : u < t => ~(T[u].kind = "free")
Ended(T, t) == T[t].out # "pending"
Tells(T, t) == IF T[t].parent = NoTask THEN NoTask ELSE t

Live(T, t) == T[t].parent # NoTask /\ ~Ended(T, T[t].parent)
CanAdopt(T, s) ==
  /\ Cardinality(Members(s)) = Len(s)
  /\ \A t \in Members(s) : Live(T, t) => Ended(T, t)

EndedAmong(T, s) == {t \in Members(s) : Ended(T, t)}
FaultyAmong(T, s) == {t \in Members(s) : T[t].exc # NoTask}

AllOf(T, s) ==
  LET first == IF FaultyAmong(T, s) = {} THEN NoTask
               ELSE T[FirstAmong(s, FaultyAmong(T, s))].exc
      full == EndedAmong(T, s) = Members(s)
  IN [NewTask("all", s) EXCEPT
        !.count = Cardinality(EndedAmong(T, s)),
        !.staged = first,
        !.exc = IF full THEN first ELSE NoTask,
        !.out = IF ~full THEN "pending"
                ELSE IF first = NoTask THEN "done" ELSE "failed"]

AnyOf(T, s) ==
  IF s = <<>> THEN Completed(NewTask("any", s), 0)
  ELSE IF EndedAmong(T, s) = {} THEN NewTask("any", s)
  ELSE Completed(NewTask("any", s), FirstAmong(s, EndedAmong(T, s)))

WithComposite(T, c, rec) ==
  [t \in TaskId |->
     IF t = c THEN rec
     ELSE IF t \in Members(rec.kids) THEN [T[t] EXCEPT !.parent = c]
     ELSE T[t]]

WithWait(T, e) ==
  [T EXCEPT ![e] = [NewTask("inner", <<>>) EXCEPT !.parent = e + 2],
            ![e + 1] = [NewTask("inner", <<>>) EXCEPT !.parent = e + 2],
            ![e + 2] = NewTask("event", <<e, e + 1>>)]

AllTold(T, p, k) ==
  LET P == T[p]
      staged == IF P.staged = NoTask THEN T[k].exc ELSE P.staged
      counted == [P EXCEPT !.count = @ + 1, !.staged = staged]
  IN IF P.count + 1 < Len(P.kids) THEN counted
     ELSE [counted EXCEPT !.out = IF staged = NoTask THEN "done" ELSE "failed",
                          !.exc = staged]
WaitTold(T, p, k) ==
  IF k = T[p].kids[1]
  THEN [T[p] EXCEPT !.out = T[k].out, !.exc = T[k].exc, !.val = T[k].val]
  ELSE Failed(T[p], p)
ParentTold(T, p, k) ==
  IF T[p].kind = "all" THEN AllTold(T, p, k)
  ELSE IF T[p].kind = "any" THEN Completed(T[p], k)
  ELSE WaitTold(T, p, k)

LateWaiter(T, k) ==
  LET p == T[k].parent
  IN IF /\ k # NoTask /\ p # NoTask
        /\ T[p].kind = "event" /\ ~Ended(T, p)
        /\ k # T[p].kids[1]
     THEN T[p].kids[1] ELSE NoTask

----------------------------------------------------------------------------
(* A turn as a function: the state after a step is a function of the state *)
(* before it, of the events and of how many of them are history.           *)

\* A context without the patches that were read, of which the events say more.
Bare(c) == [c EXCEPT !.hpatch = {}]

V(T, n, r, m, p, c) == [tasks |-> T, notify |-> n, retry |-> r, mode |-> m, pos |-> p, c |-> c]

\* What a turn is in when nothing is suspended.
View == V(tasks, notify, retry, mode, pos, Bare(ctx))

\* v, in another mode, at another event, with another context.
At(v, m, p, c) == V(v.tasks, v.notify, v.retry, m, p, c)

TaskOf(c, id) ==
  IF \E p \in c.ptasks : p.id = id THEN (CHOOSE p \in c.ptasks : p.id = id).task ELSE NoTask
NoLonger(c, id) == [c EXCEPT !.ptasks = {p \in @ : p.id # id}]

AfterConfirmation(v, e) ==
  LET stale == \E a \in PendingAt(v.c, e.id) : IsOptionalTimer(a)
      c == IF stale /\ ~IsOptionalEvent(e) THEN DropOptional(v.c, e.id) ELSE v.c
      pending == PendingAt(c, e.id)
  IN IF IsOptionalEvent(e) /\ ~\E a \in pending : IsOptionalTimer(a)
     THEN At(v, v.mode, v.pos + 1, v.c)
     ELSE IF \E a \in pending : Matches(a, e)
     THEN At(v, v.mode, v.pos + 1, Confirmed(c, e.id))
     ELSE At(v, "done", v.pos + 1, SetFailed(c, "nondeterminism"))

AfterCompletion(v, e, t) ==
  V([v.tasks EXCEPT ![t] = Completed(@, e.val)], Tells(v.tasks, t), v.retry, "resume",
    v.pos + 1, NoLonger(v.c, e.id))

AfterFailure(v, e, t) ==
  IF v.retry[t].max > 0 /\ e.name # "fatal" /\ HasAttemptLeft(v.retry[t])
  THEN LET u == FreeSlot(v.tasks)
       IN V([v.tasks EXCEPT ![u] = NewTask("inner", <<>>)], v.notify,
            [v.retry EXCEPT ![t].attempt = @ + 1, ![u].owner = t], v.mode,
            v.pos + 1, Scheduled(NoLonger(v.c, e.id), "timer", "retry", u))
  ELSE V([v.tasks EXCEPT ![t] = Failed(@, t)], Tells(v.tasks, t), v.retry, "resume",
         v.pos + 1, NoLonger(v.c, e.id))

AfterTimer(v, e, t) ==
  LET owner == v.retry[t].owner
      T == [v.tasks EXCEPT ![t] = Completed(@, 0)]
  IN IF owner # NoTask
     THEN V(T, Tells(v.tasks, t), v.retry, v.mode, v.pos + 1,
            Scheduled(NoLonger(v.c, e.id), v.retry[owner].kind, v.retry[owner].name, owner))
     ELSE V(T, Tells(v.tasks, t), v.retry, "resume", v.pos + 1, NoLonger(v.c, e.id))

AfterRaised(v, e) ==
  LET n == e.name
      waiters == v.c.wait[n]
      t == Head(waiters)
  IN IF waiters # <<>>
     THEN V([v.tasks EXCEPT ![t] = Completed(@, e.val)], Tells(v.tasks, t), v.retry, "resume",
            v.pos + 1, [v.c EXCEPT !.wait[n] = Tail(@), !.got[n] = Append(@, e.val)])
     ELSE At(v, v.mode, v.pos + 1, [v.c EXCEPT !.recv[n] = Append(@, e.val)])

AfterOutcome(v, e) ==
  LET t == TaskOf(v.c, e.id)
  IN IF t = NoTask THEN At(v, v.mode, v.pos + 1, v.c)
     ELSE IF e.type = "timerFired" THEN AfterTimer(v, e, t)
     ELSE IF e.type \in {"taskCompleted", "childWorkflowInstanceCompleted"}
     THEN AfterCompletion(v, e, t)
     ELSE AfterFailure(v, e, t)

OutcomeTypes ==
  {"timerFired", "taskCompleted", "taskFailed",
   "childWorkflowInstanceCompleted", "childWorkflowInstanceFailed"}

AfterEvent(v, e) ==
  IF e.type = "executionStarted"
  THEN At(v, "run", v.pos + 1, [v.c EXCEPT !.gen = "live", !.pc = 1])
  ELSE IF Confirms(e) THEN AfterConfirmation(v, e)
  ELSE IF e.type \in OutcomeTypes THEN AfterOutcome(v, e)
  ELSE IF e.type = "eventRaised" THEN AfterRaised(v, e)
  ELSE IF e.type = "executionResumed"
  THEN At(v, "done", v.pos + 1, SetFailed(v.c, "unknown event"))
  ELSE IF e.type = "executionTerminated"
  THEN At(v, v.mode, v.pos + 1, SetComplete(v.c, "terminated"))
  ELSE At(v, v.mode, v.pos + 1, v.c)

AfterHop(v) ==
  LET k == v.notify
      p == v.tasks[k].parent
      told == ParentTold(v.tasks, p, k)
      c == [v.c EXCEPT !.wait = [n \in Names |-> Without(@[n], LateWaiter(v.tasks, k))]]
  IN IF Ended(v.tasks, p) THEN V(v.tasks, NoTask, v.retry, v.mode, v.pos, c)
     ELSE V([v.tasks EXCEPT ![p] = told],
            IF told.out = "pending" THEN NoTask ELSE Tells(v.tasks, p),
            v.retry, v.mode, v.pos, c)

NextOf(P, v) == IF v.c.pc \in DOMAIN P THEN P[v.c.pc] ELSE Return

Seeing(v, t) == [v.c EXCEPT !.seen = Append(@, <<v.tasks[t].out, v.tasks[t].val>>)]

AfterResume(P, v) ==
  LET t == v.c.prev
      failed == v.tasks[t].exc # NoTask
      handler == NextOf(P, v).handler
  IN IF ~(t # NoTask /\ Ended(v.tasks, t)) THEN At(v, "event", v.pos, v.c)
     ELSE IF v.c.gen = "live"
     THEN IF failed /\ handler = 0
          THEN At(v, "done", v.pos, SetFailed([Seeing(v, t) EXCEPT !.gen = "done"], "exception"))
          ELSE At(v, "run", v.pos, [Seeing(v, t) EXCEPT !.pc = IF failed THEN handler ELSE @ + 1])
     ELSE IF failed THEN At(v, "done", v.pos, SetFailed(v.c, "exception"))
     ELSE At(v, "event", v.pos, v.c)

Assigning(v, t) == [v.c EXCEPT !.pc = @ + 1, !.env = Append(@, t)]
Raising(v) == At(v, "done", v.pos, SetFailed([v.c EXCEPT !.gen = "done"], "exception"))

AfterSchedule(v, i) ==
  LET t == FreeSlot(v.tasks)
  IN V([v.tasks EXCEPT ![t] = NewTask("leaf", <<>>)], v.notify,
       [v.retry EXCEPT ![t] = [NoRetry EXCEPT !.max = i.max, !.kind = i.kind, !.name = i.name]],
       v.mode, v.pos, Scheduled(Assigning(v, t), i.kind, i.name, t))

AfterWaitNow(v, i) ==
  LET t == FreeSlot(v.tasks)
      ready == v.c.recv[i.name]
  IN IF ready # <<>>
     THEN V([v.tasks EXCEPT ![t] = Completed(NewTask("leaf", <<>>), Head(ready))], v.notify,
            v.retry, v.mode, v.pos,
            [Assigning(v, t) EXCEPT !.recv[i.name] = Tail(@),
                                    !.got[i.name] = Append(@, Head(ready))])
     ELSE V([v.tasks EXCEPT ![t] = Failed(NewTask("leaf", <<>>), t)], v.notify,
            v.retry, v.mode, v.pos, Assigning(v, t))

AfterWait(v, i) ==
  LET e == FreeSlot(v.tasks)
  IN V(WithWait(v.tasks, e), v.notify, v.retry, v.mode, v.pos,
       Scheduled([Assigning(v, e + 2) EXCEPT !.wait[i.name] = Append(@, e)],
                 "timer", IF i.timeout = "none" THEN "optional" ELSE "event", e + 1))

AfterCompose(v, i) ==
  LET s == [j \in DOMAIN i.of |-> v.c.env[i.of[j]]]
      c == FreeSlot(v.tasks)
  IN IF Members(i.of) \subseteq DOMAIN v.c.env /\ CanAdopt(v.tasks, s)
     THEN V(WithComposite(v.tasks, c, IF i.op = "all" THEN AllOf(v.tasks, s) ELSE AnyOf(v.tasks, s)),
            v.notify, v.retry, v.mode, v.pos, Assigning(v, c))
     ELSE Raising(v)

\* is_patched, from the patches of the events that were taken
PatchesRead(evs, n) ==
  UNION {evs[i].patches : i \in {j \in 1 .. n : evs[j].type = "workflowStarted"}}
Applies(evs, h, v, p) ==
  p \in v.c.apatch \/ (p \notin v.c.unpatch /\ (p \in PatchesRead(evs, v.pos) \/ ~(v.pos <= h)))

AfterPatched(evs, h, v, i) ==
  IF Applies(evs, h, v, i.name)
  THEN At(v, v.mode, v.pos, [v.c EXCEPT !.pc = @ + 1, !.apatch = @ \cup {i.name},
                                        !.epatch = @ \cup {i.name}])
  ELSE At(v, v.mode, v.pos, [v.c EXCEPT !.pc = i.otherwise, !.unpatch = @ \cup {i.name}])

AfterInstruction(evs, h, v, i) ==
  IF i.op = "schedule" THEN AfterSchedule(v, i)
  ELSE IF i.op = "wait"
  THEN IF v.c.recv[i.name] # <<>> \/ i.timeout = "zero" THEN AfterWaitNow(v, i) ELSE AfterWait(v, i)
  ELSE IF i.op \in {"all", "any"} THEN AfterCompose(v, i)
  ELSE IF i.op = "yield"
  THEN IF {i.of} \subseteq DOMAIN v.c.env
       THEN At(v, "resume", v.pos, [v.c EXCEPT !.prev = v.c.env[i.of]]) ELSE Raising(v)
  ELSE IF i.op = "patched" THEN AfterPatched(evs, h, v, i)
  ELSE IF i.op = "continue"
  THEN At(v, v.mode, v.pos, [SetContinuedAsNew(v.c, i.save) EXCEPT !.pc = @ + 1])
  ELSE At(v, "event", v.pos, SetComplete([v.c EXCEPT !.gen = "done"], "completed"))

Step(P, evs, h, v) ==
  IF v.mode = "event"
  THEN IF v.pos < Len(evs) THEN AfterEvent(v, evs[v.pos + 1]) ELSE At(v, "done", v.pos, v.c)
  ELSE IF v.mode = "resume"
  THEN IF v.notify # NoTask THEN AfterHop(v) ELSE AfterResume(P, v)
  ELSE IF v.mode = "run" THEN AfterInstruction(evs, h, v, NextOf(P, v))
  ELSE v


----------------------------------------------------------------------------
(* The steps of a turn are this function.                                  *)

\* No old code runs and nothing is suspended.
Steady == sdk = "new" /\ ~suspended

Plain == TurnInv /\ Frame /\ Steady /\ ~suspended' /\ drain = 0 /\ ctx' \in Contexts

\* A step is the function's.
Functional == View' = Step(prog, Events, Len(hist), View)

(* The parts of what a turn is in.                                         *)
LEMMA VParts ==
  ASSUME NEW T, NEW n, NEW r, NEW m, NEW p, NEW c
  PROVE  /\ V(T, n, r, m, p, c).tasks = T /\ V(T, n, r, m, p, c).notify = n
         /\ V(T, n, r, m, p, c).retry = r /\ V(T, n, r, m, p, c).mode = m
         /\ V(T, n, r, m, p, c).pos = p /\ V(T, n, r, m, p, c).c = c
BY DEF V

LEMMA ViewParts ==
  /\ View.tasks = tasks /\ View.notify = notify /\ View.retry = retry
  /\ View.mode = mode /\ View.pos = pos /\ View.c = Bare(ctx)
BY VParts DEF View

LEMMA ViewNext ==
  View' = V(tasks', notify', retry', mode', pos', Bare(ctx'))
BY DEF View

LEMMA BareParts ==
  ASSUME NEW c \in Contexts
  PROVE  /\ Bare(c) \in Contexts /\ SameProgram(c, Bare(c)) /\ SameIds(c, Bare(c))
         /\ SameEvents(c, Bare(c)) /\ SameStatus(c, Bare(c))
         /\ Bare(c).apatch = c.apatch /\ Bare(c).unpatch = c.unpatch
         /\ Bare(c).epatch = c.epatch
BY DEF Bare, Contexts, SameProgram, SameIds, SameEvents, SameStatus

(* The step that handles an event.                                         *)
LEMMA TakesEvent ==
  ASSUME Plain, AtEvent, HasEvent
  PROVE  /\ Step(prog, Events, Len(hist), View) = AfterEvent(View, Current)
         /\ Current = Events[pos + 1] /\ Current \in HistoryEvents
         /\ Take => pos' = pos + 1
         /\ mode = "event" /\ notify = NoTask /\ ctx \in Contexts
<1>1. ~Draining /\ mode = "event" /\ notify = NoTask /\ ctx \in Contexts
  BY DEF Plain, Draining, AtEvent, TurnInv, TurnTypes
<1>2. pos < Len(Events) /\ Current = Events[pos + 1] /\ (Take => pos' = pos + 1)
  BY <1>1 DEF HasEvent, Current, Take
<1>3. Current \in HistoryEvents
  BY CurrentTyped DEF Plain, TurnInv
<1>4. Step(prog, Events, Len(hist), View) = AfterEvent(View, Events[View.pos + 1])
  BY <1>1, <1>2, ViewParts DEF Step
<1> QED BY <1>1, <1>2, <1>3, <1>4, ViewParts

(* What a handler does when nothing is suspended.                          *)
LEMMA HandlesEvent ==
  ASSUME Plain, NEW types, On(types)
  PROVE  /\ Step(prog, Events, Len(hist), View) = AfterEvent(View, Current)
         /\ Current = Events[pos + 1] /\ Current \in HistoryEvents /\ Current.type \in types
         /\ pos' = pos + 1
         /\ mode = "event" /\ notify = NoTask /\ ctx \in Contexts
BY TakesEvent DEF On

(* Which handler takes an event.                                           *)
LEMMA EventKinds ==
  ASSUME NEW v, NEW e
  PROVE  /\ e.type \in {"workflowStarted", "executionSuspended"} =>
              AfterEvent(v, e) = At(v, v.mode, v.pos + 1, v.c)
         /\ e.type = "executionStarted" =>
              AfterEvent(v, e) = At(v, "run", v.pos + 1, [v.c EXCEPT !.gen = "live", !.pc = 1])
         /\ e.type \in {"taskScheduled", "childWorkflowInstanceCreated", "timerCreated"} =>
              AfterEvent(v, e) = AfterConfirmation(v, e)
         /\ e.type \in OutcomeTypes => AfterEvent(v, e) = AfterOutcome(v, e)
         /\ e.type = "eventRaised" => AfterEvent(v, e) = AfterRaised(v, e)
         /\ e.type = "executionResumed" =>
              AfterEvent(v, e) = At(v, "done", v.pos + 1, SetFailed(v.c, "unknown event"))
         /\ e.type = "executionTerminated" =>
              AfterEvent(v, e) = At(v, v.mode, v.pos + 1, SetComplete(v.c, "terminated"))
BY DEF AfterEvent, Confirms, OutcomeTypes

(* A step that only moves on and changes the context.                      *)
LEMMA OnlyContext ==
  ASSUME UNCHANGED <<tasks, notify, retry>>,
         NEW m, NEW p, NEW c, mode' = m, pos' = p, Bare(ctx') = c
  PROVE  View' = At(View, m, p, c)
BY ViewParts, ViewNext DEF At

LEMMA OnWorkflowStartedIs ==
  ASSUME Plain, OnWorkflowStarted
  PROVE  Functional
<1>1. /\ Step(prog, Events, Len(hist), View) = AfterEvent(View, Current)
      /\ Current.type = "workflowStarted" /\ pos' = pos + 1 /\ mode' = mode
      /\ UNCHANGED <<tasks, notify, retry>> /\ ctx \in Contexts
  BY HandlesEvent DEF OnWorkflowStarted
<1>2. Bare(ctx') = Bare(ctx)
  <2>1. PICK H : ctx' = [ctx EXCEPT !.hpatch = H]
    BY DEF OnWorkflowStarted
  <2> QED BY <1>1, <2>1 DEF Bare, Contexts
<1>3. AfterEvent(View, Current) = At(View, mode, pos + 1, Bare(ctx))
  BY <1>1, EventKinds, ViewParts
<1>4. View' = At(View, mode, pos + 1, Bare(ctx))
  BY <1>1, <1>2, OnlyContext
<1> QED BY <1>1, <1>3, <1>4 DEF Functional

LEMMA OnExecutionStartedIs ==
  ASSUME Plain, OnExecutionStarted
  PROVE  Functional
<1>1. /\ Step(prog, Events, Len(hist), View) = AfterEvent(View, Current)
      /\ Current.type = "executionStarted" /\ pos' = pos + 1 /\ mode' = "run"
      /\ UNCHANGED <<tasks, notify, retry>> /\ ctx \in Contexts
  BY HandlesEvent DEF OnExecutionStarted
<1>2. Bare(ctx') = [Bare(ctx) EXCEPT !.gen = "live", !.pc = 1]
  BY <1>1 DEF OnExecutionStarted, Bare, Contexts
<1>3. AfterEvent(View, Current) = At(View, "run", pos + 1, [Bare(ctx) EXCEPT !.gen = "live", !.pc = 1])
  BY <1>1, EventKinds, ViewParts
<1>4. View' = At(View, "run", pos + 1, [Bare(ctx) EXCEPT !.gen = "live", !.pc = 1])
  BY <1>1, <1>2, OnlyContext
<1> QED BY <1>1, <1>3, <1>4 DEF Functional

LEMMA OnSuspendedNever ==
  ASSUME Plain, OnSuspended \/ BufferEvent \/ EndDrain
  PROVE  FALSE
BY DEF Plain, Steady, OnSuspended, BufferEvent, EndDrain, Draining, TurnInv, TurnTypes

(* The status, and the actions it leaves, do not depend on the patches.    *)
LEMMA BareCompletes ==
  ASSUME NEW c \in Contexts, NEW st \in Statuses, NEW why \in Reasons
  PROVE  /\ Bare(SetComplete(c, st)) = SetComplete(Bare(c), st)
         /\ Bare(SetFailed(c, why)) = SetFailed(Bare(c), why)
<1>1. Bare(SetComplete(c, st)) = SetComplete(Bare(c), st)
  BY DEF Bare, SetComplete, Contexts
<1>2. Bare(SetComplete(c, "failed")) = SetComplete(Bare(c), "failed")
  BY DEF Bare, SetComplete, Contexts
<1>3. PICK d \in Contexts : d = SetComplete(c, "failed")
  BY SetCompleteFields DEF Statuses
<1>4. Bare([d EXCEPT !.error = why]) = [Bare(d) EXCEPT !.error = why]
  BY DEF Bare, Contexts
<1> QED BY <1>1, <1>2, <1>3, <1>4 DEF SetFailed

LEMMA OnTerminatedIs ==
  ASSUME Plain, OnTerminated
  PROVE  Functional
<1>1. /\ Step(prog, Events, Len(hist), View) = AfterEvent(View, Current)
      /\ Current.type = "executionTerminated" /\ pos' = pos + 1 /\ mode' = mode
      /\ UNCHANGED <<tasks, notify, retry>> /\ ctx \in Contexts
  BY HandlesEvent DEF OnTerminated
<1>2. Bare(ctx') = SetComplete(Bare(ctx), "terminated")
  BY <1>1, BareCompletes DEF OnTerminated, Statuses, Reasons
<1>3. AfterEvent(View, Current) = At(View, mode, pos + 1, SetComplete(Bare(ctx), "terminated"))
  BY <1>1, EventKinds, ViewParts
<1>4. View' = At(View, mode, pos + 1, SetComplete(Bare(ctx), "terminated"))
  BY <1>1, <1>2, OnlyContext
<1> QED BY <1>1, <1>3, <1>4 DEF Functional

LEMMA OnResumedIs ==
  ASSUME Plain, OnResumed
  PROVE  Functional
<1>1. /\ Step(prog, Events, Len(hist), View) = AfterEvent(View, Current)
      /\ Current.type = "executionResumed" /\ pos' = pos + 1 /\ mode' = "done"
      /\ UNCHANGED <<tasks, notify, retry>> /\ ctx \in Contexts
      /\ ctx' = SetFailed(ctx, "unknown event")
  BY TakesEvent DEF OnResumed, Plain, Steady, FailTurn
<1>2. Bare(ctx') = SetFailed(Bare(ctx), "unknown event")
  BY <1>1, BareCompletes DEF Statuses, Reasons
<1>3. AfterEvent(View, Current) = At(View, "done", pos + 1, SetFailed(Bare(ctx), "unknown event"))
  BY <1>1, EventKinds, ViewParts
<1>4. View' = At(View, "done", pos + 1, SetFailed(Bare(ctx), "unknown event"))
  BY <1>1, <1>2, OnlyContext
<1> QED BY <1>1, <1>3, <1>4 DEF Functional

LEMMA EndTurnIs ==
  ASSUME Plain, EndTurn
  PROVE  Functional
<1>1. /\ mode = "event" /\ ~(pos < Len(Events)) /\ mode' = "done"
      /\ UNCHANGED <<tasks, notify, retry, ctx, pos>>
  BY DEF EndTurn, AtEvent, HasEvent
<1>2. Step(prog, Events, Len(hist), View) = At(View, "done", pos, Bare(ctx))
  BY <1>1, ViewParts DEF Step
<1>3. View' = At(View, "done", pos, Bare(ctx))
  BY <1>1, OnlyContext
<1> QED BY <1>2, <1>3 DEF Functional

(* Confirmations and completions do not depend on the patches either.      *)
LEMMA BarePending ==
  ASSUME NEW c \in Contexts, NEW id
  PROVE  /\ PendingAt(Bare(c), id) = PendingAt(c, id)
         /\ Bare(DropOptional(c, id)) = DropOptional(Bare(c), id)
         /\ Bare(Confirmed(c, id)) = Confirmed(Bare(c), id)
<1>1. PendingAt(Bare(c), id) = PendingAt(c, id)
  BY BareParts DEF PendingAt, SameIds
<1>2. Bare(DropOptional(c, id)) = DropOptional(Bare(c), id)
  <2> DEFINE down(x) == IF x.id > id THEN [x EXCEPT !.id = @ - 1] ELSE x
  <2>1. PICK A : A = {down(a) : a \in {b \in c.acts : b.id # id}}
    OBVIOUS
  <2>2. PICK P : P = {down(p) : p \in {q \in c.ptasks : q.id # id}}
    OBVIOUS
  <2>3. DropOptional(c, id) = [c EXCEPT !.seq = @ - 1, !.acts = A, !.ptasks = P]
    BY <2>1, <2>2 DEF DropOptional, Contexts
  <2>4. Bare(c).acts = c.acts /\ Bare(c).ptasks = c.ptasks /\ Bare(c) \in Contexts
    BY BareParts DEF SameIds
  <2>5. DropOptional(Bare(c), id) = [Bare(c) EXCEPT !.seq = @ - 1, !.acts = A, !.ptasks = P]
    BY <2>1, <2>2, <2>4 DEF DropOptional, Contexts
  <2> QED BY <2>3, <2>5 DEF Bare, Contexts
<1>3. Bare(Confirmed(c, id)) = Confirmed(Bare(c), id)
  <2>1. PICK A : A = c.acts \ PendingAt(c, id)
    OBVIOUS
  <2>2. Confirmed(c, id) = [c EXCEPT !.acts = A]
    BY <2>1 DEF Confirmed, Contexts
  <2>3. Bare(c).acts = c.acts /\ Bare(c) \in Contexts
    BY BareParts DEF SameIds
  <2>4. Confirmed(Bare(c), id) = [Bare(c) EXCEPT !.acts = A]
    BY <1>1, <2>1, <2>3 DEF Confirmed, Contexts
  <2> QED BY <2>2, <2>4 DEF Bare, Contexts
<1> QED BY <1>1, <1>2, <1>3

LEMMA OnConfirmedIs ==
  ASSUME Plain, OnConfirmed
  PROVE  Functional
<1> DEFINE e == Current
           stale == \E a \in PendingAt(ctx, e.id) : IsOptionalTimer(a)
           c == IF stale /\ ~IsOptionalEvent(e) THEN DropOptional(ctx, e.id) ELSE ctx
           pending == PendingAt(c, e.id)
           b == IF stale /\ ~IsOptionalEvent(e) THEN DropOptional(Bare(ctx), e.id) ELSE Bare(ctx)
<1>1. /\ Step(prog, Events, Len(hist), View) = AfterConfirmation(View, e)
      /\ pos' = pos + 1 /\ e.id \in Nat /\ mode = "event"
      /\ UNCHANGED <<tasks, notify, retry>> /\ ctx \in Contexts /\ Ids(ctx)
  <2>1. /\ Step(prog, Events, Len(hist), View) = AfterEvent(View, e)
        /\ e.type \in {"taskScheduled", "childWorkflowInstanceCreated", "timerCreated"}
        /\ pos' = pos + 1 /\ UNCHANGED <<tasks, notify, retry>> /\ ctx \in Contexts
        /\ e \in HistoryEvents /\ mode = "event"
    BY HandlesEvent DEF OnConfirmed
  <2> HIDE DEF e
  <2> QED BY <2>1, EventKinds DEF HistoryEvents, Plain, TurnInv, IdInv, Ids
<1>2. c \in Contexts /\ Bare(c) = b /\ PendingAt(b, e.id) = pending
  <2>1. c \in Contexts
    BY <1>1, DropOptionalFields
  <2>2. Bare(c) = b
    BY <1>1, BarePending
  <2> HIDE DEF c, b, e
  <2> QED BY <2>1, <2>2, BarePending
<1>3. AfterConfirmation(View, e) =
        IF IsOptionalEvent(e) /\ ~\E a \in pending : IsOptionalTimer(a)
        THEN At(View, mode, pos + 1, Bare(ctx))
        ELSE IF \E a \in pending : Matches(a, e)
        THEN At(View, mode, pos + 1, Confirmed(b, e.id))
        ELSE At(View, "done", pos + 1, SetFailed(b, "nondeterminism"))
  <2>1. PendingAt(Bare(ctx), e.id) = PendingAt(ctx, e.id)
    BY <1>1, BarePending
  <2> HIDE DEF e
  <2> QED BY <1>2, <2>1, ViewParts DEF AfterConfirmation
<1>4. Bare(Confirmed(c, e.id)) = Confirmed(b, e.id)
      /\ Bare(SetFailed(c, "nondeterminism")) = SetFailed(b, "nondeterminism")
  <2> HIDE DEF c, b, e
  <2> QED BY <1>2, BarePending, BareCompletes DEF Statuses, Reasons
<1>5. IF IsOptionalEvent(e) /\ ~\E a \in pending : IsOptionalTimer(a)
      THEN UNCHANGED <<ctx, mode>>
      ELSE IF \E a \in pending : Matches(a, e)
      THEN ctx' = Confirmed(c, e.id) /\ UNCHANGED mode
      ELSE ctx' = SetFailed(c, "nondeterminism") /\ mode' = "done"
  BY DEF OnConfirmed, FailTurn
<1> HIDE DEF c, b, e, pending
<1>6. View' = IF IsOptionalEvent(e) /\ ~\E a \in pending : IsOptionalTimer(a)
              THEN At(View, mode, pos + 1, Bare(ctx))
              ELSE IF \E a \in pending : Matches(a, e)
              THEN At(View, mode, pos + 1, Confirmed(b, e.id))
              ELSE At(View, "done", pos + 1, SetFailed(b, "nondeterminism"))
  <2>1. CASE UNCHANGED <<ctx, mode>>
             /\ IsOptionalEvent(e) /\ ~\E a \in pending : IsOptionalTimer(a)
    BY <1>1, <2>1, OnlyContext
  <2>2. CASE /\ ctx' = Confirmed(c, e.id) /\ UNCHANGED mode
             /\ ~(IsOptionalEvent(e) /\ ~\E a \in pending : IsOptionalTimer(a))
             /\ \E a \in pending : Matches(a, e)
    BY <1>1, <1>4, <2>2, OnlyContext
  <2>3. CASE /\ ctx' = SetFailed(c, "nondeterminism") /\ mode' = "done"
             /\ ~(IsOptionalEvent(e) /\ ~\E a \in pending : IsOptionalTimer(a))
             /\ ~\E a \in pending : Matches(a, e)
    BY <1>1, <1>4, <2>3, OnlyContext
  <2> QED BY <1>5, <2>1, <2>2, <2>3
<1> QED BY <1>1, <1>3, <1>6 DEF Functional

(* The task an event with an id belongs to.                                *)
LEMMA TaskOfBare ==
  ASSUME ctx \in Contexts, NEW id
  PROVE  /\ TaskOf(Bare(ctx), id) = TaskAt(id)
         /\ Bare(Popped(id)) = NoLonger(Bare(ctx), id)
<1>1. Bare(ctx).ptasks = ctx.ptasks /\ Bare(ctx) \in Contexts
  BY BareParts DEF SameIds
<1>2. TaskOf(Bare(ctx), id) = TaskAt(id)
  BY <1>1 DEF TaskOf, TaskAt
<1>3. PICK P : P = {p \in ctx.ptasks : p.id # id}
  OBVIOUS
<1>4. Popped(id) = [ctx EXCEPT !.ptasks = P] /\ NoLonger(Bare(ctx), id) = [Bare(ctx) EXCEPT !.ptasks = P]
  BY <1>1, <1>3 DEF Popped, NoLonger, Contexts
<1> QED BY <1>2, <1>4 DEF Bare, Contexts

LEMMA TellsIs ==
  \A t \in TaskId : Tells(tasks, t) = Notification(t)
BY DEF Tells, Notification

(* What an event with an id does.                                          *)
LEMMA HandlesOutcome ==
  ASSUME Plain, NEW types, On(types), types \subseteq OutcomeTypes
  PROVE  /\ Step(prog, Events, Len(hist), View) = AfterOutcome(View, Current)
         /\ Current \in HistoryEvents /\ Current.type \in types
         /\ pos' = pos + 1 /\ mode = "event" /\ notify = NoTask /\ ctx \in Contexts
         /\ Current.id \in Nat /\ TaskOf(View.c, Current.id) = TaskAt(Current.id)
<1>1. /\ Step(prog, Events, Len(hist), View) = AfterEvent(View, Current)
      /\ Current \in HistoryEvents /\ Current.type \in types
      /\ pos' = pos + 1 /\ mode = "event" /\ notify = NoTask /\ ctx \in Contexts
  BY HandlesEvent
<1>2. AfterEvent(View, Current) = AfterOutcome(View, Current)
  BY <1>1, EventKinds
<1> QED BY <1>1, <1>2, TaskOfBare, ViewParts DEF HistoryEvents

LEMMA OnUnexpectedIs ==
  ASSUME Plain, OnUnexpected
  PROVE  Functional
<1>1. On(OutcomeTypes)
  BY DEF OnUnexpected, OutcomeTypes
<1>2. /\ Step(prog, Events, Len(hist), View) = AfterOutcome(View, Current)
      /\ pos' = pos + 1 /\ mode' = mode /\ UNCHANGED <<tasks, notify, retry, ctx>>
      /\ TaskOf(View.c, Current.id) = NoTask
  BY <1>1, HandlesOutcome DEF OnUnexpected
<1>3. AfterOutcome(View, Current) = At(View, mode, pos + 1, Bare(ctx))
  BY <1>2, ViewParts DEF AfterOutcome
<1>4. View' = At(View, mode, pos + 1, Bare(ctx))
  BY <1>2, OnlyContext
<1> QED BY <1>2, <1>3, <1>4 DEF Functional

LEMMA OnCompletedIs ==
  ASSUME Plain, OnCompleted
  PROVE  Functional
<1>1. PICK e, t : e = Current /\ t = TaskAt(e.id)
  OBVIOUS
<1>2. /\ Step(prog, Events, Len(hist), View) = AfterOutcome(View, e)
      /\ e.type \in {"taskCompleted", "childWorkflowInstanceCompleted"}
      /\ pos' = pos + 1 /\ mode' = "resume" /\ ctx \in Contexts /\ UNCHANGED retry
      /\ TaskOf(View.c, e.id) = t /\ t # NoTask /\ ctx' = Popped(e.id)
      /\ tasks' = [tasks EXCEPT ![t] = Completed(@, e.val)] /\ notify' = Notification(t)
  BY <1>1, HandlesOutcome DEF OnCompleted, OutcomeTypes, Complete
<1>3. Tells(tasks, t) = Notification(t)
  BY DEF Tells, Notification
<1>4. AfterOutcome(View, e) = AfterCompletion(View, e, t)
  BY <1>2 DEF AfterOutcome
<1>5. AfterCompletion(View, e, t) =
        V(tasks', notify', retry, "resume", pos + 1, NoLonger(Bare(ctx), e.id))
  BY <1>2, <1>3, ViewParts DEF AfterCompletion
<1>6. Bare(ctx') = NoLonger(Bare(ctx), e.id)
  BY <1>2, TaskOfBare
<1> QED BY <1>2, <1>4, <1>5, <1>6, ViewNext DEF Functional

LEMMA FreshIsFirst ==
  ASSUME NEW t \in TaskId, Fresh(t)
  PROVE  t = FreeSlot(tasks)
<1>1. t \in Nat /\ \A u \in TaskId : u \in Nat
  BY DEF TaskId
<1>2. \A u \in TaskId : tasks[u].kind = "free"
                        /\ (\A w \in TaskId : w < u => ~(tasks[w].kind = "free")) <=> Fresh(u)
  BY DEF Fresh, IsFree
<1>3. \A u \in TaskId : Fresh(u) => u = t
  <2> TAKE u \in TaskId
  <2>1. ~(u < t) /\ ~(t < u) => u = t
    BY <1>1
  <2> QED BY <2>1 DEF Fresh
<1> QED BY <1>2, <1>3 DEF FreeSlot

LEMMA BareScheduled ==
  ASSUME NEW c \in Contexts, NEW kind, NEW name, NEW t
  PROVE  Bare(Scheduled(c, kind, name, t)) = Scheduled(Bare(c), kind, name, t)
BY DEF Bare, Scheduled, Contexts

LEMMA OnFailedIs ==
  ASSUME Plain, OnFailed
  PROVE  Functional
<1>1. PICK e, t : e = Current /\ t = TaskAt(e.id)
  OBVIOUS
<1>2. /\ Step(prog, Events, Len(hist), View) = AfterOutcome(View, e)
      /\ e.type \in {"taskFailed", "childWorkflowInstanceFailed"} /\ e.id \in Nat
      /\ pos' = pos + 1 /\ mode = "event" /\ ctx \in Contexts
      /\ TaskOf(View.c, e.id) = t /\ t # NoTask
  BY <1>1, HandlesOutcome DEF OnFailed, OutcomeTypes
<1>3. AfterOutcome(View, e) = AfterFailure(View, e, t)
  BY <1>2 DEF AfterOutcome
<1>4. Popped(e.id) \in Contexts /\ Bare(Popped(e.id)) = NoLonger(Bare(ctx), e.id)
  BY <1>1, <1>2, TaskOfBare, PoppedFields DEF Plain
<1>5. CASE retry[t].max > 0 /\ e.name # "fatal" /\ HasAttemptLeft(retry[t])
  <2>1. PICK u \in TaskId :
          /\ Fresh(u)
          /\ tasks' = [tasks EXCEPT ![u] = NewTask("inner", <<>>)]
          /\ retry' = [retry EXCEPT ![t].attempt = @ + 1, ![u].owner = t]
          /\ ctx' = Scheduled(Popped(e.id), "timer", "retry", u)
          /\ UNCHANGED <<notify, mode>>
    BY <1>1, <1>5 DEF OnFailed
  <2>2. u = FreeSlot(tasks)
    BY <2>1, FreshIsFirst
  <2>3. AfterFailure(View, e, t) =
          V(tasks', notify, retry', mode, pos + 1,
            Scheduled(NoLonger(Bare(ctx), e.id), "timer", "retry", u))
    BY <1>5, <2>1, <2>2, ViewParts DEF AfterFailure
  <2>4. Bare(ctx') = Scheduled(NoLonger(Bare(ctx), e.id), "timer", "retry", u)
    BY <1>4, <2>1, BareScheduled
  <2> QED BY <1>2, <1>3, <2>1, <2>3, <2>4, ViewNext DEF Functional
<1>6. CASE ~(retry[t].max > 0 /\ e.name # "fatal" /\ HasAttemptLeft(retry[t]))
  <2>1. /\ tasks' = [tasks EXCEPT ![t] = Failed(@, t)] /\ notify' = Notification(t)
        /\ ctx' = Popped(e.id) /\ mode' = "resume" /\ UNCHANGED retry
    BY <1>1, <1>6 DEF OnFailed, Fail
  <2>2. Tells(tasks, t) = Notification(t)
    BY DEF Tells, Notification
  <2>3. AfterFailure(View, e, t) =
          V(tasks', notify', retry, "resume", pos + 1, NoLonger(Bare(ctx), e.id))
    BY <1>6, <2>1, <2>2, ViewParts DEF AfterFailure
  <2> QED BY <1>2, <1>3, <1>4, <2>1, <2>3, ViewNext DEF Functional
<1> QED BY <1>5, <1>6

LEMMA OnTimerFiredIs ==
  ASSUME Plain, OnTimerFired
  PROVE  Functional
<1>1. PICK e, t, o : e = Current /\ t = TaskAt(e.id) /\ o = retry[t].owner
  OBVIOUS
<1>2. /\ Step(prog, Events, Len(hist), View) = AfterOutcome(View, e)
      /\ e.type = "timerFired" /\ e.id \in Nat
      /\ pos' = pos + 1 /\ mode = "event" /\ ctx \in Contexts
      /\ TaskOf(View.c, e.id) = t /\ t # NoTask
      /\ tasks' = [tasks EXCEPT ![t] = Completed(@, 0)] /\ notify' = Notification(t)
      /\ UNCHANGED retry
  BY <1>1, HandlesOutcome DEF OnTimerFired, OutcomeTypes, Complete
<1>3. AfterOutcome(View, e) = AfterTimer(View, e, t)
  BY <1>2 DEF AfterOutcome
<1>4. Popped(e.id) \in Contexts /\ Bare(Popped(e.id)) = NoLonger(Bare(ctx), e.id)
  BY <1>1, <1>2, TaskOfBare, PoppedFields DEF Plain
<1>5. Tells(tasks, t) = Notification(t)
  BY DEF Tells, Notification
<1>6. CASE o # NoTask
  <2>1. ctx' = Scheduled(Popped(e.id), retry[o].kind, retry[o].name, o) /\ UNCHANGED mode
    BY <1>1, <1>6 DEF OnTimerFired
  <2>2. AfterTimer(View, e, t) =
          V(tasks', notify', retry, mode, pos + 1,
            Scheduled(NoLonger(Bare(ctx), e.id), retry[o].kind, retry[o].name, o))
    BY <1>1, <1>2, <1>5, <1>6, ViewParts DEF AfterTimer
  <2>3. Bare(ctx') = Scheduled(NoLonger(Bare(ctx), e.id), retry[o].kind, retry[o].name, o)
    BY <1>4, <2>1, BareScheduled
  <2> QED BY <1>2, <1>3, <2>1, <2>2, <2>3, ViewNext DEF Functional
<1>7. CASE o = NoTask
  <2>1. ctx' = Popped(e.id) /\ mode' = "resume"
    BY <1>1, <1>7 DEF OnTimerFired
  <2>2. AfterTimer(View, e, t) =
          V(tasks', notify', retry, "resume", pos + 1, NoLonger(Bare(ctx), e.id))
    BY <1>1, <1>2, <1>5, <1>7, ViewParts DEF AfterTimer
  <2> QED BY <1>2, <1>3, <1>4, <2>1, <2>2, ViewNext DEF Functional
<1> QED BY <1>6, <1>7

LEMMA OnEventRaisedIs ==
  ASSUME Plain, OnEventRaised
  PROVE  Functional
<1>1. PICK e, n, w : e = Current /\ n = e.name /\ w = ctx.wait[n]
  OBVIOUS
<1>2. /\ Step(prog, Events, Len(hist), View) = AfterEvent(View, e)
      /\ e.type = "eventRaised" /\ pos' = pos + 1 /\ mode = "event" /\ notify = NoTask
      /\ ctx \in Contexts /\ UNCHANGED retry
  BY <1>1, HandlesEvent DEF OnEventRaised
<1>3. AfterEvent(View, e) = AfterRaised(View, e)
  BY <1>2, EventKinds
<1>4. Bare(ctx).wait = ctx.wait /\ Bare(ctx).recv = ctx.recv /\ Bare(ctx).got = ctx.got
  BY <1>2, BareParts DEF SameEvents
<1>5. CASE w # <<>>
  <2>1. PICK t : t = Head(w)
    OBVIOUS
  <2>2. /\ tasks' = [tasks EXCEPT ![t] = Completed(@, e.val)] /\ notify' = Notification(t)
        /\ ctx' = [ctx EXCEPT !.wait[n] = Tail(@), !.got[n] = Append(@, e.val)]
        /\ mode' = "resume"
    BY <1>1, <1>5, <2>1 DEF OnEventRaised, Complete
  <2>3. Tells(tasks, t) = Notification(t)
    BY DEF Tells, Notification
  <2>4. AfterRaised(View, e) =
          V(tasks', notify', retry, "resume", pos + 1,
            [Bare(ctx) EXCEPT !.wait[n] = Tail(@), !.got[n] = Append(@, e.val)])
    BY <1>1, <1>4, <1>5, <2>1, <2>2, <2>3, ViewParts DEF AfterRaised
  <2>5. Bare(ctx') = [Bare(ctx) EXCEPT !.wait[n] = Tail(@), !.got[n] = Append(@, e.val)]
    BY <1>2, <2>2 DEF Bare, Contexts
  <2> QED BY <1>2, <1>3, <2>2, <2>4, <2>5, ViewNext DEF Functional
<1>6. CASE w = <<>>
  <2>1. /\ ctx' = [ctx EXCEPT !.recv[n] = Append(@, e.val)]
        /\ UNCHANGED <<tasks, notify, mode>>
    BY <1>1, <1>6 DEF OnEventRaised
  <2>2. AfterRaised(View, e) = At(View, mode, pos + 1, [Bare(ctx) EXCEPT !.recv[n] = Append(@, e.val)])
    BY <1>1, <1>4, <1>6, ViewParts DEF AfterRaised
  <2>3. Bare(ctx') = [Bare(ctx) EXCEPT !.recv[n] = Append(@, e.val)]
    BY <1>2, <2>1 DEF Bare, Contexts
  <2>4. View' = At(View, mode, pos + 1, [Bare(ctx) EXCEPT !.recv[n] = Append(@, e.val)])
    BY <1>2, <2>1, <2>3, OnlyContext
  <2> QED BY <1>2, <1>3, <2>2, <2>4 DEF Functional
<1> QED BY <1>5, <1>6

----------------------------------------------------------------------------
(* The composites and the generator.                                       *)

LEMMA ToldIs ==
  /\ \A p, k : ParentTold(tasks, p, k) = Told(p, k)
  /\ LateWaiter(tasks, notify) = TimedOutWaiter
<1>1. \A p, k : AllTold(tasks, p, k) = WhenAllTold(p, k)
  BY DEF AllTold, WhenAllTold
<1>2. \A p, k : WaitTold(tasks, p, k) = EventTold(p, k)
  BY DEF WaitTold, EventTold
<1>3. \A p, k : ParentTold(tasks, p, k) = Told(p, k)
  BY <1>1, <1>2 DEF ParentTold, Told, WhenAnyTold
<1>4. LateWaiter(tasks, notify) = TimedOutWaiter
  BY DEF LateWaiter, TimedOutWaiter, Ended, IsComplete
<1> QED BY <1>3, <1>4

LEMMA HopIs ==
  ASSUME Plain, Hop
  PROVE  Functional
<1>1. PICK k, p, c : /\ k = notify /\ p = tasks[k].parent
                     /\ c = [Bare(ctx) EXCEPT !.wait = [n \in Names |-> Without(@[n], TimedOutWaiter)]]
  OBVIOUS
<1>2. /\ mode = "resume" /\ k # NoTask /\ mode' = mode /\ pos' = pos /\ UNCHANGED retry
      /\ ctx' = [ctx EXCEPT !.wait = [n \in Names |-> Without(@[n], TimedOutWaiter)]]
      /\ ctx \in Contexts
  BY <1>1 DEF Hop, OnChildCompleted, Plain, TurnInv, TurnTypes
<1>3. IF IsComplete(p)
      THEN notify' = NoTask /\ UNCHANGED tasks
      ELSE /\ tasks' = [tasks EXCEPT ![p] = Told(p, k)]
           /\ notify' = IF Told(p, k).out = "pending" THEN NoTask ELSE Notification(p)
  BY <1>1 DEF Hop, OnChildCompleted
<1>4. Step(prog, Events, Len(hist), View) = AfterHop(View)
  BY <1>1, <1>2, ViewParts DEF Step
<1>5. ParentTold(tasks, p, k) = Told(p, k) /\ LateWaiter(tasks, k) = TimedOutWaiter
      /\ (Ended(tasks, p) <=> IsComplete(p)) /\ Tells(tasks, p) = Notification(p)
  BY <1>1, ToldIs DEF Ended, IsComplete, Tells, Notification
<1>6. Bare(ctx') = c
  <2>1. Bare(ctx).wait = ctx.wait
    BY <1>2, BareParts DEF SameEvents
  <2>2. PICK W : W = [n \in Names |-> Without(ctx.wait[n], TimedOutWaiter)]
    OBVIOUS
  <2>3. ctx' = [ctx EXCEPT !.wait = W] /\ c = [Bare(ctx) EXCEPT !.wait = W]
    BY <1>1, <1>2, <2>1, <2>2
  <2> QED BY <1>2, <2>3 DEF Bare, Contexts
<1>7. AfterHop(View) =
        IF Ended(tasks, p) THEN V(tasks, NoTask, retry, mode, pos, c)
        ELSE V([tasks EXCEPT ![p] = Told(p, k)],
               IF Told(p, k).out = "pending" THEN NoTask ELSE Notification(p),
               retry, mode, pos, c)
  BY <1>1, <1>5, ViewParts DEF AfterHop
<1>8. View' = V(tasks', notify', retry, mode, pos, c)
  BY <1>2, <1>6, ViewNext
<1>9. AfterHop(View) = V(tasks', notify', retry, mode, pos, c)
  <2>1. CASE IsComplete(p)
    BY <1>3, <1>5, <1>7, <2>1
  <2>2. CASE ~IsComplete(p)
    BY <1>3, <1>5, <1>7, <2>2
  <2> QED BY <2>1, <2>2
<1> QED BY <1>4, <1>8, <1>9 DEF Functional

(* What the program does next, and what it awaits.                         *)
LEMMA NextIs ==
  ASSUME Plain
  PROVE  /\ NextOf(prog, View) = Instruction /\ ctx \in Contexts
         /\ SameProgram(ctx, Bare(ctx)) /\ View.c = Bare(ctx)
         /\ SameEvents(ctx, Bare(ctx))
         /\ Instruction \in Instructions
<1>1. ctx \in Contexts /\ SidecarTypes
  BY DEF Plain, TurnInv, TurnTypes
<1>2. SameProgram(ctx, Bare(ctx)) /\ SameEvents(ctx, Bare(ctx)) /\ View.c = Bare(ctx)
  BY <1>1, BareParts, ViewParts
<1>3. NextOf(prog, View) = Instruction
  BY <1>2 DEF NextOf, Instruction, SameProgram
<1> QED BY <1>1, <1>2, <1>3, InstructionTyped

LEMMA ResumesIs ==
  ASSUME Plain, mode = "resume", notify = NoTask
  PROVE  /\ Step(prog, Events, Len(hist), View) = AfterResume(prog, View)
         /\ View.c.prev = ctx.prev /\ View.c.gen = ctx.gen
         /\ (ctx.prev # NoTask /\ Ended(tasks, ctx.prev)) <=> Ready
<1>1. Step(prog, Events, Len(hist), View) = AfterResume(prog, View)
  BY ViewParts DEF Step
<1>2. View.c.prev = ctx.prev /\ View.c.gen = ctx.gen
  BY NextIs DEF SameProgram
<1>3. (ctx.prev # NoTask /\ Ended(tasks, ctx.prev)) <=> Ready
  BY DEF Ended, Ready, IsComplete
<1> QED BY <1>1, <1>2, <1>3

LEMMA StayYieldedIs ==
  ASSUME Plain, StayYielded
  PROVE  Functional
<1>1. /\ mode = "resume" /\ notify = NoTask /\ ~Ready /\ mode' = "event"
      /\ UNCHANGED <<tasks, notify, ctx, retry, pos>>
  BY DEF StayYielded
<1>2. AfterResume(prog, View) = At(View, "event", pos, Bare(ctx))
  BY <1>1, ResumesIs, ViewParts DEF AfterResume
<1>3. View' = At(View, "event", pos, Bare(ctx))
  BY <1>1, OnlyContext
<1> QED BY <1>1, <1>2, <1>3, ResumesIs DEF Functional

LEMMA ResumeFinishedIs ==
  ASSUME Plain, ResumeFinished
  PROVE  Functional
<1>1. /\ mode = "resume" /\ notify = NoTask /\ Ready /\ ctx.gen = "done"
      /\ UNCHANGED <<tasks, notify, retry, pos>> /\ ctx \in Contexts
      /\ IF IsFailed(ctx.prev) THEN ctx' = SetFailed(ctx, "exception") /\ mode' = "done"
         ELSE mode' = "event" /\ UNCHANGED ctx
  BY DEF ResumeFinished, Returns, FailTurn, Plain, TurnInv, TurnTypes
<1>2. AfterResume(prog, View) =
        IF IsFailed(ctx.prev) THEN At(View, "done", pos, SetFailed(Bare(ctx), "exception"))
        ELSE At(View, "event", pos, Bare(ctx))
  BY <1>1, ResumesIs, ViewParts DEF AfterResume, IsFailed
<1>3. Bare(SetFailed(ctx, "exception")) = SetFailed(Bare(ctx), "exception")
  BY <1>1, BareCompletes DEF Statuses, Reasons
<1>4. CASE IsFailed(ctx.prev)
  <2>1. View' = At(View, "done", pos, SetFailed(Bare(ctx), "exception"))
    BY <1>1, <1>3, <1>4, OnlyContext
  <2> QED BY <1>1, <1>2, <1>4, <2>1, ResumesIs DEF Functional
<1>5. CASE ~IsFailed(ctx.prev)
  <2>1. View' = At(View, "event", pos, Bare(ctx))
    BY <1>1, <1>5, OnlyContext
  <2> QED BY <1>1, <1>2, <1>5, <2>1, ResumesIs DEF Functional
<1> QED BY <1>4, <1>5

(* The results the program has seen.                                       *)
SeenMore(c, t) == [c EXCEPT !.seen = Append(@, <<tasks[t].out, tasks[t].val>>)]

LEMMA BareSeen ==
  ASSUME TurnInv, ctx.prev # NoTask
  PROVE  /\ SeenMore(ctx, ctx.prev) \in Contexts
         /\ Bare(SeenMore(ctx, ctx.prev)) = SeenMore(Bare(ctx), ctx.prev)
         /\ \A c \in Contexts : /\ [c EXCEPT !.gen = "done"] \in Contexts
                                /\ Bare([c EXCEPT !.gen = "done"]) = [Bare(c) EXCEPT !.gen = "done"]
         /\ \A c \in Contexts : \A p : Bare([c EXCEPT !.pc = p]) = [Bare(c) EXCEPT !.pc = p]
         /\ SameIds(ctx, SeenMore(ctx, ctx.prev)) /\ SameStatus(ctx, SeenMore(ctx, ctx.prev))
         /\ SamePatches(ctx, SeenMore(ctx, ctx.prev))
<1>1. ctx \in Contexts /\ ctx.prev \in TaskId
  <2>1. ctx \in Contexts
    BY DEF TurnInv, TurnTypes
  <2> QED BY <2>1, ContextTypes DEF OptTask
<1>2. PICK S \in Seq(Outcomes \X Nat) :
        S = Append(ctx.seen, <<tasks[ctx.prev].out, tasks[ctx.prev].val>>)
  <2>1. tasks[ctx.prev].out \in Outcomes /\ tasks[ctx.prev].val \in Nat
    BY <1>1 DEF TurnInv, TurnTypes, Task
  <2>2. ctx.seen \in Seq(Outcomes \X Nat)
    BY <1>1, ContextTypes, Zenon
  <2>3. Append(ctx.seen, <<tasks[ctx.prev].out, tasks[ctx.prev].val>>) \in Seq(Outcomes \X Nat)
    BY <2>1, <2>2
  <2> QED BY <2>3
<1>3. /\ SeenMore(ctx, ctx.prev) = [ctx EXCEPT !.seen = S]
      /\ SeenMore(Bare(ctx), ctx.prev) = [Bare(ctx) EXCEPT !.seen = S]
  <2>1. Bare(ctx).seen = ctx.seen
    BY <1>1, BareParts DEF SameProgram
  <2> QED BY <1>2, <2>1 DEF SeenMore
<1>4. SeenMore(ctx, ctx.prev) \in Contexts
      /\ Bare(SeenMore(ctx, ctx.prev)) = SeenMore(Bare(ctx), ctx.prev)
  <2>1. ASSUME NEW c \in Contexts, NEW s \in Seq(Outcomes \X Nat)
        PROVE  [c EXCEPT !.seen = s] \in Contexts
    BY DEF Contexts
  <2>2. ASSUME NEW c \in Contexts, NEW s
       PROVE  Bare([c EXCEPT !.seen = s]) = [Bare(c) EXCEPT !.seen = s]
    BY DEF Bare, Contexts
  <2>3. [ctx EXCEPT !.seen = S] \in Contexts
    BY <1>1, <1>2, <2>1
  <2>4. Bare([ctx EXCEPT !.seen = S]) = [Bare(ctx) EXCEPT !.seen = S]
    BY <1>1, <2>2, Zenon
  <2> QED BY <1>3, <2>3, <2>4
<1>5. \A c \in Contexts : /\ [c EXCEPT !.gen = "done"] \in Contexts
                          /\ Bare([c EXCEPT !.gen = "done"]) = [Bare(c) EXCEPT !.gen = "done"]
  <2>1. ASSUME NEW c \in Contexts, NEW g \in {"none", "live", "done"}
        PROVE  [c EXCEPT !.gen = g] \in Contexts
    BY DEF Contexts
  <2>2. ASSUME NEW c \in Contexts, NEW g
       PROVE  Bare([c EXCEPT !.gen = g]) = [Bare(c) EXCEPT !.gen = g]
    BY DEF Bare, Contexts
  <2> QED BY <2>1, <2>2
<1>6. ASSUME NEW c \in Contexts, NEW p
     PROVE  Bare([c EXCEPT !.pc = p]) = [Bare(c) EXCEPT !.pc = p]
  BY DEF Bare, Contexts
<1>7. SameIds(ctx, SeenMore(ctx, ctx.prev)) /\ SameStatus(ctx, SeenMore(ctx, ctx.prev))
      /\ SamePatches(ctx, SeenMore(ctx, ctx.prev))
  BY <1>1, <1>3 DEF Contexts, SameIds, SameStatus, SamePatches
<1> QED BY <1>4, <1>5, <1>6, <1>7

LEMMA ResumeGeneratorIs ==
  ASSUME Plain, ResumeGenerator
  PROVE  Functional
<1>1. PICK t, h, c : t = ctx.prev /\ h = Instruction.handler /\ c = SeenMore(ctx, t)
  OBVIOUS
<1>2. /\ mode = "resume" /\ notify = NoTask /\ Ready /\ ctx.gen = "live" /\ t # NoTask
      /\ UNCHANGED <<tasks, notify, retry, pos>> /\ ctx \in Contexts
  BY <1>1 DEF ResumeGenerator, Returns, Ready, Plain, TurnInv, TurnTypes
<1>3. IF IsFailed(t) /\ h = 0
      THEN ctx' = SetFailed([c EXCEPT !.gen = "done"], "exception") /\ mode' = "done"
      ELSE /\ ctx' = [c EXCEPT !.pc = IF IsFailed(t) THEN h ELSE @ + 1]
           /\ mode' = "run"
  BY <1>1 DEF ResumeGenerator, SeenMore, FailTurn
<1>4. /\ c \in Contexts /\ Bare(c) = SeenMore(Bare(ctx), t) /\ SeenMore(Bare(ctx), t).pc = c.pc
      /\ Bare(SetFailed([c EXCEPT !.gen = "done"], "exception"))
           = SetFailed([Bare(c) EXCEPT !.gen = "done"], "exception")
      /\ \A p : Bare([c EXCEPT !.pc = p]) = [Bare(c) EXCEPT !.pc = p]
  <2>1. c \in Contexts /\ Bare(c) = SeenMore(Bare(ctx), t)
    BY <1>1, <1>2, BareSeen DEF Plain
  <2>2. PICK d \in Contexts : d = [c EXCEPT !.gen = "done"] /\ Bare(d) = [Bare(c) EXCEPT !.gen = "done"]
    BY <1>1, <1>2, <2>1, BareSeen DEF Plain
  <2>3. Bare(SetFailed(d, "exception")) = SetFailed(Bare(d), "exception")
    BY <2>2, BareCompletes DEF Statuses, Reasons
  <2>4. \A p : Bare([c EXCEPT !.pc = p]) = [Bare(c) EXCEPT !.pc = p]
    BY <1>1, <1>2, <2>1, BareSeen DEF Plain
  <2>5. Bare(c).pc = c.pc
    BY <2>1, BareParts DEF SameProgram
  <2> QED BY <2>1, <2>2, <2>3, <2>4, <2>5
<1>5. AfterResume(prog, View) =
        IF IsFailed(t) /\ h = 0
        THEN At(View, "done", pos, SetFailed([Bare(c) EXCEPT !.gen = "done"], "exception"))
        ELSE At(View, "run", pos, [Bare(c) EXCEPT !.pc = IF IsFailed(t) THEN h ELSE @ + 1])
  <2>1. View.c = Bare(ctx) /\ NextOf(prog, View).handler = h
    BY <1>1, NextIs
  <2>2. View.c.prev = t /\ View.c.gen = "live" /\ t # NoTask /\ Ended(tasks, t)
    BY <1>1, <1>2, ResumesIs
  <2>3. Seeing(View, t) = Bare(c)
    BY <1>4, <2>1, ViewParts DEF SeenMore, Seeing
  <2> QED BY <2>1, <2>2, <2>3, ViewParts DEF AfterResume, IsFailed
<1>6. CASE IsFailed(t) /\ h = 0
  <2>1. View' = At(View, "done", pos, SetFailed([Bare(c) EXCEPT !.gen = "done"], "exception"))
    BY <1>2, <1>3, <1>4, <1>6, OnlyContext
  <2> QED BY <1>2, <1>5, <1>6, <2>1, ResumesIs DEF Functional
<1>7. CASE ~(IsFailed(t) /\ h = 0)
  <2>1. PICK p : p = IF IsFailed(t) THEN h ELSE c.pc + 1
    OBVIOUS
  <2>2. ctx' = [c EXCEPT !.pc = p] /\ mode' = "run"
    BY <1>3, <1>7, <2>1
  <2>3. [Bare(c) EXCEPT !.pc = IF IsFailed(t) THEN h ELSE @ + 1] = [Bare(c) EXCEPT !.pc = p]
    BY <1>4, <2>1
  <2>4. View' = At(View, "run", pos, [Bare(c) EXCEPT !.pc = p])
    BY <1>2, <1>4, <2>2, OnlyContext
  <2> QED BY <1>2, <1>5, <1>7, <2>3, <2>4, ResumesIs DEF Functional
<1> QED BY <1>6, <1>7

----------------------------------------------------------------------------
(* What the program calls.                                                 *)

LEMMA AssigningIs ==
  ASSUME Plain, NEW t \in TaskId
  PROVE  Assigned(t) \in Contexts /\ Bare(Assigned(t)) = Assigning(View, t)
<1>1. ctx \in Contexts /\ View.c = Bare(ctx) /\ SameProgram(ctx, Bare(ctx))
  BY NextIs
<1>2. PICK p, E : p = ctx.pc + 1 /\ E = Append(ctx.env, t)
  OBVIOUS
<1>3. Assigned(t) = [ctx EXCEPT !.pc = p, !.env = E]
      /\ Assigning(View, t) = [Bare(ctx) EXCEPT !.pc = p, !.env = E]
  BY <1>1, <1>2 DEF Assigned, Assigning, SameProgram
<1>4. Assigned(t) \in Contexts
  BY <1>1, AssignedFields
<1>5. ctx \in Contexts
  BY <1>1
<1>6. Bare(Assigned(t)) = Assigning(View, t)
  BY <1>3, <1>5 DEF Bare, Contexts
<1> QED BY <1>4, <1>6

(* The step that runs an instruction.                                      *)
LEMMA RunsIs ==
  ASSUME Plain, mode = "run"
  PROVE  Step(prog, Events, Len(hist), View)
           = AfterInstruction(Events, Len(hist), View, Instruction)
<1>1. NextOf(prog, View) = Instruction /\ View.mode = "run"
  BY NextIs, ViewParts
<1> QED BY <1>1 DEF Step

LEMMA RaisesIs ==
  ASSUME Plain, Raises, UNCHANGED <<tasks, notify, retry, pos>>
  PROVE  View' = Raising(View)
<1>1. PICK d : d = [ctx EXCEPT !.gen = "done"]
  OBVIOUS
<1>2. ctx \in Contexts
  BY NextIs
<1>3. d \in Contexts /\ Bare(d) = [Bare(ctx) EXCEPT !.gen = "done"]
  BY <1>1, <1>2 DEF Bare, Contexts
<1>4. ctx' = SetFailed(d, "exception") /\ mode' = "done"
  BY <1>1 DEF Raises, FailTurn
<1>5. Bare(ctx') = SetFailed([Bare(ctx) EXCEPT !.gen = "done"], "exception")
  BY <1>3, <1>4, BareCompletes DEF Statuses, Reasons
<1>6. View' = At(View, "done", pos, SetFailed([Bare(ctx) EXCEPT !.gen = "done"], "exception"))
  BY <1>4, <1>5, OnlyContext
<1> QED BY <1>6, ViewParts DEF Raising

LEMMA RunScheduleIs ==
  ASSUME Plain, RunSchedule
  PROVE  Functional
<1>1. PICK i : i = Instruction
  OBVIOUS
<1>2. PICK t \in TaskId :
        /\ Fresh(t)
        /\ tasks' = [tasks EXCEPT ![t] = NewTask("leaf", <<>>)]
        /\ retry' = [retry EXCEPT ![t] = [NoRetry EXCEPT !.max = i.max, !.kind = i.kind,
                                                         !.name = i.name]]
        /\ ctx' = Scheduled(Assigned(t), i.kind, i.name, t)
  BY <1>1 DEF RunSchedule
<1>3. mode = "run" /\ i.op = "schedule" /\ UNCHANGED <<notify, mode, pos>>
  BY <1>1 DEF RunSchedule, AtInstruction
<1>4. t = FreeSlot(tasks)
  BY <1>2, FreshIsFirst
<1>5. AfterInstruction(Events, Len(hist), View, i) = AfterSchedule(View, i)
  BY <1>3 DEF AfterInstruction
<1>6. AfterSchedule(View, i) =
        V(tasks', notify, retry', mode, pos, Scheduled(Assigning(View, t), i.kind, i.name, t))
  BY <1>2, <1>4, ViewParts DEF AfterSchedule
<1>7. Bare(ctx') = Scheduled(Assigning(View, t), i.kind, i.name, t)
  BY <1>2, AssigningIs, BareScheduled
<1> QED BY <1>1, <1>3, <1>5, <1>6, <1>7, RunsIs, ViewNext DEF Functional

LEMMA RunWaitNowIs ==
  ASSUME Plain, RunWaitNow
  PROVE  Functional
<1>1. PICK i, n, r : i = Instruction /\ n = i.name /\ r = ctx.recv[n]
  OBVIOUS
<1>2. PICK t \in TaskId :
        /\ r # <<>> \/ i.timeout = "zero"
        /\ Fresh(t)
        /\ IF r # <<>>
           THEN /\ tasks' = [tasks EXCEPT ![t] = Completed(NewTask("leaf", <<>>), Head(r))]
                /\ ctx' = [Assigned(t) EXCEPT !.recv[n] = Tail(@),
                                              !.got[n] = Append(@, Head(r))]
           ELSE /\ tasks' = [tasks EXCEPT ![t] = Failed(NewTask("leaf", <<>>), t)]
                /\ ctx' = Assigned(t)
  BY <1>1 DEF RunWaitNow
<1>3. mode = "run" /\ i.op = "wait" /\ UNCHANGED <<notify, mode, pos, retry>>
  BY <1>1 DEF RunWaitNow, AtInstruction
<1>4. t = FreeSlot(tasks)
  BY <1>2, FreshIsFirst
<1>5. View.c.recv[n] = r
  BY <1>1, NextIs DEF SameEvents
<1>6. AfterInstruction(Events, Len(hist), View, i) = AfterWaitNow(View, i)
  BY <1>1, <1>2, <1>3, <1>5 DEF AfterInstruction
<1>7. PICK a, b : a = Assigned(t) /\ b = Assigning(View, t) /\ a \in Contexts /\ Bare(a) = b
  BY AssigningIs
<1>8. CASE r # <<>>
  <2>1. AfterWaitNow(View, i) =
          V(tasks', notify, retry, mode, pos,
            [b EXCEPT !.recv[n] = Tail(@), !.got[n] = Append(@, Head(r))])
    BY <1>1, <1>2, <1>4, <1>5, <1>7, <1>8, ViewParts DEF AfterWaitNow
  <2>2. ctx' = [a EXCEPT !.recv[n] = Tail(@), !.got[n] = Append(@, Head(r))]
    BY <1>2, <1>7, <1>8
  <2>3. Bare(ctx') = [b EXCEPT !.recv[n] = Tail(@), !.got[n] = Append(@, Head(r))]
    BY <1>7, <2>2 DEF Bare, Contexts
  <2> QED BY <1>1, <1>3, <1>6, <2>1, <2>3, RunsIs, ViewNext DEF Functional
<1>9. CASE r = <<>>
  <2>1. AfterWaitNow(View, i) = V(tasks', notify, retry, mode, pos, b)
    BY <1>1, <1>2, <1>4, <1>5, <1>7, <1>9, ViewParts DEF AfterWaitNow
  <2>2. Bare(ctx') = b
    BY <1>2, <1>7, <1>9
  <2> QED BY <1>1, <1>3, <1>6, <2>1, <2>2, RunsIs, ViewNext DEF Functional
<1> QED BY <1>8, <1>9

LEMMA RunWaitIs ==
  ASSUME Plain, RunWait
  PROVE  Functional
<1>1. PICK i, n, w : i = Instruction /\ n = i.name
                     /\ w = IF i.timeout = "none" THEN "optional" ELSE "event"
  OBVIOUS
<1>2. PICK e \in TaskId :
        /\ e + 2 \in TaskId /\ EventWithTimeout(e, e + 1, e + 2)
        /\ ctx' = Scheduled([Assigned(e + 2) EXCEPT !.wait[n] = Append(@, e)], "timer", w, e + 1)
  BY <1>1 DEF RunWait
<1>3. /\ mode = "run" /\ i.op = "wait" /\ UNCHANGED <<notify, retry, mode, pos>>
      /\ i.timeout # "zero" /\ ctx.recv[n] = <<>>
  BY <1>1 DEF RunWait, AtInstruction, Registers
<1>4. e = FreeSlot(tasks) /\ tasks' = WithWait(tasks, e)
  BY <1>2, FreshIsFirst DEF EventWithTimeout, WithWait
<1>5. View.c.recv[n] = <<>>
  BY <1>3, NextIs DEF SameEvents
<1>6. AfterInstruction(Events, Len(hist), View, i) = AfterWait(View, i)
  BY <1>1, <1>3, <1>5 DEF AfterInstruction
<1>7. PICK a, b : /\ a = Assigned(e + 2) /\ b = Assigning(View, e + 2)
                  /\ a \in Contexts /\ Bare(a) = b
  BY <1>2, AssigningIs
<1>8. AfterWait(View, i) =
        V(tasks', notify, retry, mode, pos,
          Scheduled([b EXCEPT !.wait[n] = Append(@, e)], "timer", w, e + 1))
  BY <1>1, <1>4, <1>7, ViewParts DEF AfterWait
<1>9. Bare(ctx') = Scheduled([b EXCEPT !.wait[n] = Append(@, e)], "timer", w, e + 1)
  <2>1. ctx' = Scheduled([a EXCEPT !.wait[n] = Append(@, e)], "timer", w, e + 1)
    BY <1>2, <1>7
  <2> QED BY <1>7, <2>1 DEF Bare, Scheduled, Contexts
<1> QED BY <1>1, <1>3, <1>6, <1>8, <1>9, RunsIs, ViewNext DEF Functional

LEMMA RunWaitBeforeUpgradeNever ==
  ASSUME Plain, RunWaitBeforeUpgrade
  PROVE  FALSE
BY DEF Plain, Steady, RunWaitBeforeUpgrade

(* The composites are made of the table.                                   *)
LEMMA ComposesIs ==
  ASSUME NEW s
  PROVE  /\ AllOf(tasks, s) = NewWhenAll(s) /\ AnyOf(tasks, s) = NewWhenAny(s)
         /\ CanAdopt(tasks, s) <=> Adoptable(s)
         /\ \A c, rec : WithComposite(tasks, c, rec) = Adopt(c, rec)
<1>1. EndedAmong(tasks, s) = CompleteAmong(s) /\ FaultyAmong(tasks, s) = FailedAmong(s)
  BY DEF EndedAmong, CompleteAmong, FaultyAmong, FailedAmong, Ended, IsComplete, IsFailed
<1>2. AllOf(tasks, s) = NewWhenAll(s) /\ AnyOf(tasks, s) = NewWhenAny(s)
  BY <1>1 DEF AllOf, NewWhenAll, AnyOf, NewWhenAny
<1>3. CanAdopt(tasks, s) <=> Adoptable(s)
  BY DEF CanAdopt, Adoptable, Live, HasLiveParent, Ended, IsComplete
<1>4. \A c, rec : WithComposite(tasks, c, rec) = Adopt(c, rec)
  BY DEF WithComposite, Adopt
<1> QED BY <1>2, <1>3, <1>4

LEMMA RunComposeIs ==
  ASSUME Plain, RunCompose
  PROVE  Functional
<1>1. PICK i, s : i = Instruction /\ s = [j \in DOMAIN i.of |-> ctx.env[i.of[j]]]
  OBVIOUS
<1>2. mode = "run" /\ i.op \in {"all", "any"} /\ UNCHANGED <<notify, retry, pos>>
  BY <1>1 DEF RunCompose
<1>3. IF Members(i.of) \subseteq DOMAIN ctx.env /\ Adoptable(s)
      THEN \E c \in TaskId :
             /\ IF i.op = "all" THEN WhenAll(c, s) ELSE WhenAny(c, s)
             /\ ctx' = Assigned(c)
             /\ UNCHANGED mode
      ELSE Raises /\ UNCHANGED tasks
  BY <1>1 DEF RunCompose, Assigns
<1>4. View.c.env = ctx.env
  BY NextIs DEF SameProgram
<1>5. AfterInstruction(Events, Len(hist), View, i) = AfterCompose(View, i)
  BY <1>2 DEF AfterInstruction
<1>6. CASE Members(i.of) \subseteq DOMAIN ctx.env /\ Adoptable(s)
  <2>1. PICK c \in TaskId :
          /\ IF i.op = "all" THEN WhenAll(c, s) ELSE WhenAny(c, s)
          /\ ctx' = Assigned(c)
          /\ UNCHANGED mode
    BY <1>3, <1>6
  <2>2. Fresh(c) /\ tasks' = Adopt(c, IF i.op = "all" THEN NewWhenAll(s) ELSE NewWhenAny(s))
    BY <2>1 DEF WhenAll, WhenAny
  <2>3. tasks' = WithComposite(tasks, c, IF i.op = "all" THEN AllOf(tasks, s) ELSE AnyOf(tasks, s))
    BY <2>2, ComposesIs
  <2>4. c = FreeSlot(tasks)
    BY <2>2, FreshIsFirst
  <2>5. AfterCompose(View, i) = V(tasks', notify, retry, mode, pos, Assigning(View, c))
    BY <1>1, <1>4, <1>6, <2>3, <2>4, ComposesIs, ViewParts DEF AfterCompose
  <2>6. Bare(ctx') = Assigning(View, c)
    BY <2>1, AssigningIs
  <2> QED BY <1>1, <1>2, <1>5, <2>1, <2>5, <2>6, RunsIs, ViewNext DEF Functional
<1>7. CASE ~(Members(i.of) \subseteq DOMAIN ctx.env /\ Adoptable(s))
  <2>1. AfterCompose(View, i) = Raising(View)
    BY <1>1, <1>4, <1>7, ComposesIs, ViewParts DEF AfterCompose
  <2>2. View' = Raising(View)
    BY <1>2, <1>3, <1>7, RaisesIs
  <2> QED BY <1>1, <1>2, <1>5, <2>1, <2>2, RunsIs DEF Functional
<1> QED BY <1>6, <1>7

LEMMA RunYieldIs ==
  ASSUME Plain, RunYield
  PROVE  Functional
<1>1. PICK i : i = Instruction
  OBVIOUS
<1>2. mode = "run" /\ i.op = "yield" /\ UNCHANGED <<tasks, notify, retry, pos>> /\ ctx \in Contexts
  BY <1>1, NextIs DEF RunYield, AtInstruction
<1>3. View.c.env = ctx.env
  BY NextIs DEF SameProgram
<1>4. CASE {i.of} \subseteq DOMAIN ctx.env
  <2>1. PICK t : t = ctx.env[i.of]
    OBVIOUS
  <2>2. ctx' = [ctx EXCEPT !.prev = t] /\ mode' = "resume"
    BY <1>1, <1>4, <2>1 DEF RunYield, Assigns
  <2>3. AfterInstruction(Events, Len(hist), View, i) = At(View, "resume", pos, [View.c EXCEPT !.prev = t])
    BY <1>2, <1>3, <1>4, <2>1, ViewParts DEF AfterInstruction
  <2>4. Bare(ctx') = [View.c EXCEPT !.prev = t]
    BY <1>2, <2>2, ViewParts DEF Bare, Contexts
  <2>5. View' = At(View, "resume", pos, [View.c EXCEPT !.prev = t])
    BY <1>2, <2>2, <2>4, OnlyContext
  <2> QED BY <1>1, <1>2, <2>3, <2>5, RunsIs DEF Functional
<1>5. CASE ~({i.of} \subseteq DOMAIN ctx.env)
  <2>1. AfterInstruction(Events, Len(hist), View, i) = Raising(View)
    BY <1>2, <1>3, <1>5, ViewParts DEF AfterInstruction
  <2>2. View' = Raising(View)
    BY <1>1, <1>2, <1>5, RaisesIs DEF RunYield, Assigns
  <2> QED BY <1>1, <1>2, <2>1, <2>2, RunsIs DEF Functional
<1> QED BY <1>4, <1>5

\* The patches a turn knows are those of the events it took.
PatchesKnown == mode # "idle" => ctx.hpatch = PatchesRead(Events, pos)

LEMMA RunIfPatchedIs ==
  ASSUME Plain, PatchesKnown, RunIfPatched
  PROVE  Functional
<1>1. PICK i, p : i = Instruction /\ p = i.name
  OBVIOUS
<1>2. /\ mode = "run" /\ i.op = "patched" /\ UNCHANGED <<tasks, notify, retry, pos, mode>>
      /\ ctx \in Contexts /\ ctx.hpatch = PatchesRead(Events, pos)
  BY <1>1, NextIs DEF RunIfPatched, AtInstruction, PatchesKnown
<1>3. View.c = Bare(ctx) /\ View.c.apatch = ctx.apatch /\ View.c.unpatch = ctx.unpatch
  BY <1>2, ViewParts, BareParts
<1>4. IsPatched(ctx, p) <=> Applies(Events, Len(hist), View, p)
  BY <1>2, <1>3, ViewParts DEF IsPatched, Applies, Replaying
<1>5. IF IsPatched(ctx, p)
      THEN ctx' = [ctx EXCEPT !.pc = @ + 1, !.apatch = @ \cup {p}, !.epatch = @ \cup {p}]
      ELSE ctx' = [ctx EXCEPT !.pc = i.otherwise, !.unpatch = @ \cup {p}]
  BY <1>1 DEF RunIfPatched, Plain, Steady
<1>6. AfterInstruction(Events, Len(hist), View, i) = AfterPatched(Events, Len(hist), View, i)
  BY <1>2 DEF AfterInstruction
<1>7. CASE IsPatched(ctx, p)
  <2>1. AfterPatched(Events, Len(hist), View, i) =
          At(View, mode, pos, [View.c EXCEPT !.pc = @ + 1, !.apatch = @ \cup {p},
                                             !.epatch = @ \cup {p}])
    BY <1>1, <1>4, <1>7, ViewParts DEF AfterPatched
  <2>2. Bare(ctx') = [View.c EXCEPT !.pc = @ + 1, !.apatch = @ \cup {p}, !.epatch = @ \cup {p}]
    <3>1. PICK q, A, E : q = ctx.pc + 1 /\ A = ctx.apatch \cup {p} /\ E = ctx.epatch \cup {p}
      OBVIOUS
    <3>2. View.c.pc = ctx.pc /\ View.c.epatch = ctx.epatch
      BY <1>2, <1>3, BareParts DEF SameProgram
    <3>3. ctx' = [ctx EXCEPT !.pc = q, !.apatch = A, !.epatch = E]
      BY <1>5, <1>7, <3>1
    <3>4. [View.c EXCEPT !.pc = @ + 1, !.apatch = @ \cup {p}, !.epatch = @ \cup {p}]
            = [Bare(ctx) EXCEPT !.pc = q, !.apatch = A, !.epatch = E]
      BY <1>3, <3>1, <3>2
    <3>5. ctx \in Contexts
      BY <1>2
    <3>6. Bare(ctx') = [Bare(ctx) EXCEPT !.pc = q, !.apatch = A, !.epatch = E]
      BY <3>3, <3>5 DEF Bare, Contexts
    <3> QED BY <3>4, <3>6
  <2>3. View' = At(View, mode, pos, [View.c EXCEPT !.pc = @ + 1, !.apatch = @ \cup {p},
                                                   !.epatch = @ \cup {p}])
    BY <1>2, <2>2, OnlyContext
  <2> QED BY <1>1, <1>2, <1>6, <2>1, <2>3, RunsIs DEF Functional
<1>8. CASE ~IsPatched(ctx, p)
  <2>1. AfterPatched(Events, Len(hist), View, i) =
          At(View, mode, pos, [View.c EXCEPT !.pc = i.otherwise, !.unpatch = @ \cup {p}])
    BY <1>1, <1>4, <1>8, ViewParts DEF AfterPatched
  <2>2. Bare(ctx') = [View.c EXCEPT !.pc = i.otherwise, !.unpatch = @ \cup {p}]
    BY <1>2, <1>3, <1>5, <1>8 DEF Bare, Contexts
  <2>3. View' = At(View, mode, pos, [View.c EXCEPT !.pc = i.otherwise, !.unpatch = @ \cup {p}])
    BY <1>2, <2>2, OnlyContext
  <2> QED BY <1>1, <1>2, <1>6, <2>1, <2>3, RunsIs DEF Functional
<1> QED BY <1>7, <1>8

LEMMA RunContinueAsNewIs ==
  ASSUME Plain, RunContinueAsNew
  PROVE  Functional
<1>1. PICK i : i = Instruction
  OBVIOUS
<1>2. /\ mode = "run" /\ i.op = "continue" /\ UNCHANGED <<tasks, notify, retry, pos, mode>>
      /\ ctx \in Contexts /\ ctx' = [SetContinuedAsNew(ctx, i.save) EXCEPT !.pc = @ + 1]
  BY <1>1, NextIs DEF RunContinueAsNew, AtInstruction
<1>3. AfterInstruction(Events, Len(hist), View, i) =
        At(View, mode, pos, [SetContinuedAsNew(Bare(ctx), i.save) EXCEPT !.pc = @ + 1])
  BY <1>2, ViewParts DEF AfterInstruction
<1>4. Bare(ctx') = [SetContinuedAsNew(Bare(ctx), i.save) EXCEPT !.pc = @ + 1]
  BY <1>2 DEF SetContinuedAsNew, Bare, Contexts
<1>5. View' = At(View, mode, pos, [SetContinuedAsNew(Bare(ctx), i.save) EXCEPT !.pc = @ + 1])
  BY <1>2, <1>4, OnlyContext
<1> QED BY <1>1, <1>2, <1>3, <1>5, RunsIs DEF Functional

LEMMA RunReturnIs ==
  ASSUME Plain, RunReturn
  PROVE  Functional
<1>1. PICK i : i = Instruction
  OBVIOUS
<1>2. PICK d : d = [ctx EXCEPT !.gen = "done"]
  OBVIOUS
<1>3. /\ mode = "run" /\ i.op = "return" /\ UNCHANGED <<tasks, notify, retry, pos>>
      /\ ctx \in Contexts /\ ctx' = SetComplete(d, "completed") /\ mode' = "event"
  BY <1>1, <1>2, NextIs DEF RunReturn, AtInstruction
<1>4. d \in Contexts /\ Bare(d) = [Bare(ctx) EXCEPT !.gen = "done"]
  BY <1>2, <1>3 DEF Bare, Contexts
<1>5. AfterInstruction(Events, Len(hist), View, i) =
        At(View, "event", pos, SetComplete([Bare(ctx) EXCEPT !.gen = "done"], "completed"))
  BY <1>3, ViewParts DEF AfterInstruction
<1>6. Bare(ctx') = SetComplete([Bare(ctx) EXCEPT !.gen = "done"], "completed")
  BY <1>3, <1>4, BareCompletes DEF Statuses, Reasons
<1>7. View' = At(View, "event", pos, SetComplete([Bare(ctx) EXCEPT !.gen = "done"], "completed"))
  BY <1>3, <1>6, OnlyContext
<1> QED BY <1>1, <1>3, <1>5, <1>7, RunsIs DEF Functional

(* Every step of a turn is the function's.                                 *)
LEMMA TurnIs ==
  ASSUME Plain, PatchesKnown, ProcessEvent \/ Hop \/ RunProgram
  PROVE  Functional
<1>1. CASE ProcessEvent
  BY <1>1, OnSuspendedNever, OnWorkflowStartedIs, OnExecutionStartedIs, OnConfirmedIs,
     OnUnexpectedIs, OnCompletedIs, OnFailedIs, OnTimerFiredIs, OnEventRaisedIs, OnResumedIs,
     OnTerminatedIs, EndTurnIs DEF ProcessEvent
<1>2. CASE Hop
  BY <1>2, HopIs
<1>3. CASE RunProgram
  BY <1>3, StayYieldedIs, ResumeGeneratorIs, ResumeFinishedIs, RunScheduleIs, RunWaitNowIs,
     RunWaitIs, RunWaitBeforeUpgradeNever, RunComposeIs, RunYieldIs, RunIfPatchedIs,
     RunContinueAsNewIs, RunReturnIs DEF RunProgram
<1> QED BY <1>1, <1>2, <1>3

----------------------------------------------------------------------------
(* What a step adds to a context.                                          *)

\* d has the actions, the patches and the status of c.
SameWork(c, d) ==
  /\ d.seq = c.seq /\ d.acts = c.acts /\ d.status = c.status /\ d.error = c.error
  /\ d.epatch = c.epatch /\ d.hpatch = c.hpatch

\* The actions of d are c's, or have later ids; a turn that is complete stays
\* so, and no error of the program is taken for a mismatch with the history.
Grows(c, d) ==
  /\ d.seq >= c.seq /\ \A a \in d.acts : a \in c.acts \/ a.id > c.seq
  /\ c.epatch \subseteq d.epatch
  /\ d.status = "running" =>
       c.status = "running" /\ \A a \in d.acts : a \in c.acts \/ a.kind # "complete"
  /\ d.error = "nondeterminism" => c.error = "nondeterminism"

\* What a call of the program, or an event, makes of a context d.
Work(d, e) ==
  \/ e = d
  \/ \E kind, name, t : kind # "complete" /\ e = Scheduled(d, kind, name, t)
  \/ \E st \in Statuses \ {"running"} : e = SetComplete(d, st)
  \/ \E why \in Reasons \ {"nondeterminism"} : e = SetFailed(d, why)

LEMMA ScheduledGrows ==
  ASSUME NEW d \in Contexts, NEW kind, NEW name, NEW t, kind # "complete"
  PROVE  Grows(d, Scheduled(d, kind, name, t)) /\ Scheduled(d, kind, name, t).hpatch = d.hpatch
<1>0. PICK n, a : n = d.seq + 1 /\ a = Action(d.seq + 1, kind, name)
  OBVIOUS
<1>1. PICK A, P : A = d.acts \cup {a} /\ P = d.ptasks \cup {[id |-> n, task |-> t]}
  OBVIOUS
<1>2. PICK e : e = Scheduled(d, kind, name, t)
  OBVIOUS
<1>3. e = [d EXCEPT !.seq = n, !.acts = A, !.ptasks = P]
  BY <1>0, <1>1, <1>2 DEF Scheduled, Contexts
<1>4. /\ e.seq = n /\ e.acts = A /\ e.epatch = d.epatch /\ e.status = d.status
      /\ e.error = d.error /\ e.hpatch = d.hpatch
  BY <1>3 DEF Contexts
<1>5. d.seq \in Nat
  BY ContextTypes, Zenon
<1>6. n > d.seq /\ n >= d.seq /\ a.id = n /\ a.kind = kind
  BY <1>0, <1>5 DEF Action
<1>7. \A x \in A : x \in d.acts \/ x = a
  BY <1>1
<1> QED BY <1>2, <1>4, <1>6, <1>7 DEF Grows

LEMMA CompleteGrows ==
  ASSUME NEW d \in Contexts, NEW st \in Statuses \ {"running"}
  PROVE  /\ Grows(d, SetComplete(d, st)) /\ SetComplete(d, st).hpatch = d.hpatch
         /\ SetComplete(d, st).status # "running" /\ SetComplete(d, st).error = d.error
<1>1. PICK e : e = SetComplete(d, st)
  OBVIOUS
<1>2. /\ e.seq >= d.seq /\ SamePatches(d, e) /\ e.error = d.error
      /\ e.status = IF d.status = "running" THEN st ELSE d.status
      /\ IF d.status = "running"
         THEN e.acts = {Action(e.seq, "complete", st)} /\ e.seq = d.seq + 1
         ELSE e = d
  BY <1>1, SetCompleteFields
<1>3. d.seq \in Nat
  BY ContextTypes, Zenon
<1>4. \A a \in e.acts : a \in d.acts \/ a.id > d.seq
  <2>1. CASE d.status = "running"
    <3>1. \A a \in e.acts : a.id = d.seq + 1
      BY <1>2, <2>1 DEF Action
    <3>2. d.seq + 1 > d.seq
      BY <1>3
    <3> QED BY <3>1, <3>2
  <2>2. CASE d.status # "running"
    BY <1>2, <2>2
  <2> QED BY <2>1, <2>2
<1>5. e.status # "running"
  BY <1>2
<1> QED BY <1>1, <1>2, <1>4, <1>5 DEF Grows, SamePatches

LEMMA FailGrows ==
  ASSUME NEW d \in Contexts, NEW why \in Reasons
  PROVE  /\ why # "nondeterminism" => Grows(d, SetFailed(d, why))
         /\ SetFailed(d, why).hpatch = d.hpatch /\ SetFailed(d, why).epatch = d.epatch
         /\ SetFailed(d, why).status # "running"
<1>1. PICK e, f : e = SetComplete(d, "failed") /\ f = SetFailed(d, why)
  OBVIOUS
<1>2. /\ Grows(d, e) /\ e.hpatch = d.hpatch /\ e.status # "running" /\ e \in Contexts
      /\ SamePatches(d, e)
  <2>1. "failed" \in Statuses \ {"running"}
    BY DEF Statuses
  <2>2. Grows(d, e) /\ e.hpatch = d.hpatch /\ e.status # "running"
    BY <1>1, <2>1, CompleteGrows
  <2>3. e \in Contexts /\ SamePatches(d, e)
    BY <1>1, <2>1, SetCompleteFields
  <2> QED BY <2>2, <2>3
<1>3. f = [e EXCEPT !.error = why]
  BY <1>1 DEF SetFailed
<1>4. /\ f.seq = e.seq /\ f.acts = e.acts /\ f.epatch = e.epatch /\ f.hpatch = e.hpatch
      /\ f.status = e.status /\ f.error = why
  BY <1>2, <1>3 DEF Contexts
<1> QED BY <1>1, <1>2, <1>4 DEF Grows, SamePatches

LEMMA WorkGrows ==
  ASSUME NEW c \in Contexts, NEW d \in Contexts, NEW e, SameWork(c, d), Work(d, e)
  PROVE  Grows(c, e) /\ e.hpatch = c.hpatch
<1>1. c.seq \in Nat
  BY ContextTypes, Zenon
<1>2. Grows(d, e) /\ e.hpatch = d.hpatch
  <2>1. CASE e = d
    <3>1. d.seq >= d.seq
      BY <1>1 DEF SameWork
    <3> QED BY <2>1, <3>1 DEF Grows
  <2>2. CASE \E kind, name, t : kind # "complete" /\ e = Scheduled(d, kind, name, t)
    BY <2>2, ScheduledGrows
  <2>3. CASE \E st \in Statuses \ {"running"} : e = SetComplete(d, st)
    BY <2>3, CompleteGrows
  <2>4. CASE \E why \in Reasons \ {"nondeterminism"} : e = SetFailed(d, why)
    BY <2>4, FailGrows
  <2> QED BY <2>1, <2>2, <2>3, <2>4 DEF Work
<1> QED BY <1>2 DEF Grows, SameWork

\* A step takes no event, or one that carries no patches.
TakesNoPatches ==
  \/ pos' = pos
  \/ pos' = pos + 1 /\ mode = "event" /\ pos < Len(Events)
     /\ Events[pos + 1].type # "workflowStarted"

\* A step moves past at most one event, and reads its patches.
Moves ==
  \/ pos' = pos /\ ctx'.hpatch = ctx.hpatch
  \/ /\ pos' = pos + 1 /\ mode = "event" /\ pos < Len(Events)
     /\ ctx'.hpatch = ctx.hpatch \cup
          (IF Events[pos + 1].type = "workflowStarted" THEN Events[pos + 1].patches ELSE {})

\* A turn that ends before its last event is complete.
EndsWell == mode' = "done" => ctx'.status # "running" \/ pos' = Len(Events)

Advance == Grows(ctx, ctx') /\ Moves /\ EndsWell

\* The step works on d, which is the context but for what no action depends on.
Worked(d) ==
  /\ d \in Contexts /\ SameWork(ctx, d) /\ Work(d, ctx')
  /\ mode' = "done" => \E why \in Reasons : ctx' = SetFailed(d, why)

LEMMA WorkedAdvances ==
  ASSUME Plain, TakesNoPatches, NEW d, Worked(d)
  PROVE  Advance
<1>1. ctx \in Contexts
  BY NextIs
<1>2. Grows(ctx, ctx') /\ ctx'.hpatch = ctx.hpatch
  BY <1>1, WorkGrows DEF Worked
<1>3. EndsWell
  BY FailGrows DEF EndsWell, Worked
<1> QED BY <1>2, <1>3 DEF Advance, Moves, TakesNoPatches

\* Nothing is scheduled, and the turn is not complete.
Quiet == mode' # "done" /\ ctx' \in Contexts /\ SameWork(ctx, ctx')

LEMMA QuietAdvances ==
  ASSUME Plain, TakesNoPatches, Quiet
  PROVE  Advance
BY WorkedAdvances DEF Quiet, Worked, Work

LEMMA TakenNoPatches ==
  ASSUME Plain, NEW types, On(types), "workflowStarted" \notin types
  PROVE  TakesNoPatches
<1>1. Current = Events[pos + 1] /\ Current.type \in types /\ pos' = pos + 1 /\ mode = "event"
  BY HandlesEvent
<1>2. pos < Len(Events)
  BY DEF On, HasEvent, Plain, Draining
<1> QED BY <1>1, <1>2 DEF TakesNoPatches

LEMMA OnWorkflowStartedAdvances ==
  ASSUME Plain, OnWorkflowStarted
  PROVE  Advance
<1>1. /\ Current = Events[pos + 1] /\ Current.type = "workflowStarted" /\ pos' = pos + 1
      /\ mode = "event" /\ mode' = mode /\ ctx \in Contexts
  BY HandlesEvent DEF OnWorkflowStarted
<1>2. pos < Len(Events)
  BY DEF OnWorkflowStarted, On, HasEvent, Plain, Draining
<1>3. PICK H : H = ctx.hpatch \cup Current.patches
  OBVIOUS
<1>4. ctx' = [ctx EXCEPT !.hpatch = H]
  BY <1>3 DEF OnWorkflowStarted
<1>5. /\ ctx'.hpatch = H /\ ctx'.seq = ctx.seq /\ ctx'.acts = ctx.acts /\ ctx'.epatch = ctx.epatch
      /\ ctx'.status = ctx.status /\ ctx'.error = ctx.error
  BY <1>1, <1>4 DEF Contexts
<1>6. ctx.seq >= ctx.seq
  <2>1. ctx.seq \in Nat
    BY <1>1, ContextTypes
  <2> QED BY <2>1
<1>7. Grows(ctx, ctx')
  BY <1>5, <1>6 DEF Grows
<1>8. Moves
  BY <1>1, <1>2, <1>3, <1>5 DEF Moves
<1> QED BY <1>1, <1>7, <1>8 DEF Advance, EndsWell

LEMMA OnExecutionStartedAdvances ==
  ASSUME Plain, OnExecutionStarted
  PROVE  Advance
<1>1. TakesNoPatches /\ ctx \in Contexts
  BY TakenNoPatches, NextIs DEF OnExecutionStarted
<1>2. Quiet
  BY <1>1 DEF OnExecutionStarted, Quiet, SameWork, Contexts
<1> QED BY <1>1, <1>2, QuietAdvances

LEMMA StaysAdvances ==
  ASSUME Plain, OnUnexpected \/ StayYielded
  PROVE  Advance
<1>1. TakesNoPatches /\ ctx \in Contexts /\ mode' # "done" /\ ctx' = ctx
  <2>1. ctx \in Contexts
    BY NextIs
  <2>2. CASE OnUnexpected
    <3>1. TakesNoPatches
      BY <2>2, TakenNoPatches DEF OnUnexpected
    <3> QED BY <2>1, <2>2, <3>1 DEF OnUnexpected, On, AtEvent
  <2>3. CASE StayYielded
    BY <2>1, <2>3 DEF StayYielded, TakesNoPatches
  <2> QED BY <2>2, <2>3
<1>2. Quiet
  BY <1>1 DEF Quiet, SameWork
<1> QED BY <1>1, <1>2, QuietAdvances

LEMMA OnTerminatedAdvances ==
  ASSUME Plain, OnTerminated
  PROVE  Advance
<1>1. TakesNoPatches /\ ctx \in Contexts /\ mode' = "event"
  BY TakenNoPatches, NextIs DEF OnTerminated, On, AtEvent
<1>2. Work(ctx, ctx')
  BY DEF OnTerminated, Work, Statuses
<1>3. Worked(ctx)
  BY <1>1, <1>2 DEF Worked, SameWork
<1> QED BY <1>1, <1>3, WorkedAdvances

\* The turn fails while it works on d.
LEMMA FailAdvances ==
  ASSUME Plain, TakesNoPatches, NEW d \in Contexts, SameWork(ctx, d),
         NEW why \in Reasons \ {"nondeterminism"}, FailTurn(d, why)
  PROVE  Advance
BY WorkedAdvances DEF FailTurn, Worked, Work

LEMMA OnResumedAdvances ==
  ASSUME Plain, OnResumed
  PROVE  Advance
<1>1. ctx \in Contexts /\ FailTurn(ctx, "unknown event") /\ AtEvent /\ HasEvent /\ Take
      /\ Current.type = "executionResumed"
  BY NextIs DEF OnResumed, Plain, Steady
<1>2. TakesNoPatches
  <2>1. Current = Events[pos + 1] /\ pos' = pos + 1 /\ mode = "event"
    BY <1>1, TakesEvent
  <2>2. pos < Len(Events)
    <3>1. ~Draining
      BY DEF Plain, Draining
    <3> QED BY <1>1, <3>1 DEF HasEvent
  <2>3. Events[pos + 1].type # "workflowStarted"
    BY <1>1, <2>1
  <2> QED BY <2>1, <2>2, <2>3 DEF TakesNoPatches
<1> QED BY <1>1, <1>2, FailAdvances DEF Reasons, SameWork

LEMMA EndTurnAdvances ==
  ASSUME Plain, EndTurn
  PROVE  Advance
<1>1. /\ ctx \in Contexts /\ ctx' = ctx /\ pos' = pos /\ pos = Len(Events)
  <2>1. ~(pos < Len(Events)) /\ ctx' = ctx /\ pos' = pos /\ ctx \in Contexts
    BY NextIs DEF EndTurn, HasEvent
  <2>2. pos \in Nat /\ pos <= Len(Events) /\ Len(Events) \in Nat
    BY CurrentTyped DEF Plain, TurnInv, TurnTypes
  <2> QED BY <2>1, <2>2
<1>2. Grows(ctx, ctx') /\ ctx'.hpatch = ctx.hpatch
  BY <1>1, WorkGrows DEF SameWork, Work
<1> QED BY <1>1, <1>2 DEF Advance, Moves, EndsWell

LEMMA PoppedWork ==
  ASSUME ctx \in Contexts, NEW id
  PROVE  SameWork(ctx, Popped(id))
<1>1. PICK P : Popped(id) = [ctx EXCEPT !.ptasks = P]
  BY DEF Popped
<1> QED BY <1>1 DEF SameWork, Contexts

\* An event with an id is handled, and what its task awaited is scheduled.
LEMMA OutcomeAdvances ==
  ASSUME Plain, NEW types, On(types), types \subseteq OutcomeTypes, TaskAt(Current.id) # NoTask,
         mode' # "done",
         \/ ctx' = Popped(Current.id)
         \/ \E kind, name, t : kind # "complete" /\ ctx' = Scheduled(Popped(Current.id), kind, name, t)
  PROVE  Advance
<1>1. TakesNoPatches
  BY TakenNoPatches DEF OutcomeTypes
<1>2. Current.id \in Nat /\ ctx \in Contexts
  BY HandlesOutcome
<1>3. Popped(Current.id) \in Contexts /\ SameWork(ctx, Popped(Current.id))
  BY <1>2, PoppedFields, PoppedWork DEF Plain
<1>4. Worked(Popped(Current.id))
  BY <1>3 DEF Worked, Work
<1> QED BY <1>1, <1>4, WorkedAdvances

LEMMA OnCompletedAdvances ==
  ASSUME Plain, OnCompleted
  PROVE  Advance
BY OutcomeAdvances DEF OnCompleted, OutcomeTypes

LEMMA OnFailedAdvances ==
  ASSUME Plain, OnFailed
  PROVE  Advance
<1>1. PICK types : types = {"taskFailed", "childWorkflowInstanceFailed"} /\ On(types)
                   /\ types \subseteq OutcomeTypes
  BY DEF OnFailed, OutcomeTypes
<1>2. TaskAt(Current.id) # NoTask /\ mode' # "done"
  BY <1>1 DEF OnFailed, On, AtEvent
<1>3. \/ ctx' = Popped(Current.id)
      \/ \E t : ctx' = Scheduled(Popped(Current.id), "timer", "retry", t)
  BY DEF OnFailed
<1> QED BY <1>1, <1>2, <1>3, OutcomeAdvances

LEMMA OnTimerFiredAdvances ==
  ASSUME Plain, OnTimerFired
  PROVE  Advance
<1>1. PICK types : types = {"timerFired"} /\ On(types) /\ types \subseteq OutcomeTypes
  BY DEF OnTimerFired, OutcomeTypes
<1>2. TaskAt(Current.id) # NoTask /\ mode' # "done"
  BY <1>1 DEF OnTimerFired, On, AtEvent
<1>3. PICK o : o = retry[TaskAt(Current.id)].owner
  OBVIOUS
<1>4. Current.id \in Nat
  BY <1>1, HandlesOutcome
<1>5. TaskAt(Current.id) \in TaskId
  BY <1>2, <1>4, PoppedFields DEF Plain
<1>6. o # NoTask => retry[o].kind # "complete"
  BY <1>3, <1>5 DEF Plain, TurnInv, TurnTypes, Retries, OptTask
<1>7. IF o # NoTask
      THEN ctx' = Scheduled(Popped(Current.id), retry[o].kind, retry[o].name, o)
      ELSE ctx' = Popped(Current.id)
  BY <1>3 DEF OnTimerFired
<1> QED BY <1>1, <1>2, <1>6, <1>7, OutcomeAdvances

LEMMA OnEventRaisedAdvances ==
  ASSUME Plain, OnEventRaised
  PROVE  Advance
<1>1. TakesNoPatches /\ ctx \in Contexts /\ mode' # "done"
  BY TakenNoPatches, NextIs DEF OnEventRaised, On, AtEvent
<1>2. \E w, r, g : ctx' = [ctx EXCEPT !.wait = w, !.got = g] \/ ctx' = [ctx EXCEPT !.recv = r]
  BY DEF OnEventRaised
<1>3. SameWork(ctx, ctx')
  BY <1>1, <1>2 DEF SameWork, Contexts
<1> QED BY <1>1, <1>3, QuietAdvances DEF Quiet, Plain

LEMMA HopAdvances ==
  ASSUME Plain, Hop
  PROVE  Advance
<1>1. TakesNoPatches /\ ctx \in Contexts /\ mode' # "done"
  BY NextIs DEF Hop, TakesNoPatches
<1>2. \E w : ctx' = [ctx EXCEPT !.wait = w]
  BY DEF Hop
<1>3. SameWork(ctx, ctx')
  BY <1>1, <1>2 DEF SameWork, Contexts
<1> QED BY <1>1, <1>3, QuietAdvances DEF Quiet, Plain

LEMMA GenWork ==
  ASSUME NEW c \in Contexts, NEW p
  PROVE  /\ [c EXCEPT !.gen = "done"] \in Contexts
         /\ SameWork(c, [c EXCEPT !.gen = "done"])
         /\ SameWork(c, [c EXCEPT !.pc = p])
BY DEF Contexts, SameWork

LEMMA ResumeGeneratorAdvances ==
  ASSUME Plain, ResumeGenerator
  PROVE  Advance
<1>1. PICK c : c = SeenMore(ctx, ctx.prev)
  OBVIOUS
<1>2. TakesNoPatches /\ ctx \in Contexts /\ ctx.prev # NoTask
  BY NextIs DEF ResumeGenerator, Returns, Ready, TakesNoPatches
<1>3. \/ FailTurn([c EXCEPT !.gen = "done"], "exception")
      \/ (\E p : ctx' = [c EXCEPT !.pc = p]) /\ mode' = "run"
  BY <1>1 DEF ResumeGenerator, SeenMore
<1>4. c \in Contexts /\ SameWork(ctx, c)
  BY <1>1, <1>2, BareSeen DEF Plain, SameWork, SameIds, SameStatus, SamePatches
<1>5. CASE FailTurn([c EXCEPT !.gen = "done"], "exception")
  <2>1. [c EXCEPT !.gen = "done"] \in Contexts /\ SameWork(ctx, [c EXCEPT !.gen = "done"])
    <3>1. SameWork(c, [c EXCEPT !.gen = "done"]) /\ [c EXCEPT !.gen = "done"] \in Contexts
      BY <1>4, GenWork
    <3> QED BY <1>4, <3>1 DEF SameWork
  <2> QED BY <1>2, <1>5, <2>1, FailAdvances DEF Reasons
<1>6. CASE (\E p : ctx' = [c EXCEPT !.pc = p]) /\ mode' = "run"
  <2>1. SameWork(c, ctx')
    BY <1>4, <1>6, GenWork
  <2>2. SameWork(ctx, ctx')
    BY <1>4, <2>1 DEF SameWork
  <2> QED BY <1>2, <1>6, <2>2, QuietAdvances DEF Quiet, Plain
<1> QED BY <1>3, <1>5, <1>6

LEMMA ResumeFinishedAdvances ==
  ASSUME Plain, ResumeFinished
  PROVE  Advance
<1>1. TakesNoPatches /\ ctx \in Contexts
  BY NextIs DEF ResumeFinished, TakesNoPatches
<1>2. FailTurn(ctx, "exception") \/ (mode' = "event" /\ ctx' = ctx)
  BY DEF ResumeFinished
<1>3. CASE FailTurn(ctx, "exception")
  BY <1>1, <1>3, FailAdvances DEF Reasons, SameWork
<1>4. CASE mode' = "event" /\ ctx' = ctx
  BY <1>1, <1>4, QuietAdvances DEF Quiet, SameWork
<1> QED BY <1>2, <1>3, <1>4

LEMMA AssignedWork ==
  ASSUME ctx \in Contexts, NEW t \in TaskId
  PROVE  Assigned(t) \in Contexts /\ SameWork(ctx, Assigned(t))
<1>1. Assigned(t) \in Contexts
  BY AssignedFields
<1>2. PICK p, E : Assigned(t) = [ctx EXCEPT !.pc = p, !.env = E]
  BY DEF Assigned
<1> QED BY <1>1, <1>2 DEF SameWork, Contexts

LEMMA RunScheduleAdvances ==
  ASSUME Plain, RunSchedule
  PROVE  Advance
<1>1. PICK i : i = Instruction
  OBVIOUS
<1>2. PICK t \in TaskId : ctx' = Scheduled(Assigned(t), i.kind, i.name, t)
  BY <1>1 DEF RunSchedule
<1>3. i.kind # "complete"
  <2>1. i \in Instructions /\ i.op = "schedule"
    BY <1>1, NextIs DEF RunSchedule, AtInstruction
  <2> QED BY <2>1 DEF Instructions
<1>4. TakesNoPatches /\ mode' # "done" /\ ctx \in Contexts
  BY NextIs DEF RunSchedule, AtInstruction, TakesNoPatches
<1>5. Worked(Assigned(t))
  BY <1>2, <1>3, <1>4, AssignedWork DEF Worked, Work
<1> QED BY <1>4, <1>5, WorkedAdvances

LEMMA RunWaitNowAdvances ==
  ASSUME Plain, RunWaitNow
  PROVE  Advance
<1>1. PICK t \in TaskId : \/ ctx' = Assigned(t)
                          \/ \E r, g : ctx' = [Assigned(t) EXCEPT !.recv = r, !.got = g]
  BY DEF RunWaitNow
<1>2. TakesNoPatches /\ mode' # "done" /\ ctx \in Contexts
  BY NextIs DEF RunWaitNow, AtInstruction, TakesNoPatches
<1>3. PICK a \in Contexts : a = Assigned(t) /\ SameWork(ctx, a)
  BY <1>2, AssignedWork
<1>4. SameWork(a, ctx')
  BY <1>1, <1>3 DEF SameWork, Contexts
<1>5. SameWork(ctx, ctx')
  BY <1>3, <1>4 DEF SameWork
<1> QED BY <1>2, <1>5, QuietAdvances DEF Quiet, Plain

LEMMA RunWaitAdvances ==
  ASSUME Plain, RunWait
  PROVE  Advance
<1>1. PICK e, n, w : /\ e + 2 \in TaskId
                     /\ ctx' = Scheduled([Assigned(e + 2) EXCEPT !.wait[n] = Append(@, e)],
                                         "timer", w, e + 1)
  BY DEF RunWait
<1>2. TakesNoPatches /\ mode' # "done" /\ ctx \in Contexts
  BY NextIs DEF RunWait, AtInstruction, TakesNoPatches
<1>3. PICK a \in Contexts : a = Assigned(e + 2) /\ SameWork(ctx, a)
  BY <1>1, <1>2, AssignedWork
<1>4. PICK s : s = Scheduled(a, "timer", w, e + 1)
  OBVIOUS
<1>5. Grows(ctx, s) /\ s.hpatch = ctx.hpatch
  BY <1>2, <1>3, <1>4, WorkGrows DEF Work
<1>6. SameWork(s, ctx')
  <2>1. ctx' = Scheduled([a EXCEPT !.wait[n] = Append(@, e)], "timer", w, e + 1)
    BY <1>1, <1>3
  <2> QED BY <1>3, <1>4, <2>1 DEF SameWork, Scheduled, Contexts
<1>7. Grows(ctx, ctx') /\ ctx'.hpatch = ctx.hpatch
  BY <1>5, <1>6 DEF Grows, SameWork
<1>8. pos' = pos
  BY DEF RunWait
<1> QED BY <1>2, <1>7, <1>8 DEF Advance, Moves, EndsWell

LEMMA RaisesAdvances ==
  ASSUME Plain, Raises, pos' = pos
  PROVE  Advance
<1>1. ctx \in Contexts /\ TakesNoPatches
  BY NextIs DEF TakesNoPatches
<1>2. [ctx EXCEPT !.gen = "done"] \in Contexts /\ SameWork(ctx, [ctx EXCEPT !.gen = "done"])
  BY <1>1, GenWork
<1> QED BY <1>1, <1>2, FailAdvances DEF Raises, Reasons

LEMMA RunComposeAdvances ==
  ASSUME Plain, RunCompose
  PROVE  Advance
<1>1. \/ Raises /\ pos' = pos
      \/ pos' = pos /\ mode' # "done" /\ \E t \in TaskId : ctx' = Assigned(t)
  BY DEF RunCompose
<1>2. CASE \E t \in TaskId : pos' = pos /\ mode' # "done" /\ ctx' = Assigned(t)
  BY <1>2, AssignedWork, QuietAdvances, NextIs DEF Quiet, TakesNoPatches
<1> QED BY <1>1, <1>2, RaisesAdvances

LEMMA RunYieldAdvances ==
  ASSUME Plain, RunYield
  PROVE  Advance
<1>1. \/ Raises /\ pos' = pos
      \/ pos' = pos /\ mode' # "done" /\ \E t : ctx' = [ctx EXCEPT !.prev = t]
  BY DEF RunYield
<1>2. CASE \E t : pos' = pos /\ mode' # "done" /\ ctx' = [ctx EXCEPT !.prev = t]
  <2>1. ctx \in Contexts /\ ctx' \in Contexts
    BY NextIs DEF Plain
  <2>2. SameWork(ctx, ctx')
    BY <1>2, <2>1 DEF SameWork, Contexts
  <2> QED BY <1>2, <2>1, <2>2, QuietAdvances DEF Quiet, TakesNoPatches
<1> QED BY <1>1, <1>2, RaisesAdvances

LEMMA RunIfPatchedAdvances ==
  ASSUME Plain, RunIfPatched
  PROVE  Advance
<1>1. ctx \in Contexts /\ pos' = pos /\ mode' # "done"
  BY NextIs DEF RunIfPatched, AtInstruction
<1>2. \/ \E q, a, p : ctx' = [ctx EXCEPT !.pc = q, !.apatch = a, !.epatch = @ \cup {p}]
      \/ \E q, u : ctx' = [ctx EXCEPT !.pc = q, !.unpatch = u]
  BY DEF RunIfPatched, Plain, Steady
<1>3. /\ ctx'.seq = ctx.seq /\ ctx'.acts = ctx.acts /\ ctx.epatch \subseteq ctx'.epatch
      /\ ctx'.status = ctx.status /\ ctx'.error = ctx.error /\ ctx'.hpatch = ctx.hpatch
  <2>1. CASE \E q, a, p : ctx' = [ctx EXCEPT !.pc = q, !.apatch = a, !.epatch = @ \cup {p}]
    <3>1. PICK q, a, p : ctx' = [ctx EXCEPT !.pc = q, !.apatch = a, !.epatch = @ \cup {p}]
      BY <2>1
    <3>2. PICK E : E = ctx.epatch \cup {p}
      OBVIOUS
    <3>3. ctx' = [ctx EXCEPT !.pc = q, !.apatch = a, !.epatch = E]
      BY <3>1, <3>2
    <3>4. ctx \in Contexts
      BY <1>1
    <3>5. /\ ctx'.seq = ctx.seq /\ ctx'.acts = ctx.acts /\ ctx'.epatch = E
          /\ ctx'.status = ctx.status /\ ctx'.error = ctx.error /\ ctx'.hpatch = ctx.hpatch
      BY <3>3, <3>4 DEF Contexts
    <3> QED BY <3>2, <3>5
  <2>2. CASE \E q, u : ctx' = [ctx EXCEPT !.pc = q, !.unpatch = u]
    BY <1>1, <2>2 DEF Contexts
  <2> QED BY <1>2, <2>1, <2>2
<1>4. ctx.seq >= ctx.seq
  <2>1. ctx.seq \in Nat
    BY <1>1, ContextTypes
  <2> QED BY <2>1
<1> QED BY <1>1, <1>3, <1>4 DEF Advance, Moves, EndsWell, Grows

LEMMA RunContinueAsNewAdvances ==
  ASSUME Plain, RunContinueAsNew
  PROVE  Advance
<1>1. ctx \in Contexts /\ pos' = pos /\ mode' # "done"
  BY NextIs DEF RunContinueAsNew, AtInstruction
<1>2. \/ ctx.status # "running" /\ \E p : ctx' = [ctx EXCEPT !.pc = p]
      \/ \E p, s : ctx' = [ctx EXCEPT !.status = "continued", !.acts = {}, !.save = s, !.pc = p]
  BY <1>1 DEF RunContinueAsNew, SetContinuedAsNew, Contexts
<1>3. /\ ctx'.seq = ctx.seq /\ ctx'.epatch = ctx.epatch
      /\ ctx'.error = ctx.error /\ ctx'.hpatch = ctx.hpatch
      /\ ctx'.acts = {} \/ ctx'.acts = ctx.acts
      /\ ctx'.status # "running"
  BY <1>1, <1>2 DEF Contexts
<1>4. ctx.seq >= ctx.seq
  <2>1. ctx.seq \in Nat
    BY <1>1, ContextTypes
  <2> QED BY <2>1
<1> QED BY <1>1, <1>3, <1>4 DEF Advance, Moves, EndsWell, Grows

LEMMA RunReturnAdvances ==
  ASSUME Plain, RunReturn
  PROVE  Advance
<1>1. ctx \in Contexts /\ TakesNoPatches /\ mode' # "done"
  BY NextIs DEF RunReturn, AtInstruction, TakesNoPatches
<1>2. [ctx EXCEPT !.gen = "done"] \in Contexts /\ SameWork(ctx, [ctx EXCEPT !.gen = "done"])
  BY <1>1, GenWork
<1>3. Worked([ctx EXCEPT !.gen = "done"])
  BY <1>1, <1>2 DEF RunReturn, Worked, Work, Statuses
<1> QED BY <1>1, <1>3, WorkedAdvances

(* Every step of a turn but a confirmation.                                *)
LEMMA TurnAdvances ==
  ASSUME Plain, ProcessEvent \/ Hop \/ RunProgram, ~OnConfirmed
  PROVE  Advance
<1>1. CASE ProcessEvent
  BY <1>1, OnSuspendedNever, OnWorkflowStartedAdvances, OnExecutionStartedAdvances,
     StaysAdvances, OnCompletedAdvances, OnFailedAdvances, OnTimerFiredAdvances,
     OnEventRaisedAdvances, OnResumedAdvances, OnTerminatedAdvances, EndTurnAdvances
     DEF ProcessEvent
<1>2. CASE Hop
  BY <1>2, HopAdvances
<1>3. CASE RunProgram
  BY <1>3, StaysAdvances, ResumeGeneratorAdvances, ResumeFinishedAdvances,
     RunScheduleAdvances, RunWaitNowAdvances, RunWaitAdvances, RunWaitBeforeUpgradeNever,
     RunComposeAdvances, RunYieldAdvances, RunIfPatchedAdvances, RunContinueAsNewAdvances,
     RunReturnAdvances DEF RunProgram
<1> QED BY <1>1, <1>2, <1>3

----------------------------------------------------------------------------
(* The last turn, and what the sidecar stored of it.                       *)

\* The state a turn starts from.
Start ==
  V([t \in TaskId |-> Free], NoTask, [t \in TaskId |-> NoRetry], "event", 0, Bare(NewContext))

\* R holds the states of a run from the start to v over the events evs, of
\* which h are history: every state but v has its successor in R.
Trail(P, evs, h, R, v) ==
  /\ Start \in R /\ v \in R
  /\ \A u \in R :
       /\ u # v => u.mode # "done" /\ Step(P, evs, h, u) \in R
       /\ u.pos \in Nat /\ u.pos <= v.pos /\ u.c.epatch \subseteq v.c.epatch
       /\ u.c.error # "nondeterminism"

\* The events old of a turn as they are stored in new: those after the first
\* h, which were history, have the patches E of the turn.
StoredAs(old, h, new, E) ==
  /\ old \in Seq(HistoryEvents) /\ h \in Nat /\ h < Len(old) /\ Len(old) <= Len(new)
  /\ old[h + 1].type = "workflowStarted"
  /\ \A i \in 1 .. Len(old) :
       new[i] = IF i > h /\ old[i].type = "workflowStarted"
                THEN [old[i] EXCEPT !.patches = E] ELSE old[i]

SnapOf(v) ==
  [pc |-> v.c.pc, prev |-> v.c.prev, env |-> v.c.env, seen |-> v.c.seen,
   seq |-> v.c.seq, ptasks |-> v.c.ptasks, recv |-> v.c.recv, wait |-> v.c.wait,
   got |-> v.c.got, apatch |-> v.c.apatch, tasks |-> v.tasks, retry |-> v.retry]

\* The last turn took the events old, of which h were history, through the
\* states R to F; the history holds them and what confirms its actions, in
\* this order.
LastTurn(old, h, R, F, order) ==
  /\ Trail(prog, old, h, R, F)
  /\ F.mode = "done" /\ F.pos = Len(old) /\ F.c.status = "running"
  /\ F.c \in Contexts /\ \A a \in F.c.acts : a.kind \in {"activity", "child", "timer"}
  /\ order \in ById(F.c.acts)
  /\ StoredAs(old, h, hist, F.c.epatch)
  /\ Len(order) \in Nat /\ Len(hist) = Len(old) + Len(order)
  /\ \A j \in 1 .. Len(order) : hist[Len(old) + j] = Confirmation(order[j])
  /\ SnapOf(F) = last.snap[1]
  /\ \A i \in DOMAIN hist : Confirms(hist[i]) => hist[i].id <= last.snap[1].seq

(* A turn after it replays its states,                                     *)
Replays(old, R) == View \in R /\ mode # "done" /\ ~(mode = "event" /\ pos = Len(old))

(* then confirms its actions one after the other,                          *)
Unconfirmed(old, order, n) == {order[j] : j \in {k \in DOMAIN order : k > n - Len(old)}}
Confirming(old, F, order) ==
  /\ mode = "event" /\ notify = NoTask /\ Len(old) <= pos /\ pos <= Len(hist)
  /\ View = At(F, "event", pos, [F.c EXCEPT !.acts = Unconfirmed(old, order, pos)])

(* and only then meets events that are new, and schedules with new ids.    *)
Beyond ==
  /\ pos > Len(hist) /\ ctx.seq >= last.snap[1].seq
  /\ \A a \in ctx.acts : a.id > last.snap[1].seq

NoConfirms(s) == \A i \in DOMAIN s : ~Confirms(s[i])

Follows ==
  \E old, h, R, F, order :
    /\ LastTurn(old, h, R, F, order)
    /\ mode # "idle" => Replays(old, R) \/ Confirming(old, F, order) \/ Beyond

\* What holds of a workflow none of whose turns was suspended or ran on the
\* code from before an upgrade.
SidecarPart ==
  /\ ~scene.upgrade /\ drain = 0 /\ NoConfirms(inbox) /\ NoConfirms(batch)
  /\ mode # "idle" => status = "running"
  /\ last.snap = <<>> => hist = <<>>
TurnPart ==
  /\ PatchesKnown
  /\ mode = "done" /\ ctx.status = "running" => pos = Len(Events)
  /\ ctx.status = "running" => \A a \in ctx.acts : a.kind # "complete"
  /\ ctx.error # "nondeterminism"
  /\ mode # "idle" => \E R : Trail(prog, Events, Len(hist), R, View)
FollowPart == status = "running" /\ last.snap # <<>> => Follows

ReplayInv == SidecarPart /\ TurnPart /\ FollowPart

----------------------------------------------------------------------------
(* The patches of the events that were taken.                              *)

LEMMA PatchesIn ==
  ASSUME NEW evs, NEW n \in Nat, NEW x
  PROVE  x \in PatchesRead(evs, n) <=>
           \E j \in 1 .. n : evs[j].type = "workflowStarted" /\ x \in evs[j].patches
BY DEF PatchesRead

LEMMA PatchesMore ==
  ASSUME NEW evs, NEW n \in Nat
  PROVE  /\ PatchesRead(evs, 0) = {}
         /\ PatchesRead(evs, n + 1) = PatchesRead(evs, n) \cup
              (IF evs[n + 1].type = "workflowStarted" THEN evs[n + 1].patches ELSE {})
<1>1. PatchesRead(evs, 0) = {}
  <2>1. \A x : x \notin PatchesRead(evs, 0)
    BY PatchesIn
  <2> QED BY <2>1
<1>2. \A j : j \in 1 .. n + 1 <=> j \in 1 .. n \/ j = n + 1
  OBVIOUS
<1>3. ASSUME NEW x
      PROVE  x \in PatchesRead(evs, n + 1) <=>
               x \in PatchesRead(evs, n) \/ (evs[n + 1].type = "workflowStarted" /\ x \in evs[n + 1].patches)
  <2>1. n + 1 \in Nat
    OBVIOUS
  <2>2. x \in PatchesRead(evs, n + 1) <=>
          \E j \in 1 .. n + 1 : evs[j].type = "workflowStarted" /\ x \in evs[j].patches
    BY <2>1, PatchesIn
  <2>3. x \in PatchesRead(evs, n) <=>
          \E j \in 1 .. n : evs[j].type = "workflowStarted" /\ x \in evs[j].patches
    BY PatchesIn
  <2> QED BY <1>2, <2>2, <2>3, Zenon
<1>4. PatchesRead(evs, n + 1) = PatchesRead(evs, n) \cup
        (IF evs[n + 1].type = "workflowStarted" THEN evs[n + 1].patches ELSE {})
  BY <1>3
<1> QED BY <1>1, <1>4

LEMMA PatchesSame ==
  ASSUME NEW evs, NEW new, NEW n \in Nat, \A i \in 1 .. n : new[i] = evs[i]
  PROVE  PatchesRead(new, n) = PatchesRead(evs, n)
<1>1. ASSUME NEW x PROVE x \in PatchesRead(new, n) <=> x \in PatchesRead(evs, n)
  BY PatchesIn
<1> QED BY <1>1

----------------------------------------------------------------------------
(* A replay takes the steps of the last turn.                              *)

\* The stored form of an event is handled as the event was.
LEMMA StoredHandled ==
  ASSUME NEW old, NEW h, NEW new, NEW E, StoredAs(old, h, new, E),
         NEW v, NEW i \in 1 .. Len(old)
  PROVE  AfterEvent(v, new[i]) = AfterEvent(v, old[i])
<1>1. PICK e \in HistoryEvents : e = old[i]
  BY DEF StoredAs
<1>2. CASE e.type = "workflowStarted" /\ i > h
  <2>1. PICK d : d = [e EXCEPT !.patches = E]
    OBVIOUS
  <2>2. new[i] = d
    BY <1>1, <1>2, <2>1 DEF StoredAs
  <2>3. d.type = "workflowStarted"
    BY <1>1, <1>2, <2>1 DEF HistoryEvents
  <2> QED BY <1>1, <1>2, <2>2, <2>3, EventKinds
<1>3. CASE ~(e.type = "workflowStarted" /\ i > h)
  BY <1>1, <1>3 DEF StoredAs
<1> QED BY <1>2, <1>3

LEMMA StepsAlike ==
  ASSUME NEW P, NEW evs, NEW new, NEW h, NEW g, NEW v,
         v.mode = "event" =>
           /\ v.pos < Len(evs) /\ v.pos < Len(new)
           /\ AfterEvent(v, new[v.pos + 1]) = AfterEvent(v, evs[v.pos + 1]),
         v.mode = "run" /\ NextOf(P, v).op = "patched" =>
           (Applies(new, g, v, NextOf(P, v).name) <=> Applies(evs, h, v, NextOf(P, v).name))
  PROVE  Step(P, new, g, v) = Step(P, evs, h, v)
<1>1. CASE v.mode = "event"
  BY <1>1 DEF Step
<1>2. CASE v.mode = "run"
  <2>1. PICK i : i = NextOf(P, v)
    OBVIOUS
  <2>2. Step(P, new, g, v) = AfterInstruction(new, g, v, i)
        /\ Step(P, evs, h, v) = AfterInstruction(evs, h, v, i)
    BY <1>2, <2>1 DEF Step
  <2>3. CASE i.op = "patched"
    <3>1. Applies(new, g, v, i.name) <=> Applies(evs, h, v, i.name)
      BY <1>2, <2>1, <2>3
    <3>2. AfterPatched(new, g, v, i) = AfterPatched(evs, h, v, i)
      BY <3>1 DEF AfterPatched
    <3> QED BY <2>2, <2>3, <3>2 DEF AfterInstruction
  <2>4. CASE i.op # "patched"
    BY <2>2, <2>4 DEF AfterInstruction
  <2> QED BY <2>3, <2>4
<1>3. CASE v.mode # "event" /\ v.mode # "run"
  BY <1>3 DEF Step
<1> QED BY <1>1, <1>2, <1>3


LEMMA HistoryFirst ==
  ASSUME TurnInv
  PROVE  /\ Len(hist) \in Nat /\ Len(Events) \in Nat /\ Len(hist) <= Len(Events)
         /\ Len(Events) = Len(hist) + Len(batch)
         /\ \A i \in 1 .. Len(hist) : Events[i] = hist[i]
         /\ \A i \in 1 .. Len(Events) : i > Len(hist) =>
              i - Len(hist) \in DOMAIN batch /\ Events[i] = batch[i - Len(hist)]
<1>1. hist \in Seq(HistoryEvents) /\ batch \in Seq(HistoryEvents)
  BY DEF TurnInv, SidecarTypes
<1>2. /\ Len(Events) = Len(hist) + Len(batch)
      /\ \A i \in 1 .. Len(hist) + Len(batch) :
           Events[i] = IF i <= Len(hist) THEN hist[i] ELSE batch[i - Len(hist)]
  BY <1>1, ConcatProperties DEF Events
<1>3. Len(hist) \in Nat /\ Len(batch) \in Nat /\ DOMAIN batch = 1 .. Len(batch)
  BY <1>1, LenProperties
<1>4. \A i \in 1 .. Len(hist) : i \in 1 .. Len(hist) + Len(batch) /\ i <= Len(hist)
  BY <1>3
<1>5. \A i \in 1 .. Len(hist) + Len(batch) :
        i > Len(hist) => i - Len(hist) \in 1 .. Len(batch) /\ ~(i <= Len(hist))
  BY <1>3
<1>6. Len(Events) \in Nat /\ Len(hist) <= Len(Events)
  BY <1>2, <1>3
<1>7. \A i \in 1 .. Len(hist) : Events[i] = hist[i]
  BY <1>2, <1>4
<1>8. \A i \in 1 .. Len(Events) : i > Len(hist) =>
        i - Len(hist) \in DOMAIN batch /\ Events[i] = batch[i - Len(hist)]
  BY <1>2, <1>3, <1>5
<1> QED BY <1>2, <1>3, <1>6, <1>7, <1>8

\* What is_patched answers in a replay is what it answered: a patch that
\* applied because the work was new is one of those stored with the turn.
LEMMA AnswersAgain ==
  ASSUME TurnInv, NEW old, NEW h, NEW R, NEW F, NEW order, LastTurn(old, h, R, F, order),
         View \in R, View # F, mode = "run", NextOf(prog, View).op = "patched"
  PROVE  Applies(Events, Len(hist), View, NextOf(prog, View).name)
           <=> Applies(old, h, View, NextOf(prog, View).name)
<1>1. PICK i, p : i = NextOf(prog, View) /\ p = i.name
  OBVIOUS
<1>2. /\ Trail(prog, old, h, R, F) /\ StoredAs(old, h, hist, F.c.epatch) /\ F.pos = Len(old)
      /\ Len(hist) \in Nat /\ ctx \in Contexts
  BY HistoryFirst DEF LastTurn, TurnInv, TurnTypes
<1>3. /\ View.pos = pos /\ View.mode = mode /\ View.c = Bare(ctx) /\ pos \in Nat
      /\ View.c.apatch = ctx.apatch /\ View.c.unpatch = ctx.unpatch /\ View.c.epatch = ctx.epatch
  BY <1>2, ViewParts, BareParts DEF TurnInv, TurnTypes
<1>4. Step(prog, old, h, View) \in R /\ pos <= Len(old)
  BY <1>2, <1>3 DEF Trail
<1>5. h \in Nat /\ h < Len(old) /\ Len(old) <= Len(hist) /\ Len(old) \in Nat
  BY <1>2 DEF StoredAs
<1>6. \A j \in 1 .. Len(old) : Events[j] = hist[j]
  <2>1. \A j \in 1 .. Len(old) : j \in 1 .. Len(hist)
    BY <1>2, <1>5
  <2> QED BY <2>1, HistoryFirst
<1>7. CASE pos <= h
  <2>1. \A j \in 1 .. pos : j \in 1 .. Len(old) /\ ~(j > h)
    BY <1>3, <1>5, <1>7
  <2>2. \A j \in 1 .. pos : Events[j] = old[j]
    BY <1>2, <1>6, <2>1 DEF StoredAs
  <2>3. PatchesRead(Events, pos) = PatchesRead(old, pos)
    BY <1>3, <2>2, PatchesSame
  <2>4. pos <= Len(hist)
    BY <1>2, <1>3, <1>4, <1>5
  <2> QED BY <1>3, <1>7, <2>3, <2>4 DEF Applies
<1>8. CASE pos > h
  <2>1. ~(pos <= h) /\ pos <= Len(hist) /\ h + 1 \in 1 .. pos /\ h + 1 \in 1 .. Len(old) /\ h + 1 > h
    BY <1>2, <1>3, <1>4, <1>5, <1>8
  <2>2. Applies(Events, Len(hist), View, p) <=>
          p \in ctx.apatch \/ (p \notin ctx.unpatch /\ p \in PatchesRead(Events, pos))
    BY <1>3, <2>1 DEF Applies
  <2>3. Applies(old, h, View, p) <=> p \in ctx.apatch \/ p \notin ctx.unpatch
    BY <1>3, <2>1 DEF Applies
  <2>4. ASSUME p \notin ctx.apatch, p \notin ctx.unpatch
        PROVE  p \in PatchesRead(Events, pos)
    <3>1. Step(prog, old, h, View) = AfterPatched(old, h, View, i)
      <4>1. Step(prog, old, h, View) = AfterInstruction(old, h, View, i)
        BY <1>1, <1>3 DEF Step
      <4> QED BY <1>1, <4>1 DEF AfterInstruction
    <3>2. PICK c : c = [View.c EXCEPT !.pc = @ + 1, !.apatch = @ \cup {i.name},
                                     !.epatch = @ \cup {i.name}]
      OBVIOUS
    <3>3. AfterPatched(old, h, View, i) = At(View, mode, pos, c)
      BY <1>1, <1>3, <2>3, <2>4, <3>2 DEF AfterPatched
    <3>4. p \in c.epatch
      <4>0. PICK b \in Contexts : b = View.c
        BY <1>2, <1>3, BareParts
      <4>1. PICK q, A, E : q = b.pc + 1 /\ A = b.apatch \cup {i.name} /\ E = b.epatch \cup {i.name}
        OBVIOUS
      <4>2. c = [b EXCEPT !.pc = q, !.apatch = A, !.epatch = E]
        BY <3>2, <4>0, <4>1
      <4>3. c.epatch = E
        BY <4>1, <4>2 DEF Contexts
      <4> QED BY <1>1, <4>1, <4>3
    <3>5. p \in F.c.epatch
      <4>1. At(View, mode, pos, c).c = c
        BY VParts DEF At
      <4>2. At(View, mode, pos, c) \in R
        BY <1>4, <3>1, <3>3
      <4> QED BY <1>2, <3>4, <4>1, <4>2 DEF Trail
    <3>6. Events[h + 1].type = "workflowStarted" /\ Events[h + 1].patches = F.c.epatch
      <4>1. PICK e \in HistoryEvents : e = old[h + 1]
        BY <1>2, <2>1 DEF StoredAs
      <4>2. e.type = "workflowStarted"
        BY <1>2, <4>1 DEF StoredAs
      <4>3. PICK E : E = F.c.epatch
        OBVIOUS
      <4>4. Events[h + 1] = [e EXCEPT !.patches = E]
        BY <1>2, <1>6, <2>1, <4>1, <4>2, <4>3 DEF StoredAs
      <4> QED BY <4>1, <4>2, <4>3, <4>4 DEF HistoryEvents
    <3> QED BY <1>3, <2>1, <3>5, <3>6, PatchesIn
  <2> QED BY <1>1, <2>2, <2>3, <2>4
<1> QED BY <1>3, <1>5, <1>7, <1>8

LEMMA ReplayedStep ==
  ASSUME TurnInv, NEW old, NEW h, NEW R, NEW F, NEW order, LastTurn(old, h, R, F, order),
         View \in R, mode # "done", ~(mode = "event" /\ pos = Len(old))
  PROVE  Step(prog, Events, Len(hist), View) \in R
<1>1. /\ Trail(prog, old, h, R, F) /\ StoredAs(old, h, hist, F.c.epatch) /\ F.pos = Len(old)
      /\ F.mode = "done" /\ Len(hist) \in Nat
  BY HistoryFirst DEF LastTurn
<1>2. View.pos = pos /\ View.mode = mode /\ pos \in Nat
  BY ViewParts DEF TurnInv, TurnTypes
<1>3. View # F
  BY <1>1, <1>2
<1>4. Step(prog, old, h, View) \in R /\ pos <= Len(old)
  BY <1>1, <1>2, <1>3 DEF Trail
<1>5. Len(old) <= Len(hist) /\ Len(old) \in Nat
  BY <1>1 DEF StoredAs
<1>6. View.mode = "event" =>
        /\ View.pos < Len(old) /\ View.pos < Len(Events)
        /\ AfterEvent(View, Events[View.pos + 1]) = AfterEvent(View, old[View.pos + 1])
  <2> SUFFICES ASSUME mode = "event"
               PROVE  /\ pos < Len(old) /\ pos < Len(Events)
                      /\ AfterEvent(View, Events[pos + 1]) = AfterEvent(View, old[pos + 1])
    BY <1>2
  <2>1. pos < Len(old) /\ pos + 1 \in 1 .. Len(old) /\ pos + 1 \in 1 .. Len(hist)
    BY <1>1, <1>2, <1>4, <1>5
  <2>2. pos < Len(Events)
    BY <1>1, <1>2, <1>5, <2>1, HistoryFirst
  <2>3. Events[pos + 1] = hist[pos + 1]
    BY <2>1, HistoryFirst
  <2>4. AfterEvent(View, hist[pos + 1]) = AfterEvent(View, old[pos + 1])
    BY <1>1, <2>1, StoredHandled
  <2> QED BY <2>1, <2>2, <2>3, <2>4
<1>7. View.mode = "run" /\ NextOf(prog, View).op = "patched" =>
        (Applies(Events, Len(hist), View, NextOf(prog, View).name)
           <=> Applies(old, h, View, NextOf(prog, View).name))
  BY <1>2, <1>3, AnswersAgain
<1>8. Step(prog, Events, Len(hist), View) = Step(prog, old, h, View)
  BY <1>6, <1>7, StepsAlike
<1> QED BY <1>4, <1>8


----------------------------------------------------------------------------
(* What confirms an action.                                                *)

\* d keeps the patches of c, and while it runs has no action of a new kind.
SameKinds(c, d) ==
  /\ d.epatch = c.epatch /\ d.hpatch = c.hpatch
  /\ d.status = "running" =>
       c.status = "running" /\ \A a \in d.acts : \E b \in c.acts : a.kind = b.kind

LEMMA DroppedKinds ==
  ASSUME NEW c \in Contexts, NEW id
  PROVE  SameKinds(c, DropOptional(c, id))
<1> DEFINE down(x) == IF x.id > id THEN [x EXCEPT !.id = @ - 1] ELSE x
<1>1. PICK A, P, n : /\ DropOptional(c, id) = [c EXCEPT !.seq = n, !.acts = A, !.ptasks = P]
                     /\ A = {down(a) : a \in {b \in c.acts : b.id # id}}
  BY DEF DropOptional
<1>2. c.acts \in SUBSET Actions
  BY ContextTypes
<1>3. ASSUME NEW b \in Actions PROVE down(b).kind = b.kind
  BY <1>3 DEF Actions
<1>4. \A a \in A : \E b \in c.acts : a.kind = b.kind
  <2> HIDE DEF down
  <2> QED BY <1>1, <1>2, <1>3
<1>5. PICK d : d = DropOptional(c, id)
  OBVIOUS
<1>6. d.epatch = c.epatch /\ d.hpatch = c.hpatch /\ d.status = c.status /\ d.acts = A
  <2>1. d = [c EXCEPT !.seq = n, !.acts = A, !.ptasks = P]
    BY <1>1, <1>5
  <2> QED BY <2>1 DEF Contexts
<1> QED BY <1>4, <1>5, <1>6 DEF SameKinds

LEMMA OnConfirmedKinds ==
  ASSUME Plain, OnConfirmed
  PROVE  SameKinds(ctx, ctx') /\ Moves /\ EndsWell
<1> DEFINE e == Current
           stale == \E a \in PendingAt(ctx, e.id) : IsOptionalTimer(a)
           c == IF stale /\ ~IsOptionalEvent(e) THEN DropOptional(ctx, e.id) ELSE ctx
           pending == PendingAt(c, e.id)
<1>1. TakesNoPatches /\ ctx \in Contexts /\ e.id \in Nat /\ Ids(ctx) /\ mode = "event"
  <2>1. TakesNoPatches
    BY TakenNoPatches DEF OnConfirmed
  <2>2. Current \in HistoryEvents /\ ctx \in Contexts /\ mode = "event"
    BY HandlesEvent DEF OnConfirmed
  <2> QED BY <2>1, <2>2 DEF HistoryEvents, Plain, TurnInv, IdInv, Ids
<1>2. c \in Contexts /\ SameKinds(ctx, c)
  <2>1. CASE stale /\ ~IsOptionalEvent(e)
    BY <1>1, <2>1, DropOptionalFields, DroppedKinds
  <2>2. CASE ~(stale /\ ~IsOptionalEvent(e))
    BY <1>1, <2>2 DEF SameKinds
  <2> HIDE DEF c, stale
  <2> QED BY <2>1, <2>2
<1>3. \/ UNCHANGED <<ctx, mode>>
      \/ ctx' = Confirmed(c, e.id) /\ UNCHANGED mode
      \/ FailTurn(c, "nondeterminism")
  <2>1. IF IsOptionalEvent(e) /\ ~\E a \in pending : IsOptionalTimer(a)
        THEN UNCHANGED <<ctx, mode>>
        ELSE IF \E a \in pending : Matches(a, e)
        THEN ctx' = Confirmed(c, e.id) /\ UNCHANGED mode
        ELSE FailTurn(c, "nondeterminism")
    BY DEF OnConfirmed
  <2> HIDE DEF c, e, pending
  <2> QED BY <2>1
<1> HIDE DEF c, e
<1>4. CASE UNCHANGED <<ctx, mode>>
  <2>1. SameKinds(ctx, ctx')
    BY <1>4 DEF SameKinds
  <2> QED BY <1>1, <1>4, <2>1 DEF EndsWell, Moves, TakesNoPatches
<1>5. CASE ctx' = Confirmed(c, e.id) /\ UNCHANGED mode
  <2>1. PICK A \in SUBSET c.acts : ctx' = [c EXCEPT !.acts = A]
    BY <1>5 DEF Confirmed
  <2>2. /\ ctx'.epatch = c.epatch /\ ctx'.hpatch = c.hpatch /\ ctx'.status = c.status
        /\ ctx'.acts = A
    BY <1>2, <2>1 DEF Contexts
  <2>3. SameKinds(ctx, ctx')
    BY <1>2, <2>1, <2>2 DEF SameKinds
  <2>4. ctx'.hpatch = ctx.hpatch
    BY <2>3 DEF SameKinds
  <2> QED BY <1>1, <1>5, <2>3, <2>4 DEF EndsWell, Moves, TakesNoPatches
<1>6. CASE FailTurn(c, "nondeterminism")
  <2>1. /\ ctx'.hpatch = c.hpatch /\ ctx'.epatch = c.epatch /\ ctx'.status # "running"
    BY <1>2, <1>6, FailGrows DEF FailTurn, Reasons
  <2>2. SameKinds(ctx, ctx') /\ ctx'.hpatch = ctx.hpatch
    BY <1>2, <2>1 DEF SameKinds
  <2> QED BY <1>1, <2>1, <2>2 DEF EndsWell, Moves, TakesNoPatches
<1> QED BY <1>3, <1>4, <1>5, <1>6

\* The event that records an action confirms it, and nothing else.
LEMMA ConfirmationConfirms ==
  ASSUME NEW v, NEW a \in Actions, a.kind \in {"activity", "child", "timer"},
         PendingAt(v.c, a.id) = {a}
  PROVE  AfterEvent(v, Confirmation(a)) = At(v, v.mode, v.pos + 1, Confirmed(v.c, a.id))
<1>1. PICK e, type : /\ e = Confirmation(a) /\ e = Event(type, a.id, a.name, 0)
                     /\ \/ type = "taskScheduled" /\ a.kind = "activity"
                        \/ type = "childWorkflowInstanceCreated" /\ a.kind = "child"
                        \/ type = "timerCreated" /\ a.kind = "timer"
  BY DEF Confirmation
<1>2. e.type = type /\ e.id = a.id /\ e.name = a.name
  BY <1>1 DEF Event
<1>3. KindOf(e.type) = a.kind
  BY <1>1, <1>2 DEF KindOf
<1>4. IsOptionalEvent(e) <=> IsOptionalTimer(a)
  BY <1>1, <1>2 DEF IsOptionalEvent, IsOptionalTimer
<1>5. Matches(a, e)
  BY <1>2, <1>3 DEF Matches
<1>6. AfterEvent(v, e) = AfterConfirmation(v, e)
  BY <1>1, <1>2, EventKinds
<1>7. PendingAt(v.c, e.id) = {a}
  BY <1>2
<1>8. AfterConfirmation(v, e) = At(v, v.mode, v.pos + 1, Confirmed(v.c, e.id))
  BY <1>4, <1>5, <1>7 DEF AfterConfirmation
<1> QED BY <1>1, <1>2, <1>6, <1>8

\* The actions in the order of their ids.
LEMMA OrderFacts ==
  ASSUME NEW A \in ActionSets, NEW order \in ById(A)
  PROVE  /\ order \in Seq(A) /\ Len(order) = Cardinality(A) /\ Cardinality(A) \in Nat
         /\ \A j \in 1 .. Len(order) : order[j] \in A
         /\ \A a \in A : \E j \in 1 .. Len(order) : order[j] = a
         /\ \A i, j \in 1 .. Len(order) : i < j => order[i].id < order[j].id
<1>1. Cardinality(A) \in Nat
  BY FS_CardinalityType DEF ActionSets
<1>2. /\ order \in [1 .. Cardinality(A) -> A] /\ Members(order) = A
      /\ \A i, j \in DOMAIN order : i < j => order[i].id < order[j].id
  BY DEF ById
<1>3. order \in Seq(A) /\ Len(order) = Cardinality(A) /\ DOMAIN order = 1 .. Len(order)
  BY <1>1, <1>2
<1>4. \A a \in A : \E j \in 1 .. Len(order) : order[j] = a
  BY <1>2, <1>3 DEF Members
<1> QED BY <1>1, <1>2, <1>3, <1>4


\* The ids of the actions of the last turn go up in its order.
LEMMA UnconfirmedHead ==
  ASSUME NEW A \in ActionSets, NEW order \in ById(A), NEW old, Len(old) \in Nat,
         \A a \in A : a.id \in Nat,
         NEW n \in Nat, Len(old) <= n, n < Len(old) + Len(order)
  PROVE  LET a == order[n + 1 - Len(old)]
             U == Unconfirmed(old, order, n)
         IN /\ n + 1 - Len(old) \in 1 .. Len(order) /\ a \in A
            /\ {b \in U : b.id = a.id} = {a} /\ U \ {a} = Unconfirmed(old, order, n + 1)
<1>1. PICK k, a : k = n + 1 - Len(old) /\ a = order[k]
  OBVIOUS
<1>2. /\ DOMAIN order = 1 .. Len(order) /\ Len(order) \in Nat
      /\ \A j \in 1 .. Len(order) : order[j] \in A
      /\ \A i, j \in 1 .. Len(order) : i < j => order[i].id < order[j].id
  <2>1. order \in Seq(A)
    BY OrderFacts
  <2> QED BY <2>1, OrderFacts, LenProperties
<1>3. k \in 1 .. Len(order) /\ a \in A /\ k - 1 = n - Len(old)
  <2>1. k \in 1 .. Len(order) /\ k - 1 = n - Len(old)
    BY <1>1, <1>2
  <2> QED BY <1>1, <1>2, <2>1
<1>4. \A j \in 1 .. Len(order) : /\ j > n - Len(old) <=> j = k \/ j > k
                                 /\ j > n + 1 - Len(old) <=> j > k
                                 /\ j = k \/ j > k \/ j < k
  BY <1>1, <1>2, <1>3
<1>5. \A j \in 1 .. Len(order) : j > k => order[j].id # a.id
  <2>1. \A j \in 1 .. Len(order) : j > k => k < j
    BY <1>2, <1>3
  <2> SUFFICES ASSUME NEW j \in 1 .. Len(order), j > k PROVE order[j].id # a.id
    OBVIOUS
  <2>2. order[k].id < order[j].id /\ order[j].id \in Nat /\ order[k].id \in Nat
    BY <1>2, <1>3, <2>1
  <2> QED BY <1>1, <2>2
<1>6. \A b : b \in Unconfirmed(old, order, n) <=> b = a \/ b \in Unconfirmed(old, order, n + 1)
  <2>1. \A b : b \in Unconfirmed(old, order, n) <=>
                 \E j \in 1 .. Len(order) : b = order[j] /\ (j = k \/ j > k)
    BY <1>2, <1>4 DEF Unconfirmed
  <2>2. \A b : b \in Unconfirmed(old, order, n + 1) <=>
                 \E j \in 1 .. Len(order) : b = order[j] /\ j > k
    BY <1>2, <1>4 DEF Unconfirmed
  <2> QED BY <1>1, <1>3, <2>1, <2>2
<1>7. \A b \in Unconfirmed(old, order, n + 1) : b.id # a.id
  BY <1>2, <1>4, <1>5 DEF Unconfirmed
<1>8. {b \in Unconfirmed(old, order, n) : b.id = a.id} = {a}
  BY <1>6, <1>7
<1>9. Unconfirmed(old, order, n) \ {a} = Unconfirmed(old, order, n + 1)
  BY <1>6, <1>7
<1> QED BY <1>1, <1>3, <1>8, <1>9

LEMMA ConfirmingStep ==
  ASSUME Plain, Functional,
         NEW old, NEW h, NEW R, NEW F, NEW order, LastTurn(old, h, R, F, order),
         Confirming(old, F, order), pos < Len(hist)
  PROVE  Confirming(old, F, order)' /\ ctx'.error = F.c.error
<1>0. TurnInv /\ Frame /\ ctx' \in Contexts
  BY DEF Plain
<1>1. /\ F.c \in Contexts /\ F.c.acts \in ActionSets /\ F.c.acts \in SUBSET Actions
      /\ \A a \in F.c.acts : a.kind \in {"activity", "child", "timer"} /\ a.id \in Nat
      /\ order \in ById(F.c.acts) /\ Len(order) \in Nat /\ Len(old) \in Nat
      /\ Len(hist) = Len(old) + Len(order)
      /\ \A j \in 1 .. Len(order) : hist[Len(old) + j] = Confirmation(order[j])
  <2>1. F.c.acts \in ActionSets /\ F.c.acts \in SUBSET Actions
    BY ContextTypes DEF LastTurn
  <2>2. Len(old) \in Nat
    BY DEF LastTurn, StoredAs
  <2>3. \A a \in F.c.acts : a.id \in Nat
    BY <2>1 DEF Actions
  <2> QED BY <2>1, <2>2, <2>3 DEF LastTurn
<1>2. /\ mode = "event" /\ notify = NoTask /\ pos \in Nat /\ Len(old) <= pos /\ pos <= Len(hist)
      /\ View = At(F, "event", pos, [F.c EXCEPT !.acts = Unconfirmed(old, order, pos)])
  BY <1>0 DEF Confirming, TurnInv, TurnTypes
<1>3. PICK U, W : U = Unconfirmed(old, order, pos) /\ W = Unconfirmed(old, order, pos + 1)
  OBVIOUS
<1>4. PICK k, a : k = pos + 1 - Len(old) /\ a = order[k]
  OBVIOUS
<1>5. /\ k \in 1 .. Len(order) /\ a \in F.c.acts /\ {b \in U : b.id = a.id} = {a} /\ U \ {a} = W
  BY <1>1, <1>2, <1>3, <1>4, UnconfirmedHead
<1>6. Events[pos + 1] = Confirmation(a)
  <2>1. pos + 1 \in 1 .. Len(hist) /\ Len(old) + k = pos + 1
    BY <1>1, <1>2, <1>4
  <2>2. hist[pos + 1] = Confirmation(a)
    BY <1>1, <1>4, <1>5, <2>1
  <2> QED BY <1>0, <2>1, <2>2, HistoryFirst
<1>7. View.c = [F.c EXCEPT !.acts = U] /\ View.mode = "event" /\ View.pos = pos
      /\ View.tasks = F.tasks /\ View.notify = F.notify /\ View.retry = F.retry
  BY <1>2, <1>3, VParts DEF At
<1>8. View.c.acts = U
  BY <1>1, <1>7 DEF Contexts
<1>9. PendingAt(View.c, a.id) = {a}
  BY <1>5, <1>8 DEF PendingAt
<1>10. View' = At(View, "event", pos + 1, Confirmed(View.c, a.id))
  <2>1. pos < Len(Events)
    BY <1>0, <1>2, HistoryFirst
  <2>2. Step(prog, Events, Len(hist), View) = AfterEvent(View, Confirmation(a))
    BY <1>6, <1>7, <2>1 DEF Step
  <2>3. a \in Actions /\ a.kind \in {"activity", "child", "timer"}
    BY <1>1, <1>5
  <2> QED BY <1>7, <1>9, <2>2, <2>3, ConfirmationConfirms DEF Functional
<1>11. Confirmed(View.c, a.id) = [F.c EXCEPT !.acts = W]
  <2>1. Confirmed(View.c, a.id) = [View.c EXCEPT !.acts = U \ {a}]
    BY <1>8, <1>9 DEF Confirmed
  <2>2. PICK c \in Contexts : c = F.c
    BY <1>1
  <2>3. [[c EXCEPT !.acts = U] EXCEPT !.acts = W] = [c EXCEPT !.acts = W]
    BY <2>2 DEF Contexts
  <2> QED BY <1>5, <1>7, <2>1, <2>2, <2>3
<1>12. View' = At(F, "event", pos + 1, [F.c EXCEPT !.acts = W])
  BY <1>7, <1>10, <1>11 DEF At
<1>13. mode' = "event" /\ pos' = pos + 1 /\ notify' = notify /\ Bare(ctx') = [F.c EXCEPT !.acts = W]
  <2>1. /\ View'.mode = mode' /\ View'.pos = pos' /\ View'.notify = notify' /\ View'.c = Bare(ctx')
    BY ViewNext, VParts
  <2>2. notify = F.notify
    BY <1>7, ViewParts
  <2> QED BY <1>12, <2>1, <2>2, VParts DEF At
<1>14. hist' = hist
  BY <1>0 DEF Frame, sidecarVars
<1>15. Confirming(old, F, order)'
  <2>1. pos' <= Len(hist) /\ Len(old) <= pos'
    BY <1>1, <1>2, <1>13
  <2> QED BY <1>2, <1>3, <1>12, <1>13, <1>14, <2>1 DEF Confirming
<1>16. ctx'.error = F.c.error
  <2>1. PICK c \in Contexts : c = F.c
    BY <1>1
  <2>2. [c EXCEPT !.acts = W].error = c.error
    BY <2>1 DEF Contexts
  <2>3. Bare(ctx').error = ctx'.error
    BY <1>0, BareParts DEF SameStatus
  <2> QED BY <1>13, <2>1, <2>2, <2>3
<1> QED BY <1>15, <1>16


----------------------------------------------------------------------------
(* The steps of a turn keep what follows the last one.                     *)

LEMMA TurnRuns ==
  ASSUME ProcessEvent \/ Hop \/ RunProgram
  PROVE  mode \in {"event", "resume", "run"}
<1>1. CASE ProcessEvent
  BY <1>1 DEF ProcessEvent, BufferEvent, OnWorkflowStarted, OnExecutionStarted, OnConfirmed,
     OnUnexpected, OnCompleted, OnFailed, OnTimerFired, OnEventRaised, OnSuspended, OnResumed,
     EndDrain, OnTerminated, EndTurn, On, AtEvent
<1>2. CASE Hop
  BY <1>2 DEF Hop
<1>3. CASE RunProgram
  BY <1>3 DEF RunProgram, StayYielded, ResumeGenerator, ResumeFinished, RunSchedule, RunWaitNow,
     RunWait, RunWaitBeforeUpgrade, RunCompose, RunYield, RunIfPatched, RunContinueAsNew,
     RunReturn, Returns, AtInstruction
<1> QED BY <1>1, <1>2, <1>3

\* The parts of the state after a step.
LEMMA ViewAfter ==
  ASSUME ctx' \in Contexts
  PROVE  /\ View'.tasks = tasks' /\ View'.notify = notify' /\ View'.retry = retry'
         /\ View'.mode = mode' /\ View'.pos = pos' /\ View'.c = Bare(ctx')
         /\ View'.c.error = ctx'.error /\ View'.c.status = ctx'.status
         /\ View'.c.epatch = ctx'.epatch /\ View'.c.seq = ctx'.seq /\ View'.c.acts = ctx'.acts
<1>1. View'.c = Bare(ctx')
  BY ViewNext, VParts
<1> QED BY <1>1, ViewNext, VParts, BareParts DEF SameStatus, SameIds

\* A state of the last run that is not its last is replayed, or it is the
\* one that the last turn ended in, and the confirmations follow.
LEMMA OnTrail ==
  ASSUME TurnInv', hist' = hist,
         NEW old, NEW h, NEW R, NEW F, NEW order, LastTurn(old, h, R, F, order),
         View' \in R, mode' # "done"
  PROVE  Replays(old, R)' \/ Confirming(old, F, order)'
<1>1. ctx' \in Contexts /\ pos' \in Nat
  BY DEF TurnInv, TurnTypes
<1>2. CASE ~(mode' = "event" /\ pos' = Len(old))
  BY <1>2 DEF Replays
<1>3. CASE mode' = "event" /\ pos' = Len(old)
  <2>1. Trail(prog, old, h, R, F) /\ F.mode = "done" /\ F.pos = Len(old)
        /\ F.c \in Contexts /\ order \in ById(F.c.acts) /\ Len(hist) = Len(old) + Len(order)
        /\ Len(order) \in Nat /\ Len(old) \in Nat
    BY <1>1, <1>3 DEF LastTurn
  <2>2. PICK v : v = View'
    OBVIOUS
  <2>3. /\ v.mode = "event" /\ v.pos = Len(old) /\ v.tasks = tasks' /\ v.notify = notify'
        /\ v.retry = retry' /\ v.c = Bare(ctx')
    BY <1>1, <1>3, <2>2, ViewAfter
  <2>4. v # F
    BY <2>1, <2>3
  <2>5. Step(prog, old, h, v) \in R
    BY <2>1, <2>2, <2>4 DEF Trail
  <2>6. Step(prog, old, h, v) = At(v, "done", Len(old), v.c)
    BY <2>1, <2>3 DEF Step
  <2>7. At(v, "done", Len(old), v.c).mode = "done"
    BY VParts DEF At
  <2>8. F = At(v, "done", Len(old), v.c)
    BY <2>1, <2>5, <2>6, <2>7 DEF Trail
  <2>9. F.tasks = tasks' /\ F.notify = notify' /\ F.retry = retry' /\ F.c = Bare(ctx')
    BY <2>3, <2>8, VParts DEF At
  <2>10. Unconfirmed(old, order, Len(old)) = F.c.acts
    <3>1. F.c.acts \in ActionSets
      BY <2>1, ContextTypes
    <3>2. PICK A \in ActionSets : A = F.c.acts
      BY <3>1
    <3>3. /\ order \in Seq(A) /\ \A j \in 1 .. Len(order) : order[j] \in A
          /\ \A a \in A : \E j \in 1 .. Len(order) : order[j] = a
      BY <2>1, <3>2, OrderFacts
    <3>4. DOMAIN order = 1 .. Len(order)
      BY <3>3
    <3>5. \A k \in DOMAIN order : k > Len(old) - Len(old)
      BY <2>1, <3>4
    <3> QED BY <3>2, <3>3, <3>4, <3>5 DEF Unconfirmed
  <2>11. [F.c EXCEPT !.acts = Unconfirmed(old, order, Len(old))] = F.c
    <3>1. PICK c \in Contexts : c = F.c
      BY <2>1
    <3>2. [c EXCEPT !.acts = c.acts] = c
      BY <3>1 DEF Contexts
    <3> QED BY <2>10, <3>1, <3>2
  <2>12. View' = At(F, "event", pos', [F.c EXCEPT !.acts = Unconfirmed(old, order, pos')])
    BY <1>3, <2>9, <2>11, ViewNext DEF At
  <2>13. notify' = NoTask
    BY <1>3 DEF TurnInv, FlowInv
  <2>14. Len(old) <= pos' /\ pos' <= Len(hist)
    BY <1>3, <2>1
  <2> QED BY <1>3, <2>12, <2>13, <2>14 DEF Confirming
<1> QED BY <1>2, <1>3


LEMMA ReplaysOn ==
  ASSUME Plain, TurnInv', Functional, EndsWell, batch # <<>>, mode # "done",
         NEW old, NEW h, NEW R, NEW F, NEW order, LastTurn(old, h, R, F, order),
         Replays(old, R)
  PROVE  /\ Replays(old, R)' \/ Confirming(old, F, order)'
         /\ ctx'.error # "nondeterminism"
<1>1. /\ TurnInv /\ ctx' \in Contexts /\ hist' = hist /\ batch' = batch
  BY DEF Plain, Frame, sidecarVars
<1>2. View' \in R
  BY <1>1, ReplayedStep DEF Replays, Functional
<1>3. ctx'.error # "nondeterminism"
  <2>1. View'.c.error # "nondeterminism"
    BY <1>2 DEF LastTurn, Trail
  <2> QED BY <1>1, <2>1, ViewAfter
<1>4. mode' # "done"
  <2> SUFFICES ASSUME mode' = "done" PROVE FALSE
    OBVIOUS
  <2>1. View' = F
    <3>1. View'.mode = "done"
      BY <1>1, ViewAfter
    <3> QED BY <1>2, <3>1 DEF LastTurn, Trail
  <2>2. ctx'.status = "running" /\ pos' = Len(old)
    BY <1>1, <2>1, ViewAfter DEF LastTurn
  <2>3. pos' = Len(Events)
    <3>1. Events' = Events
      BY <1>1 DEF Events
    <3> QED BY <2>2, <3>1 DEF EndsWell
  <2>4. Len(old) <= Len(hist) /\ Len(old) \in Nat
    BY DEF LastTurn, StoredAs
  <2>5. Len(batch) \in Nat /\ Len(batch) > 0
    BY <1>1 DEF TurnInv, SidecarTypes
  <2> QED BY <1>1, <2>2, <2>3, <2>4, <2>5, HistoryFirst
<1> QED BY <1>1, <1>2, <1>3, <1>4, OnTrail

\* The first new event, after all actions are confirmed.
LEMMA MeetsNew ==
  ASSUME Plain, Functional, batch # <<>>, batch[1].type = "workflowStarted",
         NEW old, NEW h, NEW R, NEW F, NEW order, LastTurn(old, h, R, F, order),
         Confirming(old, F, order), ~(pos < Len(hist))
  PROVE  Beyond'
<1>1. /\ TurnInv /\ ctx' \in Contexts /\ hist' = hist /\ last' = last
  BY DEF Plain, Frame, sidecarVars
<1>2. /\ mode = "event" /\ pos \in Nat /\ pos = Len(hist) /\ Len(hist) \in Nat
      /\ View = At(F, "event", pos, [F.c EXCEPT !.acts = Unconfirmed(old, order, pos)])
  <2>1. pos \in Nat /\ pos <= Len(hist) /\ Len(hist) \in Nat
    BY <1>1, HistoryFirst DEF Confirming, TurnInv, TurnTypes
  <2> QED BY <2>1 DEF Confirming
<1>3. /\ Len(hist) = Len(old) + Len(order) /\ order \in ById(F.c.acts) /\ F.c \in Contexts
      /\ Len(old) \in Nat /\ Len(order) \in Nat /\ SnapOf(F) = last.snap[1]
  BY DEF LastTurn, StoredAs
<1>4. Unconfirmed(old, order, pos) = {}
  <2>1. F.c.acts \in ActionSets
    BY <1>3, ContextTypes
  <2>2. order \in Seq(F.c.acts)
    BY <1>3, <2>1, OrderFacts
  <2>3. DOMAIN order = 1 .. Len(order)
    BY <2>2
  <2>4. \A k \in DOMAIN order : ~(k > pos - Len(old))
    BY <1>2, <1>3, <2>3
  <2> QED BY <2>4 DEF Unconfirmed
<1>5. pos < Len(Events) /\ Events[pos + 1] = batch[1]
  <2>1. Len(batch) \in Nat /\ Len(batch) > 0
    BY <1>1 DEF TurnInv, SidecarTypes
  <2>2. pos < Len(Events) /\ pos + 1 \in 1 .. Len(Events) /\ pos + 1 > Len(hist)
        /\ pos + 1 - Len(hist) = 1
    BY <1>1, <1>2, <2>1, HistoryFirst
  <2>3. ASSUME NEW i \in 1 .. Len(Events), i > Len(hist), i - Len(hist) = 1
        PROVE  Events[i] = batch[1]
    <3>1. Events[i] = batch[i - Len(hist)]
      BY <1>1, <2>3, HistoryFirst
    <3> QED BY <2>3, <3>1
  <2>4. PICK i \in 1 .. Len(Events) : i = pos + 1
    BY <2>2
  <2>5. i > Len(hist) /\ i - Len(hist) = 1
    <3>1. pos \in Nat /\ pos = Len(hist)
      BY <1>2
    <3> QED BY <2>4, <3>1
  <2>6. Events[i] = batch[1]
    BY <2>3, <2>5
  <2> QED BY <2>2, <2>4, <2>6
<1>6. View.mode = "event" /\ View.pos = pos /\ View.c = [F.c EXCEPT !.acts = {}]
  BY <1>2, <1>4, VParts DEF At
<1>7. View' = At(View, "event", pos + 1, View.c)
  <2>1. Step(prog, Events, Len(hist), View) = AfterEvent(View, batch[1])
    BY <1>5, <1>6 DEF Step
  <2> QED BY <1>6, <2>1, EventKinds DEF Functional
<1>8. pos' = pos + 1 /\ ctx'.acts = {} /\ ctx'.seq = last.snap[1].seq
  <2>1. View'.pos = pos + 1 /\ View'.c = [F.c EXCEPT !.acts = {}]
    BY <1>6, <1>7, VParts DEF At
  <2>2. PICK c \in Contexts : c = F.c
    BY <1>3
  <2>3. [c EXCEPT !.acts = {}].acts = {} /\ [c EXCEPT !.acts = {}].seq = c.seq
    BY <2>2 DEF Contexts
  <2>4. last.snap[1].seq = F.c.seq
    BY <1>3 DEF SnapOf
  <2> QED BY <1>1, <2>1, <2>2, <2>3, <2>4, ViewAfter
<1>9. ctx'.seq \in Nat
  BY <1>1, ContextTypes
<1> QED BY <1>1, <1>2, <1>8, <1>9 DEF Beyond

LEMMA StaysBeyond ==
  ASSUME Plain, Advance, Beyond, last.snap[1].seq \in Nat
  PROVE  Beyond'
<1>1. /\ TurnInv /\ ctx' \in Contexts /\ ctx \in Contexts /\ hist' = hist /\ last' = last
      /\ pos \in Nat /\ Len(hist) \in Nat
  BY HistoryFirst DEF Plain, Frame, sidecarVars, TurnInv, TurnTypes
<1>2. ctx.seq \in Nat /\ ctx'.seq \in Nat /\ ctx'.acts \in SUBSET Actions
  BY <1>1, ContextTypes
<1>3. pos' = pos \/ pos' = pos + 1
  BY DEF Advance, Moves
<1>4. /\ ctx'.seq >= ctx.seq /\ \A a \in ctx'.acts : a \in ctx.acts \/ a.id > ctx.seq
  BY DEF Advance, Grows
<1>5. PICK s \in Nat : s = last.snap[1].seq
  OBVIOUS
<1>6. pos > Len(hist) /\ ctx.seq >= s /\ \A a \in ctx.acts : a.id > s
  BY <1>5 DEF Beyond
<1>7. \A a \in ctx'.acts : a.id > s
  <2> SUFFICES ASSUME NEW a \in ctx'.acts PROVE a.id > s
    OBVIOUS
  <2>1. a.id \in Nat
    BY <1>2 DEF Actions
  <2>2. a.id > ctx.seq => a.id > s
    BY <1>2, <1>5, <1>6, <2>1
  <2> QED BY <1>4, <1>6, <2>2
<1>8. pos' > Len(hist) /\ ctx'.seq >= s
  BY <1>1, <1>2, <1>3, <1>4, <1>5, <1>6
<1> QED BY <1>1, <1>5, <1>7, <1>8 DEF Beyond

\* Confirmations are history.
LEMMA ConfirmsHistory ==
  ASSUME Plain, OnConfirmed, NoConfirms(batch)
  PROVE  pos < Len(hist)
<1>1. /\ Current = Events[pos + 1] /\ Confirms(Current)
  BY HandlesEvent DEF OnConfirmed, Confirms
<1>2. TurnInv /\ pos \in Nat /\ pos < Len(Events)
  BY DEF OnConfirmed, On, HasEvent, Plain, Draining, TurnInv, TurnTypes
<1>3. Len(hist) \in Nat /\ Len(Events) \in Nat
  BY <1>2, HistoryFirst
<1> SUFFICES ASSUME ~(pos < Len(hist)) PROVE FALSE
  OBVIOUS
<1>4. pos + 1 \in 1 .. Len(Events) /\ pos + 1 > Len(hist)
  BY <1>2, <1>3
<1>5. pos + 1 - Len(hist) \in DOMAIN batch /\ Events[pos + 1] = batch[pos + 1 - Len(hist)]
  BY <1>2, <1>4, HistoryFirst
<1> QED BY <1>1, <1>5 DEF NoConfirms


LEMMA DrainStays ==
  ASSUME Plain, ProcessEvent \/ Hop \/ RunProgram
  PROVE  drain' = 0
<1>1. ~Draining /\ drain = 0 /\ ~suspended
  BY DEF Plain, Steady, Draining
<1>2. Take => drain' = 0
  BY <1>1 DEF Take
<1>3. \A types : On(types) => drain' = 0
  BY <1>2 DEF On
<1>4. CASE ProcessEvent
  <2>1. CASE \/ OnWorkflowStarted \/ OnExecutionStarted \/ OnConfirmed \/ OnUnexpected \/ OnCompleted
             \/ OnFailed \/ OnTimerFired \/ OnEventRaised \/ OnSuspended \/ OnTerminated
    <3>1. \E types : On(types)
      BY <2>1 DEF OnWorkflowStarted, OnExecutionStarted, OnConfirmed, OnUnexpected, OnCompleted,
         OnFailed, OnTimerFired, OnEventRaised, OnSuspended, OnTerminated
    <3> QED BY <1>3, <3>1
  <2>2. CASE BufferEvent
    BY <1>1, <2>2 DEF BufferEvent
  <2>3. CASE OnResumed
    BY <1>1, <1>2, <2>3 DEF OnResumed
  <2>4. CASE EndDrain \/ EndTurn
    BY <1>1, <2>4 DEF EndDrain, EndTurn
  <2> QED BY <1>4, <2>1, <2>2, <2>3, <2>4 DEF ProcessEvent
<1>5. CASE Hop
  BY <1>1, <1>5 DEF Hop
<1>6. CASE RunProgram
  BY <1>1, <1>6 DEF RunProgram, StayYielded, ResumeGenerator, ResumeFinished, RunSchedule,
     RunWaitNow, RunWait, RunWaitBeforeUpgrade, RunCompose, RunYield, RunIfPatched,
     RunContinueAsNew, RunReturn
<1> QED BY <1>4, <1>5, <1>6

\* The states of the running turn, and the one it goes to.
LEMMA TrailGoesOn ==
  ASSUME Plain, Functional, Moves, ctx.epatch \subseteq ctx'.epatch,
         ctx'.error # "nondeterminism", mode # "done",
         NEW R, Trail(prog, Events, Len(hist), R, View)
  PROVE  Trail(prog, Events, Len(hist), R \cup {View'}, View')
<1>1. /\ ctx \in Contexts /\ ctx' \in Contexts /\ pos \in Nat /\ (pos' = pos \/ pos' = pos + 1)
  BY DEF Plain, TurnInv, TurnTypes, Moves
<1>2. PICK v, w : v = View /\ w = View'
  OBVIOUS
<1>3. /\ v.pos = pos /\ w.pos = pos' /\ v.c.epatch = ctx.epatch /\ w.c.epatch = ctx'.epatch
      /\ v.mode = mode /\ w.c.error = ctx'.error
  BY <1>1, <1>2, ViewParts, ViewAfter, BareParts
<1>4. w = Step(prog, Events, Len(hist), v)
  BY <1>2 DEF Functional
<1>5. Trail(prog, Events, Len(hist), R, v)
  BY <1>2
<1>6. ASSUME NEW u \in R
      PROVE  /\ u # w => u.mode # "done" /\ Step(prog, Events, Len(hist), u) \in R \cup {w}
             /\ u.pos \in Nat /\ u.pos <= w.pos /\ u.c.epatch \subseteq w.c.epatch
             /\ u.c.error # "nondeterminism"
  <2>1. u.pos \in Nat /\ u.pos <= v.pos /\ u.c.epatch \subseteq v.c.epatch
        /\ u.c.error # "nondeterminism"
    BY <1>5, <1>6 DEF Trail
  <2>2. u.pos <= w.pos
    BY <1>1, <1>3, <2>1
  <2>3. CASE u = v
    BY <1>3, <1>4, <2>1, <2>2, <2>3
  <2>4. CASE u # v
    <3>1. u.mode # "done" /\ Step(prog, Events, Len(hist), u) \in R
      BY <1>5, <1>6, <2>4 DEF Trail
    <3> QED BY <1>3, <2>1, <2>2, <3>1
  <2> QED BY <2>3, <2>4
<1>7. w.pos \in Nat /\ w.pos <= w.pos /\ w.c.error # "nondeterminism"
  BY <1>1, <1>3
<1>8. Start \in R
  BY <1>5 DEF Trail
<1>9. Trail(prog, Events, Len(hist), R \cup {w}, w)
  BY <1>6, <1>7, <1>8 DEF Trail
<1> QED BY <1>2, <1>9

LEMMA PatchesStay ==
  ASSUME Plain, PatchesKnown, Moves, mode # "idle"
  PROVE  PatchesKnown'
<1>1. Events' = Events /\ pos \in Nat
  BY DEF Plain, Frame, sidecarVars, Events, TurnInv, TurnTypes
<1>2. ctx.hpatch = PatchesRead(Events, pos)
  BY DEF PatchesKnown
<1>3. ctx'.hpatch = PatchesRead(Events, pos')
  BY <1>1, <1>2, PatchesMore DEF Moves
<1> QED BY <1>1, <1>3 DEF PatchesKnown

LEMMA TurnReplay ==
  ASSUME ReplayInv, TurnInv, TurnInv', Steady, Steady', Turn, UNCHANGED scene
  PROVE  ReplayInv'
<1>1. Plain /\ (ProcessEvent \/ Hop \/ RunProgram)
  BY DEF Plain, Turn, Frame, Steady, ReplayInv, SidecarPart, TurnInv, TurnTypes
<1>2. /\ ctx \in Contexts /\ ctx' \in Contexts /\ mode \in {"event", "resume", "run"}
      /\ UNCHANGED <<scene, hist, inbox, batch, out, status, sdk, last, used>>
      /\ batch # <<>> /\ batch[1].type = "workflowStarted" /\ status = "running"
  <2>1. mode \in {"event", "resume", "run"}
    BY <1>1, TurnRuns
  <2>2. batch # <<>> /\ batch[1] = Event("workflowStarted", 0, "none", 0) /\ status = "running"
    BY <2>1 DEF TurnInv, IdleInv, ReplayInv, SidecarPart
  <2> QED BY <1>1, <2>1, <2>2 DEF Plain, TurnInv, TurnTypes, Frame, sidecarVars, Event
<1>3. Functional
  BY <1>1, TurnIs DEF ReplayInv, TurnPart
<1>4. OnConfirmed => SameKinds(ctx, ctx') /\ Moves /\ EndsWell /\ pos < Len(hist)
  BY <1>1, OnConfirmedKinds, ConfirmsHistory DEF ReplayInv, SidecarPart
<1>5. ~OnConfirmed => Advance
  BY <1>1, TurnAdvances
<1>6. Moves /\ EndsWell
  BY <1>4, <1>5 DEF Advance
<1>7. /\ ctx.epatch \subseteq ctx'.epatch
      /\ ctx'.status = "running" => \A a \in ctx'.acts : a.kind # "complete"
  <2>1. ctx.status = "running" => \A a \in ctx.acts : a.kind # "complete"
    BY DEF ReplayInv, TurnPart
  <2>2. CASE OnConfirmed
    BY <1>4, <2>1, <2>2 DEF SameKinds
  <2>3. CASE ~OnConfirmed
    BY <1>5, <2>1, <2>3 DEF Advance, Grows
  <2> QED BY <2>2, <2>3
<1>8. SidecarPart'
  BY <1>1, <1>2, DrainStays DEF ReplayInv, SidecarPart
<1>9. last.snap # <<>> => /\ Follows'
                          /\ OnConfirmed => ctx'.error # "nondeterminism"
  <2> SUFFICES ASSUME last.snap # <<>>
               PROVE  Follows' /\ (OnConfirmed => ctx'.error # "nondeterminism")
    OBVIOUS
  <2>1. PICK old, h, R, F, order :
          /\ LastTurn(old, h, R, F, order)
          /\ Replays(old, R) \/ Confirming(old, F, order) \/ Beyond
    BY <1>2 DEF ReplayInv, FollowPart, Follows
  <2>2. LastTurn(old, h, R, F, order)'
    BY <1>2, <2>1 DEF LastTurn, prog
  <2>3. /\ Replays(old, R)' \/ Confirming(old, F, order)' \/ Beyond'
        /\ OnConfirmed => ctx'.error # "nondeterminism"
    <3>1. CASE Replays(old, R)
      BY <1>1, <1>2, <1>3, <1>6, <2>1, <3>1, ReplaysOn
    <3>2. CASE Confirming(old, F, order) /\ pos < Len(hist)
      <4>1. F.c.error # "nondeterminism"
        BY <2>1 DEF LastTurn, Trail
      <4> QED BY <1>1, <1>3, <2>1, <3>2, <4>1, ConfirmingStep
    <3>3. CASE Confirming(old, F, order) /\ ~(pos < Len(hist))
      BY <1>1, <1>2, <1>3, <1>4, <2>1, <3>3, MeetsNew
    <3>4. CASE Beyond
      <4>1. last.snap[1].seq \in Nat
        <5>1. F.c.seq \in Nat
          BY <2>1, ContextTypes DEF LastTurn
        <5> QED BY <2>1, <5>1 DEF LastTurn, SnapOf
      <4>2. ~(pos < Len(hist))
        BY HistoryFirst, <3>4 DEF Beyond, TurnInv, TurnTypes
      <4> QED BY <1>1, <1>4, <1>5, <3>4, <4>1, <4>2, StaysBeyond
    <3> QED BY <2>1, <3>1, <3>2, <3>3, <3>4
  <2> QED BY <2>2, <2>3 DEF Follows
<1>10. ctx'.error # "nondeterminism"
  <2>1. CASE OnConfirmed
    <3>1. last.snap # <<>>
      <4>1. hist # <<>>
        BY <1>4, <2>1 DEF TurnInv, TurnTypes
      <4> QED BY <4>1 DEF ReplayInv, SidecarPart
    <3> QED BY <1>9, <2>1, <3>1
  <2>2. CASE ~OnConfirmed
    BY <1>5, <2>2 DEF Advance, Grows, ReplayInv, TurnPart
  <2> QED BY <2>1, <2>2
<1>11. PatchesKnown'
  BY <1>1, <1>2, <1>6, PatchesStay DEF ReplayInv, TurnPart
<1>12. \E R : Trail(prog, Events, Len(hist), R, View)'
  <2>1. PICK R : Trail(prog, Events, Len(hist), R, View)
    BY <1>2 DEF ReplayInv, TurnPart
  <2>2. Trail(prog, Events, Len(hist), R \cup {View'}, View')
    BY <1>1, <1>2, <1>3, <1>6, <1>7, <1>10, <2>1, TrailGoesOn
  <2>3. prog' = prog /\ Events' = Events /\ hist' = hist
    BY <1>2 DEF prog, Events
  <2> QED BY <2>2, <2>3
<1>13. TurnPart'
  <2>1. mode' = "done" /\ ctx'.status = "running" => pos' = Len(Events')
    BY <1>2, <1>6 DEF EndsWell, Events
  <2> QED BY <1>7, <1>10, <1>11, <1>12, <2>1 DEF TurnPart
<1>14. FollowPart'
  BY <1>2, <1>9 DEF FollowPart
<1> QED BY <1>8, <1>13, <1>14 DEF ReplayInv


----------------------------------------------------------------------------
(* Between two turns.                                                      *)

\* Nothing of a turn is there to say anything of.
LEMMA IdleTurnPart == mode = "idle" /\ IdleInv => TurnPart
<1> SUFFICES ASSUME mode = "idle", IdleInv PROVE TurnPart
  OBVIOUS
<1>1. ctx = NewContext
  BY DEF IdleInv
<1>2. ctx.acts = {} /\ ctx.error = "none"
  BY <1>1 DEF NewContext
<1> QED BY <1>2 DEF TurnPart, PatchesKnown

\* What followed the last turn still does, and no turn runs.
LEMMA IdleReplay ==
  ASSUME ReplayInv, TurnInv', UNCHANGED <<scene, hist, last, status>>, mode' = "idle",
         drain' = 0, NoConfirms(inbox'), NoConfirms(batch')
  PROVE  ReplayInv'
<1>1. SidecarPart'
  BY DEF ReplayInv, SidecarPart
<1>2. TurnPart'
  <2>1. (mode = "idle" /\ IdleInv => TurnPart)'
    BY IdleTurnPart, PTL
  <2> QED BY <2>1 DEF TurnInv
<1>3. FollowPart'
  <2> SUFFICES ASSUME status = "running", last.snap # <<>> PROVE Follows'
    BY DEF FollowPart
  <2>1. PICK old, h, R, F, order : LastTurn(old, h, R, F, order)
    BY DEF ReplayInv, FollowPart, Follows
  <2>2. LastTurn(old, h, R, F, order)'
    BY <2>1 DEF LastTurn, prog
  <2> QED BY <2>2 DEF Follows
<1> QED BY <1>1, <1>2, <1>3 DEF ReplayInv

LEMMA NoConfirmsAppend ==
  ASSUME NEW s \in Seq(HistoryEvents), NEW e, NoConfirms(s), ~Confirms(e)
  PROVE  NoConfirms(Append(s, e))
<1>1. PICK t : t = Append(s, e)
  OBVIOUS
<1>2. /\ Len(t) = Len(s) + 1 /\ Len(s) \in Nat /\ DOMAIN t = 1 .. Len(s) + 1
      /\ DOMAIN s = 1 .. Len(s)
      /\ \A i \in 1 .. Len(s) : t[i] = s[i]
      /\ t[Len(s) + 1] = e
  BY <1>1
<1>3. \A i \in 1 .. Len(s) + 1 : i \in 1 .. Len(s) \/ i = Len(s) + 1
  BY <1>2
<1>4. \A i \in DOMAIN t : ~Confirms(t[i])
  BY <1>2, <1>3 DEF NoConfirms
<1> QED BY <1>1, <1>4 DEF NoConfirms

LEMMA NoConfirmsConcat ==
  ASSUME NEW s \in Seq(HistoryEvents), NEW t \in Seq(HistoryEvents), NoConfirms(s), NoConfirms(t)
  PROVE  NoConfirms(s \o t)
<1>1. PICK u : u = s \o t
  OBVIOUS
<1>2. /\ u \in Seq(HistoryEvents) /\ Len(u) = Len(s) + Len(t) /\ Len(s) \in Nat /\ Len(t) \in Nat
      /\ DOMAIN s = 1 .. Len(s) /\ DOMAIN t = 1 .. Len(t)
      /\ \A i \in 1 .. Len(s) + Len(t) : u[i] = IF i <= Len(s) THEN s[i] ELSE t[i - Len(s)]
  BY <1>1, ConcatProperties, LenProperties
<1>3. DOMAIN u = 1 .. Len(s) + Len(t)
  BY <1>2
<1>4. \A i \in 1 .. Len(s) + Len(t) :
        (i <= Len(s) /\ i \in 1 .. Len(s)) \/ (~(i <= Len(s)) /\ i - Len(s) \in 1 .. Len(t))
  BY <1>2
<1>5. \A i \in DOMAIN u : ~Confirms(u[i])
  BY <1>2, <1>3, <1>4 DEF NoConfirms
<1> QED BY <1>1, <1>5 DEF NoConfirms

LEMMA NoConfirmsTail ==
  ASSUME NEW s \in Seq(HistoryEvents), NoConfirms(s), s # <<>>
  PROVE  NoConfirms(Tail(s)) /\ Tail(s) \in Seq(HistoryEvents)
<1>1. PICK t : t = Tail(s)
  OBVIOUS
<1>2. /\ t \in Seq(HistoryEvents) /\ Len(t) = Len(s) - 1 /\ Len(s) \in Nat \ {0}
      /\ DOMAIN s = 1 .. Len(s) /\ DOMAIN t = 1 .. Len(t)
      /\ \A i \in 1 .. Len(s) - 1 : t[i] = s[i + 1]
  BY <1>1
<1>3. \A i \in 1 .. Len(s) - 1 : i + 1 \in 1 .. Len(s)
  BY <1>2
<1>4. \A i \in DOMAIN t : ~Confirms(t[i])
  BY <1>2, <1>3 DEF NoConfirms
<1> QED BY <1>1, <1>2, <1>4 DEF NoConfirms

LEMMA NoConfirmsNone ==
  /\ NoConfirms(<<>>)
  /\ \A e \in HistoryEvents : ~Confirms(e) => NoConfirms(<<e>>) /\ <<e>> \in Seq(HistoryEvents)
BY DEF NoConfirms

\* Only the sidecar makes events that confirm.
LEMMA EventConfirms ==
  ASSUME NEW type, NEW id, NEW name, NEW val
  PROVE  Confirms(Event(type, id, name, val)) <=>
           type \in {"taskScheduled", "childWorkflowInstanceCreated", "timerCreated"}
BY DEF Confirms, Event

LEMMA AppendedReplay ==
  ASSUME ReplayInv, TurnInv, TurnInv', UNCHANGED scene, Between,
         NEW e, ~Confirms(e), inbox' = Append(inbox, e)
  PROVE  ReplayInv'
<1>1. /\ UNCHANGED <<hist, last, status, batch>> /\ mode' = "idle" /\ drain' = drain
  BY DEF Between, Idle, turnVars
<1>2. inbox \in Seq(HistoryEvents) /\ inbox' \in Seq(HistoryEvents)
  BY DEF TurnInv, SidecarTypes
<1>3. NoConfirms(inbox) /\ NoConfirms(batch) /\ drain = 0
  BY DEF ReplayInv, SidecarPart
<1>4. NoConfirms(inbox')
  BY <1>2, <1>3, NoConfirmsAppend
<1> QED BY <1>1, <1>3, <1>4, IdleReplay


LEMMA OutcomeReplay ==
  ASSUME ReplayInv, TurnInv, TurnInv', UNCHANGED scene, Outcome
  PROVE  ReplayInv'
<1>1. ASSUME NEW a, NEW e, NEW u, Deliver(a, e, u), ~Confirms(e) PROVE ReplayInv'
  BY <1>1, AppendedReplay DEF Deliver
<1>2. CASE WorkDone
  <2>1. PICK a, type :
          /\ Deliver(a, Event(type, a.id, "none", a.id), used)
          /\ type \in {"taskCompleted", "childWorkflowInstanceCompleted"}
    BY <1>2 DEF WorkDone
  <2>2. ~Confirms(Event(type, a.id, "none", a.id))
    BY <2>1, EventConfirms
  <2> QED BY <1>1, <2>1, <2>2
<1>3. CASE WorkFailed
  <2>1. PICK a, type, how, u :
          /\ Deliver(a, Event(type, a.id, how, 0), u)
          /\ type \in {"taskFailed", "childWorkflowInstanceFailed"}
    BY <1>3 DEF WorkFailed
  <2>2. ~Confirms(Event(type, a.id, how, 0))
    BY <2>1, EventConfirms
  <2> QED BY <1>1, <2>1, <2>2
<1>4. CASE TimerFires
  <2>1. PICK a : Deliver(a, Event("timerFired", a.id, "none", 0), used)
    BY <1>4 DEF TimerFires
  <2>2. ~Confirms(Event("timerFired", a.id, "none", 0))
    BY EventConfirms
  <2> QED BY <1>1, <2>1, <2>2
<1> QED BY <1>2, <1>3, <1>4 DEF Outcome

LEMMA ClientReplay ==
  ASSUME ReplayInv, TurnInv, TurnInv', UNCHANGED scene, Client
  PROVE  ReplayInv'
<1>1. PICK type, name, val, u :
        /\ Request(Event(type, 0, name, val), u)
        /\ type \in {"eventRaised", "executionSuspended", "executionResumed", "executionTerminated"}
  <2>1. CASE RaiseEvent
    BY <2>1 DEF RaiseEvent
  <2>2. CASE SuspendRequested
    BY <2>2 DEF SuspendRequested
  <2>3. CASE ResumeRequested
    BY <2>3 DEF ResumeRequested
  <2>4. CASE TerminateRequested
    BY <2>4 DEF TerminateRequested
  <2> QED BY <2>1, <2>2, <2>3, <2>4 DEF Client
<1>2. ~Confirms(Event(type, 0, name, val))
  BY <1>1, EventConfirms
<1> QED BY <1>1, <1>2, AppendedReplay DEF Request

LEMMA StutterReplay ==
  ASSUME ReplayInv, TurnInv, TurnInv', UNCHANGED vars
  PROVE  ReplayInv'
<1>1. /\ UNCHANGED <<tasks, notify, ctx, retry, mode, pos, suspended, buffer, drain>>
      /\ UNCHANGED <<scene, hist, inbox, batch, out, status, sdk, last, used>>
  BY DEF vars, turnVars, sidecarVars
<1>2. prog' = prog /\ Events' = Events /\ View' = View
  BY <1>1 DEF prog, Events, View
<1>3. SidecarPart'
  BY <1>1 DEF ReplayInv, SidecarPart
<1>4. TurnPart'
  BY <1>1, <1>2 DEF ReplayInv, TurnPart, PatchesKnown
<1>5. FollowPart'
  <2> SUFFICES ASSUME status = "running", last.snap # <<>> PROVE Follows'
    BY <1>1 DEF FollowPart
  <2>1. PICK old, h, R, F, order :
          /\ LastTurn(old, h, R, F, order)
          /\ mode # "idle" => Replays(old, R) \/ Confirming(old, F, order) \/ Beyond
    BY DEF ReplayInv, FollowPart, Follows
  <2>2. LastTurn(old, h, R, F, order)'
    BY <1>1, <1>2, <2>1 DEF LastTurn
  <2>3. (mode # "idle" => Replays(old, R) \/ Confirming(old, F, order) \/ Beyond)'
    BY <1>1, <1>2, <2>1 DEF Replays, Confirming, Beyond
  <2> QED BY <2>2, <2>3 DEF Follows
<1> QED BY <1>3, <1>4, <1>5 DEF ReplayInv

\* A turn starts where the last one started.
LEMMA DispatchReplay ==
  ASSUME ReplayInv, TurnInv, TurnInv', UNCHANGED scene, Dispatch
  PROVE  ReplayInv'
<1>1. /\ mode = "idle" /\ status = "running" /\ mode' = "event" /\ inbox' = <<>>
      /\ UNCHANGED <<tasks, notify, ctx, retry, pos, drain, hist, status, last>>
      /\ batch' = <<Event("workflowStarted", 0, "none", 0)>> \o inbox
  BY DEF Dispatch, Idle
<1>2. /\ ctx = NewContext /\ tasks = [t \in TaskId |-> Free] /\ notify = NoTask
      /\ retry = [t \in TaskId |-> NoRetry] /\ pos = 0
  BY <1>1 DEF TurnInv, IdleInv
<1>3. /\ ctx.acts = {} /\ ctx.error = "none" /\ ctx.status = "running" /\ ctx.hpatch = {}
      /\ ctx.epatch = {} /\ ctx \in Contexts
  BY <1>2 DEF NewContext, TurnInv, TurnTypes
<1>4. NoConfirms(batch')
  <2>1. Event("workflowStarted", 0, "none", 0) \in HistoryEvents
    BY EventTyped DEF EventTypes, Labels
  <2>2. ~Confirms(Event("workflowStarted", 0, "none", 0))
    BY EventConfirms
  <2>3. PICK e \in HistoryEvents : e = Event("workflowStarted", 0, "none", 0)
    BY <2>1
  <2>4. NoConfirms(<<e>>) /\ <<e>> \in Seq(HistoryEvents)
    BY <2>2, <2>3, NoConfirmsNone
  <2>5. inbox \in Seq(HistoryEvents) /\ NoConfirms(inbox)
    BY DEF TurnInv, SidecarTypes, ReplayInv, SidecarPart
  <2>6. NoConfirms(<<e>> \o inbox)
    BY <2>4, <2>5, NoConfirmsConcat
  <2> QED BY <1>1, <2>3, <2>6
<1>5. SidecarPart'
  BY <1>1, <1>4, NoConfirmsNone DEF ReplayInv, SidecarPart
<1>6. View' = Start
  BY <1>1, <1>2, ViewNext DEF Start
<1>7. Start.pos = 0 /\ Start.c.error = "none"
  BY <1>2, <1>3, VParts, BareParts DEF Start, SameStatus
<1>8. TurnPart'
  <2>1. PatchesKnown'
    BY <1>1, <1>2, <1>3, PatchesMore DEF PatchesKnown
  <2>2. \A evs, n : Trail(prog, evs, n, {Start}, Start)
    BY <1>7 DEF Trail
  <2>3. (\E R : Trail(prog, Events, Len(hist), R, View))'
    <3>1. prog' = prog
      BY DEF prog
    <3>2. Trail(prog', Events', Len(hist'), {Start}, View')
      BY <1>6, <2>2, <3>1
    <3> QED BY <3>2
  <2> QED BY <1>1, <1>3, <2>1, <2>3 DEF TurnPart
<1>9. FollowPart'
  <2> SUFFICES ASSUME last.snap # <<>> PROVE Follows'
    BY <1>1 DEF FollowPart
  <2>1. PICK old, h, R, F, order : LastTurn(old, h, R, F, order)
    BY <1>1 DEF ReplayInv, FollowPart, Follows
  <2>2. LastTurn(old, h, R, F, order)'
    BY <1>1, <2>1 DEF LastTurn, prog
  <2>3. View' \in R
    BY <1>6, <2>1 DEF LastTurn, Trail
  <2>4. Replays(old, R)' \/ Confirming(old, F, order)'
    BY <1>1, <2>1, <2>3, OnTrail
  <2> QED BY <2>2, <2>4 DEF Follows
<1> QED BY <1>5, <1>8, <1>9 DEF ReplayInv

\* The events of a turn that was lost come again; nothing else is left of it.
LEMMA LoseTurnReplay ==
  ASSUME ReplayInv, TurnInv, TurnInv', UNCHANGED scene, LoseTurn
  PROVE  ReplayInv'
<1>1. /\ mode = "done" /\ mode' = "idle" /\ inbox' = Tail(batch) \o inbox /\ batch' = <<>>
      /\ UNCHANGED <<hist, status, last>> /\ drain' = 0
  BY DEF LoseTurn, NoTurn
<1>2. /\ batch # <<>> /\ batch \in Seq(HistoryEvents) /\ inbox \in Seq(HistoryEvents)
      /\ NoConfirms(batch) /\ NoConfirms(inbox)
  BY <1>1 DEF TurnInv, SidecarTypes, IdleInv, ReplayInv, SidecarPart
<1>3. NoConfirms(inbox')
  <2>1. NoConfirms(Tail(batch)) /\ Tail(batch) \in Seq(HistoryEvents)
    BY <1>2, NoConfirmsTail
  <2> QED BY <1>1, <1>2, <2>1, NoConfirmsConcat
<1> QED BY <1>1, <1>3, IdleReplay, NoConfirmsNone

\* A new generation has no history.
LEMMA CommitContinuedReplay ==
  ASSUME ReplayInv, TurnInv, TurnInv', UNCHANGED scene, CommitContinued
  PROVE  ReplayInv'
<1>1. /\ mode' = "idle" /\ hist' = <<>> /\ batch' = <<>> /\ last'.snap = <<>> /\ drain' = 0
  BY DEF CommitContinued, NoTurn
<1>2. NoConfirms(inbox')
  <2>1. PICK s \in InOrder(CarriedOver(ctx)) :
          inbox' = <<Event("executionStarted", 0, "none", 0)>>
                   \o [i \in DOMAIN s |-> Event("eventRaised", 0, s[i].name, s[i].val)]
                   \o inbox
    BY DEF CommitContinued
  <2>2. PICK e \in HistoryEvents : e = Event("executionStarted", 0, "none", 0)
    BY EventTyped DEF EventTypes, Labels
  <2>3. PICK t \in Seq(HistoryEvents) :
          t = [i \in DOMAIN s |-> Event("eventRaised", 0, s[i].name, s[i].val)]
    BY CarriedEvents DEF TurnInv, TurnTypes
  <2>4. inbox \in Seq(HistoryEvents) /\ NoConfirms(inbox)
    BY DEF TurnInv, SidecarTypes, ReplayInv, SidecarPart
  <2>5. NoConfirms(<<e>>) /\ <<e>> \in Seq(HistoryEvents)
    BY <2>2, EventConfirms, NoConfirmsNone
  <2>6. NoConfirms(t)
    BY <2>3, EventConfirms DEF NoConfirms
  <2>7. PICK u \in Seq(HistoryEvents) : u = <<e>> \o t
    <3>1. PICK x \in Seq(HistoryEvents) : x = <<e>>
      BY <2>5
    <3>2. x \o t \in Seq(HistoryEvents)
      BY ConcatProperties
    <3> QED BY <3>1, <3>2
  <2>8. NoConfirms(u)
    BY <2>5, <2>6, <2>7, NoConfirmsConcat
  <2>9. NoConfirms(u \o inbox)
    BY <2>4, <2>8, NoConfirmsConcat
  <2> QED BY <2>1, <2>2, <2>3, <2>7, <2>9
<1>3. SidecarPart'
  BY <1>1, <1>2, NoConfirmsNone DEF ReplayInv, SidecarPart
<1>4. TurnPart'
  <2>1. (mode = "idle" /\ IdleInv => TurnPart)'
    BY IdleTurnPart, PTL
  <2> QED BY <1>1, <2>1 DEF TurnInv
<1> QED BY <1>1, <1>3, <1>4 DEF ReplayInv, FollowPart


\* What the history holds after a turn: what it held before, the events of
\* the turn with its patches, and the confirmations of its actions.
LEMMA CommitHistory ==
  ASSUME TurnInv, NEW order \in ById(Scheduling),
         hist' = hist \o Recorded \o [i \in DOMAIN order |-> Confirmation(order[i])]
  PROVE  /\ Len(order) \in Nat /\ Len(hist') = Len(Events) + Len(order)
         /\ DOMAIN hist' = 1 .. Len(hist')
         /\ \A i \in 1 .. Len(hist) : hist'[i] = hist[i]
         /\ \A i \in 1 .. Len(batch) : hist'[Len(hist) + i] = Recorded[i]
         /\ \A j \in 1 .. Len(order) : hist'[Len(Events) + j] = Confirmation(order[j])
<1>1. /\ Scheduling \in ActionSets
      /\ \A a \in Scheduling : a \in Actions /\ a.kind \in {"activity", "child", "timer"}
  BY SchedulingTyped
<1>2. PICK A : A = Scheduling
  OBVIOUS
<1>3. /\ order \in Seq(A) /\ Len(order) \in Nat /\ \A j \in 1 .. Len(order) : order[j] \in A
  BY <1>1, <1>2, OrderFacts
<1>4. DOMAIN order = 1 .. Len(order)
  BY <1>3
<1>5. PICK s : s = [i \in DOMAIN order |-> Confirmation(order[i])]
  OBVIOUS
<1>6. \A i \in 1 .. Len(order) : Confirmation(order[i]) \in HistoryEvents
  BY <1>1, <1>2, <1>3, ConfirmationTyped
<1>7. PICK N \in Nat : N = Len(order)
  BY <1>3
<1>8. s \in [1 .. N -> HistoryEvents]
  BY <1>4, <1>5, <1>6, <1>7
<1>9. s \in Seq(HistoryEvents) /\ Len(s) = N
  BY <1>8
<1>10. \A i \in 1 .. N : s[i] = Confirmation(order[i])
  BY <1>4, <1>5, <1>7
<1>11. /\ hist \in Seq(HistoryEvents) /\ Recorded \in Seq(HistoryEvents)
       /\ Len(Recorded) = Len(batch) /\ Len(Events) = Len(hist) + Len(batch)
  BY RecordedTyped, HistoryFirst DEF TurnInv, SidecarTypes
<1>12. PICK x \in Seq(HistoryEvents) : x = Recorded
  BY <1>11
<1>13. hist \o x \o s \in Seq(HistoryEvents) /\ Joined(hist \o x \o s, hist, x, s)
  BY <1>9, <1>11, ThreeParts
<1>14. PICK w \in Seq(HistoryEvents) : w = hist'
  BY <1>5, <1>12, <1>13
<1>15. Joined(w, hist, x, s)
  BY <1>5, <1>12, <1>13, <1>14
<1>16. /\ Len(w) = Len(hist) + Len(x) + N
       /\ \A i \in 1 .. Len(hist) : w[i] = hist[i]
       /\ \A i \in 1 .. Len(x) : w[Len(hist) + i] = x[i]
       /\ \A i \in 1 .. N : w[Len(hist) + Len(x) + i] = s[i]
  BY <1>9, <1>15 DEF Joined
<1>17. DOMAIN w = 1 .. Len(w)
  BY <1>14
<1>18. Len(x) = Len(batch) /\ Len(Events) = Len(hist) + Len(x)
  BY <1>11, <1>12
<1> QED BY <1>7, <1>10, <1>12, <1>14, <1>16, <1>17, <1>18

\* The events of a turn are stored.
LEMMA CommitStores ==
  ASSUME TurnInv, mode = "done", NEW order \in ById(Scheduling),
         hist' = hist \o Recorded \o [i \in DOMAIN order |-> Confirmation(order[i])]
  PROVE  StoredAs(Events, Len(hist), hist', ctx.epatch)
<1>1. /\ Len(hist) \in Nat /\ Len(Events) \in Nat /\ Len(Events) = Len(hist) + Len(batch)
      /\ \A i \in 1 .. Len(hist) : Events[i] = hist[i]
      /\ \A i \in 1 .. Len(Events) : i > Len(hist) =>
           i - Len(hist) \in DOMAIN batch /\ Events[i] = batch[i - Len(hist)]
  BY HistoryFirst
<1>2. /\ Len(order) \in Nat /\ Len(hist') = Len(Events) + Len(order)
      /\ \A i \in 1 .. Len(hist) : hist'[i] = hist[i]
      /\ \A i \in 1 .. Len(batch) : hist'[Len(hist) + i] = Recorded[i]
  BY CommitHistory
<1>3. /\ batch \in Seq(HistoryEvents) /\ batch # <<>> /\ batch[1].type = "workflowStarted"
      /\ Events \in Seq(HistoryEvents)
  BY CurrentTyped DEF TurnInv, IdleInv, SidecarTypes, Event
<1>4. Len(batch) \in Nat /\ Len(batch) > 0 /\ DOMAIN batch = 1 .. Len(batch)
  BY <1>3
<1>5. Len(hist) < Len(Events) /\ Len(Events) <= Len(hist')
  BY <1>1, <1>2, <1>4
<1>6. Events[Len(hist) + 1].type = "workflowStarted"
  <2>1. /\ Len(hist) + 1 \in 1 .. Len(Events) /\ Len(hist) + 1 > Len(hist)
        /\ Len(hist) + 1 - Len(hist) = 1
    BY <1>1, <1>4
  <2> QED BY <1>1, <1>3, <2>1
<1>7. ASSUME NEW i \in 1 .. Len(Events)
      PROVE  hist'[i] = IF i > Len(hist) /\ Events[i].type = "workflowStarted"
                        THEN [Events[i] EXCEPT !.patches = ctx.epatch] ELSE Events[i]
  <2>1. CASE i > Len(hist)
    <3>1. PICK k : k = i - Len(hist)
      OBVIOUS
    <3>2. k \in DOMAIN batch /\ Events[i] = batch[k] /\ Len(hist) + k = i
      BY <1>1, <1>7, <2>1, <3>1
    <3>3. hist'[i] = Recorded[k]
      BY <1>2, <1>4, <3>2
    <3>4. Recorded[k] = IF batch[k].type = "workflowStarted"
                        THEN [batch[k] EXCEPT !.patches = ctx.epatch] ELSE batch[k]
      BY <3>2 DEF Recorded
    <3> QED BY <2>1, <3>2, <3>3, <3>4
  <2>2. CASE ~(i > Len(hist))
    <3>1. i \in 1 .. Len(hist)
      BY <1>1, <1>7, <2>2
    <3> QED BY <1>1, <1>2, <2>2, <3>1
  <2> QED BY <2>1, <2>2
<1> QED BY <1>1, <1>3, <1>5, <1>6, <1>7 DEF StoredAs

\* No id that the history confirms is above those of the turn.
LEMMA CommitIds ==
  ASSUME ReplayInv, TurnInv, mode = "done", ctx.status = "running",
         NEW order \in ById(Scheduling),
         hist' = hist \o Recorded \o [i \in DOMAIN order |-> Confirmation(order[i])]
  PROVE  \A i \in DOMAIN hist' : Confirms(hist'[i]) => hist'[i].id <= ctx.seq
<1>1. /\ Len(order) \in Nat /\ Len(hist') = Len(Events) + Len(order)
      /\ DOMAIN hist' = 1 .. Len(hist')
      /\ \A i \in 1 .. Len(hist) : hist'[i] = hist[i]
      /\ \A i \in 1 .. Len(batch) : hist'[Len(hist) + i] = Recorded[i]
      /\ \A j \in 1 .. Len(order) : hist'[Len(Events) + j] = Confirmation(order[j])
  BY CommitHistory
<1>2. /\ Len(hist) \in Nat /\ Len(Events) = Len(hist) + Len(batch)
      /\ hist \in Seq(HistoryEvents) /\ batch \in Seq(HistoryEvents) /\ ctx \in Contexts
  BY HistoryFirst DEF TurnInv, SidecarTypes, TurnTypes
<1>3. Len(batch) \in Nat /\ DOMAIN batch = 1 .. Len(batch) /\ DOMAIN hist = 1 .. Len(hist)
      /\ ctx.seq \in Nat
  <2>1. ctx.seq \in Nat
    BY <1>2, ContextTypes
  <2>2. \A s \in Seq(HistoryEvents) : Len(s) \in Nat /\ DOMAIN s = 1 .. Len(s)
    BY LenProperties
  <2> QED BY <1>2, <2>1, <2>2
<1>4. ASSUME NEW i \in 1 .. Len(hist), Confirms(hist[i])
      PROVE  hist[i].id <= ctx.seq
  <2>1. last.snap # <<>> /\ status = "running"
    <3>1. hist # <<>>
      BY <1>2, <1>3, <1>4
    <3> QED BY <3>1 DEF ReplayInv, SidecarPart
  <2>2. PICK old, h, R, F, ord :
          /\ LastTurn(old, h, R, F, ord)
          /\ Replays(old, R) \/ Confirming(old, F, ord) \/ Beyond
    BY <2>1 DEF ReplayInv, FollowPart, Follows
  <2>3. Beyond
    BY <2>2 DEF Replays, Confirming
  <2>4. hist[i].id <= last.snap[1].seq /\ last.snap[1].seq \in Nat
    <3>1. F.c.seq \in Nat
      BY <2>2, ContextTypes DEF LastTurn
    <3>2. last.snap[1].seq = F.c.seq
      BY <2>2 DEF LastTurn, SnapOf
    <3> QED BY <1>3, <1>4, <2>2, <3>1, <3>2 DEF LastTurn
  <2>5. hist[i].id \in Nat
    BY <1>2, <1>3, <1>4 DEF HistoryEvents
  <2> QED BY <1>3, <2>3, <2>4, <2>5 DEF Beyond
<1>5. ASSUME NEW i \in 1 .. Len(batch) PROVE ~Confirms(Recorded[i])
  <2>1. ~Confirms(batch[i])
    BY <1>3, <1>5 DEF ReplayInv, SidecarPart, NoConfirms
  <2>2. Recorded[i].type = batch[i].type
    BY <1>3, <1>5, RecordedTyped
  <2> QED BY <2>1, <2>2 DEF Confirms
<1>6. ASSUME NEW j \in 1 .. Len(order) PROVE Confirmation(order[j]).id <= ctx.seq
  <2>1. order[j] \in Scheduling
    BY <1>6, SchedulingTyped, OrderFacts
  <2>2. Scheduling \subseteq ctx.acts
    BY DEF Scheduling, GetActions
  <2>3. order[j].id <= ctx.seq
    BY <1>3, <2>1, <2>2 DEF TurnInv, IdInv
  <2>4. Confirmation(order[j]).id = order[j].id
    BY DEF Confirmation, Event
  <2> QED BY <2>3, <2>4
<1>7. ASSUME NEW i \in DOMAIN hist', Confirms(hist'[i]) PROVE hist'[i].id <= ctx.seq
  <2>1. CASE i <= Len(hist)
    <3>1. i \in 1 .. Len(hist)
      BY <1>1, <1>2, <1>7, <2>1
    <3> QED BY <1>1, <1>4, <1>7, <3>1
  <2>2. CASE i > Len(hist) /\ i <= Len(Events)
    <3>1. i - Len(hist) \in 1 .. Len(batch) /\ Len(hist) + (i - Len(hist)) = i
      <4>1. i \in Nat /\ Len(hist) < i /\ i <= Len(hist) + Len(batch)
        BY <1>1, <1>2, <1>3, <1>7, <2>2
      <4> QED BY <1>2, <1>3, <4>1
    <3>2. hist'[i] = Recorded[i - Len(hist)]
      BY <1>1, <3>1
    <3> QED BY <1>5, <1>7, <3>1, <3>2
  <2>3. CASE i > Len(Events)
    <3>1. i - Len(Events) \in 1 .. Len(order) /\ Len(Events) + (i - Len(Events)) = i
      <4>1. PICK n \in Nat : n = Len(Events)
        BY <1>2, <1>3
      <4>2. i \in Nat /\ n < i /\ i <= n + Len(order) /\ Len(order) \in Nat
        BY <1>1, <1>2, <1>3, <1>7, <2>3, <4>1
      <4> QED BY <4>1, <4>2
    <3>2. hist'[i] = Confirmation(order[i - Len(Events)])
      BY <1>1, <3>1
    <3> QED BY <1>6, <3>1, <3>2
  <2> QED BY <1>1, <1>2, <1>3, <1>7, <2>1, <2>2, <2>3
<1> QED BY <1>7

\* The turn that ends is the last one.
LEMMA CommitTurnReplay ==
  ASSUME ReplayInv, TurnInv, TurnInv', UNCHANGED scene, CommitTurn
  PROVE  ReplayInv'
<1>1. /\ mode = "done" /\ mode' = "idle" /\ batch' = <<>> /\ inbox' = inbox /\ drain' = 0
      /\ status' = ctx.status /\ prog' = prog
  BY DEF CommitTurn, NoTurn, prog
<1>2. last'.snap = <<Snapshot>>
  <2>1. last \in [snap: Seq(Snapshots), before: [Names -> Seq(Nat)]]
    BY DEF TurnInv, SidecarTypes
  <2>2. PICK s : s = <<Snapshot>>
    OBVIOUS
  <2>3. last' = [last EXCEPT !.snap = s]
    BY <2>2 DEF CommitTurn
  <2> QED BY <2>1, <2>2, <2>3
<1>3. SidecarPart'
  BY <1>1, <1>2, NoConfirmsNone DEF ReplayInv, SidecarPart
<1>4. TurnPart'
  <2>1. (mode = "idle" /\ IdleInv => TurnPart)'
    BY IdleTurnPart, PTL
  <2> QED BY <1>1, <2>1 DEF TurnInv
<1>5. FollowPart'
  <2> SUFFICES ASSUME ctx.status = "running" PROVE Follows'
    BY <1>1 DEF FollowPart
  <2>1. PICK order \in ById(Scheduling) :
          hist' = hist \o Recorded \o [i \in DOMAIN order |-> Confirmation(order[i])]
    BY DEF CommitTurn
  <2>2. PICK R : Trail(prog, Events, Len(hist), R, View)
    BY <1>1 DEF ReplayInv, TurnPart
  <2>3. PICK old, h, F : old = Events /\ h = Len(hist) /\ F = View
    OBVIOUS
  <2>4. ctx \in Contexts
    BY DEF TurnInv, TurnTypes
  <2>5. /\ F.c = Bare(ctx) /\ F.mode = "done" /\ F.pos = pos /\ F.tasks = tasks /\ F.retry = retry
        /\ F.c \in Contexts /\ F.c.acts = ctx.acts /\ F.c.seq = ctx.seq
        /\ F.c.status = ctx.status /\ F.c.epatch = ctx.epatch
    BY <1>1, <2>3, <2>4, ViewParts, BareParts DEF SameIds, SameStatus
  <2>6. Scheduling = ctx.acts
    BY DEF Scheduling, GetActions, ReplayInv, TurnPart
  <2>7. pos = Len(Events)
    BY <1>1 DEF ReplayInv, TurnPart
  <2>8. Trail(prog', old, h, R, F)
    BY <1>1, <2>2, <2>3
  <2>9. \A a \in F.c.acts : a.kind \in {"activity", "child", "timer"}
    BY <2>5, <2>6, SchedulingTyped
  <2>10. StoredAs(old, h, hist', F.c.epatch)
    BY <1>1, <2>1, <2>3, <2>5, CommitStores
  <2>11. /\ Len(order) \in Nat /\ Len(hist') = Len(old) + Len(order)
         /\ \A j \in 1 .. Len(order) : hist'[Len(old) + j] = Confirmation(order[j])
    BY <2>1, <2>3, CommitHistory
  <2>12. SnapOf(F) = last'.snap[1]
    <3>1. SnapOf(F) = Snapshot
      BY <2>4, <2>5, BareParts DEF SnapOf, Snapshot, SameProgram, SameIds, SameEvents
    <3> QED BY <1>2, <3>1
  <2>13. \A i \in DOMAIN hist' : Confirms(hist'[i]) => hist'[i].id <= last'.snap[1].seq
    <3>1. last'.snap[1].seq = ctx.seq
      BY <2>5, <2>12 DEF SnapOf
    <3> QED BY <1>1, <2>1, <3>1, CommitIds
  <2>14. LastTurn(old, h, R, F, order)'
    BY <2>1, <2>3, <2>5, <2>6, <2>7, <2>8, <2>9, <2>10, <2>11, <2>12, <2>13 DEF LastTurn
  <2> QED BY <1>1, <2>14 DEF Follows
<1> QED BY <1>3, <1>4, <1>5 DEF ReplayInv


----------------------------------------------------------------------------
(* The invariant.                                                          *)

LEMMA InitReplay == Init /\ Steady => ReplayInv
<1> SUFFICES ASSUME Init, Steady PROVE ReplayInv
  OBVIOUS
<1>1. ~scene.upgrade
  BY OrchestratorAssumption DEF Init, Steady
<1>2. NoConfirms(inbox) /\ NoConfirms(batch)
  <2>1. PICK e \in HistoryEvents : e = Event("executionStarted", 0, "none", 0)
    BY EventTyped DEF EventTypes, Labels
  <2>2. NoConfirms(<<e>>)
    BY <2>1, EventConfirms, NoConfirmsNone
  <2> QED BY <2>1, <2>2, NoConfirmsNone DEF Init
<1>3. SidecarPart
  BY <1>1, <1>2 DEF Init, SidecarPart
<1>4. TurnPart
  BY IdleTurnPart DEF Init, IdleInv
<1>5. FollowPart
  BY DEF Init, FollowPart
<1> QED BY <1>3, <1>4, <1>5 DEF ReplayInv

(* Every step preserves it, while no old code runs and nothing is suspended. *)
LEMMA StepReplay ==
  TurnInv /\ TurnInv' /\ Steady /\ Steady' /\ ReplayInv /\ [Next]_vars => ReplayInv'
<1> SUFFICES ASSUME TurnInv, TurnInv', Steady, Steady', ReplayInv, [Next]_vars PROVE ReplayInv'
  OBVIOUS
<1>1. CASE UNCHANGED vars
  BY <1>1, StutterReplay
<1>2. CASE Turn /\ UNCHANGED scene
  BY <1>2, TurnReplay
<1>3. CASE Dispatch /\ UNCHANGED scene
  BY <1>3, DispatchReplay
<1>4. CASE Commit /\ UNCHANGED scene
  BY <1>4, CommitTurnReplay, CommitContinuedReplay DEF Commit
<1>5. CASE LoseTurn /\ UNCHANGED scene
  BY <1>5, LoseTurnReplay
<1>6. CASE Outcome /\ UNCHANGED scene
  BY <1>6, OutcomeReplay
<1>7. CASE Client /\ UNCHANGED scene
  BY <1>7, ClientReplay
<1>8. CASE UpgradeWorker /\ UNCHANGED scene
  BY <1>8 DEF UpgradeWorker, Steady
<1> QED BY <1>1, <1>2, <1>3, <1>4, <1>5, <1>6, <1>7, <1>8 DEF Next

(* A turn that is not the first goes through the states of the last one,   *)
(* confirms its actions one by one, and only then meets new events         *)
(* (execute, process_event).                                               *)
THEOREM ReplayInvariance == Spec /\ []Steady => []ReplayInv
BY InitReplay, StepReplay, Invariance, PTL DEF Spec

(* Replaying the history rebuilds exactly what the last turn ended with:   *)
(* the tasks, their ids, the retry attempts, the waiters, the buffered     *)
(* events and all the program has seen, although the history holds the     *)
(* confirmations of a turn after all of its events (execute).              *)
THEOREM ReplayRebuilds == Spec /\ []Steady => []ReplayEquivalence
<1>1. TurnInv /\ ReplayInv => ReplayEquivalence
  <2> SUFFICES ASSUME TurnInv, ReplayInv, Replayed PROVE Snapshot = last.snap[1] /\ ~scene.upgrade
    BY DEF ReplayEquivalence
  <2>1. /\ mode = "event" /\ pos = Len(hist) /\ last.snap # <<>> /\ ctx \in Contexts
        /\ pos \in Nat
    BY DEF Replayed, AtEvent, TurnInv, TurnTypes
  <2>2. ~scene.upgrade /\ status = "running"
    BY <2>1 DEF ReplayInv, SidecarPart
  <2>3. PICK old, h, R, F, order :
          /\ LastTurn(old, h, R, F, order)
          /\ Replays(old, R) \/ Confirming(old, F, order) \/ Beyond
    BY <2>1, <2>2 DEF ReplayInv, FollowPart, Follows
  <2>4. ~Beyond
    BY <2>1 DEF Beyond
  <2>5. ~Replays(old, R)
    <3> SUFFICES ASSUME Replays(old, R) PROVE FALSE
      OBVIOUS
    <3>1. View \in R /\ pos # Len(old) /\ View.pos = pos
      BY <2>1, ViewParts DEF Replays
    <3>2. pos <= Len(old) /\ Len(old) <= Len(hist) /\ Len(old) \in Nat
      BY <2>3, <3>1 DEF LastTurn, Trail, StoredAs
    <3> QED BY <2>1, <3>1, <3>2
  <2>6. View = At(F, "event", pos, [F.c EXCEPT !.acts = Unconfirmed(old, order, pos)])
    BY <2>3, <2>4, <2>5 DEF Confirming
  <2>7. PICK c, U : c \in Contexts /\ c = F.c /\ U = Unconfirmed(old, order, pos)
    BY <2>3 DEF LastTurn
  <2>8. Bare(ctx) = [c EXCEPT !.acts = U] /\ tasks = F.tasks /\ retry = F.retry
    BY <2>6, <2>7, ViewParts, VParts DEF At
  <2>9. PICK d : d = Bare(ctx)
    OBVIOUS
  <2>10. /\ d.pc = c.pc /\ d.prev = c.prev /\ d.env = c.env /\ d.seen = c.seen /\ d.seq = c.seq
         /\ d.ptasks = c.ptasks /\ d.recv = c.recv /\ d.wait = c.wait /\ d.got = c.got
         /\ d.apatch = c.apatch
    BY <2>7, <2>8, <2>9 DEF Contexts
  <2>11. Snapshot = SnapOf(F)
    <3>1. /\ d.pc = ctx.pc /\ d.prev = ctx.prev /\ d.env = ctx.env /\ d.seen = ctx.seen
          /\ d.seq = ctx.seq /\ d.ptasks = ctx.ptasks /\ d.recv = ctx.recv /\ d.wait = ctx.wait
          /\ d.got = ctx.got /\ d.apatch = ctx.apatch
      BY <2>1, <2>9, BareParts DEF SameProgram, SameIds, SameEvents
    <3> QED BY <2>7, <2>8, <2>10, <3>1 DEF Snapshot, SnapOf
  <2> QED BY <2>2, <2>3, <2>11 DEF LastTurn
<1> QED BY <1>1, Invariance, ReplayInvariance, PTL

(* The history never disagrees with what the program does in a replay: no  *)
(* turn ends with a NonDeterminismError (process_event).                   *)
THEOREM HistoryMatches == Spec /\ []Steady => []NoNonDeterminism
<1>1. ReplayInv => NoNonDeterminism
  BY DEF ReplayInv, TurnPart, NoNonDeterminism
<1> QED BY <1>1, ReplayInvariance, PTL

(* An action that the history confirms is not returned by a later turn, so *)
(* that the sidecar never schedules it twice (get_actions, process_event). *)
THEOREM ScheduledOnce == Spec /\ []Steady => []NoReschedule
<1>1. TurnInv /\ ReplayInv => NoReschedule
  <2> SUFFICES ASSUME TurnInv, ReplayInv, mode = "done",
                      NEW a \in Scheduling, NEW i \in DOMAIN hist, Confirms(hist[i])
               PROVE  hist[i].id # a.id
    BY DEF NoReschedule
  <2>1. hist # <<>> /\ hist[i] \in HistoryEvents
    BY DEF TurnInv, SidecarTypes
  <2>2. last.snap # <<>> /\ status = "running"
    BY <2>1 DEF ReplayInv, SidecarPart
  <2>3. PICK old, h, R, F, order :
          /\ LastTurn(old, h, R, F, order)
          /\ Replays(old, R) \/ Confirming(old, F, order) \/ Beyond
    BY <2>2 DEF ReplayInv, FollowPart, Follows
  <2>4. Beyond
    BY <2>3 DEF Replays, Confirming
  <2>5. a \in ctx.acts /\ a.id \in Nat
    <3>1. a \in Actions
      BY SchedulingTyped
    <3>2. ctx.status = "continued" => a.kind = "complete"
      BY DEF Scheduling, GetActions, Action
    <3>3. a.kind # "complete"
      BY DEF Scheduling
    <3> QED BY <3>1, <3>2, <3>3 DEF Scheduling, GetActions, Actions
  <2>6. hist[i].id <= last.snap[1].seq /\ hist[i].id \in Nat
    BY <2>1, <2>3 DEF LastTurn, HistoryEvents
  <2>7. a.id > last.snap[1].seq
    BY <2>4, <2>5 DEF Beyond
  <2>8. last.snap[1].seq \in Nat
    <3>1. F.c.seq \in Nat
      BY <2>3, ContextTypes DEF LastTurn
    <3> QED BY <2>3, <3>1 DEF LastTurn, SnapOf
  <2> QED BY <2>5, <2>6, <2>7, <2>8
<1> QED BY <1>1, Invariance, ReplayInvariance, PTL

=============================================================================
