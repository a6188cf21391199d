---------------------------- MODULE TaskObjects ----------------------------
(***************************************************************************)
(* The task objects a workflow awaits (_durabletask/task.py): completable  *)
(* tasks, when_all, when_any, and an external event raced against a timer. *)
(*                                                                         *)
(* A task is an index of the table `tasks'.  The call chain                *)
(* complete -> on_child_completed -> on_child_completed ... that climbs    *)
(* the composites is one hop per step: `notify' is the task whose parent   *)
(* must be told next, and nothing else happens to the tasks until it is 0. *)
(***************************************************************************)
EXTENDS Naturals, Sequences, FiniteSets

CONSTANT MaxTasks       \* bound on the task objects of one execution

ASSUME MaxTasksAssumption == MaxTasks \in Nat

VARIABLES tasks, notify

TaskId == 1 .. MaxTasks
NoTask == 0

\* leaf:  a task the program holds (activity, child workflow, timer, event)
\* inner: the event or timer task hidden in an ExternalEventWithTimeoutTask
\* event: that ExternalEventWithTimeoutTask itself, kids <<event, timer>>
Kinds == {"free", "leaf", "inner", "all", "any", "event"}
Composites == {"all", "any", "event"}

\* _is_complete and _exception: "done" is complete without an exception.
Outcomes == {"pending", "done", "failed"}

\* exc and staged name the task at which the exception was first recorded
\* (_exception, _pending_exception); val is the result, which for when_any
\* is the child that won.
Task == [kind: Kinds, kids: Seq(TaskId), parent: TaskId \cup {NoTask},
         out: Outcomes, exc: TaskId \cup {NoTask}, val: Nat,
         count: Nat, staged: TaskId \cup {NoTask}]

NewTask(kind, kids) ==
  [kind |-> kind, kids |-> kids, parent |-> NoTask, out |-> "pending",
   exc |-> NoTask, val |-> 0, count |-> 0, staged |-> NoTask]

Free == NewTask("free", <<>>)

Members(s) == {s[i] : i \in DOMAIN s}

IsComplete(t) == tasks[t].out # "pending"
IsFailed(t) == tasks[t].exc # NoTask
IsComposite(t) == tasks[t].kind \in Composites
IsFree(t) == tasks[t].kind = "free"

\* The next object is allocated in the lowest unused slot.
Fresh(t) == IsFree(t) /\ \A u \in TaskId : u < t => ~IsFree(u)

----------------------------------------------------------------------------
(* Completion of a task that is not a composite.                           *)

Completed(rec, v) == [rec EXCEPT !.out = "done", !.val = v]
Failed(rec, t) == [rec EXCEPT !.out = "failed", !.exc = t]

\* The notification a completion starts: none without a parent.
Notification(t) == IF tasks[t].parent = NoTask THEN NoTask ELSE t

\* CompletableTask.complete.  A second call raises ValueError.
Complete(t, v) ==
  /\ ~IsComplete(t)
  /\ tasks' = [tasks EXCEPT ![t] = Completed(@, v)]
  /\ notify' = Notification(t)

\* CompletableTask.fail
Fail(t) ==
  /\ ~IsComplete(t)
  /\ tasks' = [tasks EXCEPT ![t] = Failed(@, t)]
  /\ notify' = Notification(t)

----------------------------------------------------------------------------
(* CompositeTask.__init__: refuse duplicates and a pending task that       *)
(* another pending composite waits for; adopt the children; replay the     *)
(* completions that already happened, in the order of the list.            *)

HasLiveParent(t) == tasks[t].parent # NoTask /\ ~IsComplete(tasks[t].parent)

\* Slips the properties must catch: no refusal of a task a pending composite
\* waits for; no refusal of duplicates.
AdoptableStealing(s) == Cardinality(Members(s)) = Len(s)
AdoptableDuplicates(s) == \A t \in Members(s) : HasLiveParent(t) => IsComplete(t)

Adoptable(s) ==
  /\ Cardinality(Members(s)) = Len(s)
  /\ \A t \in Members(s) : HasLiveParent(t) => IsComplete(t)

FirstAmong(s, S) ==
  s[CHOOSE i \in DOMAIN s :
      s[i] \in S /\ \A j \in DOMAIN s : s[j] \in S => i <= j]

CompleteAmong(s) == {t \in Members(s) : IsComplete(t)}
FailedAmong(s) == {t \in Members(s) : IsFailed(t)}

NewWhenAll(s) ==
  LET first == IF FailedAmong(s) = {} THEN NoTask
               ELSE tasks[FirstAmong(s, FailedAmong(s))].exc
      full == CompleteAmong(s) = Members(s)
  IN [NewTask("all", s) EXCEPT
        !.count = Cardinality(CompleteAmong(s)),
        !.staged = first,
        !.exc = IF full THEN first ELSE NoTask,
        !.out = IF ~full THEN "pending"
                ELSE IF first = NoTask THEN "done" ELSE "failed"]

NewWhenAny(s) ==
  IF s = <<>> THEN Completed(NewTask("any", s), 0)
  ELSE IF CompleteAmong(s) = {} THEN NewTask("any", s)
  ELSE Completed(NewTask("any", s), FirstAmong(s, CompleteAmong(s)))

\* The table after composite c, with record rec, adopted its children.
Adopt(c, rec) ==
  [t \in TaskId |->
     IF t = c THEN rec
     ELSE IF t \in Members(rec.kids) THEN [tasks[t] EXCEPT !.parent = c]
     ELSE tasks[t]]

WhenAll(c, s) == Fresh(c) /\ Adoptable(s) /\ tasks' = Adopt(c, NewWhenAll(s))
WhenAny(c, s) == Fresh(c) /\ Adoptable(s) /\ tasks' = Adopt(c, NewWhenAny(s))

\* ExternalEventWithTimeoutTask.__init__ over two tasks made for it, both
\* pending: the event task e, the timer t and the composite c.
EventWithTimeout(e, t, c) ==
  /\ Fresh(e) /\ t = e + 1 /\ c = e + 2
  /\ IsFree(t) /\ IsFree(c)
  /\ tasks' = [tasks EXCEPT
                 ![e] = [NewTask("inner", <<>>) EXCEPT !.parent = c],
                 ![t] = [NewTask("inner", <<>>) EXCEPT !.parent = c],
                 ![c] = NewTask("event", <<e, t>>)]

----------------------------------------------------------------------------
(* on_child_completed: the record of composite p once told that its child  *)
(* k completed.  A composite that is complete already ignores the call.    *)

\* A slip: a later child overwrites the staged failure.
WhenAllToldLastWins(p, k) ==
  LET P == tasks[p]
      counted == [P EXCEPT !.count = @ + 1, !.staged = tasks[k].exc]
  IN IF P.count + 1 < Len(P.kids) THEN counted
     ELSE [counted EXCEPT !.exc = tasks[k].exc,
             !.out = IF tasks[k].exc = NoTask THEN "done" ELSE "failed"]

WhenAllTold(p, k) ==
  LET P == tasks[p]
      staged == IF P.staged = NoTask THEN tasks[k].exc ELSE P.staged
      counted == [P EXCEPT !.count = @ + 1, !.staged = staged]
  IN IF P.count + 1 < Len(P.kids) THEN counted
     ELSE [counted EXCEPT !.out = IF staged = NoTask THEN "done" ELSE "failed",
                          !.exc = staged]

WhenAnyTold(p, k) == Completed(tasks[p], k)

EventTold(p, k) ==
  IF k = tasks[p].kids[1]
  THEN [tasks[p] EXCEPT !.out = tasks[k].out, !.exc = tasks[k].exc,
                        !.val = tasks[k].val]
  ELSE Failed(tasks[p], p)                               \* TimeoutError

Told(p, k) ==
  IF tasks[p].kind = "all" THEN WhenAllTold(p, k)
  ELSE IF tasks[p].kind = "any" THEN WhenAnyTold(p, k)
  ELSE EventTold(p, k)

\* One hop of the notification chain.
OnChildCompleted ==
  /\ notify # NoTask
  /\ LET k == notify
         p == tasks[k].parent
     IN IF IsComplete(p)
        THEN notify' = NoTask /\ UNCHANGED tasks
        ELSE /\ tasks' = [tasks EXCEPT ![p] = Told(p, k)]
             /\ notify' = IF Told(p, k).out = "pending" THEN NoTask
                          ELSE Notification(p)

\* The waiter that ExternalEventWithTimeoutTask._on_timeout takes out of
\* _pending_events in this hop: the event task when its timer wins.
TimedOutWaiter ==
  LET p == tasks[notify].parent
  IN IF /\ notify # NoTask /\ p # NoTask
        /\ tasks[p].kind = "event" /\ ~IsComplete(p)
        /\ notify # tasks[p].kids[1]
     THEN tasks[p].kids[1] ELSE NoTask
============================================================================
