------------------------------ MODULE TaskTree ------------------------------
(***************************************************************************)
(* Every way a workflow and the event loop can create, compose and         *)
(* complete task objects, in any order.                                    *)
(***************************************************************************)
EXTENDS TaskObjects

CONSTANT MaxKids        \* longest list passed to when_all / when_any

ASSUME MaxKidsAssumption == MaxKids \in Nat

vars == <<tasks, notify>>

Init == tasks = [t \in TaskId |-> Free] /\ notify = NoTask

\* Lists a program can pass: tasks it holds.  The event and timer tasks
\* hidden in an ExternalEventWithTimeoutTask never reach it.
Held == {t \in TaskId : tasks[t].kind \notin {"free", "inner"}}
Lists == UNION {[1 .. n -> Held] : n \in 0 .. MaxKids}

\* A task born pending, born complete (a buffered event), or born canceled
\* (wait_for_external_event with a zero timeout).
CreateTask ==
  \E t \in TaskId :
    /\ notify = NoTask /\ Fresh(t)
    /\ \E rec \in {NewTask("leaf", <<>>), Completed(NewTask("leaf", <<>>), 0),
                   Failed(NewTask("leaf", <<>>), t)} :
         tasks' = [tasks EXCEPT ![t] = rec]
    /\ UNCHANGED notify

WaitEvent ==
  /\ notify = NoTask
  /\ \E e, t, c \in TaskId : EventWithTimeout(e, t, c)
  /\ UNCHANGED notify

Compose ==
  /\ notify = NoTask
  /\ \E c \in TaskId, s \in Lists : WhenAll(c, s) \/ WhenAny(c, s)
  /\ UNCHANGED notify

Finish ==
  /\ notify = NoTask
  /\ \E t \in TaskId : tasks[t].kind \in {"leaf", "inner"} /\ Complete(t, 0)

Break ==
  /\ notify = NoTask
  /\ \E t \in TaskId : tasks[t].kind = "leaf" /\ Fail(t)

Next == CreateTask \/ WaitEvent \/ Compose \/ Finish \/ Break \/ OnChildCompleted

Spec == Init /\ [][Next]_vars

----------------------------------------------------------------------------
(* Every entry of the table is a task record and the notification, if one  *)
(* is under way, is that of a task.                                        *)
TypeOK ==
  /\ tasks \in [TaskId -> Task]
  /\ notify \in TaskId \cup {NoTask}

AllDone(s) == \A t \in Members(s) : IsComplete(t)
SomeDone(s) == \E t \in Members(s) : IsComplete(t)

(* Whatever the order in which tasks were created, composed, re-composed   *)
(* and completed: once the notification chain has run out, a when_all is   *)
(* complete exactly when all its children are, and a when_any or a timed   *)
(* wait exactly when one of its children is (or it has none).  This is the *)
(* "would hang" hazard the two refusals of CompositeTask.__init__ are for. *)
CompositesSettled ==
  notify = NoTask =>
    \A p \in TaskId :
      /\ tasks[p].kind = "all" => (IsComplete(p) <=> AllDone(tasks[p].kids))
      /\ tasks[p].kind \in {"any", "event"} =>
           (IsComplete(p) <=> tasks[p].kids = <<>> \/ SomeDone(tasks[p].kids))

FailureOwned(p) ==
  /\ IsFailed(p) => \E k \in FailedAmong(tasks[p].kids) :
                       tasks[p].exc = tasks[k].exc
  /\ ~IsFailed(p) => FailedAmong(tasks[p].kids) = {}

(* A when_all that failed carries the exception of one of its children,    *)
(* and one that completed normally has no failed child: the comprehension  *)
(* of child results in WhenAllTask.on_child_completed cannot raise.        *)
FailuresAreOwned ==
  \A p \in TaskId : tasks[p].kind = "all" /\ IsComplete(p) => FailureOwned(p)

(* No later completion, adoption or notification changes the outcome,      *)
(* exception or result of a completed task, nor replaces the first failure *)
(* a when_all has staged.                                                  *)
OutcomesAreFinal ==
  [][\A t \in TaskId :
       /\ IsComplete(t) => /\ tasks'[t].out = tasks[t].out
                           /\ tasks'[t].exc = tasks[t].exc
                           /\ tasks'[t].val = tasks[t].val
       /\ tasks[t].staged # NoTask => tasks'[t].staged = tasks[t].staged]_vars

----------------------------------------------------------------------------
(* The inductive invariant behind the properties.  What makes it hold is   *)
(* the third part: while a composite is pending it is the parent of each   *)
(* child that has yet to report to it, so no report can go astray.         *)

\* Children that have reported to p (or had completed before p was made).
Reported(p) == {k \in CompleteAmong(tasks[p].kids) : k # notify}

OutcomeInv ==
  \A t \in TaskId :
    /\ IsFailed(t) <=> tasks[t].out = "failed"
    /\ IsFree(t) => tasks[t] = Free
    /\ ~IsComposite(t) => tasks[t].staged = NoTask

ShapeInv ==
  \A p \in TaskId :
    /\ \A k \in Members(tasks[p].kids) : k # p /\ ~IsFree(k)
    /\ Cardinality(Members(tasks[p].kids)) = Len(tasks[p].kids)
    /\ tasks[p].kind = "event" => Len(tasks[p].kids) = 2
    /\ ~IsComposite(p) => tasks[p].kids = <<>>

ParentInv ==
  /\ \A k \in TaskId : tasks[k].parent # NoTask =>
       /\ IsComposite(tasks[k].parent)
       /\ k \in Members(tasks[tasks[k].parent].kids)
  /\ \A p \in TaskId : ~IsComplete(p) =>
       \A k \in Members(tasks[p].kids) :
         (~IsComplete(k) \/ k = notify) => tasks[k].parent = p
  /\ notify # NoTask => IsComplete(notify) /\ tasks[notify].parent # NoTask

PendingAt(p) ==
  /\ tasks[p].kind = "all" =>
       /\ tasks[p].count = Cardinality(Reported(p))
       /\ tasks[p].count < Len(tasks[p].kids)
       /\ tasks[p].staged = NoTask => \A k \in Reported(p) : ~IsFailed(k)
       /\ tasks[p].staged # NoTask =>
            \E k \in Reported(p) : IsFailed(k) /\ tasks[k].exc = tasks[p].staged
  /\ tasks[p].kind \in {"any", "event"} =>
       Reported(p) = {} /\ tasks[p].kids # <<>>

CompleteAt(p) ==
  /\ tasks[p].kind = "all" => AllDone(tasks[p].kids) /\ FailureOwned(p)
  /\ tasks[p].kind \in {"any", "event"} =>
       tasks[p].kids = <<>> \/ SomeDone(tasks[p].kids)

CompositeInv ==
  \A p \in TaskId : IF IsComplete(p) THEN CompleteAt(p) ELSE PendingAt(p)

Inv == TypeOK /\ OutcomeInv /\ ShapeInv /\ ParentInv /\ CompositeInv
============================================================================
