--------------------------- MODULE TaskTreeProofs ---------------------------
(***************************************************************************)
(* Machine-checked proofs about TaskTree, for every number of tasks and    *)
(* every length of the lists passed to when_all and when_any.              *)
(***************************************************************************)
EXTENDS TaskTree, FiniteSetTheorems, WellFoundedInduction, TLAPS

(* The members of a list of tasks form a finite set.                       *)
LEMMA MembersFinite ==
  ASSUME NEW s \in Seq(TaskId)
  PROVE  /\ Members(s) \subseteq TaskId
         /\ IsFiniteSet(Members(s))
         /\ Cardinality(Members(s)) \in Nat
<1>1. Members(s) \subseteq TaskId
  BY DEF Members
<1>2. IsFiniteSet(TaskId)
  BY MaxTasksAssumption, FS_Interval DEF TaskId
<1> QED BY <1>1, <1>2, FS_Subset, FS_CardinalityType

(* The first of the chosen members of a list is one of them.               *)
LEMMA FirstAmongChosen ==
  ASSUME NEW s \in Seq(TaskId), NEW S, Members(s) \cap S # {}
  PROVE  FirstAmong(s, S) \in Members(s) \cap S
<1> DEFINE I == {i \in DOMAIN s : s[i] \in S}
<1>1. I # {} /\ I \subseteq Nat
  BY DEF Members
<1> DEFINE R == {ss \in Nat \X Nat : ss[1] < ss[2]}
<1>2. IsWellFoundedOn(R, Nat)
  BY NatLessThanWellFounded, Zenon DEF OpToRel
<1> HIDE DEF I
<1>3. PICK i \in I : \A j \in I : ~(<<j, i>> \in R)
  <2> HIDE DEF R
  <2> QED BY <1>1, <1>2, WFMin
<1>5. ASSUME NEW j \in I PROVE i <= j
  <2>1. i \in Nat /\ j \in Nat
    BY <1>1
  <2>2. j < i => <<j, i>> \in R
    <3>1. ASSUME j < i PROVE <<j, i>>[1] < <<j, i>>[2]
      BY <3>1
    <3> QED BY <2>1, <3>1
  <2> QED BY <1>3, <2>1, <2>2
<1>4. \E x \in DOMAIN s : s[x] \in S /\ \A j \in DOMAIN s : s[j] \in S => x <= j
  BY <1>5 DEF I
<1> QED BY <1>4 DEF FirstAmong, Members

(* A child already counted once more: the count a when_all keeps.          *)
LEMMA CountOneMore ==
  ASSUME NEW S, IsFiniteSet(S), NEW k, k \notin S
  PROVE  /\ IsFiniteSet(S \cup {k})
         /\ Cardinality(S \cup {k}) = Cardinality(S) + 1
BY FS_AddElement

(* A part of a list as large as the list is the whole list.                *)
LEMMA FullPart ==
  ASSUME NEW S, NEW T, IsFiniteSet(S), T \subseteq S
  PROVE  /\ IsFiniteSet(T)
         /\ Cardinality(T) \in Nat
         /\ Cardinality(T) <= Cardinality(S)
         /\ Cardinality(T) = Cardinality(S) => T = S
BY FS_Subset, FS_CardinalityType

----------------------------------------------------------------------------
(* The fields of a new task object.                                        *)
LEMMA NewTaskFields ==
  ASSUME NEW kind \in Kinds, NEW s \in Seq(TaskId)
  PROVE  /\ NewTask(kind, s) \in Task
         /\ NewTask(kind, s).kind = kind /\ NewTask(kind, s).kids = s
         /\ NewTask(kind, s).parent = NoTask /\ NewTask(kind, s).out = "pending"
         /\ NewTask(kind, s).exc = NoTask /\ NewTask(kind, s).count = 0
         /\ NewTask(kind, s).staged = NoTask /\ NewTask(kind, s).val = 0
BY DEF NewTask, Task, Outcomes

(* Initially no task exists.                                               *)
LEMMA InitInv == Init => Inv
<1> SUFFICES ASSUME Init PROVE Inv
  OBVIOUS
<1>1. \A t \in TaskId : tasks[t] = Free
  BY DEF Init
<1>2. \A t \in TaskId : /\ tasks[t].kind = "free" /\ tasks[t].kids = <<>>
                        /\ tasks[t].parent = 0 /\ tasks[t].out = "pending"
                        /\ tasks[t].exc = 0 /\ tasks[t].staged = 0
  BY <1>1 DEF Free, NewTask, NoTask
<1>3. notify = NoTask /\ Cardinality(Members(<<>>)) = 0 /\ Members(<<>>) = {}
  <2>1. Members(<<>>) = {}
    BY DEF Members
  <2> QED BY <2>1, FS_EmptySet DEF Init
<1>4. TypeOK
  <2>1. Free \in Task
    BY DEF Free, NewTask, Task, Kinds, Outcomes
  <2> QED BY <2>1 DEF Init, TypeOK
<1>5. OutcomeInv
  BY <1>1, <1>2 DEF OutcomeInv, IsFailed, NoTask
<1>6. ShapeInv
  BY <1>2, <1>3 DEF ShapeInv
<1>7. ParentInv
  BY <1>2, <1>3 DEF ParentInv, NoTask
<1>8. CompositeInv
  BY <1>2 DEF CompositeInv, IsComplete, PendingAt
<1> QED
  BY <1>4, <1>5, <1>6, <1>7, <1>8 DEF Inv

(* What PendingAt and CompleteAt say of a composite depends on its own     *)
(* record, on the outcomes of its children and on who reported.            *)
LEMMA CompositeFrame ==
  ASSUME TypeOK, NEW p \in TaskId,
         tasks'[p].kind = tasks[p].kind, tasks'[p].kids = tasks[p].kids,
         tasks'[p].out = tasks[p].out, tasks'[p].exc = tasks[p].exc,
         tasks'[p].count = tasks[p].count, tasks'[p].staged = tasks[p].staged,
         IF IsComplete(p) THEN CompleteAt(p) ELSE PendingAt(p),
         \A k \in Members(tasks[p].kids) :
            IsComplete(k) => /\ tasks'[k].out = tasks[k].out
                             /\ tasks'[k].exc = tasks[k].exc,
         ~IsComplete(p) => Reported(p)' = Reported(p)
  PROVE  IF IsComplete(p)' THEN CompleteAt(p)' ELSE PendingAt(p)'
<1>1. IsComplete(p)' = IsComplete(p)
  BY DEF IsComplete
<1>2. \A k \in Reported(p) : k \in Members(tasks[p].kids) /\ IsComplete(k)
  BY DEF Reported, CompleteAmong
<1>3. CASE ~IsComplete(p)
  <2>1. \A k \in Reported(p) : tasks'[k].exc = tasks[k].exc
    BY <1>2, <1>3
  <2> QED BY <1>1, <1>3, <2>1 DEF PendingAt, IsFailed
<1>4. CASE IsComplete(p)
  <2>1. CASE tasks[p].kind = "all"
    <3>1. \A k \in Members(tasks[p].kids) :
            IsComplete(k) /\ tasks'[k].out = tasks[k].out /\ tasks'[k].exc = tasks[k].exc
      BY <1>4, <2>1 DEF CompleteAt, AllDone
    <3>2. AllDone(tasks[p].kids)'
      BY <3>1 DEF AllDone, IsComplete
    <3>3. FailedAmong(tasks[p].kids)' = FailedAmong(tasks[p].kids)
      BY <3>1 DEF FailedAmong, IsFailed
    <3>4. FailedAmong(tasks[p].kids) \subseteq Members(tasks[p].kids)
      BY DEF FailedAmong
    <3>5. FailureOwned(p)'
      BY <1>4, <2>1, <3>1, <3>3, <3>4 DEF CompleteAt, FailureOwned, IsFailed
    <3> QED BY <1>1, <1>4, <2>1, <3>2, <3>5 DEF CompleteAt
  <2>2. CASE tasks[p].kind \in {"any", "event"}
    BY <1>1, <1>4, <2>2 DEF CompleteAt, SomeDone, IsComplete
  <2>3. CASE tasks[p].kind \notin {"all", "any", "event"}
    BY <1>1, <1>4, <2>3 DEF CompleteAt
  <2> QED BY <2>1, <2>2, <2>3
<1> QED BY <1>3, <1>4

(* A new task that no composite has adopted disturbs no other task.        *)
LEMMA CreateTaskInv == Inv /\ CreateTask => Inv'
<1> SUFFICES ASSUME Inv, CreateTask PROVE Inv'
  OBVIOUS
<1>1. PICK t \in TaskId, rec \in Task :
        /\ notify = NoTask /\ notify' = NoTask /\ IsFree(t)
        /\ tasks' = [tasks EXCEPT ![t] = rec]
        /\ rec.kind = "leaf" /\ rec.kids = <<>> /\ rec.parent = NoTask
        /\ rec.staged = NoTask /\ (rec.exc # NoTask <=> rec.out = "failed")
  <2>1. PICK t \in TaskId : 
          /\ notify = NoTask /\ Fresh(t)
          /\ \E rec \in {NewTask("leaf", <<>>), Completed(NewTask("leaf", <<>>), 0),
                         Failed(NewTask("leaf", <<>>), t)} :
               tasks' = [tasks EXCEPT ![t] = rec]
          /\ UNCHANGED notify
    BY DEF CreateTask
  <2>2. PICK rec \in {NewTask("leaf", <<>>), Completed(NewTask("leaf", <<>>), 0),
                         Failed(NewTask("leaf", <<>>), t)} :
               tasks' = [tasks EXCEPT ![t] = rec]
    BY <2>1
  <2>3. /\ rec \in Task /\ rec.kind = "leaf" /\ rec.kids = <<>>
        /\ rec.parent = NoTask /\ rec.staged = NoTask
        /\ (rec.exc # NoTask <=> rec.out = "failed")
    <3> DEFINE leaf == NewTask("leaf", <<>>)
    <3>1. /\ leaf \in Task /\ leaf.kind = "leaf" /\ leaf.kids = <<>>
          /\ leaf.parent = NoTask /\ leaf.staged = NoTask
          /\ leaf.exc = NoTask /\ leaf.out = "pending"
      <4>1. <<>> \in Seq(TaskId) /\ "leaf" \in Kinds
        BY DEF Kinds
      <4> QED BY <4>1, NewTaskFields
    <3> HIDE DEF leaf
    <3>2. t # NoTask
      BY DEF TaskId, NoTask
    <3>3. CASE rec = leaf
      BY <3>1, <3>3
    <3>4. CASE rec = Completed(leaf, 0)
      BY <3>1, <3>4 DEF Completed, Task, Outcomes
    <3>5. CASE rec = Failed(leaf, t)
      BY <3>1, <3>2, <3>5 DEF Failed, Task, Outcomes
    <3> QED BY <2>2, <3>3, <3>4, <3>5 DEF leaf
  <2> QED BY <2>1, <2>2, <2>3 DEF Fresh
<1>2. /\ TypeOK /\ tasks[t] = Free
      /\ \A p \in TaskId : t \notin Members(tasks[p].kids)
  BY <1>1 DEF Inv, OutcomeInv, ShapeInv
<1>3. /\ tasks'[t] = rec /\ Members(tasks'[t].kids) = {}
      /\ \A p \in TaskId \ {t} : tasks'[p] = tasks[p]
  BY <1>1, <1>2 DEF TypeOK, Members
<1>4. TypeOK'
  BY <1>1, <1>2 DEF TypeOK
<1>5. ASSUME NEW p \in TaskId \ {t}
      PROVE  \A k \in Members(tasks[p].kids) : k \in TaskId \ {t} /\ tasks'[k] = tasks[k]
  BY <1>2, <1>3, MembersFinite DEF TypeOK, Task
<1>6. OutcomeInv'
  BY <1>1, <1>3 DEF Inv, OutcomeInv, IsFailed, IsFree, IsComposite, Composites
<1>7. ShapeInv'
  <2>1. Cardinality({}) = 0
    BY FS_EmptySet
  <2> QED BY <1>1, <1>3, <1>5, <2>1
          DEF Inv, ShapeInv, IsFree, IsComposite, Composites
<1>8. ParentInv'
  <2>1. ASSUME NEW k \in TaskId, tasks'[k].parent # NoTask
        PROVE  IsComposite(tasks[k].parent)' /\ k \in Members(tasks'[tasks'[k].parent].kids)
    <3>1. k # t /\ tasks'[k] = tasks[k]
      BY <1>1, <1>3, <2>1
    <3>2. tasks[k].parent \in TaskId \ {t}
      <4>1. tasks[k].parent \in TaskId
        BY <1>2, <2>1, <3>1 DEF TypeOK, Task
      <4> QED BY <1>2, <2>1, <3>1, <4>1 DEF Inv, ParentInv, IsComposite, Free, NewTask, Composites
    <3> QED BY <1>3, <2>1, <3>1, <3>2 DEF Inv, ParentInv, IsComposite
  <2> QED BY <1>1, <1>3, <1>5, <2>1 DEF Inv, ParentInv, IsComplete
<1>9. CompositeInv'
  <2> SUFFICES ASSUME NEW p \in TaskId
               PROVE  IF IsComplete(p)' THEN CompleteAt(p)' ELSE PendingAt(p)'
    BY DEF CompositeInv
  <2>1. CASE p = t
    BY <1>1, <1>3, <2>1 DEF CompleteAt, PendingAt
  <2>2. CASE p # t
    <3>1. Reported(p)' = Reported(p)
      BY <1>1, <1>3, <1>5, <2>2 DEF Reported, CompleteAmong, IsComplete
    <3> QED BY <1>2, <1>3, <1>5, <2>2, <3>1, CompositeFrame DEF Inv, CompositeInv
  <2> QED BY <2>1, <2>2
<1> QED BY <1>4, <1>6, <1>7, <1>8, <1>9 DEF Inv

(* Completing a task that is not a composite only starts a notification.   *)
LEMMA LeafDoneInv ==
  ASSUME Inv, notify = NoTask, NEW t \in TaskId, ~IsComposite(t), ~IsFree(t),
         ~IsComplete(t), NEW rec \in Task, rec.kind = tasks[t].kind,
         rec.kids = tasks[t].kids, rec.parent = tasks[t].parent,
         rec.staged = tasks[t].staged, rec.count = tasks[t].count,
         rec.out # "pending", rec.exc # NoTask <=> rec.out = "failed",
         tasks' = [tasks EXCEPT ![t] = rec], notify' = Notification(t)
  PROVE  Inv'
<1>1. /\ TypeOK /\ tasks'[t] = rec
      /\ \A p \in TaskId \ {t} : tasks'[p] = tasks[p]
      /\ \A p \in TaskId : Members(tasks[p].kids) \subseteq TaskId
  BY MembersFinite DEF Inv, TypeOK, Task
<1>2. \A p \in TaskId : /\ tasks'[p].kind = tasks[p].kind
                        /\ tasks'[p].kids = tasks[p].kids
                        /\ tasks'[p].parent = tasks[p].parent
  BY <1>1
<1>3. /\ notify' \in {t, NoTask}
      /\ notify' = NoTask <=> tasks[t].parent = NoTask
  BY DEF Notification, TaskId, NoTask
<1>4. TypeOK'
  BY <1>1, <1>3 DEF TypeOK
<1>5. OutcomeInv'
  BY <1>1 DEF Inv, OutcomeInv, IsFailed, IsFree, IsComposite
<1>6. ShapeInv'
  BY <1>1, <1>2 DEF Inv, ShapeInv, IsFree, IsComposite
<1>7. ParentInv'
  <2>1. \A k \in TaskId : tasks[k].parent # NoTask => tasks[k].parent \in TaskId
    BY <1>1 DEF TypeOK, Task
  <2>2. ASSUME NEW p \in TaskId, ~IsComplete(p)', NEW k \in Members(tasks[p].kids),
               ~IsComplete(k)' \/ k = notify'
        PROVE  tasks[k].parent = p
    <3>1. p # t /\ ~IsComplete(p)
      BY <1>1, <2>2 DEF IsComplete
    <3>2. ~IsComplete(k)
      BY <1>1, <1>3, <2>2 DEF IsComplete, TaskId, NoTask
    <3> QED BY <2>2, <3>1, <3>2 DEF Inv, ParentInv
  <2>3. notify' # NoTask => IsComplete(notify)' /\ tasks[notify'].parent # NoTask
    BY <1>1, <1>3 DEF IsComplete
  <2> QED BY <1>1, <1>2, <1>3, <2>1, <2>2, <2>3 DEF Inv, ParentInv, IsComposite
<1>8. CompositeInv'
  <2> SUFFICES ASSUME NEW p \in TaskId
               PROVE  IF IsComplete(p)' THEN CompleteAt(p)' ELSE PendingAt(p)'
    BY DEF CompositeInv
  <2>1. CASE p = t
    BY <1>2, <2>1 DEF CompleteAt, PendingAt, IsComposite, Composites
  <2>2. CASE p # t
    <3>1. ASSUME ~IsComplete(p) PROVE Reported(p)' = Reported(p)
      <4>1. t \in Members(tasks[p].kids) => notify' = t
        <5>1. t \in Members(tasks[p].kids) => tasks[t].parent = p
          BY <3>1 DEF Inv, ParentInv
        <5> QED BY <5>1, <1>3 DEF TaskId, NoTask
      <4>2. notify \notin TaskId
        BY DEF TaskId, NoTask
      <4>3. \A k \in Members(tasks[p].kids) :
              (k \in Reported(p)') <=> (k \in Reported(p))
        BY <1>1, <1>2, <1>3, <4>1, <4>2 DEF Reported, CompleteAmong, IsComplete
      <4> QED BY <4>3, <1>2 DEF Reported, CompleteAmong
    <3>2. IF IsComplete(p) THEN CompleteAt(p) ELSE PendingAt(p)
      BY DEF Inv, CompositeInv
    <3>3. ASSUME NEW k \in Members(tasks[p].kids), IsComplete(k) PROVE tasks'[k] = tasks[k]
      BY <1>1, <3>3
    <3> QED BY <1>1, <2>2, <3>1, <3>2, <3>3, CompositeFrame
  <2> QED BY <2>1, <2>2
<1> QED BY <1>4, <1>5, <1>6, <1>7, <1>8 DEF Inv

(* complete() and fail() are such completions.                             *)
LEMMA FinishInv == Inv /\ (Finish \/ Break) => Inv'
<1> SUFFICES ASSUME Inv, Finish \/ Break PROVE Inv'
  OBVIOUS
<1>1. PICK t \in TaskId : /\ notify = NoTask /\ tasks[t].kind \in {"leaf", "inner"}
                          /\ Complete(t, 0) \/ Fail(t)
  BY DEF Finish, Break
<1>2. tasks[t] \in Task /\ ~IsComposite(t) /\ ~IsFree(t) /\ t # NoTask
  BY <1>1 DEF Inv, TypeOK, IsComposite, Composites, IsFree, TaskId, NoTask
<1>3. ~IsComplete(t) /\ tasks[t].exc = NoTask /\ notify' = Notification(t)
  BY <1>1 DEF Complete, Fail, Inv, OutcomeInv, IsComplete, IsFailed
<1>4. CASE Complete(t, 0)
  <2> DEFINE rec == Completed(tasks[t], 0)
  <2>1. /\ rec \in Task /\ rec.kind = tasks[t].kind /\ rec.kids = tasks[t].kids
        /\ rec.parent = tasks[t].parent /\ rec.staged = tasks[t].staged
        /\ rec.count = tasks[t].count /\ rec.out = "done" /\ rec.exc = NoTask
    BY <1>2, <1>3 DEF Completed, Task, Outcomes
  <2>2. tasks' = [tasks EXCEPT ![t] = rec]
    BY <1>4 DEF Complete
  <2> HIDE DEF rec
  <2> QED BY <1>1, <1>2, <1>3, <2>1, <2>2, LeafDoneInv
<1>5. CASE Fail(t)
  <2> DEFINE rec == Failed(tasks[t], t)
  <2>1. /\ rec \in Task /\ rec.kind = tasks[t].kind /\ rec.kids = tasks[t].kids
        /\ rec.parent = tasks[t].parent /\ rec.staged = tasks[t].staged
        /\ rec.count = tasks[t].count /\ rec.out = "failed" /\ rec.exc = t
    BY <1>2, <1>3 DEF Failed, Task, Outcomes
  <2>2. tasks' = [tasks EXCEPT ![t] = rec]
    BY <1>5 DEF Fail
  <2> HIDE DEF rec
  <2> QED BY <1>1, <1>2, <1>3, <2>1, <2>2, LeafDoneInv
<1> QED BY <1>1, <1>4, <1>5

(* A composite c made from the list s of tasks the program holds, with a   *)
(* record that accounts for the children already complete.                 *)
LEMMA AdoptInv ==
  ASSUME Inv, notify = NoTask, notify' = NoTask,
         NEW c \in TaskId, IsFree(c), NEW s \in Seq(TaskId), Adoptable(s),
         \A k \in Members(s) : ~IsFree(k),
         NEW rec \in Task, rec.kids = s, rec.parent = NoTask,
         rec.kind \in {"all", "any"}, rec.exc # NoTask <=> rec.out = "failed",
         tasks' = Adopt(c, rec),
         IF rec.out # "pending" THEN CompleteAt(c)' ELSE PendingAt(c)'
  PROVE  Inv'
<1>1. /\ TypeOK /\ tasks[c] = Free /\ c # NoTask
      /\ \A p \in TaskId : tasks[p] \in Task /\ Members(tasks[p].kids) \subseteq TaskId
      /\ \A p \in TaskId : c \notin Members(tasks[p].kids)
      /\ c \notin Members(s) /\ Members(s) \subseteq TaskId
  <2>1. TypeOK /\ tasks[c] = Free /\ \A p \in TaskId : tasks[p] \in Task
    BY DEF Inv, OutcomeInv, TypeOK
  <2>2. c # NoTask
    BY DEF TaskId, NoTask
  <2>3. \A p \in TaskId : Members(tasks[p].kids) \subseteq TaskId
    BY <2>1, MembersFinite DEF Task
  <2>4. \A p \in TaskId : c \notin Members(tasks[p].kids)
    BY DEF Inv, ShapeInv
  <2> QED BY <2>1, <2>2, <2>3, <2>4, MembersFinite
<1>2. /\ tasks' \in [TaskId -> Task] /\ tasks'[c] = rec
      /\ \A p \in TaskId \ Members(s) : p # c => tasks'[p] = tasks[p]
      /\ \A p \in Members(s) : tasks'[p] = [tasks[p] EXCEPT !.parent = c]
  <2>1. \A p \in TaskId : [tasks[p] EXCEPT !.parent = c] \in Task
    BY <1>1 DEF Task
  <2> QED
    BY <1>1, <2>1 DEF Adopt
<1>3. \A p \in TaskId \ {c} :
        /\ tasks'[p].kind = tasks[p].kind /\ tasks'[p].kids = tasks[p].kids
        /\ tasks'[p].out = tasks[p].out /\ tasks'[p].exc = tasks[p].exc
        /\ tasks'[p].count = tasks[p].count /\ tasks'[p].staged = tasks[p].staged
        /\ tasks'[p].parent = IF p \in Members(s) THEN c ELSE tasks[p].parent
  <2> SUFFICES ASSUME NEW p \in TaskId \ {c}
               PROVE  /\ tasks'[p].kind = tasks[p].kind /\ tasks'[p].kids = tasks[p].kids
                      /\ tasks'[p].out = tasks[p].out /\ tasks'[p].exc = tasks[p].exc
                      /\ tasks'[p].count = tasks[p].count
                      /\ tasks'[p].staged = tasks[p].staged
                      /\ tasks'[p].parent = IF p \in Members(s) THEN c ELSE tasks[p].parent
    OBVIOUS
  <2>1. CASE p \in Members(s)
    <3>1. tasks[p] \in Task /\ tasks'[p] = [tasks[p] EXCEPT !.parent = c]
      BY <1>1, <1>2, <2>1
    <3> QED BY <2>1, <3>1 DEF Task
  <2>2. CASE p \notin Members(s)
    BY <1>2, <2>2
  <2> QED BY <2>1, <2>2
<1>4. TypeOK'
  BY <1>2 DEF TypeOK
<1>5. OutcomeInv'
  BY <1>1, <1>2, <1>3 DEF Inv, OutcomeInv, IsFailed, IsFree, IsComposite, Composites
<1>6. ShapeInv'
  BY <1>1, <1>2, <1>3 DEF Inv, ShapeInv, IsFree, IsComposite, Composites, Adoptable
<1>7. ParentInv'
  <2>1. ASSUME NEW k \in TaskId, tasks'[k].parent # NoTask
        PROVE  IsComposite(tasks[k].parent)' /\ k \in Members(tasks'[tasks'[k].parent].kids)
    <3>1. CASE k \in Members(s)
      BY <1>1, <1>2, <1>3, <3>1 DEF IsComposite, Composites
    <3>2. CASE k \notin Members(s)
      <4>1. k # c /\ tasks'[k].parent = tasks[k].parent
        BY <1>2, <1>3, <2>1, <3>2
      <4>2. tasks[k].parent \in TaskId \ {c}
        BY <1>1, <2>1, <4>1 DEF Inv, ParentInv, IsComposite, Composites, Free, NewTask, Task
      <4> QED BY <1>3, <2>1, <4>1, <4>2 DEF Inv, ParentInv, IsComposite
    <3> QED BY <3>1, <3>2
  <2>2. ASSUME NEW p \in TaskId, ~IsComplete(p)', NEW k \in Members(tasks'[p].kids),
               ~IsComplete(k)'
        PROVE  tasks'[k].parent = p
    <3>1. CASE p = c
      BY <1>1, <1>2, <1>3, <2>2, <3>1
    <3>2. CASE p # c
      <4>1. /\ ~IsComplete(p) /\ k \in Members(tasks[p].kids) /\ k \in TaskId \ {c}
            /\ ~IsComplete(k)
        BY <1>1, <1>3, <2>2, <3>2 DEF IsComplete
      <4>2. tasks[k].parent = p
        BY <4>1 DEF Inv, ParentInv
      <4>3. k \notin Members(s)
        BY <4>1, <4>2 DEF Adoptable, HasLiveParent, TaskId, NoTask
      <4> QED BY <1>3, <4>1, <4>2, <4>3
    <3> QED BY <3>1, <3>2
  <2>3. \A p \in TaskId : NoTask \notin Members(tasks'[p].kids)
    <3>1. \A p \in TaskId : Members(tasks'[p].kids) \subseteq TaskId
      BY <1>1, <1>2, <1>3
    <3> QED BY <3>1 DEF TaskId, NoTask
  <2> QED BY <2>1, <2>2, <2>3 DEF ParentInv
<1>8. CompositeInv'
  <2> SUFFICES ASSUME NEW p \in TaskId
               PROVE  IF IsComplete(p)' THEN CompleteAt(p)' ELSE PendingAt(p)'
    BY DEF CompositeInv
  <2>1. CASE p = c
    BY <1>2, <2>1 DEF IsComplete
  <2>2. CASE p # c
    <3>1. \A k \in Members(tasks[p].kids) : /\ tasks'[k].out = tasks[k].out
                                            /\ tasks'[k].exc = tasks[k].exc
      BY <1>1, <1>3, <2>2
    <3>2. Reported(p)' = Reported(p)
      BY <1>3, <2>2, <3>1 DEF Reported, CompleteAmong, IsComplete
    <3>3. IF IsComplete(p) THEN CompleteAt(p) ELSE PendingAt(p)
      BY DEF Inv, CompositeInv
    <3> QED BY <1>1, <1>3, <2>2, <3>1, <3>2, <3>3, CompositeFrame
  <2> QED BY <2>1, <2>2
<1> QED BY <1>4, <1>5, <1>6, <1>7, <1>8 DEF Inv

(* Adoption changes no outcome of a child.                                 *)
LEMMA AdoptFacts ==
  ASSUME TypeOK, NEW c \in TaskId, NEW s \in Seq(TaskId), c \notin Members(s),
         NEW rec \in Task, rec.kids = s, tasks' = Adopt(c, rec), notify' = NoTask
  PROVE  /\ tasks'[c] = rec
         /\ CompleteAmong(s)' = CompleteAmong(s)
         /\ FailedAmong(s)' = FailedAmong(s)
         /\ Reported(c)' = CompleteAmong(s)
         /\ \A k \in Members(s) : tasks'[k].exc = tasks[k].exc
<1>1. tasks'[c] = rec
  BY DEF Adopt
<1>2. ASSUME NEW k \in Members(s)
      PROVE  tasks'[k].out = tasks[k].out /\ tasks'[k].exc = tasks[k].exc
  <2>1. k \in TaskId /\ tasks[k] \in Task
    BY MembersFinite DEF TypeOK
  <2>2. tasks'[k] = [tasks[k] EXCEPT !.parent = c]
    BY <1>2, <2>1 DEF Adopt
  <2> QED BY <2>1, <2>2 DEF Task
<1>3. CompleteAmong(s)' = CompleteAmong(s) /\ FailedAmong(s)' = FailedAmong(s)
  BY <1>2 DEF CompleteAmong, FailedAmong, IsComplete, IsFailed
<1>4. NoTask \notin Members(s)
  BY MembersFinite DEF TaskId, NoTask
<1>5. Reported(c)' = CompleteAmong(s)
  BY <1>1, <1>3, <1>4 DEF Reported, CompleteAmong
<1> QED BY <1>1, <1>2, <1>3, <1>5

(* when_all over any list that its constructor accepts.                    *)
LEMMA WhenAllInv ==
  ASSUME Inv, notify = NoTask, notify' = NoTask, NEW c \in TaskId,
         NEW s \in Seq(TaskId), \A k \in Members(s) : ~IsFree(k), WhenAll(c, s)
  PROVE  Inv'
<1> DEFINE first == IF FailedAmong(s) = {} THEN NoTask
                    ELSE tasks[FirstAmong(s, FailedAmong(s))].exc
           full == CompleteAmong(s) = Members(s)
           rec == NewWhenAll(s)
<1>1. /\ IsFree(c) /\ Adoptable(s) /\ tasks' = Adopt(c, rec) /\ TypeOK
      /\ c \notin Members(s) /\ Members(s) \subseteq TaskId
  BY MembersFinite DEF WhenAll, Fresh, Inv
<1>2. /\ first \in TaskId \cup {NoTask}
      /\ first = NoTask => FailedAmong(s) = {}
      /\ first # NoTask => \E k \in FailedAmong(s) : tasks[k].exc = first
  <2>1. CASE FailedAmong(s) = {}
    BY <2>1
  <2>2. CASE FailedAmong(s) # {}
    <3>1. FirstAmong(s, FailedAmong(s)) \in Members(s) \cap FailedAmong(s)
      BY <2>2, FirstAmongChosen DEF FailedAmong
    <3>2. first # NoTask
      BY <2>2, <3>1 DEF FailedAmong, IsFailed
    <3> QED BY <1>1, <2>2, <3>1, <3>2 DEF TypeOK, Task
  <2> QED BY <2>1, <2>2
<1>3. FailedAmong(s) \subseteq CompleteAmong(s)
  BY <1>1 DEF FailedAmong, CompleteAmong, Inv, OutcomeInv, IsComplete
<1>4. /\ Cardinality(CompleteAmong(s)) \in Nat
      /\ Cardinality(CompleteAmong(s)) <= Len(s)
      /\ ~full => Cardinality(CompleteAmong(s)) < Len(s)
  <2>1. CompleteAmong(s) \subseteq Members(s) /\ IsFiniteSet(Members(s))
    BY MembersFinite DEF CompleteAmong
  <2>2. Cardinality(Members(s)) = Len(s) /\ Len(s) \in Nat
    BY <1>1 DEF Adoptable
  <2> QED BY <2>1, <2>2, FullPart
<1>5. /\ rec \in Task /\ rec.kids = s /\ rec.parent = NoTask /\ rec.kind = "all"
      /\ rec.count = Cardinality(CompleteAmong(s)) /\ rec.staged = first
      /\ rec.exc = IF full THEN first ELSE NoTask
      /\ rec.out = IF ~full THEN "pending"
                   ELSE IF first = NoTask THEN "done" ELSE "failed"
  <2> DEFINE new == NewTask("all", s)
  <2>1. /\ new \in Task /\ new.kind = "all" /\ new.kids = s /\ new.parent = NoTask
    <3>1. "all" \in Kinds
      BY DEF Kinds
    <3> QED BY <3>1, NewTaskFields
  <2>2. rec = [new EXCEPT
        !.count = Cardinality(CompleteAmong(s)),
        !.staged = first,
        !.exc = IF full THEN first ELSE NoTask,
        !.out = IF ~full THEN "pending"
                ELSE IF first = NoTask THEN "done" ELSE "failed"]
    BY DEF NewWhenAll
  <2> HIDE DEF new, rec, first, full
  <2> QED BY <1>2, <1>4, <2>1, <2>2 DEF Task, Outcomes
<1> HIDE DEF first, rec
<1>6. /\ tasks'[c] = rec
      /\ CompleteAmong(s)' = CompleteAmong(s)
      /\ FailedAmong(s)' = FailedAmong(s)
      /\ Reported(c)' = CompleteAmong(s)
      /\ \A k \in Members(s) : tasks'[k].exc = tasks[k].exc
  BY <1>1, <1>5, AdoptFacts
<1>7. ASSUME full PROVE CompleteAt(c)'
  <2>1. AllDone(s)'
    BY <1>6, <1>7 DEF AllDone, CompleteAmong
  <2>2. FailureOwned(c)'
    <3>1. FailedAmong(s) \subseteq Members(s)
      BY DEF FailedAmong
    <3> QED BY <1>2, <1>5, <1>6, <1>7, <3>1 DEF FailureOwned, IsFailed
  <2> QED BY <1>5, <1>6, <2>1, <2>2 DEF CompleteAt
<1>8. ASSUME ~full PROVE PendingAt(c)'
  <2>1. \A k \in Members(s) : IsFailed(k)' <=> k \in FailedAmong(s)
    BY <1>6 DEF FailedAmong, IsFailed
  <2>2. CompleteAmong(s) \subseteq Members(s)
    BY DEF CompleteAmong
  <2> QED BY <1>2, <1>3, <1>4, <1>5, <1>6, <1>8, <2>1, <2>2 DEF PendingAt
<1>9. IF rec.out # "pending" THEN CompleteAt(c)' ELSE PendingAt(c)'
  BY <1>5, <1>7, <1>8
<1>10. rec.exc # NoTask <=> rec.out = "failed"
  BY <1>5
<1> QED BY <1>1, <1>5, <1>9, <1>10, AdoptInv

(* when_any over any list that its constructor accepts.                    *)
LEMMA WhenAnyInv ==
  ASSUME Inv, notify = NoTask, notify' = NoTask, NEW c \in TaskId,
         NEW s \in Seq(TaskId), \A k \in Members(s) : ~IsFree(k), WhenAny(c, s)
  PROVE  Inv'
<1> DEFINE rec == NewWhenAny(s)
           new == NewTask("any", s)
<1>1. /\ IsFree(c) /\ Adoptable(s) /\ tasks' = Adopt(c, rec) /\ TypeOK
      /\ c \notin Members(s) /\ Members(s) \subseteq TaskId
  BY MembersFinite DEF WhenAny, Fresh, Inv
<1>2. /\ new \in Task /\ new.kind = "any" /\ new.kids = s /\ new.parent = NoTask
      /\ new.exc = NoTask /\ new.out = "pending"
  <2>1. "any" \in Kinds
    BY DEF Kinds
  <2> QED BY <2>1, NewTaskFields
<1>3. CompleteAmong(s) # {} => FirstAmong(s, CompleteAmong(s)) \in TaskId
  BY <1>1, FirstAmongChosen DEF CompleteAmong
<1>4. /\ rec \in Task /\ rec.kind = "any" /\ rec.kids = s /\ rec.parent = NoTask
      /\ rec.exc = NoTask
      /\ rec.out = IF s = <<>> \/ CompleteAmong(s) # {} THEN "done" ELSE "pending"
  <2> HIDE DEF new
  <2>1. CASE s = <<>>
    BY <1>2, <2>1 DEF NewWhenAny, Completed, Task, Outcomes, new
  <2>2. CASE s # <<>> /\ CompleteAmong(s) = {}
    BY <1>2, <2>2 DEF NewWhenAny, new
  <2>3. CASE s # <<>> /\ CompleteAmong(s) # {}
    <3>1. rec = Completed(new, FirstAmong(s, CompleteAmong(s)))
      BY <2>3 DEF NewWhenAny, new
    <3>2. FirstAmong(s, CompleteAmong(s)) \in Nat
      BY <1>3, <2>3 DEF TaskId
    <3> HIDE DEF rec
    <3> QED BY <1>2, <2>3, <3>1, <3>2 DEF Completed, Task, Outcomes
  <2> QED BY <2>1, <2>2, <2>3
<1> HIDE DEF rec, new
<1>5. /\ tasks'[c] = rec
      /\ CompleteAmong(s)' = CompleteAmong(s)
      /\ Reported(c)' = CompleteAmong(s)
  BY <1>1, <1>4, AdoptFacts
<1>6. ASSUME s = <<>> \/ CompleteAmong(s) # {} PROVE CompleteAt(c)'
  BY <1>4, <1>5, <1>6 DEF CompleteAt, SomeDone, CompleteAmong
<1>7. ASSUME s # <<>>, CompleteAmong(s) = {} PROVE PendingAt(c)'
  BY <1>4, <1>5, <1>7 DEF PendingAt
<1>8. IF rec.out # "pending" THEN CompleteAt(c)' ELSE PendingAt(c)'
  BY <1>4, <1>6, <1>7
<1> QED BY <1>1, <1>4, <1>8, AdoptInv

(* Composing tasks the program holds preserves the invariant.              *)
LEMMA ComposeInv == Inv /\ Compose => Inv'
<1> SUFFICES ASSUME Inv, Compose PROVE Inv'
  OBVIOUS
<1>1. PICK c \in TaskId, s \in Lists : WhenAll(c, s) \/ WhenAny(c, s)
  BY DEF Compose
<1>2. s \in Seq(TaskId) /\ \A k \in Members(s) : ~IsFree(k)
  BY MaxKidsAssumption DEF Lists, Held, Members, IsFree
<1>3. notify = NoTask /\ notify' = NoTask
  BY DEF Compose
<1> QED BY <1>1, <1>2, <1>3, WhenAllInv, WhenAnyInv

(* A timed wait for an external event: three new tasks, two adopted.       *)
LEMMA WaitEventInv == Inv /\ WaitEvent => Inv'
<1> SUFFICES ASSUME Inv, WaitEvent PROVE Inv'
  OBVIOUS
<1>1. PICK e, t, c \in TaskId : EventWithTimeout(e, t, c)
  BY DEF WaitEvent
<1> DEFINE inner == [NewTask("inner", <<>>) EXCEPT !.parent = c]
           event == NewTask("event", <<e, t>>)
<1>2. /\ e # t /\ e # c /\ t # c /\ IsFree(e) /\ IsFree(t) /\ IsFree(c)
      /\ notify = NoTask /\ notify' = NoTask
      /\ NoTask \notin TaskId
  BY <1>1 DEF EventWithTimeout, Fresh, WaitEvent, TaskId, NoTask
<1>3. /\ inner \in Task /\ inner.kind = "inner" /\ inner.kids = <<>>
      /\ inner.parent = c /\ inner.out = "pending" /\ inner.exc = NoTask
      /\ inner.staged = NoTask
  <2> DEFINE new == NewTask("inner", <<>>)
  <2>1. <<>> \in Seq(TaskId) /\ "inner" \in Kinds
    BY DEF Kinds
  <2>2. /\ new \in Task /\ new.kind = "inner" /\ new.kids = <<>>
        /\ new.out = "pending" /\ new.exc = NoTask /\ new.staged = NoTask
    BY <2>1, NewTaskFields
  <2> HIDE DEF new
  <2> QED BY <2>2 DEF Task, new
<1>4. /\ event \in Task /\ event.kind = "event" /\ event.kids = <<e, t>>
      /\ event.parent = NoTask /\ event.out = "pending" /\ event.exc = NoTask
  <2>1. <<e, t>> \in Seq(TaskId) /\ "event" \in Kinds
    BY DEF Kinds
  <2> QED BY <2>1, NewTaskFields
<1>5. tasks' = [tasks EXCEPT ![e] = inner, ![t] = inner, ![c] = event]
  BY <1>1 DEF EventWithTimeout
<1> HIDE DEF inner, event
<1>6. /\ TypeOK /\ tasks[e] = Free /\ tasks[t] = Free /\ tasks[c] = Free
      /\ \A p \in TaskId : /\ Members(tasks[p].kids) \subseteq TaskId
                           /\ {e, t, c} \cap Members(tasks[p].kids) = {}
  <2>1. TypeOK /\ tasks[e] = Free /\ tasks[t] = Free /\ tasks[c] = Free
    BY <1>2 DEF Inv, OutcomeInv
  <2>2. \A p \in TaskId : Members(tasks[p].kids) \subseteq TaskId
    BY <2>1, MembersFinite DEF TypeOK, Task
  <2>3. \A p \in TaskId : {e, t, c} \cap Members(tasks[p].kids) = {}
    BY <1>2 DEF Inv, ShapeInv
  <2> QED BY <2>1, <2>2, <2>3
<1>7. /\ tasks'[e] = inner /\ tasks'[t] = inner /\ tasks'[c] = event
      /\ \A p \in TaskId \ {e, t, c} : tasks'[p] = tasks[p]
  BY <1>2, <1>5, <1>6 DEF TypeOK
<1>8. /\ Members(tasks'[c].kids) = {e, t} /\ Cardinality({e, t}) = 2
      /\ Len(tasks'[c].kids) = 2
      /\ Members(tasks'[e].kids) = {} /\ Members(tasks'[t].kids) = {}
      /\ Cardinality({}) = 0
  <2>1. Members(<<e, t>>) = {e, t} /\ Members(<<>>) = {} /\ Len(<<e, t>>) = 2
    BY DEF Members
  <2>2. Cardinality({}) = 0 /\ IsFiniteSet({})
    BY FS_EmptySet
  <2>3. Cardinality({e}) = 1 /\ IsFiniteSet({e})
    BY FS_Singleton
  <2>4. {e, t} = {e} \cup {t}
    OBVIOUS
  <2>5. Cardinality({e, t}) = 2
    BY <1>2, <2>3, <2>4, CountOneMore
  <2> QED BY <1>3, <1>4, <1>7, <2>1, <2>2, <2>5
<1>9. TypeOK'
  BY <1>2, <1>3, <1>4, <1>5, <1>6 DEF TypeOK
<1>10. OutcomeInv'
  BY <1>3, <1>4, <1>7 DEF Inv, OutcomeInv, IsFailed, IsFree, IsComposite, Composites
<1>11. ShapeInv'
  <2> SUFFICES ASSUME NEW p \in TaskId
      PROVE  /\ \A k \in Members(tasks'[p].kids) : k # p /\ ~IsFree(k)'
             /\ Cardinality(Members(tasks'[p].kids)) = Len(tasks'[p].kids)
             /\ tasks'[p].kind = "event" => Len(tasks'[p].kids) = 2
             /\ ~IsComposite(p)' => tasks'[p].kids = <<>>
    BY DEF ShapeInv
  <2>1. CASE p = c
    BY <1>2, <1>3, <1>4, <1>7, <1>8, <2>1 DEF IsFree, IsComposite, Composites
  <2>2. CASE p \in {e, t}
    <3>1. tasks'[p].kids = <<>> /\ tasks'[p].kind = "inner" /\ Members(tasks'[p].kids) = {}
      BY <1>3, <1>7, <1>8, <2>2
    <3> QED BY <1>8, <3>1
  <2>3. CASE p \notin {e, t, c}
    BY <1>6, <1>7, <2>3 DEF Inv, ShapeInv, IsFree, IsComposite
  <2> QED BY <2>1, <2>2, <2>3
<1>12. ParentInv'
  <2>1. ASSUME NEW k \in TaskId, tasks'[k].parent # NoTask
        PROVE  IsComposite(tasks[k].parent)' /\ k \in Members(tasks'[tasks'[k].parent].kids)
    <3>1. CASE k \in {e, t}
      BY <1>3, <1>4, <1>7, <1>8, <3>1 DEF IsComposite, Composites
    <3>2. CASE k \notin {e, t}
      <4>1. k # c /\ tasks'[k] = tasks[k]
        BY <1>4, <1>7, <2>1, <3>2
      <4>2. tasks[k].parent \in TaskId \ {e, t, c}
        <5>1. tasks[k].parent \in TaskId
          BY <1>6, <2>1, <4>1 DEF TypeOK, Task
        <5>2. IsComposite(tasks[k].parent)
          BY <2>1, <4>1 DEF Inv, ParentInv
        <5>3. ~IsComposite(e) /\ ~IsComposite(t) /\ ~IsComposite(c)
          BY <1>2 DEF IsComposite, Composites, IsFree
        <5> QED BY <5>1, <5>2, <5>3
      <4> QED BY <1>7, <2>1, <4>1, <4>2 DEF Inv, ParentInv, IsComposite
    <3> QED BY <3>1, <3>2
  <2>2. ASSUME NEW p \in TaskId, ~IsComplete(p)', NEW k \in Members(tasks'[p].kids)
        PROVE  k # NoTask /\ (~IsComplete(k)' => tasks'[k].parent = p)
    <3>1. CASE p = c
      BY <1>2, <1>3, <1>7, <1>8, <2>2, <3>1
    <3>2. CASE p \in {e, t}
      BY <1>8, <2>2, <3>2
    <3>3. CASE p \notin {e, t, c}
      BY <1>2, <1>6, <1>7, <2>2, <3>3 DEF Inv, ParentInv, IsComplete
    <3> QED BY <3>1, <3>2, <3>3
  <2> QED BY <1>2, <2>1, <2>2 DEF ParentInv
<1>13. CompositeInv'
  <2> SUFFICES ASSUME NEW p \in TaskId
               PROVE  IF IsComplete(p)' THEN CompleteAt(p)' ELSE PendingAt(p)'
    BY DEF CompositeInv
  <2>1. CASE p = c
    <3>1. ~IsComplete(c)' /\ tasks'[c].kids # <<>> /\ Reported(c)' = {}
      <4>1. ~IsComplete(c)' /\ ~IsComplete(e)' /\ ~IsComplete(t)'
        BY <1>3, <1>4, <1>7 DEF IsComplete
      <4>2. tasks'[c].kids # <<>>
        <5>1. Members(<<>>) = {}
          BY DEF Members
        <5> QED BY <1>8, <5>1
      <4> QED BY <1>8, <4>1, <4>2 DEF Reported, CompleteAmong
    <3> QED BY <1>4, <1>7, <2>1, <3>1 DEF PendingAt
  <2>2. CASE p \in {e, t}
    BY <1>3, <1>7, <2>2 DEF CompleteAt, PendingAt
  <2>3. CASE p \notin {e, t, c}
    <3>1. tasks'[p] = tasks[p] /\ \A k \in Members(tasks[p].kids) : tasks'[k] = tasks[k]
      BY <1>6, <1>7, <2>3
    <3>2. Reported(p)' = Reported(p)
      BY <1>2, <3>1 DEF Reported, CompleteAmong, IsComplete
    <3>3. IF IsComplete(p) THEN CompleteAt(p) ELSE PendingAt(p)
      BY DEF Inv, CompositeInv
    <3> QED BY <1>6, <3>1, <3>2, <3>3, CompositeFrame
  <2> QED BY <2>1, <2>2, <2>3
<1> QED BY <1>9, <1>10, <1>11, <1>12, <1>13 DEF Inv

(* One hop of a notification: the parent hears of a child, once.           *)
LEMMA HopInv == Inv /\ OnChildCompleted => Inv'
<1> SUFFICES ASSUME Inv, OnChildCompleted PROVE Inv'
  OBVIOUS
<1>a. PICK k \in TaskId : k = notify
  BY DEF OnChildCompleted, Inv, TypeOK, NoTask
<1>b. PICK p \in TaskId : p = tasks[k].parent
  BY <1>a DEF OnChildCompleted, Inv, ParentInv, TypeOK, Task
<1> USE <1>a, <1>b
<1>1. /\ TypeOK /\ k # NoTask /\ IsComplete(k)
      /\ p # NoTask /\ IsComposite(p) /\ k \in Members(tasks[p].kids)
      /\ p # k /\ NoTask \notin TaskId
      /\ \A q \in TaskId : tasks[q] \in Task /\ Members(tasks[q].kids) \subseteq TaskId
  <2>1. TypeOK /\ k # NoTask /\ p # NoTask /\ NoTask \notin TaskId
    BY DEF Inv, TaskId, NoTask
  <2>2. IsComplete(k)
    BY <2>1 DEF Inv, ParentInv
  <2>3. IsComposite(p) /\ k \in Members(tasks[p].kids)
    BY <2>1 DEF Inv, ParentInv
  <2>4. p # k
    BY <2>3 DEF Inv, ShapeInv
  <2>5. \A q \in TaskId : tasks[q] \in Task /\ Members(tasks[q].kids) \subseteq TaskId
    BY <2>1, MembersFinite DEF TypeOK, Task
  <2> QED BY <2>1, <2>2, <2>3, <2>4, <2>5
<1>2. \A q \in TaskId : ~IsComplete(q) /\ k \in Members(tasks[q].kids) => q = p
  BY DEF Inv, ParentInv
<1>3. CASE IsComplete(p)
  <2>1. notify' = NoTask /\ tasks' = tasks
    BY <1>3 DEF OnChildCompleted
  <2>2. TypeOK' /\ OutcomeInv' /\ ShapeInv'
    BY <2>1 DEF Inv, TypeOK, OutcomeInv, ShapeInv, IsFailed, IsFree, IsComposite
  <2>3. ParentInv'
    <3>1. \A q \in TaskId : NoTask \notin Members(tasks[q].kids)
      BY <1>1
    <3> QED BY <2>1, <3>1 DEF Inv, ParentInv, IsComplete, IsComposite
  <2>4. CompositeInv'
    <3> SUFFICES ASSUME NEW q \in TaskId
                 PROVE  IF IsComplete(q)' THEN CompleteAt(q)' ELSE PendingAt(q)'
      BY DEF CompositeInv
    <3>1. ~IsComplete(q) => Reported(q)' = Reported(q)
      BY <1>1, <1>2, <1>3, <2>1 DEF Reported, CompleteAmong, IsComplete
    <3>2. IF IsComplete(q) THEN CompleteAt(q) ELSE PendingAt(q)
      BY DEF Inv, CompositeInv
    <3> QED BY <1>1, <2>1, <3>1, <3>2, CompositeFrame
  <2> QED BY <2>2, <2>3, <2>4 DEF Inv
<1>4. CASE ~IsComplete(p)
  <2>a. PICK kids \in Seq(TaskId) : kids = tasks[p].kids
    BY <1>1 DEF Task
  <2> USE <2>a
  <2> DEFINE new == Told(p, k)
  <2>1. /\ tasks' = [tasks EXCEPT ![p] = new]
        /\ notify' = IF new.out = "pending" THEN NoTask ELSE Notification(p)
    BY <1>4 DEF OnChildCompleted
  <2>2. /\ PendingAt(p) /\ tasks[p] \in Task /\ tasks[p].exc = NoTask
        /\ tasks[k] \in Task /\ (tasks[k].exc # NoTask <=> tasks[k].out = "failed")
        /\ k \notin Reported(p) /\ Reported(p) \cup {k} = CompleteAmong(kids)
        /\ kids \in Seq(TaskId) /\ Cardinality(Members(kids)) = Len(kids)
        /\ IsFiniteSet(Members(kids)) /\ Len(kids) \in Nat
    <3>1. PendingAt(p)
      BY <1>1, <1>4 DEF Inv, CompositeInv
    <3>2. tasks[p] \in Task /\ tasks[k] \in Task /\ kids \in Seq(TaskId)
      BY <1>1 DEF Task
    <3>3. tasks[p].exc = NoTask /\ (tasks[k].exc # NoTask <=> tasks[k].out = "failed")
      BY <1>1, <1>4 DEF Inv, OutcomeInv, IsComplete, IsFailed
    <3>4. k \notin Reported(p) /\ Reported(p) \cup {k} = CompleteAmong(kids)
      BY <1>1 DEF Reported, CompleteAmong
    <3>5. Cardinality(Members(kids)) = Len(kids)
      BY <1>1 DEF Inv, ShapeInv
    <3> QED BY <3>1, <3>2, <3>3, <3>4, <3>5, MembersFinite
  <2>3. tasks[p].kind \in {"all", "any", "event"}
    BY <1>1 DEF IsComposite, Composites
  <2>4. ASSUME tasks[p].kind = "all"
        PROVE  /\ new \in Task /\ new.kind = tasks[p].kind /\ new.kids = kids
               /\ new.parent = tasks[p].parent /\ (new.exc # NoTask <=> new.out = "failed")
               /\ new.count = Cardinality(CompleteAmong(kids))
               /\ new.staged = NoTask => FailedAmong(kids) = {}
               /\ new.staged # NoTask =>
                    \E j \in FailedAmong(kids) : tasks[j].exc = new.staged
               /\ IF new.out = "pending" THEN new.count < Len(kids)
                  ELSE CompleteAmong(kids) = Members(kids) /\ new.exc = new.staged
    <3> DEFINE staged == IF tasks[p].staged = NoTask THEN tasks[k].exc ELSE tasks[p].staged
    <3>1. /\ staged \in TaskId \cup {NoTask}
          /\ tasks[p].count = Cardinality(Reported(p)) /\ tasks[p].count \in Nat
      BY <2>2, <2>4 DEF Task, PendingAt
    <3>2. /\ tasks[p].count + 1 = Cardinality(CompleteAmong(kids))
          /\ Cardinality(CompleteAmong(kids)) <= Len(kids)
          /\ Cardinality(CompleteAmong(kids)) = Len(kids) =>
               CompleteAmong(kids) = Members(kids)
      <4>1. CompleteAmong(kids) \subseteq Members(kids) /\ Reported(p) \subseteq Members(kids)
        BY DEF CompleteAmong, Reported
      <4>2. IsFiniteSet(Reported(p)) /\ Cardinality(Reported(p)) \in Nat
        BY <2>2, <4>1, FullPart
      <4>3. Cardinality(CompleteAmong(kids)) = Cardinality(Reported(p)) + 1
        BY <2>2, <4>2, CountOneMore
      <4>4. /\ Cardinality(CompleteAmong(kids)) <= Cardinality(Members(kids))
            /\ Cardinality(CompleteAmong(kids)) = Cardinality(Members(kids)) =>
                 CompleteAmong(kids) = Members(kids)
        BY <2>2, <4>1, FullPart
      <4> QED BY <2>2, <3>1, <4>2, <4>3, <4>4
    <3>3. /\ staged = NoTask => FailedAmong(kids) = {}
          /\ staged # NoTask => \E j \in FailedAmong(kids) : tasks[j].exc = staged
      <4>1. FailedAmong(kids) \subseteq Reported(p) \cup {k}
        <5>1. FailedAmong(kids) \subseteq CompleteAmong(kids)
          BY <1>1 DEF FailedAmong, CompleteAmong, Inv, OutcomeInv, IsComplete
        <5> QED BY <2>2, <5>1
      <4>2. \A j \in Reported(p) \cup {k} : j \in Members(kids)
        BY <1>1 DEF Reported, CompleteAmong
      <4>3. CASE tasks[p].staged = NoTask
        BY <2>2, <2>4, <4>1, <4>2, <4>3 DEF PendingAt, FailedAmong, IsFailed
      <4>4. CASE tasks[p].staged # NoTask
        BY <2>2, <2>4, <4>2, <4>4 DEF PendingAt, FailedAmong, IsFailed
      <4> QED BY <4>3, <4>4
    <3>4. new = IF tasks[p].count + 1 < Len(kids)
                THEN [tasks[p] EXCEPT !.count = @ + 1, !.staged = staged]
                ELSE [[tasks[p] EXCEPT !.count = @ + 1, !.staged = staged]
                       EXCEPT !.out = IF staged = NoTask THEN "done" ELSE "failed",
                              !.exc = staged]
      BY <2>4 DEF Told, WhenAllTold
    <3>5. /\ tasks[p] \in Task /\ tasks[p].exc = NoTask /\ tasks[p].out = "pending"
          /\ tasks[p].count + 1 \in Nat /\ staged \in TaskId \cup {NoTask}
      BY <1>4, <2>2, <3>1 DEF IsComplete
    <3> HIDE DEF new, staged
    <3>6. CASE tasks[p].count + 1 < Len(kids)
      <4>1. /\ new \in Task /\ new.kind = tasks[p].kind /\ new.kids = kids
            /\ new.parent = tasks[p].parent /\ new.exc = NoTask /\ new.out = "pending"
            /\ new.count = tasks[p].count + 1 /\ new.staged = staged
        <5>1. new = [tasks[p] EXCEPT !.count = tasks[p].count + 1, !.staged = staged]
          BY <3>4, <3>5, <3>6
        <5> QED BY <3>5, <5>1 DEF Task
      <4> QED BY <3>2, <3>3, <3>6, <4>1
    <3>7. CASE ~(tasks[p].count + 1 < Len(kids))
      <4>1. /\ new \in Task /\ new.kind = tasks[p].kind /\ new.kids = kids
            /\ new.parent = tasks[p].parent /\ new.exc = staged
            /\ new.out = IF staged = NoTask THEN "done" ELSE "failed"
            /\ new.count = tasks[p].count + 1 /\ new.staged = staged
        <5>1. new = [tasks[p] EXCEPT !.count = tasks[p].count + 1, !.staged = staged,
                       !.out = IF staged = NoTask THEN "done" ELSE "failed",
                       !.exc = staged]
          BY <3>4, <3>5, <3>7
        <5> DEFINE out == IF staged = NoTask THEN "done" ELSE "failed"
        <5>2. out \in Outcomes
          BY DEF Outcomes
        <5>3. new = [tasks[p] EXCEPT !.count = tasks[p].count + 1, !.staged = staged,
                                     !.out = out, !.exc = staged]
          BY <5>1
        <5> HIDE DEF out
        <5>4. /\ new \in Task /\ new.kind = tasks[p].kind /\ new.kids = kids
              /\ new.parent = tasks[p].parent /\ new.exc = staged /\ new.out = out
              /\ new.count = tasks[p].count + 1 /\ new.staged = staged
          BY <3>5, <5>2, <5>3 DEF Task
        <5> QED BY <5>4 DEF out
      <4>2. CompleteAmong(kids) = Members(kids)
        BY <2>2, <3>1, <3>2, <3>7
      <4> QED BY <3>2, <3>3, <4>1, <4>2
    <3> QED BY <3>6, <3>7
  <2>5. ASSUME tasks[p].kind # "all"
        PROVE  /\ new \in Task /\ new.kind = tasks[p].kind /\ new.kids = kids
               /\ new.parent = tasks[p].parent /\ (new.exc # NoTask <=> new.out = "failed")
               /\ new.out # "pending"
    <3>1. CASE tasks[p].kind = "any"
      <4>1. new = Completed(tasks[p], k) /\ k \in Nat
        BY <1>1, <3>1 DEF Told, WhenAnyTold, TaskId
      <4> QED BY <2>2, <4>1 DEF Completed, Task, Outcomes
    <3>2. CASE tasks[p].kind = "event"
      <4>1. new = EventTold(p, k) /\ p \in TaskId /\ p # NoTask
        BY <1>1, <3>2 DEF Told
      <4> HIDE DEF new
      <4>2. CASE k = tasks[p].kids[1]
        <5>1. new = [tasks[p] EXCEPT !.out = tasks[k].out, !.exc = tasks[k].exc,
                                     !.val = tasks[k].val]
          BY <4>1, <4>2 DEF EventTold
        <5>2. tasks[k].out # "pending"
          BY <1>1 DEF IsComplete
        <5>3. /\ new.kind = tasks[p].kind /\ new.kids = tasks[p].kids
              /\ new.parent = tasks[p].parent /\ new.out = tasks[k].out /\ new.exc = tasks[k].exc
          BY <2>2, <5>1 DEF Task
        <5>4. new \in Task
          BY <2>2, <5>1 DEF Task
        <5> QED BY <2>2, <5>2, <5>3, <5>4
      <4>3. CASE k # tasks[p].kids[1]
        <5>1. new = Failed(tasks[p], p)
          BY <4>1, <4>3 DEF EventTold
        <5> QED BY <2>2, <4>1, <5>1 DEF Failed, Task, Outcomes
      <4> QED BY <4>2, <4>3
    <3> QED BY <2>3, <2>5, <3>1, <3>2
  <2>6. /\ new \in Task /\ new.kind = tasks[p].kind /\ new.kids = kids
        /\ new.parent = tasks[p].parent /\ (new.exc # NoTask <=> new.out = "failed")
    BY <2>4, <2>5
  <2> HIDE DEF new
  <2>7. /\ tasks'[p] = new /\ \A q \in TaskId \ {p} : tasks'[q] = tasks[q]
        /\ notify' \in {p, NoTask}
        /\ notify' = p => new.out # "pending" /\ tasks[p].parent # NoTask
        /\ notify' # p => new.out = "pending" \/ tasks[p].parent = NoTask
    BY <1>1, <2>1 DEF TypeOK, Notification
  <2>8. \A q \in TaskId : /\ tasks'[q].kind = tasks[q].kind
                          /\ tasks'[q].kids = tasks[q].kids
                          /\ tasks'[q].parent = tasks[q].parent
    BY <2>6, <2>7
  <2>9. TypeOK'
    BY <1>1, <2>1, <2>6, <2>7 DEF TypeOK
  <2>10. OutcomeInv'
    BY <1>1, <2>6, <2>7 DEF Inv, OutcomeInv, IsFailed, IsFree, IsComposite, Composites
  <2>11. ShapeInv'
    BY <1>1, <2>8 DEF Inv, ShapeInv, IsFree, IsComposite
  <2>12. ParentInv'
    <3>1. \A j \in TaskId : tasks[j].parent # NoTask => tasks[j].parent \in TaskId
      BY <1>1 DEF Task
    <3>2. ASSUME NEW q \in TaskId, ~IsComplete(q)', NEW j \in Members(tasks[q].kids),
                 ~IsComplete(j)' \/ j = notify'
          PROVE  tasks[j].parent = q
      <4>1. ~IsComplete(q)
        BY <1>4, <2>7, <3>2 DEF IsComplete
      <4>2. ~IsComplete(j)
        BY <1>1, <1>4, <2>7, <3>2 DEF IsComplete
      <4> QED BY <3>2, <4>1, <4>2 DEF Inv, ParentInv
    <3>3. notify' # NoTask => IsComplete(notify)' /\ tasks[notify'].parent # NoTask
      BY <2>7 DEF IsComplete
    <3>4. notify' # NoTask => notify' \in TaskId
      BY <1>1, <2>7
    <3>5. ASSUME NEW j \in TaskId, tasks'[j].parent # NoTask
          PROVE  IsComposite(tasks[j].parent)' /\ j \in Members(tasks'[tasks'[j].parent].kids)
      <4>1. tasks[j].parent \in TaskId /\ tasks'[j].parent = tasks[j].parent
        BY <2>8, <3>1, <3>5
      <4>2. IsComposite(tasks[j].parent) /\ j \in Members(tasks[tasks[j].parent].kids)
        BY <3>5, <4>1 DEF Inv, ParentInv
      <4> QED BY <2>8, <4>1, <4>2 DEF IsComposite
    <3>6. \A q \in TaskId : ~IsComplete(q)' =>
            \A j \in Members(tasks'[q].kids) :
              (~IsComplete(j)' \/ j = notify') => tasks'[j].parent = q
      <4>1. \A q \in TaskId : \A j \in Members(tasks[q].kids) : j \in TaskId
        BY <1>1
      <4> QED BY <2>8, <3>2, <4>1
    <3>7. notify' # NoTask => IsComplete(notify)' /\ tasks'[notify'].parent # NoTask
      BY <2>8, <3>3, <3>4
    <3> QED BY <3>5, <3>6, <3>7 DEF ParentInv
  <2>13. CompositeInv'
    <3> SUFFICES ASSUME NEW q \in TaskId
                 PROVE  IF IsComplete(q)' THEN CompleteAt(q)' ELSE PendingAt(q)'
      BY DEF CompositeInv
    <3>1. CASE q = p
      <4>1. \A j \in Members(kids) : tasks'[j] = tasks[j]
        BY <1>1, <2>7 DEF Inv, ShapeInv
      <4>2. CompleteAmong(kids)' = CompleteAmong(kids) /\ FailedAmong(kids)' = FailedAmong(kids)
        BY <4>1, <2>8 DEF CompleteAmong, FailedAmong, IsComplete, IsFailed
      <4>3. p \notin Members(kids) /\ NoTask \notin Members(kids)
        BY <1>1 DEF Inv, ShapeInv
      <4>4. Reported(p)' = CompleteAmong(kids)
        BY <2>7, <2>8, <4>2, <4>3 DEF Reported, CompleteAmong
      <4>5. k \in CompleteAmong(kids)
        BY <2>2
      <4>6. FailedAmong(kids) \subseteq Members(kids) /\ CompleteAmong(kids) \subseteq Members(kids)
        BY DEF FailedAmong, CompleteAmong
      <4>7. CASE tasks[p].kind = "all" /\ new.out = "pending"
        <5>1. \A j \in Members(kids) : IsFailed(j)' <=> j \in FailedAmong(kids)
          BY <4>1 DEF FailedAmong, IsFailed
        <5>2. FailedAmong(kids) \subseteq CompleteAmong(kids)
          BY <1>1 DEF FailedAmong, CompleteAmong, Inv, OutcomeInv, IsComplete
        <5>3. tasks'[p].kids = kids /\ tasks'[p].kind = "all"
          BY <2>6, <2>7, <4>7
        <5> QED BY <2>4, <2>7, <3>1, <4>1, <4>4, <4>6, <4>7, <5>1, <5>2, <5>3
                DEF PendingAt, IsComplete
      <4>8. CASE tasks[p].kind = "all" /\ new.out # "pending"
        <5>1. AllDone(kids)'
          BY <2>4, <2>7, <2>8, <4>1, <4>8 DEF AllDone, CompleteAmong, IsComplete
        <5>2. tasks'[p].kids = kids /\ tasks'[p].kind = "all"
          BY <2>6, <2>7, <4>8
        <5>3. FailureOwned(p)'
          BY <2>4, <2>7, <4>1, <4>2, <4>6, <4>8, <5>2 DEF FailureOwned, FailedAmong, IsFailed
        <5> QED BY <2>7, <3>1, <4>8, <5>1, <5>2, <5>3 DEF CompleteAt, IsComplete
      <4>9. CASE tasks[p].kind # "all"
        <5>1. tasks'[p].kids = kids /\ tasks'[p].kind = tasks[p].kind /\ IsComplete(p)'
          BY <2>5, <2>7, <4>9 DEF IsComplete
        <5>2. SomeDone(kids)'
          BY <4>2, <4>5, <4>6 DEF SomeDone, CompleteAmong
        <5> QED BY <3>1, <4>9, <5>1, <5>2 DEF CompleteAt
      <4> QED BY <4>7, <4>8, <4>9
    <3>2. CASE q # p
      <4>1. tasks'[q] = tasks[q]
        BY <2>7, <3>2
      <4>2. \A j \in Members(tasks[q].kids) : IsComplete(j) => tasks'[j] = tasks[j]
        BY <1>1, <1>4, <2>7
      <4>3. ASSUME ~IsComplete(q) PROVE Reported(q)' = Reported(q)
        <5>1. k \notin Members(tasks[q].kids)
          BY <1>2, <3>2, <4>3
        <5>2. p \in Members(tasks[q].kids) => tasks[p].parent = q
          BY <1>4, <4>3 DEF Inv, ParentInv
        <5>3. q # NoTask /\ NoTask \notin Members(tasks[q].kids)
          BY <1>1
        <5>4. ASSUME NEW j \in Members(tasks[q].kids)
              PROVE  (IsComplete(j)' /\ j # notify') <=> (IsComplete(j) /\ j # k)
          <6>1. CASE j = p
            BY <1>4, <2>7, <5>2, <5>3, <6>1 DEF IsComplete
          <6>2. CASE j # p
            <7>1. tasks'[j] = tasks[j] /\ j # k /\ j # notify'
              BY <1>1, <2>7, <5>1, <5>3, <6>2
            <7> QED BY <7>1 DEF IsComplete
          <6> QED BY <6>1, <6>2
        <5> QED BY <4>1, <5>4 DEF Reported, CompleteAmong
      <4>4. IF IsComplete(q) THEN CompleteAt(q) ELSE PendingAt(q)
        BY DEF Inv, CompositeInv
      <4> QED BY <1>1, <4>1, <4>2, <4>3, <4>4, CompositeFrame
    <3> QED BY <3>1, <3>2
  <2> QED BY <2>9, <2>10, <2>11, <2>12, <2>13 DEF Inv
<1> QED BY <1>3, <1>4

(* Every step preserves the invariant.                                     *)
LEMMA StepInv == Inv /\ [Next]_vars => Inv'
<1> SUFFICES ASSUME Inv, [Next]_vars PROVE Inv'
  OBVIOUS
<1>1. CASE UNCHANGED vars
  <2>1. tasks' = tasks /\ notify' = notify
    BY <1>1 DEF vars
  <2>2. TypeOK' /\ OutcomeInv' /\ ShapeInv'
    BY <2>1 DEF Inv, TypeOK, OutcomeInv, ShapeInv, IsFailed, IsFree, IsComposite
  <2>3. ParentInv'
    BY <2>1 DEF Inv, ParentInv, IsComplete, IsComposite
  <2>4. CompositeInv'
    <3>1. \A p \in TaskId : Reported(p)' = Reported(p)
      BY <2>1 DEF Reported, CompleteAmong, IsComplete
    <3> QED BY <2>1, <3>1, CompositeFrame DEF Inv, CompositeInv
  <2> QED BY <2>2, <2>3, <2>4 DEF Inv
<1>2. CASE CreateTask
  BY <1>2, CreateTaskInv
<1>3. CASE WaitEvent
  BY <1>3, WaitEventInv
<1>4. CASE Compose
  BY <1>4, ComposeInv
<1>5. CASE Finish \/ Break
  BY <1>5, FinishInv
<1>6. CASE OnChildCompleted
  BY <1>6, HopInv
<1> QED BY <1>1, <1>2, <1>3, <1>4, <1>5, <1>6 DEF Next

----------------------------------------------------------------------------
(* The inductive invariant holds in every reachable state.                 *)
THEOREM Invariance == Spec => []Inv
BY InitInv, StepInv, PTL DEF Spec

(* The task table and the notification in flight are always well formed.   *)
THEOREM TypeCorrect == Spec => []TypeOK
<1>1. Inv => TypeOK
  BY DEF Inv
<1> QED BY <1>1, Invariance, PTL

(* Once a notification chain has ended, every composite is complete        *)
(* exactly when it should be: no when_all, when_any or timed wait hangs,   *)
(* and none completes early.                                               *)
THEOREM NoCompositeHangs == Spec => []CompositesSettled
<1>1. Inv => CompositesSettled
  <2> SUFFICES ASSUME Inv, notify = NoTask, NEW p \in TaskId
               PROVE  /\ tasks[p].kind = "all" =>
                           (IsComplete(p) <=> AllDone(tasks[p].kids))
                      /\ tasks[p].kind \in {"any", "event"} =>
                           (IsComplete(p) <=>
                              tasks[p].kids = <<>> \/ SomeDone(tasks[p].kids))
    BY DEF CompositesSettled
  <2>1. tasks[p].kids \in Seq(TaskId) /\ NoTask \notin Members(tasks[p].kids)
    <3>1. tasks[p].kids \in Seq(TaskId)
      BY DEF Inv, TypeOK, Task
    <3> QED BY <3>1, MembersFinite DEF TaskId, NoTask
  <2>2. Reported(p) = CompleteAmong(tasks[p].kids)
    BY <2>1 DEF Reported, CompleteAmong
  <2>3. CASE IsComplete(p)
    BY <2>3 DEF Inv, CompositeInv, CompleteAt
  <2>4. CASE ~IsComplete(p)
    <3>1. PendingAt(p)
      BY <2>4 DEF Inv, CompositeInv
    <3>2. ASSUME tasks[p].kind = "all", AllDone(tasks[p].kids) PROVE FALSE
      <4>1. Reported(p) = Members(tasks[p].kids)
        BY <2>2, <3>2 DEF AllDone, CompleteAmong
      <4>2. Cardinality(Members(tasks[p].kids)) = Len(tasks[p].kids)
        BY DEF Inv, ShapeInv
      <4>3. Len(tasks[p].kids) < Len(tasks[p].kids)
        BY <3>1, <3>2, <4>1, <4>2 DEF PendingAt
      <4> QED BY <2>1, <4>3
    <3>3. tasks[p].kind \in {"any", "event"} =>
            ~(tasks[p].kids = <<>> \/ SomeDone(tasks[p].kids))
      BY <2>2, <3>1 DEF PendingAt, SomeDone, CompleteAmong
    <3> QED BY <2>4, <3>2, <3>3
  <2> QED BY <2>3, <2>4
<1> QED BY <1>1, Invariance, PTL

(* A failed when_all carries the failure of one of its children, and one   *)
(* that completed normally has none that failed.                           *)
THEOREM FailuresOwned == Spec => []FailuresAreOwned
<1>1. Inv => FailuresAreOwned
  BY DEF Inv, CompositeInv, CompleteAt, FailuresAreOwned
<1> QED BY <1>1, Invariance, PTL

(* Outcomes are final: no step changes the outcome, the exception or the   *)
(* result of a completed task, or replaces a staged first failure.         *)
THEOREM FinalOutcomes == Spec => OutcomesAreFinal
<1> DEFINE Kept(t) == /\ IsComplete(t) => /\ tasks'[t].out = tasks[t].out
                                          /\ tasks'[t].exc = tasks[t].exc
                                          /\ tasks'[t].val = tasks[t].val
                      /\ tasks[t].staged # NoTask => tasks'[t].staged = tasks[t].staged
<1>1. ASSUME Inv, [Next]_vars, NEW t \in TaskId PROVE Kept(t)
  <2>1. /\ tasks \in [TaskId -> Task]
        /\ \A u \in TaskId : tasks[u] \in Task /\ (IsFree(u) => tasks[u] = Free)
    BY <1>1 DEF Inv, TypeOK, OutcomeInv
  <2>2. IsFree(t) => tasks[t].out = "pending" /\ tasks[t].staged = NoTask
    BY <2>1 DEF Free, NewTask
  <2>3. CASE UNCHANGED vars
    BY <2>3 DEF vars
  <2>4. CASE CreateTask
    <3>1. PICK u \in TaskId : \E rec : IsFree(u) /\ tasks' = [tasks EXCEPT ![u] = rec]
      BY <2>4 DEF CreateTask, Fresh
    <3>2. ~IsFree(t) => tasks'[t] = tasks[t]
      BY <2>1, <3>1
    <3> QED BY <2>2, <3>2 DEF IsComplete
  <2>5. CASE WaitEvent
    <3>1. ~IsFree(t) => tasks'[t] = tasks[t]
      BY <2>1, <2>5 DEF WaitEvent, EventWithTimeout, Fresh
    <3> QED BY <2>2, <3>1 DEF IsComplete
  <2>6. CASE Compose
    <3>1. PICK c \in TaskId : \E rec : IsFree(c) /\ tasks' = Adopt(c, rec)
      BY <2>6 DEF Compose, WhenAll, WhenAny, Fresh
    <3>2. CASE t = c
      BY <2>2, <3>1, <3>2 DEF IsComplete
    <3>3. CASE t # c
      <4>1. tasks'[t] \in {tasks[t], [tasks[t] EXCEPT !.parent = c]}
        BY <3>1, <3>3 DEF Adopt
      <4> QED BY <2>1, <4>1 DEF Task
    <3> QED BY <3>2, <3>3
  <2>7. CASE Finish \/ Break
    <3>1. PICK u \in TaskId :
            /\ ~IsComplete(u)
            /\ \/ tasks' = [tasks EXCEPT ![u] = Completed(tasks[u], 0)]
               \/ tasks' = [tasks EXCEPT ![u] = Failed(tasks[u], u)]
      BY <2>7 DEF Finish, Break, Complete, Fail
    <3>2. t # u => tasks'[t] = tasks[t]
      BY <2>1, <3>1
    <3>3. tasks'[u] \in {Completed(tasks[u], 0), Failed(tasks[u], u)}
      BY <2>1, <3>1
    <3>4. tasks'[u].staged = tasks[u].staged
      BY <2>1, <3>3 DEF Completed, Failed, Task
    <3> QED BY <3>1, <3>2, <3>4
  <2>8. CASE OnChildCompleted
    <3>1. PICK k \in TaskId : k = notify
      BY <1>1, <2>8 DEF OnChildCompleted, Inv, TypeOK, NoTask
    <3>2. PICK p \in TaskId : p = tasks[k].parent
      BY <1>1, <2>8, <3>1 DEF OnChildCompleted, Inv, ParentInv, TypeOK, Task
    <3>3. CASE t # p \/ IsComplete(p)
      <4>1. tasks'[t] = tasks[t]
        BY <2>1, <2>8, <3>1, <3>2, <3>3 DEF OnChildCompleted
      <4> QED BY <4>1
    <3>4. CASE t = p /\ ~IsComplete(p)
      <4>1. tasks'[p] = Told(p, k)
        BY <1>1, <2>8, <3>1, <3>2, <3>4 DEF OnChildCompleted, Inv, TypeOK
      <4>2. tasks[p].staged # NoTask => Told(p, k).staged = tasks[p].staged
        BY <2>1 DEF Told, WhenAllTold, WhenAnyTold, EventTold, Completed, Failed, Task
      <4> QED BY <3>4, <4>1, <4>2
    <3> QED BY <3>3, <3>4
  <2> QED BY <1>1, <2>3, <2>4, <2>5, <2>6, <2>7, <2>8 DEF Next
<1>2. Inv /\ [Next]_vars => [\A t \in TaskId : Kept(t)]_vars
  BY <1>1
<1> QED BY <1>2, Invariance, PTL DEF Spec, OutcomesAreFinal
============================================================================
