------------------------- MODULE OrchestratorProofs -------------------------
(***************************************************************************)
(* Machine-checked proofs about Orchestrator, for every workflow function, *)
(* every bound of a scene and every set of event names.                    *)
(***************************************************************************)
EXTENDS Orchestrator, FiniteSetTheorems, SequenceTheorems, WellFoundedInduction, TLAPS

----------------------------------------------------------------------------
(* The shapes of the data.                                                 *)

OptTask == TaskId \cup {NoTask}

\* Names of work and of payloads, and the labels the code itself uses.
Labels ==
  STRING \cup {"none", "timer", "event", "optional", "retry", "soft", "fatal",
               "completed", "failed", "terminated", "continued", "running"}

Actions == [id: Nat, kind: {"activity", "child", "timer", "complete"}, name: Labels]

\* The pending actions of a turn: a dict of Python, which is finite.
ActionSets == {A \in SUBSET Actions : IsFiniteSet(A)}

PTasks == [id: Nat, task: TaskId]

HistoryEvents ==
  {e \in [type: EventTypes, id: Nat, name: Labels, val: Nat, patches: SUBSET STRING] :
     e.type = "eventRaised" => e.name \in Names}

\* A resume or terminate request is never held back by a suspension.
HeldEvents == {e \in HistoryEvents : Suspendable(e)}

Statuses == {"running", "completed", "failed", "terminated", "continued"}

\* Why a turn fails.
Reasons == {"nondeterminism", "exception", "unknown event"}

Contexts ==
  [gen: {"none", "live", "done"}, pc: Nat, prev: OptTask, env: Seq(TaskId),
   seen: Seq(Outcomes \X Nat), seq: Nat, acts: ActionSets, ptasks: SUBSET PTasks,
   recv: [Names -> Seq(Nat)], wait: [Names -> Seq(TaskId)], got: [Names -> Seq(Nat)],
   status: Statuses, error: {"none", "nondeterminism", "exception", "unknown event"},
   save: BOOLEAN, hpatch: SUBSET STRING, apatch: SUBSET STRING,
   unpatch: SUBSET STRING, epatch: SUBSET STRING]

Retries ==
  [max: Nat, attempt: Nat, owner: OptTask, kind: {"none", "activity", "child", "timer"},
   name: Labels]

Snapshots ==
  [pc: Nat, prev: OptTask, env: Seq(TaskId), seen: Seq(Outcomes \X Nat), seq: Nat,
   ptasks: SUBSET PTasks, recv: [Names -> Seq(Nat)], wait: [Names -> Seq(TaskId)],
   got: [Names -> Seq(Nat)], apatch: SUBSET STRING, tasks: [TaskId -> Task],
   retry: [TaskId -> Retries]]

TurnTypes ==
  /\ tasks \in [TaskId -> Task] /\ notify \in OptTask
  /\ ctx \in Contexts /\ retry \in [TaskId -> Retries]
  /\ mode \in {"idle", "event", "resume", "run", "done"}
  /\ pos \in Nat /\ pos <= Len(Events)
  /\ suspended \in BOOLEAN /\ buffer \in Seq(HeldEvents)
  /\ drain \in Nat /\ drain <= Len(buffer) + 1

Counters ==
  [raised: [Names -> Nat], failed: Nat, dup: Nat, lost: Nat, susp: Nat, res: Nat,
   term: Nat, gen: Nat]

SidecarTypes ==
  /\ scene \in Scenes
  /\ hist \in Seq(HistoryEvents) /\ inbox \in Seq(HistoryEvents)
  /\ batch \in Seq(HistoryEvents)
  /\ out \in SUBSET Actions /\ \A a \in out : a.kind # "complete"
  /\ status \in {"running", "completed", "failed", "terminated"}
  /\ sdk \in {"old", "new"}
  /\ last \in [snap: Seq(Snapshots), before: [Names -> Seq(Nat)]]
  /\ used \in Counters

----------------------------------------------------------------------------
(* The task objects of a turn.                                             *)

\* A waiter is a leaf made before the upgrade, or the event task of a wait
\* that has not timed out.
Waits(w) ==
  /\ ~IsComplete(w) /\ retry[w].max = 0
  /\ \/ tasks[w].kind = "leaf"
     \/ /\ tasks[w].kind = "inner" /\ tasks[w].parent # NoTask
        /\ tasks[tasks[w].parent].kind = "event"
        /\ tasks[tasks[w].parent].kids[1] = w
        /\ ~IsComplete(tasks[w].parent)

\* The waiters of all names are different tasks, none of which has an id.
Waiters(c) == UNION {Members(c.wait[n]) : n \in Names}
OneWait(c) ==
  \A n, m \in Names : \A i \in DOMAIN c.wait[n], j \in DOMAIN c.wait[m] :
    c.wait[n][i] = c.wait[m][j] => n = m /\ i = j
WaitInv == (\A w \in Waiters(ctx) : Waits(w)) /\ OneWait(ctx)

\* A task with an id is pending, and nothing but its completion event ends it.
PendingTask(t) ==
  /\ tasks[t].kind \in {"leaf", "inner"} /\ ~IsComplete(t) /\ t \notin Waiters(ctx)
  /\ \A c \in TaskId : tasks[c].kind = "event" => tasks[c].kids[1] # t

\* The task that a retry timer will schedule again.
OwnerOf(t) ==
  LET o == retry[t].owner
  IN /\ tasks[t].kind = "inner" /\ tasks[t].parent = NoTask
     /\ tasks[o].kind = "leaf" /\ retry[o].max > 0 /\ retry[o].kind # "none"

\* The tasks that have an id.
Awaited(c) == {p.task : p \in c.ptasks}

IdInv ==
  /\ \A a \in ctx.acts : a.id \in 1 .. ctx.seq
  /\ \A p \in ctx.ptasks : p.id \in 1 .. ctx.seq
  /\ \A p, q \in ctx.ptasks : p.id = q.id \/ p.task = q.task => p = q

AwaitedInv ==
  \A t \in Awaited(ctx) :
    /\ PendingTask(t)
    /\ retry[t].owner # NoTask =>
         /\ ~IsComplete(retry[t].owner) /\ retry[t].owner \notin Awaited(ctx)
         /\ \A u \in Awaited(ctx) : retry[u].owner = retry[t].owner => u = t

\* What the retry data say of a task.  An unused slot holds nothing.
RetryOK(t) ==
  /\ retry[t].owner # NoTask => OwnerOf(t)
  /\ retry[t].max > 0 => tasks[t].kind = "leaf" /\ retry[t].kind # "none"
  /\ IsFree(t) => tasks[t] = Free /\ retry[t].max = 0 /\ retry[t].owner = NoTask
RetryInv == \A t \in TaskId : RetryOK(t)

\* A parent is a composite, and only the two tasks of a wait are hidden in it.
ParentOK(t) ==
  tasks[t].parent # NoTask =>
    LET p == tasks[tasks[t].parent]
    IN /\ p.kind \in Composites
       /\ tasks[t].kind = "inner" <=> p.kind = "event"
       /\ p.kind = "event" => t \in Members(p.kids)
ParentInv == \A t \in TaskId : ParentOK(t)

\* The event task of a wait is the first child, the timer the second, and
\* the payload of the first is the result of the wait.
EventOK(c) ==
  tasks[c].kind = "event" =>
    LET kids == tasks[c].kids
    IN /\ Len(kids) = 2 /\ kids[1] # kids[2]
       /\ \A i \in 1 .. 2 : tasks[kids[i]].kind = "inner" /\ tasks[kids[i]].parent = c
       /\ tasks[kids[1]].out # "failed"
       /\ tasks[kids[1]].out = "done" =>
            \/ notify = kids[1] /\ ~IsComplete(c)
            \/ tasks[c].out = "done" /\ tasks[c].val = tasks[kids[1]].val
EventInv == \A c \in TaskId : EventOK(c)

\* The program never holds a task hidden in a wait, nor a retry timer.
Held(t) == tasks[t].kind \notin {"free", "inner"}
EnvInv ==
  /\ \A i \in DOMAIN ctx.env : Held(ctx.env[i])
  /\ ctx.prev # NoTask => Held(ctx.prev)

FlowInv ==
  /\ notify # NoTask => mode = "resume" /\ IsComplete(notify) /\ tasks[notify].parent # NoTask
  /\ suspended => mode \in {"event", "done"}
  /\ ctx.gen = "none" => /\ ctx.ptasks = {} /\ mode \in {"idle", "event", "done"}
                         /\ \A n \in Names : ctx.wait[n] = <<>>
  /\ ctx.gen = "live" /\ mode \in {"event", "resume"} => Instruction.op = "yield"

\* Between turns nothing is left of a turn.
IdleInv ==
  IF mode = "idle"
  THEN /\ ctx = NewContext /\ tasks = [t \in TaskId |-> Free] /\ notify = NoTask
       /\ retry = [t \in TaskId |-> NoRetry] /\ batch = <<>>
       /\ pos = 0 /\ suspended = FALSE /\ buffer = <<>> /\ drain = 0
  ELSE batch # <<>> /\ batch[1] = Event("workflowStarted", 0, "none", 0)

TaskInv == WaitInv /\ AwaitedInv /\ RetryInv /\ ParentInv /\ EventInv

TurnInv ==
  /\ TurnTypes /\ SidecarTypes /\ IdInv /\ TaskInv /\ EnvInv /\ FlowInv /\ IdleInv
  /\ NoWaiterOverlooked

----------------------------------------------------------------------------
(* What two contexts have in common.                                       *)

SameProgram(c, d) ==
  d.gen = c.gen /\ d.pc = c.pc /\ d.prev = c.prev /\ d.env = c.env /\ d.seen = c.seen
SameIds(c, d) == d.seq = c.seq /\ d.acts = c.acts /\ d.ptasks = c.ptasks
SameEvents(c, d) == d.recv = c.recv /\ d.wait = c.wait /\ d.got = c.got
SameStatus(c, d) == d.status = c.status /\ d.error = c.error /\ d.save = c.save
SamePatches(c, d) ==
  d.hpatch = c.hpatch /\ d.apatch = c.apatch /\ d.unpatch = c.unpatch /\ d.epatch = c.epatch

(* Images of finite sets are finite.                                       *)
LEMMA FiniteImage ==
  ASSUME NEW S, IsFiniteSet(S), NEW f, f = [x \in S |-> f[x]]
  PROVE  IsFiniteSet({f[x] : x \in S})
<1> DEFINE T == {f[x] : x \in S}
<1>1. f \in Surjection(S, T)
  <2>1. f \in [S -> T]
    OBVIOUS
  <2> QED BY <2>1 DEF Surjection
<1> QED BY <1>1, FS_Surjection

LEMMA ActionSetFacts ==
  /\ {} \in ActionSets
  /\ \A a \in Actions : {a} \in ActionSets
  /\ \A A \in ActionSets : A \in SUBSET Actions /\ IsFiniteSet(A)
  /\ \A A \in ActionSets : \A B \in SUBSET A : B \in ActionSets
  /\ \A A \in ActionSets : \A a \in Actions : A \cup {a} \in ActionSets
<1>1. {} \in ActionSets /\ \A a \in Actions : {a} \in ActionSets
  BY FS_EmptySet, FS_Singleton DEF ActionSets
<1>2. ASSUME NEW A \in ActionSets PROVE A \in SUBSET Actions /\ IsFiniteSet(A)
  BY DEF ActionSets
<1>3. ASSUME NEW A \in ActionSets, NEW B \in SUBSET A PROVE B \in ActionSets
  <2>1. IsFiniteSet(B)
    BY <1>2, FS_Subset
  <2>2. B \in SUBSET Actions
    BY <1>2
  <2> QED BY <2>1, <2>2 DEF ActionSets
<1>4. ASSUME NEW A \in ActionSets, NEW a \in Actions PROVE A \cup {a} \in ActionSets
  <2>1. IsFiniteSet(A \cup {a})
    BY <1>2, FS_AddElement
  <2>2. A \cup {a} \in SUBSET Actions
    BY <1>2
  <2> QED BY <2>1, <2>2 DEF ActionSets
<1> QED BY <1>1, <1>2, <1>3, <1>4

(* The fields of a context.                                                *)
LEMMA ContextTypes ==
  ASSUME NEW c \in Contexts
  PROVE  /\ c.gen \in {"none", "live", "done"} /\ c.pc \in Nat /\ c.prev \in OptTask
         /\ c.env \in Seq(TaskId) /\ c.seen \in Seq(Outcomes \X Nat) /\ c.seq \in Nat
         /\ c.acts \in ActionSets /\ c.acts \in SUBSET Actions
         /\ c.ptasks \in SUBSET PTasks
         /\ c.recv \in [Names -> Seq(Nat)] /\ c.wait \in [Names -> Seq(TaskId)]
         /\ c.got \in [Names -> Seq(Nat)]
         /\ c.status \in Statuses
         /\ c.error \in {"none", "nondeterminism", "exception", "unknown event"}
         /\ c.save \in BOOLEAN /\ c.hpatch \in SUBSET STRING /\ c.apatch \in SUBSET STRING
         /\ c.unpatch \in SUBSET STRING /\ c.epatch \in SUBSET STRING
<1>1. c.acts \in ActionSets
  BY DEF Contexts
<1>2. c.acts \in SUBSET Actions
  BY <1>1, ActionSetFacts
<1> QED BY <1>1, <1>2 DEF Contexts

(* A new action, and the task its completion event will complete.          *)
LEMMA ScheduledFields ==
  ASSUME NEW c \in Contexts, NEW kind \in {"activity", "child", "timer"},
         NEW name \in Labels, NEW t \in TaskId
  PROVE  /\ Scheduled(c, kind, name, t) \in Contexts
         /\ SameProgram(c, Scheduled(c, kind, name, t))
         /\ SameEvents(c, Scheduled(c, kind, name, t))
         /\ SameStatus(c, Scheduled(c, kind, name, t))
         /\ SamePatches(c, Scheduled(c, kind, name, t))
         /\ Scheduled(c, kind, name, t).seq = c.seq + 1
         /\ Scheduled(c, kind, name, t).acts = c.acts \cup {Action(c.seq + 1, kind, name)}
         /\ Scheduled(c, kind, name, t).ptasks =
              c.ptasks \cup {[id |-> c.seq + 1, task |-> t]}
<1> DEFINE A == c.acts \cup {Action(c.seq + 1, kind, name)}
           P == c.ptasks \cup {[id |-> c.seq + 1, task |-> t]}
<1>a. c.seq \in Nat /\ c.acts \in ActionSets /\ c.ptasks \in SUBSET PTasks
  BY ContextTypes, Zenon
<1>1. c.seq + 1 \in Nat
  BY <1>a
<1>2. Action(c.seq + 1, kind, name) \in Actions /\ [id |-> c.seq + 1, task |-> t] \in PTasks
  BY <1>1 DEF Action, Actions, PTasks
<1>3. A \in ActionSets /\ P \in SUBSET PTasks
  BY <1>a, <1>2, ActionSetFacts
<1>4. Scheduled(c, kind, name, t) = [c EXCEPT !.seq = c.seq + 1, !.acts = A, !.ptasks = P]
  BY DEF Scheduled, Contexts
<1> HIDE DEF A, P
<1>5. /\ Scheduled(c, kind, name, t) \in Contexts
      /\ Scheduled(c, kind, name, t).seq = c.seq + 1
      /\ Scheduled(c, kind, name, t).acts = A /\ Scheduled(c, kind, name, t).ptasks = P
      /\ SameProgram(c, Scheduled(c, kind, name, t))
      /\ SameEvents(c, Scheduled(c, kind, name, t))
      /\ SameStatus(c, Scheduled(c, kind, name, t))
      /\ SamePatches(c, Scheduled(c, kind, name, t))
  BY <1>1, <1>3, <1>4, ZenonT(60)
     DEF Contexts, SameProgram, SameEvents, SameStatus, SamePatches
<1> QED BY <1>5 DEF A, P

(* The completion action takes the place of all others.                    *)
LEMMA SetCompleteFields ==
  ASSUME NEW c \in Contexts, NEW st \in Statuses
  PROVE  LET d == SetComplete(c, st)
         IN /\ d \in Contexts /\ d.ptasks = c.ptasks /\ d.seq >= c.seq
            /\ SameProgram(c, d) /\ SameEvents(c, d) /\ SamePatches(c, d)
            /\ d.error = c.error /\ d.save = c.save
            /\ d.status = IF c.status = "running" THEN st ELSE c.status
            /\ IF c.status = "running"
               THEN d.acts = {Action(d.seq, "complete", st)} /\ d.seq = c.seq + 1
               ELSE d = c
<1>1. CASE c.status # "running"
  <2>1. SetComplete(c, st) = c /\ c.seq \in Nat
    BY <1>1, ContextTypes DEF SetComplete
  <2> QED BY <1>1, <2>1 DEF SameProgram, SameEvents, SamePatches
<1>2. CASE c.status = "running"
  <2> DEFINE d == SetComplete(c, st)
             A == {Action(c.seq + 1, "complete", st)}
  <2>a. /\ c.error \in {"none", "nondeterminism", "exception", "unknown event"}
        /\ c.save \in BOOLEAN /\ c.seq \in Nat
    BY ContextTypes, Zenon
  <2>c. c.seq \in Nat
    BY <2>a
  <2>1. c.seq + 1 \in Nat /\ c.seq + 1 >= c.seq
    BY <2>c
  <2>b. st \in Labels
    BY DEF Statuses, Labels
  <2>2. A \in ActionSets
    <3>1. Action(c.seq + 1, "complete", st) \in Actions
      BY <2>1, <2>b DEF Action, Actions
    <3> QED BY <3>1, ActionSetFacts
  <2>3. d = [c EXCEPT !.seq = c.seq + 1, !.acts = A, !.status = st, !.error = c.error,
                      !.save = c.save]
    BY <1>2 DEF SetComplete, Contexts
  <2>4. /\ d \in Contexts /\ d.seq = c.seq + 1 /\ d.acts = A /\ d.ptasks = c.ptasks
        /\ d.status = st /\ d.error = c.error /\ d.save = c.save
        /\ SameProgram(c, d) /\ SameEvents(c, d) /\ SamePatches(c, d)
    <3> HIDE DEF d, A
    <3> QED BY <2>a, <2>1, <2>2, <2>3 DEF Contexts, SameProgram, SameEvents, SamePatches
  <2> QED BY <1>2, <2>a, <2>1, <2>4
<1> QED BY <1>1, <1>2

(* set_failed does the same, and notes why.                                *)
LEMMA SetFailedFields ==
  ASSUME NEW c \in Contexts, NEW why \in Reasons
  PROVE  LET d == SetFailed(c, why)
         IN /\ d \in Contexts /\ d.ptasks = c.ptasks /\ d.seq >= c.seq
            /\ SameProgram(c, d) /\ SameEvents(c, d) /\ SamePatches(c, d)
            /\ d.error = why /\ d.save = c.save
            /\ d.status = IF c.status = "running" THEN "failed" ELSE c.status
            /\ IF c.status = "running"
               THEN d.acts = {Action(d.seq, "complete", "failed")} /\ d.seq = c.seq + 1
               ELSE d.acts = c.acts /\ d.seq = c.seq
<1> DEFINE e == SetComplete(c, "failed")
           d == SetFailed(c, why)
<1>1. /\ e \in Contexts /\ e.ptasks = c.ptasks /\ e.seq >= c.seq
      /\ SameProgram(c, e) /\ SameEvents(c, e) /\ SamePatches(c, e)
      /\ e.error = c.error /\ e.save = c.save
      /\ e.status = IF c.status = "running" THEN "failed" ELSE c.status
      /\ IF c.status = "running"
         THEN e.acts = {Action(e.seq, "complete", "failed")} /\ e.seq = c.seq + 1
         ELSE e = c
  BY SetCompleteFields DEF Statuses
<1>2. d = [e EXCEPT !.seq = e.seq, !.acts = e.acts, !.status = e.status, !.error = why,
                    !.save = e.save]
  <2> HIDE DEF e
  <2>1. d = [e EXCEPT !.error = why]
    BY DEF SetFailed, e
  <2> HIDE DEF d
  <2> QED BY <1>1, <2>1 DEF Contexts
<1> HIDE DEF d, e
<1>3. /\ d \in Contexts /\ d.seq = e.seq /\ d.acts = e.acts /\ d.ptasks = e.ptasks
      /\ d.status = e.status /\ d.error = why /\ d.save = e.save
      /\ SameProgram(e, d) /\ SameEvents(e, d) /\ SamePatches(e, d)
  <2>1. e.seq \in Nat /\ e.acts \in ActionSets /\ e.status \in Statuses /\ e.save \in BOOLEAN
    BY <1>1, ContextTypes
  <2>2. why \in {"none", "nondeterminism", "exception", "unknown event"}
    BY DEF Reasons
  <2> QED BY <1>1, <1>2, <2>1, <2>2, ZenonT(60) DEF Contexts, SameProgram, SameEvents, SamePatches
<1>4. SameProgram(c, d) /\ SameEvents(c, d) /\ SamePatches(c, d)
  BY <1>1, <1>3 DEF SameProgram, SameEvents, SamePatches
<1> QED BY <1>1, <1>3, <1>4 DEF d

----------------------------------------------------------------------------
(* What most steps of a turn have in common.                               *)

Frame == UNCHANGED <<scene, sidecarVars>>

PosTypes ==
  /\ pos \in Nat /\ pos <= Len(Events)
  /\ suspended \in BOOLEAN /\ buffer \in Seq(HeldEvents)
  /\ drain \in Nat /\ drain <= Len(buffer) + 1

(* A step that changes no task and registers no waiter.                    *)
LEMMA SameTasks ==
  ASSUME TaskInv, UNCHANGED <<tasks, notify, retry>>, ctx'.wait = ctx.wait,
         Awaited(ctx') \subseteq Awaited(ctx)
  PROVE  TaskInv'
<1>1. WaitInv'
  BY DEF TaskInv, WaitInv, Waiters, OneWait, Waits, IsComplete
<1>2. AwaitedInv'
  BY DEF TaskInv, AwaitedInv, PendingTask, Waiters, IsComplete
<1>3. RetryInv'
  BY DEF TaskInv, RetryInv, RetryOK, OwnerOf, IsFree
<1>4. ParentInv' /\ EventInv'
  BY DEF TaskInv, ParentInv, ParentOK, EventInv, EventOK, IsComplete
<1> QED BY <1>1, <1>2, <1>3, <1>4 DEF TaskInv

(* The sidecar takes no part in a step of a turn.                          *)
LEMMA FrameTypes ==
  ASSUME SidecarTypes, Frame
  PROVE  SidecarTypes' /\ UNCHANGED <<scene, hist, batch, Events>>
BY DEF SidecarTypes, Frame, sidecarVars, Events

(* The events of a turn, and the one that is handled next.                 *)
LEMMA CurrentTyped ==
  ASSUME TurnTypes, SidecarTypes
  PROVE  /\ Events \in Seq(HistoryEvents)
         /\ HasEvent => Current \in HistoryEvents
<1>1. Events \in Seq(HistoryEvents)
  BY DEF SidecarTypes, Events
<1>2. ASSUME HasEvent PROVE Current \in HistoryEvents
  <2>1. CASE Draining
    <3>1. drain \in 1 .. Len(buffer) /\ buffer \in Seq(HeldEvents)
      BY <1>2, <2>1 DEF HasEvent, Draining, TurnTypes
    <3>2. Current = buffer[drain]
      BY <2>1 DEF Current
    <3> QED BY <3>1, <3>2 DEF HeldEvents
  <2>2. CASE ~Draining
    <3>1. pos + 1 \in 1 .. Len(Events)
      BY <1>1, <1>2, <2>2 DEF HasEvent, Draining, TurnTypes
    <3>2. Current = Events[pos + 1]
      BY <2>2 DEF Current
    <3> HIDE DEF Events
    <3> QED BY <1>1, <3>1, <3>2
  <2> QED BY <2>1, <2>2
<1> QED BY <1>1, <1>2

(* Taking an event keeps the positions within the lists.                   *)
LEMMA TakeTyped ==
  ASSUME TurnTypes, SidecarTypes, Frame, HasEvent, Take,
         UNCHANGED buffer \/ \E e \in HeldEvents : buffer' = Append(buffer, e),
         suspended' \in BOOLEAN
  PROVE  PosTypes'
<1>1. UNCHANGED Events /\ Events \in Seq(HistoryEvents)
  BY FrameTypes, CurrentTyped
<1>2. buffer' \in Seq(HeldEvents) /\ Len(buffer') >= Len(buffer)
  BY DEF TurnTypes
<1>3. Len(Events) \in Nat /\ Len(buffer) \in Nat /\ Len(buffer') \in Nat
  BY <1>1, <1>2 DEF TurnTypes
<1>4. pos' \in Nat /\ pos' <= Len(Events) /\ drain' \in Nat /\ drain' <= Len(buffer') + 1
  <2> HIDE DEF Events
  <2>1. CASE Draining
    BY <1>2, <1>3, <2>1 DEF Take, HasEvent, Draining, TurnTypes
  <2>2. CASE ~Draining
    BY <1>2, <1>3, <2>2 DEF Take, HasEvent, Draining, TurnTypes
  <2> QED BY <2>1, <2>2
<1> QED BY <1>1, <1>2, <1>4 DEF PosTypes

(* Ids stay unique when the pending tasks stay and the actions shrink or   *)
(* give way to the completion.                                             *)
LEMMA IdsKept ==
  ASSUME IdInv, ctx \in Contexts, ctx' \in Contexts, ctx'.ptasks = ctx.ptasks,
         ctx'.seq >= ctx.seq, \A a \in ctx'.acts : a \in ctx.acts \/ (a.id = ctx'.seq /\ a.id > 0)
  PROVE  IdInv' /\ Awaited(ctx') \subseteq Awaited(ctx)
<1>1. ctx.seq \in Nat /\ ctx'.seq \in Nat
  BY ContextTypes, Zenon
<1>2. \A x \in 1 .. ctx.seq : x \in 1 .. ctx'.seq
  BY <1>1
<1>3. \A a \in ctx'.acts : a.id \in Nat
  BY DEF Contexts, ActionSets, Actions
<1>4. ASSUME NEW a \in ctx'.acts PROVE a.id \in 1 .. ctx'.seq
  <2>1. CASE a \in ctx.acts
    BY <1>2, <2>1 DEF IdInv
  <2>2. CASE a.id = ctx'.seq /\ a.id > 0
    BY <1>1, <2>2
  <2> QED BY <2>1, <2>2
<1> QED BY <1>2, <1>4 DEF IdInv, Awaited

(* A step that changes neither tasks nor waiters.                          *)
LEMMA QuietStep ==
  ASSUME TurnInv, Frame, UNCHANGED <<tasks, notify, retry>>,
         mode # "idle", mode' \in {"event", "resume", "run", "done"},
         ctx' \in Contexts, SameEvents(ctx, ctx'), ctx'.env = ctx.env,
         ctx'.prev = ctx.prev \/ \E i \in DOMAIN ctx.env : ctx'.prev = ctx.env[i],
         IdInv', Awaited(ctx') \subseteq Awaited(ctx), PosTypes', FlowInv'
  PROVE  TurnInv'
<1>1. SidecarTypes' /\ UNCHANGED <<scene, hist, batch, Events>>
  BY FrameTypes DEF TurnInv
<1>2. TurnTypes'
  <2>1. tasks' \in [TaskId -> Task] /\ notify' \in OptTask /\ retry' \in [TaskId -> Retries]
    BY DEF TurnInv, TurnTypes
  <2> QED BY <2>1 DEF TurnTypes, PosTypes
<1>3. TaskInv'
  BY SameTasks DEF TurnInv, SameEvents
<1>4. EnvInv'
  BY DEF TurnInv, EnvInv, Held
<1>5. IdleInv'
  BY <1>1 DEF TurnInv, IdleInv
<1>6. NoWaiterOverlooked'
  BY DEF TurnInv, NoWaiterOverlooked, SameEvents
<1> QED BY <1>1, <1>2, <1>3, <1>4, <1>5, <1>6 DEF TurnInv

----------------------------------------------------------------------------
(* The steps that take an event and neither complete a task nor make one.  *)

(* A context of which only the status and the patches change.              *)
LEMMA EventFlow ==
  ASSUME TurnInv, Frame, AtEvent, mode' \in {"event", "done"}, notify' = NoTask,
         ctx'.gen = ctx.gen, ctx'.pc = ctx.pc, ctx'.ptasks = ctx.ptasks, ctx'.wait = ctx.wait
  PROVE  FlowInv'
BY FrameTypes DEF TurnInv, FlowInv, Instruction, prog, AtEvent

LEMMA BufferEventStep ==
  ASSUME TurnInv, Frame, BufferEvent
  PROVE  TurnInv'
<1>1. ctx' = ctx /\ ctx \in Contexts /\ mode = "event" /\ mode' = mode /\ notify = NoTask
      /\ UNCHANGED <<tasks, notify, retry, suspended>> /\ HasEvent /\ Take
  BY DEF TurnInv, TurnTypes, BufferEvent, AtEvent
<1>2. PosTypes'
  <2>1. Current \in HeldEvents /\ buffer' = Append(buffer, Current)
    BY <1>1, CurrentTyped DEF TurnInv, BufferEvent, HeldEvents
  <2> QED BY <1>1, <2>1, TakeTyped DEF TurnInv, TurnTypes
<1>3. IdInv' /\ Awaited(ctx') \subseteq Awaited(ctx)
  BY <1>1 DEF TurnInv, IdInv
<1>4. FlowInv'
  BY <1>1, EventFlow DEF AtEvent
<1> QED BY <1>1, <1>2, <1>3, <1>4, QuietStep DEF SameEvents

(* What every handler of an event knows.                                   *)
LEMMA OnTaken ==
  ASSUME TurnInv, Frame, NEW types, On(types), UNCHANGED buffer, suspended' \in BOOLEAN
  PROVE  /\ mode = "event" /\ notify = NoTask /\ ctx \in Contexts
         /\ Current \in HistoryEvents /\ Current.type \in types
         /\ PosTypes'
BY CurrentTyped, TakeTyped DEF TurnInv, TurnTypes, On, AtEvent

LEMMA OnWorkflowStartedStep ==
  ASSUME TurnInv, Frame, OnWorkflowStarted
  PROVE  TurnInv'
<1>1. /\ mode = "event" /\ notify = NoTask /\ ctx \in Contexts
      /\ Current \in HistoryEvents /\ PosTypes'
      /\ UNCHANGED <<tasks, notify, retry, mode>>
  BY OnTaken DEF OnWorkflowStarted, TurnInv, TurnTypes
<1>2. Current.patches \in SUBSET STRING
  BY <1>1 DEF HistoryEvents
<1>3. /\ ctx' \in Contexts /\ SameProgram(ctx, ctx') /\ SameIds(ctx, ctx')
      /\ SameEvents(ctx, ctx')
  <2> DEFINE H == ctx.hpatch \cup Current.patches
  <2>1. H \in SUBSET STRING
    BY <1>1, <1>2, ContextTypes
  <2>2. ctx' = [ctx EXCEPT !.hpatch = H]
    BY DEF OnWorkflowStarted
  <2> HIDE DEF H
  <2> QED BY <1>1, <2>1, <2>2 DEF Contexts, SameProgram, SameIds, SameEvents
<1>4. IdInv' /\ Awaited(ctx') \subseteq Awaited(ctx)
  BY <1>3 DEF TurnInv, IdInv, SameIds, Awaited
<1>5. FlowInv'
  BY <1>1, <1>3, EventFlow DEF AtEvent, SameProgram, SameIds, SameEvents
<1> QED BY <1>1, <1>3, <1>4, <1>5, QuietStep DEF SameProgram

LEMMA OnExecutionStartedStep ==
  ASSUME TurnInv, Frame, OnExecutionStarted
  PROVE  TurnInv'
<1>1. /\ mode = "event" /\ notify = NoTask /\ ctx \in Contexts /\ PosTypes'
      /\ UNCHANGED <<tasks, notify, retry, suspended>> /\ mode' = "run" /\ ~suspended
  <2>1. ~suspended
    BY CurrentTyped DEF OnExecutionStarted, On, Suspendable
  <2> QED BY <2>1, OnTaken DEF OnExecutionStarted, TurnInv, TurnTypes
<1>2. /\ ctx' \in Contexts /\ ctx'.gen = "live" /\ ctx'.prev = ctx.prev /\ ctx'.env = ctx.env
      /\ SameIds(ctx, ctx') /\ SameEvents(ctx, ctx')
  BY <1>1 DEF OnExecutionStarted, Contexts, SameIds, SameEvents
<1>3. IdInv' /\ Awaited(ctx') \subseteq Awaited(ctx)
  BY <1>2 DEF TurnInv, IdInv, SameIds, Awaited
<1>4. FlowInv'
  BY <1>1, <1>2 DEF FlowInv
<1> QED BY <1>1, <1>2, <1>3, <1>4, QuietStep

(* The ids up to a number.                                                 *)
LEMMA NatUp == \A x \in Nat : x + 1 > 0
OBVIOUS

LEMMA NatSpan ==
  \A m, n \in Nat : /\ n >= m => \A x \in 1 .. m : x \in 1 .. n
                     /\ n > 0 => n \in 1 .. n
OBVIOUS

(* A turn that fails.                                                      *)
LEMMA FailFields ==
  ASSUME ctx \in Contexts, IdInv, NEW c \in Contexts, SameIds(ctx, c), SameEvents(ctx, c),
         NEW why \in Reasons, FailTurn(c, why)
  PROVE  /\ ctx' \in Contexts /\ mode' = "done" /\ SameProgram(c, ctx')
         /\ SameEvents(ctx, ctx') /\ ctx'.ptasks = ctx.ptasks
         /\ IdInv' /\ Awaited(ctx') \subseteq Awaited(ctx)
<1>1. /\ ctx' \in Contexts /\ mode' = "done" /\ SameProgram(c, ctx')
      /\ SameEvents(c, ctx') /\ ctx'.ptasks = c.ptasks /\ ctx'.seq >= c.seq
      /\ IF c.status = "running"
         THEN ctx'.acts = {Action(ctx'.seq, "complete", "failed")} /\ ctx'.seq = c.seq + 1
         ELSE ctx'.acts = c.acts /\ ctx'.seq = c.seq
  BY SetFailedFields DEF FailTurn
<1>2. SameEvents(ctx, ctx') /\ ctx'.ptasks = ctx.ptasks /\ ctx'.seq >= ctx.seq
  BY <1>1 DEF SameEvents, SameIds
<1>3. ctx.seq \in Nat
  BY ContextTypes, Zenon
<1>4. \A a \in ctx'.acts : a \in ctx.acts \/ (a.id = ctx'.seq /\ a.id > 0)
  <2>1. CASE c.status = "running"
    <3>1. ctx'.acts = {Action(ctx'.seq, "complete", "failed")}
      BY <1>1, <2>1
    <3>2. ctx'.seq = c.seq + 1 /\ c.seq \in Nat
      BY <1>1, <1>3, <2>1 DEF SameIds
    <3>3. ctx'.seq > 0
      BY <3>2, NatUp
    <3>4. Action(ctx'.seq, "complete", "failed").id = ctx'.seq
      BY DEF Action
    <3> QED BY <3>1, <3>3, <3>4
  <2>2. CASE c.status # "running"
    BY <1>1, <2>2 DEF SameIds
  <2> QED BY <2>1, <2>2
<1>5. ctx' \in Contexts
  BY <1>1
<1>6. IdInv' /\ Awaited(ctx') \subseteq Awaited(ctx)
  BY <1>2, <1>4, <1>5, IdsKept
<1> QED BY <1>1, <1>2, <1>6

LEMMA OnUnexpectedStep ==
  ASSUME TurnInv, Frame, OnUnexpected
  PROVE  TurnInv'
<1>1. /\ mode = "event" /\ notify = NoTask /\ ctx \in Contexts /\ PosTypes'
      /\ UNCHANGED <<tasks, notify, retry, mode, ctx>>
  BY OnTaken DEF OnUnexpected, TurnInv, TurnTypes
<1>2. IdInv' /\ Awaited(ctx') \subseteq Awaited(ctx)
  BY <1>1 DEF TurnInv, IdInv
<1>3. FlowInv'
  BY <1>1, EventFlow DEF AtEvent
<1> QED BY <1>1, <1>2, <1>3, QuietStep DEF SameEvents

LEMMA OnSuspendedStep ==
  ASSUME TurnInv, Frame, OnSuspended
  PROVE  TurnInv'
<1>1. /\ mode = "event" /\ notify = NoTask /\ ctx \in Contexts /\ PosTypes'
      /\ UNCHANGED <<tasks, notify, retry, mode, ctx>>
  BY OnTaken DEF OnSuspended, TurnInv, TurnTypes
<1>2. IdInv' /\ Awaited(ctx') \subseteq Awaited(ctx)
  BY <1>1 DEF TurnInv, IdInv
<1>3. FlowInv'
  BY <1>1, EventFlow DEF AtEvent
<1> QED BY <1>1, <1>2, <1>3, QuietStep DEF SameEvents

LEMMA OnResumedStep ==
  ASSUME TurnInv, Frame, OnResumed
  PROVE  TurnInv'
<1>1. /\ mode = "event" /\ notify = NoTask /\ ctx \in Contexts
      /\ AtEvent /\ HasEvent /\ UNCHANGED <<tasks, notify, retry, buffer>>
  BY DEF OnResumed, TurnInv, TurnTypes, AtEvent
<1>2. CASE suspended
  <2>1. suspended' = FALSE /\ drain' = 1 /\ pos' = pos + 1 /\ UNCHANGED <<ctx, mode>>
    BY <1>2 DEF OnResumed
  <2>2. PosTypes'
    <3>1. UNCHANGED Events /\ Events \in Seq(HistoryEvents)
      BY FrameTypes, CurrentTyped DEF TurnInv
    <3>2. Len(Events) \in Nat /\ Len(buffer) \in Nat /\ pos \in Nat /\ drain \in Nat
      BY <3>1 DEF TurnInv, TurnTypes
    <3>3. pos + 1 <= Len(Events)
      <4>1. CASE Draining
        <5>1. drain \in DOMAIN buffer
          BY <1>1, <3>2, <4>1 DEF HasEvent, Draining
        <5>2. buffer[drain] \in HeldEvents
          BY <5>1 DEF TurnInv, TurnTypes
        <5>3. buffer[drain].type = "executionResumed"
          BY <4>1 DEF OnResumed, Current
        <5> QED BY <5>2, <5>3 DEF HeldEvents, Suspendable
      <4>2. CASE ~Draining
        <5>1. pos < Len(Events)
          BY <1>1, <4>2 DEF HasEvent
        <5> QED BY <3>2, <5>1
      <4> QED BY <4>1, <4>2
    <3>4. buffer' \in Seq(HeldEvents) /\ Len(buffer') = Len(buffer)
      BY <1>1 DEF TurnInv, TurnTypes
    <3>5. pos' \in Nat /\ pos' <= Len(Events') /\ drain' \in Nat /\ drain' <= Len(buffer') + 1
      BY <2>1, <3>1, <3>2, <3>3, <3>4
    <3>6. suspended' \in BOOLEAN
      BY <2>1
    <3> QED BY <3>4, <3>5, <3>6 DEF PosTypes
  <2>3. IdInv' /\ Awaited(ctx') \subseteq Awaited(ctx)
    BY <2>1 DEF TurnInv, IdInv
  <2>4. FlowInv'
    BY <1>1, <2>1, EventFlow
  <2> QED BY <1>1, <2>1, <2>2, <2>3, <2>4, QuietStep DEF SameEvents
<1>3. CASE ~suspended
  <2>1. FailTurn(ctx, "unknown event") /\ Take /\ UNCHANGED suspended
    BY <1>3 DEF OnResumed
  <2>2. PosTypes'
    BY <1>1, <2>1, TakeTyped DEF TurnInv, TurnTypes
  <2>3. /\ ctx' \in Contexts /\ mode' = "done" /\ SameProgram(ctx, ctx')
        /\ SameEvents(ctx, ctx') /\ ctx'.ptasks = ctx.ptasks
        /\ IdInv' /\ Awaited(ctx') \subseteq Awaited(ctx)
    BY <1>1, <2>1, FailFields DEF Reasons, TurnInv, SameIds, SameEvents
  <2>4. FlowInv'
    BY <1>1, <2>3, EventFlow DEF SameProgram, SameEvents
  <2> QED BY <1>1, <2>2, <2>3, <2>4, QuietStep DEF SameProgram
<1> QED BY <1>2, <1>3

(* A turn whose workflow completes.                                        *)
LEMMA CompleteFields ==
  ASSUME ctx \in Contexts, IdInv, NEW c \in Contexts, SameIds(ctx, c), SameEvents(ctx, c),
         NEW st \in Statuses, ctx' = SetComplete(c, st)
  PROVE  /\ ctx' \in Contexts /\ SameProgram(c, ctx')
         /\ SameEvents(ctx, ctx') /\ ctx'.ptasks = ctx.ptasks
         /\ IdInv' /\ Awaited(ctx') \subseteq Awaited(ctx)
<1>1. /\ ctx' \in Contexts /\ SameProgram(c, ctx')
      /\ SameEvents(c, ctx') /\ ctx'.ptasks = c.ptasks /\ ctx'.seq >= c.seq
      /\ IF c.status = "running"
         THEN ctx'.acts = {Action(ctx'.seq, "complete", st)} /\ ctx'.seq = c.seq + 1
         ELSE ctx' = c
  BY SetCompleteFields
<1>2. SameEvents(ctx, ctx') /\ ctx'.ptasks = ctx.ptasks /\ ctx'.seq >= ctx.seq
  BY <1>1 DEF SameEvents, SameIds
<1>3. ctx.seq \in Nat
  BY ContextTypes, Zenon
<1>4. \A a \in ctx'.acts : a \in ctx.acts \/ (a.id = ctx'.seq /\ a.id > 0)
  <2>1. CASE c.status = "running"
    <3>1. ctx'.acts = {Action(ctx'.seq, "complete", st)}
      BY <1>1, <2>1
    <3>2. ctx'.seq = c.seq + 1 /\ c.seq \in Nat
      BY <1>1, <1>3, <2>1 DEF SameIds
    <3>3. ctx'.seq > 0
      BY <3>2, NatUp
    <3>4. Action(ctx'.seq, "complete", st).id = ctx'.seq
      BY DEF Action
    <3> QED BY <3>1, <3>3, <3>4
  <2>2. CASE c.status # "running"
    BY <1>1, <2>2 DEF SameIds
  <2> QED BY <2>1, <2>2
<1>5. ctx' \in Contexts
  BY <1>1
<1>6. IdInv' /\ Awaited(ctx') \subseteq Awaited(ctx)
  BY <1>2, <1>4, <1>5, IdsKept
<1> QED BY <1>1, <1>2, <1>6

LEMMA OnTerminatedStep ==
  ASSUME TurnInv, Frame, OnTerminated
  PROVE  TurnInv'
<1>1. /\ mode = "event" /\ notify = NoTask /\ ctx \in Contexts /\ PosTypes'
      /\ UNCHANGED <<tasks, notify, retry, mode>>
  BY OnTaken DEF OnTerminated, TurnInv, TurnTypes
<1>2. /\ ctx' \in Contexts /\ SameProgram(ctx, ctx')
      /\ SameEvents(ctx, ctx') /\ ctx'.ptasks = ctx.ptasks
      /\ IdInv' /\ Awaited(ctx') \subseteq Awaited(ctx)
  <2>1. ctx' = SetComplete(ctx, "terminated") /\ "terminated" \in Statuses
    BY DEF OnTerminated, Statuses
  <2>2. SameIds(ctx, ctx) /\ SameEvents(ctx, ctx) /\ IdInv
    BY DEF SameIds, SameEvents, TurnInv
  <2> QED BY <1>1, <2>1, <2>2, CompleteFields
<1>3. FlowInv'
  BY <1>1, <1>2, EventFlow DEF AtEvent, SameProgram, SameEvents
<1> QED BY <1>1, <1>2, <1>3, QuietStep DEF SameProgram

LEMMA EndDrainStep ==
  ASSUME TurnInv, Frame, EndDrain
  PROVE  TurnInv'
<1>1. /\ mode = "event" /\ notify = NoTask /\ ctx \in Contexts
      /\ UNCHANGED <<tasks, notify, retry, mode, ctx, pos, suspended>>
      /\ buffer' = <<>> /\ drain' = 0
  BY DEF EndDrain, AtEvent, TurnInv, TurnTypes
<1>2. PosTypes'
  <2>1. pos' \in Nat /\ pos' <= Len(Events') /\ suspended' \in BOOLEAN
    BY <1>1, FrameTypes DEF TurnInv, TurnTypes
  <2>2. buffer' \in Seq(HeldEvents) /\ drain' \in Nat /\ drain' <= Len(buffer') + 1
    BY <1>1
  <2> QED BY <2>1, <2>2 DEF PosTypes
<1>3. IdInv' /\ Awaited(ctx') \subseteq Awaited(ctx)
  BY <1>1 DEF TurnInv, IdInv
<1>4. FlowInv'
  BY <1>1, EventFlow DEF AtEvent
<1> QED BY <1>1, <1>2, <1>3, <1>4, QuietStep DEF SameEvents

(* A step that takes no event.                                             *)
LEMMA PosKept ==
  ASSUME TurnInv, Frame, UNCHANGED <<pos, suspended, buffer, drain>>
  PROVE  PosTypes'
BY FrameTypes DEF TurnInv, TurnTypes, PosTypes

LEMMA EndTurnStep ==
  ASSUME TurnInv, Frame, EndTurn
  PROVE  TurnInv'
<1>1. /\ AtEvent /\ mode = "event" /\ notify = NoTask /\ ctx \in Contexts /\ PosTypes'
      /\ UNCHANGED <<tasks, notify, retry, ctx>> /\ mode' = "done"
  BY PosKept DEF EndTurn, AtEvent, TurnInv, TurnTypes
<1>2. IdInv' /\ Awaited(ctx') \subseteq Awaited(ctx)
  BY <1>1 DEF TurnInv, IdInv
<1>3. FlowInv'
  BY <1>1, EventFlow
<1> QED BY <1>1, <1>2, <1>3, QuietStep DEF SameEvents

----------------------------------------------------------------------------
(* The generator: steps that make no task.                                 *)

(* The instructions of the program of the scene.                           *)
LEMMA InstructionTyped ==
  ASSUME SidecarTypes
  PROVE  Instruction \in Instructions
<1>1. prog \in Seq(Instructions)
  BY OrchestratorAssumption DEF SidecarTypes, prog
<1>2. Return \in Instructions
  BY DEF Return, Instructions
<1> HIDE DEF prog
<1> QED BY <1>1, <1>2 DEF Instruction

LEMMA StayYieldedStep ==
  ASSUME TurnInv, Frame, StayYielded
  PROVE  TurnInv'
<1>1. /\ mode = "resume" /\ notify = NoTask /\ ctx \in Contexts /\ PosTypes'
      /\ UNCHANGED <<tasks, notify, retry, ctx, suspended>> /\ mode' = "event"
  BY PosKept DEF StayYielded, TurnInv, TurnTypes
<1>2. IdInv' /\ Awaited(ctx') \subseteq Awaited(ctx)
  BY <1>1 DEF TurnInv, IdInv
<1>3. FlowInv'
  BY <1>1, FrameTypes DEF TurnInv, FlowInv, Instruction, prog
<1> QED BY <1>1, <1>2, <1>3, QuietStep DEF SameEvents

(* A generator that ended, after which the turn goes on or is over.        *)
LEMMA DoneFlow ==
  ASSUME TurnInv, Frame, mode \in {"resume", "run"}, mode' \in {"event", "done"},
         notify = NoTask, UNCHANGED <<notify, suspended>>,
         ctx.gen # "none", ctx'.gen = "done"
  PROVE  FlowInv'
BY DEF TurnInv, FlowInv

(* A generator that runs on.                                               *)
LEMMA RunFlow ==
  ASSUME TurnInv, mode \in {"resume", "run"}, mode' = "run",
         notify = NoTask, UNCHANGED <<notify, suspended>>,
         ctx.gen # "none", ctx'.gen # "none"
  PROVE  FlowInv'
BY DEF TurnInv, FlowInv

(* The program runs only after it was started, with no completion under    *)
(* way, and never while it is suspended.                                   *)
LEMMA Running ==
  ASSUME TurnInv, mode \in {"resume", "run"}
  PROVE  /\ ctx.gen # "none" /\ ~suspended /\ mode # "idle" /\ ctx \in Contexts
         /\ mode = "run" => notify = NoTask
BY DEF TurnInv, FlowInv, TurnTypes

LEMMA ResumeFinishedStep ==
  ASSUME TurnInv, Frame, ResumeFinished
  PROVE  TurnInv'
<1>1. /\ mode = "resume" /\ notify = NoTask /\ ctx \in Contexts /\ PosTypes'
      /\ UNCHANGED <<tasks, notify, retry, suspended>> /\ ctx.gen = "done"
  BY PosKept DEF ResumeFinished, Returns, TurnInv, TurnTypes
<1>2. /\ ctx' \in Contexts /\ SameProgram(ctx, ctx') /\ mode' \in {"event", "done"}
      /\ SameEvents(ctx, ctx') /\ IdInv' /\ Awaited(ctx') \subseteq Awaited(ctx)
  <2>1. CASE IsFailed(ctx.prev)
    BY <1>1, <2>1, FailFields DEF ResumeFinished, Reasons, TurnInv, SameIds, SameEvents
  <2>2. CASE ~IsFailed(ctx.prev)
    <3>1. UNCHANGED ctx /\ mode' = "event"
      BY <2>2 DEF ResumeFinished
    <3> QED BY <1>1, <3>1 DEF SameProgram, SameEvents, TurnInv, IdInv
  <2> QED BY <2>1, <2>2
<1>3. FlowInv'
  <2>1. ctx.gen # "none" /\ ctx'.gen = "done"
    BY <1>1, <1>2 DEF SameProgram
  <2> QED BY <1>1, <1>2, <2>1, DoneFlow
<1> QED BY <1>1, <1>2, <1>3, QuietStep DEF SameProgram

LEMMA ResumeGeneratorStep ==
  ASSUME TurnInv, Frame, ResumeGenerator
  PROVE  TurnInv'
<1> DEFINE t == ctx.prev
           S == Append(ctx.seen, <<tasks[t].out, tasks[t].val>>)
           c == [ctx EXCEPT !.seen = S]
           handler == Instruction.handler
<1>1. /\ mode = "resume" /\ notify = NoTask /\ ctx \in Contexts /\ PosTypes'
      /\ UNCHANGED <<tasks, notify, retry, suspended>> /\ ctx.gen = "live"
  BY PosKept DEF ResumeGenerator, Returns, TurnInv, TurnTypes
<1>2. S \in Seq(Outcomes \X Nat)
  <2>1. t \in TaskId
    BY <1>1, ContextTypes DEF ResumeGenerator, Returns, Ready, OptTask
  <2>2. tasks[t].out \in Outcomes /\ tasks[t].val \in Nat
    BY <2>1 DEF TurnInv, TurnTypes, Task
  <2>3. ctx.seen \in Seq(Outcomes \X Nat)
    BY <1>1, ContextTypes, Zenon
  <2> QED BY <2>2, <2>3
<1>3. handler \in Nat
  <2>1. Instruction \in Instructions /\ Instruction.op = "yield"
    BY <1>1, InstructionTyped DEF TurnInv, FlowInv
  <2> QED BY <2>1 DEF Instructions
<1>4. c = [ctx EXCEPT !.seen = S]
  OBVIOUS
<1> HIDE DEF S, c
<1>5. c \in Contexts /\ SameIds(ctx, c) /\ SameEvents(ctx, c) /\ c.gen = "live"
      /\ c.env = ctx.env /\ c.prev = ctx.prev /\ c.pc = ctx.pc
  BY <1>1, <1>2, <1>4 DEF Contexts, SameIds, SameEvents
<1>6. CASE IsFailed(t) /\ handler = 0
  <2> DEFINE d == [c EXCEPT !.gen = "done"]
  <2>1. FailTurn(d, "exception")
    BY <1>6 DEF ResumeGenerator, c, S
  <2>2. d \in Contexts /\ SameIds(ctx, d) /\ SameEvents(ctx, d) /\ d.gen = "done"
        /\ d.env = ctx.env /\ d.prev = ctx.prev
    BY <1>5 DEF Contexts, SameIds, SameEvents
  <2> HIDE DEF d
  <2>3. IdInv
    BY DEF TurnInv
  <2>4. /\ ctx' \in Contexts /\ mode' = "done" /\ SameProgram(d, ctx')
        /\ SameEvents(ctx, ctx') /\ IdInv' /\ Awaited(ctx') \subseteq Awaited(ctx)
    BY <1>1, <2>1, <2>2, <2>3, FailFields DEF Reasons
  <2>5. ctx'.gen = "done" /\ ctx'.env = ctx.env /\ ctx'.prev = ctx.prev
    BY <2>2, <2>4 DEF SameProgram
  <2>6. FlowInv'
    BY <1>1, <2>4, <2>5, DoneFlow
  <2> QED BY <1>1, <2>4, <2>5, <2>6, QuietStep
<1>7. CASE ~(IsFailed(t) /\ handler = 0)
  <2>1. ctx' = [c EXCEPT !.pc = IF IsFailed(t) THEN handler ELSE c.pc + 1] /\ mode' = "run"
    BY <1>7 DEF ResumeGenerator, c, S
  <2>2. c.pc + 1 \in Nat
    <3>1. c.pc \in Nat
      BY <1>5, ContextTypes, Zenon
    <3> QED BY <3>1
  <2>3. PICK q \in Nat : ctx' = [c EXCEPT !.pc = q]
    BY <1>3, <2>1, <2>2
  <2>4. /\ ctx' \in Contexts /\ SameIds(ctx, ctx') /\ SameEvents(ctx, ctx') /\ ctx'.gen = "live"
        /\ ctx'.env = ctx.env /\ ctx'.prev = ctx.prev
    BY <1>5, <2>3 DEF Contexts, SameIds, SameEvents
  <2>5. IdInv' /\ Awaited(ctx') \subseteq Awaited(ctx)
    BY <2>4 DEF TurnInv, IdInv, SameIds, Awaited
  <2>6. FlowInv'
    BY <1>1, <2>1, <2>4, RunFlow
  <2> QED BY <1>1, <2>1, <2>4, <2>5, <2>6, QuietStep
<1> QED BY <1>6, <1>7

(* An exception of the program.                                            *)
LEMMA RaisesStep ==
  ASSUME TurnInv, Frame, mode = "run", Raises,
         UNCHANGED <<tasks, notify, retry, pos, suspended, buffer, drain>>
  PROVE  TurnInv'
<1> DEFINE d == [ctx EXCEPT !.gen = "done"]
<1>1. notify = NoTask /\ ctx \in Contexts /\ PosTypes' /\ ctx.gen # "none" /\ IdInv
  BY PosKept, Running DEF TurnInv
<1>2. FailTurn(d, "exception")
  BY DEF Raises
<1>3. d \in Contexts /\ SameIds(ctx, d) /\ SameEvents(ctx, d) /\ d.gen = "done"
      /\ d.env = ctx.env /\ d.prev = ctx.prev
  BY <1>1 DEF Contexts, SameIds, SameEvents
<1> HIDE DEF d
<1>4. /\ ctx' \in Contexts /\ mode' = "done" /\ SameProgram(d, ctx')
      /\ SameEvents(ctx, ctx') /\ IdInv' /\ Awaited(ctx') \subseteq Awaited(ctx)
  BY <1>1, <1>2, <1>3, FailFields DEF Reasons
<1>5. ctx'.gen = "done" /\ ctx'.env = ctx.env /\ ctx'.prev = ctx.prev
  BY <1>3, <1>4 DEF SameProgram
<1>6. FlowInv'
  BY <1>1, <1>4, <1>5, DoneFlow
<1> QED BY <1>1, <1>4, <1>5, <1>6, QuietStep

LEMMA RunYieldStep ==
  ASSUME TurnInv, Frame, RunYield
  PROVE  TurnInv'
<1>1. /\ mode = "run" /\ Instruction.op = "yield" /\ notify = NoTask /\ ctx \in Contexts
      /\ PosTypes' /\ UNCHANGED <<tasks, notify, retry, suspended>> /\ ~suspended
      /\ ctx.gen # "none"
  BY PosKept, Running DEF RunYield, AtInstruction
<1>2. CASE Assigns({Instruction.of})
  <2> DEFINE r == Instruction.of
  <2>1. r \in DOMAIN ctx.env /\ ctx' = [ctx EXCEPT !.prev = ctx.env[r]] /\ mode' = "resume"
    BY <1>2 DEF RunYield, Assigns
  <2>2. ctx.env[r] \in OptTask
    <3>1. ctx.env \in Seq(TaskId)
      BY <1>1, ContextTypes, Zenon
    <3> QED BY <2>1, <3>1 DEF OptTask
  <2>3. PICK x \in OptTask : x = ctx.env[r] /\ ctx' = [ctx EXCEPT !.prev = x]
    BY <2>1, <2>2
  <2>4. /\ ctx' \in Contexts /\ ctx'.gen = ctx.gen /\ ctx'.pc = ctx.pc /\ ctx'.env = ctx.env
        /\ SameIds(ctx, ctx') /\ SameEvents(ctx, ctx') /\ ctx'.prev = ctx.env[r]
    BY <1>1, <2>3, ZenonT(60) DEF Contexts, SameIds, SameEvents
  <2>5. IdInv' /\ Awaited(ctx') \subseteq Awaited(ctx)
    BY <2>4 DEF TurnInv, IdInv, SameIds, Awaited
  <2>6. FlowInv'
    <3>1. scene' = scene /\ Instruction' = Instruction
      BY <2>4 DEF Frame, Instruction, prog
    <3> QED BY <1>1, <2>1, <2>4, <3>1 DEF FlowInv
  <2> QED BY <1>1, <2>1, <2>4, <2>5, <2>6, QuietStep
<1>3. CASE ~Assigns({Instruction.of})
  <2>1. Raises /\ UNCHANGED <<tasks, notify, retry, pos, suspended, buffer, drain>>
    BY <1>3 DEF RunYield
  <2> QED BY <1>1, <2>1, RaisesStep
<1> QED BY <1>2, <1>3

(* A step of the program that changes no task and no id.                   *)
LEMMA RunQuiet ==
  ASSUME TurnInv, Frame, mode = "run", mode' = "run", ctx' \in Contexts,
         UNCHANGED <<tasks, notify, retry, pos, suspended, buffer, drain>>,
         SameEvents(ctx, ctx'), ctx'.gen = ctx.gen, ctx'.env = ctx.env, ctx'.prev = ctx.prev,
         ctx'.ptasks = ctx.ptasks, ctx'.seq = ctx.seq, ctx'.acts \subseteq ctx.acts
  PROVE  TurnInv'
<1>1. ctx.gen # "none" /\ PosTypes' /\ notify = NoTask
  BY PosKept, Running
<1>2. IdInv' /\ Awaited(ctx') \subseteq Awaited(ctx)
  BY DEF TurnInv, IdInv, Awaited
<1>3. FlowInv'
  BY <1>1, RunFlow
<1> QED BY <1>1, <1>2, <1>3, QuietStep

LEMMA RunIfPatchedStep ==
  ASSUME TurnInv, Frame, RunIfPatched
  PROVE  TurnInv'
<1> DEFINE p == Instruction.name
<1>1. /\ mode = "run" /\ mode' = "run" /\ ctx \in Contexts
      /\ UNCHANGED <<tasks, notify, retry, pos, suspended, buffer, drain>>
  BY Running DEF RunIfPatched, AtInstruction
<1>2. p \in STRING /\ Instruction.otherwise \in Nat
  <2>1. Instruction \in Instructions /\ Instruction.op = "patched"
    BY InstructionTyped DEF RunIfPatched, AtInstruction, TurnInv
  <2> QED BY <2>1 DEF Instructions
<1>3. ctx.pc + 1 \in Nat
  <2>1. ctx.pc \in Nat
    BY <1>1, ContextTypes, Zenon
  <2> QED BY <2>1
<1>4. PICK q \in Nat, A \in SUBSET STRING, E \in SUBSET STRING, U \in SUBSET STRING :
        ctx' = [ctx EXCEPT !.pc = q, !.apatch = A, !.epatch = E, !.unpatch = U]
  <2>1. /\ ctx.apatch \in SUBSET STRING /\ ctx.epatch \in SUBSET STRING
        /\ ctx.unpatch \in SUBSET STRING
    BY <1>1, ContextTypes, Zenon
  <2>2. /\ ctx.apatch \cup {p} \in SUBSET STRING /\ ctx.epatch \cup {p} \in SUBSET STRING
        /\ ctx.unpatch \cup {p} \in SUBSET STRING
    BY <1>2, <2>1
  <2>3. CASE sdk = "old"
    <3>1. ctx' = [ctx EXCEPT !.pc = Instruction.otherwise]
      BY <2>3 DEF RunIfPatched
    <3>2. ctx' = [ctx EXCEPT !.pc = Instruction.otherwise, !.apatch = ctx.apatch,
                             !.epatch = ctx.epatch, !.unpatch = ctx.unpatch]
      BY <1>1, <3>1 DEF Contexts
    <3> QED BY <1>2, <2>1, <3>2
  <2>4. CASE sdk # "old" /\ IsPatched(ctx, p)
    <3>1. ctx' = [ctx EXCEPT !.pc = ctx.pc + 1, !.apatch = ctx.apatch \cup {p},
                             !.epatch = ctx.epatch \cup {p}]
      BY <2>4 DEF RunIfPatched
    <3>2. ctx' = [ctx EXCEPT !.pc = ctx.pc + 1, !.apatch = ctx.apatch \cup {p},
                             !.epatch = ctx.epatch \cup {p}, !.unpatch = ctx.unpatch]
      BY <1>1, <3>1 DEF Contexts
    <3> QED BY <1>3, <2>1, <2>2, <3>2
  <2>5. CASE sdk # "old" /\ ~IsPatched(ctx, p)
    <3>1. ctx' = [ctx EXCEPT !.pc = Instruction.otherwise, !.unpatch = ctx.unpatch \cup {p}]
      BY <2>5 DEF RunIfPatched
    <3>2. ctx' = [ctx EXCEPT !.pc = Instruction.otherwise, !.apatch = ctx.apatch,
                             !.epatch = ctx.epatch, !.unpatch = ctx.unpatch \cup {p}]
      BY <1>1, <3>1 DEF Contexts
    <3> QED BY <1>2, <2>1, <2>2, <3>2
  <2> QED BY <2>3, <2>4, <2>5
<1>5. /\ ctx' \in Contexts /\ SameIds(ctx, ctx') /\ SameEvents(ctx, ctx')
      /\ ctx'.gen = ctx.gen /\ ctx'.env = ctx.env /\ ctx'.prev = ctx.prev
  BY <1>1, <1>4 DEF Contexts, SameIds, SameEvents
<1> QED BY <1>1, <1>5, RunQuiet DEF SameIds

LEMMA RunContinueAsNewStep ==
  ASSUME TurnInv, Frame, RunContinueAsNew
  PROVE  TurnInv'
<1>1. /\ mode = "run" /\ mode' = "run" /\ ctx \in Contexts
      /\ UNCHANGED <<tasks, notify, retry, pos, suspended, buffer, drain>>
  BY Running DEF RunContinueAsNew, AtInstruction
<1>2. Instruction.save \in BOOLEAN
  <2>1. Instruction \in Instructions /\ Instruction.op = "continue"
    BY InstructionTyped DEF RunContinueAsNew, AtInstruction, TurnInv
  <2> QED BY <2>1 DEF Instructions
<1>3. ctx.pc + 1 \in Nat
  <2>1. ctx.pc \in Nat
    BY <1>1, ContextTypes, Zenon
  <2> QED BY <2>1
<1>4. PICK q \in Nat, A \in SUBSET ctx.acts, st \in Statuses, v \in BOOLEAN :
        ctx' = [ctx EXCEPT !.pc = q, !.status = st, !.acts = A, !.save = v]
  <2>1. ctx.status \in Statuses /\ ctx.save \in BOOLEAN /\ "continued" \in Statuses
    BY <1>1, ContextTypes DEF Statuses
  <2>2. CASE ctx.status # "running"
    <3>1. ctx' = [ctx EXCEPT !.pc = ctx.pc + 1, !.status = ctx.status, !.acts = ctx.acts,
                             !.save = ctx.save]
      BY <1>1, <2>2 DEF RunContinueAsNew, SetContinuedAsNew, Contexts
    <3> QED BY <1>3, <2>1, <3>1
  <2>3. CASE ctx.status = "running"
    <3>1. ctx' = [ctx EXCEPT !.pc = ctx.pc + 1, !.status = "continued", !.acts = {},
                             !.save = Instruction.save]
      BY <1>1, <2>3 DEF RunContinueAsNew, SetContinuedAsNew, Contexts
    <3> QED BY <1>2, <1>3, <2>1, <3>1
  <2> QED BY <2>2, <2>3
<1>5. A \in ActionSets
  <2>1. ctx.acts \in ActionSets
    BY <1>1, ContextTypes
  <2> QED BY <2>1, ActionSetFacts
<1>6. /\ ctx' \in Contexts /\ ctx'.seq = ctx.seq /\ ctx'.ptasks = ctx.ptasks
      /\ ctx'.acts = A /\ SameEvents(ctx, ctx')
      /\ ctx'.gen = ctx.gen /\ ctx'.env = ctx.env /\ ctx'.prev = ctx.prev
  BY <1>1, <1>4, <1>5 DEF Contexts, SameEvents
<1> QED BY <1>1, <1>4, <1>6, RunQuiet

LEMMA RunReturnStep ==
  ASSUME TurnInv, Frame, RunReturn
  PROVE  TurnInv'
<1> DEFINE d == [ctx EXCEPT !.gen = "done"]
<1>1. /\ mode = "run" /\ mode' = "event" /\ ctx \in Contexts
      /\ UNCHANGED <<tasks, notify, retry, suspended>>
      /\ notify = NoTask /\ PosTypes' /\ ctx.gen # "none" /\ IdInv
  BY PosKept, Running DEF RunReturn, AtInstruction, TurnInv
<1>2. ctx' = SetComplete(d, "completed") /\ "completed" \in Statuses
  BY DEF RunReturn, Statuses
<1>3. d \in Contexts /\ SameIds(ctx, d) /\ SameEvents(ctx, d) /\ d.gen = "done"
      /\ d.env = ctx.env /\ d.prev = ctx.prev
  BY <1>1 DEF Contexts, SameIds, SameEvents
<1> HIDE DEF d
<1>4. /\ ctx' \in Contexts /\ SameProgram(d, ctx')
      /\ SameEvents(ctx, ctx') /\ IdInv' /\ Awaited(ctx') \subseteq Awaited(ctx)
  BY <1>1, <1>2, <1>3, CompleteFields
<1>5. ctx'.gen = "done" /\ ctx'.env = ctx.env /\ ctx'.prev = ctx.prev
  BY <1>3, <1>4 DEF SameProgram
<1>6. FlowInv'
  BY <1>1, <1>4, <1>5, DoneFlow
<1> QED BY <1>1, <1>4, <1>5, <1>6, QuietStep

----------------------------------------------------------------------------
(* Confirmations.                                                          *)

Ids(c) ==
  /\ \A a \in c.acts : a.id \in 1 .. c.seq
  /\ \A p \in c.ptasks : p.id \in 1 .. c.seq
  /\ \A p, q \in c.ptasks : p.id = q.id \/ p.task = q.task => p = q

(* A failed turn schedules nothing, or what it did before.                 *)
LEMMA FailedIds ==
  ASSUME NEW c \in Contexts, Ids(c),
         NEW why \in Reasons
  PROVE  Ids(SetFailed(c, why))
<1> DEFINE d == SetFailed(c, why)
<1>1. /\ d.ptasks = c.ptasks /\ d.seq >= c.seq /\ d \in Contexts
      /\ IF c.status = "running"
         THEN d.acts = {Action(d.seq, "complete", "failed")} /\ d.seq = c.seq + 1
         ELSE d.acts = c.acts /\ d.seq = c.seq
  BY SetFailedFields
<1> HIDE DEF d
<1>2. c.seq \in Nat /\ d.seq \in Nat
  BY <1>1, ContextTypes
<1>3. \A x \in 1 .. c.seq : x \in 1 .. d.seq
  BY <1>1, <1>2, NatSpan
<1>4. \A a \in d.acts : a.id \in 1 .. d.seq
  <2>1. CASE c.status = "running"
    <3>1. d.acts = {Action(d.seq, "complete", "failed")}
      BY <1>1, <2>1
    <3>2. d.seq = c.seq + 1
      BY <1>1, <2>1
    <3>3. d.seq > 0
      BY <1>2, <3>2, NatUp
    <3>4. d.seq \in 1 .. d.seq
      BY <1>2, <3>3, NatSpan
    <3>5. Action(d.seq, "complete", "failed").id = d.seq
      BY DEF Action
    <3> QED BY <3>1, <3>4, <3>5
  <2>2. CASE c.status # "running"
    BY <1>1, <2>2 DEF Ids
  <2> QED BY <2>1, <2>2
<1>5. Ids(d)
  BY <1>1, <1>3, <1>4 DEF Ids
<1> QED BY <1>5 DEF d

(* A dropped optional timer gives its id to the next one: the ids above it *)
(* go down by one, and stay unique.                                        *)
LEMMA DropOptionalFields ==
  ASSUME NEW c \in Contexts, Ids(c), NEW id \in Nat, PendingAt(c, id) # {}
  PROVE  LET d == DropOptional(c, id)
         IN /\ d \in Contexts /\ Ids(d) /\ Awaited(d) \subseteq Awaited(c)
            /\ SameProgram(c, d) /\ SameEvents(c, d)
<1> DEFINE down(x) == IF x.id > id THEN [x EXCEPT !.id = @ - 1] ELSE x
           A == {down(a) : a \in {b \in c.acts : b.id # id}}
           P == {down(p) : p \in {q \in c.ptasks : q.id # id}}
           d == DropOptional(c, id)
<1>1. c.seq \in Nat /\ c.acts \in SUBSET Actions /\ c.ptasks \in SUBSET PTasks
  BY ContextTypes, Zenon
<1>2. id \in 1 .. c.seq
  BY DEF PendingAt, Ids
<1>3. c.seq - 1 \in Nat
  BY <1>1, <1>2
<1>4. ASSUME NEW x \in Nat, x \in 1 .. c.seq, x # id
      PROVE  /\ x > id => x - 1 \in 1 .. c.seq - 1 /\ x - 1 \in Nat
             /\ ~(x > id) => x \in 1 .. c.seq - 1
  BY <1>1, <1>2, <1>4
<1>5. ASSUME NEW a \in c.acts, a.id # id
      PROVE  down(a) \in Actions /\ down(a).id \in 1 .. c.seq - 1
  <2>1. a \in Actions /\ a.id \in Nat /\ a.id \in 1 .. c.seq
    BY <1>1 DEF Actions, Ids
  <2>2. CASE a.id > id
    <3>1. a.id - 1 \in Nat /\ a.id - 1 \in 1 .. c.seq - 1
      BY <1>4, <1>5, <2>1, <2>2
    <3>2. down(a) = [a EXCEPT !.id = a.id - 1]
      BY <2>2
    <3> QED BY <2>1, <3>1, <3>2 DEF Actions
  <2>3. CASE ~(a.id > id)
    <3>1. down(a) = a
      BY <2>3
    <3> QED BY <1>4, <1>5, <2>1, <2>3, <3>1
  <2> QED BY <2>2, <2>3
<1>6. ASSUME NEW p \in c.ptasks, p.id # id
      PROVE  /\ down(p) \in PTasks /\ down(p).id \in 1 .. c.seq - 1 /\ down(p).task = p.task
             /\ down(p).id = IF p.id > id THEN p.id - 1 ELSE p.id
  <2>1. p \in PTasks /\ p.id \in Nat /\ p.id \in 1 .. c.seq
    BY <1>1 DEF PTasks, Ids
  <2>2. CASE p.id > id
    <3>1. p.id - 1 \in Nat /\ p.id - 1 \in 1 .. c.seq - 1
      BY <1>4, <1>6, <2>1, <2>2
    <3>2. down(p) = [p EXCEPT !.id = p.id - 1]
      BY <2>2
    <3> QED BY <2>1, <2>2, <3>1, <3>2 DEF PTasks
  <2>3. CASE ~(p.id > id)
    <3>1. down(p) = p
      BY <2>3
    <3> QED BY <1>4, <1>6, <2>1, <2>3, <3>1
  <2> QED BY <2>2, <2>3
<1>7. ASSUME NEW p \in c.ptasks, p.id # id, NEW q \in c.ptasks, q.id # id,
             down(p).id = down(q).id \/ down(p).task = down(q).task
      PROVE  p = q
  <2>1. p.id \in Nat /\ q.id \in Nat
    BY <1>1 DEF PTasks
  <2>2. CASE down(p).id = down(q).id
    <3>1. (IF p.id > id THEN p.id - 1 ELSE p.id) = (IF q.id > id THEN q.id - 1 ELSE q.id)
      BY <1>6, <1>7, <2>2
    <3>2. p.id = q.id
      BY <1>7, <2>1, <3>1
    <3> QED BY <3>2 DEF Ids
  <2>3. CASE down(p).task = down(q).task
    BY <1>6, <1>7, <2>3 DEF Ids
  <2> QED BY <1>7, <2>2, <2>3
<1>8. A \in ActionSets /\ P \in SUBSET PTasks
  <2>1. A \in SUBSET Actions /\ P \in SUBSET PTasks
    BY <1>5, <1>6
  <2>2. IsFiniteSet(A)
    <3> DEFINE B == {b \in c.acts : b.id # id}
    <3>1. c.acts \in ActionSets /\ B \in SUBSET c.acts
      BY ContextTypes
    <3>2. IsFiniteSet(B)
      BY <3>1, ActionSetFacts
    <3>3. PICK f : f = [b \in B |-> down(b)]
      OBVIOUS
    <3>4. A = {f[b] : b \in B} /\ f = [b \in B |-> f[b]]
      BY <3>3
    <3> HIDE DEF A, B
    <3> QED BY <3>2, <3>4, FiniteImage
  <2> QED BY <2>1, <2>2 DEF ActionSets
<1>9. d = [c EXCEPT !.seq = c.seq - 1, !.acts = A, !.ptasks = P]
  BY DEF DropOptional, Contexts
<1>10. \A a \in A : a.id \in 1 .. c.seq - 1
  BY <1>5
<1>11. /\ \A p \in P : p.id \in 1 .. c.seq - 1
       /\ \A p, q \in P : p.id = q.id \/ p.task = q.task => p = q
  <2>1. \A p \in P : p.id \in 1 .. c.seq - 1
    BY <1>6
  <2>2. ASSUME NEW p \in P, NEW q \in P, p.id = q.id \/ p.task = q.task
        PROVE  p = q
    <3>1. PICK x \in c.ptasks : x.id # id /\ p = down(x)
      OBVIOUS
    <3>2. PICK y \in c.ptasks : y.id # id /\ q = down(y)
      OBVIOUS
    <3> HIDE DEF down
    <3> QED BY <1>7, <2>2, <3>1, <3>2
  <2> QED BY <2>1, <2>2
<1>12. {p.task : p \in P} \subseteq {p.task : p \in c.ptasks}
  BY <1>6
<1> HIDE DEF A, P, d
<1>13. /\ d \in Contexts /\ d.seq = c.seq - 1 /\ d.acts = A /\ d.ptasks = P
       /\ SameProgram(c, d) /\ SameEvents(c, d)
  BY <1>3, <1>8, <1>9 DEF Contexts, SameProgram, SameEvents
<1>14. Ids(d) /\ Awaited(d) \subseteq Awaited(c)
  BY <1>10, <1>11, <1>12, <1>13 DEF Ids, Awaited
<1> QED BY <1>13, <1>14 DEF d

LEMMA OnConfirmedStep ==
  ASSUME TurnInv, Frame, OnConfirmed
  PROVE  TurnInv'
<1> DEFINE e == Current
           stale == \E a \in PendingAt(ctx, e.id) : IsOptionalTimer(a)
           c == IF stale /\ ~IsOptionalEvent(e) THEN DropOptional(ctx, e.id) ELSE ctx
           pending == PendingAt(c, e.id)
<1>1. /\ AtEvent /\ mode = "event" /\ notify = NoTask /\ ctx \in Contexts /\ PosTypes'
      /\ UNCHANGED <<tasks, notify, retry>> /\ e.id \in Nat /\ Ids(ctx)
  <2>1. e \in HistoryEvents /\ mode = "event" /\ notify = NoTask /\ ctx \in Contexts /\ PosTypes'
        /\ UNCHANGED <<tasks, notify, retry>> /\ AtEvent
    BY OnTaken DEF OnConfirmed, AtEvent, TurnInv, TurnTypes
  <2>2. Ids(ctx)
    BY DEF TurnInv, IdInv, Ids
  <2> QED BY <2>1, <2>2 DEF HistoryEvents
<1>2. /\ c \in Contexts /\ Ids(c) /\ Awaited(c) \subseteq Awaited(ctx)
      /\ SameProgram(ctx, c) /\ SameEvents(ctx, c)
  <2>1. CASE stale /\ ~IsOptionalEvent(e)
    BY <1>1, <2>1, DropOptionalFields
  <2>2. CASE ~(stale /\ ~IsOptionalEvent(e))
    BY <1>1, <2>2 DEF SameProgram, SameEvents
  <2> HIDE DEF c, stale
  <2> QED BY <2>1, <2>2
<1>3. \/ UNCHANGED <<ctx, mode>>
      \/ ctx' = Confirmed(c, e.id) /\ UNCHANGED mode
      \/ ctx' = SetFailed(c, "nondeterminism") /\ mode' = "done"
  <2>1. IF IsOptionalEvent(e) /\ ~\E a \in pending : IsOptionalTimer(a)
        THEN UNCHANGED <<ctx, mode>>
        ELSE IF \E a \in pending : Matches(a, e)
        THEN ctx' = Confirmed(c, e.id) /\ UNCHANGED mode
        ELSE ctx' = SetFailed(c, "nondeterminism") /\ mode' = "done"
    BY DEF OnConfirmed, FailTurn
  <2> HIDE DEF c, e, pending
  <2> QED BY <2>1
<1> HIDE DEF c, e
<1>4. /\ ctx' \in Contexts /\ Ids(ctx') /\ Awaited(ctx') \subseteq Awaited(ctx)
      /\ SameProgram(ctx, ctx') /\ SameEvents(ctx, ctx') /\ mode' \in {"event", "done"}
  <2>1. CASE UNCHANGED <<ctx, mode>>
    BY <1>1, <2>1 DEF SameProgram, SameEvents
  <2>2. CASE ctx' = Confirmed(c, e.id) /\ UNCHANGED mode
    <3>1. PICK A \in SUBSET c.acts : ctx' = [c EXCEPT !.acts = A]
      BY <2>2 DEF Confirmed
    <3>2. A \in ActionSets
      <4>1. c.acts \in ActionSets
        BY <1>2, ContextTypes
      <4> QED BY <3>1, <4>1, ActionSetFacts
    <3>3. /\ ctx' \in Contexts /\ ctx'.seq = c.seq /\ ctx'.ptasks = c.ptasks /\ ctx'.acts = A
          /\ SameProgram(c, ctx') /\ SameEvents(c, ctx')
      BY <1>2, <3>1, <3>2 DEF Contexts, SameProgram, SameEvents
    <3>4. Ids(ctx') /\ Awaited(ctx') \subseteq Awaited(ctx)
      BY <1>2, <3>3 DEF Ids, Awaited
    <3>5. SameProgram(ctx, ctx') /\ SameEvents(ctx, ctx')
      BY <1>2, <3>3 DEF SameProgram, SameEvents
    <3> QED BY <1>1, <2>2, <3>3, <3>4, <3>5
  <2>3. CASE ctx' = SetFailed(c, "nondeterminism") /\ mode' = "done"
    <3>1. /\ ctx' \in Contexts /\ ctx'.ptasks = c.ptasks
          /\ SameProgram(c, ctx') /\ SameEvents(c, ctx') /\ Ids(ctx')
      BY <1>2, <2>3, SetFailedFields, FailedIds DEF Reasons
    <3>2. SameProgram(ctx, ctx') /\ SameEvents(ctx, ctx') /\ Awaited(ctx') \subseteq Awaited(ctx)
      BY <1>2, <3>1 DEF SameProgram, SameEvents, Awaited
    <3> QED BY <2>3, <3>1, <3>2
  <2> QED BY <1>3, <2>1, <2>2, <2>3
<1>5. IdInv'
  BY <1>4 DEF Ids, IdInv
<1>6. FlowInv'
  <2>1. ctx.ptasks = {} => ctx'.ptasks = {}
    BY <1>4 DEF Awaited
  <2>2. /\ ctx'.gen = ctx.gen /\ ctx'.wait = ctx.wait /\ Instruction' = Instruction
        /\ UNCHANGED <<notify, suspended>>
    BY <1>1, <1>4 DEF SameProgram, SameEvents, Instruction, Frame, prog, OnConfirmed
  <2> QED BY <1>1, <1>4, <2>1, <2>2 DEF TurnInv, FlowInv
<1> QED BY <1>1, <1>4, <1>5, <1>6, QuietStep DEF SameProgram

----------------------------------------------------------------------------
(* Completions.                                                            *)

(* What a step that keeps the sidecar as it is has to keep.                *)
LEMMA TurnStep ==
  ASSUME TurnInv, Frame, mode # "idle", mode' # "idle",
         TurnTypes', IdInv', TaskInv', EnvInv', FlowInv', NoWaiterOverlooked'
  PROVE  TurnInv'
<1>1. SidecarTypes' /\ UNCHANGED <<scene, hist, batch, Events>>
  BY FrameTypes DEF TurnInv
<1>2. IdleInv'
  BY <1>1 DEF TurnInv, IdleInv
<1> QED BY <1>1, <1>2 DEF TurnInv

(* Task t ends with record rec, and its parent is to be told.              *)
Ends(t, rec) ==
  /\ tasks[t].kind \in {"leaf", "inner"} /\ ~IsComplete(t) /\ notify = NoTask
  /\ rec \in Task /\ rec.out # "pending"
  /\ rec.kind = tasks[t].kind /\ rec.kids = tasks[t].kids /\ rec.parent = tasks[t].parent
  /\ \A c \in TaskId : tasks[c].kind = "event" /\ tasks[c].kids[1] = t =>
       rec.out # "failed" /\ ~IsComplete(c)
  /\ tasks' = [tasks EXCEPT ![t] = rec] /\ notify' = Notification(t)

SameShape ==
  \A u \in TaskId :
    /\ tasks'[u].kind = tasks[u].kind /\ tasks'[u].kids = tasks[u].kids
    /\ tasks'[u].parent = tasks[u].parent

SameRetry ==
  \A u \in TaskId :
    /\ retry'[u].max = retry[u].max /\ retry'[u].owner = retry[u].owner
    /\ retry'[u].kind = retry[u].kind

LEMMA EndsTasks ==
  ASSUME TurnInv, NEW t \in TaskId, NEW rec, Ends(t, rec)
  PROVE  /\ tasks' \in [TaskId -> Task] /\ notify' \in OptTask /\ SameShape
         /\ \A u \in TaskId : u # t => tasks'[u] = tasks[u]
         /\ tasks'[t].out = rec.out
         /\ notify' # NoTask => notify' = t /\ tasks[t].parent # NoTask
BY DEF TurnInv, TurnTypes, Ends, SameShape, Notification, OptTask

LEMMA EndsTree ==
  ASSUME TurnInv, NEW t \in TaskId, NEW rec, Ends(t, rec)
  PROVE  ParentInv' /\ EventInv'
<1>1. /\ SameShape /\ tasks'[t].out = rec.out /\ tasks \in [TaskId -> Task]
      /\ \A u \in TaskId : u # t => tasks'[u] = tasks[u]
  BY EndsTasks DEF TurnInv, TurnTypes
<1>2. ASSUME NEW u \in TaskId PROVE ParentOK(u)'
  <2>1. ParentOK(u) /\ tasks[u].parent \in TaskId \cup {NoTask}
    BY <1>1 DEF TurnInv, TaskInv, ParentInv, Task
  <2> QED BY <1>1, <2>1 DEF ParentOK, SameShape
<1>3. ASSUME NEW c \in TaskId, tasks[c].kind = "event" PROVE EventOK(c)'
  <2>1. EventOK(c) /\ c # t /\ tasks[c].kids \in Seq(TaskId)
    BY <1>1, <1>3 DEF TurnInv, TaskInv, EventInv, Ends, Task
  <2> DEFINE kids == tasks[c].kids
  <2>2. /\ Len(kids) = 2 /\ kids[1] # kids[2] /\ kids[1] \in TaskId /\ kids[2] \in TaskId
        /\ \A i \in 1 .. 2 : tasks[kids[i]].kind = "inner" /\ tasks[kids[i]].parent = c
    BY <1>3, <2>1 DEF EventOK
  <2>3. tasks'[c] = tasks[c]
    BY <1>1, <2>1
  <2>4. \A i \in 1 .. 2 : tasks'[kids[i]].kind = "inner" /\ tasks'[kids[i]].parent = c
    <3>1. \A i \in 1 .. 2 : kids[i] \in TaskId
      BY <2>2
    <3> QED BY <1>1, <2>2, <3>1 DEF SameShape
  <2>5. CASE kids[1] = t
    <3>1. notify' = t
      BY <2>2, <2>5 DEF Ends, Notification, TaskId, NoTask
    <3>2. rec.out # "failed" /\ ~IsComplete(c)
      BY <1>3, <2>5 DEF Ends
    <3> QED BY <1>1, <1>3, <2>2, <2>3, <2>4, <2>5, <3>1, <3>2 DEF EventOK, IsComplete
  <2>6. CASE kids[1] # t
    <3>1. tasks'[kids[1]] = tasks[kids[1]]
      BY <1>1, <2>2, <2>6
    <3>2. kids[1] # NoTask
      BY <2>2 DEF TaskId, NoTask
    <3>3. /\ tasks[kids[1]].out # "failed"
          /\ tasks[kids[1]].out = "done" =>
               tasks[c].out = "done" /\ tasks[c].val = tasks[kids[1]].val
      BY <1>3, <2>1, <3>2 DEF EventOK, Ends
    <3> QED BY <1>3, <2>2, <2>3, <2>4, <3>1, <3>3 DEF EventOK
  <2> QED BY <2>5, <2>6
<1>4. ASSUME NEW c \in TaskId, tasks[c].kind # "event" PROVE EventOK(c)'
  BY <1>1, <1>4 DEF EventOK, SameShape
<1> QED BY <1>2, <1>3, <1>4 DEF ParentInv, EventInv

LEMMA EndsRetry ==
  ASSUME TurnInv, NEW t \in TaskId, NEW rec, Ends(t, rec), SameRetry
  PROVE  RetryInv'
<1>1. /\ SameShape /\ tasks \in [TaskId -> Task] /\ retry \in [TaskId -> Retries]
      /\ \A u \in TaskId : u # t => tasks'[u] = tasks[u]
  BY EndsTasks DEF TurnInv, TurnTypes
<1>2. ASSUME NEW u \in TaskId PROVE RetryOK(u)'
  <2>1. RetryOK(u) /\ retry[u].owner \in TaskId \cup {NoTask}
    BY <1>1 DEF TurnInv, TaskInv, RetryInv, Retries, OptTask
  <2>2. ASSUME retry[u].owner # NoTask PROVE OwnerOf(u)'
    <3>1. OwnerOf(u) /\ retry[u].owner \in TaskId
      BY <2>1, <2>2 DEF RetryOK
    <3> QED BY <1>1, <3>1 DEF OwnerOf, SameShape, SameRetry
  <2>3. IsFree(u) => u # t
    BY DEF Ends, IsFree
  <2> QED BY <1>1, <2>1, <2>2, <2>3 DEF RetryOK, SameShape, SameRetry, IsFree
<1> QED BY <1>2 DEF RetryInv

(* Waiters other than t still wait, and the other tasks with an id too.    *)
LEMMA EndsWaits ==
  ASSUME TurnInv, NEW t \in TaskId, NEW rec, Ends(t, rec), SameRetry,
         Waiters(ctx') \subseteq Waiters(ctx), t \notin Waiters(ctx'), OneWait(ctx')
  PROVE  /\ WaitInv'
         /\ \A s \in Awaited(ctx) : s # t => PendingTask(s)'
<1>1. /\ SameShape /\ tasks \in [TaskId -> Task]
      /\ \A u \in TaskId : u # t => tasks'[u] = tasks[u]
  BY EndsTasks DEF TurnInv, TurnTypes
<1>2. Waiters(ctx) \subseteq TaskId /\ Awaited(ctx) \subseteq TaskId
  <2>1. ctx.wait \in [Names -> Seq(TaskId)] /\ ctx.ptasks \in SUBSET PTasks
    BY ContextTypes, Zenon DEF TurnInv, TurnTypes
  <2> QED BY <2>1 DEF Waiters, Members, Awaited, PTasks
<1>3. ASSUME NEW w \in Waiters(ctx') PROVE Waits(w)'
  <2>1. Waits(w) /\ w \in TaskId /\ w # t
    BY <1>2 DEF TurnInv, TaskInv, WaitInv
  <2>2. CASE tasks[w].kind = "leaf"
    BY <1>1, <2>1, <2>2 DEF Waits, IsComplete, SameRetry
  <2>3. CASE tasks[w].kind # "leaf"
    <3>1. /\ tasks[w].kind = "inner" /\ tasks[w].parent # NoTask
          /\ tasks[tasks[w].parent].kind = "event"
          /\ tasks[tasks[w].parent].kids[1] = w
          /\ ~IsComplete(tasks[w].parent)
      BY <2>1, <2>3 DEF Waits
    <3>2. tasks[w].parent \in TaskId /\ tasks[w].parent # t
      BY <1>1, <2>1, <3>1 DEF Task, Ends
    <3> QED BY <1>1, <2>1, <3>1, <3>2 DEF Waits, IsComplete, SameRetry
  <2> QED BY <2>2, <2>3
<1>4. ASSUME NEW s \in Awaited(ctx), s # t PROVE PendingTask(s)'
  <2>1. PendingTask(s) /\ s \in TaskId
    BY <1>2 DEF TurnInv, TaskInv, AwaitedInv
  <2> QED BY <1>1, <1>4, <2>1 DEF PendingTask, IsComplete, SameShape
<1> QED BY <1>3, <1>4 DEF WaitInv, OneWait

(* The program still holds what it held.                                   *)
LEMMA EndsEnv ==
  ASSUME TurnInv, SameShape, ctx'.env = ctx.env, ctx'.prev = ctx.prev
  PROVE  EnvInv'
<1>1. ctx.env \in Seq(TaskId) /\ ctx.prev \in OptTask
  BY ContextTypes, Zenon DEF TurnInv, TurnTypes
<1>2. ASSUME NEW i \in DOMAIN ctx.env PROVE Held(ctx.env[i])'
  <2>1. ctx.env[i] \in TaskId /\ Held(ctx.env[i])
    BY <1>1 DEF TurnInv, EnvInv
  <2> QED BY <2>1 DEF SameShape, Held
<1>3. ASSUME ctx.prev # NoTask PROVE Held(ctx.prev)'
  <2>1. ctx.prev \in TaskId /\ Held(ctx.prev)
    BY <1>1, <1>3 DEF TurnInv, EnvInv, OptTask
  <2> QED BY <2>1 DEF SameShape, Held
<1> QED BY <1>2, <1>3 DEF EnvInv, Held

(* The task that an outcome belongs to, and the context without it.        *)
LEMMA PoppedFields ==
  ASSUME TurnInv, NEW id \in Nat, TaskAt(id) # NoTask
  PROVE  LET t == TaskAt(id)
             c == Popped(id)
         IN /\ t \in TaskId /\ t \in Awaited(ctx) /\ PendingTask(t) /\ ctx.gen # "none"
            /\ c \in Contexts /\ SameProgram(ctx, c) /\ SameEvents(ctx, c) /\ Ids(c)
            /\ c.seq = ctx.seq /\ c.acts = ctx.acts
            /\ Awaited(c) = Awaited(ctx) \ {t}
<1> DEFINE t == TaskAt(id)
           P == {p \in ctx.ptasks : p.id # id}
           c == Popped(id)
<1>1. ctx \in Contexts /\ ctx.ptasks \in SUBSET PTasks
  BY ContextTypes, Zenon DEF TurnInv, TurnTypes
<1>2. PICK p \in ctx.ptasks : p.id = id /\ t = p.task
  BY DEF TaskAt
<1>3. /\ t \in TaskId /\ t \in Awaited(ctx) /\ PendingTask(t) /\ ctx.gen # "none"
  <2>1. t \in TaskId /\ t \in Awaited(ctx)
    BY <1>1, <1>2 DEF PTasks, Awaited
  <2>2. ctx.ptasks # {}
    BY <1>2
  <2> HIDE DEF t
  <2> QED BY <2>1, <2>2 DEF TurnInv, TaskInv, AwaitedInv, FlowInv
<1>4. \A q \in ctx.ptasks : q.id = id <=> q.task = t
  BY <1>2 DEF TurnInv, IdInv
<1>5. c = [ctx EXCEPT !.ptasks = P] /\ P \in SUBSET PTasks
  BY <1>1 DEF Popped, Contexts
<1> HIDE DEF c
<1>6. /\ c \in Contexts /\ c.seq = ctx.seq /\ c.acts = ctx.acts /\ c.ptasks = P
      /\ SameProgram(ctx, c) /\ SameEvents(ctx, c)
  <2> HIDE DEF P
  <2> QED BY <1>1, <1>5 DEF Contexts, SameProgram, SameEvents
<1>7. Ids(c)
  BY <1>6 DEF TurnInv, IdInv, Ids
<1>8. Awaited(c) = Awaited(ctx) \ {t}
  <2> HIDE DEF t
  <2> QED BY <1>4, <1>6 DEF Awaited
<1> QED BY <1>3, <1>6, <1>7, <1>8 DEF c

LEMMA EndsAwaited ==
  ASSUME TurnInv, NEW t \in TaskId, NEW rec, Ends(t, rec), SameRetry,
         \A s \in Awaited(ctx') : PendingTask(s)', Awaited(ctx') \subseteq Awaited(ctx),
         \A s \in Awaited(ctx) : retry[s].owner # t
  PROVE  AwaitedInv'
<1>1. /\ \A u \in TaskId : u # t => tasks'[u] = tasks[u]
      /\ retry \in [TaskId -> Retries]
  BY EndsTasks DEF TurnInv, TurnTypes
<1>2. Awaited(ctx) \subseteq TaskId
  <2>1. ctx.ptasks \in SUBSET PTasks
    BY ContextTypes, Zenon DEF TurnInv, TurnTypes
  <2> QED BY <2>1 DEF Awaited, PTasks
<1>3. ASSUME NEW s \in Awaited(ctx'), retry'[s].owner # NoTask
      PROVE  /\ ~IsComplete(retry[s].owner)' /\ retry'[s].owner \notin Awaited(ctx')
             /\ \A u \in Awaited(ctx') : retry'[u].owner = retry'[s].owner => u = s
  <2>1. PICK o : /\ o = retry[s].owner /\ s \in Awaited(ctx) /\ s \in TaskId
                 /\ retry'[s].owner = o /\ o # NoTask
    BY <1>2, <1>3 DEF SameRetry
  <2>2. o \in TaskId /\ o # t
    BY <1>1, <2>1 DEF Retries, OptTask
  <2>3. /\ ~IsComplete(o) /\ o \notin Awaited(ctx)
        /\ \A u \in Awaited(ctx) : retry[u].owner = o => u = s
    BY <2>1 DEF TurnInv, TaskInv, AwaitedInv
  <2>4. tasks'[o].out = "pending"
    BY <1>1, <2>2, <2>3 DEF IsComplete
  <2>5. \A u \in Awaited(ctx') : retry'[u].owner = retry'[s].owner => u = s
    BY <1>2, <2>1, <2>3 DEF SameRetry
  <2>6. retry'[s].owner \notin Awaited(ctx')
    BY <2>1, <2>3
  <2> QED BY <2>1, <2>4, <2>5, <2>6 DEF IsComplete
<1> QED BY <1>3 DEF AwaitedInv, IsComplete

(* A completion, given the program state it leaves.                        *)
LEMMA EndsStep ==
  ASSUME TurnInv, Frame, mode = "event", mode' \in {"event", "resume"}, PosTypes',
         NEW t \in TaskId, NEW rec, Ends(t, rec), SameRetry, retry' \in [TaskId -> Retries],
         ctx' \in Contexts, SameProgram(ctx, ctx'), IdInv', AwaitedInv', WaitInv',
         NoWaiterOverlooked', ctx.gen # "none", ~suspended',
         mode' = "event" => notify' = NoTask
  PROVE  TurnInv'
<1>1. /\ tasks' \in [TaskId -> Task] /\ notify' \in OptTask /\ SameShape
      /\ notify' # NoTask => notify' = t /\ tasks[t].parent # NoTask
      /\ tasks'[t].out = rec.out
  BY EndsTasks
<1>2. TurnTypes'
  BY <1>1 DEF TurnTypes, PosTypes
<1>3. TaskInv'
  BY EndsTree, EndsRetry DEF TaskInv
<1>4. EnvInv'
  BY <1>1, EndsEnv DEF SameProgram
<1>5. FlowInv'
  <2>1. Instruction' = Instruction /\ ctx'.gen = ctx.gen
    BY DEF SameProgram, Instruction, prog, Frame
  <2>2. notify' # NoTask => IsComplete(notify)' /\ tasks'[notify'].parent # NoTask
    BY <1>1 DEF Ends, IsComplete, SameShape
  <2> QED BY <2>1, <2>2 DEF TurnInv, FlowInv
<1> QED BY <1>2, <1>3, <1>4, <1>5, TurnStep

(* The records of an ended task.                                           *)
LEMMA CompletedTask ==
  ASSUME TurnInv, NEW t \in TaskId, NEW v \in Nat
  PROVE  /\ Completed(tasks[t], v) \in Task /\ Completed(tasks[t], v).out = "done"
         /\ Completed(tasks[t], v).kind = tasks[t].kind
         /\ Completed(tasks[t], v).kids = tasks[t].kids
         /\ Completed(tasks[t], v).parent = tasks[t].parent
         /\ Failed(tasks[t], t) \in Task /\ Failed(tasks[t], t).out = "failed"
         /\ Failed(tasks[t], t).kind = tasks[t].kind
         /\ Failed(tasks[t], t).kids = tasks[t].kids
         /\ Failed(tasks[t], t).parent = tasks[t].parent
<1>1. tasks[t] \in Task
  BY DEF TurnInv, TurnTypes
<1> QED BY <1>1 DEF Completed, Failed, Task, Outcomes

(* A task with an id ends: the wait of its event task is none.             *)
LEMMA PendingEnds ==
  ASSUME TurnInv, NEW t \in TaskId, PendingTask(t), notify = NoTask, NEW v \in Nat
  PROVE  /\ Complete(t, v) => Ends(t, Completed(tasks[t], v))
         /\ Fail(t) => Ends(t, Failed(tasks[t], t))
<1>1. \A c \in TaskId : ~(tasks[c].kind = "event" /\ tasks[c].kids[1] = t)
  BY DEF PendingTask
<1>2. Complete(t, v) => tasks' = [tasks EXCEPT ![t] = Completed(tasks[t], v)]
                        /\ notify' = Notification(t)
  BY DEF Complete
<1>3. Fail(t) => tasks' = [tasks EXCEPT ![t] = Failed(tasks[t], t)] /\ notify' = Notification(t)
  BY DEF Fail
<1> QED BY <1>1, <1>2, <1>3, CompletedTask DEF PendingTask, Ends

LEMMA ScheduledKeeps ==
  ASSUME NEW c \in Contexts, NEW kind \in {"activity", "child", "timer"},
         NEW name \in Labels, NEW t \in TaskId
  PROVE  /\ Scheduled(c, kind, name, t) \in Contexts
         /\ SameProgram(c, Scheduled(c, kind, name, t))
         /\ SameEvents(c, Scheduled(c, kind, name, t))
BY ScheduledFields

LEMMA ScheduledIds ==
  ASSUME NEW c \in Contexts, Ids(c), NEW kind \in {"activity", "child", "timer"},
         NEW name \in Labels, NEW t \in TaskId, t \notin Awaited(c)
  PROVE  LET d == Scheduled(c, kind, name, t)
         IN Ids(d) /\ Awaited(d) = Awaited(c) \cup {t}
<1> DEFINE d == Scheduled(c, kind, name, t)
           a1 == Action(c.seq + 1, kind, name)
           p1 == [id |-> c.seq + 1, task |-> t]
<1>1. d.seq = c.seq + 1 /\ d.acts = c.acts \cup {a1} /\ d.ptasks = c.ptasks \cup {p1}
  BY ScheduledFields
<1>2. c.seq \in Nat
  BY ContextTypes, Zenon
<1>3. a1.id = c.seq + 1 /\ p1.id = c.seq + 1 /\ p1.task = t
  BY DEF Action
<1>n. ASSUME NEW m \in Nat
      PROVE /\ m + 1 \in 1 .. m + 1 /\ m + 1 \notin 1 .. m
            /\ \A x \in 1 .. m : x \in 1 .. m + 1
  OBVIOUS
<1>4. /\ c.seq + 1 \in 1 .. c.seq + 1 /\ c.seq + 1 \notin 1 .. c.seq
      /\ \A x \in 1 .. c.seq : x \in 1 .. c.seq + 1
  BY <1>2, <1>n
<1> HIDE DEF d, a1, p1
<1>5. \A a \in d.acts : a.id \in 1 .. d.seq
  BY <1>1, <1>3, <1>4 DEF Ids
<1>6. \A p \in d.ptasks : p.id \in 1 .. d.seq
  BY <1>1, <1>3, <1>4 DEF Ids
<1>7. \A p \in c.ptasks : p.id # p1.id /\ p.task # p1.task
  BY <1>3, <1>4 DEF Ids, Awaited
<1>8. \A p, q \in d.ptasks : p.id = q.id \/ p.task = q.task => p = q
  BY <1>1, <1>7 DEF Ids
<1>9. Awaited(d) = Awaited(c) \cup {t}
  BY <1>1, <1>3 DEF Awaited
<1> QED BY <1>5, <1>6, <1>8, <1>9 DEF Ids, d

LEMMA SameWaiters ==
  ASSUME TurnInv, SameEvents(ctx, ctx')
  PROVE  Waiters(ctx') = Waiters(ctx) /\ OneWait(ctx') /\ NoWaiterOverlooked'
BY DEF TurnInv, TaskInv, WaitInv, SameEvents, Waiters, OneWait, NoWaiterOverlooked

(* A task with an id ends, and the program is resumed.                     *)
LEMMA OutcomeStep ==
  ASSUME TurnInv, Frame, mode = "event", PosTypes', ~suspended', UNCHANGED retry,
         NEW id \in Nat, TaskAt(id) # NoTask, ctx' = Popped(id),
         mode' \in {"event", "resume"}, mode' = "event" => notify' = NoTask,
         NEW rec, Ends(TaskAt(id), rec)
  PROVE  TurnInv'
<1>1. PICK t \in TaskId : t = TaskAt(id)
  BY PoppedFields
<1>2. /\ t \in Awaited(ctx) /\ PendingTask(t) /\ ctx.gen # "none"
      /\ ctx' \in Contexts /\ SameProgram(ctx, ctx') /\ SameEvents(ctx, ctx') /\ Ids(ctx')
      /\ Awaited(ctx') = Awaited(ctx) \ {t} /\ Ends(t, rec)
  BY <1>1, PoppedFields
<1>3. SameRetry /\ retry' \in [TaskId -> Retries] /\ IdInv'
  BY <1>2 DEF SameRetry, TurnInv, TurnTypes, Ids, IdInv
<1>4. Waiters(ctx') = Waiters(ctx) /\ OneWait(ctx') /\ NoWaiterOverlooked' /\ t \notin Waiters(ctx')
  BY <1>2, SameWaiters DEF PendingTask
<1>5. WaitInv' /\ \A s \in Awaited(ctx') : PendingTask(s)'
  BY <1>2, <1>3, <1>4, EndsWaits
<1>6. \A s \in Awaited(ctx) : retry[s].owner # t
  <2>1. t # NoTask
    BY DEF TaskId, NoTask
  <2> QED BY <1>2, <2>1 DEF TurnInv, TaskInv, AwaitedInv
<1>7. AwaitedInv'
  BY <1>2, <1>3, <1>5, <1>6, EndsAwaited
<1> QED BY <1>2, <1>3, <1>4, <1>5, <1>7, EndsStep

(* An event that is handled during a suspension ends it or the workflow.   *)
LEMMA NotSuspended ==
  ASSUME TurnInv, NEW types, On(types),
         "executionResumed" \notin types, "executionTerminated" \notin types,
         UNCHANGED suspended
  PROVE  ~suspended'
<1>1. Current.type \in types /\ ~(suspended /\ Suspendable(Current))
  BY DEF On
<1>2. Suspendable(Current)
  BY <1>1 DEF Suspendable
<1>3. suspended \in BOOLEAN
  BY DEF TurnInv, TurnTypes
<1> QED BY <1>1, <1>2, <1>3

LEMMA OnCompletedStep ==
  ASSUME TurnInv, Frame, OnCompleted
  PROVE  TurnInv'
<1>1. /\ mode = "event" /\ notify = NoTask /\ Current \in HistoryEvents /\ PosTypes' /\ ~suspended'
      /\ mode' = "resume" /\ UNCHANGED retry
  BY OnTaken, NotSuspended DEF OnCompleted, TurnInv, TurnTypes
<1>2. PICK id \in Nat, v \in Nat : /\ TaskAt(id) # NoTask /\ Complete(TaskAt(id), v)
                                   /\ ctx' = Popped(id)
  BY <1>1 DEF OnCompleted, HistoryEvents
<1>3. Ends(TaskAt(id), Completed(tasks[TaskAt(id)], v))
  BY <1>1, <1>2, PoppedFields, PendingEnds
<1> QED BY <1>1, <1>2, <1>3, OutcomeStep

(* A retry timer fires: the task it belongs to is scheduled again.         *)
LEMMA RetryTimerStep ==
  ASSUME TurnInv, Frame, mode = "event", mode' = "event", PosTypes', ~suspended',
         UNCHANGED retry, NEW id \in Nat, TaskAt(id) # NoTask, notify = NoTask,
         Complete(TaskAt(id), 0), retry[TaskAt(id)].owner # NoTask,
         ctx' = Scheduled(Popped(id), retry[retry[TaskAt(id)].owner].kind,
                          retry[retry[TaskAt(id)].owner].name, retry[TaskAt(id)].owner)
  PROVE  TurnInv'
<1>1. PICK t \in TaskId : t = TaskAt(id)
  BY PoppedFields
<1>2. PICK c \in Contexts : c = Popped(id)
  BY PoppedFields
<1>3. /\ t \in Awaited(ctx) /\ PendingTask(t) /\ ctx.gen # "none"
      /\ SameProgram(ctx, c) /\ SameEvents(ctx, c) /\ Ids(c)
      /\ Awaited(c) = Awaited(ctx) \ {t} /\ Complete(t, 0)
  BY <1>1, <1>2, PoppedFields
<1>4. Ends(t, Completed(tasks[t], 0))
  BY <1>3, PendingEnds
<1>5. PICK o \in TaskId : o = retry[t].owner
  <2>1. retry[t].owner \in OptTask
    BY DEF TurnInv, TurnTypes, Retries
  <2> QED BY <1>1, <2>1 DEF OptTask
<1>6. /\ OwnerOf(t) /\ RetryOK(o) /\ ~IsComplete(o) /\ o \notin Awaited(ctx)
      /\ \A u \in Awaited(ctx) : retry[u].owner = o => u = t
  BY <1>1, <1>3, <1>5 DEF TurnInv, TaskInv, RetryInv, RetryOK, AwaitedInv
<1>7. /\ tasks[t].kind = "inner" /\ tasks[t].parent = NoTask /\ tasks[o].kind = "leaf"
      /\ retry[o].max > 0 /\ o # t
      /\ retry[o].kind \in {"activity", "child", "timer"} /\ retry[o].name \in Labels
  <2>1. /\ tasks[t].kind = "inner" /\ tasks[t].parent = NoTask /\ tasks[o].kind = "leaf"
        /\ retry[o].max > 0 /\ retry[o].kind # "none"
    BY <1>5, <1>6 DEF OwnerOf
  <2>2. retry[o].kind \in {"none", "activity", "child", "timer"} /\ retry[o].name \in Labels
    BY DEF TurnInv, TurnTypes, Retries
  <2> QED BY <2>1, <2>2
<1>8. /\ ctx' \in Contexts /\ SameProgram(ctx, ctx') /\ SameEvents(ctx, ctx') /\ Ids(ctx')
      /\ Awaited(ctx') = (Awaited(ctx) \ {t}) \cup {o}
  <2>1. PICK kind \in {"activity", "child", "timer"}, name \in Labels :
          ctx' = Scheduled(c, kind, name, o) /\ o \notin Awaited(c)
    BY <1>1, <1>2, <1>3, <1>5, <1>6, <1>7
  <2>2. /\ ctx' \in Contexts /\ SameProgram(c, ctx') /\ SameEvents(c, ctx') /\ Ids(ctx')
        /\ Awaited(ctx') = Awaited(c) \cup {o}
    <3>1. ctx' \in Contexts /\ SameProgram(c, ctx') /\ SameEvents(c, ctx')
      BY <2>1, ScheduledKeeps
    <3>2. Ids(ctx') /\ Awaited(ctx') = Awaited(c) \cup {o}
      BY <1>3, <2>1, ScheduledIds
    <3> QED BY <3>1, <3>2
  <2> QED BY <1>3, <2>2 DEF SameProgram, SameEvents
<1>9. SameRetry /\ retry' \in [TaskId -> Retries] /\ IdInv'
  BY <1>8 DEF SameRetry, TurnInv, TurnTypes, Ids, IdInv
<1>10. Waiters(ctx') = Waiters(ctx) /\ OneWait(ctx') /\ NoWaiterOverlooked' /\ t \notin Waiters(ctx')
  BY <1>3, <1>8, SameWaiters DEF PendingTask
<1>11. WaitInv' /\ \A s \in Awaited(ctx) : s # t => PendingTask(s)'
  BY <1>4, <1>9, <1>10, EndsWaits
<1>12. SameShape /\ \A u \in TaskId : u # t => tasks'[u] = tasks[u]
  BY <1>4, EndsTasks
<1>13. PendingTask(o)'
  <2>1. o \notin Waiters(ctx)
    BY <1>7 DEF TurnInv, TaskInv, WaitInv, Waits
  <2>2. ASSUME NEW d \in TaskId, tasks[d].kind = "event" PROVE tasks[d].kids[1] # o
    <3>1. tasks[tasks[d].kids[1]].kind = "inner"
      BY <2>2 DEF TurnInv, TaskInv, EventInv, EventOK
    <3> QED BY <1>7, <3>1
  <2> QED BY <1>6, <1>7, <1>10, <1>12, <2>1, <2>2 DEF PendingTask, IsComplete, SameShape
<1>14. retry[o].owner = NoTask
  <2>1. OwnerOf(o) => tasks[o].kind = "inner"
    BY DEF OwnerOf
  <2> QED BY <1>6, <1>7, <2>1 DEF RetryOK
<1>15. AwaitedInv'
  <2>1. ASSUME NEW s \in Awaited(ctx), s # t, retry[s].owner # NoTask
        PROVE  /\ retry[s].owner \in TaskId /\ tasks'[retry[s].owner].out = "pending"
               /\ retry[s].owner \notin Awaited(ctx')
               /\ \A u \in Awaited(ctx') : retry[u].owner = retry[s].owner => u = s
    <3>1. PICK x : x = retry[s].owner
      OBVIOUS
    <3>2. /\ ~IsComplete(x) /\ x \notin Awaited(ctx) /\ x # o /\ x \in TaskId /\ x # t
          /\ \A u \in Awaited(ctx) : retry[u].owner = x => u = s
      <4>1. s \in TaskId
        <5>1. ctx.ptasks \in SUBSET PTasks
          BY ContextTypes, Zenon DEF TurnInv, TurnTypes
        <5> QED BY <5>1 DEF Awaited, PTasks
      <4>2. x \in TaskId
        BY <2>1, <3>1, <4>1 DEF TurnInv, TurnTypes, Retries, OptTask
      <4>3. ~IsComplete(x) /\ x \notin Awaited(ctx)
            /\ \A u \in Awaited(ctx) : retry[u].owner = x => u = s
        BY <2>1, <3>1 DEF TurnInv, TaskInv, AwaitedInv
      <4>4. x # o /\ x # t
        BY <1>3, <1>6, <2>1, <3>1, <4>3
      <4> QED BY <4>2, <4>3, <4>4
    <3>3. tasks'[x].out = "pending"
      BY <1>12, <3>2 DEF IsComplete
    <3>4. \A u \in Awaited(ctx') : retry[u].owner = x => u = s
      BY <1>8, <1>14, <2>1, <3>1, <3>2
    <3> QED BY <1>8, <3>1, <3>2, <3>3, <3>4
  <2>2. \A s \in Awaited(ctx') : PendingTask(s)'
    BY <1>8, <1>11, <1>13
  <2>3. ASSUME NEW s \in Awaited(ctx'), retry'[s].owner # NoTask
        PROVE  /\ ~IsComplete(retry[s].owner)' /\ retry'[s].owner \notin Awaited(ctx')
               /\ \A u \in Awaited(ctx') : retry'[u].owner = retry'[s].owner => u = s
    <3>1. s # o /\ s \in Awaited(ctx) /\ s # t /\ retry' = retry
      BY <1>8, <1>14, <2>3
    <3> QED BY <2>1, <2>3, <3>1 DEF IsComplete
  <2> QED BY <2>2, <2>3 DEF AwaitedInv
<1>16. notify' = NoTask
  BY <1>4, <1>7 DEF Ends, Notification
<1> QED BY <1>3, <1>4, <1>8, <1>9, <1>10, <1>11, <1>15, <1>16, EndsStep

LEMMA OnTimerFiredStep ==
  ASSUME TurnInv, Frame, OnTimerFired
  PROVE  TurnInv'
<1>1. /\ mode = "event" /\ notify = NoTask /\ Current \in HistoryEvents /\ PosTypes' /\ ~suspended'
      /\ UNCHANGED retry
  BY OnTaken, NotSuspended DEF OnTimerFired, TurnInv, TurnTypes
<1>2. PICK id \in Nat : id = Current.id
  BY <1>1 DEF HistoryEvents
<1>3. TaskAt(id) # NoTask /\ Complete(TaskAt(id), 0)
  BY <1>2 DEF OnTimerFired
<1>4. CASE retry[TaskAt(id)].owner # NoTask
  <2>1. /\ ctx' = Scheduled(Popped(id), retry[retry[TaskAt(id)].owner].kind,
                            retry[retry[TaskAt(id)].owner].name, retry[TaskAt(id)].owner)
        /\ mode' = mode
    BY <1>2, <1>4 DEF OnTimerFired
  <2> QED BY <1>1, <1>3, <1>4, <2>1, RetryTimerStep
<1>5. CASE retry[TaskAt(id)].owner = NoTask
  <2>1. ctx' = Popped(id) /\ mode' = "resume"
    BY <1>2, <1>5 DEF OnTimerFired
  <2>2. Ends(TaskAt(id), Completed(tasks[TaskAt(id)], 0))
    BY <1>1, <1>3, PoppedFields, PendingEnds
  <2> QED BY <1>1, <1>3, <2>1, <2>2, OutcomeStep
<1> QED BY <1>4, <1>5

----------------------------------------------------------------------------
(* New tasks.                                                              *)

\* The slots U are taken.  The other tasks stay as they are, but the ones
\* the program holds may be adopted by a new composite.
Adopted(t, U) ==
  /\ tasks[t].kind \notin {"free", "inner"}
  /\ \E c \in U : tasks'[t] = [tasks[t] EXCEPT !.parent = c] /\ tasks'[c].kind \in {"all", "any"}

Grown(U) ==
  /\ U \subseteq TaskId /\ (\A u \in U : IsFree(u)) /\ notify = NoTask /\ notify' = NoTask
  /\ \A t \in TaskId \ U :
       /\ tasks'[t] = tasks[t] \/ Adopted(t, U)
       /\ retry'[t].max = retry[t].max /\ retry'[t].owner = retry[t].owner
       /\ retry'[t].kind = retry[t].kind

(* Nothing refers to a slot that is not used.                              *)
LEMMA NotFree ==
  ASSUME TurnInv
  PROVE  /\ \A w \in Waiters(ctx) : w \in TaskId /\ ~IsFree(w)
         /\ \A s \in Awaited(ctx) : s \in TaskId /\ ~IsFree(s)
         /\ \A t \in TaskId : tasks[t].parent # NoTask =>
              tasks[t].parent \in TaskId /\ ~IsFree(tasks[t].parent)
         /\ \A t \in TaskId : retry[t].owner # NoTask =>
              retry[t].owner \in TaskId /\ ~IsFree(retry[t].owner)
         /\ \A c \in TaskId : tasks[c].kind = "event" =>
              \A i \in 1 .. 2 : tasks[c].kids[i] \in TaskId /\ ~IsFree(tasks[c].kids[i])
         /\ \A i \in DOMAIN ctx.env : ctx.env[i] \in TaskId /\ ~IsFree(ctx.env[i])
         /\ ctx.prev # NoTask => ctx.prev \in TaskId /\ ~IsFree(ctx.prev)
<1>1. /\ tasks \in [TaskId -> Task] /\ retry \in [TaskId -> Retries]
      /\ ctx.wait \in [Names -> Seq(TaskId)] /\ ctx.ptasks \in SUBSET PTasks
      /\ ctx.env \in Seq(TaskId) /\ ctx.prev \in OptTask
  <2>1. ctx \in Contexts
    BY DEF TurnInv, TurnTypes
  <2>2. /\ ctx.wait \in [Names -> Seq(TaskId)] /\ ctx.ptasks \in SUBSET PTasks
        /\ ctx.env \in Seq(TaskId) /\ ctx.prev \in OptTask
    BY <2>1, ContextTypes, Zenon
  <2> QED BY <2>2 DEF TurnInv, TurnTypes
<1>2. \A w \in Waiters(ctx) : w \in TaskId /\ ~IsFree(w)
  <2>1. \A w \in Waiters(ctx) : w \in TaskId
    BY <1>1 DEF Waiters, Members
  <2> QED BY <2>1 DEF TurnInv, TaskInv, WaitInv, Waits, IsFree
<1>3. \A s \in Awaited(ctx) : s \in TaskId /\ ~IsFree(s)
  <2>1. \A s \in Awaited(ctx) : s \in TaskId
    BY <1>1 DEF Awaited, PTasks
  <2> QED BY <2>1 DEF TurnInv, TaskInv, AwaitedInv, PendingTask, IsFree
<1>4. ASSUME NEW t \in TaskId, tasks[t].parent # NoTask
      PROVE  tasks[t].parent \in TaskId /\ ~IsFree(tasks[t].parent)
  <2>1. tasks[t].parent \in TaskId
    BY <1>1, <1>4 DEF Task
  <2>2. tasks[tasks[t].parent].kind \in Composites
    BY <1>4 DEF TurnInv, TaskInv, ParentInv, ParentOK
  <2> QED BY <2>1, <2>2 DEF Composites, IsFree
<1>5. ASSUME NEW t \in TaskId, retry[t].owner # NoTask
      PROVE  retry[t].owner \in TaskId /\ ~IsFree(retry[t].owner)
  <2>1. retry[t].owner \in TaskId
    BY <1>1, <1>5 DEF Retries, OptTask
  <2>2. tasks[retry[t].owner].kind = "leaf"
    BY <1>5 DEF TurnInv, TaskInv, RetryInv, RetryOK, OwnerOf
  <2> QED BY <2>1, <2>2 DEF IsFree
<1>6. ASSUME NEW c \in TaskId, tasks[c].kind = "event", NEW i \in 1 .. 2
      PROVE  tasks[c].kids[i] \in TaskId /\ ~IsFree(tasks[c].kids[i])
  <2>1. tasks[c].kids \in Seq(TaskId)
    BY <1>1 DEF Task
  <2>2. EventOK(c)
    BY DEF TurnInv, TaskInv, EventInv
  <2>3. Len(tasks[c].kids) = 2 /\ tasks[tasks[c].kids[i]].kind = "inner"
    BY <1>6, <2>2 DEF EventOK
  <2> QED BY <2>1, <2>3 DEF IsFree
<1>7. ASSUME NEW i \in DOMAIN ctx.env PROVE ctx.env[i] \in TaskId /\ ~IsFree(ctx.env[i])
  BY <1>1 DEF TurnInv, EnvInv, Held, IsFree
<1>8. ctx.prev # NoTask => ctx.prev \in TaskId /\ ~IsFree(ctx.prev)
  BY <1>1 DEF TurnInv, EnvInv, Held, IsFree, OptTask
<1> QED BY <1>2, <1>3, <1>4, <1>5, <1>6, <1>7, <1>8

(* What a task that was there before keeps.                                *)
LEMMA GrownFields ==
  ASSUME TurnInv, NEW U, Grown(U), NEW t \in TaskId, ~IsFree(t)
  PROVE  /\ t \notin U
         /\ tasks'[t].kind = tasks[t].kind /\ tasks'[t].kids = tasks[t].kids
         /\ tasks'[t].out = tasks[t].out /\ tasks'[t].val = tasks[t].val
         /\ tasks[t].kind = "inner" => tasks'[t] = tasks[t]
         /\ retry'[t].max = retry[t].max /\ retry'[t].owner = retry[t].owner
         /\ retry'[t].kind = retry[t].kind
<1>1. t \in TaskId \ U
  BY DEF Grown
<1>2. tasks[t] \in Task
  BY DEF TurnInv, TurnTypes
<1>3. tasks'[t] = tasks[t] \/ Adopted(t, U)
  BY <1>1 DEF Grown
<1>4. /\ tasks'[t].kind = tasks[t].kind /\ tasks'[t].kids = tasks[t].kids
      /\ tasks'[t].out = tasks[t].out /\ tasks'[t].val = tasks[t].val
      /\ tasks[t].kind = "inner" => tasks'[t] = tasks[t]
  <2>1. CASE tasks'[t] = tasks[t]
    BY <2>1
  <2>2. CASE Adopted(t, U)
    <3>1. PICK c : tasks'[t] = [tasks[t] EXCEPT !.parent = c]
      BY <2>2 DEF Adopted
    <3> QED BY <1>2, <2>2, <3>1 DEF Task, Adopted
  <2> QED BY <1>3, <2>1, <2>2
<1> QED BY <1>1, <1>4 DEF Grown

(* The retry data, the parents and the waits of before are still right.    *)
LEMMA GrownTasks ==
  ASSUME TurnInv, NEW U, Grown(U), NEW t \in TaskId \ U
  PROVE  RetryOK(t)' /\ ParentOK(t)' /\ EventOK(t)'
<1>1. /\ tasks'[t] = tasks[t] \/ Adopted(t, U)
      /\ retry'[t].max = retry[t].max /\ retry'[t].owner = retry[t].owner
      /\ retry'[t].kind = retry[t].kind
  BY DEF Grown
<1>2. IsFree(t) => tasks'[t] = tasks[t]
  BY <1>1 DEF Adopted, IsFree
<1>3. tasks'[t].kind = tasks[t].kind
  BY <1>2, GrownFields
<1>4. RetryOK(t)'
  <2>1. RetryOK(t)
    BY DEF TurnInv, TaskInv, RetryInv
  <2>2. ASSUME retry[t].owner # NoTask PROVE OwnerOf(t)'
    <3>1. PICK o : o = retry[t].owner /\ o \in TaskId /\ ~IsFree(o)
      BY <2>2, NotFree
    <3>2. OwnerOf(t)
      BY <2>1, <2>2 DEF RetryOK
    <3>3. tasks'[o].kind = "leaf" /\ retry'[o].max > 0 /\ retry'[o].kind # "none"
      BY <3>1, <3>2, GrownFields DEF OwnerOf
    <3>4. tasks'[t] = tasks[t]
      BY <1>1, <3>2 DEF OwnerOf, Adopted
    <3> QED BY <1>1, <3>1, <3>2, <3>3, <3>4 DEF OwnerOf
  <2> QED BY <1>1, <1>2, <1>3, <2>1, <2>2 DEF RetryOK, IsFree
<1>5. ParentOK(t)'
  <2>1. CASE Adopted(t, U)
    <3>1. PICK c \in U : tasks'[t] = [tasks[t] EXCEPT !.parent = c] /\ tasks'[c].kind \in {"all", "any"}
      BY <2>1 DEF Adopted
    <3>2. tasks'[t].parent = c /\ tasks'[t].kind # "inner"
      BY <2>1, <3>1, <1>3 DEF TurnInv, TurnTypes, Task, Adopted
    <3> QED BY <3>1, <3>2 DEF ParentOK, Composites
  <2>2. CASE tasks'[t] = tasks[t] /\ tasks[t].parent # NoTask
    <3>1. PICK p : p = tasks[t].parent /\ p \in TaskId /\ ~IsFree(p)
      BY <2>2, NotFree
    <3>2. tasks'[p].kind = tasks[p].kind /\ tasks'[p].kids = tasks[p].kids
      BY <3>1, GrownFields
    <3>3. ParentOK(t)
      BY DEF TurnInv, TaskInv, ParentInv
    <3> QED BY <2>2, <3>1, <3>2, <3>3 DEF ParentOK
  <2>3. CASE tasks'[t] = tasks[t] /\ tasks[t].parent = NoTask
    BY <2>3 DEF ParentOK
  <2> QED BY <1>1, <2>1, <2>2, <2>3
<1>6. EventOK(t)'
  <2>1. CASE tasks[t].kind = "event"
    <3>1. PICK kids : kids = tasks[t].kids
      OBVIOUS
    <3>2. \A i \in 1 .. 2 : kids[i] \in TaskId /\ ~IsFree(kids[i])
      BY <2>1, <3>1, NotFree
    <3>3. /\ Len(kids) = 2 /\ kids[1] # kids[2]
          /\ \A i \in 1 .. 2 : tasks[kids[i]].kind = "inner" /\ tasks[kids[i]].parent = t
          /\ tasks[kids[1]].out # "failed"
          /\ tasks[kids[1]].out = "done" =>
               tasks[t].out = "done" /\ tasks[t].val = tasks[kids[1]].val
      <4>1. kids[1] \in TaskId
        BY <3>2
      <4>2. notify # kids[1]
        BY <4>1 DEF Grown, TaskId, NoTask
      <4>3. EventOK(t)
        BY DEF TurnInv, TaskInv, EventInv
      <4> QED BY <2>1, <3>1, <4>2, <4>3 DEF EventOK
    <3>4. \A i \in 1 .. 2 : tasks'[kids[i]] = tasks[kids[i]]
      BY <3>2, <3>3, GrownFields
    <3>5. /\ tasks'[t].kids = kids /\ tasks'[t].out = tasks[t].out
          /\ tasks'[t].val = tasks[t].val
      BY <2>1, <3>1, GrownFields DEF IsFree
    <3>6. tasks'[kids[1]] = tasks[kids[1]]
      BY <3>4
    <3> QED BY <1>3, <2>1, <3>3, <3>4, <3>5, <3>6 DEF EventOK
  <2>2. CASE tasks[t].kind # "event"
    BY <1>3, <2>2 DEF EventOK
  <2> QED BY <2>1, <2>2
<1> QED BY <1>4, <1>5, <1>6

LEMMA GrownWaits ==
  ASSUME TurnInv, NEW U, Grown(U)
  PROVE  /\ \A w \in Waiters(ctx) : w \notin U /\ Waits(w)'
         /\ \A s \in Awaited(ctx) : s \notin U
         /\ \A c \in TaskId : tasks[c].kind = "event" =>
              tasks[c].kids[1] \notin U /\ tasks[c].kids[2] \notin U
<1>1. ASSUME NEW w \in Waiters(ctx) PROVE w \notin U /\ Waits(w)'
  <2>1. w \in TaskId /\ ~IsFree(w) /\ Waits(w)
    BY NotFree DEF TurnInv, TaskInv, WaitInv
  <2>2. /\ w \notin U /\ tasks'[w].kind = tasks[w].kind /\ tasks'[w].out = tasks[w].out
        /\ tasks[w].kind = "inner" => tasks'[w] = tasks[w]
        /\ retry'[w].max = retry[w].max
    BY <2>1, GrownFields
  <2>3. CASE tasks[w].kind = "leaf"
    BY <2>1, <2>2, <2>3 DEF Waits, IsComplete
  <2>4. CASE tasks[w].kind # "leaf"
    <3>1. PICK p : /\ p = tasks[w].parent /\ p # NoTask /\ tasks[w].kind = "inner"
                   /\ tasks[p].kind = "event" /\ tasks[p].kids[1] = w /\ ~IsComplete(p)
      BY <2>1, <2>4 DEF Waits
    <3>2. p \in TaskId /\ ~IsFree(p)
      BY <2>1, <3>1, NotFree
    <3>3. /\ tasks'[p].kind = "event" /\ tasks'[p].kids[1] = w /\ tasks'[p].out = tasks[p].out
          /\ tasks'[w].parent = p
      BY <2>2, <3>1, <3>2, GrownFields
    <3> QED BY <2>1, <2>2, <3>1, <3>3 DEF Waits, IsComplete
  <2> QED BY <2>2, <2>3, <2>4
<1>2. \A s \in Awaited(ctx) : s \notin U
  BY NotFree, GrownFields
<1>3. ASSUME NEW c \in TaskId, tasks[c].kind = "event"
      PROVE  tasks[c].kids[1] \notin U /\ tasks[c].kids[2] \notin U
  <2>1. \A i \in 1 .. 2 : tasks[c].kids[i] \in TaskId /\ ~IsFree(tasks[c].kids[i])
    BY <1>3, NotFree
  <2>2. \A i \in 1 .. 2 : tasks[c].kids[i] \notin U
    BY <2>1, GrownFields
  <2> QED BY <2>2
<1> QED BY <1>1, <1>2, <1>3

(* One of the new tasks, u, gets an id; the others may wait for an event.  *)
LEMMA GrownAwaited ==
  ASSUME TurnInv, NEW U, Grown(U), NEW u \in U, NEW t,
         Awaited(ctx') \subseteq (Awaited(ctx) \ {t}) \cup {u},
         Waiters(ctx') \subseteq Waiters(ctx) \cup U,
         u \in Awaited(ctx') => /\ u \notin Waiters(ctx')
                               /\ tasks'[u].kind \in {"leaf", "inner"}
                               /\ tasks'[u].out = "pending",
         \A c \in U : tasks'[c].kind = "event" => tasks'[c].kids[1] \in U \ {u},
         \/ retry'[u].owner = NoTask
         \/ /\ retry'[u].owner = t /\ t \in Awaited(ctx)
            /\ \A s \in Awaited(ctx) : retry[s].owner # t
  PROVE  AwaitedInv'
<1>1. \A s \in Awaited(ctx) : s \in TaskId /\ ~IsFree(s) /\ s \notin U
  BY NotFree, GrownWaits
<1>2. u \in TaskId /\ IsFree(u)
  BY DEF Grown
<1>3. \A c \in TaskId \ U : tasks'[c].kind = "event" =>
        tasks[c].kind = "event" /\ tasks'[c].kids = tasks[c].kids
  <2>1. ASSUME NEW c \in TaskId \ U PROVE IsFree(c) => tasks'[c] = tasks[c]
    BY DEF Grown, Adopted, IsFree
  <2> QED BY <2>1, GrownFields DEF IsFree
<1>4. ASSUME NEW s \in Awaited(ctx'), s # u PROVE PendingTask(s)'
  <2>1. s \in Awaited(ctx) /\ s \in TaskId /\ ~IsFree(s) /\ s \notin U
    BY <1>1, <1>4
  <2>2. PendingTask(s)
    BY <2>1 DEF TurnInv, TaskInv, AwaitedInv
  <2>3. tasks'[s].kind = tasks[s].kind /\ tasks'[s].out = tasks[s].out
    BY <2>1, GrownFields
  <2>4. s \notin Waiters(ctx')
    BY <2>1, <2>2 DEF PendingTask
  <2>5. \A c \in TaskId : tasks'[c].kind = "event" => tasks'[c].kids[1] # s
    <3>1. \A c \in U : tasks'[c].kind = "event" => tasks'[c].kids[1] # s
      BY <2>1
    <3>2. \A c \in TaskId \ U : tasks'[c].kind = "event" => tasks'[c].kids[1] # s
      BY <1>3, <2>2 DEF PendingTask
    <3> QED BY <3>1, <3>2
  <2> QED BY <2>2, <2>3, <2>4, <2>5 DEF PendingTask, IsComplete
<1>5. ASSUME u \in Awaited(ctx') PROVE PendingTask(u)'
  <2>1. u \notin Waiters(ctx')
    BY <1>5
  <2>2. \A c \in TaskId : tasks'[c].kind = "event" => tasks'[c].kids[1] # u
    <3>1. \A c \in U : tasks'[c].kind = "event" => tasks'[c].kids[1] # u
      OBVIOUS
    <3>2. \A c \in TaskId \ U : tasks'[c].kind = "event" => tasks'[c].kids[1] # u
      BY <1>3, GrownWaits
    <3> QED BY <3>1, <3>2
  <2> QED BY <1>5, <2>1, <2>2 DEF PendingTask, IsComplete
<1>6. ASSUME NEW s \in Awaited(ctx'), NEW o, o = retry'[s].owner, o # NoTask
      PROVE  /\ tasks'[o].out = "pending" /\ o \notin Awaited(ctx')
             /\ \A v \in Awaited(ctx') : retry'[v].owner = o => v = s
  <2>1. \A v \in Awaited(ctx') : v # u => v \in Awaited(ctx) /\ v # t /\ retry'[v].owner = retry[v].owner
    BY <1>1, GrownFields
  <2>2. CASE s = u
    <3>1. o = t /\ t \in Awaited(ctx) /\ \A v \in Awaited(ctx) : retry[v].owner # t
      BY <1>6, <2>2
    <3>2. t \in TaskId /\ ~IsFree(t) /\ ~IsComplete(t) /\ t \notin U
      BY <1>1, <3>1 DEF TurnInv, TaskInv, AwaitedInv, PendingTask
    <3>3. tasks'[t].out = "pending"
      BY <3>2, GrownFields DEF IsComplete
    <3>4. t \notin Awaited(ctx')
      BY <3>2
    <3> QED BY <2>1, <2>2, <3>1, <3>3, <3>4
  <2>3. CASE s # u
    <3>1. s \in Awaited(ctx) /\ s \in TaskId /\ retry[s].owner = o
      BY <1>1, <1>6, <2>1, <2>3
    <3>2. /\ ~IsComplete(o) /\ o \notin Awaited(ctx)
          /\ \A v \in Awaited(ctx) : retry[v].owner = o => v = s
      BY <1>6, <3>1 DEF TurnInv, TaskInv, AwaitedInv
    <3>3. o \in TaskId /\ ~IsFree(o)
      BY <1>6, <3>1, NotFree
    <3>4. tasks'[o].out = "pending" /\ o \notin U
      BY <3>2, <3>3, GrownFields DEF IsComplete
    <3>5. o \notin Awaited(ctx')
      BY <3>2, <3>4
    <3>6. retry'[u].owner # o
      BY <1>6, <3>1
    <3> QED BY <2>1, <3>2, <3>4, <3>5, <3>6
  <2> QED BY <2>2, <2>3
<1>7. \A s \in Awaited(ctx') : PendingTask(s)'
  BY <1>4, <1>5
<1>8. ASSUME NEW s \in Awaited(ctx'), retry'[s].owner # NoTask
      PROVE  /\ ~IsComplete(retry[s].owner)' /\ retry'[s].owner \notin Awaited(ctx')
             /\ \A v \in Awaited(ctx') : retry'[v].owner = retry'[s].owner => v = s
  BY <1>6, <1>8 DEF IsComplete
<1> QED BY <1>7, <1>8 DEF AwaitedInv

LEMMA GrownEnv ==
  ASSUME TurnInv, NEW U, Grown(U), ctx'.prev = ctx.prev,
         ctx'.env = ctx.env \/ \E c \in TaskId : ctx'.env = Append(ctx.env, c) /\ Held(c)'
  PROVE  EnvInv'
<1>1. ctx.env \in Seq(TaskId) /\ ctx.prev \in OptTask
  BY ContextTypes, Zenon DEF TurnInv, TurnTypes
<1>2. \A i \in DOMAIN ctx.env : Held(ctx.env[i]) /\ ctx.env[i] \in TaskId /\ ~IsFree(ctx.env[i])
  BY NotFree DEF TurnInv, EnvInv
<1>3. \A i \in DOMAIN ctx.env : tasks'[ctx.env[i]].kind \notin {"free", "inner"}
  BY <1>2, GrownFields DEF Held
<1>4. ctx.prev # NoTask => tasks'[ctx.prev].kind \notin {"free", "inner"}
  BY NotFree, GrownFields DEF TurnInv, EnvInv, Held
<1>5. \A i \in DOMAIN ctx'.env : tasks'[ctx'.env[i]].kind \notin {"free", "inner"}
  <2>1. CASE ctx'.env = ctx.env
    BY <1>3, <2>1
  <2>2. CASE ctx'.env # ctx.env
    <3>1. PICK c \in TaskId : ctx'.env = Append(ctx.env, c) /\ Held(c)'
      BY <2>2
    <3> QED BY <1>1, <1>3, <3>1 DEF Held
  <2> QED BY <2>1, <2>2
<1> QED BY <1>4, <1>5 DEF EnvInv, Held

(* New tasks, given that they are what they should be.                     *)
LEMMA GrownInv ==
  ASSUME TurnInv, NEW U, Grown(U), \A u \in U : RetryOK(u)' /\ ParentOK(u)' /\ EventOK(u)'
  PROVE  RetryInv' /\ ParentInv' /\ EventInv'
<1>1. \A t \in TaskId : RetryOK(t)' /\ ParentOK(t)' /\ EventOK(t)'
  BY GrownTasks
<1> QED BY <1>1 DEF RetryInv, ParentInv, EventInv

(* A failed attempt that is not the last: a retry timer is made.           *)
LEMMA RetryStep ==
  ASSUME TurnInv, Frame, mode = "event", mode' = "event", PosTypes', ~suspended',
         notify = NoTask, notify' = NoTask, NEW id \in Nat, TaskAt(id) # NoTask,
         NEW u \in TaskId, IsFree(u), retry[TaskAt(id)].max > 0,
         tasks' = [tasks EXCEPT ![u] = NewTask("inner", <<>>)],
         retry' = [retry EXCEPT ![TaskAt(id)].attempt = @ + 1, ![u].owner = TaskAt(id)],
         ctx' = Scheduled(Popped(id), "timer", "retry", u)
  PROVE  TurnInv'
<1>1. PICK t \in TaskId : t = TaskAt(id)
  BY PoppedFields
<1>2. PICK c \in Contexts : c = Popped(id)
  BY PoppedFields
<1>3. /\ t \in Awaited(ctx) /\ PendingTask(t) /\ ctx.gen # "none"
      /\ SameProgram(ctx, c) /\ SameEvents(ctx, c) /\ Ids(c) /\ Awaited(c) = Awaited(ctx) \ {t}
  BY <1>1, <1>2, PoppedFields
<1>4. t # u /\ u \notin Awaited(ctx)
  BY <1>3, NotFree DEF IsFree
<1>5. /\ tasks \in [TaskId -> Task] /\ retry \in [TaskId -> Retries] /\ retry[t].attempt \in Nat
  BY DEF TurnInv, TurnTypes, Retries
<1>n. NewTask("inner", <<>>) \in Task /\ NewTask("inner", <<>>).kind = "inner"
      /\ NewTask("inner", <<>>).parent = NoTask /\ NewTask("inner", <<>>).out = "pending"
  BY DEF NewTask, Task, Kinds, Outcomes, TaskId, NoTask
<1>6. /\ tasks' \in [TaskId -> Task] /\ tasks'[u].kind = "inner" /\ tasks'[u].parent = NoTask
      /\ tasks'[u].out = "pending" /\ \A s \in TaskId : s # u => tasks'[s] = tasks[s]
  <2> HIDE DEF NewTask
  <2> QED BY <1>5, <1>n
<1>7. /\ retry' \in [TaskId -> Retries]
      /\ \A s \in TaskId : /\ retry'[s].max = retry[s].max /\ retry'[s].kind = retry[s].kind
                           /\ s # u => retry'[s].owner = retry[s].owner
      /\ retry'[u].owner = t
  <2>1. retry[t].attempt + 1 \in Nat
    BY <1>5
  <2>2. PICK m \in Nat : m = retry[t].attempt + 1
    BY <2>1
  <2>3. retry' = [retry EXCEPT ![t] = [retry[t] EXCEPT !.attempt = m],
                               ![u] = [retry[u] EXCEPT !.owner = t]]
    BY <1>1, <1>4, <1>5, <2>2
  <2>4. retry[t] \in Retries /\ retry[u] \in Retries /\ t \in OptTask
    BY <1>5 DEF OptTask
  <2>5. /\ [retry[t] EXCEPT !.attempt = m] \in Retries /\ [retry[u] EXCEPT !.owner = t] \in Retries
        /\ [retry[t] EXCEPT !.attempt = m].max = retry[t].max
        /\ [retry[t] EXCEPT !.attempt = m].kind = retry[t].kind
        /\ [retry[t] EXCEPT !.attempt = m].owner = retry[t].owner
        /\ [retry[u] EXCEPT !.owner = t].max = retry[u].max
        /\ [retry[u] EXCEPT !.owner = t].kind = retry[u].kind
        /\ [retry[u] EXCEPT !.owner = t].owner = t
    BY <2>4 DEF Retries
  <2>6. retry'[t] = [retry[t] EXCEPT !.attempt = m] /\ retry'[u] = [retry[u] EXCEPT !.owner = t]
        /\ \A s \in TaskId : s # t /\ s # u => retry'[s] = retry[s]
    BY <1>4, <1>5, <2>3
  <2>7. retry' \in [TaskId -> Retries]
    BY <1>5, <2>3, <2>5
  <2> QED BY <2>5, <2>6, <2>7
<1>8. Grown({u})
  BY <1>6, <1>7 DEF Grown
<1>9. /\ ctx' \in Contexts /\ SameProgram(ctx, ctx') /\ SameEvents(ctx, ctx') /\ Ids(ctx')
      /\ Awaited(ctx') = (Awaited(ctx) \ {t}) \cup {u}
  <2>1. ctx' = Scheduled(c, "timer", "retry", u) /\ "retry" \in Labels
    BY <1>2 DEF Labels
  <2>2. u \notin Awaited(c)
    BY <1>3, <1>4
  <2>3. ctx' \in Contexts /\ SameProgram(c, ctx') /\ SameEvents(c, ctx')
    BY <2>1, ScheduledKeeps
  <2>4. Ids(ctx') /\ Awaited(ctx') = Awaited(c) \cup {u}
    BY <1>3, <2>1, <2>2, ScheduledIds
  <2> QED BY <1>3, <2>3, <2>4 DEF SameProgram, SameEvents
<1>10. Waiters(ctx') = Waiters(ctx) /\ OneWait(ctx') /\ NoWaiterOverlooked'
  BY <1>9, SameWaiters
<1>11. AwaitedInv'
  <2>1. \A s \in Awaited(ctx) : retry[s].owner # t
    <3>1. t # NoTask
      BY DEF TaskId, NoTask
    <3> QED BY <1>3, <3>1 DEF TurnInv, TaskInv, AwaitedInv
  <2>2. Awaited(ctx') \subseteq (Awaited(ctx) \ {t}) \cup {u}
    BY <1>9
  <2>3. Waiters(ctx') \subseteq Waiters(ctx) \cup {u} /\ u \notin Waiters(ctx')
    BY <1>8, <1>10, GrownWaits
  <2> QED BY <1>3, <1>6, <1>7, <1>8, <2>1, <2>2, <2>3, GrownAwaited
<1>12. WaitInv'
  BY <1>8, <1>10, GrownWaits DEF WaitInv, OneWait
<1>13. RetryInv' /\ ParentInv' /\ EventInv'
  <2>1. RetryOK(u)'
    <3>1. RetryOK(t) /\ RetryOK(u)
      BY DEF TurnInv, TaskInv, RetryInv
    <3>2. tasks'[t].kind = "leaf" /\ retry'[t].max > 0 /\ retry'[t].kind # "none"
      BY <1>1, <1>4, <1>6, <1>7, <3>1 DEF RetryOK
    <3>3. OwnerOf(u)'
      BY <1>6, <1>7, <3>2 DEF OwnerOf
    <3>4. retry'[u].max = 0
      BY <1>7, <3>1 DEF RetryOK
    <3> QED BY <1>6, <3>3, <3>4 DEF RetryOK, IsFree
  <2>2. ParentOK(u)' /\ EventOK(u)'
    BY <1>6 DEF ParentOK, EventOK
  <2> QED BY <1>8, <2>1, <2>2, GrownInv
<1>14. EnvInv'
  BY <1>8, <1>9, GrownEnv DEF SameProgram
<1>15. FlowInv'
  <2>1. Instruction' = Instruction /\ ctx'.gen = ctx.gen
    BY <1>9 DEF SameProgram, Instruction, prog, Frame
  <2> QED BY <1>3, <2>1 DEF TurnInv, FlowInv
<1>16. TurnTypes' /\ IdInv'
  BY <1>6, <1>7, <1>9 DEF TurnTypes, PosTypes, OptTask, Ids, IdInv
<1> QED BY <1>10, <1>11, <1>12, <1>13, <1>14, <1>15, <1>16, TurnStep DEF TaskInv

LEMMA OnFailedStep ==
  ASSUME TurnInv, Frame, OnFailed
  PROVE  TurnInv'
<1>1. /\ mode = "event" /\ notify = NoTask /\ Current \in HistoryEvents /\ PosTypes' /\ ~suspended'
  BY OnTaken, NotSuspended DEF OnFailed, TurnInv, TurnTypes
<1>2. PICK id \in Nat : id = Current.id
  BY <1>1 DEF HistoryEvents
<1>3. TaskAt(id) # NoTask
  BY <1>2 DEF OnFailed
<1> DEFINE retried == retry[TaskAt(id)].max > 0 /\ Current.name # "fatal"
                      /\ HasAttemptLeft(retry[TaskAt(id)])
<1>4. CASE retried
  <2>1. PICK u \in TaskId :
          /\ Fresh(u)
          /\ tasks' = [tasks EXCEPT ![u] = NewTask("inner", <<>>)]
          /\ retry' = [retry EXCEPT ![TaskAt(id)].attempt = @ + 1, ![u].owner = TaskAt(id)]
          /\ ctx' = Scheduled(Popped(id), "timer", "retry", u)
          /\ UNCHANGED <<notify, mode>>
    BY <1>2, <1>4 DEF OnFailed
  <2>2. IsFree(u) /\ notify' = NoTask /\ mode' = "event"
    BY <1>1, <2>1 DEF Fresh
  <2> QED BY <1>1, <1>3, <1>4, <2>1, <2>2, RetryStep
<1>5. CASE ~retried
  <2>1. Fail(TaskAt(id)) /\ ctx' = Popped(id) /\ mode' = "resume" /\ UNCHANGED retry
    BY <1>2, <1>5 DEF OnFailed
  <2>2. Ends(TaskAt(id), Failed(tasks[TaskAt(id)], TaskAt(id)))
    <3>1. 0 \in Nat
      OBVIOUS
    <3> QED BY <1>1, <1>3, <2>1, <3>1, PoppedFields, PendingEnds
  <2> QED BY <1>1, <1>3, <2>1, <2>2, OutcomeStep
<1> QED BY <1>4, <1>5

----------------------------------------------------------------------------
(* External events.                                                        *)

(* A value more for one name.                                              *)
LEMMA OneMore ==
  ASSUME NEW T, NEW f \in [Names -> Seq(T)], NEW n \in Names, NEW v \in T
  PROVE  /\ [f EXCEPT ![n] = Append(f[n], v)] \in [Names -> Seq(T)]
         /\ Append(f[n], v) \in Seq(T)
<1>1. Append(f[n], v) \in Seq(T)
  OBVIOUS
<1> QED BY <1>1

(* The first waiter of a name is taken out.                                *)
LEMMA WaiterTaken ==
  ASSUME NEW c \in Contexts, OneWait(c), NEW n \in Names, c.wait[n] # <<>>,
         NEW d, d.wait = [c.wait EXCEPT ![n] = Tail(c.wait[n])]
  PROVE  /\ Head(c.wait[n]) \in Waiters(c) /\ Waiters(d) \subseteq Waiters(c)
         /\ Head(c.wait[n]) \notin Waiters(d) /\ OneWait(d)
         /\ d.wait \in [Names -> Seq(TaskId)] /\ Head(c.wait[n]) \in TaskId
<1>1. c.wait \in [Names -> Seq(TaskId)]
  BY ContextTypes, Zenon
<1>2. PICK w \in Seq(TaskId) : w = c.wait[n] /\ w # <<>>
  BY <1>1
<1>3. /\ Tail(w) \in Seq(TaskId) /\ Head(w) = w[1] /\ 1 \in DOMAIN w /\ Head(w) \in TaskId
      /\ \A i \in DOMAIN Tail(w) : i + 1 \in DOMAIN w /\ i + 1 # 1 /\ Tail(w)[i] = w[i + 1]
                                   /\ i \in Nat
  BY <1>2
<1>4. /\ d.wait \in [Names -> Seq(TaskId)] /\ d.wait[n] = Tail(w)
      /\ \A m \in Names : m # n => d.wait[m] = c.wait[m]
  BY <1>1, <1>2, <1>3
<1>5. \A m \in Names : \A i \in DOMAIN d.wait[m] : \E j \in DOMAIN c.wait[m] :
        /\ d.wait[m][i] = c.wait[m][j]
        /\ m = n => j # 1
  BY <1>2, <1>3, <1>4
<1>6. Waiters(d) \subseteq Waiters(c)
  BY <1>5 DEF Waiters, Members
<1>7. Head(w) \in Waiters(c)
  BY <1>2, <1>3 DEF Waiters, Members
<1>8. Head(w) \notin Waiters(d)
  <2>1. SUFFICES ASSUME NEW m \in Names, NEW i \in DOMAIN d.wait[m], d.wait[m][i] = w[1]
                 PROVE  FALSE
    BY <1>3 DEF Waiters, Members
  <2>2. PICK j \in DOMAIN c.wait[m] : d.wait[m][i] = c.wait[m][j] /\ (m = n => j # 1)
    BY <1>5
  <2>3. c.wait[m][j] = c.wait[n][1] /\ 1 \in DOMAIN c.wait[n]
    BY <1>2, <1>3, <2>1, <2>2
  <2>4. m = n /\ j = 1
    BY <2>3 DEF OneWait
  <2> QED BY <2>2, <2>4
<1>9. OneWait(d)
  <2>1. SUFFICES ASSUME NEW l \in Names, NEW m \in Names, NEW i \in DOMAIN d.wait[l],
                        NEW j \in DOMAIN d.wait[m], d.wait[l][i] = d.wait[m][j]
                 PROVE  l = m /\ i = j
    BY DEF OneWait
  <2>2. CASE l = n /\ m = n
    <3>1. i + 1 \in DOMAIN w /\ j + 1 \in DOMAIN w /\ w[i + 1] = w[j + 1] /\ i \in Nat /\ j \in Nat
      BY <1>3, <1>4, <2>1, <2>2
    <3>2. i + 1 = j + 1
      BY <1>2, <3>1 DEF OneWait
    <3> QED BY <2>2, <3>1, <3>2
  <2>3. CASE l = n /\ m # n
    <3>1. i + 1 \in DOMAIN c.wait[n] /\ d.wait[n][i] = c.wait[n][i + 1] /\ d.wait[m] = c.wait[m]
      BY <1>2, <1>3, <1>4, <2>3
    <3>2. c.wait[n][i + 1] = c.wait[m][j] /\ j \in DOMAIN c.wait[m]
      BY <2>1, <2>3, <3>1
    <3> QED BY <2>3, <3>1, <3>2 DEF OneWait
  <2>4. CASE l # n /\ m = n
    <3>1. j + 1 \in DOMAIN c.wait[n] /\ d.wait[n][j] = c.wait[n][j + 1] /\ d.wait[l] = c.wait[l]
      BY <1>2, <1>3, <1>4, <2>4
    <3>2. c.wait[n][j + 1] = c.wait[l][i] /\ i \in DOMAIN c.wait[l]
      BY <2>1, <2>4, <3>1
    <3> QED BY <2>4, <3>1, <3>2 DEF OneWait
  <2>5. CASE l # n /\ m # n
    <3>1. d.wait[l] = c.wait[l] /\ d.wait[m] = c.wait[m]
      BY <1>4, <2>5
    <3>2. c.wait[l][i] = c.wait[m][j] /\ i \in DOMAIN c.wait[l] /\ j \in DOMAIN c.wait[m]
      BY <2>1, <3>1
    <3> QED BY <3>2 DEF OneWait
  <2> QED BY <2>2, <2>3, <2>4, <2>5
<1> QED BY <1>2, <1>3, <1>4, <1>6, <1>7, <1>8, <1>9

(* An event goes to the first waiter of its name.                          *)
LEMMA DeliveredStep ==
  ASSUME TurnInv, Frame, mode = "event", mode' = "resume", PosTypes', ~suspended',
         notify = NoTask, UNCHANGED retry, NEW n \in Names, NEW v \in Nat,
         ctx.wait[n] # <<>>, Complete(Head(ctx.wait[n]), v),
         ctx' = [ctx EXCEPT !.wait[n] = Tail(@), !.got[n] = Append(@, v)]
  PROVE  TurnInv'
<1>1. ctx \in Contexts /\ ctx.wait \in [Names -> Seq(TaskId)] /\ ctx.got \in [Names -> Seq(Nat)]
  BY ContextTypes DEF TurnInv, TurnTypes
<1>2. PICK W : W = [ctx.wait EXCEPT ![n] = Tail(ctx.wait[n])]
  OBVIOUS
<1>3. PICK G : G = [ctx.got EXCEPT ![n] = Append(ctx.got[n], v)] /\ G \in [Names -> Seq(Nat)]
  BY <1>1, OneMore
<1>4. ctx' = [ctx EXCEPT !.wait = W, !.got = G]
  BY <1>1, <1>2, <1>3 DEF Contexts
<1>5. ctx'.wait = W
  BY <1>1, <1>4 DEF Contexts
<1>6. PICK t : t = Head(ctx.wait[n])
  OBVIOUS
<1>7. /\ t \in Waiters(ctx) /\ Waiters(ctx') \subseteq Waiters(ctx) /\ t \notin Waiters(ctx')
      /\ OneWait(ctx') /\ W \in [Names -> Seq(TaskId)] /\ t \in TaskId
  <2>1. OneWait(ctx)
    BY DEF TurnInv, TaskInv, WaitInv
  <2>2. ctx'.wait = [ctx.wait EXCEPT ![n] = Tail(ctx.wait[n])]
    BY <1>2, <1>5
  <2>3. /\ t \in Waiters(ctx) /\ Waiters(ctx') \subseteq Waiters(ctx) /\ t \notin Waiters(ctx')
        /\ OneWait(ctx') /\ ctx'.wait \in [Names -> Seq(TaskId)] /\ t \in TaskId
    <3>1. PICK c \in Contexts : c = ctx
      BY <1>1
    <3>2. PICK d : d = ctx'
      OBVIOUS
    <3>3. OneWait(c) /\ c.wait[n] # <<>> /\ d.wait = [c.wait EXCEPT ![n] = Tail(c.wait[n])]
      BY <2>1, <2>2, <3>1, <3>2
    <3>4. /\ Head(c.wait[n]) \in Waiters(c) /\ Waiters(d) \subseteq Waiters(c)
          /\ Head(c.wait[n]) \notin Waiters(d) /\ OneWait(d)
          /\ d.wait \in [Names -> Seq(TaskId)] /\ Head(c.wait[n]) \in TaskId
      BY <3>3, WaiterTaken
    <3> QED BY <1>6, <3>1, <3>2, <3>4
  <2> QED BY <1>5, <2>3
<1>8. /\ ctx' \in Contexts /\ SameProgram(ctx, ctx') /\ SameIds(ctx, ctx') /\ ctx'.recv = ctx.recv
  BY <1>1, <1>3, <1>4, <1>7, ZenonT(60) DEF Contexts, SameProgram, SameIds
<1>9. Waits(t)
  BY <1>7 DEF TurnInv, TaskInv, WaitInv
<1>10. Ends(t, Completed(tasks[t], v))
  <2>1. ASSUME NEW c \in TaskId, tasks[c].kind = "event", tasks[c].kids[1] = t
        PROVE  ~IsComplete(c)
    <3>1. tasks[t].kind = "inner" /\ tasks[t].parent = c
      BY <2>1 DEF TurnInv, TaskInv, EventInv, EventOK
    <3> QED BY <1>9, <3>1 DEF Waits
  <2>2. tasks[t].kind \in {"leaf", "inner"} /\ ~IsComplete(t)
    BY <1>9 DEF Waits
  <2>3. tasks' = [tasks EXCEPT ![t] = Completed(tasks[t], v)] /\ notify' = Notification(t)
    BY <1>6 DEF Complete
  <2> QED BY <1>7, <2>1, <2>2, <2>3, CompletedTask DEF Ends
<1>11. SameRetry /\ retry' \in [TaskId -> Retries] /\ IdInv'
  BY <1>8 DEF SameRetry, TurnInv, TurnTypes, IdInv, SameIds
<1>12. WaitInv' /\ \A s \in Awaited(ctx) : s # t => PendingTask(s)'
  BY <1>7, <1>10, <1>11, EndsWaits
<1>13. AwaitedInv'
  <2>1. Awaited(ctx') = Awaited(ctx)
    BY <1>8 DEF Awaited, SameIds
  <2>2. \A s \in Awaited(ctx) : s # t
    BY <1>7 DEF TurnInv, TaskInv, AwaitedInv, PendingTask
  <2>3. ASSUME NEW s \in Awaited(ctx) PROVE retry[s].owner # t
    <3>1. s \in TaskId
      BY NotFree
    <3>2. retry[s].owner # NoTask => retry[retry[s].owner].max > 0
      BY <3>1 DEF TurnInv, TaskInv, RetryInv, RetryOK, OwnerOf
    <3>3. retry[t].max = 0 /\ t # NoTask
      BY <1>7, <1>9 DEF Waits, TaskId, NoTask
    <3>4. ~(0 > 0)
      OBVIOUS
    <3> QED BY <3>2, <3>3, <3>4
  <2> QED BY <1>7, <1>10, <1>11, <1>12, <2>1, <2>2, <2>3, EndsAwaited
<1>14. NoWaiterOverlooked'
  <2>1. ASSUME NEW m \in Names PROVE ctx'.wait[m] = <<>> \/ ctx'.recv[m] = <<>>
    <3>1. CASE m = n
      BY <1>8, <3>1 DEF TurnInv, NoWaiterOverlooked
    <3>2. CASE m # n
      <4>1. ctx'.wait[m] = ctx.wait[m]
        BY <1>1, <1>2, <1>5, <3>2
      <4> QED BY <1>8, <4>1 DEF TurnInv, NoWaiterOverlooked
    <3> QED BY <3>1, <3>2
  <2> QED BY <2>1 DEF NoWaiterOverlooked
<1>15. ctx.gen # "none"
  BY DEF TurnInv, FlowInv
<1> QED BY <1>7, <1>8, <1>10, <1>11, <1>12, <1>13, <1>14, <1>15, EndsStep

LEMMA OnEventRaisedStep ==
  ASSUME TurnInv, Frame, OnEventRaised
  PROVE  TurnInv'
<1>1. /\ mode = "event" /\ notify = NoTask /\ Current \in HistoryEvents /\ PosTypes' /\ ~suspended'
      /\ UNCHANGED retry /\ ctx \in Contexts
  BY OnTaken, NotSuspended DEF OnEventRaised, TurnInv, TurnTypes
<1>2. PICK n \in Names, v \in Nat : n = Current.name /\ v = Current.val
  BY <1>1 DEF HistoryEvents, OnEventRaised, On
<1>3. CASE ctx.wait[n] # <<>>
  <2>1. /\ Complete(Head(ctx.wait[n]), v) /\ mode' = "resume"
        /\ ctx' = [ctx EXCEPT !.wait[n] = Tail(@), !.got[n] = Append(@, v)]
    BY <1>2, <1>3 DEF OnEventRaised
  <2> QED BY <1>1, <1>3, <2>1, DeliveredStep
<1>4. CASE ctx.wait[n] = <<>>
  <2>1. ctx' = [ctx EXCEPT !.recv[n] = Append(@, v)] /\ UNCHANGED <<tasks, notify, mode>>
    BY <1>2, <1>4 DEF OnEventRaised
  <2>2. ctx.recv \in [Names -> Seq(Nat)]
    BY <1>1, ContextTypes, Zenon
  <2>3. PICK R : R = [ctx.recv EXCEPT ![n] = Append(ctx.recv[n], v)] /\ R \in [Names -> Seq(Nat)]
    BY <2>2, OneMore
  <2>4. ctx' = [ctx EXCEPT !.recv = R]
    BY <1>1, <2>1, <2>3 DEF Contexts
  <2>5. /\ ctx' \in Contexts /\ SameProgram(ctx, ctx') /\ SameIds(ctx, ctx') /\ ctx'.recv = R
        /\ ctx'.wait = ctx.wait
    BY <1>1, <2>3, <2>4 DEF Contexts, SameProgram, SameIds
  <2>6. IdInv' /\ Awaited(ctx') = Awaited(ctx)
    BY <2>5 DEF TurnInv, IdInv, SameIds, Awaited
  <2>7. TaskInv'
    BY <1>1, <2>1, <2>5, <2>6, SameTasks DEF TurnInv
  <2>8. FlowInv'
    BY <1>1, <2>1, <2>5, EventFlow DEF AtEvent, SameProgram, SameIds
  <2>9. NoWaiterOverlooked'
    BY <1>4, <2>2, <2>3, <2>5 DEF TurnInv, NoWaiterOverlooked
  <2>10. EnvInv'
    BY <2>1, <2>5 DEF TurnInv, EnvInv, Held, SameProgram
  <2>11. TurnTypes'
    BY <1>1, <2>1, <2>5 DEF TurnInv, TurnTypes, PosTypes
  <2> QED BY <1>1, <2>1, <2>6, <2>7, <2>8, <2>9, <2>10, <2>11, TurnStep
<1> QED BY <1>3, <1>4

----------------------------------------------------------------------------
(* Calls of the program.                                                   *)

LEMMA NewTaskFields ==
  ASSUME NEW kind \in Kinds, NEW s \in Seq(TaskId)
  PROVE  /\ NewTask(kind, s) \in Task
         /\ NewTask(kind, s).kind = kind /\ NewTask(kind, s).kids = s
         /\ NewTask(kind, s).parent = NoTask /\ NewTask(kind, s).out = "pending"
         /\ NewTask(kind, s).exc = NoTask /\ NewTask(kind, s).val = 0
BY DEF NewTask, Task, Outcomes, TaskId, NoTask

(* A call that put task t in the next register.                            *)
LEMMA AssignedFields ==
  ASSUME ctx \in Contexts, NEW t \in TaskId
  PROVE  /\ Assigned(t) \in Contexts /\ Assigned(t).gen = ctx.gen
         /\ Assigned(t).prev = ctx.prev /\ Assigned(t).env = Append(ctx.env, t)
         /\ SameIds(ctx, Assigned(t)) /\ SameEvents(ctx, Assigned(t))
<1>1. ctx.pc \in Nat /\ ctx.env \in Seq(TaskId)
  BY ContextTypes, Zenon
<1>2. PICK p \in Nat : p = ctx.pc + 1
  BY <1>1
<1>3. PICK E \in Seq(TaskId) : E = Append(ctx.env, t)
  <2>1. Append(ctx.env, t) \in Seq(TaskId)
    BY <1>1
  <2> QED BY <2>1
<1>4. Assigned(t) = [ctx EXCEPT !.pc = p, !.env = E]
  BY <1>2, <1>3 DEF Assigned, Contexts
<1> QED BY <1>3, <1>4, ZenonT(60) DEF Contexts, SameIds, SameEvents

LEMMA RunGrown ==
  ASSUME TurnInv, Frame, mode = "run", mode' = "run",
         UNCHANGED <<pos, suspended, buffer, drain>>, NEW U, Grown(U),
         tasks' \in [TaskId -> Task], retry' \in [TaskId -> Retries], ctx' \in Contexts,
         ctx'.gen = ctx.gen, ctx'.prev = ctx.prev,
         NEW c \in TaskId, ctx'.env = Append(ctx.env, c), Held(c)',
         Ids(ctx'), WaitInv', AwaitedInv', NoWaiterOverlooked',
         \A u \in U : RetryOK(u)' /\ ParentOK(u)' /\ EventOK(u)'
  PROVE  TurnInv'
<1>1. PosTypes' /\ ctx.gen # "none" /\ ~suspended
  BY PosKept, Running
<1>2. RetryInv' /\ ParentInv' /\ EventInv'
  BY GrownInv
<1>3. EnvInv'
  BY GrownEnv
<1>4. IdInv'
  BY DEF Ids, IdInv
<1>5. FlowInv'
  BY <1>1 DEF Grown, FlowInv
<1>6. TurnTypes'
  BY <1>1 DEF TurnTypes, PosTypes, Grown, OptTask
<1> QED BY <1>2, <1>3, <1>4, <1>5, <1>6, TurnStep DEF TaskInv

(* One new leaf in slot t.                                                 *)
LEMMA NewLeaf ==
  ASSUME TurnInv, mode = "run", UNCHANGED notify, NEW t \in TaskId, IsFree(t),
         NEW rec \in Task, rec.kind = "leaf", rec.parent = NoTask,
         tasks' = [tasks EXCEPT ![t] = rec],
         NEW r \in Retries, retry' = [retry EXCEPT ![t] = r], r.owner = NoTask,
         r.max > 0 => r.kind # "none"
  PROVE  /\ Grown({t}) /\ tasks' \in [TaskId -> Task] /\ retry' \in [TaskId -> Retries]
         /\ Held(t)' /\ RetryOK(t)' /\ ParentOK(t)' /\ EventOK(t)'
         /\ tasks'[t] = rec /\ retry'[t] = r
<1>1. tasks \in [TaskId -> Task] /\ retry \in [TaskId -> Retries] /\ notify = NoTask
  BY Running DEF TurnInv, TurnTypes
<1>2. /\ tasks' \in [TaskId -> Task] /\ retry' \in [TaskId -> Retries]
      /\ tasks'[t] = rec /\ retry'[t] = r
      /\ \A s \in TaskId : s # t => tasks'[s] = tasks[s] /\ retry'[s] = retry[s]
  BY <1>1
<1>3. Grown({t})
  BY <1>1, <1>2 DEF Grown
<1>4. Held(t)' /\ RetryOK(t)' /\ ParentOK(t)' /\ EventOK(t)'
  BY <1>2 DEF Held, RetryOK, ParentOK, EventOK, IsFree
<1> QED BY <1>2, <1>3, <1>4

LEMMA RunScheduleStep ==
  ASSUME TurnInv, Frame, RunSchedule
  PROVE  TurnInv'
<1>1. PICK i : i = Instruction
  OBVIOUS
<1>2. PICK t \in TaskId :
        /\ Fresh(t)
        /\ tasks' = [tasks EXCEPT ![t] = NewTask("leaf", <<>>)]
        /\ retry' = [retry EXCEPT ![t] = [NoRetry EXCEPT
             !.max = i.max, !.kind = i.kind, !.name = i.name]]
        /\ ctx' = Scheduled(Assigned(t), i.kind, i.name, t)
  BY <1>1 DEF RunSchedule
<1>3. /\ mode = "run" /\ mode' = "run" /\ UNCHANGED <<notify, pos, suspended, buffer, drain>>
      /\ ctx \in Contexts /\ IsFree(t)
  BY <1>2, Running DEF RunSchedule, AtInstruction, Fresh
<1>4. i.kind \in {"activity", "child", "timer"} /\ i.name \in STRING /\ i.max \in Nat
  <2>1. i \in Instructions /\ i.op = "schedule"
    BY <1>1, InstructionTyped DEF RunSchedule, AtInstruction, TurnInv
  <2> QED BY <2>1 DEF Instructions
<1>5. PICK r \in Retries : /\ retry' = [retry EXCEPT ![t] = r]
                           /\ r.owner = NoTask /\ r.kind # "none"
  <2>1. i.name \in Labels
    BY <1>4 DEF Labels
  <2>2. PICK r : r = [NoRetry EXCEPT !.max = i.max, !.kind = i.kind, !.name = i.name]
    OBVIOUS
  <2>3. r = [max |-> i.max, attempt |-> 1, owner |-> NoTask, kind |-> i.kind, name |-> i.name]
    BY <2>2 DEF NoRetry
  <2>4. r \in Retries /\ r.owner = NoTask /\ r.kind # "none"
    BY <1>4, <2>1, <2>3 DEF Retries, OptTask
  <2> QED BY <1>2, <2>2, <2>4
<1>6. PICK rec \in Task : /\ tasks' = [tasks EXCEPT ![t] = rec] /\ rec.kind = "leaf"
                          /\ rec.parent = NoTask /\ rec.out = "pending"
  <2>1. "leaf" \in Kinds /\ <<>> \in Seq(TaskId)
    BY DEF Kinds
  <2>2. PICK rec : rec = NewTask("leaf", <<>>)
    OBVIOUS
  <2>3. /\ rec \in Task /\ rec.kind = "leaf" /\ rec.parent = NoTask /\ rec.out = "pending"
    BY <2>1, <2>2, NewTaskFields
  <2> QED BY <1>2, <2>2, <2>3
<1>7. /\ Grown({t}) /\ tasks' \in [TaskId -> Task] /\ retry' \in [TaskId -> Retries]
      /\ Held(t)' /\ RetryOK(t)' /\ ParentOK(t)' /\ EventOK(t)'
      /\ tasks'[t] = rec /\ retry'[t] = r
  BY <1>3, <1>5, <1>6, NewLeaf
<1>8. /\ ctx' \in Contexts /\ ctx'.gen = ctx.gen /\ ctx'.prev = ctx.prev
      /\ ctx'.env = Append(ctx.env, t) /\ SameEvents(ctx, ctx') /\ Ids(ctx')
      /\ Awaited(ctx') = Awaited(ctx) \cup {t}
  <2>1. PICK c \in Contexts : c = Assigned(t)
    BY <1>3, AssignedFields
  <2>2. /\ c.gen = ctx.gen /\ c.prev = ctx.prev /\ c.env = Append(ctx.env, t)
        /\ SameIds(ctx, c) /\ SameEvents(ctx, c)
    BY <1>3, <2>1, AssignedFields
  <2>3. PICK kind \in {"activity", "child", "timer"}, name \in Labels :
          ctx' = Scheduled(c, kind, name, t)
    BY <1>2, <1>4, <2>1 DEF Labels
  <2>4. ctx' \in Contexts /\ SameProgram(c, ctx') /\ SameEvents(c, ctx')
    BY <2>3, ScheduledKeeps
  <2>5. Ids(c) /\ Awaited(c) = Awaited(ctx)
    BY <2>2 DEF TurnInv, IdInv, Ids, SameIds, Awaited
  <2>6. t \notin Awaited(c)
    BY <1>3, <2>5, NotFree
  <2>7. Ids(ctx') /\ Awaited(ctx') = Awaited(c) \cup {t}
    BY <2>3, <2>5, <2>6, ScheduledIds
  <2> QED BY <2>2, <2>4, <2>5, <2>7 DEF SameProgram, SameEvents
<1>9. Waiters(ctx') = Waiters(ctx) /\ OneWait(ctx') /\ NoWaiterOverlooked'
  BY <1>8, SameWaiters
<1>10. WaitInv'
  BY <1>7, <1>9, GrownWaits DEF WaitInv, OneWait
<1>11. AwaitedInv'
  <2>1. NoTask \notin Awaited(ctx)
    BY NotFree DEF TaskId, NoTask
  <2>2. Awaited(ctx') \subseteq (Awaited(ctx) \ {NoTask}) \cup {t}
    BY <1>8, <2>1
  <2>3. Waiters(ctx') \subseteq Waiters(ctx) \cup {t} /\ t \notin Waiters(ctx')
    BY <1>7, <1>9, GrownWaits
  <2> QED BY <1>5, <1>6, <1>7, <2>2, <2>3, GrownAwaited
<1> QED BY <1>3, <1>7, <1>8, <1>9, <1>10, <1>11, RunGrown

(* A call that makes one leaf with no id, which may wait for an event.     *)
LEMMA NewLeafStep ==
  ASSUME TurnInv, Frame, mode = "run", mode' = "run",
         UNCHANGED <<notify, retry, pos, suspended, buffer, drain>>,
         NEW t \in TaskId, IsFree(t),
         NEW rec \in Task, rec.kind = "leaf", rec.parent = NoTask,
         tasks' = [tasks EXCEPT ![t] = rec],
         ctx' \in Contexts, ctx'.gen = ctx.gen, ctx'.prev = ctx.prev,
         ctx'.env = Append(ctx.env, t), SameIds(ctx, ctx'), OneWait(ctx'),
         Waiters(ctx') \subseteq Waiters(ctx) \cup {t},
         t \in Waiters(ctx') => rec.out = "pending", NoWaiterOverlooked'
  PROVE  TurnInv'
<1>1. retry \in [TaskId -> Retries] /\ retry[t].max = 0 /\ retry[t].owner = NoTask
  BY DEF TurnInv, TurnTypes, TaskInv, RetryInv, RetryOK
<1>2. PICK r \in Retries : r = retry[t] /\ r.owner = NoTask /\ r.max = 0
  BY <1>1
<1>3. retry' = [retry EXCEPT ![t] = r]
  BY <1>1, <1>2
<1>4. ~(r.max > 0)
  <2>1. ~(0 > 0)
    OBVIOUS
  <2> QED BY <1>2, <2>1
<1>5. /\ Grown({t}) /\ tasks' \in [TaskId -> Task] /\ retry' \in [TaskId -> Retries]
      /\ Held(t)' /\ RetryOK(t)' /\ ParentOK(t)' /\ EventOK(t)'
      /\ tasks'[t] = rec /\ retry'[t] = r
  BY <1>2, <1>3, <1>4, NewLeaf
<1>6. Ids(ctx') /\ Awaited(ctx') = Awaited(ctx)
  BY DEF TurnInv, IdInv, Ids, SameIds, Awaited
<1>7. WaitInv'
  <2>1. t \in Waiters(ctx') => Waits(t)'
    BY <1>2, <1>5 DEF Waits, IsComplete
  <2>2. \A w \in Waiters(ctx') : Waits(w)'
    BY <1>5, <2>1, GrownWaits
  <2> QED BY <2>2 DEF WaitInv, OneWait
<1>8. AwaitedInv'
  <2>1. NoTask \notin Awaited(ctx)
    BY NotFree DEF TaskId, NoTask
  <2>2. Awaited(ctx') \subseteq (Awaited(ctx) \ {NoTask}) \cup {t}
    BY <1>6, <2>1
  <2>3. t \notin Awaited(ctx')
    BY <1>5, <1>6, GrownWaits
  <2>4. t \in Awaited(ctx') => /\ t \notin Waiters(ctx')
                               /\ tasks'[t].kind \in {"leaf", "inner"}
                               /\ tasks'[t].out = "pending"
    BY <2>3
  <2>5. \A c \in {t} : tasks'[c].kind = "event" => tasks'[c].kids[1] \in {t} \ {t}
    BY <1>5
  <2>6. retry'[t].owner = NoTask
    BY <1>2, <1>5
  <2>7. PICK U : U = {t}
    OBVIOUS
  <2>8. /\ Grown(U) /\ t \in U /\ Awaited(ctx') \subseteq (Awaited(ctx) \ {NoTask}) \cup {t}
        /\ Waiters(ctx') \subseteq Waiters(ctx) \cup U
        /\ \A c \in U : tasks'[c].kind = "event" => tasks'[c].kids[1] \in U \ {t}
    BY <1>5, <2>2, <2>5, <2>7
  <2> QED BY <2>4, <2>6, <2>8, GrownAwaited
<1> QED BY <1>5, <1>6, <1>7, <1>8, RunGrown

LEMMA RunWaitNowStep ==
  ASSUME TurnInv, Frame, RunWaitNow
  PROVE  TurnInv'
<1>1. Instruction \in Instructions /\ Instruction.op = "wait"
  BY InstructionTyped DEF RunWaitNow, AtInstruction, TurnInv
<1>2. PICK n \in Names : n = Instruction.name
  BY <1>1 DEF Instructions
<1>3. PICK t \in TaskId :
        /\ Fresh(t)
        /\ IF ctx.recv[n] # <<>>
           THEN /\ tasks' = [tasks EXCEPT ![t] =
                               Completed(NewTask("leaf", <<>>), Head(ctx.recv[n]))]
                /\ ctx' = [Assigned(t) EXCEPT !.recv[n] = Tail(@),
                             !.got[n] = Append(@, Head(ctx.recv[n]))]
           ELSE /\ tasks' = [tasks EXCEPT ![t] = Failed(NewTask("leaf", <<>>), t)]
                /\ ctx' = Assigned(t)
  BY <1>2 DEF RunWaitNow
<1>4. /\ mode = "run" /\ mode' = "run" /\ UNCHANGED <<notify, retry, pos, suspended, buffer, drain>>
      /\ ctx \in Contexts /\ IsFree(t)
  BY <1>3, Running DEF RunWaitNow, AtInstruction, Fresh
<1>5. PICK c \in Contexts : c = Assigned(t)
  BY <1>4, AssignedFields
<1>6. /\ c.gen = ctx.gen /\ c.prev = ctx.prev /\ c.env = Append(ctx.env, t)
      /\ SameIds(ctx, c) /\ SameEvents(ctx, c)
  BY <1>4, <1>5, AssignedFields
<1>7. PICK new \in Task : new = NewTask("leaf", <<>>) /\ new.kind = "leaf" /\ new.parent = NoTask
  <2>1. "leaf" \in Kinds /\ <<>> \in Seq(TaskId)
    BY DEF Kinds
  <2> QED BY <2>1, NewTaskFields, ZenonT(60)
<1>8. CASE ctx.recv[n] = <<>>
  <2>1. PICK rec \in Task : /\ tasks' = [tasks EXCEPT ![t] = rec]
                            /\ rec.kind = "leaf" /\ rec.parent = NoTask
    <3>1. PICK rec : rec = Failed(new, t)
      OBVIOUS
    <3>2. rec \in Task /\ rec.kind = "leaf" /\ rec.parent = NoTask
      BY <1>7, <3>1 DEF Failed, Task, Outcomes
    <3> QED BY <1>3, <1>7, <1>8, <3>1, <3>2
  <2>2. ctx' = c
    BY <1>3, <1>5, <1>8
  <2>3. SameEvents(ctx, ctx') /\ SameIds(ctx, ctx')
    BY <1>6, <2>2
  <2>4. Waiters(ctx') = Waiters(ctx) /\ OneWait(ctx') /\ NoWaiterOverlooked'
    BY <2>3, SameWaiters
  <2>5. t \notin Waiters(ctx')
    BY <1>4, <2>4, NotFree
  <2> QED BY <1>4, <1>6, <2>1, <2>2, <2>3, <2>4, <2>5, NewLeafStep
<1>9. CASE ctx.recv[n] # <<>>
  <2>1. ctx.recv \in [Names -> Seq(Nat)] /\ ctx.got \in [Names -> Seq(Nat)]
    BY <1>4, ContextTypes, Zenon
  <2>2. PICK v \in Nat : v = Head(ctx.recv[n])
    BY <1>9, <2>1
  <2>3. PICK G \in [Names -> Seq(Nat)] : G = [ctx.got EXCEPT ![n] = Append(ctx.got[n], v)]
    BY <2>1, OneMore
  <2>4. PICK R \in [Names -> Seq(Nat)] : R = [ctx.recv EXCEPT ![n] = Tail(ctx.recv[n])]
    <3>1. Tail(ctx.recv[n]) \in Seq(Nat)
      BY <1>9, <2>1
    <3> QED BY <2>1, <3>1
  <2>5. c.recv = ctx.recv /\ c.got = ctx.got
    BY <1>6 DEF SameEvents
  <2>6. ctx' = [c EXCEPT !.recv = R, !.got = G]
    <3>1. ctx' = [c EXCEPT !.recv[n] = Tail(@), !.got[n] = Append(@, v)]
      BY <1>3, <1>5, <1>9, <2>2
    <3> QED BY <2>3, <2>4, <2>5, <3>1 DEF Contexts
  <2>7. /\ ctx' \in Contexts /\ ctx'.gen = c.gen /\ ctx'.prev = c.prev /\ ctx'.env = c.env
        /\ SameIds(c, ctx') /\ ctx'.wait = c.wait /\ ctx'.recv = R
    BY <2>6 DEF Contexts, SameIds
  <2>8. SameIds(ctx, ctx') /\ ctx'.wait = ctx.wait
    BY <1>6, <2>7 DEF SameIds, SameEvents
  <2>9. Waiters(ctx') = Waiters(ctx) /\ OneWait(ctx')
    BY <2>8 DEF TurnInv, TaskInv, WaitInv, Waiters, OneWait
  <2>10. t \notin Waiters(ctx')
    BY <1>4, <2>9, NotFree
  <2>11. NoWaiterOverlooked'
    <3>1. ASSUME NEW m \in Names PROVE ctx'.wait[m] = <<>> \/ ctx'.recv[m] = <<>>
      <4>1. ctx.wait[m] = <<>> \/ ctx.recv[m] = <<>>
        BY DEF TurnInv, NoWaiterOverlooked
      <4>2. m # n => R[m] = ctx.recv[m]
        BY <2>1, <2>4
      <4> QED BY <1>9, <2>7, <2>8, <4>1, <4>2
    <3> QED BY <3>1 DEF NoWaiterOverlooked
  <2>12. PICK rec \in Task : /\ tasks' = [tasks EXCEPT ![t] = rec]
                             /\ rec.kind = "leaf" /\ rec.parent = NoTask
    <3>1. PICK rec : rec = Completed(new, v)
      OBVIOUS
    <3>2. rec \in Task /\ rec.kind = "leaf" /\ rec.parent = NoTask
      BY <1>7, <3>1 DEF Completed, Task, Outcomes
    <3> QED BY <1>3, <1>7, <1>9, <2>2, <3>1, <3>2
  <2> QED BY <1>4, <1>6, <2>7, <2>8, <2>9, <2>10, <2>11, <2>12, NewLeafStep
<1> QED BY <1>8, <1>9

(* One more waiter for a name.                                             *)
LEMMA WaiterAdded ==
  ASSUME NEW c \in Contexts, OneWait(c), NEW n \in Names, NEW t \in TaskId, t \notin Waiters(c),
         NEW d, d.wait[n] = Append(c.wait[n], t),
         \A m \in Names : m # n => d.wait[m] = c.wait[m]
  PROVE  Waiters(d) \subseteq Waiters(c) \cup {t} /\ OneWait(d)
<1>1. c.wait \in [Names -> Seq(TaskId)]
  BY ContextTypes, Zenon
<1>2. PICK w \in Seq(TaskId) : w = c.wait[n]
  BY <1>1
<1>3. PICK x \in Seq(TaskId) : x = Append(w, t)
  <2>1. Append(w, t) \in Seq(TaskId)
    OBVIOUS
  <2> QED BY <2>1
<1>4. \A i \in DOMAIN x : (i \in DOMAIN w /\ x[i] = w[i]) \/ (i = Len(w) + 1 /\ x[i] = t)
  BY <1>3
<1>5. d.wait[n] = x
  BY <1>2, <1>3
<1>6. \A m \in Names : \A i \in DOMAIN d.wait[m] :
        \/ i \in DOMAIN c.wait[m] /\ d.wait[m][i] = c.wait[m][i]
        \/ m = n /\ i = Len(w) + 1 /\ d.wait[m][i] = t
  BY <1>2, <1>4, <1>5
<1>7. \A m \in Names : \A i \in DOMAIN c.wait[m] : c.wait[m][i] \in Waiters(c)
  BY DEF Waiters, Members
<1>8. Waiters(d) \subseteq Waiters(c) \cup {t}
  BY <1>6, <1>7 DEF Waiters, Members
<1>9. OneWait(d)
  <2>1. SUFFICES ASSUME NEW l \in Names, NEW m \in Names, NEW i \in DOMAIN d.wait[l],
                        NEW j \in DOMAIN d.wait[m], d.wait[l][i] = d.wait[m][j]
                 PROVE  l = m /\ i = j
    BY DEF OneWait
  <2>2. CASE d.wait[l][i] = t
    <3>1. l = n /\ i = Len(w) + 1
      BY <1>6, <1>7, <2>2
    <3>2. m = n /\ j = Len(w) + 1
      BY <1>6, <1>7, <2>1, <2>2, ZenonT(60)
    <3> QED BY <3>1, <3>2
  <2>3. CASE d.wait[l][i] # t
    <3>1. i \in DOMAIN c.wait[l] /\ d.wait[l][i] = c.wait[l][i]
      BY <1>6, <2>3
    <3>2. j \in DOMAIN c.wait[m] /\ d.wait[m][j] = c.wait[m][j]
      BY <1>6, <2>1, <2>3
    <3>3. c.wait[l][i] = c.wait[m][j] /\ i \in DOMAIN c.wait[l] /\ j \in DOMAIN c.wait[m]
      BY <2>1, <3>1, <3>2
    <3> QED BY <3>3 DEF OneWait
  <2> QED BY <2>2, <2>3
<1> QED BY <1>8, <1>9

(* A wait that registers leaves no event of its name behind.               *)
LEMMA WaiterAddedQuiet ==
  ASSUME TurnInv, NEW n \in Names, ctx.recv[n] = <<>>, ctx'.recv = ctx.recv,
         \A m \in Names : m # n => ctx'.wait[m] = ctx.wait[m]
  PROVE  NoWaiterOverlooked'
BY DEF TurnInv, NoWaiterOverlooked

LEMMA RunWaitBeforeUpgradeStep ==
  ASSUME TurnInv, Frame, RunWaitBeforeUpgrade
  PROVE  TurnInv'
<1>1. Instruction \in Instructions /\ Instruction.op = "wait"
  BY InstructionTyped DEF RunWaitBeforeUpgrade, AtInstruction, TurnInv
<1>2. PICK n \in Names : n = Instruction.name
  BY <1>1 DEF Instructions
<1>3. PICK t \in TaskId :
        /\ Fresh(t)
        /\ tasks' = [tasks EXCEPT ![t] = NewTask("leaf", <<>>)]
        /\ ctx' = [Assigned(t) EXCEPT !.wait[n] = Append(@, t)]
  BY <1>2 DEF RunWaitBeforeUpgrade
<1>4. /\ mode = "run" /\ mode' = "run" /\ UNCHANGED <<notify, retry, pos, suspended, buffer, drain>>
      /\ ctx \in Contexts /\ IsFree(t) /\ ctx.recv[n] = <<>>
  BY <1>2, <1>3, Running DEF RunWaitBeforeUpgrade, AtInstruction, Fresh, Registers
<1>5. PICK c \in Contexts : c = Assigned(t)
  BY <1>4, AssignedFields
<1>6. /\ c.gen = ctx.gen /\ c.prev = ctx.prev /\ c.env = Append(ctx.env, t)
      /\ SameIds(ctx, c) /\ SameEvents(ctx, c)
  BY <1>4, <1>5, AssignedFields
<1>7. PICK rec \in Task : /\ tasks' = [tasks EXCEPT ![t] = rec] /\ rec.out = "pending"
                          /\ rec.kind = "leaf" /\ rec.parent = NoTask
  <2>1. "leaf" \in Kinds /\ <<>> \in Seq(TaskId)
    BY DEF Kinds
  <2>2. PICK rec : rec = NewTask("leaf", <<>>)
    OBVIOUS
  <2>3. /\ rec \in Task /\ rec.kind = "leaf" /\ rec.parent = NoTask /\ rec.out = "pending"
    BY <2>1, <2>2, NewTaskFields
  <2> QED BY <1>3, <2>2, <2>3
<1>8. PICK W : W = [c.wait EXCEPT ![n] = Append(c.wait[n], t)]
  OBVIOUS
<1>9. ctx' = [c EXCEPT !.wait = W]
  BY <1>3, <1>5, <1>8 DEF Contexts
<1>10. OneWait(c) /\ Waiters(c) = Waiters(ctx) /\ t \notin Waiters(c)
  <2>1. Waiters(c) = Waiters(ctx) /\ OneWait(c)
    BY <1>6 DEF TurnInv, TaskInv, WaitInv, Waiters, OneWait, SameEvents
  <2> QED BY <1>4, <2>1, NotFree
<1>11. PICK d : d = ctx'
  OBVIOUS
<1>12. d.wait = W
  BY <1>9, <1>11 DEF Contexts
<1>13. Waiters(d) \subseteq Waiters(c) \cup {t} /\ OneWait(d) /\ W \in [Names -> Seq(TaskId)]
  <2>1. c.wait \in [Names -> Seq(TaskId)]
    BY ContextTypes, Zenon
  <2>2. W \in [Names -> Seq(TaskId)]
    BY <1>8, <2>1, OneMore
  <2>3. d.wait[n] = Append(c.wait[n], t) /\ \A m \in Names : m # n => d.wait[m] = c.wait[m]
    BY <1>8, <1>12, <2>1
  <2>4. OneWait(c) /\ t \notin Waiters(c)
    BY <1>10
  <2> QED BY <2>2, <2>3, <2>4, WaiterAdded
<1>14. /\ d \in Contexts /\ d.gen = c.gen /\ d.prev = c.prev /\ d.env = c.env
       /\ SameIds(c, d) /\ d.recv = c.recv
  BY <1>9, <1>11, <1>13 DEF Contexts, SameIds
<1>15. SameIds(ctx, ctx')
  BY <1>6, <1>11, <1>14 DEF SameIds
<1>16. NoWaiterOverlooked'
  <2>1. ctx'.recv = ctx.recv /\ c.wait = ctx.wait /\ ctx'.wait = W
    BY <1>6, <1>11, <1>12, <1>14 DEF SameEvents
  <2>2. c.wait \in [Names -> Seq(TaskId)]
    BY ContextTypes, Zenon
  <2>3. \A m \in Names : m # n => ctx'.wait[m] = ctx.wait[m]
    BY <1>8, <2>1, <2>2
  <2> QED BY <1>4, <2>1, <2>3, WaiterAddedQuiet
<1> QED BY <1>4, <1>6, <1>7, <1>10, <1>11, <1>13, <1>14, <1>15, <1>16, NewLeafStep

(* The three task objects of a wait: the event, its timer, and the wait.   *)
WaitMade(e, x, w) ==
  /\ Grown({e, x, w}) /\ tasks' \in [TaskId -> Task] /\ Held(w)'
  /\ \A u \in {e, x, w} : RetryOK(u)' /\ ParentOK(u)' /\ EventOK(u)'
  /\ Waits(e)' /\ tasks'[x].kind = "inner" /\ tasks'[x].out = "pending"
  /\ \A u \in {e, x, w} : tasks'[u].kind = "event" => tasks'[u].kids[1] = e
  /\ retry'[x].owner = NoTask /\ IsFree(e) /\ IsFree(x) /\ IsFree(w)

LEMMA NewWait ==
  ASSUME TurnInv, mode = "run", UNCHANGED <<notify, retry>>, NEW e \in TaskId, NEW x \in TaskId,
         NEW w \in TaskId, e # x, e # w, x # w, EventWithTimeout(e, x, w)
  PROVE  WaitMade(e, x, w)
<1>1. tasks \in [TaskId -> Task] /\ notify = NoTask /\ IsFree(e) /\ IsFree(x) /\ IsFree(w)
  BY Running DEF TurnInv, TurnTypes, EventWithTimeout, Fresh
<1>2. PICK new \in Task : /\ new = NewTask("inner", <<>>) /\ new.kind = "inner"
                          /\ new.out = "pending" /\ new.val = 0
  <2>1. "inner" \in Kinds /\ <<>> \in Seq(TaskId)
    BY DEF Kinds
  <2>2. PICK new : new = NewTask("inner", <<>>)
    OBVIOUS
  <2>3. new \in Task /\ new.kind = "inner" /\ new.out = "pending" /\ new.val = 0
    BY <2>1, <2>2, NewTaskFields
  <2> QED BY <2>2, <2>3
<1>3. PICK in : in = [new EXCEPT !.parent = w]
  OBVIOUS
<1>4. in \in Task /\ in.kind = "inner" /\ in.parent = w /\ in.out = "pending" /\ in.val = 0
  BY <1>2, <1>3 DEF Task
<1>5. PICK s \in Seq(TaskId) : s = <<e, x>> /\ Len(s) = 2 /\ s[1] = e /\ s[2] = x
  <2>1. <<e, x>> \in Seq(TaskId)
    OBVIOUS
  <2> QED BY <2>1
<1>6. PICK ev \in Task : /\ ev = NewTask("event", s) /\ ev.kind = "event" /\ ev.kids = s
                         /\ ev.parent = NoTask /\ ev.out = "pending"
  <2>1. "event" \in Kinds
    BY DEF Kinds
  <2>2. PICK ev : ev = NewTask("event", s)
    OBVIOUS
  <2>3. /\ ev \in Task /\ ev.kind = "event" /\ ev.kids = s
        /\ ev.parent = NoTask /\ ev.out = "pending"
    BY <2>1, <2>2, NewTaskFields
  <2> QED BY <2>2, <2>3
<1>7. tasks' = [tasks EXCEPT ![e] = in, ![x] = in, ![w] = ev]
  BY <1>2, <1>3, <1>5, <1>6 DEF EventWithTimeout
<1>8. /\ tasks' \in [TaskId -> Task] /\ tasks'[e] = in /\ tasks'[x] = in /\ tasks'[w] = ev
      /\ \A t \in TaskId \ {e, x, w} : tasks'[t] = tasks[t]
  BY <1>1, <1>4, <1>6, <1>7
<1>9. Grown({e, x, w})
  BY <1>1, <1>8 DEF Grown
<1>10. \A u \in {e, x, w} : retry[u].max = 0 /\ retry[u].owner = NoTask
  BY <1>1 DEF TurnInv, TaskInv, RetryInv, RetryOK
<1>11. \A u \in {e, x, w} : RetryOK(u)'
  <2>1. \A u \in {e, x, w} : tasks'[u].kind # "free"
    BY <1>4, <1>6, <1>8
  <2>2. ~(0 > 0)
    OBVIOUS
  <2> QED BY <1>10, <2>1, <2>2 DEF RetryOK, IsFree
<1>12. ParentOK(e)' /\ ParentOK(x)' /\ ParentOK(w)'
  <2>1. e \in Members(s) /\ x \in Members(s)
    BY <1>5 DEF Members
  <2> QED BY <1>4, <1>6, <1>8, <2>1 DEF ParentOK, Composites
<1>13. EventOK(e)' /\ EventOK(x)' /\ EventOK(w)'
  <2>1. EventOK(e)' /\ EventOK(x)'
    BY <1>4, <1>8 DEF EventOK
  <2>2. \A i \in 1 .. 2 : tasks'[s[i]] = in
    BY <1>5, <1>8
  <2>3. EventOK(w)'
    BY <1>4, <1>5, <1>6, <1>8, <2>2 DEF EventOK
  <2> QED BY <2>1, <2>3
<1>14. Waits(e)'
  <2>1. w # NoTask
    BY DEF TaskId, NoTask
  <2> QED BY <1>4, <1>5, <1>6, <1>8, <1>10, <2>1 DEF Waits, IsComplete
<1>15. Held(w)'
  BY <1>6, <1>8 DEF Held
<1>16. \A u \in {e, x, w} : tasks'[u].kind = "event" => tasks'[u].kids[1] = e
  BY <1>4, <1>5, <1>6, <1>8
<1> QED BY <1>1, <1>4, <1>8, <1>9, <1>10, <1>11, <1>12, <1>13, <1>14, <1>15, <1>16 DEF WaitMade

(* The context of a wait: a waiter for name n, and a timer with an id.     *)
LEMMA WaitFields ==
  ASSUME TurnInv, NEW n \in Names, ctx.recv[n] = <<>>, NEW e \in TaskId, NEW x \in TaskId,
         NEW w \in TaskId, IsFree(e), IsFree(x), e # x, NEW name \in Labels,
         ctx' = Scheduled([Assigned(w) EXCEPT !.wait[n] = Append(@, e)], "timer", name, x)
  PROVE  /\ ctx' \in Contexts /\ ctx'.gen = ctx.gen /\ ctx'.prev = ctx.prev
         /\ ctx'.env = Append(ctx.env, w) /\ Ids(ctx')
         /\ Awaited(ctx') = Awaited(ctx) \cup {x}
         /\ Waiters(ctx') \subseteq Waiters(ctx) \cup {e} /\ OneWait(ctx')
         /\ NoWaiterOverlooked'
<1>1. ctx \in Contexts
  BY DEF TurnInv, TurnTypes
<1>2. PICK c \in Contexts : c = Assigned(w)
  BY <1>1, AssignedFields
<1>3. /\ c.gen = ctx.gen /\ c.prev = ctx.prev /\ c.env = Append(ctx.env, w)
      /\ SameIds(ctx, c) /\ SameEvents(ctx, c)
  BY <1>1, <1>2, AssignedFields
<1>4. c.wait \in [Names -> Seq(TaskId)] /\ c.wait = ctx.wait
  BY <1>3, ContextTypes, Zenon DEF SameEvents
<1>5. PICK W \in [Names -> Seq(TaskId)] : W = [c.wait EXCEPT ![n] = Append(c.wait[n], e)]
  BY <1>4, OneMore
<1>6. PICK d : d = [c EXCEPT !.wait = W]
  OBVIOUS
<1>7. ctx' = Scheduled(d, "timer", name, x)
  <2>1. d = [c EXCEPT !.wait[n] = Append(@, e)]
    BY <1>5, <1>6 DEF Contexts
  <2> QED BY <1>2, <2>1
<1>8. /\ d \in Contexts /\ d.gen = c.gen /\ d.prev = c.prev /\ d.env = c.env
      /\ SameIds(c, d) /\ d.recv = c.recv /\ d.wait = W
  BY <1>6 DEF Contexts, SameIds
<1>9. Ids(d) /\ Awaited(d) = Awaited(ctx)
  BY <1>3, <1>8 DEF TurnInv, IdInv, Ids, SameIds, Awaited
<1>10. x \notin Awaited(d)
  BY <1>9, NotFree
<1>11. Waiters(d) \subseteq Waiters(ctx) \cup {e} /\ OneWait(d)
  <2>1. Waiters(c) = Waiters(ctx) /\ OneWait(c)
    BY <1>3 DEF TurnInv, TaskInv, WaitInv, Waiters, OneWait, SameEvents
  <2>2. e \notin Waiters(c)
    BY <2>1, NotFree
  <2>3. d.wait[n] = Append(c.wait[n], e) /\ \A m \in Names : m # n => d.wait[m] = c.wait[m]
    BY <1>4, <1>5, <1>8
  <2>4. OneWait(c)
    BY <2>1
  <2>5. Waiters(d) \subseteq Waiters(c) \cup {e} /\ OneWait(d)
    BY <2>2, <2>3, <2>4, WaiterAdded
  <2> QED BY <2>1, <2>5
<1>12. PICK kind \in {"activity", "child", "timer"} : kind = "timer"
  OBVIOUS
<1>13. ctx' = Scheduled(d, kind, name, x)
  BY <1>7, <1>12
<1>14. ctx' \in Contexts /\ SameProgram(d, ctx') /\ SameEvents(d, ctx')
  BY <1>8, <1>13, ScheduledKeeps
<1>15. Ids(ctx') /\ Awaited(ctx') = Awaited(d) \cup {x}
  <2>1. d \in Contexts /\ Ids(d) /\ x \notin Awaited(d)
    BY <1>8, <1>9, <1>10
  <2>2. Ids(Scheduled(d, kind, name, x)) /\ Awaited(Scheduled(d, kind, name, x)) = Awaited(d) \cup {x}
    BY <2>1, ScheduledIds
  <2> QED BY <1>13, <2>2
<1>16. Waiters(ctx') = Waiters(d) /\ OneWait(ctx')
  <2>1. ctx'.wait = d.wait
    BY <1>14 DEF SameEvents
  <2>2. Waiters(ctx') = Waiters(d)
    BY <2>1, Zenon DEF Waiters
  <2>3. OneWait(d)
    BY <1>11
  <2>4. OneWait(ctx')
    BY <2>1, <2>3 DEF OneWait
  <2> QED BY <2>2, <2>4
<1>17. NoWaiterOverlooked'
  <2>1. ctx'.recv = ctx.recv /\ ctx'.wait = W
    BY <1>3, <1>8, <1>14 DEF SameEvents
  <2>2. \A m \in Names : m # n => ctx'.wait[m] = ctx.wait[m]
    BY <1>4, <1>5, <2>1
  <2> QED BY <2>1, <2>2, WaiterAddedQuiet
<1> QED BY <1>3, <1>8, <1>9, <1>11, <1>14, <1>15, <1>16, <1>17 DEF SameProgram

LEMMA RunWaitStep ==
  ASSUME TurnInv, Frame, RunWait
  PROVE  TurnInv'
<1>1. Instruction \in Instructions /\ Instruction.op = "wait"
  BY InstructionTyped DEF RunWait, AtInstruction, TurnInv
<1>2. PICK n \in Names : n = Instruction.name
  BY <1>1 DEF Instructions
<1>3. PICK name \in Labels : name = IF Instruction.timeout = "none" THEN "optional" ELSE "event"
  BY DEF Labels
<1>4. PICK e \in TaskId :
        /\ e + 2 \in TaskId /\ EventWithTimeout(e, e + 1, e + 2)
        /\ ctx' = Scheduled([Assigned(e + 2) EXCEPT !.wait[n] = Append(@, e)], "timer", name, e + 1)
  BY <1>2, <1>3 DEF RunWait
<1>5. PICK x \in TaskId, w \in TaskId : x = e + 1 /\ w = e + 2 /\ e # x /\ e # w /\ x # w
  <2>1. e + 1 \in TaskId /\ e + 1 # e /\ e + 2 # e /\ e + 1 # e + 2
    BY <1>4, MaxTasksAssumption DEF TaskId
  <2> QED BY <1>4, <2>1
<1>6. /\ mode = "run" /\ mode' = "run" /\ UNCHANGED <<notify, retry, pos, suspended, buffer, drain>>
      /\ ctx.recv[n] = <<>>
  BY <1>2 DEF RunWait, AtInstruction, Registers
<1>7. EventWithTimeout(e, x, w)
  BY <1>4, <1>5
<1>8. /\ Grown({e, x, w}) /\ tasks' \in [TaskId -> Task] /\ Held(w)'
      /\ \A u \in {e, x, w} : RetryOK(u)' /\ ParentOK(u)' /\ EventOK(u)'
      /\ Waits(e)' /\ tasks'[x].kind = "inner" /\ tasks'[x].out = "pending"
      /\ \A u \in {e, x, w} : tasks'[u].kind = "event" => tasks'[u].kids[1] = e
      /\ retry'[x].owner = NoTask /\ IsFree(e) /\ IsFree(x) /\ IsFree(w)
  <2>1. WaitMade(e, x, w)
    BY <1>5, <1>6, <1>7, NewWait
  <2> QED BY <2>1 DEF WaitMade
<1>9. ctx' = Scheduled([Assigned(w) EXCEPT !.wait[n] = Append(@, e)], "timer", name, x)
  BY <1>4, <1>5
<1>10. /\ ctx' \in Contexts /\ ctx'.gen = ctx.gen /\ ctx'.prev = ctx.prev
       /\ ctx'.env = Append(ctx.env, w) /\ Ids(ctx')
       /\ Awaited(ctx') = Awaited(ctx) \cup {x}
       /\ Waiters(ctx') \subseteq Waiters(ctx) \cup {e} /\ OneWait(ctx')
       /\ NoWaiterOverlooked'
  <2>1. IsFree(e) /\ IsFree(x) /\ e # x /\ ctx.recv[n] = <<>>
    BY <1>5, <1>6, <1>8
  <2> QED BY <1>9, <2>1, WaitFields
<1>11. PICK U : U = {e, x, w}
  OBVIOUS
<1>12. Grown(U) /\ x \in U /\ w \in U /\ \A u \in U : RetryOK(u)' /\ ParentOK(u)' /\ EventOK(u)'
  BY <1>8, <1>11
<1>13. WaitInv'
  <2>1. \A u \in Waiters(ctx') : Waits(u)'
    BY <1>8, <1>10, GrownWaits
  <2> QED BY <1>10, <2>1 DEF WaitInv, OneWait
<1>14. AwaitedInv'
  <2>1. NoTask \notin Awaited(ctx)
    BY NotFree DEF TaskId, NoTask
  <2>2. Awaited(ctx') \subseteq (Awaited(ctx) \ {NoTask}) \cup {x}
    BY <1>10, <2>1
  <2>3. Waiters(ctx') \subseteq Waiters(ctx) \cup U
    BY <1>10, <1>11
  <2>4. x \notin Waiters(ctx')
    BY <1>5, <1>8, <1>10, NotFree
  <2>5. \A c \in U : tasks'[c].kind = "event" => tasks'[c].kids[1] \in U \ {x}
    BY <1>5, <1>8, <1>11
  <2>6. x \in Awaited(ctx') => /\ x \notin Waiters(ctx')
                               /\ tasks'[x].kind \in {"leaf", "inner"}
                               /\ tasks'[x].out = "pending"
    BY <1>8, <2>4
  <2>7. retry'[x].owner = NoTask
    BY <1>8
  <2> QED BY <1>12, <2>2, <2>3, <2>5, <2>6, <2>7, GrownAwaited
<1>15. retry' \in [TaskId -> Retries]
  BY <1>6 DEF TurnInv, TurnTypes
<1> QED BY <1>6, <1>8, <1>10, <1>12, <1>13, <1>14, <1>15, RunGrown

----------------------------------------------------------------------------
(* when_all and when_any over the tasks in some registers.                 *)

LEMMA MembersFinite ==
  ASSUME NEW s \in Seq(TaskId)
  PROVE  /\ Members(s) \subseteq TaskId /\ IsFiniteSet(Members(s))
         /\ \A S \in SUBSET Members(s) : Cardinality(S) \in Nat
<1>1. Members(s) \subseteq TaskId
  BY DEF Members
<1>2. IsFiniteSet(TaskId)
  BY MaxTasksAssumption, FS_Interval DEF TaskId
<1>3. IsFiniteSet(Members(s))
  BY <1>1, <1>2, FS_Subset
<1> QED BY <1>1, <1>3, FS_Subset, FS_CardinalityType

(* The first of the chosen members of a list is a task.                    *)
LEMMA FirstAmongChosen ==
  ASSUME NEW s \in Seq(TaskId), NEW S, S \subseteq Members(s), S # {}
  PROVE  FirstAmong(s, S) \in TaskId
<1> DEFINE I == {i \in DOMAIN s : s[i] \in S}
<1>1. I # {} /\ I \subseteq Nat
  BY DEF Members
<1> DEFINE R == {ss \in Nat \X Nat : ss[1] < ss[2]}
<1>2. IsWellFoundedOn(R, Nat)
  BY NatLessThanWellFounded, Zenon DEF OpToRel
<1> HIDE DEF I
<1>3. PICK i \in I : \A j \in I : ~(<<j, i>> \in R)
  <2> HIDE DEF R
  <2> QED BY <1>1, <1>2, WFMin
<1>4. ASSUME NEW j \in I PROVE i <= j
  <2>1. i \in Nat /\ j \in Nat
    BY <1>1
  <2>2. j < i => <<j, i>> \in R
    <3>1. ASSUME j < i PROVE <<j, i>>[1] < <<j, i>>[2]
      BY <3>1
    <3> QED BY <2>1, <3>1
  <2> QED BY <1>3, <2>1, <2>2
<1>5. \E x \in DOMAIN s : s[x] \in S /\ \A j \in DOMAIN s : s[j] \in S => x <= j
  BY <1>4 DEF I
<1> QED BY <1>5 DEF FirstAmong

(* What when_all and when_any make.                                        *)
LEMMA ComposedFields ==
  ASSUME tasks \in [TaskId -> Task], NEW s \in Seq(TaskId)
  PROVE  /\ NewWhenAll(s) \in Task /\ NewWhenAll(s).kind = "all"
         /\ NewWhenAll(s).kids = s /\ NewWhenAll(s).parent = NoTask
         /\ NewWhenAny(s) \in Task /\ NewWhenAny(s).kind = "any"
         /\ NewWhenAny(s).kids = s /\ NewWhenAny(s).parent = NoTask
<1>1. CompleteAmong(s) \subseteq Members(s) /\ FailedAmong(s) \subseteq Members(s)
  BY DEF CompleteAmong, FailedAmong
<1>2. PICK full \in BOOLEAN : full = (CompleteAmong(s) = Members(s))
  OBVIOUS
<1>3. PICK first \in TaskId \cup {NoTask} :
        first = IF FailedAmong(s) = {} THEN NoTask ELSE tasks[FirstAmong(s, FailedAmong(s))].exc
  <2>1. FailedAmong(s) # {} => FirstAmong(s, FailedAmong(s)) \in TaskId
    BY <1>1, FirstAmongChosen
  <2> QED BY <2>1 DEF Task
<1>4. PICK count \in Nat : count = Cardinality(CompleteAmong(s))
  BY <1>1, MembersFinite
<1>5. /\ NewWhenAll(s) \in Task /\ NewWhenAll(s).kind = "all"
      /\ NewWhenAll(s).kids = s /\ NewWhenAll(s).parent = NoTask
  <2>1. "all" \in Kinds
    BY DEF Kinds
  <2>2. PICK new : new = NewTask("all", s)
    OBVIOUS
  <2>3. new \in Task /\ new.kind = "all" /\ new.kids = s /\ new.parent = NoTask
    BY <2>1, <2>2, NewTaskFields
  <2>4. PICK rec : rec = NewWhenAll(s)
    OBVIOUS
  <2>5. rec = [new EXCEPT
        !.count = count,
        !.staged = first,
        !.exc = IF full THEN first ELSE NoTask,
        !.out = IF ~full THEN "pending"
                ELSE IF first = NoTask THEN "done" ELSE "failed"]
    BY <1>2, <1>3, <1>4, <2>2, <2>4 DEF NewWhenAll
  <2>6. rec \in Task /\ rec.kind = "all" /\ rec.kids = s /\ rec.parent = NoTask
    BY <2>3, <2>5 DEF Task, Outcomes
  <2> QED BY <2>4, <2>6
<1>6. /\ NewWhenAny(s) \in Task /\ NewWhenAny(s).kind = "any"
      /\ NewWhenAny(s).kids = s /\ NewWhenAny(s).parent = NoTask
  <2>1. "any" \in Kinds
    BY DEF Kinds
  <2>2. PICK new : new = NewTask("any", s)
    OBVIOUS
  <2>3. new \in Task /\ new.kind = "any" /\ new.kids = s /\ new.parent = NoTask
    BY <2>1, <2>2, NewTaskFields
  <2>4. PICK v \in Nat : v = IF s = <<>> \/ CompleteAmong(s) = {} THEN 0
                             ELSE FirstAmong(s, CompleteAmong(s))
    <3>1. CompleteAmong(s) # {} => FirstAmong(s, CompleteAmong(s)) \in TaskId
      BY <1>1, FirstAmongChosen
    <3> QED BY <3>1 DEF TaskId
  <2>5. PICK rec : rec = NewWhenAny(s)
    OBVIOUS
  <2>6. rec = new \/ rec = Completed(new, v)
    BY <2>2, <2>4, <2>5 DEF NewWhenAny
  <2>7. rec \in Task /\ rec.kind = "any" /\ rec.kids = s /\ rec.parent = NoTask
    <3>1. rec = new \/ rec = [new EXCEPT !.out = "done", !.val = v]
      BY <2>6 DEF Completed
    <3> QED BY <2>3, <3>1 DEF Task, Outcomes
  <2> QED BY <2>5, <2>7
<1> QED BY <1>5, <1>6

(* A composite over tasks that the program holds.                          *)
LEMMA ComposedStep ==
  ASSUME TurnInv, Frame, mode = "run", mode' = "run",
         UNCHANGED <<notify, retry, pos, suspended, buffer, drain>>,
         NEW c \in TaskId, IsFree(c), NEW s \in Seq(TaskId),
         \A k \in Members(s) : Held(k),
         NEW rec \in Task, rec.kind \in {"all", "any"}, rec.kids = s, rec.parent = NoTask,
         tasks' = Adopt(c, rec), ctx' = Assigned(c)
  PROVE  TurnInv'
<1>1. /\ tasks \in [TaskId -> Task] /\ retry \in [TaskId -> Retries] /\ notify = NoTask
      /\ ctx \in Contexts
  BY Running DEF TurnInv, TurnTypes
<1>2. c \notin Members(s) /\ Members(s) \subseteq TaskId
  BY MembersFinite DEF Held, IsFree
<1>3. /\ tasks'[c] = rec
      /\ \A t \in TaskId \ {c} :
           tasks'[t] = IF t \in Members(s) THEN [tasks[t] EXCEPT !.parent = c] ELSE tasks[t]
  BY DEF Adopt
<1>4. tasks' \in [TaskId -> Task]
  <2>1. \A t \in TaskId : [tasks[t] EXCEPT !.parent = c] \in Task
    BY <1>1 DEF Task
  <2> QED BY <1>1, <2>1 DEF Adopt
<1>5. Grown({c})
  <2>1. ASSUME NEW t \in TaskId \ {c} PROVE tasks'[t] = tasks[t] \/ Adopted(t, {c})
    <3>1. CASE t \in Members(s)
      <4>1. tasks[t].kind \notin {"free", "inner"}
        BY <3>1 DEF Held
      <4>2. tasks'[t] = [tasks[t] EXCEPT !.parent = c] /\ tasks'[c].kind \in {"all", "any"}
        BY <1>3, <3>1
      <4> QED BY <4>1, <4>2 DEF Adopted
    <3>2. CASE t \notin Members(s)
      BY <1>3, <3>2
    <3> QED BY <3>1, <3>2
  <2> QED BY <1>1, <2>1 DEF Grown
<1>6. retry[c].max = 0 /\ retry[c].owner = NoTask
  BY DEF TurnInv, TaskInv, RetryInv, RetryOK
<1>7. RetryOK(c)' /\ ParentOK(c)' /\ EventOK(c)' /\ Held(c)'
  <2>1. ~(0 > 0)
    OBVIOUS
  <2> QED BY <1>3, <1>6, <2>1 DEF RetryOK, ParentOK, EventOK, Held, IsFree
<1>8. /\ ctx' \in Contexts /\ ctx'.gen = ctx.gen /\ ctx'.prev = ctx.prev
      /\ ctx'.env = Append(ctx.env, c) /\ SameIds(ctx, ctx') /\ SameEvents(ctx, ctx')
  BY <1>1, AssignedFields
<1>9. Ids(ctx') /\ Awaited(ctx') = Awaited(ctx)
  BY <1>8 DEF TurnInv, IdInv, Ids, SameIds, Awaited
<1>10. Waiters(ctx') = Waiters(ctx) /\ OneWait(ctx') /\ NoWaiterOverlooked'
  BY <1>8, SameWaiters
<1>11. WaitInv'
  BY <1>5, <1>10, GrownWaits DEF WaitInv, OneWait
<1>12. AwaitedInv'
  <2>1. PICK U : U = {c}
    OBVIOUS
  <2>2. NoTask \notin Awaited(ctx)
    BY NotFree DEF TaskId, NoTask
  <2>3. c \notin Awaited(ctx')
    BY <1>5, <1>9, GrownWaits
  <2>4. /\ Grown(U) /\ c \in U /\ Awaited(ctx') \subseteq (Awaited(ctx) \ {NoTask}) \cup {c}
        /\ Waiters(ctx') \subseteq Waiters(ctx) \cup U
        /\ \A u \in U : tasks'[u].kind = "event" => tasks'[u].kids[1] \in U \ {c}
    BY <1>3, <1>5, <1>9, <1>10, <2>1, <2>2
  <2>5. c \in Awaited(ctx') => /\ c \notin Waiters(ctx')
                               /\ tasks'[c].kind \in {"leaf", "inner"}
                               /\ tasks'[c].out = "pending"
    BY <2>3
  <2>6. retry'[c].owner = NoTask
    BY <1>6
  <2> QED BY <2>4, <2>5, <2>6, GrownAwaited
<1>13. retry' \in [TaskId -> Retries]
  BY <1>1
<1> QED BY <1>4, <1>5, <1>7, <1>8, <1>9, <1>10, <1>11, <1>12, <1>13, RunGrown

LEMMA RunComposeStep ==
  ASSUME TurnInv, Frame, RunCompose
  PROVE  TurnInv'
<1>1. Instruction \in Instructions /\ Instruction.op \in {"all", "any"}
  BY InstructionTyped DEF RunCompose, TurnInv
<1>2. PICK of \in Seq(Nat) : of = Instruction.of
  BY <1>1 DEF Instructions
<1>3. PICK s : s = [i \in DOMAIN of |-> ctx.env[of[i]]]
  OBVIOUS
<1>4. /\ mode = "run" /\ UNCHANGED <<notify, retry, pos, suspended, buffer, drain>>
      /\ IF Assigns(Members(of)) /\ Adoptable(s)
         THEN \E c \in TaskId :
                /\ IF Instruction.op = "all" THEN WhenAll(c, s) ELSE WhenAny(c, s)
                /\ ctx' = Assigned(c)
                /\ UNCHANGED mode
         ELSE Raises /\ UNCHANGED tasks
  BY <1>2, <1>3 DEF RunCompose
<1>5. CASE Assigns(Members(of)) /\ Adoptable(s)
  <2>1. ctx.env \in Seq(TaskId)
    BY ContextTypes, Zenon DEF TurnInv, TurnTypes
  <2>2. \A i \in DOMAIN of : of[i] \in DOMAIN ctx.env
    BY <1>5 DEF Assigns, Members
  <2>3. s \in Seq(TaskId) /\ \A i \in DOMAIN s : i \in DOMAIN of /\ s[i] = ctx.env[of[i]]
    <3>1. PICK m \in Nat : m = Len(of) /\ DOMAIN of = 1 .. m
      OBVIOUS
    <3>2. s = [i \in 1 .. m |-> ctx.env[of[i]]]
      BY <1>3, <3>1
    <3>3. \A i \in 1 .. m : ctx.env[of[i]] \in TaskId
      BY <2>1, <2>2, <3>1
    <3>4. s \in Seq(TaskId)
      BY <3>2, <3>3
    <3> QED BY <3>1, <3>2, <3>4
  <2>4. \A k \in Members(s) : Held(k)
    <3>1. SUFFICES ASSUME NEW i \in DOMAIN s PROVE Held(s[i])
      BY DEF Members
    <3>2. of[i] \in DOMAIN ctx.env /\ s[i] = ctx.env[of[i]]
      BY <2>2, <2>3
    <3> QED BY <3>2 DEF TurnInv, EnvInv
  <2>5. PICK c \in TaskId :
          /\ IF Instruction.op = "all" THEN WhenAll(c, s) ELSE WhenAny(c, s)
          /\ ctx' = Assigned(c)
          /\ UNCHANGED mode
    BY <1>4, <1>5
  <2>6. PICK rec \in Task : /\ rec.kind \in {"all", "any"} /\ rec.kids = s /\ rec.parent = NoTask
                            /\ tasks' = Adopt(c, rec) /\ IsFree(c)
    <3>1. tasks \in [TaskId -> Task]
      BY DEF TurnInv, TurnTypes
    <3>2. CASE Instruction.op = "all"
      <4>1. PICK rec : rec = NewWhenAll(s)
        OBVIOUS
      <4>2. rec \in Task /\ rec.kind = "all" /\ rec.kids = s /\ rec.parent = NoTask
        BY <2>3, <3>1, <4>1, ComposedFields
      <4>3. tasks' = Adopt(c, rec) /\ IsFree(c)
        BY <2>5, <3>2, <4>1 DEF WhenAll, Fresh
      <4> QED BY <4>2, <4>3
    <3>3. CASE Instruction.op # "all"
      <4>1. PICK rec : rec = NewWhenAny(s)
        OBVIOUS
      <4>2. rec \in Task /\ rec.kind = "any" /\ rec.kids = s /\ rec.parent = NoTask
        BY <2>3, <3>1, <4>1, ComposedFields
      <4>3. tasks' = Adopt(c, rec) /\ IsFree(c)
        BY <2>5, <3>3, <4>1 DEF WhenAny, Fresh
      <4> QED BY <4>2, <4>3
    <3> QED BY <3>2, <3>3
  <2> QED BY <1>4, <2>3, <2>4, <2>5, <2>6, ComposedStep
<1>6. CASE ~(Assigns(Members(of)) /\ Adoptable(s))
  BY <1>4, <1>6, RaisesStep
<1> QED BY <1>5, <1>6

----------------------------------------------------------------------------
(* A completion climbs to the composite above it.                          *)

(* A list without the first t in it, and where its members come from.      *)
LEMMA WithoutFields ==
  ASSUME NEW s \in Seq(TaskId), NEW t
  PROVE  /\ Without(s, t) \in Seq(TaskId) /\ (s = <<>> => Without(s, t) = <<>>)
         /\ \E g \in [DOMAIN Without(s, t) -> DOMAIN s] :
              /\ \A i \in DOMAIN Without(s, t) : Without(s, t)[i] = s[g[i]]
              /\ \A i, j \in DOMAIN Without(s, t) : g[i] = g[j] => i = j
              /\ (\A i, j \in DOMAIN s : s[i] = s[j] => i = j) =>
                   \A i \in DOMAIN Without(s, t) : s[g[i]] # t
<1>1. PICK r : r = Without(s, t)
  OBVIOUS
<1>2. CASE t \notin Members(s)
  <2>1. r = s
    BY <1>1, <1>2 DEF Without
  <2>2. PICK g : g = [i \in DOMAIN s |-> i]
    OBVIOUS
  <2>3. g \in [DOMAIN r -> DOMAIN s] /\ \A i \in DOMAIN r : g[i] = i
    BY <2>1, <2>2
  <2>4. \A i \in DOMAIN r : s[g[i]] # t
    BY <1>2, <2>3 DEF Members
  <2> QED BY <1>1, <2>1, <2>3, <2>4
<1>3. CASE t \in Members(s)
  <2> DEFINE I == {i \in DOMAIN s : s[i] = t}
             R == {ss \in Nat \X Nat : ss[1] < ss[2]}
  <2>1. I # {} /\ I \subseteq Nat /\ Len(s) \in Nat
    BY <1>3 DEF Members
  <2>2. IsWellFoundedOn(R, Nat)
    BY NatLessThanWellFounded, Zenon DEF OpToRel
  <2>3. PICK f \in I : \A j \in I : ~(<<j, f>> \in R)
    <3> HIDE DEF R, I
    <3> QED BY <2>1, <2>2, WFMin
  <2>4. ASSUME NEW j \in 1 .. f - 1 PROVE s[j] # t
    <3>1. f \in Nat /\ f \in 1 .. Len(s) /\ j \in Nat /\ j < f
      BY <2>1, <2>3
    <3>2. <<j, f>>[1] < <<j, f>>[2]
      BY <3>1
    <3>3. <<j, f>> \in R /\ j \in DOMAIN s
      BY <2>1, <3>1, <3>2
    <3> HIDE DEF R
    <3> QED BY <2>3, <3>3
  <2>5. f \in DOMAIN s /\ s[f] = t /\ \A j \in 1 .. f - 1 : s[j] # t
    BY <2>3, <2>4
  <2> HIDE DEF I, R
  <2>6. PICK first \in DOMAIN s :
          /\ s[first] = t
          /\ first = CHOOSE i \in DOMAIN s : s[i] = t /\ \A j \in 1 .. i - 1 : s[j] # t
    BY <2>5
  <2>7. r = SubSeq(s, 1, first - 1) \o SubSeq(s, first + 1, Len(s))
    BY <1>1, <1>3, <2>6 DEF Without
  <2>8. first \in Nat /\ first >= 1 /\ first <= Len(s)
    BY <2>1, <2>6
  <2>9. PICK a : a = SubSeq(s, 1, first - 1)
    OBVIOUS
  <2>10. a \in Seq(TaskId) /\ Len(a) = first - 1 /\ \A i \in 1 .. first - 1 : a[i] = s[i]
    <3>1. \A i \in 1 .. first - 1 : s[i] \in TaskId
      BY <2>1, <2>8
    <3>2. a \in Seq(TaskId) /\ Len(a) = IF 1 <= first - 1 THEN first - 1 - 1 + 1 ELSE 0
      BY <2>8, <2>9, <3>1, SubSeqProperties
    <3>3. \A i \in 1 .. first - 1 - 1 + 1 : a[i] = s[1 + i - 1]
      BY <2>8, <2>9, <3>1, SubSeqProperties
    <3> QED BY <2>8, <3>2, <3>3
  <2>11. PICK b : b = SubSeq(s, first + 1, Len(s))
    OBVIOUS
  <2>12. /\ b \in Seq(TaskId) /\ Len(b) = Len(s) - first
         /\ \A i \in 1 .. Len(s) - first : b[i] = s[first + i]
    <3>1. \A i \in first + 1 .. Len(s) : s[i] \in TaskId
      BY <2>1, <2>8
    <3>2. /\ b \in Seq(TaskId)
          /\ Len(b) = IF first + 1 <= Len(s) THEN Len(s) - (first + 1) + 1 ELSE 0
      BY <2>1, <2>8, <2>11, <3>1, SubSeqProperties
    <3>3. \A i \in 1 .. Len(s) - (first + 1) + 1 : b[i] = s[first + 1 + i - 1]
      BY <2>1, <2>8, <2>11, <3>1, SubSeqProperties, SMTT(30)
    <3> QED BY <2>1, <2>8, <3>2, <3>3
  <2>13. /\ r \in Seq(TaskId) /\ Len(r) = Len(s) - 1
         /\ \A i \in 1 .. Len(s) - 1 : r[i] = IF i < first THEN s[i] ELSE s[i + 1]
    <3>1. r = a \o b
      BY <2>7, <2>9, <2>11
    <3>2. /\ r \in Seq(TaskId) /\ Len(r) = Len(a) + Len(b)
          /\ \A i \in 1 .. Len(a) + Len(b) : r[i] = IF i <= Len(a) THEN a[i] ELSE b[i - Len(a)]
      BY <2>10, <2>12, <3>1, ConcatProperties
    <3>3. Len(a) + Len(b) = Len(s) - 1
      BY <2>1, <2>8, <2>10, <2>12
    <3>4. ASSUME NEW i \in 1 .. Len(s) - 1
          PROVE  r[i] = IF i < first THEN s[i] ELSE s[i + 1]
      <4>1. r[i] = IF i <= Len(a) THEN a[i] ELSE b[i - Len(a)]
        BY <3>2, <3>3, <3>4
      <4>2. CASE i < first
        BY <2>8, <2>10, <4>1, <4>2
      <4>3. CASE ~(i < first)
        <5>1. i - Len(a) \in 1 .. Len(s) - first /\ first + (i - Len(a)) = i + 1 /\ ~(i <= Len(a))
          BY <2>1, <2>8, <2>10, <4>3
        <5> QED BY <2>12, <4>1, <4>3, <5>1
      <4> QED BY <4>2, <4>3
    <3> QED BY <3>2, <3>3, <3>4
  <2>14. PICK g : g = [i \in 1 .. Len(s) - 1 |-> IF i < first THEN i ELSE i + 1]
    OBVIOUS
  <2>15. DOMAIN r = 1 .. Len(s) - 1 /\ DOMAIN s = 1 .. Len(s)
    BY <2>13
  <2>16. g \in [DOMAIN r -> DOMAIN s] /\ \A i \in DOMAIN r : r[i] = s[g[i]]
    BY <2>1, <2>8, <2>13, <2>14, <2>15
  <2>17. \A i, j \in DOMAIN r : g[i] = g[j] => i = j
    BY <2>1, <2>8, <2>14, <2>15
  <2>18. \A i \in DOMAIN r : g[i] # first
    BY <2>1, <2>8, <2>14, <2>15
  <2>19. (\A i, j \in DOMAIN s : s[i] = s[j] => i = j) => \A i \in DOMAIN r : s[g[i]] # t
    BY <2>6, <2>16, <2>18
  <2>20. s # <<>>
    BY <1>3 DEF Members
  <2> QED BY <1>1, <2>13, <2>16, <2>17, <2>19, <2>20
<1> QED BY <1>2, <1>3

\* The list r holds members of s at different places, none of them t.
PartOf(r, s, t) ==
  \E g \in [DOMAIN r -> DOMAIN s] :
    /\ \A i \in DOMAIN r : r[i] = s[g[i]] /\ s[g[i]] # t
    /\ \A i, j \in DOMAIN r : g[i] = g[j] => i = j

(* The waiters when t is taken out of every name.                          *)
LEMMA WaitersWithout ==
  ASSUME NEW c \in Contexts, OneWait(c), NEW t,
         NEW d, \A n \in Names : d.wait[n] = Without(c.wait[n], t)
  PROVE  /\ \A w \in Waiters(d) : w \in Waiters(c) /\ w # t
         /\ OneWait(d)
         /\ \A n \in Names : c.wait[n] = <<>> => d.wait[n] = <<>>
<1>1. c.wait \in [Names -> Seq(TaskId)]
  BY ContextTypes, Zenon
<1>2. \A n \in Names : d.wait[n] = Without(c.wait[n], t)
  OBVIOUS
<1>4. \A n \in Names : c.wait[n] = <<>> => d.wait[n] = <<>>
  BY <1>1, <1>2, WithoutFields
<1>5. ASSUME NEW n \in Names PROVE PartOf(d.wait[n], c.wait[n], t)
  <2>1. PICK s \in Seq(TaskId) : s = c.wait[n]
    BY <1>1
  <2>2. \A i, j \in DOMAIN s : s[i] = s[j] => i = j
    BY <2>1 DEF OneWait
  <2>3. PICK r : r = Without(s, t)
    OBVIOUS
  <2>4. \E g \in [DOMAIN r -> DOMAIN s] :
          /\ \A i \in DOMAIN r : r[i] = s[g[i]]
          /\ \A i, j \in DOMAIN r : g[i] = g[j] => i = j
          /\ (\A i, j \in DOMAIN s : s[i] = s[j] => i = j) =>
               \A i \in DOMAIN r : s[g[i]] # t
    BY <2>3, WithoutFields
  <2>5. r = d.wait[n]
    BY <1>2, <2>1, <2>3
  <2>6. PartOf(r, s, t)
    BY <2>2, <2>4 DEF PartOf
  <2> QED BY <2>1, <2>5, <2>6
<1>6. \A w \in Waiters(d) : w \in Waiters(c) /\ w # t
  <2>1. SUFFICES ASSUME NEW n \in Names, NEW i \in DOMAIN d.wait[n]
                 PROVE  d.wait[n][i] \in Waiters(c) /\ d.wait[n][i] # t
    BY DEF Waiters, Members
  <2>2. PICK j \in DOMAIN c.wait[n] : d.wait[n][i] = c.wait[n][j] /\ c.wait[n][j] # t
    <3>1. PartOf(d.wait[n], c.wait[n], t)
      BY <1>5
    <3> QED BY <3>1 DEF PartOf
  <2> QED BY <2>2 DEF Waiters, Members
<1>7. OneWait(d)
  <2>1. SUFFICES ASSUME NEW l \in Names, NEW m \in Names, NEW i \in DOMAIN d.wait[l],
                        NEW j \in DOMAIN d.wait[m], d.wait[l][i] = d.wait[m][j]
                 PROVE  l = m /\ i = j
    BY DEF OneWait
  <2>2. PICK g \in [DOMAIN d.wait[l] -> DOMAIN c.wait[l]] :
          /\ \A x \in DOMAIN d.wait[l] : d.wait[l][x] = c.wait[l][g[x]]
          /\ \A x, y \in DOMAIN d.wait[l] : g[x] = g[y] => x = y
    <3>1. PartOf(d.wait[l], c.wait[l], t)
      BY <1>5
    <3> QED BY <3>1 DEF PartOf
  <2>3. PICK h \in [DOMAIN d.wait[m] -> DOMAIN c.wait[m]] :
          /\ \A x \in DOMAIN d.wait[m] : d.wait[m][x] = c.wait[m][h[x]]
    <3>1. PartOf(d.wait[m], c.wait[m], t)
      BY <1>5
    <3> QED BY <3>1 DEF PartOf
  <2>4. g[i] \in DOMAIN c.wait[l] /\ h[j] \in DOMAIN c.wait[m] /\ c.wait[l][g[i]] = c.wait[m][h[j]]
    BY <2>1, <2>2, <2>3
  <2>5. l = m
    BY <2>4 DEF OneWait
  <2>6. g[i] \in DOMAIN c.wait[l] /\ g[j] \in DOMAIN c.wait[l] /\ c.wait[l][g[i]] = c.wait[l][g[j]]
    BY <2>1, <2>2, <2>5
  <2>7. g[i] = g[j]
    BY <2>6 DEF OneWait
  <2> QED BY <2>2, <2>5, <2>7
<1> QED BY <1>4, <1>6, <1>7

(* A composite that was told of a child is still the same composite.       *)
LEMMA ToldFields ==
  ASSUME TurnInv, NEW p \in TaskId, NEW k \in TaskId
  PROVE  /\ Told(p, k) \in Task /\ Told(p, k).kind = tasks[p].kind
         /\ Told(p, k).kids = tasks[p].kids /\ Told(p, k).parent = tasks[p].parent
         /\ tasks[p].kind = "event" /\ k = tasks[p].kids[1] =>
              Told(p, k).out = tasks[k].out /\ Told(p, k).val = tasks[k].val
<1>1. PICK P \in Task, K \in Task : P = tasks[p] /\ K = tasks[k]
  BY DEF TurnInv, TurnTypes
<1>2. PICK rec : rec = Told(p, k)
  OBVIOUS
<1>3. CASE P.kind = "all"
  <2>1. P.count \in Nat /\ P.staged \in TaskId \cup {NoTask} /\ K.exc \in TaskId \cup {NoTask}
    BY DEF Task
  <2>2. PICK count \in Nat : count = P.count + 1
    BY <2>1
  <2>3. PICK staged \in TaskId \cup {NoTask} : staged = IF P.staged = NoTask THEN K.exc ELSE P.staged
    BY <2>1
  <2>4. PICK counted : counted = [P EXCEPT !.count = count, !.staged = staged]
    OBVIOUS
  <2>5. \/ rec = counted
        \/ rec = [counted EXCEPT !.out = IF staged = NoTask THEN "done" ELSE "failed",
                                 !.exc = staged]
    <3>1. rec = WhenAllTold(p, k)
      BY <1>1, <1>2, <1>3 DEF Told
    <3>2. [P EXCEPT !.count = @ + 1, !.staged = staged] = counted
      BY <2>2, <2>4 DEF Task
    <3> QED BY <1>1, <2>3, <3>1, <3>2 DEF WhenAllTold
  <2>6. counted \in Task /\ counted.kind = P.kind /\ counted.kids = P.kids /\ counted.parent = P.parent
    BY <2>4 DEF Task
  <2>7. rec \in Task /\ rec.kind = P.kind /\ rec.kids = P.kids /\ rec.parent = P.parent
    BY <2>5, <2>6 DEF Task, Outcomes
  <2> QED BY <1>1, <1>2, <1>3, <2>7
<1>4. CASE P.kind = "any"
  <2>1. rec = [P EXCEPT !.out = "done", !.val = k]
    BY <1>1, <1>2, <1>4 DEF Told, WhenAnyTold, Completed
  <2>2. k \in Nat
    BY DEF TaskId
  <2>3. rec \in Task /\ rec.kind = P.kind /\ rec.kids = P.kids /\ rec.parent = P.parent
    BY <2>1, <2>2 DEF Task, Outcomes
  <2> QED BY <1>1, <1>2, <1>4, <2>3
<1>5. CASE P.kind \notin {"all", "any"}
  <2>1. rec = EventTold(p, k)
    BY <1>1, <1>2, <1>5 DEF Told
  <2>2. CASE k = P.kids[1]
    <3>1. rec = [P EXCEPT !.out = K.out, !.exc = K.exc, !.val = K.val]
      BY <1>1, <2>1, <2>2 DEF EventTold
    <3>2. /\ rec \in Task /\ rec.kind = P.kind /\ rec.kids = P.kids /\ rec.parent = P.parent
          /\ rec.out = K.out /\ rec.val = K.val
      BY <3>1 DEF Task
    <3> QED BY <1>1, <1>2, <3>2
  <2>3. CASE k # P.kids[1]
    <3>1. rec = [P EXCEPT !.out = "failed", !.exc = p]
      BY <1>1, <2>1, <2>3 DEF EventTold, Failed
    <3>2. rec \in Task /\ rec.kind = P.kind /\ rec.kids = P.kids /\ rec.parent = P.parent
      BY <3>1 DEF Task, Outcomes
    <3> QED BY <1>1, <1>2, <2>3, <3>2
  <2> QED BY <2>2, <2>3
<1> QED BY <1>3, <1>4, <1>5

(* A hop changes nothing of the context but the waiters.                   *)
LEMMA HopContext ==
  ASSUME TurnInv, Hop
  PROVE  /\ ctx' \in Contexts /\ SameProgram(ctx, ctx') /\ ctx'.recv = ctx.recv
         /\ IdInv' /\ Awaited(ctx') = Awaited(ctx)
         /\ \A w \in Waiters(ctx') : w \in Waiters(ctx) /\ w # TimedOutWaiter
         /\ OneWait(ctx') /\ NoWaiterOverlooked'
<1>1. PICK c \in Contexts : c = ctx
  BY DEF TurnInv, TurnTypes
<1>2. PICK t : t = TimedOutWaiter
  OBVIOUS
<1>3. c.wait \in [Names -> Seq(TaskId)]
  BY ContextTypes, Zenon
<1>4. PICK W : W = [n \in Names |-> Without(c.wait[n], t)]
  OBVIOUS
<1>5. PICK d : d = ctx'
  OBVIOUS
<1>6. d = [c EXCEPT !.wait = W]
  <2>1. ctx' = [ctx EXCEPT !.wait = [n \in Names |-> Without(@[n], t)]]
    BY <1>2 DEF Hop
  <2> QED BY <1>1, <1>4, <1>5, <2>1 DEF Contexts
<1>7. d.wait = W
  BY <1>6 DEF Contexts
<1>8. OneWait(c)
  BY <1>1 DEF TurnInv, TaskInv, WaitInv
<1>9. /\ d.wait \in [Names -> Seq(TaskId)]
      /\ \A w \in Waiters(d) : w \in Waiters(c) /\ w # t
      /\ OneWait(d)
      /\ \A n \in Names : c.wait[n] = <<>> => d.wait[n] = <<>>
  <2>1. \A n \in Names : d.wait[n] = Without(c.wait[n], t)
    BY <1>4, <1>7
  <2>2. d.wait \in [Names -> Seq(TaskId)]
    <3>1. \A n \in Names : Without(c.wait[n], t) \in Seq(TaskId)
      BY <1>3, WithoutFields
    <3> QED BY <1>4, <1>7, <3>1
  <2> QED BY <1>8, <2>1, <2>2, WaitersWithout
<1>10. d \in Contexts /\ SameProgram(c, d) /\ SameIds(c, d) /\ d.recv = c.recv
  <2>1. W \in [Names -> Seq(TaskId)]
    BY <1>7, <1>9
  <2> QED BY <1>6, <2>1 DEF Contexts, SameProgram, SameIds
<1>11. IdInv' /\ Awaited(ctx') = Awaited(ctx)
  BY <1>1, <1>5, <1>10 DEF TurnInv, IdInv, SameIds, Awaited
<1>12. NoWaiterOverlooked'
  BY <1>1, <1>5, <1>9, <1>10 DEF TurnInv, NoWaiterOverlooked
<1> QED BY <1>1, <1>2, <1>5, <1>9, <1>10, <1>11, <1>12

(* The completion of child k reaches its composite p, which is pending.    *)
LEMMA ClimbTree ==
  ASSUME TurnInv, NEW k \in TaskId, NEW p \in TaskId, notify = k, tasks[k].parent = p,
         ~IsComplete(p), NEW rec \in Task, rec.kind = tasks[p].kind,
         rec.kids = tasks[p].kids, rec.parent = tasks[p].parent,
         tasks[p].kind = "event" /\ k = tasks[p].kids[1] =>
           rec.out = tasks[k].out /\ rec.val = tasks[k].val,
         tasks' = [tasks EXCEPT ![p] = rec], notify' \in OptTask
  PROVE  /\ tasks' \in [TaskId -> Task] /\ SameShape /\ tasks[p].kind \in Composites
         /\ \A t \in TaskId : t # p => tasks'[t] = tasks[t]
         /\ ParentInv' /\ EventInv'
<1>1. tasks \in [TaskId -> Task] /\ p # NoTask /\ k # NoTask
  BY DEF TurnInv, TurnTypes, TaskId, NoTask
<1>2. /\ tasks' \in [TaskId -> Task] /\ SameShape /\ tasks'[p] = rec
      /\ \A t \in TaskId : t # p => tasks'[t] = tasks[t]
  BY <1>1 DEF SameShape
<1>3. ParentOK(k) /\ IsComplete(k)
  BY <1>1 DEF TurnInv, TaskInv, ParentInv, FlowInv
<1>4. tasks[p].kind \in Composites
  BY <1>1, <1>3 DEF ParentOK
<1>5. ASSUME NEW t \in TaskId PROVE ParentOK(t)'
  <2>1. ParentOK(t) /\ tasks[t].parent \in TaskId \cup {NoTask}
    BY <1>1 DEF TurnInv, TaskInv, ParentInv, Task
  <2> QED BY <1>2, <2>1 DEF ParentOK, SameShape
<1>6. ASSUME NEW c \in TaskId, tasks[c].kind = "event" PROVE EventOK(c)'
  <2>1. EventOK(c) /\ tasks[c].kids \in Seq(TaskId)
    BY <1>1 DEF TurnInv, TaskInv, EventInv, Task
  <2>2. PICK kids \in Seq(TaskId) : kids = tasks[c].kids
    BY <2>1
  <2>3. /\ Len(kids) = 2 /\ kids[1] # kids[2]
        /\ \A i \in 1 .. 2 : tasks[kids[i]].kind = "inner" /\ tasks[kids[i]].parent = c
        /\ tasks[kids[1]].out # "failed"
        /\ tasks[kids[1]].out = "done" =>
             \/ notify = kids[1] /\ ~IsComplete(c)
             \/ tasks[c].out = "done" /\ tasks[c].val = tasks[kids[1]].val
    BY <1>6, <2>1, <2>2 DEF EventOK
  <2>4. \A i \in 1 .. 2 : kids[i] \in TaskId
    BY <2>2, <2>3
  <2>5. \A i \in 1 .. 2 : kids[i] # p
    BY <1>4, <2>3 DEF Composites
  <2>6. /\ \A i \in 1 .. 2 : tasks'[kids[i]] = tasks[kids[i]]
        /\ tasks'[c].kids = kids /\ tasks'[c].kind = "event"
    BY <1>2, <1>6, <2>2, <2>4, <2>5 DEF SameShape
  <2>7. tasks'[kids[1]] = tasks[kids[1]]
    BY <2>6
  <2>8. tasks[kids[1]].out = "done" =>
          tasks'[c].out = "done" /\ tasks'[c].val = tasks[kids[1]].val
    <3>1. CASE c # p
      <4>1. notify # kids[1]
        BY <2>3, <3>1
      <4> QED BY <1>2, <2>3, <3>1, <4>1
    <3>2. CASE c = p
      <4>1. ASSUME tasks[kids[1]].out = "done" PROVE kids[1] = k
        BY <2>3, <3>2, <4>1 DEF IsComplete
      <4> QED BY <1>2, <1>6, <2>2, <3>2, <4>1
    <3> QED BY <3>1, <3>2
  <2> QED BY <2>3, <2>6, <2>7, <2>8 DEF EventOK
<1>7. ASSUME NEW c \in TaskId, tasks[c].kind # "event" PROVE EventOK(c)'
  BY <1>2, <1>7 DEF EventOK, SameShape
<1> QED BY <1>2, <1>4, <1>5, <1>6, <1>7 DEF ParentInv, EventInv

(* The tasks that were waiting or had an id are not touched by a hop.      *)
LEMMA ClimbWaits ==
  ASSUME TurnInv, NEW k \in TaskId, NEW p \in TaskId, notify = k, tasks[k].parent = p,
         ~IsComplete(p), tasks[p].kind \in Composites, SameShape, UNCHANGED retry,
         \A t \in TaskId : t # p => tasks'[t] = tasks[t],
         Awaited(ctx') = Awaited(ctx), OneWait(ctx'),
         \A w \in Waiters(ctx') : w \in Waiters(ctx) /\ w # TimedOutWaiter
  PROVE  WaitInv' /\ AwaitedInv' /\ RetryInv'
<1>1. /\ \A w \in Waiters(ctx) : w \in TaskId /\ Waits(w)
      /\ \A s \in Awaited(ctx) : s \in TaskId /\ PendingTask(s)
      /\ k # NoTask /\ p # NoTask /\ IsComplete(k)
  BY NotFree DEF TurnInv, TaskInv, WaitInv, AwaitedInv, FlowInv, TaskId, NoTask
<1>2. ASSUME NEW w \in Waiters(ctx') PROVE Waits(w)'
  <2>1. w \in TaskId /\ Waits(w) /\ w # p /\ w # TimedOutWaiter
    BY <1>1 DEF Waits, Composites
  <2>2. tasks'[w] = tasks[w]
    BY <2>1
  <2>3. CASE tasks[w].kind = "leaf"
    BY <2>1, <2>2, <2>3 DEF Waits, IsComplete
  <2>4. CASE tasks[w].kind # "leaf"
    <3>1. PICK q : /\ q = tasks[w].parent /\ tasks[w].kind = "inner" /\ q # NoTask
                   /\ tasks[q].kind = "event" /\ tasks[q].kids[1] = w /\ ~IsComplete(q)
      BY <2>1, <2>4 DEF Waits
    <3>2. q \in TaskId
      BY <2>1, <3>1 DEF TurnInv, TurnTypes, Task
    <3>3. q # p
      <4>1. SUFFICES ASSUME q = p PROVE FALSE
        OBVIOUS
      <4>2. w # k
        BY <1>1, <2>1 DEF Waits
      <4>3. TimedOutWaiter = w
        BY <1>1, <3>1, <4>1, <4>2 DEF TimedOutWaiter
      <4> QED BY <2>1, <4>3
    <3>4. tasks'[q] = tasks[q]
      BY <3>2, <3>3
    <3> QED BY <2>1, <2>2, <3>1, <3>4 DEF Waits, IsComplete
  <2> QED BY <2>3, <2>4
<1>3. ASSUME NEW s \in Awaited(ctx) PROVE PendingTask(s)'
  <2>1. s \in TaskId /\ PendingTask(s) /\ s # p /\ s \notin Waiters(ctx')
    BY <1>1 DEF PendingTask, Composites
  <2>2. tasks'[s] = tasks[s]
    BY <2>1
  <2> QED BY <2>1, <2>2 DEF PendingTask, IsComplete, SameShape
<1>4. ASSUME NEW s \in Awaited(ctx'), retry'[s].owner # NoTask
      PROVE  /\ ~IsComplete(retry[s].owner)' /\ retry'[s].owner \notin Awaited(ctx')
             /\ \A u \in Awaited(ctx') : retry'[u].owner = retry'[s].owner => u = s
  <2>1. PICK o : /\ o = retry[s].owner /\ s \in Awaited(ctx) /\ s \in TaskId
                 /\ retry'[s].owner = o /\ o # NoTask
    BY <1>1, <1>4
  <2>2. /\ ~IsComplete(o) /\ o \notin Awaited(ctx)
        /\ \A u \in Awaited(ctx) : retry[u].owner = o => u = s
    BY <2>1 DEF TurnInv, TaskInv, AwaitedInv
  <2>3. o \in TaskId /\ tasks[o].kind = "leaf"
    <3>1. RetryOK(s) /\ o \in TaskId
      BY <2>1, NotFree DEF TurnInv, TaskInv, RetryInv
    <3> QED BY <2>1, <3>1 DEF RetryOK, OwnerOf
  <2>4. tasks'[o].out = "pending"
    BY <2>2, <2>3 DEF IsComplete, Composites
  <2>5. \A u \in Awaited(ctx') : retry'[u].owner = retry'[s].owner => u = s
    BY <2>1, <2>2
  <2>6. retry'[s].owner \notin Awaited(ctx')
    BY <2>1, <2>2
  <2> QED BY <2>1, <2>4, <2>5, <2>6 DEF IsComplete
<1>5. AwaitedInv'
  BY <1>3, <1>4 DEF AwaitedInv, IsComplete
<1>6. ASSUME NEW u \in TaskId PROVE RetryOK(u)'
  <2>1. RetryOK(u)
    BY DEF TurnInv, TaskInv, RetryInv
  <2>2. ASSUME retry[u].owner # NoTask PROVE OwnerOf(u)'
    <3>1. OwnerOf(u) /\ retry[u].owner \in TaskId
      BY <2>1, <2>2, NotFree DEF RetryOK
    <3> QED BY <3>1 DEF OwnerOf, SameShape
  <2>3. IsFree(u) => u # p
    BY DEF Composites, IsFree
  <2> QED BY <2>1, <2>2, <2>3 DEF RetryOK, SameShape, IsFree
<1> QED BY <1>2, <1>5, <1>6 DEF WaitInv, OneWait, RetryInv

(* The composite was complete already: nothing more happens.               *)
LEMMA IgnoredHop ==
  ASSUME TurnInv, Hop, NEW k \in TaskId, NEW p \in TaskId, notify = k, tasks[k].parent = p,
         IsComplete(p)
  PROVE  TaskInv' /\ UNCHANGED tasks /\ notify' = NoTask
<1>1. /\ k # NoTask /\ UNCHANGED <<tasks, retry>> /\ notify' = NoTask
  BY DEF Hop, OnChildCompleted, TaskId, NoTask
<1>2. /\ Awaited(ctx') = Awaited(ctx) /\ OneWait(ctx')
      /\ \A w \in Waiters(ctx') : w \in Waiters(ctx) /\ w # TimedOutWaiter
  BY HopContext
<1>3. WaitInv'
  BY <1>1, <1>2 DEF TurnInv, TaskInv, WaitInv, OneWait, Waits, IsComplete
<1>4. AwaitedInv'
  <2>1. \A s \in Awaited(ctx) : s \notin Waiters(ctx')
    BY <1>2 DEF TurnInv, TaskInv, AwaitedInv, PendingTask
  <2> QED BY <1>1, <1>2, <2>1 DEF TurnInv, TaskInv, AwaitedInv, PendingTask, IsComplete
<1>5. RetryInv' /\ ParentInv'
  BY <1>1 DEF TurnInv, TaskInv, RetryInv, RetryOK, OwnerOf, IsFree, ParentInv, ParentOK
<1>6. ASSUME NEW c \in TaskId PROVE EventOK(c)'
  <2>1. EventOK(c)
    BY DEF TurnInv, TaskInv, EventInv
  <2>2. CASE tasks[c].kind = "event"
    <3>1. PICK kids : kids = tasks[c].kids
      OBVIOUS
    <3>2. /\ Len(kids) = 2 /\ kids[1] # kids[2]
          /\ \A i \in 1 .. 2 : tasks[kids[i]].kind = "inner" /\ tasks[kids[i]].parent = c
          /\ tasks[kids[1]].out # "failed"
          /\ tasks[kids[1]].out = "done" =>
               \/ notify = kids[1] /\ ~IsComplete(c)
               \/ tasks[c].out = "done" /\ tasks[c].val = tasks[kids[1]].val
      BY <2>1, <2>2, <3>1 DEF EventOK
    <3>3. ~(notify = kids[1] /\ ~IsComplete(c))
      BY <3>2
    <3> QED BY <1>1, <3>1, <3>2, <3>3 DEF EventOK
  <2>3. CASE tasks[c].kind # "event"
    BY <1>1, <2>3 DEF EventOK
  <2> QED BY <2>2, <2>3
<1> QED BY <1>1, <1>3, <1>4, <1>5, <1>6 DEF TaskInv, EventInv

LEMMA HopStep ==
  ASSUME TurnInv, Frame, Hop
  PROVE  TurnInv'
<1>1. PICK k \in TaskId, p \in TaskId : notify = k /\ tasks[k].parent = p
  <2>1. notify # NoTask /\ notify \in TaskId
    BY DEF Hop, OnChildCompleted, TurnInv, TurnTypes, OptTask
  <2>2. tasks[notify].parent \in TaskId
    BY <2>1, NotFree DEF TurnInv, FlowInv
  <2> QED BY <2>1, <2>2
<1>2. /\ mode = "resume" /\ mode' = "resume" /\ UNCHANGED <<retry, pos, suspended, buffer, drain>>
      /\ ctx.gen # "none" /\ ~suspended /\ k # NoTask
  BY Running DEF Hop, TaskId, NoTask
<1>3. /\ ctx' \in Contexts /\ SameProgram(ctx, ctx') /\ ctx'.recv = ctx.recv
      /\ IdInv' /\ Awaited(ctx') = Awaited(ctx)
      /\ \A w \in Waiters(ctx') : w \in Waiters(ctx) /\ w # TimedOutWaiter
      /\ OneWait(ctx') /\ NoWaiterOverlooked'
  BY HopContext
<1>4. /\ tasks' \in [TaskId -> Task] /\ notify' \in OptTask /\ SameShape /\ TaskInv'
      /\ notify' # NoTask => IsComplete(notify)' /\ tasks'[notify'].parent # NoTask
  <2>1. CASE IsComplete(p)
    <3>1. TaskInv' /\ UNCHANGED tasks /\ notify' = NoTask
      BY <1>1, <2>1, IgnoredHop
    <3> QED BY <3>1 DEF TurnInv, TurnTypes, OptTask, SameShape
  <2>2. CASE ~IsComplete(p)
    <3>1. PICK rec \in Task :
            /\ rec = Told(p, k) /\ rec.kind = tasks[p].kind
            /\ rec.kids = tasks[p].kids /\ rec.parent = tasks[p].parent
            /\ tasks[p].kind = "event" /\ k = tasks[p].kids[1] =>
                 rec.out = tasks[k].out /\ rec.val = tasks[k].val
      BY <1>1, ToldFields
    <3>2. /\ tasks' = [tasks EXCEPT ![p] = rec]
          /\ notify' = IF rec.out = "pending" THEN NoTask ELSE Notification(p)
      BY <1>1, <2>2, <3>1 DEF Hop, OnChildCompleted
    <3>3. notify' \in OptTask /\ (notify' # NoTask => notify' = p /\ rec.out # "pending" /\ tasks[p].parent # NoTask)
      BY <3>2 DEF Notification, OptTask
    <3>4. /\ tasks' \in [TaskId -> Task] /\ SameShape /\ tasks[p].kind \in Composites
          /\ \A t \in TaskId : t # p => tasks'[t] = tasks[t]
          /\ ParentInv' /\ EventInv'
      BY <1>1, <2>2, <3>1, <3>2, <3>3, ClimbTree
    <3>5. WaitInv' /\ AwaitedInv' /\ RetryInv'
      BY <1>1, <1>2, <1>3, <2>2, <3>4, ClimbWaits
    <3>6. tasks'[p] = rec
      BY <3>2 DEF TurnInv, TurnTypes
    <3>7. notify' # NoTask => IsComplete(notify)' /\ tasks'[notify'].parent # NoTask
      BY <3>1, <3>3, <3>6 DEF IsComplete
    <3> QED BY <3>3, <3>4, <3>5, <3>7 DEF TaskInv
  <2> QED BY <2>1, <2>2
<1>5. EnvInv'
  BY <1>3, <1>4, EndsEnv DEF SameProgram
<1>6. FlowInv'
  <2>1. Instruction' = Instruction /\ ctx'.gen = ctx.gen
    BY <1>3 DEF SameProgram, Instruction, prog, Frame
  <2> QED BY <1>2, <1>4, <2>1 DEF TurnInv, FlowInv
<1>7. PosTypes'
  BY <1>2, PosKept
<1>8. TurnTypes'
  BY <1>2, <1>3, <1>4, <1>7 DEF TurnInv, TurnTypes, PosTypes
<1> QED BY <1>2, <1>3, <1>4, <1>5, <1>6, <1>8, TurnStep

----------------------------------------------------------------------------
(* Between turns, and the steps of the sidecar and the clients.            *)

(* An unused slot, a new context and a task without retry policy.          *)
LEMMA NewTurnTyped ==
  /\ Free \in Task /\ NewContext \in Contexts /\ NoRetry \in Retries
<1>1. Free \in Task
  <2>1. <<>> \in Seq(TaskId)
    OBVIOUS
  <2> QED BY <2>1 DEF Free, NewTask, Task, Kinds, Outcomes
<1>2. NewContext \in Contexts
  <2>1. /\ [n \in Names |-> <<>>] \in [Names -> Seq(Nat)]
        /\ [n \in Names |-> <<>>] \in [Names -> Seq(TaskId)]
    <3>1. <<>> \in Seq(Nat) /\ <<>> \in Seq(TaskId)
      OBVIOUS
    <3> QED BY <3>1
  <2>2. <<>> \in Seq(TaskId) /\ <<>> \in Seq(Outcomes \X Nat)
    OBVIOUS
  <2>3. {} \in ActionSets /\ {} \in SUBSET PTasks /\ {} \in SUBSET STRING
    BY ActionSetFacts
  <2>4. PICK f : f = [n \in Names |-> <<>>]
    OBVIOUS
  <2>5. NoTask \in OptTask
    BY DEF OptTask
  <2>6. NewContext = [gen |-> "none", pc |-> 0, prev |-> NoTask, env |-> <<>>, seen |-> <<>>,
                      seq |-> 0, acts |-> {}, ptasks |-> {}, recv |-> f, wait |-> f, got |-> f,
                      status |-> "running", error |-> "none", save |-> FALSE,
                      hpatch |-> {}, apatch |-> {}, unpatch |-> {}, epatch |-> {}]
    BY <2>4 DEF NewContext
  <2>7. f \in [Names -> Seq(Nat)] /\ f \in [Names -> Seq(TaskId)]
    BY <2>1, <2>4
  <2> QED BY <2>2, <2>3, <2>5, <2>6, <2>7 DEF Contexts, Statuses
<1>3. NoRetry \in Retries
  BY DEF NoRetry, Retries, OptTask, Labels
<1> QED BY <1>1, <1>2, <1>3

(* A state between two turns, and the first one of an instance.            *)
LEMMA BetweenTurns == mode = "idle" /\ IdleInv /\ SidecarTypes => TurnInv
<1> SUFFICES ASSUME mode = "idle", IdleInv, SidecarTypes PROVE TurnInv
  OBVIOUS
<1>1. /\ ctx = NewContext /\ tasks = [t \in TaskId |-> Free] /\ notify = NoTask
      /\ retry = [t \in TaskId |-> NoRetry] /\ batch = <<>>
      /\ pos = 0 /\ suspended = FALSE /\ buffer = <<>> /\ drain = 0
  BY DEF IdleInv
<1>2. /\ ctx.gen = "none" /\ ctx.prev = NoTask /\ ctx.env = <<>>
      /\ ctx.acts = {} /\ ctx.ptasks = {}
      /\ \A n \in Names : ctx.wait[n] = <<>>
  BY <1>1 DEF NewContext
<1>3. \A t \in TaskId : /\ tasks[t] = Free /\ tasks[t].kind = "free" /\ tasks[t].parent = NoTask
                        /\ retry[t].max = 0 /\ retry[t].owner = NoTask
  BY <1>1 DEF Free, NewTask, NoRetry
<1>4. TurnTypes
  <2>1. tasks \in [TaskId -> Task] /\ ctx \in Contexts /\ retry \in [TaskId -> Retries]
    BY <1>1, NewTurnTyped
  <2>2. Events \in Seq(HistoryEvents)
    BY DEF SidecarTypes, Events
  <2>3. Len(Events) \in Nat /\ 0 <= Len(Events)
    BY <2>2
  <2>4. buffer \in Seq(HeldEvents) /\ drain \in Nat /\ drain <= Len(buffer) + 1
    BY <1>1
  <2>5. notify \in OptTask /\ suspended \in BOOLEAN
    BY <1>1 DEF OptTask
  <2>6. pos \in Nat /\ pos <= Len(Events)
    BY <1>1, <2>3
  <2> QED BY <2>1, <2>4, <2>5, <2>6 DEF TurnTypes
<1>5. IdInv
  BY <1>2 DEF IdInv
<1>6. TaskInv
  <2>1. Waiters(ctx) = {}
    BY <1>2 DEF Waiters, Members
  <2>2. WaitInv
    BY <1>2, <2>1 DEF WaitInv, OneWait
  <2>3. AwaitedInv
    BY <1>2 DEF AwaitedInv, Awaited
  <2>4. RetryInv
    BY <1>3 DEF RetryInv, RetryOK
  <2>5. ParentInv /\ EventInv
    BY <1>3 DEF ParentInv, ParentOK, EventInv, EventOK
  <2> QED BY <2>2, <2>3, <2>4, <2>5 DEF TaskInv
<1>7. EnvInv
  BY <1>2 DEF EnvInv
<1>8. FlowInv
  BY <1>1, <1>2 DEF FlowInv
<1>9. NoWaiterOverlooked
  BY <1>2 DEF NoWaiterOverlooked
<1> QED BY <1>4, <1>5, <1>6, <1>7, <1>8, <1>9 DEF TurnInv

(* A turn ends and leaves nothing behind.                                  *)
LEMMA TurnIsOver ==
  ASSUME NoTurn, mode' = "idle", batch' = <<>>, SidecarTypes'
  PROVE  TurnInv'
<1>1. IdleInv'
  BY DEF NoTurn, IdleInv
<1>2. (mode = "idle" /\ IdleInv /\ SidecarTypes => TurnInv)'
  BY BetweenTurns, PTL
<1> QED BY <1>1, <1>2

(* Nothing of a turn exists, and none starts.                              *)
LEMMA BetweenStep ==
  ASSUME TurnInv, mode = "idle", UNCHANGED <<turnVars, batch>>, SidecarTypes'
  PROVE  TurnInv'
<1>1. IdleInv' /\ mode' = "idle"
  BY DEF TurnInv, IdleInv, turnVars
<1>2. (mode = "idle" /\ IdleInv /\ SidecarTypes => TurnInv)'
  BY BetweenTurns, PTL
<1> QED BY <1>1, <1>2

(* An event of the history, and a counter that goes up.                    *)
LEMMA EventTyped ==
  ASSUME NEW type \in EventTypes, NEW id \in Nat, NEW name \in Labels, NEW val \in Nat,
         type = "eventRaised" => name \in Names
  PROVE  Event(type, id, name, val) \in HistoryEvents
BY DEF Event, HistoryEvents

LEMMA CountersUp ==
  ASSUME NEW u \in Counters
  PROVE  /\ [u EXCEPT !.failed = @ + 1] \in Counters
         /\ [u EXCEPT !.dup = @ + 1] \in Counters
         /\ [u EXCEPT !.lost = @ + 1] \in Counters
         /\ [u EXCEPT !.susp = @ + 1] \in Counters
         /\ [u EXCEPT !.res = @ + 1] \in Counters
         /\ [u EXCEPT !.term = @ + 1] \in Counters
         /\ [u EXCEPT !.gen = @ + 1] \in Counters
         /\ \A n \in Names : [u EXCEPT !.raised[n] = @ + 1] \in Counters
<1>1. /\ [u EXCEPT !.failed = @ + 1] \in Counters
      /\ [u EXCEPT !.dup = @ + 1] \in Counters
      /\ [u EXCEPT !.lost = @ + 1] \in Counters
      /\ [u EXCEPT !.susp = @ + 1] \in Counters
      /\ [u EXCEPT !.res = @ + 1] \in Counters
      /\ [u EXCEPT !.term = @ + 1] \in Counters
      /\ [u EXCEPT !.gen = @ + 1] \in Counters
  BY DEF Counters
<1>2. ASSUME NEW n \in Names PROVE [u EXCEPT !.raised[n] = @ + 1] \in Counters
  <2>1. PICK f : f = [u.raised EXCEPT ![n] = u.raised[n] + 1]
    OBVIOUS
  <2>2. f \in [Names -> Nat]
    BY <2>1 DEF Counters
  <2>3. [u EXCEPT !.raised[n] = @ + 1] = [u EXCEPT !.raised = f]
    BY <2>1 DEF Counters
  <2>4. [u EXCEPT !.raised = f] \in Counters
    BY <2>2 DEF Counters
  <2> QED BY <2>3, <2>4
<1> QED BY <1>1, <1>2

(* The sidecar delivers a turn: a worker starts on it.                     *)
LEMMA DispatchStep ==
  ASSUME TurnInv, Dispatch, UNCHANGED scene
  PROVE  TurnInv'
<1>1. /\ mode = "idle" /\ mode' = "event"
      /\ UNCHANGED <<tasks, notify, ctx, retry, pos, suspended, buffer, drain>>
      /\ UNCHANGED <<hist, out, status, sdk, last, used>> /\ inbox' = <<>>
      /\ batch' = <<Event("workflowStarted", 0, "none", 0)>> \o inbox
  BY DEF Dispatch, Idle
<1>2. TurnTypes /\ SidecarTypes /\ IdInv /\ TaskInv /\ EnvInv /\ FlowInv /\ IdleInv
      /\ NoWaiterOverlooked
  BY DEF TurnInv
<1>3. Event("workflowStarted", 0, "none", 0) \in HistoryEvents
  BY EventTyped DEF EventTypes, Labels
<1>4. batch' \in Seq(HistoryEvents) /\ batch' # <<>>
      /\ batch'[1] = Event("workflowStarted", 0, "none", 0)
  <2>1. inbox \in Seq(HistoryEvents)
    BY <1>2 DEF SidecarTypes
  <2>2. PICK e : e = Event("workflowStarted", 0, "none", 0)
    OBVIOUS
  <2> QED BY <1>1, <1>3, <2>1, <2>2
<1>5. SidecarTypes'
  <2>1. inbox' \in Seq(HistoryEvents)
    BY <1>1
  <2> QED BY <1>1, <1>2, <1>4, <2>1 DEF SidecarTypes
<1>6. pos = 0 /\ ctx.gen = "none" /\ notify = NoTask /\ ~suspended
  BY <1>1, <1>2 DEF IdleInv, NewContext
<1>7. TurnTypes'
  <2>1. Events' \in Seq(HistoryEvents)
    BY <1>5 DEF SidecarTypes, Events
  <2>2. Len(Events') \in Nat
    BY <2>1
  <2>3. pos' \in Nat /\ pos' <= Len(Events')
    BY <1>1, <1>6, <2>2
  <2> QED BY <1>1, <1>2, <2>3 DEF TurnTypes
<1>8. IdInv' /\ EnvInv' /\ NoWaiterOverlooked'
  BY <1>1, <1>2 DEF IdInv, EnvInv, Held, NoWaiterOverlooked
<1>9. TaskInv'
  BY <1>1, <1>2, SameTasks
<1>10. FlowInv'
  BY <1>1, <1>2, <1>6 DEF FlowInv
<1>11. IdleInv'
  BY <1>1, <1>4 DEF IdleInv
<1> QED BY <1>5, <1>7, <1>8, <1>9, <1>10, <1>11 DEF TurnInv

(* The response of a turn is lost.                                         *)
LEMMA LoseTurnStep ==
  ASSUME TurnInv, LoseTurn, UNCHANGED scene
  PROVE  TurnInv'
<1>1. SidecarTypes /\ IdleInv
  BY DEF TurnInv
<1>2. Tail(batch) \in Seq(HistoryEvents)
  <2>1. batch # <<>> /\ batch \in Seq(HistoryEvents)
    BY <1>1 DEF LoseTurn, IdleInv, SidecarTypes
  <2> QED BY <2>1
<1>3. inbox' \in Seq(HistoryEvents) /\ batch' \in Seq(HistoryEvents)
  <2>1. inbox \in Seq(HistoryEvents) /\ inbox' = Tail(batch) \o inbox /\ batch' = <<>>
    BY <1>1 DEF LoseTurn, SidecarTypes
  <2> QED BY <1>2, <2>1
<1>4. used' \in Counters
  BY <1>1, CountersUp DEF LoseTurn, SidecarTypes
<1>5. SidecarTypes'
  BY <1>1, <1>3, <1>4 DEF LoseTurn, SidecarTypes
<1> QED BY <1>5, TurnIsOver DEF LoseTurn

(* Work ends, a timer fires.                                               *)
LEMMA DeliverStep ==
  ASSUME TurnInv, UNCHANGED scene, NEW a \in out, NEW e \in HistoryEvents,
         NEW u \in Counters, Deliver(a, e, u)
  PROVE  TurnInv'
<1>1. SidecarTypes /\ mode = "idle"
  BY DEF TurnInv, Deliver, Between, Idle
<1>2. /\ UNCHANGED <<turnVars, hist, batch, status, last, sdk>>
      /\ inbox' = Append(inbox, e)
  BY DEF Deliver, Between
<1>3. inbox' \in Seq(HistoryEvents)
  BY <1>1, <1>2 DEF SidecarTypes
<1>4. used' \in Counters
  BY CountersUp DEF Deliver
<1>5. out' \subseteq out
  BY DEF Deliver
<1>6. SidecarTypes'
  BY <1>1, <1>2, <1>3, <1>4, <1>5 DEF SidecarTypes
<1> QED BY <1>1, <1>2, <1>6, BetweenStep

LEMMA OutcomeKeeps ==
  ASSUME TurnInv, Outcome, UNCHANGED scene
  PROVE  TurnInv'
<1>1. used \in Counters /\ \A a \in out : a.id \in Nat
  BY DEF TurnInv, SidecarTypes, Actions
<1>2. CASE WorkDone
  <2>1. PICK a \in out :
          Deliver(a, Event(IF a.kind = "activity" THEN "taskCompleted"
                           ELSE "childWorkflowInstanceCompleted", a.id, "none", a.id), used)
    BY <1>2 DEF WorkDone
  <2>2. PICK type : type = IF a.kind = "activity" THEN "taskCompleted"
                           ELSE "childWorkflowInstanceCompleted"
    OBVIOUS
  <2>3. type \in EventTypes /\ type # "eventRaised"
    BY <2>2 DEF EventTypes
  <2>4. Event(type, a.id, "none", a.id) \in HistoryEvents
    BY <1>1, <2>3, EventTyped DEF Labels
  <2> QED BY <1>1, <2>1, <2>2, <2>4, DeliverStep
<1>3. CASE WorkFailed
  <2>1. PICK a \in out, how \in {"soft", "fatal"} :
          Deliver(a, Event(IF a.kind = "activity" THEN "taskFailed"
                           ELSE "childWorkflowInstanceFailed", a.id, how, 0),
                  [used EXCEPT !.failed = @ + 1])
    BY <1>3 DEF WorkFailed
  <2>2. PICK type : type = IF a.kind = "activity" THEN "taskFailed"
                           ELSE "childWorkflowInstanceFailed"
    OBVIOUS
  <2>3. type \in EventTypes /\ type # "eventRaised"
    BY <2>2 DEF EventTypes
  <2>4. how \in Labels
    BY DEF Labels
  <2>5. Event(type, a.id, how, 0) \in HistoryEvents
    BY <1>1, <2>3, <2>4, EventTyped
  <2>6. [used EXCEPT !.failed = @ + 1] \in Counters
    BY <1>1, CountersUp
  <2> QED BY <2>1, <2>2, <2>5, <2>6, DeliverStep
<1>4. CASE TimerFires
  <2>1. PICK a \in out : Deliver(a, Event("timerFired", a.id, "none", 0), used)
    BY <1>4 DEF TimerFires
  <2>2. Event("timerFired", a.id, "none", 0) \in HistoryEvents
    BY <1>1, EventTyped DEF Labels, EventTypes
  <2> QED BY <1>1, <2>1, <2>2, DeliverStep
<1> QED BY <1>2, <1>3, <1>4 DEF Outcome

(* A client raises an event, suspends, resumes or terminates.              *)
LEMMA RequestStep ==
  ASSUME TurnInv, UNCHANGED scene, NEW e \in HistoryEvents, NEW u \in Counters, Request(e, u)
  PROVE  TurnInv'
<1>1. SidecarTypes /\ mode = "idle"
  BY DEF TurnInv, Request, Between, Idle
<1>2. /\ UNCHANGED <<turnVars, hist, batch, status, last, sdk, out>>
      /\ inbox' = Append(inbox, e) /\ used' = u
  BY DEF Request, Between
<1>3. inbox' \in Seq(HistoryEvents)
  BY <1>1, <1>2 DEF SidecarTypes
<1>4. SidecarTypes'
  BY <1>1, <1>2, <1>3 DEF SidecarTypes
<1> QED BY <1>1, <1>2, <1>4, BetweenStep

LEMMA ClientKeeps ==
  ASSUME TurnInv, Client, UNCHANGED scene
  PROVE  TurnInv'
<1>1. used \in Counters
  BY DEF TurnInv, SidecarTypes
<1>2. CASE RaiseEvent
  <2>1. PICK n \in Names :
          Request(Event("eventRaised", 0, n, used.raised[n] + 1),
                  [used EXCEPT !.raised[n] = @ + 1])
    BY <1>2 DEF RaiseEvent
  <2>2. n \in Labels /\ used.raised[n] + 1 \in Nat
    BY <1>1, OrchestratorAssumption DEF Counters, Labels
  <2>3. Event("eventRaised", 0, n, used.raised[n] + 1) \in HistoryEvents
    BY <2>2, EventTyped DEF EventTypes
  <2>4. [used EXCEPT !.raised[n] = @ + 1] \in Counters
    BY <1>1, CountersUp
  <2> QED BY <2>1, <2>3, <2>4, RequestStep
<1>3. CASE SuspendRequested
  <2>1. Request(Event("executionSuspended", 0, "none", 0), [used EXCEPT !.susp = @ + 1])
    BY <1>3 DEF SuspendRequested
  <2>2. Event("executionSuspended", 0, "none", 0) \in HistoryEvents
    BY EventTyped DEF Labels, EventTypes
  <2>3. [used EXCEPT !.susp = @ + 1] \in Counters
    BY <1>1, CountersUp
  <2> QED BY <2>1, <2>2, <2>3, RequestStep
<1>4. CASE ResumeRequested
  <2>1. Request(Event("executionResumed", 0, "none", 0), [used EXCEPT !.res = @ + 1])
    BY <1>4 DEF ResumeRequested
  <2>2. Event("executionResumed", 0, "none", 0) \in HistoryEvents
    BY EventTyped DEF Labels, EventTypes
  <2>3. [used EXCEPT !.res = @ + 1] \in Counters
    BY <1>1, CountersUp
  <2> QED BY <2>1, <2>2, <2>3, RequestStep
<1>5. CASE TerminateRequested
  <2>1. Request(Event("executionTerminated", 0, "none", 0), [used EXCEPT !.term = @ + 1])
    BY <1>5 DEF TerminateRequested
  <2>2. Event("executionTerminated", 0, "none", 0) \in HistoryEvents
    BY EventTyped DEF Labels, EventTypes
  <2>3. [used EXCEPT !.term = @ + 1] \in Counters
    BY <1>1, CountersUp
  <2> QED BY <2>1, <2>2, <2>3, RequestStep
<1> QED BY <1>2, <1>3, <1>4, <1>5 DEF Client

(* The worker process is replaced between two turns.                       *)
LEMMA UpgradeStep ==
  ASSUME TurnInv, UpgradeWorker, UNCHANGED scene
  PROVE  TurnInv'
<1>1. /\ mode = "idle" /\ UNCHANGED <<turnVars, hist, batch, status, last, inbox, out, used>>
      /\ sdk' = "new"
  BY DEF UpgradeWorker, Between, Idle
<1>2. SidecarTypes'
  BY <1>1 DEF TurnInv, SidecarTypes
<1> QED BY <1>1, <1>2, BetweenStep

(* The actions that a response asks the sidecar to carry out.              *)
LEMMA SchedulingTyped ==
  ASSUME TurnInv
  PROVE  /\ Scheduling \in ActionSets
         /\ \A a \in Scheduling : a \in Actions /\ a.kind \in {"activity", "child", "timer"}
<1>1. ctx.acts \in ActionSets
  BY ContextTypes, Zenon DEF TurnInv, TurnTypes
<1>2. Scheduling \subseteq ctx.acts
  <2>1. CASE ctx.status = "continued"
    <3>1. \A a \in GetActions(ctx) : a.kind = "complete"
      BY <2>1 DEF GetActions, Action
    <3> QED BY <3>1 DEF Scheduling
  <2>2. CASE ctx.status # "continued"
    BY <2>2 DEF Scheduling, GetActions
  <2> QED BY <2>1, <2>2
<1>3. Scheduling \in ActionSets
  BY <1>1, <1>2, ActionSetFacts
<1>4. ASSUME NEW a \in Scheduling
      PROVE  a \in Actions /\ a.kind \in {"activity", "child", "timer"}
  <2>1. a \in Actions
    BY <1>3, ActionSetFacts
  <2> QED BY <2>1 DEF Scheduling, Actions
<1> QED BY <1>3, <1>4

(* The event that confirms an action.                                      *)
LEMMA ConfirmationTyped ==
  ASSUME NEW a \in Actions, a.kind \in {"activity", "child", "timer"}
  PROVE  /\ Confirmation(a) \in HistoryEvents
         /\ Confirmation(a).type \in
              {"taskScheduled", "childWorkflowInstanceCreated", "timerCreated"}
<1>1. PICK type \in {"taskScheduled", "childWorkflowInstanceCreated", "timerCreated"} :
        Confirmation(a) = Event(type, a.id, a.name, 0)
  <2>1. CASE a.kind = "activity"
    BY <2>1 DEF Confirmation
  <2>2. CASE a.kind = "child"
    BY <2>2 DEF Confirmation
  <2>3. CASE a.kind = "timer"
    BY <2>3 DEF Confirmation
  <2> QED BY <2>1, <2>2, <2>3
<1>2. a.id \in Nat /\ a.name \in Labels
  BY DEF Actions
<1>3. type \in EventTypes /\ type # "eventRaised"
  BY DEF EventTypes
<1>4. Event(type, a.id, a.name, 0) \in HistoryEvents
  BY <1>2, <1>3, EventTyped
<1>5. Event(type, a.id, a.name, 0).type = type
  BY DEF Event
<1> QED BY <1>1, <1>4, <1>5

(* The stored events of a turn are its events, with its patches.           *)
LEMMA RecordedTyped ==
  ASSUME TurnInv
  PROVE  /\ Recorded \in Seq(HistoryEvents) /\ Len(Recorded) = Len(batch)
         /\ \A i \in DOMAIN batch : /\ Recorded[i].type = batch[i].type
                                    /\ Recorded[i].name = batch[i].name
                                    /\ Recorded[i].val = batch[i].val
<1>1. batch \in Seq(HistoryEvents) /\ ctx.epatch \in SUBSET STRING
  <2>1. ctx.epatch \in SUBSET STRING
    BY ContextTypes, Zenon DEF TurnInv, TurnTypes
  <2> QED BY <2>1 DEF TurnInv, SidecarTypes
<1>2. ASSUME NEW i \in DOMAIN batch
      PROVE  /\ Recorded[i] \in HistoryEvents
             /\ Recorded[i].type = batch[i].type /\ Recorded[i].name = batch[i].name
             /\ Recorded[i].val = batch[i].val
  <2>1. PICK e : e = batch[i]
    OBVIOUS
  <2>2. e \in HistoryEvents
    BY <1>1, <2>1
  <2>3. Recorded[i] = IF e.type = "workflowStarted"
                      THEN [e EXCEPT !.patches = ctx.epatch] ELSE e
    BY <2>1 DEF Recorded
  <2>4. CASE e.type = "workflowStarted"
    BY <1>1, <2>1, <2>2, <2>3, <2>4 DEF HistoryEvents
  <2>5. CASE e.type # "workflowStarted"
    BY <2>1, <2>2, <2>3, <2>5
  <2> QED BY <2>4, <2>5
<1>3. DOMAIN Recorded = DOMAIN batch /\ DOMAIN batch = 1 .. Len(batch) /\ Len(batch) \in Nat
  BY <1>1 DEF Recorded
<1>4. Recorded = [i \in 1 .. Len(batch) |-> Recorded[i]]
  BY <1>3 DEF Recorded
<1>5. \A i \in 1 .. Len(batch) : Recorded[i] \in HistoryEvents
  BY <1>2, <1>3
<1> HIDE DEF Recorded
<1>6. Recorded \in Seq(HistoryEvents) /\ Len(Recorded) = Len(batch)
  <2>1. PICK r : r = Recorded
    OBVIOUS
  <2>2. PICK n \in Nat : n = Len(batch)
    BY <1>3
  <2>3. r = [i \in 1 .. n |-> r[i]] /\ \A i \in 1 .. n : r[i] \in HistoryEvents
    BY <1>4, <1>5, <2>1, <2>2
  <2>4. r \in [1 .. n -> HistoryEvents]
    BY <2>3
  <2>5. r \in Seq(HistoryEvents) /\ Len(r) = n
    BY <2>4
  <2> QED BY <2>1, <2>2, <2>5
<1> QED BY <1>2, <1>6

(* What the next dispatch must reproduce is typed like the context.        *)
LEMMA SnapshotTyped ==
  ASSUME TurnInv
  PROVE  Snapshot \in Snapshots
<1>1. PICK c \in Contexts : c = ctx
  BY DEF TurnInv, TurnTypes
<1>2. /\ c.pc \in Nat /\ c.prev \in OptTask /\ c.env \in Seq(TaskId)
      /\ c.seen \in Seq(Outcomes \X Nat) /\ c.seq \in Nat /\ c.ptasks \in SUBSET PTasks
      /\ c.recv \in [Names -> Seq(Nat)] /\ c.wait \in [Names -> Seq(TaskId)]
      /\ c.got \in [Names -> Seq(Nat)] /\ c.apatch \in SUBSET STRING
  BY ContextTypes, Zenon
<1>3. tasks \in [TaskId -> Task] /\ retry \in [TaskId -> Retries]
  BY DEF TurnInv, TurnTypes
<1>4. Snapshot =
        [pc |-> c.pc, prev |-> c.prev, env |-> c.env, seen |-> c.seen, seq |-> c.seq,
         ptasks |-> c.ptasks, recv |-> c.recv, wait |-> c.wait, got |-> c.got,
         apatch |-> c.apatch, tasks |-> tasks, retry |-> retry]
  BY <1>1 DEF Snapshot
<1> QED BY <1>2, <1>3, <1>4 DEF Snapshots

(* The sidecar stores the response of a turn.                              *)
LEMMA CommitTurnStep ==
  ASSUME TurnInv, CommitTurn, UNCHANGED scene
  PROVE  TurnInv'
<1>1. PICK order \in ById(Scheduling) :
        hist' = hist \o Recorded \o [i \in DOMAIN order |-> Confirmation(order[i])]
  BY DEF CommitTurn
<1>2. SidecarTypes
  BY DEF TurnInv
<1>3. hist' \in Seq(HistoryEvents)
  <2>1. Cardinality(Scheduling) \in Nat
    BY SchedulingTyped, ActionSetFacts, FS_CardinalityType
  <2>2. order \in [1 .. Cardinality(Scheduling) -> Scheduling]
    BY DEF ById
  <2>3. PICK N \in Nat : N = Cardinality(Scheduling)
    BY <2>1
  <2>4. DOMAIN order = 1 .. N /\ \A i \in 1 .. N : order[i] \in Scheduling
    BY <2>2, <2>3
  <2>5. \A i \in 1 .. N : Confirmation(order[i]) \in HistoryEvents
    BY <2>4, SchedulingTyped, ConfirmationTyped
  <2>6. PICK s : s = [i \in DOMAIN order |-> Confirmation(order[i])]
    OBVIOUS
  <2>7. s \in [1 .. N -> HistoryEvents]
    BY <2>4, <2>5, <2>6
  <2>8. s \in Seq(HistoryEvents)
    BY <2>7
  <2>9. hist \in Seq(HistoryEvents) /\ Recorded \in Seq(HistoryEvents)
    BY <1>2, RecordedTyped DEF SidecarTypes
  <2> QED BY <1>1, <2>6, <2>8, <2>9
<1>4. out' \in SUBSET Actions /\ \A a \in out' : a.kind # "complete"
  BY <1>2, SchedulingTyped DEF CommitTurn, SidecarTypes
<1>5. status' \in {"running", "completed", "failed", "terminated"}
  <2>1. ctx.status \in Statuses
    BY ContextTypes, Zenon DEF TurnInv, TurnTypes
  <2> QED BY <2>1 DEF CommitTurn, Statuses
<1>6. last' \in [snap: Seq(Snapshots), before: [Names -> Seq(Nat)]]
  <2>1. <<Snapshot>> \in Seq(Snapshots)
    BY SnapshotTyped
  <2>2. PICK s \in Seq(Snapshots) : s = <<Snapshot>>
    BY <2>1
  <2>3. last' = [last EXCEPT !.snap = s]
    BY <2>2 DEF CommitTurn
  <2> QED BY <1>2, <2>3 DEF SidecarTypes
<1>7. batch' \in Seq(HistoryEvents) /\ UNCHANGED <<inbox, sdk, used>>
  BY DEF CommitTurn
<1>8. SidecarTypes'
  BY <1>2, <1>3, <1>4, <1>5, <1>6, <1>7 DEF SidecarTypes
<1> QED BY <1>8, TurnIsOver DEF CommitTurn

(* The events of one name that a new generation starts with.               *)
LEMMA CarryoverTyped ==
  ASSUME NEW c \in Contexts, NEW n \in Names
  PROVE  Carryover(c, n) \in Seq(Nat) /\ (c.save => Len(Carryover(c, n)) = Len(c.recv[n]))
<1>1. c.recv[n] \in Seq(Nat)
  BY ContextTypes
<1>2. CASE ~c.save
  BY <1>2 DEF Carryover
<1>3. CASE c.save
  <2>1. PICK r : r = c.recv[n]
    OBVIOUS
  <2>2. PICK N \in Nat : N = Len(r)
    BY <1>1, <2>1
  <2>3. DOMAIN r = 1 .. N /\ \A i \in 1 .. N : r[i] \in Nat
    BY <1>1, <2>1, <2>2
  <2>4. PICK k : k = Carryover(c, n)
    OBVIOUS
  <2>5. k = [i \in DOMAIN r |-> IF r[i] \in scene.falsy THEN 0 ELSE r[i]]
    BY <1>3, <2>1, <2>4 DEF Carryover
  <2>6. k \in [1 .. N -> Nat]
    BY <2>3, <2>5
  <2>7. k \in Seq(Nat) /\ Len(k) = N
    BY <2>6
  <2> QED BY <2>1, <2>2, <2>4, <2>7
<1> QED BY <1>2, <1>3

Carried == [name: Names, at: Nat, val: Nat]

(* The events carried over are finitely many.                              *)
LEMMA CarriedOverTyped ==
  ASSUME NEW c \in Contexts
  PROVE  CarriedOver(c) \subseteq Carried /\ IsFiniteSet(CarriedOver(c))
<1> DEFINE Of(n) == {[name |-> n, at |-> i, val |-> Carryover(c, n)[i]] :
                       i \in DOMAIN Carryover(c, n)}
<1>1. ASSUME NEW n \in Names PROVE Of(n) \subseteq Carried /\ IsFiniteSet(Of(n))
  <2>1. PICK k \in Seq(Nat) : k = Carryover(c, n)
    BY CarryoverTyped
  <2>2. PICK f : f = [i \in DOMAIN k |-> [name |-> n, at |-> i, val |-> k[i]]]
    OBVIOUS
  <2>3. Of(n) = {f[i] : i \in DOMAIN k} /\ f = [i \in DOMAIN k |-> f[i]]
    BY <2>1, <2>2
  <2>4. IsFiniteSet(DOMAIN k)
    <3>1. DOMAIN k = 1 .. Len(k) /\ Len(k) \in Nat
      BY <2>1
    <3> QED BY <3>1, FS_Interval
  <2>5. \A i \in DOMAIN k : f[i] \in Carried
    BY <2>1, <2>2 DEF Carried
  <2> HIDE DEF Of
  <2> QED BY <2>3, <2>4, <2>5, FiniteImage
<1>2. PICK g : g = [n \in Names |-> Of(n)]
  OBVIOUS
<1>3. PICK S : S = {g[n] : n \in Names}
  OBVIOUS
<1>4. CarriedOver(c) = UNION S
  BY <1>2, <1>3 DEF CarriedOver
<1>5. \A T \in S : T \subseteq Carried /\ IsFiniteSet(T)
  BY <1>1, <1>2, <1>3
<1>6. IsFiniteSet(S)
  <2>1. g = [n \in Names |-> g[n]]
    BY <1>2
  <2> QED BY <1>3, <2>1, OrchestratorAssumption, FiniteImage
<1>7. IsFiniteSet(UNION S)
  BY <1>5, <1>6, FS_UNION
<1> HIDE DEF Of
<1> QED BY <1>4, <1>5, <1>7

(* A list of them is a list of raised events.                              *)
LEMMA CarriedEvents ==
  ASSUME NEW c \in Contexts, NEW s \in InOrder(CarriedOver(c))
  PROVE  /\ Len(s) \in Nat /\ DOMAIN s = 1 .. Len(s) /\ s \in Seq(Carried)
         /\ Members(s) = CarriedOver(c)
         /\ [i \in DOMAIN s |-> Event("eventRaised", 0, s[i].name, s[i].val)]
              \in Seq(HistoryEvents)
<1>1. PICK A : A = CarriedOver(c)
  OBVIOUS
<1>2. A \subseteq Carried /\ Cardinality(A) \in Nat
  BY <1>1, CarriedOverTyped, FS_CardinalityType
<1>3. s \in [1 .. Cardinality(A) -> A] /\ Members(s) = A
  BY <1>1 DEF InOrder
<1>4. PICK N \in Nat : N = Cardinality(A)
  BY <1>2
<1>5. s \in [1 .. N -> A] /\ s \in [1 .. N -> Carried]
  BY <1>2, <1>3, <1>4
<1>6. Len(s) \in Nat /\ DOMAIN s = 1 .. Len(s) /\ s \in Seq(Carried)
  <2>1. s \in Seq(Carried)
    BY <1>5
  <2> QED BY <2>1
<1>7. \A i \in 1 .. N : Event("eventRaised", 0, s[i].name, s[i].val) \in HistoryEvents
  <2> SUFFICES ASSUME NEW i \in 1 .. N
               PROVE  Event("eventRaised", 0, s[i].name, s[i].val) \in HistoryEvents
    OBVIOUS
  <2>1. s[i] \in Carried
    BY <1>5
  <2>2. s[i].name \in Names /\ s[i].val \in Nat
    BY <2>1 DEF Carried
  <2>3. s[i].name \in Labels
    BY <2>2, OrchestratorAssumption DEF Labels
  <2>4. PICK n \in Names : n = s[i].name
    BY <2>2
  <2>5. PICK v \in Nat : v = s[i].val
    BY <2>2
  <2>6. n \in Labels /\ "eventRaised" \in EventTypes
    BY <2>3, <2>4 DEF EventTypes
  <2>7. Event("eventRaised", 0, n, v) \in HistoryEvents
    BY <2>6, EventTyped
  <2> QED BY <2>4, <2>5, <2>7
<1>8. PICK f : f = [i \in DOMAIN s |-> Event("eventRaised", 0, s[i].name, s[i].val)]
  OBVIOUS
<1>9. f \in [1 .. N -> HistoryEvents]
  BY <1>5, <1>7, <1>8
<1>10. f \in Seq(HistoryEvents)
  BY <1>9
<1> QED BY <1>1, <1>3, <1>6, <1>8, <1>10

(* The next generation starts with a new history.                          *)
LEMMA CommitContinuedStep ==
  ASSUME TurnInv, CommitContinued, UNCHANGED scene
  PROVE  TurnInv'
<1>1. SidecarTypes /\ ctx \in Contexts
  BY DEF TurnInv, TurnTypes
<1>2. PICK s \in InOrder(CarriedOver(ctx)) :
        inbox' = <<Event("executionStarted", 0, "none", 0)>>
                 \o [i \in DOMAIN s |-> Event("eventRaised", 0, s[i].name, s[i].val)]
                 \o inbox
  BY DEF CommitContinued
<1>3. inbox' \in Seq(HistoryEvents)
  <2>1. Event("executionStarted", 0, "none", 0) \in HistoryEvents
    BY EventTyped DEF EventTypes, Labels
  <2>2. PICK e \in HistoryEvents : e = Event("executionStarted", 0, "none", 0)
    BY <2>1
  <2>3. PICK t \in Seq(HistoryEvents) :
          t = [i \in DOMAIN s |-> Event("eventRaised", 0, s[i].name, s[i].val)]
    BY <1>1, CarriedEvents
  <2>4. inbox \in Seq(HistoryEvents)
    BY <1>1 DEF SidecarTypes
  <2>5. inbox' = <<e>> \o t \o inbox
    BY <1>2, <2>2, <2>3
  <2> QED BY <2>4, <2>5
<1>4. /\ hist' = <<>> /\ out' = {} /\ batch' = <<>> /\ UNCHANGED <<status, sdk>>
      /\ used' = [used EXCEPT !.gen = @ + 1] /\ NoTurn /\ mode' = "idle"
  BY DEF CommitContinued
<1>5. used' \in Counters
  BY <1>1, <1>4, CountersUp DEF SidecarTypes
<1>6. last' \in [snap: Seq(Snapshots), before: [Names -> Seq(Nat)]]
  <2>1. PICK b : b = [n \in Names |-> last.before[n] \o ctx.got[n] \o
                                      IF ctx.save THEN <<>> ELSE ctx.recv[n]]
    OBVIOUS
  <2>2. ASSUME NEW n \in Names PROVE b[n] \in Seq(Nat)
    <3>1. last.before[n] \in Seq(Nat)
      BY <1>1 DEF SidecarTypes
    <3>2. ctx.got[n] \in Seq(Nat) /\ ctx.recv[n] \in Seq(Nat)
      BY <1>1, ContextTypes
    <3>3. PICK x \in Seq(Nat) : x = last.before[n]
      BY <3>1
    <3>4. PICK y \in Seq(Nat) : y = ctx.got[n]
      BY <3>2
    <3>5. PICK z \in Seq(Nat) : z = IF ctx.save THEN <<>> ELSE ctx.recv[n]
      <4>1. <<>> \in Seq(Nat)
        OBVIOUS
      <4>2. CASE ctx.save
        BY <4>1, <4>2
      <4>3. CASE ~ctx.save
        BY <3>2, <4>3
      <4> QED BY <4>2, <4>3
    <3>6. b[n] = x \o y \o z
      BY <2>1, <3>3, <3>4, <3>5
    <3> QED BY <3>6
  <2>3. b \in [Names -> Seq(Nat)]
    BY <2>1, <2>2
  <2>4. last' = [snap |-> <<>>, before |-> b]
    BY <2>1 DEF CommitContinued
  <2>5. <<>> \in Seq(Snapshots)
    OBVIOUS
  <2> QED BY <2>3, <2>4, <2>5
<1>7. SidecarTypes'
  BY <1>1, <1>3, <1>4, <1>5, <1>6 DEF SidecarTypes
<1> QED BY <1>4, <1>7, TurnIsOver

----------------------------------------------------------------------------
(* The invariant.                                                          *)

(* An instance starts between two turns.                                   *)
LEMMA InitInv == Init => TurnInv
<1> SUFFICES ASSUME Init PROVE TurnInv
  OBVIOUS
<1>1. mode = "idle" /\ IdleInv
  BY DEF Init, IdleInv
<1>2. inbox \in Seq(HistoryEvents)
  <2>1. Event("executionStarted", 0, "none", 0) \in HistoryEvents
    BY EventTyped DEF EventTypes, Labels
  <2> QED BY <2>1 DEF Init
<1>3. last \in [snap: Seq(Snapshots), before: [Names -> Seq(Nat)]]
  <2>1. <<>> \in Seq(Snapshots) /\ [n \in Names |-> <<>>] \in [Names -> Seq(Nat)]
    <3>1. <<>> \in Seq(Nat) /\ <<>> \in Seq(Snapshots)
      OBVIOUS
    <3> QED BY <3>1
  <2>2. last = [snap |-> <<>>, before |-> [n \in Names |-> <<>>]]
    BY DEF Init
  <2> QED BY <2>1, <2>2
<1>4. used \in Counters
  <2>1. [n \in Names |-> 0] \in [Names -> Nat]
    OBVIOUS
  <2> QED BY <2>1 DEF Init, Counters
<1>5. hist \in Seq(HistoryEvents) /\ batch \in Seq(HistoryEvents)
  BY DEF Init
<1>6. sdk \in {"old", "new"} /\ out \in SUBSET Actions /\ \A a \in out : a.kind # "complete"
  BY DEF Init
<1>7. SidecarTypes
  BY <1>2, <1>3, <1>4, <1>5, <1>6 DEF Init, SidecarTypes
<1> QED BY <1>1, <1>7, BetweenTurns

(* Every step of the specification preserves it.                           *)
LEMMA StepInv == TurnInv /\ [Next]_vars => TurnInv'
<1> SUFFICES ASSUME TurnInv, [Next]_vars PROVE TurnInv'
  OBVIOUS
<1>1. CASE UNCHANGED vars
  <2>1. UNCHANGED <<tasks, notify, ctx, retry, mode, pos, suspended, buffer, drain>>
    BY <1>1 DEF vars, turnVars
  <2>2. UNCHANGED <<scene, hist, inbox, batch, out, status, sdk, last, used>>
    BY <1>1 DEF vars, sidecarVars
  <2>3. TurnTypes' /\ SidecarTypes'
    BY <2>1, <2>2 DEF TurnInv, TurnTypes, SidecarTypes, Events
  <2>4. TaskInv'
    BY <2>1, SameTasks DEF TurnInv
  <2>5. IdInv' /\ EnvInv' /\ NoWaiterOverlooked' /\ IdleInv'
    BY <2>1, <2>2 DEF TurnInv, IdInv, EnvInv, Held, NoWaiterOverlooked, IdleInv
  <2>6. FlowInv'
    BY <2>1, <2>2 DEF TurnInv, FlowInv, Instruction, prog, IsComplete
  <2> QED BY <2>3, <2>4, <2>5, <2>6 DEF TurnInv
<1>2. CASE Turn /\ UNCHANGED scene
  <2>1. Frame
    BY <1>2 DEF Turn, Frame
  <2>2. CASE ProcessEvent
    BY <2>1, <2>2, BufferEventStep, OnWorkflowStartedStep, OnExecutionStartedStep,
       OnConfirmedStep, OnUnexpectedStep, OnCompletedStep, OnFailedStep, OnTimerFiredStep,
       OnEventRaisedStep, OnSuspendedStep, OnResumedStep, EndDrainStep, OnTerminatedStep,
       EndTurnStep DEF ProcessEvent
  <2>3. CASE Hop
    BY <2>1, <2>3, HopStep
  <2>4. CASE RunProgram
    BY <2>1, <2>4, StayYieldedStep, ResumeGeneratorStep, ResumeFinishedStep, RunScheduleStep,
       RunWaitNowStep, RunWaitStep, RunWaitBeforeUpgradeStep, RunComposeStep, RunYieldStep,
       RunIfPatchedStep, RunContinueAsNewStep, RunReturnStep DEF RunProgram
  <2> QED BY <1>2, <2>2, <2>3, <2>4 DEF Turn
<1>3. CASE Dispatch /\ UNCHANGED scene
  BY <1>3, DispatchStep
<1>4. CASE Commit /\ UNCHANGED scene
  BY <1>4, CommitTurnStep, CommitContinuedStep DEF Commit
<1>5. CASE LoseTurn /\ UNCHANGED scene
  BY <1>5, LoseTurnStep
<1>6. CASE Outcome /\ UNCHANGED scene
  BY <1>6, OutcomeKeeps
<1>7. CASE Client /\ UNCHANGED scene
  BY <1>7, ClientKeeps
<1>8. CASE UpgradeWorker /\ UNCHANGED scene
  BY <1>8, UpgradeStep
<1> QED BY <1>1, <1>2, <1>3, <1>4, <1>5, <1>6, <1>7, <1>8 DEF Next

(* Whatever the workflow function does, whatever is suspended, lost,       *)
(* delivered twice or raised, and across an upgrade of the worker: the     *)
(* waiters, the ids, the retry data and the composites of a turn fit       *)
(* together as TurnInv says.                                               *)
THEOREM Invariance == Spec => []TurnInv
BY InitInv, StepInv, PTL DEF Spec

(* What a turn builds is well formed: a pending task has one id, given by  *)
(* next_sequence_number, and an execution takes no event that is not there *)
(* (process_event, next_sequence_number).                                  *)
THEOREM TypeCorrect == Spec => []TypeOK
<1>1. TurnInv => TypeOK
  <2> SUFFICES ASSUME TurnInv PROVE TypeOK
    OBVIOUS
  <2>1. TurnTypes /\ SidecarTypes /\ IdInv
    BY DEF TurnInv
  <2>2. Events \in Seq(HistoryEvents)
    BY <2>1, CurrentTyped
  <2>3. \A i \in DOMAIN Events : Events[i].type \in EventTypes
    <3> HIDE DEF Events
    <3>1. \A i \in DOMAIN Events : Events[i] \in HistoryEvents
      BY <2>2
    <3> QED BY <3>1 DEF HistoryEvents
  <2>4. pos \in 0 .. Len(Events) /\ drain \in 0 .. Len(buffer) + 1
    <3>1. Len(Events) \in Nat /\ Len(buffer) \in Nat
      BY <2>1, <2>2 DEF TurnTypes
    <3> QED BY <2>1, <3>1 DEF TurnTypes
  <2>5. ctx.status \in {"running", "completed", "failed", "terminated", "continued"}
    BY <2>1, ContextTypes, Zenon DEF TurnTypes, Statuses
  <2>6. /\ \A a \in ctx.acts : a.id \in 1 .. ctx.seq
        /\ \A p, q \in ctx.ptasks :
             p.id \in 1 .. ctx.seq /\ (p.id = q.id \/ p.task = q.task => p = q)
    BY <2>1 DEF IdInv
  <2> QED BY <2>1, <2>3, <2>4, <2>5, <2>6 DEF TypeOK, TurnTypes, SidecarTypes, OptTask
<1> QED BY <1>1, Invariance, PTL

(* An event is never put into the buffer of received events while a        *)
(* waiter for its name is registered, also when the wait that registered   *)
(* it has timed out or its parent composite has completed                  *)
(* (wait_for_external_event, _unregister_stale_event_task).                *)
THEOREM WaitersComeFirst == Spec => []NoWaiterOverlooked
<1>1. TurnInv => NoWaiterOverlooked
  BY DEF TurnInv
<1> QED BY <1>1, Invariance, PTL

(* The payload that process_event hands to a waiter is what the program    *)
(* gets from the wait (ExternalEventWithTimeoutTask.on_child_completed).   *)
THEOREM PayloadReachesWait == Spec => []EventReachesWaiter
<1>1. TurnInv => EventReachesWaiter
  <2> SUFFICES ASSUME TurnInv, notify = NoTask, NEW t \in TaskId,
                      tasks[t].kind = "event", tasks[tasks[t].kids[1]].out = "done"
               PROVE  tasks[t].out = "done" /\ tasks[t].val = tasks[tasks[t].kids[1]].val
    BY DEF EventReachesWaiter
  <2>1. EventOK(t) /\ TurnTypes
    BY DEF TurnInv, TaskInv, EventInv
  <2>2. tasks[t] \in Task
    BY <2>1 DEF TurnTypes
  <2>3. tasks[t].kids \in Seq(TaskId) /\ Len(tasks[t].kids) = 2
    BY <2>1, <2>2 DEF Task, EventOK
  <2>4. tasks[t].kids[1] # NoTask
    <3>1. tasks[t].kids[1] \in TaskId
      BY <2>3
    <3> QED BY <3>1, MaxTasksAssumption DEF TaskId, NoTask
  <2> QED BY <2>1, <2>4 DEF EventOK
<1> QED BY <1>1, Invariance, PTL

(* While an instance is suspended, process_event holds the events back:    *)
(* the workflow function does not advance, and no task it waits for ends.  *)
THEOREM SuspensionIsQuiet == Spec => SuspendedIsQuiet
<1>1. TurnInv /\ [Next]_vars =>
        (suspended /\ suspended' => UNCHANGED <<tasks, retry, ctx.pc, ctx.env, ctx.seen>>)
  <2> SUFFICES ASSUME TurnInv, [Next]_vars, suspended, suspended'
               PROVE  UNCHANGED <<tasks, retry, ctx.pc, ctx.env, ctx.seen>>
    OBVIOUS
  <2>1. mode \in {"event", "done"} /\ ctx \in Contexts
    BY DEF TurnInv, TurnTypes, FlowInv
  <2>2. CASE UNCHANGED vars
    BY <2>2 DEF vars, turnVars
  <2>3. CASE ProcessEvent
    <3>1. HasEvent => Current \in HistoryEvents
      BY CurrentTyped DEF TurnInv
    <3>2. CASE BufferEvent
      BY <3>2 DEF BufferEvent
    <3>3. CASE OnWorkflowStarted
      BY <2>1, <3>3 DEF OnWorkflowStarted, On, Suspendable
    <3>4. CASE OnExecutionStarted
      BY <3>4 DEF OnExecutionStarted, On, Suspendable
    <3>5. CASE OnConfirmed
      BY <3>5 DEF OnConfirmed, On, Suspendable
    <3>6. CASE OnUnexpected
      BY <3>6 DEF OnUnexpected
    <3>7. CASE OnCompleted \/ OnFailed \/ OnTimerFired \/ OnEventRaised
      BY <3>7 DEF OnCompleted, OnFailed, OnTimerFired, OnEventRaised, On, Suspendable
    <3>8. CASE OnSuspended
      BY <3>8 DEF OnSuspended
    <3>9. CASE OnResumed
      BY <3>9 DEF OnResumed
    <3>10. CASE EndDrain \/ EndTurn
      BY <3>10 DEF EndDrain, EndTurn
    <3>11. CASE OnTerminated
      <4>1. SameProgram(ctx, ctx') /\ UNCHANGED <<tasks, retry>>
        BY <2>1, <3>11, SetCompleteFields DEF OnTerminated, Statuses
      <4> QED BY <4>1 DEF SameProgram
    <3> QED BY <2>3, <3>2, <3>3, <3>4, <3>5, <3>6, <3>7, <3>8, <3>9, <3>10, <3>11
            DEF ProcessEvent
  <2>4. CASE Hop \/ RunProgram
    BY <2>1, <2>4 DEF Hop, RunProgram, StayYielded, ResumeGenerator, ResumeFinished, Returns,
       RunSchedule, RunWaitNow, RunWait, RunWaitBeforeUpgrade, RunCompose, RunYield,
       RunIfPatched, RunContinueAsNew, RunReturn, AtInstruction
  <2>5. CASE Commit \/ LoseTurn
    BY <2>5 DEF Commit, CommitTurn, CommitContinued, LoseTurn, NoTurn
  <2>6. CASE Dispatch
    BY <2>6 DEF Dispatch
  <2>7. CASE Outcome \/ Client \/ UpgradeWorker
    BY <2>7 DEF Outcome, WorkDone, WorkFailed, TimerFires, Deliver, Client, RaiseEvent,
       SuspendRequested, ResumeRequested, TerminateRequested, Request, UpgradeWorker,
       Between, turnVars
  <2> QED BY <2>2, <2>3, <2>4, <2>5, <2>6, <2>7 DEF Next, Turn
<1> QED BY <1>1, Invariance, PTL DEF Spec, SuspendedIsQuiet

----------------------------------------------------------------------------
(* The raised events in a list of events.                                  *)

IsRaised(n, e) == e.type = "eventRaised" /\ e.name = n

Silent(n, s) == \A i \in DOMAIN s : ~IsRaised(n, s[i])

(* What a list carries depends on its raised events alone: f shows where   *)
(* each of them is in the other list.                                      *)
LEMMA CarriesMoved ==
  ASSUME NEW n, NEW s \in Seq(HistoryEvents), NEW t \in Seq(HistoryEvents), NEW f,
         NEW lo \in Nat, NEW hi \in Nat, Carries(n, s, lo, hi),
         \A i \in Raised(n, s) : f[i] \in Raised(n, t) /\ t[f[i]].val = s[i].val,
         \A j \in Raised(n, t) : \E i \in Raised(n, s) : f[i] = j,
         \A i, j \in Raised(n, s) : i < j => f[i] < f[j]
  PROVE  Carries(n, t, lo, hi)
<1>1. Raised(n, s) \subseteq Nat /\ Raised(n, t) \subseteq Nat
  BY DEF Raised
<1>2. {t[j].val : j \in Raised(n, t)} = {s[i].val : i \in Raised(n, s)}
  OBVIOUS
<1>3. ASSUME NEW j \in Raised(n, t), NEW k \in Raised(n, t), j < k
      PROVE  t[j].val < t[k].val
  <2>1. PICK a \in Raised(n, s) : f[a] = j
    OBVIOUS
  <2>2. PICK b \in Raised(n, s) : f[b] = k
    OBVIOUS
  <2>3. a \in Nat /\ b \in Nat /\ j \in Nat /\ k \in Nat
    BY <1>1
  <2>4. ~(b < a) /\ b # a
    BY <1>3, <2>1, <2>2, <2>3
  <2>5. a < b
    BY <2>3, <2>4
  <2>6. s[a].val < s[b].val
    BY <2>5 DEF Carries
  <2> QED BY <2>1, <2>2, <2>6
<1> QED BY <1>2, <1>3 DEF Carries

(* The places of three lists in their concatenation.                       *)
Joined(w, a, x, b) ==
  /\ Len(w) = Len(a) + Len(x) + Len(b)
  /\ \A i \in 1 .. Len(a) : w[i] = a[i]
  /\ \A i \in 1 .. Len(x) : w[Len(a) + i] = x[i]
  /\ \A i \in 1 .. Len(b) : w[Len(a) + Len(x) + i] = b[i]

LEMMA ThreeParts ==
  ASSUME NEW S, NEW a \in Seq(S), NEW x \in Seq(S), NEW b \in Seq(S)
  PROVE  a \o x \o b \in Seq(S) /\ Joined(a \o x \o b, a, x, b)
<1>0. Len(a) \in Nat /\ Len(x) \in Nat /\ Len(b) \in Nat /\ a \o x \in Seq(S)
  BY ConcatProperties, LenProperties
<1>1. PICK u \in Seq(S) : u = a \o x
  BY <1>0
<1>2. PICK A \in Nat, X \in Nat, B \in Nat : A = Len(a) /\ X = Len(x) /\ B = Len(b)
  BY <1>0
<1>3. Len(u) = A + X /\ \A i \in 1 .. A + X : u[i] = IF i <= A THEN a[i] ELSE x[i - A]
  BY <1>1, <1>2, ConcatProperties
<1>4. PICK w \in Seq(S) : w = u \o b
  <2>1. u \o b \in Seq(S)
    BY ConcatProperties
  <2> QED BY <2>1
<1>5. Len(w) = A + X + B
      /\ \A i \in 1 .. A + X + B : w[i] = IF i <= A + X THEN u[i] ELSE b[i - (A + X)]
  <2>1. /\ Len(w) = Len(u) + Len(b)
        /\ \A i \in 1 .. Len(u) + Len(b) : w[i] = IF i <= Len(u) THEN u[i] ELSE b[i - Len(u)]
    BY <1>4, ConcatProperties
  <2>2. Len(u) = A + X /\ Len(b) = B
    BY <1>2, <1>3
  <2> QED BY <2>1, <2>2
<1>6. ASSUME NEW i \in 1 .. A PROVE w[i] = a[i]
  BY <1>3, <1>5
<1>7. ASSUME NEW i \in 1 .. X PROVE w[A + i] = x[i]
  <2>1. A + i \in 1 .. A + X /\ A + i \in 1 .. A + X + B /\ ~(A + i <= A) /\ (A + i) - A = i
        /\ A + i <= A + X
    OBVIOUS
  <2> QED BY <1>3, <1>5, <2>1
<1>8. ASSUME NEW i \in 1 .. B PROVE w[A + X + i] = b[i]
  <2>1. A + X + i \in 1 .. A + X + B /\ ~(A + X + i <= A + X) /\ (A + X + i) - (A + X) = i
    OBVIOUS
  <2> QED BY <1>5, <2>1
<1>9. w \in Seq(S) /\ w = a \o x \o b
  BY <1>1, <1>4
<1>10. Joined(w, a, x, b)
  BY <1>2, <1>5, <1>6, <1>7, <1>8 DEF Joined
<1> QED BY <1>9, <1>10

(* Parts without an event of this name may come and go.                    *)
LEMMA CarriesSpliced ==
  ASSUME NEW n, NEW a \in Seq(HistoryEvents), NEW x \in Seq(HistoryEvents),
         NEW y \in Seq(HistoryEvents), NEW b \in Seq(HistoryEvents),
         NEW lo \in Nat, NEW hi \in Nat, Silent(n, x), Silent(n, y),
         Carries(n, a \o x \o b, lo, hi)
  PROVE  Carries(n, a \o y \o b, lo, hi)
<1>1. PICK s \in Seq(HistoryEvents) : s = a \o x \o b /\ Joined(s, a, x, b)
  BY ThreeParts
<1>2. PICK t \in Seq(HistoryEvents) : t = a \o y \o b /\ Joined(t, a, y, b)
  BY ThreeParts
<1>3. /\ Len(a) \in Nat /\ Len(x) \in Nat /\ Len(y) \in Nat /\ Len(b) \in Nat
      /\ DOMAIN a = 1 .. Len(a) /\ DOMAIN x = 1 .. Len(x) /\ DOMAIN y = 1 .. Len(y)
      /\ DOMAIN b = 1 .. Len(b)
  BY LenProperties
<1>a. PICK A \in Nat : A = Len(a)
  BY <1>3
<1>x. PICK X \in Nat : X = Len(x)
  BY <1>3
<1>y. PICK Y \in Nat : Y = Len(y)
  BY <1>3
<1>b. PICK B \in Nat : B = Len(b)
  BY <1>3
<1>4. /\ DOMAIN a = 1 .. A /\ DOMAIN x = 1 .. X /\ DOMAIN y = 1 .. Y /\ DOMAIN b = 1 .. B
      /\ DOMAIN s = 1 .. A + X + B /\ DOMAIN t = 1 .. A + Y + B
  <2>1. Len(s) = A + X + B /\ Len(t) = A + Y + B
    BY <1>1, <1>2, <1>a, <1>x, <1>y, <1>b DEF Joined
  <2>2. DOMAIN s = 1 .. Len(s) /\ DOMAIN t = 1 .. Len(t)
    BY LenProperties
  <2> QED BY <1>3, <1>a, <1>x, <1>y, <1>b, <2>1, <2>2
<1>5. /\ \A i \in 1 .. A : s[i] = a[i] /\ t[i] = a[i]
      /\ \A i \in 1 .. X : s[A + i] = x[i]
      /\ \A i \in 1 .. Y : t[A + i] = y[i]
      /\ \A i \in 1 .. B : s[A + X + i] = b[i] /\ t[A + Y + i] = b[i]
  <2>1. /\ \A i \in 1 .. A : s[i] = a[i]
        /\ \A i \in 1 .. X : s[A + i] = x[i]
        /\ \A i \in 1 .. B : s[A + X + i] = b[i]
    BY <1>1, <1>a, <1>x, <1>b DEF Joined
  <2>2. /\ \A i \in 1 .. A : t[i] = a[i]
        /\ \A i \in 1 .. Y : t[A + i] = y[i]
        /\ \A i \in 1 .. B : t[A + Y + i] = b[i]
    BY <1>2, <1>a, <1>y, <1>b DEF Joined
  <2> QED BY <2>1, <2>2
<1>6. PICK f : f = [i \in Nat |-> IF i <= A THEN i ELSE (i + Y) - X]
  OBVIOUS
<1>7. ASSUME NEW i \in Raised(n, s)
      PROVE  /\ f[i] \in Raised(n, t) /\ t[f[i]].val = s[i].val /\ i \in Nat
             /\ (i <= A \/ i > A + X)
             /\ f[i] = IF i <= A THEN i ELSE (i + Y) - X
  <2>1. i \in 1 .. A + X + B /\ IsRaised(n, s[i]) /\ i \in Nat
    BY <1>4 DEF Raised, IsRaised
  <2>2. CASE i <= A
    <3>1. i \in 1 .. A /\ f[i] = i /\ i \in 1 .. A + Y + B
      BY <1>3, <1>6, <2>1, <2>2
    <3>2. t[i] = s[i]
      BY <1>5, <3>1
    <3> QED BY <1>4, <2>1, <2>2, <3>1, <3>2 DEF Raised, IsRaised
  <2>3. CASE i > A /\ i <= A + X
    <3>1. i - A \in 1 .. X /\ A + (i - A) = i
      BY <1>3, <2>1, <2>3
    <3>2. s[i] = x[i - A]
      BY <1>5, <3>1
    <3> QED BY <1>4, <2>1, <3>1, <3>2 DEF Silent
  <2>4. CASE i > A + X
    <3>1. i - A - X \in 1 .. B /\ A + X + (i - A - X) = i
      BY <1>3, <2>1, <2>4
    <3>2. f[i] = (i + Y) - X /\ (i + Y) - X = A + Y + (i - A - X)
          /\ (i + Y) - X \in 1 .. A + Y + B
      BY <1>3, <1>6, <2>1, <2>4
    <3>3. s[i] = b[i - A - X] /\ t[(i + Y) - X] = b[i - A - X]
      BY <1>5, <3>1, <3>2
    <3>4. ~(i <= A)
      BY <1>3, <2>1, <2>4
    <3> QED BY <1>4, <2>1, <2>4, <3>2, <3>3, <3>4 DEF Raised, IsRaised
  <2> QED BY <1>3, <2>1, <2>2, <2>3, <2>4
<1>8. ASSUME NEW j \in Raised(n, t) PROVE \E i \in Raised(n, s) : f[i] = j
  <2>1. j \in 1 .. A + Y + B /\ IsRaised(n, t[j]) /\ j \in Nat
    BY <1>4 DEF Raised, IsRaised
  <2>2. CASE j <= A
    <3>1. j \in 1 .. A /\ f[j] = j /\ j \in 1 .. A + X + B
      BY <1>3, <1>6, <2>1, <2>2
    <3>2. t[j] = s[j]
      BY <1>5, <3>1
    <3> QED BY <1>4, <2>1, <3>1, <3>2 DEF Raised, IsRaised
  <2>3. CASE j > A /\ j <= A + Y
    <3>1. j - A \in 1 .. Y /\ A + (j - A) = j
      BY <1>3, <2>1, <2>3
    <3>2. t[j] = y[j - A]
      BY <1>5, <3>1
    <3> QED BY <1>4, <2>1, <3>1, <3>2 DEF Silent
  <2>4. CASE j > A + Y
    <3>1. PICK k \in 1 .. B : j = A + Y + k
      <4>1. j - A - Y \in 1 .. B /\ j = A + Y + (j - A - Y)
        BY <1>3, <2>1, <2>4
      <4> QED BY <4>1
    <3>2. A + X + k \in 1 .. A + X + B /\ A + X + k \in Nat /\ f[A + X + k] = j
      BY <1>3, <1>6, <3>1
    <3>3. s[A + X + k] = t[j]
      BY <1>5, <3>1
    <3> QED BY <1>4, <2>1, <3>2, <3>3 DEF Raised, IsRaised
  <2> QED BY <1>3, <2>1, <2>2, <2>3, <2>4
<1>9. ASSUME NEW i \in Raised(n, s), NEW j \in Raised(n, s), i < j
      PROVE  f[i] < f[j]
  <2>2. (i <= A \/ i > A + X) /\ (j <= A \/ j > A + X) /\ i \in Nat /\ j \in Nat
    BY <1>7
  <2>3. f[i] = (IF i <= A THEN i ELSE (i + Y) - X) /\ f[j] = (IF j <= A THEN j ELSE (j + Y) - X)
    BY <1>7
  <2>4. (IF i <= A THEN i ELSE (i + Y) - X) < (IF j <= A THEN j ELSE (j + Y) - X)
    BY <1>3, <1>9, <2>2
  <2> QED BY <2>3, <2>4
<1>10. Carries(n, s, lo, hi)
  BY <1>1
<1>11. Carries(n, t, lo, hi)
  <2>1. \A i \in Raised(n, s) : f[i] \in Raised(n, t) /\ t[f[i]].val = s[i].val
    BY <1>7
  <2> QED BY <1>8, <1>9, <1>10, <2>1, CarriesMoved
<1> QED BY <1>2, <1>11

(* Events may be replaced by others with the same type, name and payload.  *)
LEMMA CarriesReplaced ==
  ASSUME NEW n, NEW s \in Seq(HistoryEvents), NEW t \in Seq(HistoryEvents),
         NEW lo \in Nat, NEW hi \in Nat, Carries(n, s, lo, hi), Len(t) = Len(s),
         \A i \in DOMAIN s : t[i].type = s[i].type /\ t[i].name = s[i].name /\ t[i].val = s[i].val
  PROVE  Carries(n, t, lo, hi)
<1>1. DOMAIN t = DOMAIN s
  OBVIOUS
<1>2. Raised(n, t) = Raised(n, s)
  BY <1>1 DEF Raised
<1>3. \A i \in Raised(n, s) : t[i].val = s[i].val
  BY DEF Raised
<1>4. {t[i].val : i \in Raised(n, t)} = {s[i].val : i \in Raised(n, s)}
  BY <1>2, <1>3
<1> QED BY <1>2, <1>3, <1>4 DEF Carries

(* The first event of a list is the next one due.                          *)
LEMMA CarriesHead ==
  ASSUME NEW n, NEW e \in HistoryEvents, NEW r \in Seq(HistoryEvents),
         NEW lo \in Nat, NEW hi \in Nat, IsRaised(n, e), Carries(n, <<e>> \o r, lo, hi)
  PROVE  e.val = lo + 1 /\ Carries(n, r, lo + 1, hi)
<1>0. <<e>> \in Seq(HistoryEvents) /\ <<e>> \o r \in Seq(HistoryEvents)
  <2>1. <<e>> \in Seq(HistoryEvents)
    OBVIOUS
  <2> QED BY <2>1, ConcatProperties
<1>1. PICK s \in Seq(HistoryEvents) : s = <<e>> \o r
  BY <1>0
<1>2. PICK R \in Nat : R = Len(r)
  OBVIOUS
<1>3. /\ DOMAIN s = 1 .. R + 1 /\ DOMAIN r = 1 .. R /\ s[1] = e
      /\ \A i \in 1 .. R : s[i + 1] = r[i]
  <2>1. Len(<<e>>) = 1 /\ <<e>>[1] = e
    OBVIOUS
  <2>2. Len(s) = R + 1 /\ \A i \in 1 .. R + 1 : s[i] = IF i <= 1 THEN <<e>>[i] ELSE r[i - 1]
    BY <1>0, <1>1, <1>2, <2>1, ConcatProperties
  <2>3. \A i \in 1 .. R : i + 1 \in 1 .. R + 1 /\ ~(i + 1 <= 1) /\ (i + 1) - 1 = i
    OBVIOUS
  <2>4. \A i \in 1 .. R : s[i + 1] = r[i]
    BY <2>2, <2>3
  <2> QED BY <1>2, <2>1, <2>2, <2>4, LenProperties
<1>4. /\ lo <= hi /\ {s[i].val : i \in Raised(n, s)} = lo + 1 .. hi
      /\ \A i, j \in Raised(n, s) : i < j => s[i].val < s[j].val
  BY <1>1 DEF Carries
<1>5. 1 \in Raised(n, s) /\ \A i \in Raised(n, s) : i \in 1 .. R + 1
  <2>1. 1 \in 1 .. R + 1
    OBVIOUS
  <2> QED BY <1>3, <2>1 DEF Raised, IsRaised
<1>6. \A i \in Raised(n, s) : s[i].val \in lo + 1 .. hi
  BY <1>4
<1>7. e.val \in lo + 1 .. hi
  BY <1>3, <1>5, <1>6
<1>8. ASSUME NEW i \in Raised(n, s), i # 1 PROVE e.val < s[i].val
  <2>1. 1 < i
    BY <1>5, <1>8
  <2> QED BY <1>3, <1>4, <1>5, <2>1
<1>9. e.val = lo + 1
  <2>1. lo + 1 \in lo + 1 .. hi
    BY <1>7
  <2>2. PICK i \in Raised(n, s) : s[i].val = lo + 1
    BY <1>4, <2>1
  <2>3. CASE i = 1
    BY <1>3, <2>2, <2>3
  <2>4. CASE i # 1
    <3>1. e.val < lo + 1
      BY <1>8, <2>2, <2>4
    <3> QED BY <1>7, <3>1
  <2> QED BY <2>3, <2>4
<1>10. \A j : j \in Raised(n, r) <=> j \in 1 .. R /\ j + 1 \in Raised(n, s)
  <2>1. \A j \in 1 .. R : j + 1 \in 1 .. R + 1
    OBVIOUS
  <2> QED BY <1>3, <2>1 DEF Raised
<1>11. \A i \in Raised(n, s) : i # 1 => i - 1 \in Raised(n, r) /\ r[i - 1] = s[i]
  <2> SUFFICES ASSUME NEW i \in Raised(n, s), i # 1
               PROVE  i - 1 \in Raised(n, r) /\ r[i - 1] = s[i]
    OBVIOUS
  <2>1. i - 1 \in 1 .. R /\ (i - 1) + 1 = i
    BY <1>5
  <2> QED BY <1>3, <1>10, <2>1
<1>12. ASSUME NEW v PROVE v \in {r[j].val : j \in Raised(n, r)} <=> v \in lo + 2 .. hi
  <2>1. ASSUME v \in {r[j].val : j \in Raised(n, r)} PROVE v \in lo + 2 .. hi
    <3>1. PICK j \in Raised(n, r) : v = r[j].val
      BY <2>1
    <3>2. j \in 1 .. R /\ j + 1 \in Raised(n, s) /\ j + 1 # 1
      BY <1>10
    <3>3. v = s[j + 1].val
      BY <1>3, <3>1, <3>2
    <3>4. v \in lo + 1 .. hi /\ e.val < v
      BY <1>6, <1>8, <3>2, <3>3
    <3> QED BY <1>9, <3>4
  <2>2. ASSUME v \in lo + 2 .. hi PROVE v \in {r[j].val : j \in Raised(n, r)}
    <3>1. v \in lo + 1 .. hi /\ v # lo + 1
      BY <2>2
    <3>2. PICK i \in Raised(n, s) : v = s[i].val
      BY <1>4, <3>1
    <3>3. i # 1
      BY <1>3, <1>9, <3>1, <3>2
    <3>4. i - 1 \in Raised(n, r) /\ r[i - 1].val = v
      BY <1>11, <3>2, <3>3
    <3> QED BY <3>4
  <2> QED BY <2>1, <2>2
<1>13. \A i, j \in Raised(n, r) : i < j => r[i].val < r[j].val
  <2> SUFFICES ASSUME NEW i \in Raised(n, r), NEW j \in Raised(n, r), i < j
               PROVE  r[i].val < r[j].val
    OBVIOUS
  <2>1. /\ i \in 1 .. R /\ i + 1 \in Raised(n, s) /\ j \in 1 .. R /\ j + 1 \in Raised(n, s)
    BY <1>10
  <2>2. i + 1 < j + 1
    BY <2>1
  <2>3. s[i + 1].val < s[j + 1].val
    BY <1>4, <2>1, <2>2
  <2> QED BY <1>3, <2>1, <2>3
<1>14. {r[j].val : j \in Raised(n, r)} = (lo + 1) + 1 .. hi
  <2>1. (lo + 1) + 1 = lo + 2
    OBVIOUS
  <2>2. {r[j].val : j \in Raised(n, r)} = lo + 2 .. hi
    BY <1>12
  <2> QED BY <2>1, <2>2
<1>15. lo + 1 <= hi
  BY <1>7
<1> QED BY <1>9, <1>13, <1>14, <1>15 DEF Carries

(* Two lists in a row.                                                     *)
LEMMA CarriesJoined ==
  ASSUME NEW n, NEW s \in Seq(HistoryEvents), NEW t \in Seq(HistoryEvents),
         NEW lo \in Nat, NEW mid \in Nat, NEW hi \in Nat,
         Carries(n, s, lo, mid), Carries(n, t, mid, hi)
  PROVE  Carries(n, s \o t, lo, hi)
<1>0. s \o t \in Seq(HistoryEvents)
  BY ConcatProperties
<1>1. PICK w \in Seq(HistoryEvents) : w = s \o t
  BY <1>0
<1>2. PICK A \in Nat : A = Len(s)
  OBVIOUS
<1>3. PICK B \in Nat : B = Len(t)
  OBVIOUS
<1>4. /\ DOMAIN s = 1 .. A /\ DOMAIN t = 1 .. B /\ DOMAIN w = 1 .. A + B
      /\ \A i \in 1 .. A : w[i] = s[i]
      /\ \A i \in 1 .. B : w[A + i] = t[i]
  BY <1>1, <1>2, <1>3
<1>5. /\ lo <= mid /\ mid <= hi
      /\ {s[i].val : i \in Raised(n, s)} = lo + 1 .. mid
      /\ {t[i].val : i \in Raised(n, t)} = mid + 1 .. hi
  BY DEF Carries
<1>6. \A i \in Raised(n, s) : i \in Raised(n, w) /\ w[i] = s[i] /\ i \in 1 .. A
  <2>1. \A i \in 1 .. A : i \in 1 .. A + B
    OBVIOUS
  <2> QED BY <1>4, <2>1 DEF Raised
<1>7. \A i \in Raised(n, t) : A + i \in Raised(n, w) /\ w[A + i] = t[i] /\ i \in 1 .. B
  <2>1. \A i \in 1 .. B : A + i \in 1 .. A + B
    OBVIOUS
  <2> QED BY <1>4, <2>1 DEF Raised
<1>8. ASSUME NEW i \in Raised(n, w)
      PROVE  /\ i \in Nat
             /\ \/ i <= A /\ i \in Raised(n, s) /\ w[i] = s[i] /\ w[i].val \in lo + 1 .. mid
                \/ /\ i > A /\ i - A \in Raised(n, t) /\ w[i] = t[i - A]
                   /\ w[i].val \in mid + 1 .. hi
  <2>1. i \in 1 .. A + B /\ i \in Nat
    BY <1>4 DEF Raised
  <2>2. CASE i <= A
    <3>1. i \in 1 .. A
      BY <2>1, <2>2
    <3>2. w[i] = s[i] /\ i \in Raised(n, s)
      BY <1>4, <3>1 DEF Raised
    <3> QED BY <1>5, <2>1, <2>2, <3>2
  <2>3. CASE i > A
    <3>1. i - A \in 1 .. B /\ A + (i - A) = i
      BY <2>1, <2>3
    <3>2. w[i] = t[i - A] /\ i - A \in Raised(n, t)
      BY <1>4, <3>1 DEF Raised
    <3> QED BY <1>5, <2>1, <2>3, <3>2
  <2> QED BY <2>1, <2>2, <2>3
<1>9. ASSUME NEW v PROVE v \in {w[i].val : i \in Raised(n, w)} <=> v \in lo + 1 .. hi
  <2>1. ASSUME NEW i \in Raised(n, w), v = w[i].val PROVE v \in lo + 1 .. hi
    <3>1. v \in lo + 1 .. mid \/ v \in mid + 1 .. hi
      BY <1>8, <2>1
    <3> QED BY <1>5, <3>1
  <2>2. ASSUME v \in lo + 1 .. hi PROVE v \in {w[i].val : i \in Raised(n, w)}
    <3>1. v \in lo + 1 .. mid \/ v \in mid + 1 .. hi
      BY <1>5, <2>2
    <3>2. CASE v \in lo + 1 .. mid
      <4>1. PICK i \in Raised(n, s) : v = s[i].val
        BY <1>5, <3>2
      <4> QED BY <1>6, <4>1
    <3>3. CASE v \in mid + 1 .. hi
      <4>1. PICK i \in Raised(n, t) : v = t[i].val
        BY <1>5, <3>3
      <4> QED BY <1>7, <4>1
    <3> QED BY <3>1, <3>2, <3>3
  <2> QED BY <2>1, <2>2
<1>10. ASSUME NEW i \in Raised(n, w), NEW j \in Raised(n, w), i < j
       PROVE  w[i].val < w[j].val
  <2>1. i \in Nat /\ j \in Nat
    BY <1>8
  <2>2. CASE j <= A
    <3>1. i <= A /\ ~(i > A) /\ ~(j > A)
      BY <1>10, <2>1, <2>2
    <3>2. i \in Raised(n, s) /\ j \in Raised(n, s) /\ w[i] = s[i] /\ w[j] = s[j]
      BY <1>8, <3>1
    <3> QED BY <1>10, <3>2 DEF Carries
  <2>3. CASE i > A
    <3>1. j > A /\ ~(j <= A) /\ ~(i <= A)
      BY <1>10, <2>1, <2>3
    <3>2. /\ i - A \in Raised(n, t) /\ j - A \in Raised(n, t)
          /\ w[i] = t[i - A] /\ w[j] = t[j - A]
      BY <1>8, <3>1
    <3>3. i - A < j - A
      BY <1>10, <2>1
    <3> QED BY <3>2, <3>3 DEF Carries
  <2>4. CASE i <= A /\ j > A
    <3>1. ~(i > A) /\ ~(j <= A)
      BY <2>1, <2>4
    <3>2. w[i].val \in lo + 1 .. mid /\ w[j].val \in mid + 1 .. hi
      BY <1>8, <3>1
    <3>3. mid < w[j].val /\ w[i].val <= mid /\ w[i].val \in Int /\ w[j].val \in Int
      BY <3>2
    <3> QED BY <3>3
  <2> QED BY <2>1, <2>2, <2>3, <2>4
<1>11. {w[i].val : i \in Raised(n, w)} = lo + 1 .. hi /\ lo <= hi
  BY <1>5, <1>9
<1> QED BY <1>1, <1>10, <1>11 DEF Carries

(* One event.                                                              *)
LEMMA CarriesOne ==
  ASSUME NEW n, NEW e \in HistoryEvents, IsRaised(n, e), NEW lo \in Nat, e.val = lo + 1
  PROVE  Carries(n, <<e>>, lo, lo + 1)
<1>0. <<e>> \in Seq(HistoryEvents)
  OBVIOUS
<1>1. PICK s \in Seq(HistoryEvents) : s = <<e>>
  BY <1>0
<1>2. DOMAIN s = {1} /\ s[1] = e
  BY <1>1
<1>3. Raised(n, s) = {1}
  BY <1>2 DEF Raised, IsRaised
<1>4. {s[i].val : i \in Raised(n, s)} = lo + 1 .. lo + 1
  <2>1. lo + 1 .. lo + 1 = {lo + 1}
    OBVIOUS
  <2>2. {s[i].val : i \in Raised(n, s)} = {lo + 1}
    BY <1>2, <1>3
  <2> QED BY <2>1, <2>2
<1>5. \A i, j \in Raised(n, s) : ~(i < j)
  BY <1>3
<1>6. lo <= lo + 1
  OBVIOUS
<1> QED BY <1>1, <1>4, <1>5, <1>6 DEF Carries

----------------------------------------------------------------------------
(* The payloads of one name are 1, 2, 3 and so on.                         *)

IsCount(s) == s = [i \in 1 .. Len(s) |-> i]

LEMMA CountAppend ==
  ASSUME NEW s \in Seq(Nat), IsCount(s)
  PROVE  IsCount(Append(s, Len(s) + 1))
<1>1. PICK k \in Nat : k = Len(s)
  OBVIOUS
<1>0. Append(s, k + 1) \in Seq(Nat)
  BY AppendProperties
<1>2. PICK t \in Seq(Nat) : t = Append(s, k + 1)
  BY <1>0
<1>3. Len(t) = k + 1 /\ DOMAIN t = 1 .. k + 1
  BY <1>1, <1>2
<1>4. \A i \in 1 .. k + 1 : t[i] = i
  <2>1. \A i \in 1 .. k : t[i] = s[i] /\ s[i] = i
    BY <1>1, <1>2 DEF IsCount
  <2>2. t[k + 1] = k + 1
    BY <1>1, <1>2, AppendProperties
  <2>3. \A i \in 1 .. k + 1 : i \in 1 .. k \/ i = k + 1
    OBVIOUS
  <2> QED BY <2>1, <2>2, <2>3
<1>5. t = [i \in 1 .. Len(t) |-> i]
  BY <1>3, <1>4
<1> QED BY <1>1, <1>2, <1>5 DEF IsCount

LEMMA CountParts ==
  ASSUME NEW s \in Seq(Nat), NEW t \in Seq(Nat), IsCount(s \o t)
  PROVE  IsCount(s) /\ \A i \in DOMAIN t : t[i] = Len(s) + i
<1>1. PICK a \in Nat : a = Len(s)
  OBVIOUS
<1>2. PICK b \in Nat : b = Len(t)
  OBVIOUS
<1>0. s \o t \in Seq(Nat)
  BY ConcatProperties
<1>3. PICK w \in Seq(Nat) : w = s \o t
  BY <1>0
<1>4. /\ Len(w) = a + b /\ \A i \in 1 .. a : w[i] = s[i]
      /\ \A i \in 1 .. b : w[a + i] = t[i]
  BY <1>1, <1>2, <1>3
<1>5. \A i \in 1 .. a + b : w[i] = i
  BY <1>3, <1>4 DEF IsCount
<1>6. \A i \in 1 .. a : s[i] = i
  BY <1>4, <1>5
<1>7. \A i \in 1 .. b : t[i] = a + i
  BY <1>4, <1>5
<1>8. s = [i \in 1 .. Len(s) |-> i]
  BY <1>1, <1>6
<1>9. DOMAIN t = 1 .. b
  BY <1>2
<1> QED BY <1>1, <1>7, <1>8, <1>9 DEF IsCount

----------------------------------------------------------------------------
(* What is not taken yet, and what is taken.                               *)

Ahead == SubSeq(Events, pos + 1, Len(Events))
Rest == HeldBack \o Ahead \o inbox

Taken(n) == last.before[n] \o ctx.got[n] \o ctx.recv[n]

\* An event e was taken out of the list r, which leaves s.
TakenOut(r, s, e, a, b) == r = a \o <<e>> \o b /\ s = a \o b

\* The list that holds events back is empty but for a suspension and the
\* loop that ends it, and a turn that did not fail has taken all its events.
BufferInv ==
  /\ suspended => ~Draining
  /\ ~suspended /\ ~Draining => buffer = <<>>
  /\ mode = "done" /\ ctx.error = "none" => ~Draining /\ pos = Len(Events)

(* Parentheses in a concatenation do not matter.                           *)
Associates(a, b, c) == (a \o b) \o c = a \o (b \o c)

LEMMA ListsAssociate ==
  ASSUME NEW S, NEW a \in Seq(S), NEW b \in Seq(S), NEW c \in Seq(S)
  PROVE  a \o b \in Seq(S) /\ Associates(a, b, c)
<1>1. (a \o b) \o c = a \o (b \o c)
  BY ConcatAssociative
<1>2. a \o b \in Seq(S)
  BY ConcatProperties
<1> QED BY <1>1, <1>2 DEF Associates

FourParts(a, b, c, d) ==
  /\ (a \o (b \o c)) \o d = (a \o b) \o (c \o d)
  /\ ((b \o a) \o c) \o d = b \o ((a \o c) \o d)

LEMMA ListsInParts ==
  ASSUME NEW S, NEW a \in Seq(S), NEW b \in Seq(S), NEW c \in Seq(S), NEW d \in Seq(S)
  PROVE  FourParts(a, b, c, d)
<1>1. PICK x \in Seq(S) : x = a \o b
  <2>1. a \o b \in Seq(S)
    BY ConcatProperties
  <2> QED BY <2>1
<1>2. PICK y \in Seq(S) : y = a \o c
  <2>1. a \o c \in Seq(S)
    BY ConcatProperties
  <2> QED BY <2>1
<1>3. Associates(a, b, c) /\ Associates(b, a, c) /\ Associates(x, c, d) /\ Associates(b, y, d)
  BY ListsAssociate
<1>4. (a \o (b \o c)) \o d = x \o (c \o d)
  BY <1>1, <1>3 DEF Associates
<1>5. ((b \o a) \o c) \o d = b \o (y \o d)
  BY <1>2, <1>3 DEF Associates
<1> QED BY <1>1, <1>2, <1>4, <1>5 DEF FourParts

(* The parts of what is not taken yet.                                     *)
LEMMA RestTyped ==
  ASSUME TurnTypes, SidecarTypes
  PROVE  /\ HeldBack \in Seq(HistoryEvents) /\ Ahead \in Seq(HistoryEvents)
         /\ inbox \in Seq(HistoryEvents) /\ buffer \in Seq(HistoryEvents)
         /\ Events \in Seq(HistoryEvents) /\ Rest \in Seq(HistoryEvents)
<1>1. Events \in Seq(HistoryEvents)
  BY CurrentTyped
<1>2. buffer \in Seq(HistoryEvents)
  <2>1. HeldEvents \subseteq HistoryEvents
    BY DEF HeldEvents
  <2> QED BY <2>1, SeqMonotonic DEF TurnTypes
<1>3. Ahead \in Seq(HistoryEvents)
  <2>1. PICK E \in Seq(HistoryEvents) : E = Events
    BY <1>1
  <2>2. pos + 1 \in Int /\ Len(E) \in Int /\ pos \in Nat
    BY <2>1, LenProperties DEF TurnTypes
  <2>3. \A i \in pos + 1 .. Len(E) : i \in 1 .. Len(E)
    BY <2>2
  <2>4. \A i \in pos + 1 .. Len(E) : E[i] \in HistoryEvents
    BY <2>3, ElementOfSeq
  <2>5. SubSeq(E, pos + 1, Len(E)) \in Seq(HistoryEvents)
    BY <2>2, <2>4, SubSeqProperties
  <2> QED BY <2>1, <2>5 DEF Ahead
<1>4. HeldBack \in Seq(HistoryEvents)
  <2>1. PICK k \in Nat : k = IF Draining THEN drain ELSE 1
    BY DEF TurnTypes
  <2>2. k > 0 /\ k \in Int /\ Len(buffer) \in Int
    BY <1>2, <2>1, LenProperties DEF Draining, TurnTypes
  <2>3. \A i \in k .. Len(buffer) : i \in 1 .. Len(buffer)
    BY <2>2
  <2>4. \A i \in k .. Len(buffer) : buffer[i] \in HistoryEvents
    BY <1>2, <2>3, ElementOfSeq
  <2>5. SubSeq(buffer, k, Len(buffer)) \in Seq(HistoryEvents)
    BY <2>2, <2>4, SubSeqProperties
  <2> QED BY <2>1, <2>5 DEF HeldBack
<1>5. inbox \in Seq(HistoryEvents)
  BY DEF SidecarTypes
<1>6. Rest \in Seq(HistoryEvents)
  <2>1. HeldBack \o Ahead \in Seq(HistoryEvents)
    BY <1>3, <1>4, ConcatProperties
  <2> QED BY <1>5, <2>1, ConcatProperties DEF Rest
<1> QED BY <1>1, <1>2, <1>3, <1>4, <1>5, <1>6

(* Outside the loop that ends a suspension, all of the list is held back.  *)
LEMMA HeldBackAll ==
  ASSUME buffer \in Seq(HistoryEvents), drain \in {0, 1}
  PROVE  HeldBack = buffer
<1>1. HeldBack = SubSeq(buffer, 1, Len(buffer))
  BY DEF HeldBack, Draining
<1> QED BY <1>1, SubSeqFull

(* An event is taken from the front of what is not held back, or by the    *)
(* loop that ends a suspension.                                            *)
LEMMA TakenAway ==
  ASSUME TurnInv, BufferInv, Frame, HasEvent, UNCHANGED buffer,
         Take \/ (~Draining /\ pos' = pos + 1 /\ drain' = 1)
  PROVE  \E a, b \in Seq(HistoryEvents) :
           TakenOut(Rest, Rest', Current, a, b) /\ (~suspended => a = <<>>)
<1>1. /\ UNCHANGED <<inbox, Events>> /\ pos \in Nat /\ drain \in Nat
      /\ HeldBack \in Seq(HistoryEvents) /\ Ahead \in Seq(HistoryEvents)
      /\ inbox \in Seq(HistoryEvents) /\ buffer \in Seq(HistoryEvents)
      /\ Current \in HistoryEvents
  BY RestTyped, CurrentTyped, FrameTypes DEF TurnInv, TurnTypes, Frame, sidecarVars
<1>2. PICK E \in Seq(HistoryEvents) : E = Events /\ Events' = E
  BY <1>1, RestTyped DEF TurnInv
<1>3. PICK L \in Nat : L = Len(E)
  BY LenProperties
<1>4. PICK e \in HistoryEvents : e = Current
  BY <1>1
<1>5. <<e>> \in Seq(HistoryEvents) /\ <<>> \in Seq(HistoryEvents)
  OBVIOUS
<1>8. PICK f \in Seq(HistoryEvents) : f = <<e>>
  BY <1>5
<1>9. PICK I \in Seq(HistoryEvents) : I = inbox
  BY <1>1
<1>10. PICK B \in Seq(HistoryEvents) : B = buffer
  BY <1>1
<1>6. CASE ~Draining
  <2>1. drain = 0 /\ pos + 1 \in 1 .. L /\ L \in pos + 1 .. L /\ e = E[pos + 1]
        /\ pos' = pos + 1 /\ drain' \in {0, 1}
    BY <1>1, <1>2, <1>3, <1>4, <1>6 DEF Draining, HasEvent, Current, Take
  <2>2. HeldBack = buffer
    BY <1>1, <2>1, HeldBackAll
  <2>3. HeldBack' = buffer
    <3>1. buffer' \in Seq(HistoryEvents) /\ drain' \in {0, 1}
      BY <1>1, <2>1
    <3>2. HeldBack' = buffer'
      <4>1. HeldBack' = SubSeq(buffer', 1, Len(buffer'))
        BY <3>1 DEF HeldBack, Draining
      <4> QED BY <3>1, <4>1, SubSeqFull
    <3> QED BY <3>2
  <2>4. PICK A \in Seq(HistoryEvents) : A = SubSeq(E, (pos + 1) + 1, L)
    <3>1. (pos + 1) + 1 \in Int /\ L \in Int
      BY <1>1
    <3>2. \A i \in (pos + 1) + 1 .. L : i \in 1 .. Len(E)
      BY <1>1, <1>3
    <3>3. \A i \in (pos + 1) + 1 .. L : E[i] \in HistoryEvents
      BY <3>2, ElementOfSeq
    <3>4. SubSeq(E, (pos + 1) + 1, L) \in Seq(HistoryEvents)
      BY <3>1, <3>3, SubSeqProperties
    <3> QED BY <3>4
  <2>5. Ahead = <<e>> \o A
    <3>1. SubSeq(E, pos + 1, L) = <<E[pos + 1]>> \o SubSeq(E, (pos + 1) + 1, L)
      BY <1>3, <2>1, SubSeqRecursiveFirst
    <3> QED BY <1>2, <1>3, <2>1, <2>4, <3>1 DEF Ahead
  <2>6. Ahead' = A
    BY <1>2, <1>3, <2>1, <2>4 DEF Ahead
  <2>7. PICK b \in Seq(HistoryEvents) : b = A \o inbox
    <3>1. A \o inbox \in Seq(HistoryEvents)
      BY <1>1, ConcatProperties
    <3> QED BY <3>1
  <2>8. Rest = buffer \o <<e>> \o b
    <3>0. FourParts(B, f, A, I)
      BY ListsInParts
    <3>1. (B \o (f \o A)) \o I = (B \o f) \o (A \o I)
      BY <3>0 DEF FourParts
    <3> QED BY <1>8, <1>9, <1>10, <2>2, <2>5, <2>7, <3>1 DEF Rest
  <2>9. Rest' = buffer \o b
    <3>1. Rest' = (buffer \o A) \o inbox
      BY <1>1, <2>3, <2>6 DEF Rest
    <3>0. Associates(B, A, I)
      BY ListsAssociate
    <3>2. (B \o A) \o I = B \o (A \o I)
      BY <3>0 DEF Associates
    <3> QED BY <1>9, <1>10, <2>7, <3>1, <3>2
  <2>10. ~suspended => buffer = <<>>
    BY <1>6 DEF BufferInv
  <2> QED BY <1>1, <1>4, <2>8, <2>9, <2>10 DEF TakenOut
<1>7. CASE Draining
  <2>1. PICK M \in Nat : M = Len(buffer)
    BY <1>1, LenProperties
  <2>2. drain \in 1 .. M /\ M \in drain .. M /\ e = buffer[drain]
        /\ pos' = pos /\ drain' = drain + 1
    BY <1>1, <1>4, <1>7, <2>1 DEF Draining, HasEvent, Current, Take
  <2>3. PICK H \in Seq(HistoryEvents) : H = SubSeq(buffer, drain + 1, M)
    <3>1. drain + 1 \in Int /\ M \in Int
      BY <1>1
    <3>2. \A i \in drain + 1 .. M : i \in 1 .. Len(buffer)
      BY <1>1, <2>1
    <3>3. \A i \in drain + 1 .. M : buffer[i] \in HistoryEvents
      BY <1>1, <3>2, ElementOfSeq
    <3>4. SubSeq(buffer, drain + 1, M) \in Seq(HistoryEvents)
      BY <3>1, <3>3, SubSeqProperties
    <3> QED BY <3>4
  <2>4. HeldBack = <<e>> \o H
    <3>1. SubSeq(buffer, drain, M) = <<buffer[drain]>> \o SubSeq(buffer, drain + 1, M)
      BY <1>1, <2>1, <2>2, SubSeqRecursiveFirst
    <3> QED BY <1>7, <2>1, <2>2, <2>3, <3>1 DEF HeldBack
  <2>5. HeldBack' = H
    <3>1. Draining'
      BY <1>1, <2>2 DEF Draining
    <3> QED BY <2>1, <2>2, <2>3, <3>1 DEF HeldBack
  <2>6. Ahead' = Ahead
    BY <1>2, <2>2 DEF Ahead
  <2>7. PICK b \in Seq(HistoryEvents) : b = (H \o Ahead) \o inbox
    <3>1. H \o Ahead \in Seq(HistoryEvents)
      BY <1>1, ConcatProperties
    <3>2. (H \o Ahead) \o inbox \in Seq(HistoryEvents)
      BY <1>1, <3>1, ConcatProperties
    <3> QED BY <3>2
  <2>8. Rest = <<>> \o <<e>> \o b
    <3>0. PICK A \in Seq(HistoryEvents) : A = Ahead
      BY <1>1
    <3>4. FourParts(H, f, A, I)
      BY ListsInParts
    <3>1. ((f \o H) \o A) \o I = f \o ((H \o A) \o I)
      BY <3>4 DEF FourParts
    <3>2. <<>> \o <<e>> = <<e>>
      BY <1>5, ConcatEmptySeq
    <3> QED BY <1>8, <1>9, <2>4, <2>7, <3>0, <3>1, <3>2 DEF Rest
  <2>9. Rest' = <<>> \o b
    <3>1. Rest' = b
      BY <1>1, <2>5, <2>6, <2>7 DEF Rest
    <3> QED BY <3>1, ConcatEmptySeq
  <2> QED BY <1>4, <1>5, <2>8, <2>9 DEF TakenOut
<1> QED BY <1>6, <1>7

(* What is kept of event n in a turn, and what the sidecar stores of it.   *)
Kept(n) ==
  IsCount(Taken(n)) /\ Carries(n, Rest, Len(Taken(n)), used.raised[n])

Stored(n) ==
  /\ IsCount(last.before[n])
  /\ Carries(n, Events \o inbox, Len(last.before[n]), used.raised[n])

ConservedInv == BufferInv /\ \A n \in Names : Stored(n) /\ Kept(n)

LEMMA TakenTyped ==
  ASSUME TurnInv, NEW n \in Names
  PROVE  /\ last.before[n] \in Seq(Nat) /\ ctx.got[n] \in Seq(Nat) /\ ctx.recv[n] \in Seq(Nat)
         /\ last.before[n] \o ctx.got[n] \in Seq(Nat)
         /\ Taken(n) \in Seq(Nat) /\ Len(Taken(n)) \in Nat
         /\ Len(last.before[n]) \in Nat /\ used.raised[n] \in Nat
<1>1. ctx \in Contexts
  BY DEF TurnInv, TurnTypes
<1>2. ctx.got \in [Names -> Seq(Nat)] /\ ctx.recv \in [Names -> Seq(Nat)]
  BY <1>1, ContextTypes, Zenon
<1>3. last.before \in [Names -> Seq(Nat)] /\ used.raised \in [Names -> Nat]
  BY DEF TurnInv, SidecarTypes, Counters
<1>4. PICK a \in Seq(Nat) : a = last.before[n]
  BY <1>3
<1>5. PICK g \in Seq(Nat) : g = ctx.got[n]
  BY <1>2
<1>6. PICK r \in Seq(Nat) : r = ctx.recv[n]
  BY <1>2
<1>7. a \o g \in Seq(Nat)
  BY ConcatProperties
<1>8. a \o g \o r \in Seq(Nat)
  BY <1>7, ConcatProperties
<1>9. Len(a \o g \o r) \in Nat /\ Len(a) \in Nat
  BY <1>8, LenProperties
<1>10. used.raised[n] \in Nat
  BY <1>3
<1> QED BY <1>4, <1>5, <1>6, <1>7, <1>8, <1>9, <1>10 DEF Taken

(* The events the sidecar stores are none of a turn's business.            *)
LEMMA StoredKept ==
  ASSUME TurnInv, Frame, NEW n \in Names, Stored(n)
  PROVE  Stored(n)'
BY FrameTypes DEF TurnInv, Frame, sidecarVars, Stored

(* The empty list in the middle of two.                                    *)
LEMMA NothingBetween ==
  ASSUME NEW a \in Seq(HistoryEvents), NEW b \in Seq(HistoryEvents)
  PROVE  a \o <<>> \o b = a \o b
BY ConcatEmptySeq

LEMMA SilentEmpty == \A n : Silent(n, <<>>)
BY DEF Silent

LEMMA SilentOne ==
  ASSUME NEW n, NEW e \in HistoryEvents, ~IsRaised(n, e)
  PROVE  Silent(n, <<e>>) /\ <<e>> \in Seq(HistoryEvents)
BY DEF Silent

(* An event that is not a raised event n is handled, or held back.         *)
LEMMA SilentTaken ==
  ASSUME TurnInv, BufferInv, Frame, HasEvent, UNCHANGED buffer,
         Take \/ (~Draining /\ pos' = pos + 1 /\ drain' = 1),
         NEW n \in Names, ctx'.got[n] = ctx.got[n], ctx'.recv[n] = ctx.recv[n],
         ~IsRaised(n, Current), Kept(n)
  PROVE  Kept(n)'
<1>1. PICK lo \in Nat : lo = Len(Taken(n))
  BY TakenTyped
<1>2. PICK hi \in Nat : hi = used.raised[n]
  BY TakenTyped
<1>3. PICK e \in HistoryEvents : e = Current
  BY CurrentTyped DEF TurnInv
<1>4. PICK a \in Seq(HistoryEvents), b \in Seq(HistoryEvents) :
        TakenOut(Rest, Rest', Current, a, b)
  BY TakenAway
<1>5. Carries(n, a \o <<e>> \o b, lo, hi)
  BY <1>1, <1>2, <1>3, <1>4 DEF Kept, TakenOut
<1>6. Silent(n, <<e>>) /\ <<e>> \in Seq(HistoryEvents)
  BY <1>3, SilentOne
<1>7. Silent(n, <<>>) /\ <<>> \in Seq(HistoryEvents)
  BY SilentEmpty
<1>8. Carries(n, a \o <<>> \o b, lo, hi)
  BY <1>5, <1>6, <1>7, CarriesSpliced
<1>9. Carries(n, a \o b, lo, hi)
  BY <1>8, NothingBetween
<1>10. Taken(n)' = Taken(n) /\ used' = used
  BY DEF Taken, Frame, sidecarVars
<1>11. Carries(n, Rest', lo, hi)
  BY <1>4, <1>9 DEF TakenOut
<1>12. Len(Taken(n)') = lo /\ used'.raised[n] = hi /\ IsCount(Taken(n)')
  BY <1>1, <1>2, <1>10 DEF Kept
<1>13. Kept(n)' <=> IsCount(Taken(n)') /\ Carries(n, Rest', Len(Taken(n)'), used'.raised[n])
  BY DEF Kept, IsCount, Carries, Raised
<1> QED BY <1>11, <1>12, <1>13

(* One payload more at the end of what is taken.                           *)
OneMorePayload(a, g, r, v) ==
  /\ a \o g \o Append(r, v) = Append(a \o g \o r, v)
  /\ a \o Append(g, v) \o <<>> = Append(a \o g \o <<>>, v)

LEMMA TakenMore ==
  ASSUME NEW a \in Seq(Nat), NEW g \in Seq(Nat), NEW r \in Seq(Nat), NEW v \in Nat
  PROVE  OneMorePayload(a, g, r, v)
<1>1. PICK x \in Seq(Nat) : x = a \o g
  <2>1. a \o g \in Seq(Nat)
    BY ConcatProperties
  <2> QED BY <2>1
<1>2. ASSUME NEW s \in Seq(Nat), NEW t \in Seq(Nat)
      PROVE  s \o Append(t, v) = Append(s \o t, v)
  <2>1. PICK k \in Nat, m \in Nat : k = Len(s) /\ m = Len(t)
    BY LenProperties
  <2>2. PICK p \in Seq(Nat) : p = Append(t, v)
    BY AppendProperties
  <2>3. PICK c \in Seq(Nat) : c = s \o t
    <3>1. s \o t \in Seq(Nat)
      BY ConcatProperties
    <3> QED BY <3>1
  <2>4. PICK l \in Seq(Nat) : l = s \o p
    <3>1. s \o p \in Seq(Nat)
      BY ConcatProperties
    <3> QED BY <3>1
  <2>5. PICK q \in Seq(Nat) : q = Append(c, v)
    BY AppendProperties
  <2>6. Len(p) = m + 1 /\ (\A i \in 1 .. m : p[i] = t[i]) /\ p[m + 1] = v
    BY <2>1, <2>2, AppendProperties
  <2>7. Len(c) = k + m /\ \A i \in 1 .. k + m : c[i] = IF i <= k THEN s[i] ELSE t[i - k]
    BY <2>1, <2>3, ConcatProperties
  <2>8. /\ Len(l) = k + (m + 1)
        /\ \A i \in 1 .. k + (m + 1) : l[i] = IF i <= k THEN s[i] ELSE p[i - k]
    <3>1. /\ Len(l) = Len(s) + Len(p)
          /\ \A i \in 1 .. Len(s) + Len(p) : l[i] = IF i <= Len(s) THEN s[i] ELSE p[i - Len(s)]
      BY <2>4, ConcatProperties
    <3> QED BY <2>1, <2>6, <3>1
  <2>9. /\ Len(q) = k + m + 1 /\ (\A i \in 1 .. k + m : q[i] = c[i])
        /\ q[k + m + 1] = v
    <3>1. PICK z \in Nat : z = Len(c)
      BY LenProperties
    <3>2. Len(q) = z + 1 /\ (\A i \in 1 .. z : q[i] = c[i]) /\ q[z + 1] = v
      BY <2>5, <3>1, AppendProperties
    <3>3. z = k + m
      BY <2>7, <3>1
    <3> QED BY <3>2, <3>3
  <2>10. ASSUME NEW i \in 1 .. k + (m + 1) PROVE l[i] = q[i]
    <3>1. CASE i <= k
      <4>1. i \in 1 .. k + m
        BY <3>1
      <4>2. l[i] = s[i]
        BY <2>8, <3>1
      <4>3. q[i] = c[i] /\ c[i] = s[i]
        BY <2>7, <2>9, <3>1, <4>1
      <4> QED BY <4>2, <4>3
    <3>2. CASE i > k /\ i <= k + m
      <4>1. i \in 1 .. k + m /\ i - k \in 1 .. m /\ ~(i <= k)
        BY <3>2
      <4>2. l[i] = p[i - k] /\ p[i - k] = t[i - k]
        BY <2>6, <2>8, <4>1
      <4>3. q[i] = c[i] /\ c[i] = t[i - k]
        BY <2>7, <2>9, <4>1
      <4> QED BY <4>2, <4>3
    <3>4. i <= k \/ (i > k /\ i <= k + m) \/ i = k + m + 1
      OBVIOUS
    <3>3. CASE i = k + m + 1
      <4>1. i - k = m + 1 /\ ~(i <= k)
        BY <3>3
      <4>2. l[i] = p[m + 1]
        BY <2>8, <4>1
      <4> QED BY <2>6, <2>9, <3>3, <4>2
    <3> QED BY <3>1, <3>2, <3>3, <3>4
  <2>11. l = q
    <3>1. Len(l) = Len(q)
      BY <2>8, <2>9
    <3>2. \A i \in 1 .. Len(l) : l[i] = q[i]
      BY <2>8, <2>10
    <3> QED BY <3>1, <3>2, SeqEqual
  <2> QED BY <2>2, <2>3, <2>4, <2>5, <2>11
<1>3. x \o Append(r, v) = Append(x \o r, v) /\ a \o Append(g, v) = Append(a \o g, v)
  BY <1>2
<1>4. x \o <<>> = x /\ Append(x, v) \o <<>> = Append(x, v)
  <2>1. PICK y \in Seq(Nat) : y = Append(x, v)
    BY AppendProperties
  <2>2. x \o <<>> = x /\ y \o <<>> = y
    BY ConcatEmptySeq
  <2> QED BY <2>1, <2>2
<1> QED BY <1>1, <1>3, <1>4 DEF OneMorePayload

(* A list is its first element and the others.                             *)
LEMMA HeadAndTail ==
  ASSUME NEW S, NEW r \in Seq(S), r # <<>>
  PROVE  r = <<Head(r)>> \o Tail(r)
<1>1. PICK h \in S : h = Head(r)
  BY HeadTailProperties
<1>2. PICK t \in Seq(S) : t = Tail(r)
  BY HeadTailProperties
<1>3. PICK f \in Seq(S) : f = <<h>>
  <2>1. <<h>> \in Seq(S)
    OBVIOUS
  <2> QED BY <2>1
<1>4. r = f \o t
  <2>1. PICK k \in Nat : k = Len(r)
    BY LenProperties
  <2>2. k > 0 /\ h = r[1] /\ Len(t) = k - 1 /\ \A i \in 1 .. k - 1 : t[i] = r[i + 1]
    <3>1. k > 0
      BY <2>1, EmptySeq
    <3>2. Len(Tail(r)) = Len(r) - 1 /\ \A i \in 1 .. Len(Tail(r)) : Tail(r)[i] = r[i + 1]
      BY HeadTailProperties
    <3>3. Head(r) = r[1]
      OBVIOUS
    <3> QED BY <1>1, <1>2, <2>1, <3>1, <3>2, <3>3
  <2>3. PICK u \in Seq(S) : u = f \o t
    <3>1. f \o t \in Seq(S)
      BY ConcatProperties
    <3> QED BY <3>1
  <2>4. Len(f) = 1 /\ f[1] = h
    BY <1>3
  <2>5. Len(u) = k /\ \A i \in 1 .. k : u[i] = IF i <= 1 THEN f[i] ELSE t[i - 1]
    <3>1. /\ Len(u) = Len(f) + Len(t)
          /\ \A i \in 1 .. Len(f) + Len(t) : u[i] = IF i <= Len(f) THEN f[i] ELSE t[i - Len(f)]
      BY <2>3, ConcatProperties
    <3>2. 1 + (k - 1) = k
      BY <2>2
    <3> QED BY <2>2, <2>4, <3>1, <3>2
  <2>6. ASSUME NEW i \in 1 .. k PROVE u[i] = r[i]
    <3>1. CASE i = 1
      BY <2>2, <2>4, <2>5, <3>1
    <3>2. CASE i # 1
      <4>1. i - 1 \in 1 .. k - 1 /\ (i - 1) + 1 = i /\ ~(i <= 1)
        BY <3>2
      <4> QED BY <2>2, <2>5, <4>1
    <3> QED BY <3>1, <3>2
  <2> QED BY <2>1, <2>3, <2>5, <2>6, SeqEqual
<1> QED BY <1>1, <1>2, <1>3, <1>4

(* A payload that is handed out moves, and stays where it was in order.    *)
LEMMA TakenMoves ==
  ASSUME NEW a \in Seq(Nat), NEW g \in Seq(Nat), NEW r \in Seq(Nat), r # <<>>
  PROVE  a \o Append(g, Head(r)) \o Tail(r) = a \o g \o r
<1>1. PICK h \in Nat : h = Head(r)
  BY HeadTailProperties
<1>2. PICK t \in Seq(Nat) : t = Tail(r)
  BY HeadTailProperties
<1>3. PICK f \in Seq(Nat) : f = <<h>>
  <2>1. <<h>> \in Seq(Nat)
    OBVIOUS
  <2> QED BY <2>1
<1>4. PICK p \in Seq(Nat) : p = Append(g, h)
  BY AppendProperties
<1>5. p = g \o f
  BY <1>3, <1>4, AppendIsConcat
<1>6. r = f \o t
  BY <1>1, <1>2, <1>3, HeadAndTail
<1>7. FourParts(a, g, f, t)
  BY ListsInParts
<1>8. (a \o p) \o t = (a \o g) \o r
  BY <1>5, <1>6, <1>7 DEF FourParts
<1> QED BY <1>1, <1>2, <1>4, <1>8

(* A raised event is given to the waiter of its name, or buffered.         *)
LEMMA OnEventRaisedKept ==
  ASSUME TurnInv, BufferInv, Frame, OnEventRaised, NEW n \in Names, Kept(n)
  PROVE  Kept(n)'
<1>1. /\ HasEvent /\ Take /\ UNCHANGED buffer /\ Current.type = "eventRaised"
      /\ ctx \in Contexts /\ Current \in HistoryEvents /\ ~suspended
  BY CurrentTyped DEF OnEventRaised, On, Suspendable, TurnInv, TurnTypes
<1>2. PICK m \in Names : m = Current.name
  BY <1>1 DEF HistoryEvents
<1>3. PICK v \in Nat : v = Current.val
  BY <1>1 DEF HistoryEvents
<1>4. /\ ctx.got \in [Names -> Seq(Nat)] /\ ctx.recv \in [Names -> Seq(Nat)]
      /\ ctx.wait \in [Names -> Seq(TaskId)]
  BY <1>1, ContextTypes, Zenon
<1>5. IF ctx.wait[m] # <<>>
      THEN ctx'.got = [ctx.got EXCEPT ![m] = Append(@, v)] /\ ctx'.recv = ctx.recv
      ELSE ctx'.recv = [ctx.recv EXCEPT ![m] = Append(@, v)] /\ ctx'.got = ctx.got
  BY <1>1, <1>2, <1>3 DEF OnEventRaised, Contexts
<1>6. CASE n # m
  <2>1. ctx'.got[n] = ctx.got[n] /\ ctx'.recv[n] = ctx.recv[n]
    BY <1>4, <1>5, <1>6
  <2>2. ~IsRaised(n, Current)
    BY <1>2, <1>6 DEF IsRaised
  <2> QED BY <1>1, <2>1, <2>2, SilentTaken
<1>7. CASE n = m
  <2>1. PICK lo \in Nat : lo = Len(Taken(n))
    BY TakenTyped
  <2>2. PICK hi \in Nat : hi = used.raised[n]
    BY TakenTyped
  <2>3. PICK e \in HistoryEvents : e = Current
    BY <1>1
  <2>4. PICK a \in Seq(HistoryEvents), b \in Seq(HistoryEvents) :
          TakenOut(Rest, Rest', Current, a, b) /\ a = <<>>
    BY <1>1, TakenAway
  <2>5. Rest = <<e>> \o b /\ Rest' = b
    <3>1. <<e>> \in Seq(HistoryEvents)
      OBVIOUS
    <3>2. <<>> \o <<e>> = <<e>> /\ <<>> \o b = b
      BY <3>1, ConcatEmptySeq
    <3> QED BY <2>3, <2>4, <3>2 DEF TakenOut
  <2>6. Carries(n, <<e>> \o b, lo, hi)
    BY <2>1, <2>2, <2>5 DEF Kept
  <2>7. IsRaised(n, e)
    BY <1>1, <1>2, <1>7, <2>3 DEF IsRaised
  <2>8. e.val = lo + 1 /\ Carries(n, b, lo + 1, hi)
    BY <2>6, <2>7, CarriesHead
  <2>9. v = lo + 1
    BY <1>3, <2>3, <2>8
  <2>10. PICK T \in Seq(Nat) : T = Taken(n)
    BY TakenTyped
  <2>11. Taken(n)' = Append(T, v)
    <3>1. PICK x \in Seq(Nat) : x = last.before[n] /\ last' = last
      BY TakenTyped DEF Frame, sidecarVars
    <3>2. PICK g \in Seq(Nat) : g = ctx.got[n]
      BY <1>4
    <3>3. PICK r \in Seq(Nat) : r = ctx.recv[n]
      BY <1>4
    <3>4. CASE ctx.wait[m] # <<>>
      <4>1. r = <<>>
        BY <1>7, <3>3, <3>4 DEF TurnInv, NoWaiterOverlooked
      <4>2. ctx'.got[n] = Append(g, v) /\ ctx'.recv[n] = <<>>
        BY <1>4, <1>5, <1>7, <3>2, <3>3, <3>4, <4>1
      <4>6. OneMorePayload(x, g, r, v)
        BY TakenMore
      <4>3. x \o Append(g, v) \o <<>> = Append(x \o g \o <<>>, v)
        BY <4>6 DEF OneMorePayload
      <4>4. T = x \o g \o <<>>
        BY <2>10, <3>1, <3>2, <3>3, <4>1 DEF Taken
      <4>5. Taken(n)' = x \o Append(g, v) \o <<>>
        BY <3>1, <4>2 DEF Taken
      <4> QED BY <4>3, <4>4, <4>5
    <3>5. CASE ctx.wait[m] = <<>>
      <4>2. ctx'.got[n] = g /\ ctx'.recv[n] = Append(r, v)
        BY <1>4, <1>5, <1>7, <3>2, <3>3, <3>5
      <4>6. OneMorePayload(x, g, r, v)
        BY TakenMore
      <4>3. x \o g \o Append(r, v) = Append(x \o g \o r, v)
        BY <4>6 DEF OneMorePayload
      <4>4. T = x \o g \o r
        BY <2>10, <3>1, <3>2, <3>3 DEF Taken
      <4>5. Taken(n)' = x \o g \o Append(r, v)
        BY <3>1, <4>2 DEF Taken
      <4> QED BY <4>3, <4>4, <4>5
    <3> QED BY <3>4, <3>5
  <2>12. IsCount(Append(T, v)) /\ Len(Append(T, v)) = lo + 1
    <3>1. IsCount(T) /\ v = Len(T) + 1 /\ Len(T) = lo
      BY <2>1, <2>9, <2>10 DEF Kept
    <3>2. IsCount(Append(T, Len(T) + 1))
      BY <3>1, CountAppend
    <3>3. Len(Append(T, v)) = Len(T) + 1
      BY AppendProperties
    <3> QED BY <3>1, <3>2, <3>3
  <2>13. used' = used
    BY DEF Frame, sidecarVars
  <2>14. IsCount(Taken(n)') /\ Carries(n, Rest', Len(Taken(n)'), used'.raised[n])
    <3>1. Len(Taken(n)') = lo + 1 /\ IsCount(Taken(n)')
      BY <2>11, <2>12
    <3>2. Carries(n, Rest', lo + 1, hi)
      BY <2>5, <2>8
    <3> QED BY <2>2, <2>13, <3>1, <3>2
  <2> QED BY <2>14 DEF Kept, IsCount, Carries, Raised
<1> QED BY <1>6, <1>7

----------------------------------------------------------------------------
(* The steps that hand out no payload.                                     *)

SameTaken == ctx'.got = ctx.got /\ ctx'.recv = ctx.recv
FailsToEnd == mode' = "done" => ctx'.error # "none"

(* A failed turn keeps the payloads, and notes why it failed.              *)
LEMMA FailTaken ==
  ASSUME ctx \in Contexts, NEW c \in Contexts, c.got = ctx.got, c.recv = ctx.recv,
         NEW why \in Reasons, FailTurn(c, why)
  PROVE  SameTaken /\ FailsToEnd
<1>1. ctx' = SetFailed(c, why)
  BY DEF FailTurn
<1>2. SameEvents(c, SetFailed(c, why)) /\ SetFailed(c, why).error = why
  BY SetFailedFields
<1>3. ctx'.got = c.got /\ ctx'.recv = c.recv /\ ctx'.error = why
  BY <1>1, <1>2 DEF SameEvents
<1>4. why # "none"
  BY DEF Reasons
<1> QED BY <1>3, <1>4 DEF SameTaken, FailsToEnd

LEMMA RaisesTaken ==
  ASSUME TurnInv, Raises
  PROVE  SameTaken /\ FailsToEnd
<1>1. ctx \in Contexts
  BY DEF TurnInv, TurnTypes
<1>2. PICK c : c = [ctx EXCEPT !.gen = "done"]
  OBVIOUS
<1>3. c \in Contexts /\ c.got = ctx.got /\ c.recv = ctx.recv
  BY <1>1, <1>2 DEF Contexts
<1>4. FailTurn(c, "exception")
  BY <1>2 DEF Raises
<1> QED BY <1>1, <1>3, <1>4, FailTaken DEF Reasons

LEMMA OnConfirmedTaken ==
  ASSUME TurnInv, OnConfirmed
  PROVE  SameTaken /\ FailsToEnd
<1> DEFINE e == Current
           stale == \E a \in PendingAt(ctx, e.id) : IsOptionalTimer(a)
           c == IF stale /\ ~IsOptionalEvent(e) THEN DropOptional(ctx, e.id) ELSE ctx
           pending == PendingAt(c, e.id)
<1>1. ctx \in Contexts /\ e.id \in Nat /\ Ids(ctx) /\ mode = "event"
  <2>1. HasEvent /\ mode = "event"
    BY DEF OnConfirmed, On, AtEvent
  <2>2. Current \in HistoryEvents
    BY <2>1, CurrentTyped DEF TurnInv
  <2> QED BY <2>1, <2>2 DEF TurnInv, TurnTypes, IdInv, Ids, HistoryEvents
<1>2. c \in Contexts /\ SameEvents(ctx, c)
  <2>1. CASE stale /\ ~IsOptionalEvent(e)
    BY <1>1, <2>1, DropOptionalFields
  <2>2. CASE ~(stale /\ ~IsOptionalEvent(e))
    BY <1>1, <2>2 DEF SameEvents
  <2> HIDE DEF c, stale
  <2> QED BY <2>1, <2>2
<1>3. \/ UNCHANGED <<ctx, mode>>
      \/ ctx' = Confirmed(c, e.id) /\ UNCHANGED mode
      \/ FailTurn(c, "nondeterminism")
  <2>1. IF IsOptionalEvent(e) /\ ~\E a \in pending : IsOptionalTimer(a)
        THEN UNCHANGED <<ctx, mode>>
        ELSE IF \E a \in pending : Matches(a, e)
        THEN ctx' = Confirmed(c, e.id) /\ UNCHANGED mode
        ELSE FailTurn(c, "nondeterminism")
    BY DEF OnConfirmed
  <2> HIDE DEF c, e, pending
  <2> QED BY <2>1
<1> HIDE DEF c, e
<1>4. CASE UNCHANGED <<ctx, mode>>
  BY <1>1, <1>4 DEF SameTaken, FailsToEnd
<1>5. CASE ctx' = Confirmed(c, e.id) /\ UNCHANGED mode
  <2>1. PICK A : ctx' = [c EXCEPT !.acts = A]
    BY <1>5 DEF Confirmed
  <2>2. ctx'.got = c.got /\ ctx'.recv = c.recv
    BY <1>2, <2>1 DEF Contexts
  <2> QED BY <1>1, <1>2, <1>5, <2>2 DEF SameTaken, FailsToEnd, SameEvents
<1>6. CASE FailTurn(c, "nondeterminism")
  BY <1>1, <1>2, <1>6, FailTaken DEF Reasons, SameEvents
<1> QED BY <1>3, <1>4, <1>5, <1>6

LEMMA OutcomeTaken ==
  ASSUME TurnInv, OnCompleted \/ OnFailed \/ OnTimerFired
  PROVE  SameTaken /\ FailsToEnd
<1>1. /\ ctx \in Contexts /\ HasEvent /\ mode = "event" /\ TaskAt(Current.id) # NoTask
  BY DEF TurnInv, TurnTypes, OnCompleted, OnFailed, OnTimerFired, On, AtEvent
<1>2. PICK id \in Nat : id = Current.id
  <2>1. Current \in HistoryEvents
    BY <1>1, CurrentTyped DEF TurnInv
  <2> QED BY <2>1 DEF HistoryEvents
<1>3. PICK c \in Contexts : c = Popped(id) /\ c.got = ctx.got /\ c.recv = ctx.recv
  <2>1. Popped(id) \in Contexts /\ SameEvents(ctx, Popped(id))
    BY <1>1, <1>2, PoppedFields
  <2> QED BY <2>1 DEF SameEvents
<1>4. mode' # "done"
  BY <1>1 DEF OnCompleted, OnFailed, OnTimerFired
<1>5. \/ ctx' = c
      \/ \E kind, name, t : ctx' = Scheduled(c, kind, name, t)
  BY <1>2, <1>3 DEF OnCompleted, OnFailed, OnTimerFired
<1>6. ctx'.got = c.got /\ ctx'.recv = c.recv
  BY <1>5 DEF Scheduled, Contexts
<1> QED BY <1>3, <1>4, <1>6 DEF SameTaken, FailsToEnd

(* The other steps that take an event, but for a raised one.               *)
LEMMA ProcessTaken ==
  ASSUME TurnInv, ProcessEvent, ~OnEventRaised, ~EndTurn
  PROVE  SameTaken /\ FailsToEnd
<1>1. ctx \in Contexts
  BY DEF TurnInv, TurnTypes
<1>2. CASE BufferEvent \/ OnUnexpected \/ OnSuspended \/ EndDrain
  BY <1>2 DEF BufferEvent, OnUnexpected, OnSuspended, EndDrain, On, AtEvent, SameTaken,
     FailsToEnd
<1>3. CASE OnWorkflowStarted
  <2>1. PICK H : ctx' = [ctx EXCEPT !.hpatch = H]
    BY <1>3 DEF OnWorkflowStarted
  <2> QED BY <1>1, <1>3, <2>1 DEF OnWorkflowStarted, On, AtEvent, SameTaken, FailsToEnd, Contexts
<1>4. CASE OnExecutionStarted
  BY <1>1, <1>4 DEF OnExecutionStarted, SameTaken, FailsToEnd, Contexts
<1>5. CASE OnConfirmed
  BY <1>5, OnConfirmedTaken
<1>6. CASE OnCompleted \/ OnFailed \/ OnTimerFired
  BY <1>6, OutcomeTaken
<1>7. CASE OnResumed
  <2>1. CASE suspended
    BY <1>7, <2>1 DEF OnResumed, AtEvent, SameTaken, FailsToEnd
  <2>2. CASE ~suspended
    <3>1. FailTurn(ctx, "unknown event")
      BY <1>7, <2>2 DEF OnResumed
    <3> QED BY <1>1, <3>1, FailTaken DEF Reasons
  <2> QED BY <2>1, <2>2
<1>8. CASE OnTerminated
  <2>1. ctx' = SetComplete(ctx, "terminated") /\ mode' = "event"
    BY <1>8 DEF OnTerminated, On, AtEvent
  <2>2. SameEvents(ctx, SetComplete(ctx, "terminated"))
    BY <1>1, SetCompleteFields DEF Statuses
  <2> QED BY <2>1, <2>2 DEF SameTaken, FailsToEnd, SameEvents
<1> QED BY <1>2, <1>3, <1>4, <1>5, <1>6, <1>7, <1>8 DEF ProcessEvent

(* The steps of the program, but for a wait that is over at once.          *)
LEMMA ProgramTaken ==
  ASSUME TurnInv, Hop \/ RunProgram, ~RunWaitNow
  PROVE  SameTaken /\ FailsToEnd
<1>1. ctx \in Contexts
  BY DEF TurnInv, TurnTypes
<1>2. ASSUME NEW t \in TaskId
      PROVE  Assigned(t) \in Contexts /\ Assigned(t).got = ctx.got /\ Assigned(t).recv = ctx.recv
  BY <1>1, AssignedFields DEF SameEvents
<1>3. CASE Hop
  <2>1. PICK W : ctx' = [ctx EXCEPT !.wait = W]
    BY <1>3 DEF Hop
  <2>2. mode' = "resume"
    BY <1>3 DEF Hop
  <2> QED BY <1>1, <2>1, <2>2 DEF SameTaken, FailsToEnd, Contexts
<1>4. CASE StayYielded
  BY <1>4 DEF StayYielded, SameTaken, FailsToEnd
<1>5. CASE ResumeGenerator
  <2>1. PICK c : c = [ctx EXCEPT !.seen = Append(@, <<tasks[ctx.prev].out, tasks[ctx.prev].val>>)]
    OBVIOUS
  <2>2. \/ FailTurn([c EXCEPT !.gen = "done"], "exception")
        \/ (\E p : ctx' = [c EXCEPT !.pc = p]) /\ mode' = "run"
    BY <1>5, <2>1 DEF ResumeGenerator
  <2>3. c \in Contexts /\ c.got = ctx.got /\ c.recv = ctx.recv
    <3>1. ctx.prev \in TaskId
      BY <1>1, <1>5, ContextTypes DEF ResumeGenerator, Returns, Ready, OptTask
    <3>2. tasks[ctx.prev].out \in Outcomes /\ tasks[ctx.prev].val \in Nat
      BY <3>1 DEF TurnInv, TurnTypes, Task
    <3>3. ctx.seen \in Seq(Outcomes \X Nat)
      BY <1>1, ContextTypes, Zenon
    <3>4. PICK S \in Seq(Outcomes \X Nat) :
            S = Append(ctx.seen, <<tasks[ctx.prev].out, tasks[ctx.prev].val>>)
      <4>1. Append(ctx.seen, <<tasks[ctx.prev].out, tasks[ctx.prev].val>>) \in Seq(Outcomes \X Nat)
        BY <3>2, <3>3
      <4> QED BY <4>1
    <3>5. c = [ctx EXCEPT !.seen = S]
      BY <2>1, <3>4
    <3> QED BY <1>1, <3>5 DEF Contexts
  <2>4. CASE FailTurn([c EXCEPT !.gen = "done"], "exception")
    <3>1. PICK d : d = [c EXCEPT !.gen = "done"]
      OBVIOUS
    <3>2. d \in Contexts /\ d.got = ctx.got /\ d.recv = ctx.recv
      BY <2>3, <3>1 DEF Contexts
    <3> QED BY <1>1, <2>4, <3>1, <3>2, FailTaken DEF Reasons
  <2>5. CASE (\E p : ctx' = [c EXCEPT !.pc = p]) /\ mode' = "run"
    BY <2>3, <2>5 DEF SameTaken, FailsToEnd, Contexts
  <2> QED BY <2>2, <2>4, <2>5
<1>6. CASE ResumeFinished
  <2>1. CASE IsFailed(ctx.prev)
    BY <1>1, <1>6, <2>1, FailTaken DEF ResumeFinished, Reasons
  <2>2. CASE ~IsFailed(ctx.prev)
    BY <1>6, <2>2 DEF ResumeFinished, SameTaken, FailsToEnd
  <2> QED BY <2>1, <2>2
<1>7. CASE RunSchedule
  <2>1. PICK t, kind, name :
          t \in TaskId /\ ctx' = Scheduled(Assigned(t), kind, name, t)
    BY <1>7 DEF RunSchedule
  <2>2. PICK c \in Contexts : c = Assigned(t) /\ c.got = ctx.got /\ c.recv = ctx.recv
    BY <1>2, <2>1
  <2>3. ctx'.got = c.got /\ ctx'.recv = c.recv
    BY <2>1, <2>2 DEF Scheduled, Contexts
  <2>4. mode' = "run"
    BY <1>7 DEF RunSchedule, AtInstruction
  <2> QED BY <2>2, <2>3, <2>4 DEF SameTaken, FailsToEnd
<1>8. CASE RunWait \/ RunWaitBeforeUpgrade
  <2>1. PICK t, W :
          /\ t \in TaskId
          /\ \/ ctx' = [Assigned(t) EXCEPT !.wait = W]
             \/ \E kind, name, x : ctx' = Scheduled([Assigned(t) EXCEPT !.wait = W], kind, name, x)
    <3>1. CASE RunWait
      <4>1. PICK e \in TaskId : /\ e + 2 \in TaskId
              /\ ctx' = Scheduled([Assigned(e + 2) EXCEPT !.wait[Instruction.name] = Append(@, e)],
                   "timer", IF Instruction.timeout = "none" THEN "optional" ELSE "event", e + 1)
        BY <3>1 DEF RunWait
      <4>2. PICK t \in TaskId : t = e + 2
        BY <4>1
      <4>3. PICK W : W = [Assigned(t).wait EXCEPT ![Instruction.name] = Append(@, e)]
        OBVIOUS
      <4>4. [Assigned(t) EXCEPT !.wait[Instruction.name] = Append(@, e)]
              = [Assigned(t) EXCEPT !.wait = W]
        BY <4>3
      <4> QED BY <4>1, <4>2, <4>4
    <3>2. CASE RunWaitBeforeUpgrade
      <4>1. PICK t \in TaskId :
              ctx' = [Assigned(t) EXCEPT !.wait[Instruction.name] = Append(@, t)]
        BY <3>2 DEF RunWaitBeforeUpgrade
      <4> QED BY <4>1
    <3> QED BY <1>8, <3>1, <3>2
  <2>2. PICK c \in Contexts : c = Assigned(t) /\ c.got = ctx.got /\ c.recv = ctx.recv
    BY <1>2, <2>1
  <2>3. PICK d : d = [c EXCEPT !.wait = W]
    OBVIOUS
  <2>4. /\ d = [f \in DOMAIN c |-> IF f = "wait" THEN W ELSE c[f]]
        /\ d.got = c.got /\ d.recv = c.recv
    BY <2>2, <2>3 DEF Contexts
  <2>5. ctx'.got = d.got /\ ctx'.recv = d.recv
    BY <2>1, <2>2, <2>3 DEF Scheduled, Contexts
  <2>6. mode' = "run"
    BY <1>8 DEF RunWait, RunWaitBeforeUpgrade, AtInstruction
  <2> QED BY <2>2, <2>4, <2>5, <2>6 DEF SameTaken, FailsToEnd
<1>9. CASE RunCompose
  <2>1. Raises \/ (mode' = mode /\ mode = "run" /\ \E c \in TaskId : ctx' = Assigned(c))
    BY <1>9 DEF RunCompose
  <2>2. CASE Raises
    BY <2>2, RaisesTaken
  <2>3. CASE mode' = mode /\ mode = "run" /\ \E c \in TaskId : ctx' = Assigned(c)
    BY <1>2, <2>3 DEF SameTaken, FailsToEnd
  <2> QED BY <2>1, <2>2, <2>3
<1>10. CASE RunYield
  <2>1. CASE Assigns({Instruction.of})
    BY <1>1, <1>10, <2>1 DEF RunYield, SameTaken, FailsToEnd, Contexts
  <2>2. CASE ~Assigns({Instruction.of})
    BY <1>10, <2>2, RaisesTaken DEF RunYield
  <2> QED BY <2>1, <2>2
<1>11. CASE RunIfPatched
  <2>1. mode' = "run" /\ \E p, a, e, u : \/ ctx' = [ctx EXCEPT !.pc = p]
                                         \/ ctx' = [ctx EXCEPT !.pc = p, !.apatch = a, !.epatch = e]
                                         \/ ctx' = [ctx EXCEPT !.pc = p, !.unpatch = u]
    BY <1>11 DEF RunIfPatched, AtInstruction
  <2> QED BY <1>1, <2>1 DEF SameTaken, FailsToEnd, Contexts
<1>12. CASE RunContinueAsNew
  <2>1. mode' = "run"
        /\ ctx' = [SetContinuedAsNew(ctx, Instruction.save) EXCEPT !.pc = @ + 1]
    BY <1>12 DEF RunContinueAsNew, AtInstruction
  <2>2. ctx'.got = ctx.got /\ ctx'.recv = ctx.recv
    BY <1>1, <2>1 DEF SetContinuedAsNew, Contexts
  <2> QED BY <2>1, <2>2 DEF SameTaken, FailsToEnd
<1>13. CASE RunReturn
  <2>1. PICK d : d = [ctx EXCEPT !.gen = "done"]
    OBVIOUS
  <2>2. d \in Contexts /\ d.got = ctx.got /\ d.recv = ctx.recv
    BY <1>1, <2>1 DEF Contexts
  <2>3. ctx' = SetComplete(d, "completed") /\ mode' = "event"
    BY <1>13, <2>1 DEF RunReturn
  <2>4. SameEvents(d, SetComplete(d, "completed"))
    BY <2>2, SetCompleteFields DEF Statuses
  <2> QED BY <2>2, <2>3, <2>4 DEF SameTaken, FailsToEnd, SameEvents
<1> QED BY <1>3, <1>4, <1>5, <1>6, <1>7, <1>8, <1>9, <1>10, <1>11, <1>12, <1>13
        DEF RunProgram

----------------------------------------------------------------------------
(* The steps of a turn.                                                    *)

LEMMA SameTakenKept ==
  ASSUME Frame, SameTaken, NEW n \in Names
  PROVE  Taken(n)' = Taken(n)
BY DEF SameTaken, Taken, Frame, sidecarVars

(* A step that takes no event.                                             *)
LEMMA StillKept ==
  ASSUME TurnInv, Frame, UNCHANGED <<pos, drain, buffer>>, NEW n \in Names,
         Taken(n)' = Taken(n), Kept(n)
  PROVE  Kept(n)'
<1>1. UNCHANGED <<Events, inbox, used>>
  BY FrameTypes DEF TurnInv, Frame, sidecarVars
<1>2. HeldBack' = HeldBack
  BY DEF HeldBack, Draining
<1>3. Ahead' = Ahead
  BY <1>1 DEF Ahead
<1>4. Rest' = Rest
  BY <1>1, <1>2, <1>3 DEF Rest
<1>5. IsCount(Taken(n)') /\ Carries(n, Rest', Len(Taken(n)'), used'.raised[n])
  BY <1>1, <1>4 DEF Kept
<1> QED BY <1>5 DEF Kept, IsCount, Carries, Raised

(* An event moves from the turn to the events held back.                   *)
LEMMA BufferEventKept ==
  ASSUME TurnInv, BufferInv, Frame, BufferEvent, NEW n \in Names, Kept(n)
  PROVE  Kept(n)'
<1>1. /\ UNCHANGED <<inbox, used, last, Events, ctx>> /\ pos \in Nat /\ drain \in Nat
      /\ HeldBack \in Seq(HistoryEvents) /\ Ahead \in Seq(HistoryEvents)
      /\ inbox \in Seq(HistoryEvents) /\ buffer \in Seq(HistoryEvents)
      /\ Current \in HistoryEvents
  BY RestTyped, CurrentTyped, FrameTypes DEF TurnInv, TurnTypes, Frame, sidecarVars, BufferEvent
<1>2. PICK E \in Seq(HistoryEvents) : E = Events /\ Events' = E
  BY <1>1, RestTyped DEF TurnInv
<1>3. PICK L \in Nat : L = Len(E)
  BY LenProperties
<1>4. PICK e \in HistoryEvents : e = Current
  BY <1>1
<1>5. <<e>> \in Seq(HistoryEvents)
  OBVIOUS
<1>6. PICK f \in Seq(HistoryEvents) : f = <<e>>
  BY <1>5
<1>7. PICK I \in Seq(HistoryEvents) : I = inbox
  BY <1>1
<1>8. PICK B \in Seq(HistoryEvents) : B = buffer
  BY <1>1
<1>9. ~Draining
  BY DEF BufferInv, BufferEvent
<1>10. drain = 0 /\ pos + 1 \in 1 .. L /\ L \in pos + 1 .. L /\ e = E[pos + 1]
       /\ pos' = pos + 1 /\ drain' = 0 /\ buffer' = Append(B, e)
  BY <1>1, <1>2, <1>3, <1>4, <1>8, <1>9 DEF Draining, HasEvent, Current, Take, BufferEvent
<1>11. HeldBack = B
  BY <1>1, <1>8, <1>10, HeldBackAll
<1>12. PICK C \in Seq(HistoryEvents) : C = Append(B, e) /\ C = B \o f
  <2>1. Append(B, e) \in Seq(HistoryEvents) /\ Append(B, e) = B \o <<e>>
    BY AppendProperties, AppendIsConcat
  <2> QED BY <1>6, <2>1
<1>13. HeldBack' = C
  <2>1. HeldBack' = SubSeq(buffer', 1, Len(buffer'))
    BY <1>10 DEF HeldBack, Draining
  <2>2. SubSeq(C, 1, Len(C)) = C
    BY SubSeqFull
  <2> QED BY <1>10, <1>12, <2>1, <2>2
<1>14. PICK A \in Seq(HistoryEvents) : A = SubSeq(E, (pos + 1) + 1, L)
  <2>1. (pos + 1) + 1 \in Int /\ L \in Int
    BY <1>1
  <2>2. \A i \in (pos + 1) + 1 .. L : i \in 1 .. Len(E)
    BY <1>1, <1>3
  <2>3. \A i \in (pos + 1) + 1 .. L : E[i] \in HistoryEvents
    BY <2>2, ElementOfSeq
  <2>4. SubSeq(E, (pos + 1) + 1, L) \in Seq(HistoryEvents)
    BY <2>1, <2>3, SubSeqProperties
  <2> QED BY <2>4
<1>15. Ahead = f \o A
  <2>1. SubSeq(E, pos + 1, L) = <<E[pos + 1]>> \o SubSeq(E, (pos + 1) + 1, L)
    BY <1>3, <1>10, SubSeqRecursiveFirst
  <2> QED BY <1>2, <1>3, <1>6, <1>10, <1>14, <2>1 DEF Ahead
<1>16. Ahead' = A
  BY <1>2, <1>3, <1>10, <1>14 DEF Ahead
<1>17. Rest' = Rest
  <2>1. FourParts(B, f, A, I) /\ Associates(C, A, I)
    BY ListsInParts, ListsAssociate
  <2>2. (B \o (f \o A)) \o I = (B \o f) \o (A \o I)
    BY <2>1 DEF FourParts
  <2>3. (C \o A) \o I = C \o (A \o I)
    BY <2>1 DEF Associates
  <2>4. Rest = (B \o (f \o A)) \o I
    BY <1>7, <1>11, <1>15 DEF Rest
  <2>5. Rest' = (C \o A) \o I
    BY <1>1, <1>7, <1>13, <1>16 DEF Rest
  <2> QED BY <1>12, <2>2, <2>3, <2>4, <2>5
<1>18. Taken(n)' = Taken(n)
  BY <1>1 DEF Taken
<1>19. IsCount(Taken(n)') /\ Carries(n, Rest', Len(Taken(n)'), used'.raised[n])
  BY <1>1, <1>17, <1>18 DEF Kept
<1> QED BY <1>19 DEF Kept, IsCount, Carries, Raised

(* The loop over the events held back has handled them all.                *)
LEMMA EndDrainKept ==
  ASSUME TurnInv, Frame, EndDrain, NEW n \in Names, Kept(n)
  PROVE  Kept(n)'
<1>1. UNCHANGED <<Events, inbox, used, last, ctx, pos>>
  BY FrameTypes DEF TurnInv, Frame, sidecarVars, EndDrain
<1>2. HeldBack = <<>>
  <2>1. drain > Len(buffer) /\ HeldBack = SubSeq(buffer, drain, Len(buffer))
    <3>1. PICK L \in Nat : L = Len(buffer)
      BY LenProperties DEF TurnInv, TurnTypes
    <3>2. drain > L
      BY <3>1 DEF EndDrain, HasEvent, TurnInv, TurnTypes
    <3> QED BY <3>1, <3>2 DEF HeldBack, EndDrain
  <2>2. buffer \in Seq(HistoryEvents) /\ drain \in Nat /\ drain > 0
    BY RestTyped DEF TurnInv, TurnTypes, EndDrain, Draining
  <2>3. Len(buffer) \in Nat
    BY <2>2, LenProperties
  <2>4. HeldBack \in Seq(HistoryEvents)
    BY RestTyped DEF TurnInv
  <2>5. Len(SubSeq(buffer, drain, Len(buffer))) = 0
    <3>1. drain .. Len(buffer) = {}
      BY <2>1, <2>2, <2>3
    <3>2. drain \in Int /\ Len(buffer) \in Int
      BY <2>2, <2>3
    <3>3. \A i \in drain .. Len(buffer) : buffer[i] \in HistoryEvents
      BY <3>1
    <3>4. Len(SubSeq(buffer, drain, Len(buffer)))
            = IF drain <= Len(buffer) THEN Len(buffer) - drain + 1 ELSE 0
      BY <3>2, <3>3, SubSeqProperties
    <3> QED BY <2>1, <2>2, <2>3, <3>4
  <2> QED BY <2>1, <2>4, <2>5, EmptySeq
<1>3. HeldBack' = <<>>
  <2>1. drain' = 0 /\ buffer' = <<>>
    BY DEF EndDrain
  <2>2. HeldBack' = SubSeq(buffer', 1, Len(buffer'))
    BY <2>1 DEF HeldBack, Draining
  <2> QED BY <2>1, <2>2
<1>4. Rest' = Rest
  <2>1. Ahead' = Ahead
    BY <1>1 DEF Ahead
  <2> QED BY <1>1, <1>2, <1>3, <2>1 DEF Rest
<1>5. Taken(n)' = Taken(n)
  BY <1>1 DEF Taken
<1>6. IsCount(Taken(n)') /\ Carries(n, Rest', Len(Taken(n)'), used'.raised[n])
  BY <1>1, <1>4, <1>5 DEF Kept
<1> QED BY <1>6 DEF Kept, IsCount, Carries, Raised

(* Every step that handles an event keeps the payloads.                    *)
LEMMA ProcessKept ==
  ASSUME TurnInv, BufferInv, Frame, ProcessEvent, NEW n \in Names, Kept(n)
  PROVE  Kept(n)'
<1>1. CASE BufferEvent
  BY <1>1, BufferEventKept
<1>2. CASE EndDrain
  BY <1>2, EndDrainKept
<1>3. CASE OnEventRaised
  BY <1>3, OnEventRaisedKept
<1>4. CASE EndTurn
  <2>1. UNCHANGED <<pos, drain, buffer>> /\ Taken(n)' = Taken(n)
    BY <1>4 DEF EndTurn, Taken, Frame, sidecarVars
  <2> QED BY <2>1, StillKept
<1>5. CASE OnWorkflowStarted \/ OnExecutionStarted \/ OnConfirmed \/ OnUnexpected \/ OnCompleted
           \/ OnFailed \/ OnTimerFired \/ OnSuspended \/ OnResumed \/ OnTerminated
  <2>1. /\ HasEvent /\ UNCHANGED buffer /\ ~IsRaised(n, Current)
        /\ Take \/ (~Draining /\ pos' = pos + 1 /\ drain' = 1)
    <3>1. CASE OnResumed
      <4>1. suspended => ~Draining
        BY DEF BufferInv
      <4> QED BY <3>1, <4>1 DEF OnResumed, IsRaised
    <3>2. CASE OnWorkflowStarted \/ OnExecutionStarted \/ OnConfirmed \/ OnUnexpected
      BY <3>2 DEF OnWorkflowStarted, OnExecutionStarted, OnConfirmed, OnUnexpected, On, IsRaised
    <3>3. CASE OnCompleted \/ OnFailed \/ OnTimerFired \/ OnSuspended \/ OnTerminated
      BY <3>3 DEF OnCompleted, OnFailed, OnTimerFired, OnSuspended, OnTerminated, On, IsRaised
    <3> QED BY <1>5, <3>1, <3>2, <3>3
  <2>2. ~OnEventRaised /\ ~EndTurn
    <3>1. ~EndTurn
      BY <2>1 DEF EndTurn
    <3>2. HasEvent /\ Current.type # "eventRaised"
      BY <1>5 DEF OnWorkflowStarted, OnExecutionStarted, OnConfirmed, OnUnexpected, OnCompleted,
         OnFailed, OnTimerFired, OnSuspended, OnResumed, OnTerminated, On
    <3> QED BY <3>1, <3>2 DEF OnEventRaised, On
  <2>3. SameTaken
    BY <2>2, ProcessTaken
  <2> QED BY <2>1, <2>3, SilentTaken DEF SameTaken
<1> QED BY <1>1, <1>2, <1>3, <1>4, <1>5 DEF ProcessEvent

(* Every step of the workflow function keeps them.                         *)
LEMMA ProgramKept ==
  ASSUME TurnInv, Frame, Hop \/ RunProgram, NEW n \in Names, Kept(n)
  PROVE  Kept(n)'
<1>1. UNCHANGED <<pos, drain, buffer>>
  BY DEF Hop, RunProgram, StayYielded, ResumeGenerator, ResumeFinished, RunSchedule, RunWaitNow,
     RunWait, RunWaitBeforeUpgrade, RunCompose, RunYield, RunIfPatched, RunContinueAsNew, RunReturn
<1>2. CASE ~RunWaitNow
  <2>1. SameTaken
    BY <1>2, ProgramTaken
  <2> QED BY <1>1, <2>1, SameTakenKept, StillKept
<1>3. CASE RunWaitNow
  <2>1. PICK t \in TaskId :
          IF ctx.recv[Instruction.name] # <<>>
          THEN ctx' = [Assigned(t) EXCEPT !.recv[Instruction.name] = Tail(@),
                         !.got[Instruction.name] = Append(@, Head(ctx.recv[Instruction.name]))]
          ELSE ctx' = Assigned(t)
    BY <1>3 DEF RunWaitNow
  <2>2. PICK c \in Contexts : c = Assigned(t) /\ c.got = ctx.got /\ c.recv = ctx.recv
    <3>1. ctx \in Contexts
      BY DEF TurnInv, TurnTypes
    <3> QED BY <3>1, AssignedFields DEF SameEvents
  <2>3. PICK m : m = Instruction.name
    OBVIOUS
  <2>4. c.got \in [Names -> Seq(Nat)] /\ c.recv \in [Names -> Seq(Nat)]
    BY ContextTypes, Zenon
  <2>5. CASE ctx.recv[m] # <<>> /\ m = n
    <3>1. ctx' = [c EXCEPT !.recv[m] = Tail(@), !.got[m] = Append(@, Head(ctx.recv[m]))]
      BY <2>1, <2>2, <2>3, <2>5
    <3>2. PICK R : R = [c.recv EXCEPT ![m] = Tail(@)]
      OBVIOUS
    <3>3. PICK G : G = [c.got EXCEPT ![m] = Append(@, Head(ctx.recv[m]))]
      OBVIOUS
    <3>4. ctx' = [c EXCEPT !.recv = R, !.got = G]
      BY <3>1, <3>2, <3>3
    <3>5. ctx'.recv = R /\ ctx'.got = G
      BY <3>4 DEF Contexts
    <3>6. PICK r \in Seq(Nat) : r = ctx.recv[n]
      BY <2>2, <2>4
    <3>7. PICK g \in Seq(Nat) : g = ctx.got[n]
      BY <2>2, <2>4
    <3>8. PICK a \in Seq(Nat) : a = last.before[n]
      BY TakenTyped
    <3>9. R[n] = Tail(r) /\ G[n] = Append(g, Head(r)) /\ r # <<>>
      BY <2>2, <2>4, <2>5, <3>2, <3>3, <3>6, <3>7
    <3>10. Taken(n)' = a \o Append(g, Head(r)) \o Tail(r)
      BY <3>5, <3>8, <3>9 DEF Taken, Frame, sidecarVars
    <3>11. Taken(n) = a \o g \o r
      BY <3>6, <3>7, <3>8 DEF Taken
    <3>12. a \o Append(g, Head(r)) \o Tail(r) = a \o g \o r
      BY <3>9, TakenMoves
    <3>13. Taken(n)' = Taken(n)
      BY <3>10, <3>11, <3>12
    <3> QED BY <1>1, <3>13, StillKept
  <2>6. CASE ~(ctx.recv[m] # <<>> /\ m = n)
    <3>1. ctx'.recv[n] = ctx.recv[n] /\ ctx'.got[n] = ctx.got[n]
      <4>1. CASE ctx.recv[m] = <<>>
        BY <2>1, <2>2, <2>3, <4>1
      <4>2. CASE ctx.recv[m] # <<>> /\ m # n
        <5>1. ctx' = [c EXCEPT !.recv[m] = Tail(@), !.got[m] = Append(@, Head(ctx.recv[m]))]
          BY <2>1, <2>2, <2>3, <4>2
        <5>2. PICK R : R = [c.recv EXCEPT ![m] = Tail(@)]
          OBVIOUS
        <5>3. PICK G : G = [c.got EXCEPT ![m] = Append(@, Head(ctx.recv[m]))]
          OBVIOUS
        <5>4. ctx' = [c EXCEPT !.recv = R, !.got = G]
          BY <5>1, <5>2, <5>3
        <5>5. ctx'.recv = R /\ ctx'.got = G
          BY <5>4 DEF Contexts
        <5>6. R[n] = c.recv[n] /\ G[n] = c.got[n]
          BY <2>4, <4>2, <5>2, <5>3
        <5> QED BY <2>2, <5>5, <5>6
      <4> QED BY <2>6, <4>1, <4>2
    <3>2. Taken(n)' = Taken(n)
      BY <3>1 DEF Taken, Frame, sidecarVars
    <3> QED BY <1>1, <3>2, StillKept
  <2> QED BY <2>5, <2>6
<1> QED BY <1>2, <1>3

----------------------------------------------------------------------------
(* What can go wrong with an event in spite of process_event.              *)

\* No payload is a value that Python treats as false.
NoFalsyPayload == scene.falsy = {}

\* A suspended instance is not suspended again before it is resumed.
NoNestedSuspension == \A i \in DOMAIN buffer : buffer[i].type # "executionSuspended"

\* A turn that continues as new raised no exception after that, and its
\* suspension, if there is one, holds no raised event back.
ContinuesCleanly ==
  mode = "done" /\ ctx.status = "continued" =>
    ctx.error = "none" /\ \A i \in DOMAIN buffer : buffer[i].type # "eventRaised"

Undisturbed == NoFalsyPayload /\ NoNestedSuspension /\ ContinuesCleanly

(* The list of the events held back is empty when it has to be.            *)
LEMMA BufferStep ==
  ASSUME TurnInv, BufferInv, NoNestedSuspension, Frame, ProcessEvent \/ Hop \/ RunProgram
  PROVE  BufferInv'
<1>0. /\ ctx \in Contexts /\ pos \in Nat /\ drain \in Nat /\ suspended \in BOOLEAN
      /\ Len(Events) \in Nat /\ pos <= Len(Events) /\ Len(buffer) \in Nat
  <2>1. Events \in Seq(HistoryEvents) /\ buffer \in Seq(HistoryEvents)
    BY RestTyped DEF TurnInv
  <2> QED BY <2>1, LenProperties DEF TurnInv, TurnTypes
<1>1. Events' = Events
  BY FrameTypes DEF TurnInv
<1>2. mode' = "done" /\ ctx'.error = "none" => ~Draining' /\ pos' = Len(Events')
  <2>1. CASE EndTurn
    <3>1. ~Draining /\ ~(pos < Len(Events)) /\ UNCHANGED <<drain, pos>>
      BY <2>1 DEF EndTurn, HasEvent
    <3>2. pos = Len(Events)
      BY <1>0, <3>1
    <3>3. ~Draining'
      BY <3>1 DEF Draining
    <3> QED BY <1>1, <3>1, <3>2, <3>3
  <2>2. CASE ProcessEvent /\ ~EndTurn /\ ~OnEventRaised
    BY <2>2, ProcessTaken DEF FailsToEnd
  <2>3. CASE OnEventRaised
    <3>1. mode' = "resume" \/ mode' = mode
      BY <2>3 DEF OnEventRaised
    <3>2. mode = "event"
      BY <2>3 DEF OnEventRaised, On, AtEvent
    <3> QED BY <3>1, <3>2
  <2>4. CASE (Hop \/ RunProgram) /\ ~RunWaitNow
    BY <2>4, ProgramTaken DEF FailsToEnd
  <2>5. CASE RunWaitNow
    BY <2>5 DEF RunWaitNow, AtInstruction
  <2> QED BY <2>1, <2>2, <2>3, <2>4, <2>5
<1>3. /\ suspended' => ~Draining'
      /\ ~suspended' /\ ~Draining' => buffer' = <<>>
  <2>1. CASE BufferEvent
    BY <1>0, <2>1 DEF BufferEvent, Take, BufferInv, Draining
  <2>2. CASE OnSuspended
    <3>1. ~Draining
      <4> SUFFICES ASSUME Draining PROVE FALSE
        OBVIOUS
      <4>1. drain \in DOMAIN buffer /\ Current = buffer[drain]
        <5>1. drain \in 1 .. Len(buffer) /\ Current = buffer[drain]
          BY <1>0, <2>2 DEF OnSuspended, On, HasEvent, Current, Draining
        <5>2. DOMAIN buffer = 1 .. Len(buffer)
          BY RestTyped, LenProperties DEF TurnInv
        <5> QED BY <5>1, <5>2
      <4>2. Current.type = "executionSuspended"
        BY <2>2 DEF OnSuspended, On
      <4> QED BY <4>1, <4>2 DEF NoNestedSuspension
    <3>2. suspended' /\ drain' = drain
      BY <2>2, <3>1 DEF OnSuspended, On, Take
    <3> QED BY <3>1, <3>2 DEF Draining
  <2>3. CASE OnResumed
    <3>1. CASE suspended
      <4>1. ~suspended' /\ drain' = 1
        BY <2>3, <3>1 DEF OnResumed
      <4> QED BY <4>1 DEF Draining
    <3>2. CASE ~suspended
      <4>1. Take /\ UNCHANGED <<suspended, buffer>>
        BY <2>3, <3>2 DEF OnResumed
      <4> QED BY <1>0, <3>2, <4>1 DEF Take, BufferInv, Draining
    <3> QED BY <3>1, <3>2
  <2>4. CASE EndDrain
    BY <2>4 DEF EndDrain, Draining
  <2>5. CASE OnWorkflowStarted \/ OnExecutionStarted \/ OnConfirmed \/ OnUnexpected \/ OnCompleted
             \/ OnFailed \/ OnTimerFired \/ OnEventRaised \/ OnTerminated
    <3>1. Take /\ UNCHANGED <<suspended, buffer>>
      BY <2>5 DEF OnWorkflowStarted, OnExecutionStarted, OnConfirmed, OnUnexpected, OnCompleted,
         OnFailed, OnTimerFired, OnEventRaised, OnTerminated, On
    <3> QED BY <1>0, <3>1 DEF Take, BufferInv, Draining
  <2>6. CASE EndTurn \/ Hop \/ RunProgram
    <3>1. UNCHANGED <<suspended, buffer, drain>>
      BY <2>6 DEF EndTurn, Hop, RunProgram, StayYielded, ResumeGenerator, ResumeFinished,
         RunSchedule, RunWaitNow, RunWait, RunWaitBeforeUpgrade, RunCompose, RunYield,
         RunIfPatched, RunContinueAsNew, RunReturn
    <3> QED BY <3>1 DEF BufferInv, Draining
  <2> QED BY <2>1, <2>2, <2>3, <2>4, <2>5, <2>6 DEF ProcessEvent
<1> QED BY <1>2, <1>3 DEF BufferInv

(* A turn keeps what it was given.                                         *)
LEMMA TurnConserved ==
  ASSUME TurnInv, ConservedInv, NoNestedSuspension, Turn, UNCHANGED scene
  PROVE  ConservedInv'
<1>1. Frame /\ (ProcessEvent \/ Hop \/ RunProgram)
  BY DEF Turn, Frame
<1>2. BufferInv'
  BY <1>1, BufferStep DEF ConservedInv
<1>3. ASSUME NEW n \in Names PROVE Stored(n)' /\ Kept(n)'
  <2>1. Stored(n)'
    BY <1>1, StoredKept DEF ConservedInv
  <2>2. Kept(n)'
    BY <1>1, ProcessKept, ProgramKept DEF ConservedInv
  <2> QED BY <2>1, <2>2
<1> QED BY <1>2, <1>3 DEF ConservedInv

----------------------------------------------------------------------------
(* The steps of the sidecar and the clients.                               *)

\* No event of the turn is taken, if there is a turn at all.
Untouched ==
  /\ ctx = NewContext /\ pos = 0 /\ suspended = FALSE /\ buffer = <<>> /\ drain = 0
  /\ mode # "done"

LEMMA UntouchedConserved ==
  TurnInv /\ Untouched /\ (\A n \in Names : Stored(n)) => ConservedInv
<1> SUFFICES ASSUME TurnInv, Untouched, \A n \in Names : Stored(n) PROVE ConservedInv
  OBVIOUS
<1>1. BufferInv
  BY DEF BufferInv, Untouched, Draining
<1>2. ASSUME NEW n \in Names PROVE Kept(n)
  <2>1. PICK E \in Seq(HistoryEvents) : E = Events
    BY RestTyped DEF TurnInv
  <2>2. PICK I \in Seq(HistoryEvents) : I = inbox
    BY RestTyped DEF TurnInv
  <2>3. HeldBack = <<>>
    BY RestTyped, HeldBackAll DEF Untouched, TurnInv
  <2>4. Ahead = E
    <3>1. Ahead = SubSeq(E, 1, Len(E))
      BY <2>1 DEF Ahead, Untouched
    <3> QED BY <3>1, SubSeqFull
  <2>5. Rest = E \o I
    <3>1. <<>> \o E = E
      BY ConcatEmptySeq
    <3> QED BY <2>2, <2>3, <2>4, <3>1 DEF Rest
  <2>6. PICK a \in Seq(Nat) : a = last.before[n]
    BY TakenTyped
  <2>7. Taken(n) = a
    <3>1. ctx.got[n] = <<>> /\ ctx.recv[n] = <<>>
      BY DEF Untouched, NewContext
    <3>2. a \o <<>> = a
      BY ConcatEmptySeq
    <3> QED BY <2>6, <3>1, <3>2 DEF Taken
  <2> QED BY <2>1, <2>2, <2>5, <2>6, <2>7 DEF Kept, Stored
<1> QED BY <1>1, <1>2 DEF ConservedInv

LEMMA SidecarConserved ==
  ASSUME TurnInv', Untouched', \A n \in Names : Stored(n)'
  PROVE  ConservedInv'
<1>1. (TurnInv /\ Untouched /\ (\A n \in Names : Stored(n)) => ConservedInv)'
  BY UntouchedConserved, PTL
<1>2. TurnInv' /\ Untouched' /\ (\A n \in Names : Stored(n)') => ConservedInv'
  BY <1>1
<1> QED BY <1>2

(* What the sidecar stores of event n, in one list.                        *)
LEMMA StoredList ==
  ASSUME TurnInv, NEW n \in Names, Stored(n)
  PROVE  /\ IsCount(last.before[n]) /\ Events \o inbox \in Seq(HistoryEvents)
         /\ Carries(n, (hist \o batch) \o inbox, Len(last.before[n]), used.raised[n])
         /\ hist \in Seq(HistoryEvents) /\ batch \in Seq(HistoryEvents)
         /\ inbox \in Seq(HistoryEvents)
         /\ Len(last.before[n]) \in Nat /\ used.raised[n] \in Nat
<1>1. Events \in Seq(HistoryEvents) /\ inbox \in Seq(HistoryEvents)
  BY RestTyped DEF TurnInv
<1>2. Events \o inbox \in Seq(HistoryEvents)
  BY <1>1, ConcatProperties
<1>3. hist \in Seq(HistoryEvents) /\ batch \in Seq(HistoryEvents)
  BY DEF TurnInv, SidecarTypes
<1>4. Len(last.before[n]) \in Nat /\ used.raised[n] \in Nat
  BY TakenTyped
<1> QED BY <1>1, <1>2, <1>3, <1>4 DEF Stored, Events

LEMMA DispatchConserved ==
  ASSUME TurnInv, ConservedInv, Dispatch, UNCHANGED scene
  PROVE  ConservedInv'
<1>1. TurnInv'
  BY DispatchStep
<1>2. Untouched' /\ batch = <<>>
  BY DEF Dispatch, Idle, TurnInv, IdleInv, Untouched
<1>3. ASSUME NEW n \in Names PROVE Stored(n)'
  <2>1. PICK lo \in Nat : lo = Len(last.before[n])
    BY StoredList DEF ConservedInv
  <2>2. PICK hi \in Nat : hi = used.raised[n]
    BY StoredList DEF ConservedInv
  <2>3. PICK H \in Seq(HistoryEvents) : H = hist
    BY StoredList DEF ConservedInv
  <2>4. PICK I \in Seq(HistoryEvents) : I = inbox
    BY StoredList DEF ConservedInv
  <2>5. PICK e \in HistoryEvents : e = Event("workflowStarted", 0, "none", 0)
    <3>1. Event("workflowStarted", 0, "none", 0) \in HistoryEvents
      BY EventTyped DEF EventTypes, Labels
    <3> QED BY <3>1
  <2>6. ~IsRaised(n, e)
    BY <2>5 DEF IsRaised, Event
  <2>7. PICK f \in Seq(HistoryEvents) : f = <<e>>
    BY <2>6, SilentOne
  <2>8. Silent(n, f) /\ Silent(n, <<>>) /\ <<>> \in Seq(HistoryEvents)
    BY <2>6, <2>7, SilentOne, SilentEmpty
  <2>9. Carries(n, H \o <<>> \o I, lo, hi)
    BY <1>2, <2>1, <2>2, <2>3, <2>4, StoredList DEF ConservedInv
  <2>10. Carries(n, H \o f \o I, lo, hi)
    BY <2>8, <2>9, CarriesSpliced
  <2>11. Events' \o inbox' = H \o f \o I
    <3>1. Associates(H, f, I)
      BY ListsAssociate
    <3>2. Events' = H \o (f \o I) /\ inbox' = <<>>
      BY <2>3, <2>4, <2>5, <2>7 DEF Dispatch, Events
    <3>3. PICK w \in Seq(HistoryEvents) : w = (H \o f) \o I
      <4>1. H \o f \in Seq(HistoryEvents)
        BY ConcatProperties
      <4>2. (H \o f) \o I \in Seq(HistoryEvents)
        BY <4>1, ConcatProperties
      <4> QED BY <4>2
    <3>4. Events' = w
      BY <3>1, <3>2, <3>3 DEF Associates
    <3>5. w \o <<>> = w
      BY ConcatEmptySeq
    <3> QED BY <3>2, <3>3, <3>4, <3>5
  <2>12. UNCHANGED <<last, used>> /\ IsCount(last.before[n])
    BY DEF Dispatch, ConservedInv, Stored
  <2>13. IsCount(last'.before[n])
         /\ Carries(n, Events' \o inbox', Len(last'.before[n]), used'.raised[n])
    BY <2>1, <2>2, <2>10, <2>11, <2>12
  <2> QED BY <2>13 DEF Stored, IsCount, Carries, Raised
<1> QED BY <1>1, <1>2, <1>3, SidecarConserved

LEMMA LoseTurnConserved ==
  ASSUME TurnInv, ConservedInv, LoseTurn, UNCHANGED scene
  PROVE  ConservedInv'
<1>1. TurnInv'
  BY LoseTurnStep
<1>2. Untouched'
  BY DEF LoseTurn, NoTurn, Untouched
<1>3. ASSUME NEW n \in Names PROVE Stored(n)'
  <2>1. PICK lo \in Nat : lo = Len(last.before[n])
    BY StoredList DEF ConservedInv
  <2>2. PICK hi \in Nat : hi = used.raised[n]
    BY StoredList DEF ConservedInv
  <2>3. PICK H \in Seq(HistoryEvents) : H = hist
    BY StoredList DEF ConservedInv
  <2>4. PICK I \in Seq(HistoryEvents) : I = inbox
    BY StoredList DEF ConservedInv
  <2>5. PICK B \in Seq(HistoryEvents) : B = batch
    BY StoredList DEF ConservedInv
  <2>6. B # <<>> /\ B[1] = Event("workflowStarted", 0, "none", 0)
    BY <2>5 DEF LoseTurn, TurnInv, IdleInv
  <2>7. PICK T \in Seq(HistoryEvents) : T = Tail(B)
    BY <2>6, HeadTailProperties
  <2>8. PICK e \in HistoryEvents : e = Head(B)
    BY <2>6, HeadTailProperties
  <2>9. ~IsRaised(n, e)
    <3>1. e = Event("workflowStarted", 0, "none", 0)
      BY <2>6, <2>8
    <3> QED BY <3>1 DEF IsRaised, Event
  <2>10. PICK f \in Seq(HistoryEvents) : f = <<e>>
    BY <2>9, SilentOne
  <2>11. B = f \o T
    BY <2>6, <2>7, <2>8, <2>10, HeadAndTail
  <2>12. PICK R \in Seq(HistoryEvents) : R = T \o I
    <3>1. T \o I \in Seq(HistoryEvents)
      BY ConcatProperties
    <3> QED BY <3>1
  <2>13. Carries(n, H \o f \o R, lo, hi)
    <3>1. FourParts(H, f, T, I)
      BY ListsInParts
    <3>2. (H \o (f \o T)) \o I = (H \o f) \o (T \o I)
      BY <3>1 DEF FourParts
    <3>3. Carries(n, (H \o B) \o I, lo, hi)
      BY <2>1, <2>2, <2>3, <2>4, <2>5, StoredList DEF ConservedInv
    <3> QED BY <2>11, <2>12, <3>2, <3>3
  <2>14. Silent(n, f) /\ Silent(n, <<>>) /\ <<>> \in Seq(HistoryEvents)
    BY <2>9, <2>10, SilentOne, SilentEmpty
  <2>15. Carries(n, H \o <<>> \o R, lo, hi)
    BY <2>13, <2>14, CarriesSpliced
  <2>16. Events' \o inbox' = H \o <<>> \o R
    <3>1. hist' = H /\ batch' = <<>> /\ inbox' = R
      BY <2>3, <2>4, <2>5, <2>7, <2>12 DEF LoseTurn
    <3> QED BY <3>1 DEF Events
  <2>17. last' = last /\ used'.raised = used.raised /\ IsCount(last.before[n])
    <3>1. used \in Counters /\ used' = [used EXCEPT !.lost = @ + 1] /\ last' = last
      BY DEF LoseTurn, TurnInv, SidecarTypes
    <3> QED BY <3>1 DEF Counters, ConservedInv, Stored
  <2>18. IsCount(last'.before[n])
         /\ Carries(n, Events' \o inbox', Len(last'.before[n]), used'.raised[n])
    BY <2>1, <2>2, <2>15, <2>16, <2>17
  <2> QED BY <2>18 DEF Stored, IsCount, Carries, Raised
<1> QED BY <1>1, <1>2, <1>3, SidecarConserved

(* One more event in the inbox, between two turns.                         *)
LEMMA AppendedConserved ==
  ASSUME TurnInv, ConservedInv, TurnInv', NEW e \in HistoryEvents,
         mode = "idle", UNCHANGED <<turnVars, hist, batch, last>>, inbox' = Append(inbox, e),
         \A n \in Names :
           IF IsRaised(n, e)
           THEN e.val = used.raised[n] + 1 /\ used'.raised[n] = used.raised[n] + 1
           ELSE used'.raised[n] = used.raised[n]
  PROVE  ConservedInv'
<1>1. Untouched'
  BY DEF TurnInv, IdleInv, Untouched, turnVars
<1>2. ASSUME NEW n \in Names PROVE Stored(n)'
  <2>1. PICK lo \in Nat : lo = Len(last.before[n])
    BY StoredList DEF ConservedInv
  <2>2. PICK hi \in Nat : hi = used.raised[n]
    BY StoredList DEF ConservedInv
  <2>3. PICK E \in Seq(HistoryEvents) : E = Events
    BY RestTyped DEF TurnInv
  <2>4. PICK I \in Seq(HistoryEvents) : I = inbox
    BY RestTyped DEF TurnInv
  <2>5. <<e>> \in Seq(HistoryEvents) /\ <<>> \in Seq(HistoryEvents)
    OBVIOUS
  <2>6. PICK f \in Seq(HistoryEvents) : f = <<e>>
    BY <2>5
  <2>7. PICK W \in Seq(HistoryEvents) : W = E \o I
    <3>1. E \o I \in Seq(HistoryEvents)
      BY ConcatProperties
    <3> QED BY <3>1
  <2>8. Carries(n, W, lo, hi) /\ IsCount(last.before[n])
    BY <2>1, <2>2, <2>3, <2>4, <2>7 DEF ConservedInv, Stored
  <2>9. Events' \o inbox' = W \o f
    <3>1. Events' = E
      BY <2>3 DEF Events
    <3>2. Append(I, e) = I \o f
      BY <2>6, AppendIsConcat
    <3>3. inbox' = I \o f
      BY <2>4, <3>2
    <3>4. Associates(E, I, f)
      BY ListsAssociate
    <3> QED BY <2>7, <3>1, <3>3, <3>4 DEF Associates
  <2>10. PICK new \in Nat : new = used'.raised[n] /\ Carries(n, W \o f, lo, new)
    <3>1. CASE IsRaised(n, e)
      <4>1. e.val = hi + 1 /\ used'.raised[n] = hi + 1 /\ hi + 1 \in Nat
        BY <2>2, <3>1
      <4>2. Carries(n, f, hi, hi + 1)
        BY <2>6, <3>1, <4>1, CarriesOne
      <4>3. Carries(n, W \o f, lo, hi + 1)
        BY <2>8, <4>1, <4>2, CarriesJoined
      <4> QED BY <4>1, <4>3
    <3>2. CASE ~IsRaised(n, e)
      <4>1. Silent(n, f) /\ Silent(n, <<>>)
        BY <2>6, <3>2, SilentOne, SilentEmpty
      <4>2. W \o <<>> = W /\ W \o <<>> \o <<>> = W
        BY ConcatEmptySeq
      <4>3. Carries(n, W \o <<>> \o <<>>, lo, hi)
        BY <2>8, <4>2
      <4>4. Carries(n, W \o f \o <<>>, lo, hi)
        BY <2>5, <4>1, <4>3, CarriesSpliced
      <4>5. W \o f \in Seq(HistoryEvents)
        BY ConcatProperties
      <4>6. W \o f \o <<>> = W \o f
        BY <4>5, ConcatEmptySeq
      <4>7. used'.raised[n] = hi
        BY <2>2, <3>2
      <4> QED BY <4>4, <4>6, <4>7
    <3> QED BY <3>1, <3>2
  <2>11. last' = last
    OBVIOUS
  <2>12. IsCount(last'.before[n])
         /\ Carries(n, Events' \o inbox', Len(last'.before[n]), used'.raised[n])
    BY <2>1, <2>8, <2>9, <2>10, <2>11
  <2> QED BY <2>12 DEF Stored, IsCount, Carries, Raised
<1> QED BY <1>1, <1>2, SidecarConserved

LEMMA DeliverConserved ==
  ASSUME TurnInv, ConservedInv, TurnInv', NEW a, NEW u \in Counters, NEW type \in EventTypes,
         type # "eventRaised", NEW name \in Labels, NEW val \in Nat, a.id \in Nat,
         u.raised = used.raised, Deliver(a, Event(type, a.id, name, val), u)
  PROVE  ConservedInv'
<1>1. PICK e \in HistoryEvents : e = Event(type, a.id, name, val)
  BY EventTyped
<1>2. \A n : ~IsRaised(n, e)
  BY <1>1 DEF IsRaised, Event
<1>3. /\ mode = "idle" /\ UNCHANGED <<turnVars, hist, batch, last>>
      /\ inbox' = Append(inbox, e)
  BY <1>1 DEF Deliver, Between, Idle
<1>4. used'.raised = used.raised
  BY DEF Deliver, Counters
<1> QED BY <1>2, <1>3, <1>4, AppendedConserved

LEMMA OutcomeConserved ==
  ASSUME TurnInv, ConservedInv, Outcome, UNCHANGED scene
  PROVE  ConservedInv'
<1>0. TurnInv'
  BY OutcomeKeeps
<1>1. used \in Counters /\ \A a \in out : a.id \in Nat
  BY DEF TurnInv, SidecarTypes, Actions
<1>2. CASE WorkDone
  <2>1. PICK a \in out, type \in EventTypes :
          type # "eventRaised" /\ Deliver(a, Event(type, a.id, "none", a.id), used)
    BY <1>2 DEF WorkDone, EventTypes
  <2>2. "none" \in Labels
    BY DEF Labels
  <2> QED BY <1>0, <1>1, <2>1, <2>2, DeliverConserved
<1>3. CASE WorkFailed
  <2>1. PICK a \in out, how \in {"soft", "fatal"}, type \in EventTypes :
          type # "eventRaised"
          /\ Deliver(a, Event(type, a.id, how, 0), [used EXCEPT !.failed = @ + 1])
    BY <1>3 DEF WorkFailed, EventTypes
  <2>2. how \in Labels
    BY DEF Labels
  <2>3. PICK u \in Counters : u = [used EXCEPT !.failed = @ + 1]
    BY <1>1, CountersUp
  <2>4. u.raised = used.raised
    BY <1>1, <2>3 DEF Counters
  <2> QED BY <1>0, <1>1, <2>1, <2>2, <2>3, <2>4, DeliverConserved
<1>4. CASE TimerFires
  <2>1. PICK a \in out : Deliver(a, Event("timerFired", a.id, "none", 0), used)
    BY <1>4 DEF TimerFires
  <2>2. "none" \in Labels /\ "timerFired" \in EventTypes
    BY DEF Labels, EventTypes
  <2> QED BY <1>0, <1>1, <2>1, <2>2, DeliverConserved
<1> QED BY <1>2, <1>3, <1>4 DEF Outcome

LEMMA ClientConserved ==
  ASSUME TurnInv, ConservedInv, Client, UNCHANGED scene
  PROVE  ConservedInv'
<1>0. TurnInv' /\ used \in Counters
  BY ClientKeeps DEF TurnInv, SidecarTypes
<1>1. CASE RaiseEvent
  <2>1. PICK m \in Names :
          Request(Event("eventRaised", 0, m, used.raised[m] + 1),
                  [used EXCEPT !.raised[m] = @ + 1])
    BY <1>1 DEF RaiseEvent
  <2>2. m \in Labels /\ used.raised[m] + 1 \in Nat /\ used.raised \in [Names -> Nat]
    BY <1>0, OrchestratorAssumption DEF Counters, Labels
  <2>3. PICK e \in HistoryEvents : e = Event("eventRaised", 0, m, used.raised[m] + 1)
    BY <2>2, EventTyped DEF EventTypes
  <2>4. /\ mode = "idle" /\ UNCHANGED <<turnVars, hist, batch, last>>
        /\ inbox' = Append(inbox, e)
    BY <2>1, <2>3 DEF Request, Between, Idle
  <2>5. used'.raised = [used.raised EXCEPT ![m] = @ + 1]
    BY <1>0, <2>1 DEF Request, Counters
  <2>6. ASSUME NEW n \in Names
        PROVE  IF IsRaised(n, e)
               THEN e.val = used.raised[n] + 1 /\ used'.raised[n] = used.raised[n] + 1
               ELSE used'.raised[n] = used.raised[n]
    <3>1. IsRaised(n, e) <=> n = m
      BY <2>3 DEF IsRaised, Event
    <3>2. e.val = used.raised[m] + 1
      BY <2>3 DEF Event
    <3> QED BY <2>2, <2>5, <3>1, <3>2
  <2> QED BY <1>0, <2>4, <2>6, AppendedConserved
<1>2. CASE SuspendRequested \/ ResumeRequested \/ TerminateRequested
  <2>1. PICK type, u :
          /\ type \in EventTypes
          /\ type # "eventRaised" /\ Request(Event(type, 0, "none", 0), u)
          /\ u.raised = used.raised
    BY <1>0, <1>2 DEF SuspendRequested, ResumeRequested, TerminateRequested, EventTypes, Counters
  <2>2. PICK e \in HistoryEvents : e = Event(type, 0, "none", 0)
    <3>1. "none" \in Labels
      BY DEF Labels
    <3>2. type \in EventTypes /\ type # "eventRaised"
      BY <2>1
    <3> QED BY <3>1, <3>2, EventTyped
  <2>3. \A n : ~IsRaised(n, e)
    BY <2>1, <2>2 DEF IsRaised, Event
  <2>4. /\ mode = "idle" /\ UNCHANGED <<turnVars, hist, batch, last>>
        /\ inbox' = Append(inbox, e) /\ used' = u
    BY <2>1, <2>2 DEF Request, Between, Idle
  <2> QED BY <1>0, <2>1, <2>3, <2>4, AppendedConserved
<1> QED BY <1>1, <1>2 DEF Client

(* The confirmations of the actions of a turn.                             *)
LEMMA ConfirmationsSilent ==
  ASSUME TurnInv, NEW order \in ById(Scheduling)
  PROVE  LET s == [i \in DOMAIN order |-> Confirmation(order[i])]
         IN s \in Seq(HistoryEvents) /\ \A n : Silent(n, s)
<1>1. Cardinality(Scheduling) \in Nat
  BY SchedulingTyped, ActionSetFacts, FS_CardinalityType
<1>2. order \in [1 .. Cardinality(Scheduling) -> Scheduling]
  BY DEF ById
<1>3. PICK N \in Nat : N = Cardinality(Scheduling)
  BY <1>1
<1>4. DOMAIN order = 1 .. N /\ \A i \in 1 .. N : order[i] \in Scheduling
  BY <1>2, <1>3
<1>5. ASSUME NEW i \in 1 .. N
      PROVE  /\ Confirmation(order[i]) \in HistoryEvents
             /\ Confirmation(order[i]).type # "eventRaised"
  BY <1>4, SchedulingTyped, ConfirmationTyped
<1>6. PICK s : s = [i \in DOMAIN order |-> Confirmation(order[i])]
  OBVIOUS
<1>7. s \in [1 .. N -> HistoryEvents] /\ \A i \in 1 .. N : s[i].type # "eventRaised"
  BY <1>4, <1>5, <1>6
<1>8. s \in Seq(HistoryEvents)
  BY <1>7
<1>9. \A n : Silent(n, s)
  BY <1>7 DEF Silent, IsRaised
<1> QED BY <1>6, <1>8, <1>9

LEMMA CommitTurnConserved ==
  ASSUME TurnInv, ConservedInv, CommitTurn, UNCHANGED scene
  PROVE  ConservedInv'
<1>1. TurnInv'
  BY CommitTurnStep
<1>2. Untouched'
  BY DEF CommitTurn, NoTurn, Untouched
<1>3. PICK C \in Seq(HistoryEvents) : (\A n : Silent(n, C)) /\ hist' = hist \o Recorded \o C
  <2>1. PICK order \in ById(Scheduling) :
          hist' = hist \o Recorded \o [i \in DOMAIN order |-> Confirmation(order[i])]
    BY DEF CommitTurn
  <2> QED BY <2>1, ConfirmationsSilent
<1>4. ASSUME NEW n \in Names PROVE Stored(n)'
  <2>1. PICK lo \in Nat : lo = Len(last.before[n])
    BY StoredList DEF ConservedInv
  <2>2. PICK hi \in Nat : hi = used.raised[n]
    BY StoredList DEF ConservedInv
  <2>3. PICK H \in Seq(HistoryEvents) : H = hist
    BY StoredList DEF ConservedInv
  <2>4. PICK I \in Seq(HistoryEvents) : I = inbox
    BY StoredList DEF ConservedInv
  <2>5. PICK B \in Seq(HistoryEvents) : B = batch
    BY StoredList DEF ConservedInv
  <2>6. PICK R \in Seq(HistoryEvents) : R = Recorded
    BY RecordedTyped
  <2>7. /\ Len(R) = Len(B)
        /\ \A i \in 1 .. Len(B) : /\ R[i].type = B[i].type /\ R[i].name = B[i].name
                                  /\ R[i].val = B[i].val
    <3>1. DOMAIN B = 1 .. Len(B)
      BY LenProperties
    <3> QED BY <2>5, <2>6, <3>1, RecordedTyped
  <2>8. PICK s \in Seq(HistoryEvents) : s = H \o B \o I /\ Joined(s, H, B, I)
    BY ThreeParts
  <2>9. PICK t \in Seq(HistoryEvents) : t = H \o R \o I /\ Joined(t, H, R, I)
    BY ThreeParts
  <2>10. Carries(n, s, lo, hi)
    BY <2>1, <2>2, <2>3, <2>4, <2>5, <2>8, StoredList DEF ConservedInv
  <2>a. PICK h \in Nat : h = Len(H)
    BY LenProperties
  <2>b. PICK b \in Nat : b = Len(B)
    BY LenProperties
  <2>c. PICK k \in Nat : k = Len(I)
    BY LenProperties
  <2>11. Len(s) = h + b + k /\ Len(t) = h + b + k
    BY <2>7, <2>8, <2>9, <2>a, <2>b, <2>c DEF Joined
  <2>12. ASSUME NEW i \in 1 .. h + b + k
         PROVE  t[i].type = s[i].type /\ t[i].name = s[i].name /\ t[i].val = s[i].val
    <3>1. CASE i \in 1 .. h
      BY <2>8, <2>9, <2>a, <3>1 DEF Joined
    <3>2. CASE i \in h + 1 .. h + b
      <4>1. PICK j \in 1 .. b : i = h + j
        <5>1. i - h \in 1 .. b /\ i = h + (i - h)
          BY <3>2
        <5> QED BY <5>1
      <4>2. s[h + j] = B[j] /\ t[h + j] = R[j]
        BY <2>7, <2>8, <2>9, <2>a, <2>b DEF Joined
      <4> QED BY <2>7, <2>b, <4>1, <4>2
    <3>3. CASE i \in h + b + 1 .. h + b + k
      <4>1. PICK j \in 1 .. k : i = h + b + j
        <5>1. i - h - b \in 1 .. k /\ i = h + b + (i - h - b)
          BY <3>3
        <5> QED BY <5>1
      <4>2. s[h + b + j] = I[j] /\ t[h + b + j] = I[j]
        BY <2>7, <2>8, <2>9, <2>a, <2>b, <2>c DEF Joined
      <4> QED BY <4>1, <4>2
    <3>4. i \in 1 .. h \/ i \in h + 1 .. h + b \/ i \in h + b + 1 .. h + b + k
      OBVIOUS
    <3> QED BY <3>1, <3>2, <3>3, <3>4
  <2>13. Carries(n, t, lo, hi)
    <3>1. DOMAIN s = 1 .. h + b + k
      BY <2>11, LenProperties
    <3>2. \A i \in DOMAIN s : t[i].type = s[i].type /\ t[i].name = s[i].name /\ t[i].val = s[i].val
      BY <2>12, <3>1
    <3> QED BY <2>10, <2>11, <3>2, CarriesReplaced
  <2>14. PICK G \in Seq(HistoryEvents) : G = H \o R
    <3>1. H \o R \in Seq(HistoryEvents)
      BY ConcatProperties
    <3> QED BY <3>1
  <2>15. Carries(n, G \o <<>> \o I, lo, hi)
    BY <2>9, <2>13, <2>14, NothingBetween
  <2>16. Silent(n, C) /\ Silent(n, <<>>) /\ <<>> \in Seq(HistoryEvents)
    BY <1>3, SilentEmpty
  <2>17. Carries(n, G \o C \o I, lo, hi)
    BY <2>15, <2>16, CarriesSpliced
  <2>18. Events' \o inbox' = G \o C \o I
    <3>1. hist' = G \o C /\ batch' = <<>> /\ inbox' = I
      BY <1>3, <2>3, <2>4, <2>6, <2>14 DEF CommitTurn
    <3>2. G \o C \in Seq(HistoryEvents)
      BY ConcatProperties
    <3>3. (G \o C) \o <<>> = G \o C
      BY <3>2, ConcatEmptySeq
    <3> QED BY <3>1, <3>3 DEF Events
  <2>19. last'.before = last.before /\ used' = used /\ IsCount(last.before[n])
    <3>1. last \in [snap: Seq(Snapshots), before: [Names -> Seq(Nat)]]
      BY DEF TurnInv, SidecarTypes
    <3>2. PICK x : last' = [last EXCEPT !.snap = x]
      BY DEF CommitTurn
    <3> QED BY <3>1, <3>2 DEF CommitTurn, ConservedInv, Stored
  <2>20. IsCount(last'.before[n])
         /\ Carries(n, Events' \o inbox', Len(last'.before[n]), used'.raised[n])
    BY <2>1, <2>2, <2>17, <2>18, <2>19
  <2> QED BY <2>20 DEF Stored, IsCount, Carries, Raised
<1> QED BY <1>1, <1>2, <1>4, SidecarConserved

----------------------------------------------------------------------------
(* continue_as_new.                                                        *)

(* The events carried over are those that were received and not waited     *)
(* for, in the order of their arrival.                                     *)
LEMMA CarryoverCarries ==
  ASSUME NoFalsyPayload, NEW c \in Contexts, c.save, NEW s \in InOrder(CarriedOver(c)),
         NEW n \in Names, NEW lo \in Nat,
         \A i \in DOMAIN c.recv[n] : c.recv[n][i] = lo + i
  PROVE  Carries(n, [i \in DOMAIN s |-> Event("eventRaised", 0, s[i].name, s[i].val)],
                 lo, lo + Len(c.recv[n]))
<1>1. PICK r \in Seq(Nat) : r = c.recv[n]
  BY ContextTypes
<1>2. PICK m \in Nat : m = Len(r)
  BY LenProperties
<1>3. DOMAIN r = 1 .. m /\ \A i \in 1 .. m : r[i] = lo + i
  BY <1>1, <1>2, LenProperties
<1>4. Carryover(c, n) = r
  <2>1. Carryover(c, n) = [i \in DOMAIN r |-> IF r[i] \in scene.falsy THEN 0 ELSE r[i]]
    BY <1>1 DEF Carryover
  <2>2. r = [i \in DOMAIN r |-> r[i]]
    OBVIOUS
  <2> QED BY <2>1, <2>2 DEF NoFalsyPayload
<1>5. PICK t \in Seq(HistoryEvents) :
        t = [i \in DOMAIN s |-> Event("eventRaised", 0, s[i].name, s[i].val)]
  BY CarriedEvents
<1>6. DOMAIN t = DOMAIN s /\ DOMAIN s \subseteq Nat /\ Members(s) = CarriedOver(c)
  BY <1>5, CarriedEvents
<1>7. \A i \in DOMAIN s : t[i].type = "eventRaised" /\ t[i].name = s[i].name /\ t[i].val = s[i].val
  BY <1>5 DEF Event
<1>8. \A i : i \in Raised(n, t) <=> i \in DOMAIN s /\ s[i].name = n
  BY <1>6, <1>7 DEF Raised
<1>9. ASSUME NEW i \in DOMAIN s, s[i].name = n
      PROVE  s[i].at \in 1 .. m /\ s[i].val = lo + s[i].at
  <2>1. s[i] \in CarriedOver(c)
    BY <1>6 DEF Members
  <2>2. PICK k \in Names : \E j \in DOMAIN Carryover(c, k) :
          s[i] = [name |-> k, at |-> j, val |-> Carryover(c, k)[j]]
    BY <2>1 DEF CarriedOver
  <2>3. k = n
    BY <1>9, <2>2
  <2>4. PICK j \in DOMAIN r : s[i] = [name |-> n, at |-> j, val |-> r[j]]
    BY <1>4, <2>2, <2>3
  <2> QED BY <1>3, <2>4
<1>10. ASSUME NEW j \in 1 .. m PROVE \E i \in DOMAIN s : s[i].name = n /\ s[i].val = lo + j
  <2>1. PICK x : x = [name |-> n, at |-> j, val |-> r[j]]
    OBVIOUS
  <2>2. x \in CarriedOver(c)
    BY <1>3, <1>4, <2>1 DEF CarriedOver
  <2>3. PICK i \in DOMAIN s : s[i] = x
    BY <1>6, <2>2 DEF Members
  <2> QED BY <1>3, <2>1, <2>3
<1>11. {t[i].val : i \in Raised(n, t)} = lo + 1 .. lo + m
  <2>1. ASSUME NEW i \in Raised(n, t) PROVE t[i].val \in lo + 1 .. lo + m
    <3>1. i \in DOMAIN s /\ s[i].name = n
      BY <1>8
    <3>2. PICK a \in 1 .. m : t[i].val = lo + a
      BY <1>7, <1>9, <3>1, ZenonT(60)
    <3> QED BY <3>2
  <2>2. ASSUME NEW v \in lo + 1 .. lo + m PROVE \E i \in Raised(n, t) : t[i].val = v
    <3>1. PICK j \in 1 .. m : v = lo + j
      <4>1. v - lo \in 1 .. m /\ v = lo + (v - lo)
        OBVIOUS
      <4> QED BY <4>1
    <3>2. PICK i \in DOMAIN s : s[i].name = n /\ s[i].val = lo + j
      BY <1>10, ZenonT(60)
    <3>3. i \in Raised(n, t) /\ t[i].val = s[i].val
      BY <1>7, <1>8, <3>2
    <3> QED BY <3>1, <3>2, <3>3
  <2> QED BY <2>1, <2>2
<1>12. ASSUME NEW i \in Raised(n, t), NEW j \in Raised(n, t), i < j PROVE t[i].val < t[j].val
  <2>1. i \in DOMAIN s /\ j \in DOMAIN s /\ s[i].name = n /\ s[j].name = n
    BY <1>8
  <2>2. s[i].at < s[j].at
    BY <1>12, <2>1 DEF InOrder
  <2>3. PICK a \in 1 .. m : a = s[i].at /\ t[i].val = lo + a
    BY <1>7, <1>9, <2>1
  <2>4. PICK b \in 1 .. m : b = s[j].at /\ t[j].val = lo + b
    BY <1>7, <1>9, <2>1
  <2>5. a < b
    BY <2>2, <2>3, <2>4
  <2>6. lo + a < lo + b
    BY <2>5
  <2> QED BY <2>3, <2>4, <2>6
<1>13. lo <= lo + m
  OBVIOUS
<1>14. Carries(n, t, lo, lo + m)
  BY <1>11, <1>12, <1>13 DEF Carries
<1> QED BY <1>1, <1>2, <1>5, <1>14

(* Without save_events no event is carried over.                           *)
LEMMA NothingCarried ==
  ASSUME NEW c \in Contexts, ~c.save, NEW s \in InOrder(CarriedOver(c)), NEW n
  PROVE  Silent(n, [i \in DOMAIN s |-> Event("eventRaised", 0, s[i].name, s[i].val)])
<1>1. CarriedOver(c) = {}
  BY DEF CarriedOver, Carryover
<1>2. Members(s) = CarriedOver(c)
  BY CarriedEvents
<1>3. DOMAIN s = {}
  BY <1>1, <1>2 DEF Members
<1> QED BY <1>3 DEF Silent

(* A turn that continues as new took all its events, and holds none back.  *)
LEMMA ContinuedTookAll ==
  ASSUME TurnInv, ConservedInv, Undisturbed, mode = "done", ctx.status = "continued",
         NEW n \in Names
  PROVE  Carries(n, inbox, Len(Taken(n)), used.raised[n])
<1>1. PICK lo \in Nat : lo = Len(Taken(n))
  BY TakenTyped
<1>2. PICK hi \in Nat : hi = used.raised[n]
  BY TakenTyped
<1>3. /\ ctx.error = "none" /\ ~Draining /\ pos = Len(Events)
      /\ \A i \in DOMAIN buffer : buffer[i].type # "eventRaised"
  BY DEF Undisturbed, ContinuesCleanly, ConservedInv, BufferInv
<1>4. PICK B \in Seq(HistoryEvents) : B = buffer
  BY RestTyped DEF TurnInv
<1>5. PICK I \in Seq(HistoryEvents) : I = inbox
  BY RestTyped DEF TurnInv
<1>6. HeldBack = B
  <2>1. drain = 0
    BY <1>3 DEF Draining, TurnInv, TurnTypes
  <2> QED BY <1>4, <2>1, HeldBackAll
<1>7. Ahead = <<>>
  <2>1. PICK E \in Seq(HistoryEvents) : E = Events
    BY RestTyped DEF TurnInv
  <2>2. PICK L \in Nat : L = Len(E)
    BY LenProperties
  <2>3. Ahead = SubSeq(E, L + 1, L)
    BY <1>3, <2>1, <2>2 DEF Ahead
  <2>4. Len(SubSeq(E, L + 1, L)) = 0
    <3>1. L + 1 \in Int /\ L \in Int /\ L + 1 .. L = {} /\ ~(L + 1 <= L)
      OBVIOUS
    <3>2. \A i \in L + 1 .. L : E[i] \in HistoryEvents
      BY <3>1
    <3>3. Len(SubSeq(E, L + 1, L)) = IF L + 1 <= L THEN L - (L + 1) + 1 ELSE 0
      BY <3>1, <3>2, SubSeqProperties
    <3> QED BY <3>1, <3>3
  <2>5. Ahead \in Seq(HistoryEvents)
    BY RestTyped DEF TurnInv
  <2> QED BY <2>3, <2>4, <2>5, EmptySeq
<1>8. Rest = <<>> \o B \o I
  <2>1. B \o <<>> = B /\ <<>> \o B = B
    BY ConcatEmptySeq
  <2> QED BY <1>5, <1>6, <1>7, <2>1 DEF Rest
<1>9. Carries(n, <<>> \o B \o I, lo, hi)
  BY <1>1, <1>2, <1>8 DEF ConservedInv, Kept
<1>10. Silent(n, B) /\ Silent(n, <<>>) /\ <<>> \in Seq(HistoryEvents)
  BY <1>3, <1>4, SilentEmpty DEF Silent, IsRaised
<1>11. Carries(n, <<>> \o <<>> \o I, lo, hi)
  BY <1>9, <1>10, CarriesSpliced
<1>12. <<>> \o <<>> \o I = I
  <2>1. <<>> \o <<>> = <<>> /\ <<>> \o I = I
    BY <1>10, ConcatEmptySeq
  <2> QED BY <2>1
<1> QED BY <1>1, <1>2, <1>5, <1>11, <1>12

LEMMA CommitContinuedConserved ==
  ASSUME TurnInv, ConservedInv, Undisturbed, CommitContinued, UNCHANGED scene
  PROVE  ConservedInv'
<1>1. TurnInv'
  BY CommitContinuedStep
<1>2. Untouched'
  BY DEF CommitContinued, NoTurn, Untouched
<1>3. ctx \in Contexts /\ mode = "done" /\ ctx.status = "continued" /\ NoFalsyPayload
  BY DEF TurnInv, TurnTypes, CommitContinued, Undisturbed
<1>4. PICK s \in InOrder(CarriedOver(ctx)) :
        inbox' = <<Event("executionStarted", 0, "none", 0)>>
                 \o [i \in DOMAIN s |-> Event("eventRaised", 0, s[i].name, s[i].val)]
                 \o inbox
  BY DEF CommitContinued
<1>5. PICK e \in HistoryEvents : e = Event("executionStarted", 0, "none", 0)
  <2>1. Event("executionStarted", 0, "none", 0) \in HistoryEvents
    BY EventTyped DEF EventTypes, Labels
  <2> QED BY <2>1
<1>6. PICK t \in Seq(HistoryEvents) :
        t = [i \in DOMAIN s |-> Event("eventRaised", 0, s[i].name, s[i].val)]
  BY <1>3, CarriedEvents
<1>7. \A n : ~IsRaised(n, e)
  BY <1>5 DEF IsRaised, Event
<1>8. PICK f \in Seq(HistoryEvents) : f = <<e>>
  <2>1. <<e>> \in Seq(HistoryEvents)
    OBVIOUS
  <2> QED BY <2>1
<1>9. PICK I \in Seq(HistoryEvents) : I = inbox
  BY RestTyped DEF TurnInv
<1>10. <<>> \in Seq(HistoryEvents)
  OBVIOUS
<1>11. Events' \o inbox' = f \o t \o I
  <2>1. inbox' = f \o t \o I /\ hist' = <<>> /\ batch' = <<>>
    BY <1>4, <1>5, <1>6, <1>8, <1>9 DEF CommitContinued
  <2>2. PICK w \in Seq(HistoryEvents) : w = f \o t \o I
    <3>1. f \o t \in Seq(HistoryEvents)
      BY ConcatProperties
    <3>2. f \o t \o I \in Seq(HistoryEvents)
      BY <3>1, ConcatProperties
    <3> QED BY <3>2
  <2>3. <<>> \o <<>> = <<>> /\ <<>> \o w = w
    BY <1>10, ConcatEmptySeq
  <2> QED BY <2>1, <2>2, <2>3 DEF Events
<1>12. ASSUME NEW n \in Names PROVE Stored(n)'
  <2>1. PICK hi \in Nat : hi = used.raised[n]
    BY TakenTyped
  <2>2. PICK x \in Seq(Nat) : x = last.before[n] \o ctx.got[n]
    BY TakenTyped
  <2>3. PICK r \in Seq(Nat) : r = ctx.recv[n]
    BY TakenTyped
  <2>4. PICK T \in Seq(Nat) : T = Taken(n) /\ T = x \o r
    BY <2>2, <2>3, TakenTyped DEF Taken
  <2>5. IsCount(T) /\ Carries(n, I, Len(T), hi)
    BY <1>3, <1>9, <2>1, <2>4, ContinuedTookAll DEF ConservedInv, Kept
  <2>6. used'.raised[n] = hi
    <3>1. used \in Counters /\ used' = [used EXCEPT !.gen = @ + 1]
      BY DEF CommitContinued, TurnInv, SidecarTypes
    <3> QED BY <2>1, <3>1 DEF Counters
  <2>7. last'.before[n] = IF ctx.save THEN x ELSE T
    <3>1. last'.before[n] = last.before[n] \o ctx.got[n] \o IF ctx.save THEN <<>> ELSE ctx.recv[n]
      BY DEF CommitContinued
    <3>2. x \o <<>> = x
      BY ConcatEmptySeq
    <3> QED BY <2>2, <2>3, <2>4, <3>1, <3>2
  <2>8. Silent(n, f) /\ Silent(n, <<>>)
    BY <1>7, <1>8, SilentOne, SilentEmpty
  <2>9. CASE ctx.save
    <3>1. PICK lo \in Nat : lo = Len(x)
      BY LenProperties
    <3>2. IsCount(x) /\ \A i \in DOMAIN r : r[i] = lo + i
      BY <2>4, <2>5, <3>1, CountParts
    <3>3. Carries(n, t, lo, lo + Len(r))
      BY <1>3, <1>6, <2>3, <2>9, <3>2, CarryoverCarries
    <3>4. PICK mid \in Nat : mid = Len(T) /\ mid = lo + Len(r)
      <4>1. Len(x \o r) = Len(x) + Len(r) /\ Len(T) \in Nat
        BY ConcatProperties, LenProperties
      <4> QED BY <2>4, <3>1, <4>1
    <3>5. Carries(n, t \o I, lo, hi)
      BY <2>5, <3>3, <3>4, CarriesJoined
    <3>6. PICK u \in Seq(HistoryEvents) : u = t \o I
      <4>1. t \o I \in Seq(HistoryEvents)
        BY ConcatProperties
      <4> QED BY <4>1
    <3>7. Carries(n, <<>> \o <<>> \o u, lo, hi)
      <4>1. <<>> \o <<>> = <<>> /\ <<>> \o u = u
        BY <1>10, ConcatEmptySeq
      <4> QED BY <3>5, <3>6, <4>1
    <3>8. Carries(n, <<>> \o f \o u, lo, hi)
      BY <1>10, <2>8, <3>7, CarriesSpliced
    <3>9. <<>> \o f \o u = f \o t \o I
      <4>1. Associates(f, t, I)
        BY ListsAssociate
      <4>2. <<>> \o f = f
        BY ConcatEmptySeq
      <4> QED BY <3>6, <4>1, <4>2 DEF Associates
    <3>10. IsCount(last'.before[n])
           /\ Carries(n, Events' \o inbox', Len(last'.before[n]), used'.raised[n])
      BY <1>11, <2>6, <2>7, <2>9, <3>1, <3>2, <3>8, <3>9
    <3> QED BY <3>10 DEF Stored, IsCount, Carries, Raised
  <2>10. CASE ~ctx.save
    <3>1. PICK lo \in Nat : lo = Len(T)
      BY LenProperties
    <3>2. Silent(n, t)
      BY <1>3, <1>6, <2>10, NothingCarried
    <3>3. Carries(n, <<>> \o <<>> \o I, lo, hi)
      <4>1. <<>> \o <<>> = <<>> /\ <<>> \o I = I
        BY <1>10, ConcatEmptySeq
      <4> QED BY <2>5, <3>1, <4>1
    <3>4. Carries(n, <<>> \o f \o I, lo, hi)
      BY <1>10, <2>8, <3>3, CarriesSpliced
    <3>5. <<>> \o f = f /\ f \o <<>> = f
      BY ConcatEmptySeq
    <3>6. Carries(n, f \o <<>> \o I, lo, hi)
      BY <3>4, <3>5
    <3>7. Carries(n, f \o t \o I, lo, hi)
      BY <1>10, <2>8, <3>2, <3>6, CarriesSpliced
    <3>8. IsCount(last'.before[n])
          /\ Carries(n, Events' \o inbox', Len(last'.before[n]), used'.raised[n])
      BY <1>11, <2>5, <2>6, <2>7, <2>10, <3>1, <3>7
    <3> QED BY <3>8 DEF Stored, IsCount, Carries, Raised
  <2> QED BY <2>9, <2>10
<1> QED BY <1>1, <1>2, <1>12, SidecarConserved

LEMMA UpgradeConserved ==
  ASSUME TurnInv, ConservedInv, UNCHANGED <<turnVars, hist, batch, inbox, last, used>>
  PROVE  ConservedInv'
<1>1. UNCHANGED <<pos, drain, buffer, suspended, ctx, mode, Events>>
  BY DEF turnVars, Events
<1>2. BufferInv'
  BY <1>1 DEF ConservedInv, BufferInv, Draining
<1>3. UNCHANGED <<Rest, HeldBack, Ahead>>
  BY <1>1 DEF Rest, HeldBack, Ahead, Draining
<1>4. ASSUME NEW n \in Names PROVE Stored(n)' /\ Kept(n)'
  <2>1. Taken(n)' = Taken(n)
    BY <1>1 DEF Taken
  <2>2. /\ IsCount(last'.before[n])
        /\ Carries(n, Events' \o inbox', Len(last'.before[n]), used'.raised[n])
    BY <1>1 DEF ConservedInv, Stored
  <2>3. /\ IsCount(Taken(n)') /\ Carries(n, Rest', Len(Taken(n)'), used'.raised[n])
    BY <1>3, <2>1 DEF ConservedInv, Kept
  <2>4. Stored(n)'
    BY <2>2 DEF Stored, IsCount, Carries, Raised
  <2>5. Kept(n)'
    BY <2>3 DEF Kept, IsCount, Carries, Raised
  <2> QED BY <2>4, <2>5
<1> QED BY <1>2, <1>4 DEF ConservedInv

LEMMA InitConserved == Init => ConservedInv
<1> SUFFICES ASSUME Init PROVE ConservedInv
  OBVIOUS
<1>1. TurnInv
  BY InitInv
<1>2. Untouched
  BY DEF Init, Untouched
<1>3. ASSUME NEW n \in Names PROVE Stored(n)
  <2>1. last.before[n] = <<>> /\ used.raised[n] = 0 /\ Events = <<>>
    <3>1. <<>> \o <<>> = <<>>
      OBVIOUS
    <3> QED BY <3>1 DEF Init, Events
  <2>2. PICK e \in HistoryEvents : e = Event("executionStarted", 0, "none", 0)
    <3>1. Event("executionStarted", 0, "none", 0) \in HistoryEvents
      BY EventTyped DEF EventTypes, Labels
    <3> QED BY <3>1
  <2>3. Events \o inbox = <<e>>
    <3>1. <<e>> \in Seq(HistoryEvents)
      OBVIOUS
    <3>2. <<>> \o <<e>> = <<e>>
      BY <3>1, ConcatEmptySeq
    <3> QED BY <2>1, <2>2, <3>2 DEF Init
  <2>4. Raised(n, <<e>>) = {}
    BY <2>2 DEF Raised, Event
  <2>5. Carries(n, <<e>>, 0, 0)
    <3>1. 0 + 1 .. 0 = {}
      OBVIOUS
    <3> QED BY <2>4, <3>1 DEF Carries
  <2>6. Len(<<>>) = 0 /\ <<>> = [i \in 1 .. 0 |-> i]
    OBVIOUS
  <2>7. IsCount(<<>>)
    BY <2>6 DEF IsCount
  <2> QED BY <2>1, <2>3, <2>5, <2>6, <2>7 DEF Stored
<1> QED BY <1>1, <1>2, <1>3, UntouchedConserved

LEMMA StepConserved == TurnInv /\ ConservedInv /\ Undisturbed /\ [Next]_vars => ConservedInv'
<1> SUFFICES ASSUME TurnInv, ConservedInv, Undisturbed, [Next]_vars PROVE ConservedInv'
  OBVIOUS
<1>1. CASE UNCHANGED vars
  BY <1>1, UpgradeConserved DEF vars, sidecarVars
<1>2. CASE Turn /\ UNCHANGED scene
  BY <1>2, TurnConserved DEF Undisturbed
<1>3. CASE Dispatch /\ UNCHANGED scene
  BY <1>3, DispatchConserved
<1>4. CASE Commit /\ UNCHANGED scene
  BY <1>4, CommitTurnConserved, CommitContinuedConserved DEF Commit
<1>5. CASE LoseTurn /\ UNCHANGED scene
  BY <1>5, LoseTurnConserved
<1>6. CASE Outcome /\ UNCHANGED scene
  BY <1>6, OutcomeConserved
<1>7. CASE Client /\ UNCHANGED scene
  BY <1>7, ClientConserved
<1>8. CASE UpgradeWorker /\ UNCHANGED scene
  BY <1>8, UpgradeConserved DEF UpgradeWorker, Between
<1> QED BY <1>1, <1>2, <1>3, <1>4, <1>5, <1>6, <1>7, <1>8 DEF Next

(* Whatever is lost, replayed, suspended and resumed, and across           *)
(* continue_as_new: every event a client raised is somewhere exactly once  *)
(* and in order, handed to the program, in _received_events, in            *)
(* _suspended_events or still ahead.  The hypothesis leaves out what the   *)
(* code does lose: a suspension within a suspension, whose events go to    *)
(* the end of the list that executionResumed walks; the events that a      *)
(* suspension holds back, or an exception leaves, in a turn that continues *)
(* as new; and a payload that `if value' replaces by None.                 *)
THEOREM EventsAreConserved == Spec /\ []Undisturbed => []EventsConserved
<1>1. TurnInv /\ ConservedInv => EventsConserved
  <2> SUFFICES ASSUME TurnInv, ConservedInv, NEW n \in Names
               PROVE  LET taken == last.before[n] \o ctx.got[n] \o ctx.recv[n]
                      IN /\ taken = [i \in 1 .. Len(taken) |-> i]
                         /\ Carries(n, HeldBack \o SubSeq(Events, pos + 1, Len(Events)) \o inbox,
                                    Len(taken), used.raised[n])
    BY DEF EventsConserved
  <2>1. IsCount(Taken(n)) /\ Carries(n, Rest, Len(Taken(n)), used.raised[n])
    BY DEF ConservedInv, Kept
  <2> QED BY <2>1 DEF Taken, IsCount, Rest, Ahead
<1> QED BY <1>1, InitConserved, StepConserved, Invariance, PTL DEF Spec
=============================================================================
