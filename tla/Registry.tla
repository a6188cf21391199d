------------------------------ MODULE Registry ------------------------------
(***************************************************************************)
(* Names and versions of workflows and activities: the registration of a   *)
(* function with WorkflowRuntime, the attributes that registration leaves  *)
(* on the function, the _Registry of the worker, and the function that a   *)
(* turn of an instance or an activity then runs.  An application may       *)
(* register while its worker is running, and is redeployed with instances  *)
(* in flight.                                                              *)
(*                                                                         *)
(* A decorated function is the same function here: wraps() copies the      *)
(* attributes.                                                             *)
(***************************************************************************)
EXTENDS Naturals, Sequences

CONSTANTS
  Fns,          \* functions of the application
  NameOf,       \* __name__ of each
  ModelFns,     \* the ones whose second parameter is a model class
  Names,        \* names that a registration may give
  Versions,
  None,         \* no name, no version, no function
  Instances,    \* workflow instances
  Budgets,      \* bound: registrations in each deployment
  Turns         \* bound: turns of an instance

ASSUME RegistryAssumption ==
  /\ NameOf \in [Fns -> Names] /\ ModelFns \subseteq Fns
  /\ None \notin Fns \cup Names \cup Versions
  /\ Names \subseteq Versions  \* the default version is __name__

VARIABLES
  orchestrators, versioned, latest, activities,  \* _Registry
  alternate,    \* _dapr_alternate_name of a function
  flagged,      \* [workflow, activity]: _workflow_registered, _activity_registered
  accepted,     \* registrations that returned, in this deployment
  mixed,        \* names registered with and without a version, ever
  instance,     \* what the sidecar keeps of an instance
  performed,    \* the last activity: what was asked for, and what ran
  budget        \* registrations left, in this deployment and the next

regVars == <<orchestrators, versioned, latest, activities, alternate, flagged,
             accepted, mixed, instance, performed, budget>>

Empty == [x \in {} |-> None]
Given(name, default) == IF name = None THEN default ELSE name

----------------------------------------------------------------------------
(* The attributes of a function.                                           *)

\* Refused before anything is changed.
NameTaken(fn, name) == alternate[fn] # None /\ name # None

\* The name by which clients and contexts ask for a function.
ScheduledName(fn) == Given(alternate[fn], NameOf[fn])

Attempt == budget[1] > 0 /\ budget' = [budget EXCEPT ![1] = @ - 1]

Accept(kind, name, version, fn) ==
  /\ flagged' = [flagged EXCEPT ![kind] = @ \cup {fn}]
  /\ accepted' = accepted \cup {[kind |-> kind, name |-> name, version |-> version, fn |-> fn]}

\* The name stays on the function although the registry refused it.
Refuse(fn, name) ==
  /\ alternate' = [alternate EXCEPT ![fn] = name]
  /\ UNCHANGED <<orchestrators, versioned, latest, activities, flagged, accepted, mixed>>

alternate_name(fn, name) ==
  /\ Attempt /\ alternate[fn] = None
  /\ alternate' = [alternate EXCEPT ![fn] = Given(name, NameOf[fn])]
  /\ UNCHANGED <<orchestrators, versioned, latest, activities, flagged, accepted, mixed,
                 instance, performed>>

----------------------------------------------------------------------------
(* _Registry                                                               *)

\* f[name] = fn, in a dict
Add(f, name, fn) == [x \in DOMAIN f \cup {name} |-> IF x = name THEN fn ELSE f[x]]

VersionsOf(name) == IF name \in DOMAIN versioned THEN versioned[name] ELSE Empty

\* A slip: the version of the history counts only where there is no latest.
VersionToUseLatest(name, version) ==
  IF name \in DOMAIN latest THEN latest[name] ELSE version
VersionToUse(name, version) ==
  IF version # None THEN version
  ELSE IF name \in DOMAIN latest THEN latest[name] ELSE None

\* A function and its version, or why there is none.
get_orchestrator(name, version) ==
  LET v == VersionToUse(name, version) IN
  CASE name \in DOMAIN orchestrators -> [fn |-> orchestrators[name], version |-> None]
    [] name \notin DOMAIN orchestrators /\ v # None /\ v \in DOMAIN VersionsOf(name) ->
         [fn |-> VersionsOf(name)[v], version |-> v]
    [] name \notin DOMAIN orchestrators /\ name \in DOMAIN versioned
         /\ v # None /\ v \notin DOMAIN VersionsOf(name) ->
         [fn |-> None, version |-> v]
    [] OTHER -> [fn |-> None, version |-> None]

NotRegistered(r) == r.fn = None /\ r.version = None
VersionNotRegistered(r) == r.fn = None /\ r.version # None

----------------------------------------------------------------------------
(* WorkflowRuntime                                                         *)

register_workflow(fn, name) ==
  LET alt == Given(alternate[fn], Given(name, NameOf[fn])) IN
  /\ Attempt /\ fn \notin flagged.workflow /\ ~NameTaken(fn, name)
  /\ \/ /\ alt \in DOMAIN orchestrators
        /\ Refuse(fn, alt)
     \/ /\ alt \notin DOMAIN orchestrators
        /\ alternate' = [alternate EXCEPT ![fn] = alt]
        /\ orchestrators' = Add(orchestrators, alt, fn)
        /\ Accept("workflow", alt, None, fn)
        /\ mixed' = [mixed EXCEPT !.plain = @ \cup {alt}]
        /\ UNCHANGED <<versioned, latest, activities>>
  /\ UNCHANGED <<instance, performed>>

\* An alternate name refuses every version: the name is always given.
register_versioned_workflow(fn, name, version, is_latest) ==
  LET v == Given(version, NameOf[fn]) IN
  /\ Attempt /\ fn \notin flagged.workflow /\ ~NameTaken(fn, name)
  /\ \/ /\ v \in DOMAIN VersionsOf(name)
        /\ Refuse(fn, name)
     \/ /\ v \notin DOMAIN VersionsOf(name)
        /\ alternate' = [alternate EXCEPT ![fn] = name]
        /\ versioned' = Add(versioned, name, Add(VersionsOf(name), v, fn))
        /\ latest' = IF is_latest THEN Add(latest, name, v) ELSE latest
        /\ Accept("workflow", name, v, fn)
        /\ mixed' = [mixed EXCEPT !.versioned = @ \cup {name}]
        /\ UNCHANGED <<orchestrators, activities>>
  /\ UNCHANGED <<instance, performed>>

register_activity(fn, name) ==
  LET alt == Given(alternate[fn], Given(name, NameOf[fn])) IN
  /\ Attempt /\ fn \notin flagged.activity /\ ~NameTaken(fn, name)
  /\ \/ /\ alt \in DOMAIN activities
        /\ Refuse(fn, alt)
     \/ /\ alt \notin DOMAIN activities
        /\ alternate' = [alternate EXCEPT ![fn] = alt]
        /\ activities' = Add(activities, alt, fn)
        /\ Accept("activity", alt, None, fn)
        /\ UNCHANGED <<orchestrators, versioned, latest, mixed>>
  /\ UNCHANGED <<instance, performed>>

(* The decorators register the function; what they return carries its      *)
(* attributes.                                                             *)
workflow(fn, name) == register_workflow(fn, name)
versioned_workflow(fn, name, version, is_latest) ==
  register_versioned_workflow(fn, name, version, is_latest)
activity(fn, name) == register_activity(fn, name)

----------------------------------------------------------------------------
(* Instances.  The version that a turn used is in the history of the next. *)

\* A payload is None, a mapping or a model, or something that is no model.
Payloads == {"fits", "other"}

\* orchestrationWrapper and the wrappers of activities.
WrapperAccepts(fn, payload) == fn \in ModelFns => payload # "other"

Schedule(i, fn) ==
  /\ instance[i].name = None
  /\ instance' = [instance EXCEPT ![i].name = ScheduledName(fn)]
  /\ UNCHANGED <<orchestrators, versioned, latest, activities, alternate, flagged,
                 accepted, mixed, performed, budget>>

\* A turn with a version that is not registered stalls and is retried; an
\* unknown name or a payload that is not the model fails the workflow.
Turn(i, payload) ==
  LET r == get_orchestrator(instance[i].name, instance[i].version) IN
  /\ instance[i].name # None /\ instance[i].status = "running"
  /\ Len(instance[i].ran) < Turns
  /\ \/ VersionNotRegistered(r) /\ instance' = [instance EXCEPT ![i].stalled = TRUE]
     \/ /\ NotRegistered(r) \/ (r.fn # None /\ ~WrapperAccepts(r.fn, payload))
        /\ instance' = [instance EXCEPT ![i].status = "failed"]
     \/ /\ r.fn # None /\ WrapperAccepts(r.fn, payload)
        /\ instance' = [instance EXCEPT
             ![i].version = Given(r.version, @),
             ![i].ran = Append(@, [fn |-> r.fn, version |-> r.version]),
             ![i].stalled = FALSE]
  /\ UNCHANGED <<orchestrators, versioned, latest, activities, alternate, flagged,
                 accepted, mixed, performed, budget>>

(* _ActivityExecutor.  An activity is asked for by its function, or by a   *)
(* name.                                                                   *)
Resolve(name) == IF name \in DOMAIN activities THEN activities[name] ELSE None

Perform(name, payload) ==
  LET fn == Resolve(name) IN
  /\ performed' =
       [asked |-> name,
        outcome |-> IF fn = None THEN "not registered"
                    ELSE IF WrapperAccepts(fn, payload) THEN "ran" ELSE "failed"]
  /\ UNCHANGED <<orchestrators, versioned, latest, activities, alternate, flagged,
                 accepted, mixed, instance, budget>>

\* The application starts again, with whatever it registers this time.
Redeploy ==
  /\ Len(budget) > 1 /\ budget' = Tail(budget)
  /\ orchestrators' = Empty /\ versioned' = Empty /\ latest' = Empty /\ activities' = Empty
  /\ alternate' = [f \in Fns |-> None]
  /\ flagged' = [workflow |-> {}, activity |-> {}]
  /\ accepted' = {}
  /\ UNCHANGED <<mixed, instance, performed>>

RegInit ==
  /\ orchestrators = Empty /\ versioned = Empty /\ latest = Empty /\ activities = Empty
  /\ alternate = [f \in Fns |-> None]
  /\ flagged = [workflow |-> {}, activity |-> {}]
  /\ accepted = {}
  /\ mixed = [plain |-> {}, versioned |-> {}]
  /\ instance = [i \in Instances |->
       [name |-> None, version |-> None, ran |-> <<>>,
        status |-> "running", stalled |-> FALSE]]
  /\ performed = [asked |-> None, outcome |-> "none"]
  /\ budget \in Budgets

RegNext ==
  \/ \E fn \in Fns, name \in Names \cup {None} :
       \/ alternate_name(fn, name)
       \/ workflow(fn, name)
       \/ activity(fn, name)
  \/ \E fn \in Fns, name \in Names, v \in Versions \cup {None}, b \in BOOLEAN :
       versioned_workflow(fn, name, v, b)
  \/ \E i \in Instances, fn \in Fns : Schedule(i, fn)
  \/ \E i \in Instances, p \in Payloads : Turn(i, p)
  \/ \E fn \in Fns, p \in Payloads : Perform(ScheduledName(fn), p)
  \/ Redeploy

RegSpec == RegInit /\ [][RegNext]_regVars

----------------------------------------------------------------------------
(* A function that was registered is what its name runs, and is reached by *)
(* its own object too.                                                     *)

Mixed(name) == name \in mixed.plain /\ name \in mixed.versioned

Reachable ==
  \A r \in accepted :
    /\ alternate[r.fn] = r.name
    /\ r.kind = "activity" => activities[r.name] = r.fn
    /\ r.kind = "workflow" /\ ~Mixed(r.name) =>
         get_orchestrator(r.name, r.version) = [fn |-> r.fn, version |-> r.version]

\* Every turn of an instance runs the version of its first, whatever has
\* been registered or deployed since; a turn without it stalls.
SameVersion ==
  \A i \in Instances :
    LET ran == instance[i].ran IN
    ~Mixed(instance[i].name) =>
      \A t \in 1 .. Len(ran) : ran[t].version = ran[1].version

\* No registration, accepted or refused, takes a registered function away
\* (workflow_runtime.py, register_workflow), and an instance keeps the
\* version its history names (worker.py, get_orchestrator) as long as its
\* name is not used with and without versions.
RunsItsOwn == Reachable /\ SameVersion
=============================================================================
