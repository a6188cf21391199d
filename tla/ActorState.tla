----------------------------- MODULE ActorState -----------------------------
(***************************************************************************)
(* ActorStateManager: the change tracker between an actor and its state    *)
(* store.  An entry of the tracker is loaded lazily and has a change kind; *)
(* save_state sends the changed entries as one transaction.                *)
(*                                                                         *)
(* Values are never Python's None, and a saved value does not expire.      *)
(***************************************************************************)
CONSTANTS
  Names,      \* names of states
  Values,     \* their values
  None        \* no value

ASSUME NoneAssumption == None \notin Values

VARIABLES
  store,      \* the state store, external
  tracker,    \* _default_state_change_tracker
  sent,       \* state_changes of the save_state that is awaited
  answer      \* what the last operation returned

stateVars == <<store, tracker, sent, answer>>

Answer(found, val) == [found |-> found, val |-> val]

Entry(kind, val) == [kind |-> kind, val |-> val]
Untracked == Entry("untracked", None)
Nothing == [n \in Names |-> Untracked]

Tracked(n) == tracker[n].kind # "untracked"
MarkedForRemove(n) == tracker[n].kind = "remove"
Changed(n) == tracker[n].kind \in {"add", "update", "remove"}

\* contains_state of the provider
Stored(n) == store[n] # None

\* One operation on state n: its answer and the entry it leaves.
Does(n, found, val, entry) ==
  /\ answer' = Answer(found, val)
  /\ tracker' = [tracker EXCEPT ![n] = entry]
  /\ UNCHANGED <<store, sent>>

\* What n holds for a reader, once it is loaded.
Loaded(n) ==
  IF Tracked(n) THEN tracker[n]
  ELSE IF Stored(n) THEN Entry("none", store[n]) ELSE Untracked

TryGetState(n) ==
  IF MarkedForRemove(n) \/ Loaded(n) = Untracked
  THEN Does(n, FALSE, None, tracker[n])
  ELSE Does(n, TRUE, Loaded(n).val, Loaded(n))

ContainsState(n) ==
  Does(n, IF Tracked(n) THEN ~MarkedForRemove(n) ELSE Stored(n), None, tracker[n])

TryAddState(n, v) ==
  IF MarkedForRemove(n) THEN Does(n, TRUE, None, Entry("update", v))
  ELSE IF Tracked(n) \/ Stored(n) THEN Does(n, FALSE, None, tracker[n])
  ELSE Does(n, TRUE, None, Entry("add", v))

\* The kind of an entry whose value is replaced.
Replaced(kind) == IF kind = "add" THEN "add" ELSE "update"

\* set_state_ttl; it ignores a negative time to live before anything else.
SetState(n, v) ==
  IF Tracked(n) THEN Does(n, TRUE, None, Entry(Replaced(tracker[n].kind), v))
  ELSE Does(n, TRUE, None, Entry(IF Stored(n) THEN "update" ELSE "add", v))

\* A slip: an added state that is removed is marked and not forgotten.
RemovedMarked(e) == Entry("remove", e.val)

\* A state that is not stored yet is forgotten, others are marked.
Removed(e) == IF e.kind = "add" THEN Untracked ELSE Entry("remove", e.val)

TryRemoveState(n) ==
  IF Tracked(n)
  THEN IF MarkedForRemove(n) THEN Does(n, FALSE, None, tracker[n])
       ELSE Does(n, TRUE, None, Removed(tracker[n]))
  ELSE IF Stored(n) THEN Does(n, TRUE, None, Entry("remove", None))
  ELSE Does(n, FALSE, None, tracker[n])

GetOrAddState(n, v) ==
  IF MarkedForRemove(n) THEN Does(n, TRUE, v, Entry("update", v))
  ELSE IF Loaded(n) = Untracked THEN Does(n, TRUE, v, Entry("add", v))
  ELSE Does(n, TRUE, Loaded(n).val, Loaded(n))

\* new is what update_value_factory makes of the value there is
AddOrUpdateState(n, v, new) ==
  IF MarkedForRemove(n) THEN Does(n, TRUE, v, Entry("update", v))
  ELSE IF Loaded(n) = Untracked THEN Does(n, TRUE, v, Entry("add", v))
  ELSE Does(n, TRUE, new, Entry(Replaced(Loaded(n).kind), new))

Operate ==
  \E n \in Names :
    \/ TryGetState(n) \/ ContainsState(n) \/ TryRemoveState(n)
    \/ \E v \in Values : TryAddState(n, v) \/ SetState(n, v) \/ GetOrAddState(n, v)
    \/ \E v, new \in Values : AddOrUpdateState(n, v, new)

ClearCache == tracker' = Nothing /\ UNCHANGED <<store, sent, answer>>

----------------------------------------------------------------------------
(* save_state: the entries are marked before the await, and those removed  *)
(* are popped after it.                                                    *)

HasChanges == \E n \in Names : Changed(n)
Saving == sent # Nothing

SaveBegins ==
  /\ HasChanges
  /\ sent' = [n \in Names |-> IF Changed(n) THEN tracker[n] ELSE Untracked]
  /\ tracker' = [n \in Names |->
       IF Changed(n) THEN Entry("none", tracker[n].val) ELSE tracker[n]]
  /\ UNCHANGED <<store, answer>>

\* The transaction: upserts and deletes.
Applied(n) ==
  CASE sent[n].kind = "untracked" -> store[n]
    [] sent[n].kind = "remove" -> None
    [] OTHER -> sent[n].val

Popped == [n \in Names |-> IF sent[n].kind = "remove" THEN Untracked ELSE tracker[n]]

SaveEnds ==
  /\ store' = [n \in Names |-> Applied(n)]
  /\ tracker' = Popped
  /\ sent' = Nothing
  /\ UNCHANGED answer
=============================================================================
