----------------------------- MODULE ActorStore -----------------------------
(***************************************************************************)
(* What an actor's state manager promises: the actor works on a private    *)
(* copy of its whole state, which is saved as one or thrown away as one.   *)
(* When a save fails and the copy is not thrown away, the states that were *)
(* to be saved are lost sight of: the copy no longer holds them, until it  *)
(* is thrown away or they are saved after all.                             *)
(***************************************************************************)
CONSTANTS
  Names,      \* names of states
  Values,     \* their values
  None        \* no value

VARIABLES
  store,      \* what is in the state store
  view,       \* what the actor sees, of the states that the copy holds
  answer      \* what the last operation returned

storeVars == <<store, view, answer>>

State == [Names -> Values \cup {None}]
Answer(found, val) == [found |-> found, val |-> val]

Init == store \in State /\ view = store /\ answer = Answer(FALSE, None)

\* The states that the copy holds.
Held == DOMAIN view

Exists(n) == view[n] # None

\* Operations on the copy: what one answers, and what n is after it.
Does(n, found, val, after) ==
  /\ answer' = Answer(found, val)
  /\ view' = [view EXCEPT ![n] = after]
  /\ UNCHANGED store

Get(n) == Does(n, Exists(n), view[n], view[n])
Contains(n) == Does(n, Exists(n), None, view[n])
TryAdd(n, v) == Does(n, ~Exists(n), None, IF Exists(n) THEN view[n] ELSE v)
Set(n, v) == Does(n, TRUE, None, v)
TryRemove(n) == Does(n, Exists(n), None, None)
GetOrAdd(n, v) == LET w == IF Exists(n) THEN view[n] ELSE v IN Does(n, TRUE, w, w)
AddOrUpdate(n, v, new) == LET w == IF Exists(n) THEN new ELSE v IN Does(n, TRUE, w, w)

\* An operation on a state that was lost sight of may answer anything.
Strays ==
  /\ Held # Names /\ UNCHANGED <<store, view>>
  /\ answer' \in [found: BOOLEAN, val: Values \cup {None}]

\* The store takes the whole copy; what it has of a lost state is open.
Stores == store' \in State /\ \A n \in Held : store'[n] = view[n]

\* A save, after which the copy may hold lost states again.
Save ==
  /\ Stores
  /\ \E found \in SUBSET Names : Held \subseteq found /\ view' = [n \in found |-> store'[n]]
  /\ UNCHANGED answer

\* A failed save may have been applied.
Failed == store' = store \/ Stores

Discard == Failed /\ view' = store' /\ UNCHANGED answer

\* No state is lost but those with something to save.
Lose ==
  /\ Failed
  /\ view' = [n \in {m \in Held : view[m] = store[m]} |-> view[n]]
  /\ UNCHANGED answer

Next ==
  \/ \E n \in Held :
       \/ Get(n) \/ Contains(n) \/ TryRemove(n)
       \/ \E v \in Values : TryAdd(n, v) \/ Set(n, v) \/ GetOrAdd(n, v)
       \/ \E v, new \in Values : AddOrUpdate(n, v, new)
  \/ Strays \/ Save \/ Discard \/ Lose

Spec == Init /\ [][Next]_storeVars
=============================================================================
