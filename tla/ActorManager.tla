---------------------------- MODULE ActorManager ----------------------------
(***************************************************************************)
(* ActorManager and Actor: one actor, activated by its first call, called  *)
(* one call at a time (methods, timers and reminders alike, in the turns   *)
(* the sidecar gives) and deactivated when it is idle.  A call runs the    *)
(* actor's code, which operates on its state, and then saves the state.    *)
(***************************************************************************)
EXTENDS ActorState

CONSTANTS
  MethodErrors,   \* what the actor's code raises
  SaveErrors      \* what comes of a save that fails

\* "internal" is a DaprInternalError, which an error answer of the sidecar
\* over HTTP is; "other" any other exception, such as the AioRpcError of the
\* gRPC client; "caught" one that the method handles itself.
ASSUME ErrorsAssumption ==
  MethodErrors \subseteq {"internal", "other"} /\ SaveErrors \subseteq {"internal", "other", "caught"}

VARIABLES
  phase,          \* inactive, activating, idle or running
  final,          \* the save that is awaited is the last act of the phase
  strayed         \* history: states that a failed save carried in vain

vars == <<stateVars, phase, final, strayed>>

Init ==
  /\ store \in [Names -> Values \cup {None}]
  /\ tracker = Nothing /\ sent = Nothing /\ answer = Answer(FALSE, None)
  /\ phase = "inactive" /\ final = FALSE /\ strayed = {}

\* The actor's code is running, and not awaiting a save.
InCode == phase \in {"activating", "running"} /\ ~Saving

\* _dispatch_internal: the first call makes the actor object, whose cache is
\* reset before _on_activate runs.
Dispatch ==
  /\ \/ phase = "inactive" /\ phase' = "activating" /\ tracker' = Nothing /\ strayed' = {}
     \/ phase = "idle" /\ phase' = "running" /\ UNCHANGED <<tracker, strayed>>
  /\ UNCHANGED <<store, sent, answer, final>>

\* The code of the actor, the hooks included: state operations, clear_cache
\* and explicit saves.
ActorOperates == InCode /\ Operate /\ UNCHANGED <<phase, final, strayed>>

ActorClears == InCode /\ ClearCache /\ strayed' = {} /\ UNCHANGED <<phase, final>>

ActorSaves == InCode /\ SaveBegins /\ final' = FALSE /\ UNCHANGED <<phase, strayed>>

\* An activated actor goes on with the call that activated it.
NextPhase == IF phase = "activating" THEN "running" ELSE "idle"

\* _on_activate and the method with _on_post_actor_method return: save_state
CodeReturns ==
  /\ InCode
  /\ IF HasChanges THEN SaveBegins /\ final' = TRUE /\ UNCHANGED phase
     ELSE phase' = NextPhase /\ UNCHANGED <<stateVars, final>>
  /\ UNCHANGED strayed

SaveReturns ==
  /\ Saving /\ SaveEnds
  /\ phase' = IF final THEN NextPhase ELSE phase
  /\ strayed' = {n \in strayed : sent[n] = Untracked}
  /\ UNCHANGED final

\* A slip: the cache is not reset.
KeptAfter(error) == UNCHANGED tracker

\* except DaprInternalError: _on_invoke_failed_internal
ResetAfter(error) ==
  IF error = "internal" THEN tracker' = Nothing ELSE UNCHANGED tracker

\* An exception leaves _dispatch_internal.  An actor that failed to activate
\* was never registered and is gone with its tracker.
Fails(error) ==
  IF phase = "activating" THEN phase' = "inactive" /\ tracker' = Nothing
  ELSE phase' = "idle" /\ ResetAfter(error)

\* The tracker of the actor is emptied, or gone.
Resets(error) == error # "caught" /\ (phase = "activating" \/ error = "internal")

CodeRaises ==
  /\ InCode
  /\ \E error \in MethodErrors :
       Fails(error) /\ strayed' = IF Resets(error) THEN {} ELSE strayed
  /\ UNCHANGED <<store, sent, answer, final>>

\* The entries are marked as unmodified already, and those removed are not
\* popped.  The store may have applied the transaction.
SaveRaises ==
  /\ Saving /\ sent' = Nothing
  /\ store' \in {store, [n \in Names |-> Applied(n)]}
  /\ \E error \in SaveErrors :
       /\ IF error = "caught" THEN ~final /\ UNCHANGED <<phase, tracker>> ELSE Fails(error)
       /\ strayed' = IF Resets(error) THEN {}
                     ELSE strayed \cup {n \in Names : Applied(n) # store[n]}
  /\ UNCHANGED <<answer, final>>

\* deactivate_actor: popped, and its cache is reset.
Deactivate ==
  /\ phase = "idle" /\ phase' = "inactive" /\ ClearCache /\ strayed' = {}
  /\ UNCHANGED final

Next ==
  \/ Dispatch \/ ActorOperates \/ ActorClears \/ ActorSaves
  \/ CodeReturns \/ SaveReturns \/ CodeRaises \/ SaveRaises \/ Deactivate

Spec == Init /\ [][Next]_vars

----------------------------------------------------------------------------
(* Properties.                                                             *)

Kinds == {"untracked", "none", "add", "update", "remove"}
Entries == [kind: Kinds, val: Values \cup {None}]

\* The state of the manager has its types.
TypeOK ==
  /\ store \in [Names -> Values \cup {None}]
  /\ tracker \in [Names -> Entries] /\ sent \in [Names -> Entries]
  /\ answer \in [found: BOOLEAN, val: Values \cup {None}]
  /\ phase \in {"inactive", "activating", "idle", "running"} /\ final \in BOOLEAN
  /\ strayed \subseteq Names

WellFormed(e) ==
  /\ e.kind = "untracked" => e = Untracked
  /\ e.kind \in {"add", "update"} => e.val # None

\* A change of this kind makes sense for what is stored.
Fits(e, stored) ==
  /\ e.kind = "add" => stored = None
  /\ e.kind \in {"update", "remove"} => stored # None

\* The change kinds agree with the store, and an entry without a change is a
\* copy of it, unless it is on its way there, or was carried there in vain:
\* then it is tracked until it is saved or the tracker is emptied.
TrackerAgrees ==
  \A n \in Names :
    /\ WellFormed(tracker[n]) /\ WellFormed(sent[n])
    /\ sent[n].kind # "none"
    /\ sent[n].kind # "untracked" => tracker[n] = Entry("none", sent[n].val)
    /\ IF n \in strayed THEN tracker[n].kind \in {"none", "update", "remove"}
       ELSE /\ Fits(tracker[n], store[n]) /\ Fits(sent[n], store[n])
            /\ tracker[n].kind = "none" /\ sent[n].kind = "untracked" =>
                 tracker[n].val = store[n] /\ store[n] # None

\* A save is awaited by code that runs, and changes nothing else meanwhile.
SavingAlone ==
  Saving => phase \in {"activating", "running"} /\ ~HasChanges

\* The invariant the proofs need: an actor that is not active has no cache.
Inv ==
  /\ TypeOK /\ TrackerAgrees /\ SavingAlone
  /\ phase = "inactive" => tracker = Nothing

\* What the actor sees of its state.
View(n) ==
  IF sent[n].kind = "remove" \/ MarkedForRemove(n) THEN None
  ELSE IF Tracked(n) THEN tracker[n].val ELSE store[n]

Store == INSTANCE ActorStore WITH view <- [n \in Names \ strayed |-> View(n)]

\* The tracker with its lazily loaded entries and change kinds behaves like
\* a private copy of the whole state: every operation answers and does what
\* it would on the copy, a save stores exactly the copy, and a failed call
\* with a DaprInternalError, a reset or a deactivation discards exactly it.
\* After a save that failed with any other exception, or whose exception the
\* method caught, that is so of all states but those that it would have
\* changed, and of these again once they are saved or the tracker is emptied.
ImplementsStore == Store!Spec

\* Between two calls nothing is pending: what a call changed has been saved
\* or was cleared when it failed (_on_invoke_failed_internal: "Clears states
\* in the cache when actor method invocation is failed").
IdleIsSaved == phase = "idle" => \A n \in Names : View(n) = store[n]
=============================================================================
