------------------------- MODULE ActorManagerProofs -------------------------
(***************************************************************************)
(* Proofs about ActorManager: the invariant of the change tracker, and     *)
(* that the tracker implements the private copy of ActorStore, for every   *)
(* set of names and values and whatever a save that fails raises.  And     *)
(* about MockState: the mock answers alike.                                *)
(***************************************************************************)
EXTENDS ActorManager, MockState, TLAPS

\* What is known of the entry that an operation on state n leaves.
Proper(n, entry) ==
  /\ entry \in Entries /\ WellFormed(entry)
  /\ IF n \in strayed THEN entry.kind \in {"none", "update", "remove"}
     ELSE /\ Fits(entry, store[n])
          /\ entry.kind = "none" => entry.val = store[n] /\ store[n] # None

\* While no save is awaited nothing is on its way to the store.
LEMMA NotSaving ==
  ASSUME ~Saving, NEW n \in Names
  PROVE  sent[n] = Untracked
BY DEF Saving, Nothing

\* Entries that are tracked, and those that a load makes, are proper.
LEMMA TrackedProper ==
  ASSUME Inv, ~Saving, NEW n \in Names
  PROVE  Proper(n, tracker[n]) /\ Proper(n, Loaded(n))
<1>1. sent[n] = Untracked
  BY NotSaving
<1>2. Proper(n, tracker[n])
  BY <1>1 DEF Inv, TypeOK, TrackerAgrees, Proper, Untracked, Entry
<1>3. CASE Tracked(n)
  BY <1>2, <1>3 DEF Loaded
<1>4. CASE ~Tracked(n)
  <2>1. n \notin strayed /\ store[n] \in Values \cup {None}
    BY <1>4 DEF Inv, TypeOK, TrackerAgrees, Tracked
  <2>2. Loaded(n) = IF store[n] # None THEN Entry("none", store[n]) ELSE Untracked
    BY <1>4 DEF Loaded, Stored
  <2>3. Proper(n, Loaded(n))
    BY <2>1, <2>2 DEF Proper, Entry, Entries, Kinds, Fits, WellFormed, Untracked
  <2> QED
    BY <1>2, <2>3
<1> QED
  BY <1>2, <1>3, <1>4

\* The initial state satisfies the invariant.
LEMMA InitInv == Init => Inv
<1> SUFFICES ASSUME Init PROVE Inv
  OBVIOUS
<1>1. TypeOK
  BY DEF Init, TypeOK, Nothing, Untracked, Entry, Entries, Kinds, Answer
<1>2. TrackerAgrees
  BY DEF Init, TrackerAgrees, Nothing, Untracked, Entry, Fits, WellFormed
<1>3. SavingAlone
  BY DEF Init, SavingAlone, Saving
<1> QED
  BY <1>1, <1>2, <1>3 DEF Inv, Init

\* An operation that leaves a proper entry preserves the invariant.
LEMMA DoesInv ==
  ASSUME Inv, InCode, NEW n \in Names, NEW found \in BOOLEAN,
         NEW val \in Values \cup {None}, NEW entry, Proper(n, entry),
         Does(n, found, val, entry), UNCHANGED <<phase, final, strayed>>
  PROVE  Inv'
<1> USE DEF Does, Inv
<1>1. TypeOK'
  BY DEF TypeOK, Proper, Answer
<1>2. \A m \in Names : sent[m] = Untracked
  BY NotSaving DEF InCode
<1>3. TrackerAgrees'
  <2>1. ASSUME NEW m \in Names
        PROVE  /\ sent'[m] = Untracked
               /\ WellFormed(tracker'[m])
               /\ IF m \in strayed THEN tracker'[m].kind \in {"none", "update", "remove"}
                  ELSE /\ Fits(tracker'[m], store[m])
                       /\ tracker'[m].kind = "none" =>
                            tracker'[m].val = store[m] /\ store[m] # None
    <3>1. tracker'[m] = IF m = n THEN entry ELSE tracker[m]
      BY DEF TypeOK
    <3>2. Untracked.kind = "untracked"
      BY DEF Untracked, Entry
    <3>3. CASE m = n
      BY <1>2, <3>1, <3>3 DEF Proper
    <3>4. CASE m # n
      BY <1>2, <2>1, <3>1, <3>2, <3>4 DEF TrackerAgrees
    <3> QED
      BY <3>3, <3>4
  <2>2. WellFormed(Untracked) /\ Untracked.kind = "untracked"
    BY DEF WellFormed, Untracked, Entry
  <2>3. \A stored : Fits(Untracked, stored)
    BY DEF Fits, Untracked, Entry
  <2>4. strayed' = strayed /\ store' = store /\ sent' = sent
    OBVIOUS
  <2>5. ASSUME NEW m \in Names
        PROVE  /\ WellFormed(tracker'[m]) /\ WellFormed(sent'[m])
               /\ sent'[m].kind # "none"
               /\ sent'[m].kind # "untracked" => tracker'[m] = Entry("none", sent'[m].val)
               /\ IF m \in strayed' THEN tracker'[m].kind \in {"none", "update", "remove"}
                  ELSE /\ Fits(tracker'[m], store'[m]) /\ Fits(sent'[m], store'[m])
                       /\ tracker'[m].kind = "none" /\ sent'[m].kind = "untracked" =>
                            tracker'[m].val = store'[m] /\ store'[m] # None
    BY <2>1, <2>2, <2>3, <2>4
  <2> QED
    BY <2>5 DEF TrackerAgrees, WellFormed, Fits, Untracked, Entry
<1>4. ~Saving'
  BY DEF InCode, Saving, Nothing
<1> QED
  BY <1>1, <1>3, <1>4 DEF SavingAlone, InCode, Saving

\* An operation on a state that has strayed, whatever it answers.
LEMMA StrayStep ==
  ASSUME Inv, InCode, UNCHANGED <<phase, final, strayed>>, NEW n \in strayed,
         \/ TryGetState(n) \/ ContainsState(n) \/ TryRemoveState(n)
         \/ \E v \in Values : TryAddState(n, v) \/ SetState(n, v) \/ GetOrAddState(n, v)
         \/ \E v, new \in Values : AddOrUpdateState(n, v, new)
  PROVE  /\ Inv' /\ UNCHANGED <<store, sent>>
         /\ answer' \in [found: BOOLEAN, val: Values \cup {None}]
         /\ tracker' = [tracker EXCEPT ![n] = tracker'[n]]
<1>1. n \in Names /\ Proper(n, tracker[n]) /\ tracker \in [Names -> Entries]
  BY TrackedProper DEF Inv, TypeOK, InCode
<1>2. /\ tracker[n] \in Entries /\ tracker[n].kind \in {"none", "update", "remove"}
      /\ tracker[n].val \in Values \cup {None}
      /\ Tracked(n) /\ Loaded(n) = tracker[n] /\ tracker[n] # Untracked
  BY <1>1 DEF Proper, Entries, Tracked, Loaded, Untracked, Entry
<1>3. \A v \in Values : Proper(n, Entry("update", v))
  BY <1>1, NoneAssumption DEF Proper, WellFormed, Entries, Kinds, Entry, Untracked
<1>4. Proper(n, Entry("remove", tracker[n].val))
  BY <1>1, <1>2 DEF Proper, WellFormed, Entries, Kinds, Entry, Untracked
<1>5. ASSUME NEW found \in BOOLEAN, NEW val \in Values \cup {None}, NEW entry,
             Proper(n, entry), Does(n, found, val, entry)
      PROVE  /\ Inv' /\ UNCHANGED <<store, sent>>
             /\ answer' \in [found: BOOLEAN, val: Values \cup {None}]
             /\ tracker' = [tracker EXCEPT ![n] = tracker'[n]]
  <2>1. Inv'
    BY <1>1, <1>5, DoesInv
  <2> QED
    BY <1>1, <1>5, <2>1 DEF Does, Answer
<1>6. CASE TryGetState(n)
  <2>1. \/ Does(n, FALSE, None, tracker[n])
        \/ Does(n, TRUE, tracker[n].val, tracker[n])
    BY <1>2, <1>6 DEF TryGetState
  <2> QED
    BY <1>1, <1>2, <1>5, <2>1
<1>7. CASE ContainsState(n)
  <2>1. Does(n, TRUE, None, tracker[n]) \/ Does(n, FALSE, None, tracker[n])
    BY <1>2, <1>7 DEF ContainsState, MarkedForRemove
  <2> QED
    BY <1>1, <1>5, <2>1
<1>8. CASE TryRemoveState(n)
  <2>1. \/ Does(n, FALSE, None, tracker[n])
        \/ Does(n, TRUE, None, Entry("remove", tracker[n].val))
    BY <1>2, <1>8 DEF TryRemoveState, Removed
  <2> QED
    BY <1>1, <1>4, <1>5, <2>1
<1>9. ASSUME NEW v \in Values, TryAddState(n, v) \/ SetState(n, v) \/ GetOrAddState(n, v)
      PROVE  \/ Does(n, FALSE, None, tracker[n]) \/ Does(n, TRUE, tracker[n].val, tracker[n])
             \/ Does(n, TRUE, None, Entry("update", v)) \/ Does(n, TRUE, v, Entry("update", v))
  BY <1>2, <1>9 DEF TryAddState, SetState, GetOrAddState, Replaced
<1>10. ASSUME NEW v \in Values, NEW new \in Values, AddOrUpdateState(n, v, new)
       PROVE  Does(n, TRUE, v, Entry("update", v)) \/ Does(n, TRUE, new, Entry("update", new))
  BY <1>2, <1>10 DEF AddOrUpdateState, Replaced
<1> QED
  BY <1>1, <1>2, <1>3, <1>5, <1>6, <1>7, <1>8, <1>9, <1>10

\* What an actor sees of state n through entry.
Seen(n, entry) ==
  IF entry.kind = "remove" THEN None
  ELSE IF entry.kind # "untracked" THEN entry.val ELSE store[n]

\* Without a save under way the view is what the tracker shows.
LEMMA ViewSeen ==
  ASSUME ~Saving, NEW n \in Names
  PROVE  View(n) = Seen(n, tracker[n])
BY NotSaving DEF View, Seen, MarkedForRemove, Tracked, Untracked, Entry

\* An operation on an entry is the operation on the copy with what is seen.
LEMMA DoesView ==
  ASSUME Inv, ~Saving, NEW n \in Names \ strayed, NEW found, NEW val, NEW entry,
         Does(n, found, val, entry), UNCHANGED strayed
  PROVE  Store!Does(n, found, val, Seen(n, entry))
<1>1. \A m \in Names : View(m) = Seen(m, tracker[m])
  BY ViewSeen
<1>2. ~Saving'
  BY DEF Does, Saving, Nothing
<1>3. \A m \in Names : sent'[m] = Untracked
  BY <1>2, NotSaving DEF Does
<1>4. \A m \in Names : View(m)' = IF m = n THEN Seen(n, entry) ELSE View(m)
  BY <1>1, <1>3
  DEF Inv, TypeOK, Does, View, Seen, MarkedForRemove, Tracked, Untracked, Entry
<1>5. [m \in Names \ strayed |-> View(m)]' =
        [[m \in Names \ strayed |-> View(m)] EXCEPT ![n] = Seen(n, entry)]
  BY <1>4
<1> QED
  BY <1>5 DEF Does, Store!Does, Answer, Store!Answer

\* The two together: the obligations of one operation.
LEMMA OperationStep ==
  ASSUME Inv, InCode, UNCHANGED <<phase, final, strayed>>, NEW n \in Names \ strayed,
         NEW found \in BOOLEAN, NEW val \in Values \cup {None}, NEW entry,
         Proper(n, entry), Does(n, found, val, entry)
  PROVE  Inv' /\ Store!Does(n, found, val, Seen(n, entry))
BY DoesInv, DoesView DEF InCode

\* Whether the copy has state n, in terms of the tracker.
Has(n) == [m \in Names \ strayed |-> View(m)][n] # None

\* What an operation may use of state n before it.
LEMMA Before ==
  ASSUME Inv, InCode, NEW n \in Names \ strayed
  PROVE  /\ tracker[n] \in Entries /\ store[n] \in Values \cup {None}
         /\ Proper(n, tracker[n]) /\ Proper(n, Loaded(n))
         /\ [m \in Names \ strayed |-> View(m)][n] = Seen(n, tracker[n])
         /\ ~MarkedForRemove(n) => Seen(n, tracker[n]) = Seen(n, Loaded(n))
         /\ Has(n) <=> ~MarkedForRemove(n) /\ (Tracked(n) \/ Stored(n))
         /\ Loaded(n) = Untracked <=> ~Tracked(n) /\ ~Stored(n)
<1>1. Proper(n, tracker[n]) /\ Proper(n, Loaded(n))
  BY TrackedProper DEF InCode
<1>2. View(n) = Seen(n, tracker[n])
  BY ViewSeen DEF InCode
<1>3. ~MarkedForRemove(n) => Seen(n, tracker[n]) = Seen(n, Loaded(n))
  BY DEF Seen, Loaded, Tracked, Stored, MarkedForRemove, Untracked, Entry
<1>4. Has(n) <=> ~MarkedForRemove(n) /\ (Tracked(n) \/ Stored(n))
  BY <1>1, <1>2 DEF Has, Seen, Proper, Fits, WellFormed, Entries, Kinds, Tracked, Stored, MarkedForRemove
<1>5. Loaded(n) = Untracked <=> ~Tracked(n) /\ ~Stored(n)
  BY DEF Loaded, Tracked, Stored, Untracked, Entry
<1> QED
  BY <1>1, <1>2, <1>3, <1>4, <1>5 DEF Inv, TypeOK

\* try_get_state reads the copy.
LEMMA TryGetStep ==
  ASSUME Inv, InCode, UNCHANGED <<phase, final, strayed>>, NEW n \in Names \ strayed,
         TryGetState(n)
  PROVE  Inv' /\ Store!Get(n)
<1> USE Before, NoneAssumption
<1>1. CASE ~Has(n)
  <2>1. Does(n, FALSE, None, tracker[n])
    BY <1>1 DEF TryGetState, Tracked, MarkedForRemove, Untracked, Entry
  <2>2. Proper(n, tracker[n]) /\ None \in Values \cup {None}
    BY <1>1 DEF Proper, Fits, WellFormed, Entries, Kinds, Entry, Untracked, Tracked, Stored, MarkedForRemove
  <2>3. Seen(n, tracker[n]) = None
    BY <1>1 DEF Seen, Proper, Fits, WellFormed, Entries, Kinds, Entry, Untracked, Tracked, Stored, MarkedForRemove, Has
  <2>4. Inv' /\ Store!Does(n, FALSE, None, None)
    BY <2>1, <2>2, <2>3, OperationStep
  <2>5. Store!Exists(n) = FALSE
    BY <1>1 DEF Store!Exists, Has, MarkedForRemove
  <2> QED
    BY <1>1, <2>4, <2>5 DEF Store!Get, Seen, Has, Loaded, Untracked, Tracked, MarkedForRemove, Entry, Store!Does, Store!Answer
<1>2. CASE Has(n)
  <2>1. Does(n, TRUE, Loaded(n).val, Loaded(n))
    BY <1>2 DEF TryGetState, Tracked, MarkedForRemove, Untracked, Entry
  <2>2. Proper(n, Loaded(n)) /\ Loaded(n).val \in Values \cup {None}
    BY <1>2 DEF Proper, Fits, WellFormed, Entries, Kinds, Entry, Loaded, Untracked, Tracked, Stored, MarkedForRemove
  <2>3. Seen(n, Loaded(n)) = Loaded(n).val
    BY <1>2 DEF Seen, Proper, Fits, WellFormed, Entries, Kinds, Entry, Loaded, Untracked, Tracked, Stored, MarkedForRemove, Has
  <2>4. Inv' /\ Store!Does(n, TRUE, Loaded(n).val, Loaded(n).val)
    BY <2>1, <2>2, <2>3, OperationStep
  <2>5. Store!Exists(n) = TRUE
    BY <1>2 DEF Store!Exists, Has, MarkedForRemove
  <2> QED
    BY <1>2, <2>4, <2>5 DEF Store!Get, Seen, Has, Loaded, Untracked, Tracked, MarkedForRemove, Entry
<1> QED
  BY <1>1, <1>2

\* contains_state asks the copy.
LEMMA ContainsStep ==
  ASSUME Inv, InCode, UNCHANGED <<phase, final, strayed>>, NEW n \in Names \ strayed,
         ContainsState(n)
  PROVE  Inv' /\ Store!Contains(n)
<1> USE Before, NoneAssumption
<1>1. CASE ~Has(n)
  <2>0. (IF Tracked(n) THEN ~MarkedForRemove(n) ELSE Stored(n)) = FALSE
    BY <1>1 DEF Tracked, MarkedForRemove, Stored
  <2>1. Does(n, FALSE, None, tracker[n])
    BY <2>0 DEF ContainsState, Does, Answer
  <2>2. Proper(n, tracker[n]) /\ None \in Values \cup {None}
    BY <1>1 DEF Proper, Fits, WellFormed, Entries, Kinds, Entry, Untracked, Tracked, Stored, MarkedForRemove
  <2>3. Seen(n, tracker[n]) = None
    BY <1>1 DEF Seen, Proper, Fits, WellFormed, Entries, Kinds, Entry, Untracked, Tracked, Stored, MarkedForRemove, Has
  <2>4. Inv' /\ Store!Does(n, FALSE, None, None)
    BY <2>1, <2>2, <2>3, OperationStep
  <2>5. Store!Exists(n) = FALSE
    BY <1>1 DEF Store!Exists, Has, MarkedForRemove
  <2> QED
    BY <1>1, <2>4, <2>5 DEF Store!Contains, Seen, Has, Loaded, Untracked, Tracked, MarkedForRemove, Entry, Store!Does, Store!Answer
<1>2. CASE Has(n)
  <2>0. (IF Tracked(n) THEN ~MarkedForRemove(n) ELSE Stored(n)) = TRUE
    BY <1>2 DEF Tracked, MarkedForRemove, Stored
  <2>1. Does(n, TRUE, None, tracker[n])
    BY <2>0 DEF ContainsState, Does, Answer
  <2>2. Proper(n, tracker[n]) /\ None \in Values \cup {None}
    BY <1>2 DEF Proper, Fits, WellFormed, Entries, Kinds, Entry, Untracked, Tracked, Stored, MarkedForRemove
  <2>3. Seen(n, tracker[n]) = Seen(n, tracker[n])
    BY <1>2 DEF Seen, Proper, Fits, WellFormed, Entries, Kinds, Entry, Untracked, Tracked, Stored, MarkedForRemove, Has
  <2>4. Inv' /\ Store!Does(n, TRUE, None, Seen(n, tracker[n]))
    BY <2>1, <2>2, <2>3, OperationStep
  <2>5. Store!Exists(n) = TRUE
    BY <1>2 DEF Store!Exists, Has, MarkedForRemove
  <2> QED
    BY <1>2, <2>4, <2>5 DEF Store!Contains, Seen, Has, Loaded, Untracked, Tracked, MarkedForRemove, Entry
<1> QED
  BY <1>1, <1>2

\* try_remove_state removes from the copy.
LEMMA TryRemoveStep ==
  ASSUME Inv, InCode, UNCHANGED <<phase, final, strayed>>, NEW n \in Names \ strayed,
         TryRemoveState(n)
  PROVE  Inv' /\ Store!TryRemove(n)
<1> USE Before, NoneAssumption
<1>1. CASE ~Has(n)
  <2>1. Does(n, FALSE, None, tracker[n])
    BY <1>1 DEF TryRemoveState, Tracked, MarkedForRemove, Untracked, Entry
  <2>2. Proper(n, tracker[n]) /\ None \in Values \cup {None}
    BY <1>1 DEF Proper, Fits, WellFormed, Entries, Kinds, Entry, Untracked, Tracked, Stored, MarkedForRemove
  <2>3. Seen(n, tracker[n]) = None
    BY <1>1 DEF Seen, Proper, Fits, WellFormed, Entries, Kinds, Entry, Untracked, Tracked, Stored, MarkedForRemove, Has
  <2>4. Inv' /\ Store!Does(n, FALSE, None, None)
    BY <2>1, <2>2, <2>3, OperationStep
  <2>5. Store!Exists(n) = FALSE
    BY <1>1 DEF Store!Exists, Has, MarkedForRemove
  <2> QED
    BY <1>1, <2>4, <2>5 DEF Store!TryRemove, Seen, Has, Loaded, Untracked, Tracked, MarkedForRemove, Entry, Store!Does, Store!Answer
<1>2. CASE Has(n) /\ Tracked(n)
  <2>1. Does(n, TRUE, None, Removed(tracker[n]))
    BY <1>2 DEF TryRemoveState, Tracked, MarkedForRemove, Untracked, Entry
  <2>2. Proper(n, Removed(tracker[n])) /\ None \in Values \cup {None}
    BY <1>2 DEF Proper, Fits, WellFormed, Entries, Kinds, Entry, Removed, Untracked, Tracked, Stored, MarkedForRemove
  <2>3. Seen(n, Removed(tracker[n])) = None
    BY <1>2 DEF Seen, Proper, Fits, WellFormed, Entries, Kinds, Entry, Removed, Untracked, Tracked, Stored, MarkedForRemove, Has
  <2>4. Inv' /\ Store!Does(n, TRUE, None, None)
    BY <2>1, <2>2, <2>3, OperationStep
  <2>5. Store!Exists(n) = TRUE
    BY <1>2 DEF Store!Exists, Has, MarkedForRemove
  <2> QED
    BY <1>2, <2>4, <2>5 DEF Store!TryRemove, Seen, Has, Loaded, Untracked, Tracked, MarkedForRemove, Entry
<1>3. CASE Has(n) /\ ~Tracked(n)
  <2>1. Does(n, TRUE, None, Entry("remove", None))
    BY <1>3 DEF TryRemoveState, Tracked, MarkedForRemove, Untracked, Entry
  <2>2. Proper(n, Entry("remove", None)) /\ None \in Values \cup {None}
    BY <1>3 DEF Proper, Fits, WellFormed, Entries, Kinds, Entry, Untracked, Tracked, Stored, MarkedForRemove
  <2>3. Seen(n, Entry("remove", None)) = None
    BY <1>3 DEF Seen, Proper, Fits, WellFormed, Entries, Kinds, Entry, Untracked, Tracked, Stored, MarkedForRemove, Has
  <2>4. Inv' /\ Store!Does(n, TRUE, None, None)
    BY <2>1, <2>2, <2>3, OperationStep
  <2>5. Store!Exists(n) = TRUE
    BY <1>3 DEF Store!Exists, Has, MarkedForRemove
  <2> QED
    BY <1>3, <2>4, <2>5 DEF Store!TryRemove, Seen, Has, Loaded, Untracked, Tracked, MarkedForRemove, Entry
<1> QED
  BY <1>1, <1>2, <1>3

\* try_add_state adds to the copy what it does not hold.
LEMMA TryAddStep ==
  ASSUME Inv, InCode, UNCHANGED <<phase, final, strayed>>, NEW n \in Names \ strayed, NEW v \in Values,
         TryAddState(n, v)
  PROVE  Inv' /\ Store!TryAdd(n, v)
<1> USE Before, NoneAssumption
<1>1. CASE MarkedForRemove(n)
  <2>1. Does(n, TRUE, None, Entry("update", v))
    BY <1>1 DEF TryAddState, Tracked, MarkedForRemove, Untracked, Entry
  <2>2. Proper(n, Entry("update", v)) /\ None \in Values \cup {None}
    BY <1>1 DEF Proper, Fits, WellFormed, Entries, Kinds, Entry, Untracked, Tracked, Stored, MarkedForRemove
  <2>3. Seen(n, Entry("update", v)) = v
    BY <1>1 DEF Seen, Proper, Fits, WellFormed, Entries, Kinds, Entry, Untracked, Tracked, Stored, MarkedForRemove, Has
  <2>4. Inv' /\ Store!Does(n, TRUE, None, v)
    BY <2>1, <2>2, <2>3, OperationStep
  <2>5. Store!Exists(n) = FALSE
    BY <1>1 DEF Store!Exists, Has, MarkedForRemove
  <2> QED
    BY <1>1, <2>4, <2>5 DEF Store!TryAdd, Seen, Has, Loaded, Untracked, Tracked, MarkedForRemove, Entry
<1>2. CASE Has(n)
  <2>1. Does(n, FALSE, None, tracker[n])
    BY <1>2 DEF TryAddState, Tracked, MarkedForRemove, Untracked, Entry
  <2>2. Proper(n, tracker[n]) /\ None \in Values \cup {None}
    BY <1>2 DEF Proper, Fits, WellFormed, Entries, Kinds, Entry, Untracked, Tracked, Stored, MarkedForRemove
  <2>3. Seen(n, tracker[n]) = Seen(n, tracker[n])
    BY <1>2 DEF Seen, Proper, Fits, WellFormed, Entries, Kinds, Entry, Untracked, Tracked, Stored, MarkedForRemove, Has
  <2>4. Inv' /\ Store!Does(n, FALSE, None, Seen(n, tracker[n]))
    BY <2>1, <2>2, <2>3, OperationStep
  <2>5. Store!Exists(n) = TRUE
    BY <1>2 DEF Store!Exists, Has, MarkedForRemove
  <2> QED
    BY <1>2, <2>4, <2>5 DEF Store!TryAdd, Seen, Has, Loaded, Untracked, Tracked, MarkedForRemove, Entry, Store!Does, Store!Answer
<1>3. CASE ~Has(n) /\ ~MarkedForRemove(n)
  <2>1. Does(n, TRUE, None, Entry("add", v))
    BY <1>3 DEF TryAddState, Tracked, MarkedForRemove, Untracked, Entry
  <2>2. Proper(n, Entry("add", v)) /\ None \in Values \cup {None}
    BY <1>3 DEF Proper, Fits, WellFormed, Entries, Kinds, Entry, Untracked, Tracked, Stored, MarkedForRemove
  <2>3. Seen(n, Entry("add", v)) = v
    BY <1>3 DEF Seen, Proper, Fits, WellFormed, Entries, Kinds, Entry, Untracked, Tracked, Stored, MarkedForRemove, Has
  <2>4. Inv' /\ Store!Does(n, TRUE, None, v)
    BY <2>1, <2>2, <2>3, OperationStep
  <2>5. Store!Exists(n) = FALSE
    BY <1>3 DEF Store!Exists, Has, MarkedForRemove
  <2> QED
    BY <1>3, <2>4, <2>5 DEF Store!TryAdd, Seen, Has, Loaded, Untracked, Tracked, MarkedForRemove, Entry
<1> QED
  BY <1>1, <1>2, <1>3

\* set_state writes to the copy.
LEMMA SetStep ==
  ASSUME Inv, InCode, UNCHANGED <<phase, final, strayed>>, NEW n \in Names \ strayed, NEW v \in Values,
         SetState(n, v)
  PROVE  Inv' /\ Store!Set(n, v)
<1> USE Before, NoneAssumption
<1>1. CASE Tracked(n)
  <2>1. Does(n, TRUE, None, Entry(Replaced(tracker[n].kind), v))
    BY <1>1 DEF SetState, Tracked, MarkedForRemove, Untracked, Entry
  <2>2. Proper(n, Entry(Replaced(tracker[n].kind), v)) /\ None \in Values \cup {None}
    BY <1>1 DEF Proper, Fits, WellFormed, Entries, Kinds, Entry, Replaced, Untracked, Tracked, Stored, MarkedForRemove
  <2>3. Seen(n, Entry(Replaced(tracker[n].kind), v)) = v
    BY <1>1 DEF Seen, Proper, Fits, WellFormed, Entries, Kinds, Entry, Replaced, Untracked, Tracked, Stored, MarkedForRemove, Has
  <2>4. Inv' /\ Store!Does(n, TRUE, None, v)
    BY <2>1, <2>2, <2>3, OperationStep
  <2> QED
    BY <1>1, <2>4 DEF Store!Set, Seen, Has, Loaded, Untracked, Tracked, MarkedForRemove, Entry
<1>2. CASE ~Tracked(n)
  <2>1. Does(n, TRUE, None, Entry(IF Stored(n) THEN "update" ELSE "add", v))
    BY <1>2 DEF SetState, Tracked, MarkedForRemove, Untracked, Entry
  <2>2. Proper(n, Entry(IF Stored(n) THEN "update" ELSE "add", v)) /\ None \in Values \cup {None}
    BY <1>2 DEF Proper, Fits, WellFormed, Entries, Kinds, Entry, Untracked, Tracked, Stored, MarkedForRemove
  <2>3. Seen(n, Entry(IF Stored(n) THEN "update" ELSE "add", v)) = v
    BY <1>2 DEF Seen, Proper, Fits, WellFormed, Entries, Kinds, Entry, Untracked, Tracked, Stored, MarkedForRemove, Has
  <2>4. Inv' /\ Store!Does(n, TRUE, None, v)
    BY <2>1, <2>2, <2>3, OperationStep
  <2> QED
    BY <1>2, <2>4 DEF Store!Set, Seen, Has, Loaded, Untracked, Tracked, MarkedForRemove, Entry
<1> QED
  BY <1>1, <1>2

\* get_or_add_state reads the copy, or adds to it.
LEMMA GetOrAddStep ==
  ASSUME Inv, InCode, UNCHANGED <<phase, final, strayed>>, NEW n \in Names \ strayed, NEW v \in Values,
         GetOrAddState(n, v)
  PROVE  Inv' /\ Store!GetOrAdd(n, v)
<1> USE Before, NoneAssumption
<1>1. CASE MarkedForRemove(n)
  <2>1. Does(n, TRUE, v, Entry("update", v))
    BY <1>1 DEF GetOrAddState, Tracked, MarkedForRemove, Untracked, Entry
  <2>2. Proper(n, Entry("update", v)) /\ v \in Values \cup {None}
    BY <1>1 DEF Proper, Fits, WellFormed, Entries, Kinds, Entry, Untracked, Tracked, Stored, MarkedForRemove
  <2>3. Seen(n, Entry("update", v)) = v
    BY <1>1 DEF Seen, Proper, Fits, WellFormed, Entries, Kinds, Entry, Untracked, Tracked, Stored, MarkedForRemove, Has
  <2>4. Inv' /\ Store!Does(n, TRUE, v, v)
    BY <2>1, <2>2, <2>3, OperationStep
  <2>5. Store!Exists(n) = FALSE
    BY <1>1 DEF Store!Exists, Has, MarkedForRemove
  <2> QED
    BY <1>1, <2>4, <2>5 DEF Store!GetOrAdd, Seen, Has, Loaded, Untracked, Tracked, MarkedForRemove, Entry
<1>2. CASE ~Has(n) /\ ~MarkedForRemove(n)
  <2>1. Does(n, TRUE, v, Entry("add", v))
    BY <1>2 DEF GetOrAddState, Tracked, MarkedForRemove, Untracked, Entry
  <2>2. Proper(n, Entry("add", v)) /\ v \in Values \cup {None}
    BY <1>2 DEF Proper, Fits, WellFormed, Entries, Kinds, Entry, Untracked, Tracked, Stored, MarkedForRemove
  <2>3. Seen(n, Entry("add", v)) = v
    BY <1>2 DEF Seen, Proper, Fits, WellFormed, Entries, Kinds, Entry, Untracked, Tracked, Stored, MarkedForRemove, Has
  <2>4. Inv' /\ Store!Does(n, TRUE, v, v)
    BY <2>1, <2>2, <2>3, OperationStep
  <2>5. Store!Exists(n) = FALSE
    BY <1>2 DEF Store!Exists, Has, MarkedForRemove
  <2> QED
    BY <1>2, <2>4, <2>5 DEF Store!GetOrAdd, Seen, Has, Loaded, Untracked, Tracked, MarkedForRemove, Entry
<1>3. CASE Has(n)
  <2>1. Does(n, TRUE, Loaded(n).val, Loaded(n))
    BY <1>3 DEF GetOrAddState, Tracked, MarkedForRemove, Untracked, Entry
  <2>2. Proper(n, Loaded(n)) /\ Loaded(n).val \in Values \cup {None}
    BY <1>3 DEF Proper, Fits, WellFormed, Entries, Kinds, Entry, Loaded, Untracked, Tracked, Stored, MarkedForRemove
  <2>3. Seen(n, Loaded(n)) = Loaded(n).val
    BY <1>3 DEF Seen, Proper, Fits, WellFormed, Entries, Kinds, Entry, Loaded, Untracked, Tracked, Stored, MarkedForRemove, Has
  <2>4. Inv' /\ Store!Does(n, TRUE, Loaded(n).val, Loaded(n).val)
    BY <2>1, <2>2, <2>3, OperationStep
  <2>5. Store!Exists(n) = TRUE
    BY <1>3 DEF Store!Exists, Has, MarkedForRemove
  <2> QED
    BY <1>3, <2>4, <2>5 DEF Store!GetOrAdd, Seen, Has, Loaded, Untracked, Tracked, MarkedForRemove, Entry
<1> QED
  BY <1>1, <1>2, <1>3

\* add_or_update_state adds to the copy or updates what it holds.
LEMMA AddOrUpdateStep ==
  ASSUME Inv, InCode, UNCHANGED <<phase, final, strayed>>, NEW n \in Names \ strayed, NEW v \in Values, NEW new \in Values,
         AddOrUpdateState(n, v, new)
  PROVE  Inv' /\ Store!AddOrUpdate(n, v, new)
<1> USE Before, NoneAssumption
<1>1. CASE MarkedForRemove(n)
  <2>1. Does(n, TRUE, v, Entry("update", v))
    BY <1>1 DEF AddOrUpdateState, Tracked, MarkedForRemove, Untracked, Entry
  <2>2. Proper(n, Entry("update", v)) /\ v \in Values \cup {None}
    BY <1>1 DEF Proper, Fits, WellFormed, Entries, Kinds, Entry, Untracked, Tracked, Stored, MarkedForRemove
  <2>3. Seen(n, Entry("update", v)) = v
    BY <1>1 DEF Seen, Proper, Fits, WellFormed, Entries, Kinds, Entry, Untracked, Tracked, Stored, MarkedForRemove, Has
  <2>4. Inv' /\ Store!Does(n, TRUE, v, v)
    BY <2>1, <2>2, <2>3, OperationStep
  <2>5. Store!Exists(n) = FALSE
    BY <1>1 DEF Store!Exists, Has, MarkedForRemove
  <2> QED
    BY <1>1, <2>4, <2>5 DEF Store!AddOrUpdate, Seen, Has, Loaded, Untracked, Tracked, MarkedForRemove, Entry
<1>2. CASE ~Has(n) /\ ~MarkedForRemove(n)
  <2>1. Does(n, TRUE, v, Entry("add", v))
    BY <1>2 DEF AddOrUpdateState, Tracked, MarkedForRemove, Untracked, Entry
  <2>2. Proper(n, Entry("add", v)) /\ v \in Values \cup {None}
    BY <1>2 DEF Proper, Fits, WellFormed, Entries, Kinds, Entry, Untracked, Tracked, Stored, MarkedForRemove
  <2>3. Seen(n, Entry("add", v)) = v
    BY <1>2 DEF Seen, Proper, Fits, WellFormed, Entries, Kinds, Entry, Untracked, Tracked, Stored, MarkedForRemove, Has
  <2>4. Inv' /\ Store!Does(n, TRUE, v, v)
    BY <2>1, <2>2, <2>3, OperationStep
  <2>5. Store!Exists(n) = FALSE
    BY <1>2 DEF Store!Exists, Has, MarkedForRemove
  <2> QED
    BY <1>2, <2>4, <2>5 DEF Store!AddOrUpdate, Seen, Has, Loaded, Untracked, Tracked, MarkedForRemove, Entry
<1>3. CASE Has(n)
  <2>1. Does(n, TRUE, new, Entry(Replaced(Loaded(n).kind), new))
    BY <1>3 DEF AddOrUpdateState, Tracked, MarkedForRemove, Untracked, Entry
  <2>2. Proper(n, Entry(Replaced(Loaded(n).kind), new)) /\ new \in Values \cup {None}
    BY <1>3 DEF Proper, Fits, WellFormed, Entries, Kinds, Entry, Replaced, Loaded, Untracked, Tracked, Stored, MarkedForRemove
  <2>3. Seen(n, Entry(Replaced(Loaded(n).kind), new)) = new
    BY <1>3 DEF Seen, Proper, Fits, WellFormed, Entries, Kinds, Entry, Replaced, Loaded, Untracked, Tracked, Stored, MarkedForRemove, Has
  <2>4. Inv' /\ Store!Does(n, TRUE, new, new)
    BY <2>1, <2>2, <2>3, OperationStep
  <2>5. Store!Exists(n) = TRUE
    BY <1>3 DEF Store!Exists, Has, MarkedForRemove
  <2> QED
    BY <1>3, <2>4, <2>5 DEF Store!AddOrUpdate, Seen, Has, Loaded, Untracked, Tracked, MarkedForRemove, Entry
<1> QED
  BY <1>1, <1>2, <1>3

\* The view of the states that have not strayed, as the function the copy is.
Copy == [n \in Names \ strayed |-> View(n)]

LEMMA CopyHolds == Store!Held = Names \ strayed /\ \A n \in Names \ strayed : Copy[n] = View(n)
BY DEF Store!Held, Copy

\* Any operation of the actor's code is one on the copy.
LEMMA OperateStep ==
  ASSUME Inv, ActorOperates
  PROVE  Inv' /\ Store!Next
<1> USE DEF ActorOperates
<1>1. PICK n \in Names :
        \/ TryGetState(n) \/ ContainsState(n) \/ TryRemoveState(n)
        \/ \E v \in Values : TryAddState(n, v) \/ SetState(n, v) \/ GetOrAddState(n, v)
        \/ \E v, new \in Values : AddOrUpdateState(n, v, new)
  BY DEF Operate
<1>s. CASE n \in strayed
  <2>1. /\ Inv' /\ UNCHANGED <<store, sent>>
        /\ answer' \in [found: BOOLEAN, val: Values \cup {None}]
        /\ tracker' = [tracker EXCEPT ![n] = tracker'[n]]
    BY <1>1, <1>s, StrayStep
  <2>2. \A m \in Names \ strayed : View(m)' = View(m)
    BY <1>s, <2>1 DEF Inv, TypeOK, View, MarkedForRemove, Tracked
  <2>3. UNCHANGED Copy
    BY <2>2 DEF Copy
  <2>4. Store!Held # Names
    BY <1>s, CopyHolds DEF Inv, TypeOK
  <2> QED
    BY <2>1, <2>3, <2>4 DEF Store!Next, Store!Strays, Copy
<1>n. n \notin strayed => n \in Store!Held
  BY CopyHolds
<1>2. CASE n \notin strayed /\ TryGetState(n)
  BY <1>2, <1>n, TryGetStep DEF Store!Next
<1>3. CASE n \notin strayed /\ ContainsState(n)
  BY <1>3, <1>n, ContainsStep DEF Store!Next
<1>4. CASE n \notin strayed /\ TryRemoveState(n)
  BY <1>4, <1>n, TryRemoveStep DEF Store!Next
<1>5. ASSUME n \notin strayed, NEW v \in Values,
             TryAddState(n, v) \/ SetState(n, v) \/ GetOrAddState(n, v)
      PROVE  Inv' /\ Store!Next
  BY <1>5, <1>n, TryAddStep, SetStep, GetOrAddStep DEF Store!Next
<1>6. ASSUME n \notin strayed, NEW v \in Values, NEW new \in Values, AddOrUpdateState(n, v, new)
      PROVE  Inv' /\ Store!Next
  BY <1>6, <1>n, AddOrUpdateStep DEF Store!Next
<1> QED
  BY <1>1, <1>s, <1>2, <1>3, <1>4, <1>5, <1>6

\* Emptying the tracker discards the copy, wherever the actor goes then,
\* also when a transaction has reached the store that was to store the copy.
LEMMA ClearStep ==
  ASSUME Inv, tracker' = Nothing, sent' = Nothing, strayed' = {}, UNCHANGED answer,
         store' = store \/ (store' \in [Names -> Values \cup {None}] /\ Store!Stores),
         phase' \in {"inactive", "activating", "idle", "running"}, final' \in BOOLEAN
  PROVE  Inv' /\ Store!Discard
<1>1. TypeOK'
  BY DEF Inv, TypeOK, Nothing, Untracked, Entry, Entries, Kinds
<1>2. \A n \in Names : tracker'[n] = Untracked /\ sent'[n] = Untracked
  BY DEF Nothing
<1>3. TrackerAgrees'
  BY <1>2 DEF TrackerAgrees, Fits, WellFormed, Untracked, Entry
<1>4. SavingAlone'
  BY DEF SavingAlone, Saving, Nothing
<1>5. \A n \in Names : View(n)' = store'[n]
  BY <1>2 DEF View, MarkedForRemove, Tracked, Untracked, Entry
<1>6. Copy' = store'
  BY <1>1, <1>5 DEF Copy, TypeOK
<1>7. (tracker = Nothing)'
  BY DEF Nothing
<1>8. Inv'
  BY <1>1, <1>3, <1>4, <1>7 DEF Inv
<1>9. Store!Discard
  BY <1>6 DEF Store!Discard, Store!Failed, Copy
<1> QED
  BY <1>8, <1>9

\* A change of phase alone changes nothing the copy shows.
LEMMA PhaseStep ==
  ASSUME Inv, UNCHANGED <<stateVars, final, strayed>>, ~Saving,
         phase' \in {"activating", "idle", "running"}
  PROVE  Inv' /\ UNCHANGED Store!storeVars
<1>1. \A n \in Names : View(n)' = View(n)
  BY DEF View, MarkedForRemove, Tracked, stateVars
<1>2. UNCHANGED Copy
  BY <1>1 DEF Copy
<1>3. TypeOK' /\ TrackerAgrees'
  BY DEF Inv, TypeOK, TrackerAgrees, stateVars, Fits, WellFormed, Entry, Untracked
<1>4. SavingAlone'
  BY DEF SavingAlone, Saving, stateVars, Nothing
<1>5. Inv'
  BY <1>3, <1>4 DEF Inv
<1>6. UNCHANGED Store!storeVars
  BY <1>2 DEF Store!storeVars, Copy, stateVars
<1> QED
  BY <1>5, <1>6

\* Marking the entries and sending them does not change what the actor sees,
\* although a removed entry is marked as unmodified while the save lasts.
LEMMA SaveBeginsStep ==
  ASSUME Inv, InCode, SaveBegins, UNCHANGED <<phase, strayed>>, final' \in BOOLEAN
  PROVE  Inv' /\ UNCHANGED Store!storeVars
<1>1. \A n \in Names : tracker[n] \in Entries /\ store[n] \in Values \cup {None}
                       /\ sent[n] = Untracked /\ Proper(n, tracker[n])
  BY NotSaving, TrackedProper DEF InCode, Inv, TypeOK
<1>2. \A n \in Names :
        /\ sent'[n] = IF Changed(n) THEN tracker[n] ELSE Untracked
        /\ tracker'[n] = IF Changed(n) THEN Entry("none", tracker[n].val) ELSE tracker[n]
  BY DEF SaveBegins
<1>3. TypeOK'
  <2>1. sent' \in [Names -> Entries]
    BY <1>1 DEF SaveBegins, Entries, Kinds, Untracked, Entry
  <2>2. tracker' \in [Names -> Entries]
    BY <1>1 DEF SaveBegins, Entries, Kinds, Entry
  <2> QED
    BY <2>1, <2>2 DEF SaveBegins, Inv, TypeOK
<1>4. TrackerAgrees'
  <2>0. WellFormed(Untracked) /\ Untracked.kind = "untracked" /\ \A stored : Fits(Untracked, stored)
    BY DEF WellFormed, Fits, Untracked, Entry
  <2>e. \A v : /\ WellFormed(Entry("none", v)) /\ Entry("none", v).kind = "none"
               /\ \A stored : Fits(Entry("none", v), stored)
    BY DEF WellFormed, Fits, Entry
  <2>1. ASSUME NEW n \in Names
        PROVE  /\ WellFormed(tracker'[n]) /\ WellFormed(sent'[n])
               /\ sent'[n].kind # "none"
               /\ sent'[n].kind # "untracked" => tracker'[n] = Entry("none", sent'[n].val)
               /\ IF n \in strayed THEN tracker'[n].kind \in {"none", "update", "remove"}
                  ELSE /\ Fits(tracker'[n], store[n]) /\ Fits(sent'[n], store[n])
                       /\ tracker'[n].kind = "none" /\ sent'[n].kind = "untracked" =>
                            tracker'[n].val = store[n] /\ store[n] # None
    <3>1. Proper(n, tracker[n])
      BY <1>1
    <3>2. CASE Changed(n)
      <4>1. sent'[n] = tracker[n] /\ tracker'[n] = Entry("none", tracker[n].val)
        BY <3>2, <1>2
      <4> QED
        BY <2>e, <3>1, <3>2, <4>1 DEF Proper, Changed
    <3>3. CASE ~Changed(n)
      <4>1. sent'[n] = Untracked /\ tracker'[n] = tracker[n]
        BY <3>3, <1>2
      <4> QED
        BY <2>0, <3>1, <4>1 DEF Proper
    <3> QED
      BY <3>2, <3>3
  <2> QED
    BY <2>1 DEF TrackerAgrees, SaveBegins, Fits, WellFormed, Untracked, Entry
<1>5. \A n \in Names : ~Changed(n)'
  <2> SUFFICES ASSUME NEW n \in Names
               PROVE  tracker'[n].kind \notin {"add", "update", "remove"}
    BY DEF Changed
  <2>1. CASE Changed(n)
    <3>1. tracker'[n] = Entry("none", tracker[n].val)
      BY <2>1, <1>2
    <3> QED
      BY <3>1 DEF Entry
  <2>2. CASE ~Changed(n)
    <3>1. tracker'[n] = tracker[n]
      BY <2>2, <1>2
    <3> QED
      BY <2>2, <3>1 DEF Changed
  <2> QED
    BY <2>1, <2>2
<1>6. SavingAlone'
  BY <1>5 DEF SavingAlone, HasChanges, InCode
<1>7. \A n \in Names : View(n)' = View(n)
  <2> SUFFICES ASSUME NEW n \in Names PROVE View(n)' = View(n)
    OBVIOUS
  <2>1. CASE Changed(n)
    <3>1. /\ sent'[n] = tracker[n] /\ tracker'[n] = Entry("none", tracker[n].val)
          /\ sent[n].kind = "untracked"
      BY <2>1, <1>1, <1>2 DEF Untracked, Entry
    <3> QED
      BY <2>1, <3>1 DEF Changed, View, MarkedForRemove, Tracked, Entry
  <2>2. CASE ~Changed(n)
    BY <2>2, <1>1, <1>2
    DEF Changed, View, MarkedForRemove, Tracked, Entry, Untracked, SaveBegins
  <2> QED
    BY <2>1, <2>2
<1>8. UNCHANGED Copy
  BY <1>7 DEF Copy
<1>9. Inv'
  BY <1>3, <1>4, <1>6 DEF Inv, InCode
<1> QED
  BY <1>8, <1>9 DEF Store!storeVars, Copy, SaveBegins

\* What the transaction stores is the copy, and what the actor sees meanwhile.
LEMMA AppliedSeen ==
  ASSUME Inv, Saving, NEW n \in Names
  PROVE  /\ Applied(n) \in Values \cup {None}
         /\ n \notin strayed => Applied(n) = View(n)
<1>1. /\ tracker[n].kind \notin {"add", "update", "remove"}
      /\ sent[n].kind \in Kinds /\ sent[n].val \in Values \cup {None}
      /\ store[n] \in Values \cup {None} /\ tracker[n].kind \in Kinds
  BY DEF Inv, TypeOK, SavingAlone, HasChanges, Changed, Entries
<1>2. /\ sent[n].kind # "none"
      /\ sent[n].kind # "untracked" => tracker[n] = Entry("none", sent[n].val)
      /\ n \notin strayed /\ tracker[n].kind = "none" /\ sent[n].kind = "untracked" =>
           tracker[n].val = store[n]
  BY DEF Inv, TrackerAgrees
<1>3. CASE sent[n].kind = "untracked"
  BY <1>1, <1>2, <1>3 DEF Applied, View, MarkedForRemove, Tracked, Kinds
<1>4. CASE sent[n].kind # "untracked"
  <2>1. tracker[n].kind = "none" /\ tracker[n].val = sent[n].val
    BY <1>2, <1>4 DEF Entry
  <2> QED
    BY <1>1, <1>4, <2>1 DEF Applied, View, MarkedForRemove, Tracked
<1> QED
  BY <1>3, <1>4

\* So the store may be said to take the copy.
LEMMA TransactionStores ==
  ASSUME Inv, Saving, store' = [n \in Names |-> Applied(n)]
  PROVE  store' \in [Names -> Values \cup {None}] /\ Store!Stores
<1>1. store' \in [Names -> Values \cup {None}]
  BY AppliedSeen
<1>2. \A n \in Names \ strayed : store'[n] = Copy[n]
  BY AppliedSeen, CopyHolds
<1> QED
  BY <1>1, <1>2, CopyHolds DEF Store!Stores, Store!State, Copy

\* After a successful save nothing that it carried is astray.
LEMMA SaveEndsStep ==
  ASSUME Inv, Saving, SaveEnds, phase' \in {"activating", "idle", "running"},
         UNCHANGED final, strayed' = {n \in strayed : sent[n] = Untracked}
  PROVE  Inv' /\ Store!Save
<1>1. \A n \in Names :
        /\ tracker[n] \in Entries /\ sent[n] \in Entries
        /\ store[n] \in Values \cup {None} /\ ~Changed(n)
        /\ store'[n] = Applied(n) /\ sent'[n] = Untracked
        /\ tracker'[n] = IF sent[n].kind = "remove" THEN Untracked ELSE tracker[n]
  BY DEF Inv, TypeOK, SavingAlone, HasChanges, SaveEnds, Popped, Nothing
<1>2. store' \in [Names -> Values \cup {None}] /\ Store!Stores
  BY TransactionStores DEF SaveEnds
<1>3. TypeOK'
  <2>1. tracker' \in [Names -> Entries] /\ sent' \in [Names -> Entries]
    BY <1>1 DEF SaveEnds, Popped, Nothing, Entries, Kinds, Untracked, Entry
  <2> QED
    BY <1>2, <2>1 DEF SaveEnds, Inv, TypeOK
<1>4. ASSUME NEW n \in Names
      PROVE  /\ WellFormed(tracker'[n])
             /\ IF n \in strayed' THEN tracker'[n].kind \in {"none", "update", "remove"}
                ELSE /\ Fits(tracker'[n], store'[n])
                     /\ tracker'[n].kind \in {"untracked", "none"}
                     /\ tracker'[n].kind = "none" =>
                          tracker'[n].val = store'[n] /\ store'[n] # None
  <2>0. WellFormed(Untracked) /\ Untracked.kind = "untracked" /\ \A stored : Fits(Untracked, stored)
    BY DEF WellFormed, Fits, Untracked, Entry
  <2>1. /\ WellFormed(tracker[n]) /\ WellFormed(sent[n]) /\ sent[n].kind # "none"
        /\ sent[n].kind # "untracked" => tracker[n] = Entry("none", sent[n].val)
        /\ IF n \in strayed THEN tracker[n].kind \in {"none", "update", "remove"}
           ELSE /\ Fits(tracker[n], store[n])
                /\ tracker[n].kind = "none" /\ sent[n].kind = "untracked" =>
                     tracker[n].val = store[n] /\ store[n] # None
    BY DEF Inv, TrackerAgrees
  <2>2. tracker[n].kind \in {"untracked", "none"}
    BY <1>1 DEF Changed, Entries, Kinds
  <2>3. CASE sent[n].kind = "untracked"
    <3>1. sent[n] = Untracked /\ tracker'[n] = tracker[n] /\ store'[n] = store[n]
      BY <1>1, <2>1, <2>3 DEF WellFormed, Applied
    <3> QED
      BY <2>1, <2>2, <2>3, <3>1
  <2>4. CASE sent[n].kind = "remove"
    <3>1. tracker'[n] = Untracked /\ n \notin strayed'
      BY <1>1, <2>0, <2>4
    <3> QED
      BY <2>0, <3>1
  <2>5. CASE sent[n].kind \in {"add", "update"}
    <3>1. /\ tracker'[n] = Entry("none", sent[n].val) /\ n \notin strayed'
          /\ store'[n] = sent[n].val /\ sent[n].val # None
      BY <1>1, <2>0, <2>1, <2>5 DEF Applied, WellFormed
    <3> QED
      BY <3>1 DEF Entry, Fits, WellFormed
  <2> QED
    BY <1>1, <2>1, <2>3, <2>4, <2>5 DEF Entries, Kinds
<1>5. TrackerAgrees'
  <2>0. WellFormed(Untracked) /\ Untracked.kind = "untracked" /\ \A stored : Fits(Untracked, stored)
    BY DEF WellFormed, Fits, Untracked, Entry
  <2>1. \A n \in Names :
          /\ WellFormed(tracker'[n]) /\ WellFormed(sent'[n])
          /\ sent'[n].kind # "none"
          /\ sent'[n].kind # "untracked" => tracker'[n] = Entry("none", sent'[n].val)
          /\ IF n \in strayed' THEN tracker'[n].kind \in {"none", "update", "remove"}
             ELSE /\ Fits(tracker'[n], store'[n]) /\ Fits(sent'[n], store'[n])
                  /\ tracker'[n].kind = "none" /\ sent'[n].kind = "untracked" =>
                       tracker'[n].val = store'[n] /\ store'[n] # None
    BY <1>1, <1>4, <2>0
  <2> QED
    BY <2>1 DEF TrackerAgrees, Fits, WellFormed, Untracked, Entry
<1>6. Inv'
  BY <1>3, <1>5 DEF Inv, SavingAlone, Saving, SaveEnds, Nothing
<1>7. \A n \in Names \ strayed' : View(n)' = store'[n]
  BY <1>1, <1>4 DEF View, MarkedForRemove, Tracked, Untracked, Entry
<1>8. Copy' = [n \in Names \ strayed' |-> store'[n]]
  BY <1>7 DEF Copy
<1>9. Names \ strayed \subseteq Names \ strayed' /\ Names \ strayed' \in SUBSET Names
  OBVIOUS
<1> QED
  BY <1>2, <1>6, <1>8, <1>9, CopyHolds DEF Store!Save, Copy, SaveEnds

\* When the tracker survives a failed save, what the save would have changed
\* goes astray and nothing else.
LEMMA LoseStep ==
  ASSUME Inv, Saving, sent' = Nothing, UNCHANGED <<tracker, answer, final>>,
         store' \in {store, [n \in Names |-> Applied(n)]},
         phase' \in {"activating", "idle", "running"},
         strayed' = strayed \cup {n \in Names : Applied(n) # store[n]}
  PROVE  Inv' /\ Store!Lose
<1>0. WellFormed(Untracked) /\ Untracked.kind = "untracked" /\ \A stored : Fits(Untracked, stored)
  BY DEF WellFormed, Fits, Untracked, Entry
<1>1. \A n \in Names : sent'[n] = Untracked
  BY DEF Nothing
<1>2. /\ store' \in [Names -> Values \cup {None}]
      /\ store' = store \/ Store!Stores
  BY TransactionStores DEF Inv, TypeOK
<1>3. ASSUME NEW n \in Names
      PROVE  /\ WellFormed(tracker[n])
             /\ tracker[n].kind \in {"untracked", "none"}
             /\ IF n \in strayed' THEN tracker[n].kind \in {"none", "update", "remove"}
                ELSE /\ store'[n] = store[n] /\ Fits(tracker[n], store[n])
                     /\ tracker[n].kind = "none" => tracker[n].val = store[n] /\ store[n] # None
  <2>1. /\ WellFormed(tracker[n]) /\ WellFormed(sent[n]) /\ sent[n].kind # "none"
        /\ sent[n].kind # "untracked" => tracker[n] = Entry("none", sent[n].val)
        /\ IF n \in strayed THEN tracker[n].kind \in {"none", "update", "remove"}
           ELSE /\ Fits(tracker[n], store[n]) /\ Fits(sent[n], store[n])
                /\ tracker[n].kind = "none" /\ sent[n].kind = "untracked" =>
                     tracker[n].val = store[n] /\ store[n] # None
    BY DEF Inv, TrackerAgrees
  <2>2. tracker[n].kind \in {"untracked", "none"} /\ sent[n].kind \in Kinds
    BY DEF Inv, TypeOK, SavingAlone, HasChanges, Changed, Entries, Kinds
  <2>3. CASE sent[n].kind = "untracked"
    <3>1. Applied(n) = store[n] /\ store'[n] = store[n]
      BY <2>3 DEF Applied, Inv, TypeOK
    <3> QED
      BY <2>1, <2>2, <2>3, <3>1
  <2>4. CASE sent[n].kind # "untracked"
    <3>1. tracker[n].kind = "none" /\ tracker[n].val = sent[n].val
      BY <2>1, <2>4 DEF Entry
    <3>2. CASE n \in strayed'
      BY <2>1, <3>1, <3>2
    <3>3. CASE n \notin strayed'
      <4>1. Applied(n) = store[n] /\ n \notin strayed
        BY <3>3
      <4>2. store'[n] = store[n]
        BY <4>1
      <4>3. sent[n].kind \in {"add", "update", "remove"}
        BY <2>1, <2>2, <2>4 DEF Kinds
      <4>4. sent[n].val = store[n] /\ store[n] # None
        BY <2>1, <4>1, <4>3 DEF Applied, Fits, WellFormed
      <4> QED
        BY <2>1, <3>1, <3>3, <4>1, <4>2, <4>4 DEF Fits
    <3> QED
      BY <3>2, <3>3
  <2> QED
    BY <2>3, <2>4
<1>4. TrackerAgrees'
  <2>1. \A n \in Names :
          /\ WellFormed(tracker'[n]) /\ WellFormed(sent'[n])
          /\ sent'[n].kind # "none"
          /\ sent'[n].kind # "untracked" => tracker'[n] = Entry("none", sent'[n].val)
          /\ IF n \in strayed' THEN tracker'[n].kind \in {"none", "update", "remove"}
             ELSE /\ Fits(tracker'[n], store'[n]) /\ Fits(sent'[n], store'[n])
                  /\ tracker'[n].kind = "none" /\ sent'[n].kind = "untracked" =>
                       tracker'[n].val = store'[n] /\ store'[n] # None
    BY <1>0, <1>1, <1>3
  <2> QED
    BY <2>1 DEF TrackerAgrees, Fits, WellFormed, Untracked, Entry
<1>5. TypeOK'
  BY <1>2 DEF Inv, TypeOK, Nothing, Untracked, Entry, Entries, Kinds
<1>6. Inv'
  BY <1>4, <1>5 DEF Inv, SavingAlone, Saving, Nothing
<1>7. \A n \in Names \ strayed' : View(n)' = store[n] /\ Copy[n] = store[n]
  <2> SUFFICES ASSUME NEW n \in Names \ strayed' PROVE View(n)' = store[n] /\ Copy[n] = store[n]
    OBVIOUS
  <2>1. View(n)' = store[n]
    BY <1>0, <1>1, <1>3 DEF View, MarkedForRemove, Tracked
  <2>2. Applied(n) = store[n] /\ n \in Names \ strayed
    OBVIOUS
  <2> QED
    BY <2>1, <2>2, AppliedSeen, CopyHolds
<1>8. Names \ strayed' = {m \in Store!Held : Copy[m] = store[m]}
  BY AppliedSeen, CopyHolds
<1>9. Copy' = [n \in {m \in Store!Held : Copy[m] = store[m]} |-> Copy[n]]
  BY <1>7, <1>8 DEF Copy
<1> QED
  BY <1>2, <1>6, <1>9 DEF Store!Lose, Store!Failed, Copy

----------------------------------------------------------------------------

\* Every step preserves the invariant, and is a step of the copy or none.
LEMMA NextStep ==
  ASSUME Inv, [Next]_vars
  PROVE  Inv' /\ [Store!Next]_(Store!storeVars)
<1>0. /\ phase \in {"inactive", "activating", "idle", "running"} /\ final \in BOOLEAN
      /\ (phase = "inactive" => tracker = Nothing)
      /\ (Saving => phase \in {"activating", "running"})
  BY DEF Inv, TypeOK, SavingAlone
<1>1. CASE Dispatch
  <2>1. sent = Nothing
    BY <1>0, <1>1 DEF Dispatch, Saving
  <2>2. CASE phase = "inactive"
    BY <1>0, <1>1, <2>1, <2>2, ClearStep DEF Dispatch, Store!Next
  <2>3. CASE phase = "idle"
    BY <1>0, <1>1, <2>1, <2>3, PhaseStep DEF Dispatch, Saving, stateVars
  <2> QED
    BY <1>1, <2>2, <2>3 DEF Dispatch
<1>2. CASE ActorOperates
  BY <1>2, OperateStep
<1>3. CASE ActorClears
  BY <1>0, <1>3, ClearStep DEF ActorClears, ClearCache, InCode, Saving, Store!Next
<1>4. CASE ActorSaves
  BY <1>4, SaveBeginsStep DEF ActorSaves
<1>5. CASE CodeReturns
  <2>1. CASE HasChanges
    BY <1>5, <2>1, SaveBeginsStep DEF CodeReturns
  <2>2. CASE ~HasChanges
    BY <1>5, <2>2, PhaseStep DEF CodeReturns, NextPhase, InCode
  <2> QED
    BY <2>1, <2>2
<1>6. CASE SaveReturns
  <2>1. phase' \in {"activating", "idle", "running"}
    BY <1>0, <1>6 DEF SaveReturns, NextPhase
  <2> QED
    BY <1>6, <2>1, SaveEndsStep DEF SaveReturns, Store!Next
<1>7. CASE CodeRaises
  <2>1. sent = Nothing /\ ~Saving /\ UNCHANGED <<store, sent, answer, final>>
    BY <1>7 DEF CodeRaises, InCode, Saving
  <2>2. PICK error \in MethodErrors :
          Fails(error) /\ strayed' = IF Resets(error) THEN {} ELSE strayed
    BY <1>7 DEF CodeRaises
  <2>3. phase' \in {"inactive", "idle"} /\ error # "caught"
    BY <2>2, ErrorsAssumption DEF Fails
  <2>4. CASE Resets(error)
    <3>1. tracker' = Nothing /\ strayed' = {}
      BY <2>2, <2>4 DEF Fails, Resets, ResetAfter
    <3> QED
      BY <1>0, <2>1, <2>3, <3>1, ClearStep DEF Store!Next
  <2>5. CASE ~Resets(error)
    <3>1. phase' = "idle" /\ UNCHANGED <<tracker, strayed>>
      BY <2>2, <2>3, <2>5 DEF Fails, Resets, ResetAfter
    <3> QED
      BY <2>1, <3>1, PhaseStep DEF stateVars
  <2> QED
    BY <2>4, <2>5
<1>8. CASE SaveRaises
  <2>1. Saving /\ sent' = Nothing /\ UNCHANGED <<answer, final>>
        /\ store' \in {store, [n \in Names |-> Applied(n)]}
    BY <1>8 DEF SaveRaises
  <2>2. PICK error \in SaveErrors :
          /\ IF error = "caught" THEN ~final /\ UNCHANGED <<phase, tracker>> ELSE Fails(error)
          /\ strayed' = IF Resets(error) THEN {}
                        ELSE strayed \cup {n \in Names : Applied(n) # store[n]}
    BY <1>8 DEF SaveRaises
  <2>3. CASE Resets(error)
    <3>1. tracker' = Nothing /\ strayed' = {} /\ phase' \in {"inactive", "idle"}
      BY <2>2, <2>3 DEF Resets, Fails, ResetAfter
    <3>2. store' = store \/ (store' \in [Names -> Values \cup {None}] /\ Store!Stores)
      BY <2>1, TransactionStores
    <3> QED
      BY <1>0, <2>1, <3>1, <3>2, ClearStep DEF Store!Next
  <2>4. CASE ~Resets(error)
    <3>1. UNCHANGED tracker /\ phase' \in {"activating", "idle", "running"}
      BY <1>0, <2>1, <2>2, <2>4 DEF Resets, Fails, ResetAfter
    <3> QED
      BY <2>1, <2>2, <2>4, <3>1, LoseStep DEF Store!Next
  <2> QED
    BY <2>3, <2>4
<1>9. CASE Deactivate
  BY <1>0, <1>9, ClearStep DEF Deactivate, ClearCache, Saving, Store!Next
<1>10. CASE UNCHANGED vars
  <2>1. \A n \in Names : View(n)' = View(n)
    BY <1>10 DEF vars, stateVars, View, MarkedForRemove, Tracked
  <2>2. UNCHANGED Store!storeVars
    BY <1>10, <2>1 DEF vars, stateVars, Store!storeVars
  <2>3. Inv'
    BY <1>10
    DEF vars, stateVars, Inv, TypeOK, TrackerAgrees, Fits, SavingAlone, Saving, HasChanges,
        Changed, Nothing, Untracked, Entry, WellFormed
  <2> QED
    BY <2>2, <2>3
<1> QED
  BY <1>1, <1>2, <1>3, <1>4, <1>5, <1>6, <1>7, <1>8, <1>9, <1>10 DEF Next

\* The change kinds agree with the store, whatever sequence of operations,
\* saves, failures, activations and deactivations came before and whatever
\* the failures raised, for all states but those that a save has carried in
\* vain since the tracker was last emptied.
THEOREM Invariance == Spec => []Inv
<1>1. Init => Inv
  BY InitInv
<1>2. Inv /\ [Next]_vars => Inv'
  BY NextStep
<1> QED
  BY <1>1, <1>2, PTL DEF Spec

\* The state manager implements the private copy of the actor's state, for
\* every kind of exception that the actor's code and a save may raise.
THEOREM TrackerImplementsCopy == Spec => ImplementsStore
<1>1. Init => Store!Init
  <2> SUFFICES ASSUME Init PROVE Store!Init
    OBVIOUS
  <2>1. \A n \in Names : View(n) = store[n]
    BY DEF Init, View, MarkedForRemove, Tracked, Nothing, Untracked, Entry
  <2>2. Copy = store
    BY <2>1 DEF Init, Copy
  <2> QED
    BY <2>2 DEF Init, Store!Init, Store!State, Answer, Store!Answer, Copy
<1>2. Inv /\ [Next]_vars => [Store!Next]_(Store!storeVars)
  BY NextStep
<1> QED
  BY <1>1, <1>2, Invariance, PTL DEF Spec, ImplementsStore, Store!Spec

----------------------------------------------------------------------------
(* The mock.                                                               *)

\* The tracker of the mock is the one that the real manager has when the save
\* it awaits is over, and an untracked state is in the dictionary as it is then
\* in the store.  What is marked for removal is gone from the dictionary, and
\* what is added is not stored: removing it leaves no trace in either.
MockMatches ==
  /\ store \in [Names -> Values \cup {None}] /\ mock_state \in [Names -> Values \cup {None}]
  /\ tracker \in [Names -> Entries] /\ sent \in [Names -> Entries]
  /\ mock_tracker = Popped /\ mock_answer = answer
  /\ \A n \in Names :
       /\ Popped[n].kind = "untracked" => mock_state[n] = Applied(n)
       /\ tracker[n].kind = "untracked" => tracker[n] = Untracked
       /\ tracker[n].kind = "remove" => mock_state[n] = None
       /\ tracker[n].kind = "add" => store[n] = None
       /\ Saving => tracker[n].kind \in {"none", "untracked"}

MockInv == ~cleared => MockMatches

\* An operation on state n of both managers that leaves the same entry.
LEMMA BothDo ==
  ASSUME MockMatches, ~cleared, ~Saving, NEW n \in Names, NEW found, NEW val, NEW entry \in Entries,
         NEW value \in Values \cup {None},
         Does(n, found, val, entry), MockDoes(n, found, val, entry, value),
         entry.kind = "untracked" => entry = Untracked /\ value = store[n],
         entry.kind = "remove" => value = None,
         entry.kind = "add" => store[n] = None
  PROVE  MockInv'
<1> USE DEF Does, MockDoes, MockMatches
<1>1. /\ sent = Nothing /\ sent' = Nothing /\ store' = store /\ mock_answer' = answer'
      /\ tracker' = [tracker EXCEPT ![n] = entry] /\ mock_tracker' = [mock_tracker EXCEPT ![n] = entry]
      /\ mock_state' = [mock_state EXCEPT ![n] = value]
  BY DEF Saving
<1>2. Popped = tracker
  BY <1>1 DEF Popped, Nothing, Untracked, Entry
<1>3. tracker' \in [Names -> Entries] /\ mock_state' \in [Names -> Values \cup {None}]
  BY <1>1
<1>4. Popped' = tracker' /\ \A m \in Names : Applied(m)' = store[m]
  <2>1. Popped' = [m \in Names |-> tracker'[m]]
    BY <1>1 DEF Popped, Nothing, Untracked, Entry
  <2>2. \A m \in Names : Applied(m)' = store[m]
    BY <1>1 DEF Applied, Nothing, Untracked, Entry
  <2> QED
    BY <1>3, <2>1, <2>2
<1>5. \A m \in Names : Applied(m) = store[m]
  BY <1>1 DEF Applied, Nothing, Untracked, Entry
<1>6. ~Saving'
  BY <1>1 DEF Saving, Nothing, Untracked, Entry
<1>7. ASSUME NEW m \in Names
      PROVE  /\ tracker'[m].kind = "untracked" => tracker'[m] = Untracked /\ mock_state'[m] = store[m]
             /\ tracker'[m].kind = "remove" => mock_state'[m] = None
             /\ tracker'[m].kind = "add" => store[m] = None
  <2>1. CASE m = n
    BY <1>1, <2>1
  <2>2. CASE m # n
    <3>1. tracker'[m] = tracker[m] /\ mock_state'[m] = mock_state[m]
      BY <1>1, <2>2
    <3> QED
      BY <1>2, <1>5, <3>1
  <2> QED
    BY <2>1, <2>2
<1>8. mock_tracker' = tracker' /\ sent' \in [Names -> Entries] /\ store' \in [Names -> Values \cup {None}]
  BY <1>1, <1>2
<1> QED
  BY <1>1, <1>3, <1>4, <1>6, <1>7, <1>8 DEF MockInv

\* What the two managers hold of a state while no save is awaited.
LEMMA BothHold ==
  ASSUME MockMatches, ~Saving, NEW n \in Names
  PROVE  /\ mock_tracker[n] = tracker[n] /\ tracker[n] \in Entries
         /\ store[n] \in Values \cup {None} /\ mock_state[n] \in Values \cup {None}
         /\ ~Tracked(n) => tracker[n] = Untracked /\ mock_state[n] = store[n]
         /\ tracker[n].kind = "remove" => mock_state[n] = None
         /\ tracker[n].kind = "add" => store[n] = None
         /\ tracker[n].kind \in Kinds /\ tracker[n].val \in Values \cup {None}
<1>1. sent = Nothing
  BY DEF Saving
<1>2. Popped = tracker /\ Applied(n) = store[n]
  BY <1>1 DEF Popped, Applied, Nothing, Untracked, Entry, MockMatches
<1> QED
  BY <1>2 DEF MockMatches, Tracked, Entries

\* The entries that operations leave.
LEMMA EntryIs ==
  ASSUME NEW k \in Kinds, NEW v \in Values \cup {None}
  PROVE  Entry(k, v) \in Entries /\ Entry(k, v).kind = k /\ Entry(k, v).val = v
BY DEF Entry, Entries

\* Every operation leaves the two managers alike: a case for each kind of
\* entry there may be.
LEMMA BothOperate ==
  ASSUME MockMatches, ~cleared, ~Saving, OperateBoth
  PROVE  MockInv'
<1> USE DEF MockMarked, MockTracked, MockFresh, MockStored, MockTells, MockLoaded,
            MarkedForRemove, Tracked, Stored, Loaded, Kinds
<1>1. PICK n \in Names :
    \/ TryGetState(n) /\ MockTryGetState(n)
    \/ ContainsState(n) /\ MockContainsState(n)
    \/ TryRemoveState(n) /\ MockTryRemoveState(n)
    \/ \E v \in Values :
         \/ TryAddState(n, v) /\ MockTryAddState(n, v)
         \/ SetState(n, v) /\ MockSetState(n, v)
         \/ GetOrAddState(n, v) /\ MockGetOrAddState(n, v)
    \/ \E v, new \in Values : AddOrUpdateState(n, v, new) /\ MockAddOrUpdateState(n, v, new)
  BY DEF OperateBoth
<1> DEFINE e == tracker[n]
           l == Entry("none", store[n])
<1>0. /\ mock_tracker[n] = e /\ e \in Entries /\ store[n] \in Values \cup {None}
      /\ mock_state[n] \in Values \cup {None}
      /\ e.kind = "untracked" => e = Untracked /\ mock_state[n] = store[n]
      /\ e.kind = "remove" => mock_state[n] = None
      /\ e.kind = "add" => store[n] = None
      /\ e.kind \in Kinds /\ e.val \in Values \cup {None}
      /\ l \in Entries /\ l.kind = "none" /\ l.val = store[n]
      /\ Untracked \in Entries /\ Untracked.kind = "untracked" /\ l # Untracked
  BY BothHold, EntryIs DEF Untracked
<1>e. \A k \in Kinds : \A v \in Values \cup {None} : Entry(k, v) \in Entries /\ Entry(k, v).kind = k
  BY EntryIs
<1> HIDE DEF l
\* Nothing is changed: the entry and the dictionary stay as they are.
<1>k. ASSUME NEW found, NEW val, Does(n, found, val, e), MockDoes(n, found, val, e, mock_state[n])
      PROVE  MockInv'
  BY <1>0, <1>k, BothDo
\* The state is loaded, and mock_state has the same.
<1>l. ASSUME NEW found, NEW val, Does(n, found, val, l), MockDoes(n, found, val, l, mock_state[n])
      PROVE  MockInv'
  BY <1>0, <1>l, BothDo
\* It gets a new value.
<1>n. ASSUME NEW found, NEW val, NEW k \in {"add", "update"}, NEW v \in Values,
             k = "add" => store[n] = None,
             Does(n, found, val, Entry(k, v)), MockDoes(n, found, val, Entry(k, v), v)
      PROVE  MockInv'
  BY <1>0, <1>e, <1>n, BothDo
<1>2. CASE TryGetState(n) /\ MockTryGetState(n)
  <2>1. CASE e.kind = "remove"
    BY <1>0, <1>2, <1>k, <2>1 DEF TryGetState, MockTryGetState
  <2>2. CASE e.kind = "untracked" /\ store[n] = None
    BY <1>0, <1>2, <1>k, <2>2 DEF TryGetState, MockTryGetState
  <2>3. CASE e.kind = "untracked" /\ store[n] # None
    BY <1>0, <1>2, <1>l, <2>3 DEF TryGetState, MockTryGetState, l
  <2>4. CASE e.kind \notin {"untracked", "remove"}
    BY <1>0, <1>2, <1>k, <2>4 DEF TryGetState, MockTryGetState
  <2> QED
    BY <2>1, <2>2, <2>3, <2>4
<1>3. CASE ContainsState(n) /\ MockContainsState(n)
  <2> DEFINE found == IF Tracked(n) THEN ~MarkedForRemove(n) ELSE Stored(n)
  <2>1. (~(MockMarked(n) \/ MockFresh(n))) = found
    BY <1>0
  <2>2. Does(n, found, None, e) /\ MockDoes(n, found, None, e, mock_state[n])
    BY <1>0, <1>3, <2>1 DEF ContainsState, MockContainsState
  <2> QED
    BY <1>k, <2>2
<1>4. CASE TryRemoveState(n) /\ MockTryRemoveState(n)
  <2>1. CASE e.kind = "remove"
    BY <1>0, <1>4, <1>k, <2>1 DEF TryRemoveState, MockTryRemoveState
  <2>2. CASE e.kind = "untracked" /\ store[n] = None
    BY <1>0, <1>4, <1>k, <2>2 DEF TryRemoveState, MockTryRemoveState
  <2>3. CASE e.kind = "untracked" /\ store[n] # None
    <3> DEFINE r == Entry("remove", None)
    <3>1. Does(n, TRUE, None, r) /\ MockDoes(n, TRUE, None, r, None)
      BY <1>0, <1>4, <2>3 DEF TryRemoveState, MockTryRemoveState, MockPopped
    <3>2. r \in Entries /\ r.kind = "remove"
      BY <1>e
    <3> QED
      BY <3>1, <3>2, BothDo
  <2>4. CASE e.kind \notin {"untracked", "remove"}
    <3> DEFINE r == Removed(e)
    <3>1. Does(n, TRUE, None, r) /\ MockDoes(n, TRUE, None, r, None)
      BY <1>0, <1>4, <2>4 DEF TryRemoveState, MockTryRemoveState, MockPopped
    <3>2. r \in Entries /\ r.kind # "add" /\ (r.kind = "untracked" => r = Untracked /\ None = store[n])
      <4>1. CASE e.kind = "add"
        BY <1>0, <4>1 DEF Removed
      <4>2. CASE e.kind # "add"
        BY <1>0, <1>e, <4>2 DEF Removed
      <4> QED
        BY <4>1, <4>2
    <3> HIDE DEF r
    <3> QED
      BY <3>1, <3>2, BothDo
  <2> QED
    BY <2>1, <2>2, <2>3, <2>4
<1>5. ASSUME NEW v \in Values, TryAddState(n, v), MockTryAddState(n, v) PROVE MockInv'
  <2>1. CASE e.kind = "remove"
    <3> DEFINE r == Entry("update", v)
    <3>1. Does(n, TRUE, None, r) /\ MockDoes(n, TRUE, None, r, mock_state[n])
      BY <1>0, <1>5, <2>1 DEF TryAddState, MockTryAddState
    <3>2. r \in Entries /\ r.kind = "update"
      BY <1>e
    <3> QED
      BY <1>0, <3>1, <3>2, BothDo
  <2>2. CASE e.kind = "untracked" /\ store[n] = None
    BY <1>0, <1>5, <1>n, <2>2 DEF TryAddState, MockTryAddState
  <2>3. CASE e.kind # "remove" /\ ~(e.kind = "untracked" /\ store[n] = None)
    BY <1>0, <1>5, <1>k, <2>3 DEF TryAddState, MockTryAddState
  <2> QED
    BY <2>1, <2>2, <2>3
<1>6. ASSUME NEW v \in Values, SetState(n, v), MockSetState(n, v) PROVE MockInv'
  <2>1. CASE e.kind = "untracked" /\ store[n] = None
    BY <1>0, <1>6, <1>n, <2>1 DEF SetState, MockSetState
  <2>2. CASE e.kind = "untracked" /\ store[n] # None
    BY <1>0, <1>6, <1>n, <2>2, EntryIs DEF SetState, MockSetState, Replaced, l
  <2>3. CASE e.kind # "untracked"
    <3>1. Replaced(e.kind) \in {"add", "update"} /\ (Replaced(e.kind) = "add" => store[n] = None)
      BY <1>0 DEF Replaced
    <3>2. /\ Does(n, TRUE, None, Entry(Replaced(e.kind), v))
          /\ MockDoes(n, TRUE, None, Entry(Replaced(e.kind), v), v)
      BY <1>0, <1>6, <2>3 DEF SetState, MockSetState
    <3> QED
      BY <1>n, <3>1, <3>2
  <2> QED
    BY <2>1, <2>2, <2>3
<1>7. ASSUME NEW v \in Values, GetOrAddState(n, v), MockGetOrAddState(n, v) PROVE MockInv'
  <2>1. CASE e.kind = "remove"
    BY <1>0, <1>7, <1>n, <2>1 DEF GetOrAddState, MockGetOrAddState
  <2>2. CASE e.kind = "untracked" /\ store[n] = None
    BY <1>0, <1>7, <1>n, <2>2 DEF GetOrAddState, MockGetOrAddState
  <2>3. CASE e.kind = "untracked" /\ store[n] # None
    BY <1>0, <1>7, <1>l, <2>3 DEF GetOrAddState, MockGetOrAddState, l
  <2>4. CASE e.kind \notin {"untracked", "remove"}
    BY <1>0, <1>7, <1>k, <2>4 DEF GetOrAddState, MockGetOrAddState
  <2> QED
    BY <2>1, <2>2, <2>3, <2>4
<1>8. ASSUME NEW v \in Values, NEW new \in Values,
             AddOrUpdateState(n, v, new), MockAddOrUpdateState(n, v, new)
      PROVE  MockInv'
  <2>1. CASE e.kind = "remove"
    BY <1>0, <1>8, <1>n, <2>1 DEF AddOrUpdateState, MockAddOrUpdateState
  <2>2. CASE e.kind = "untracked" /\ store[n] = None
    BY <1>0, <1>8, <1>n, <2>2 DEF AddOrUpdateState, MockAddOrUpdateState
  <2>3. CASE e.kind = "untracked" /\ store[n] # None
    BY <1>0, <1>8, <1>n, <2>3 DEF AddOrUpdateState, MockAddOrUpdateState, Replaced, l
  <2>4. CASE e.kind \notin {"untracked", "remove"}
    <3>1. Replaced(e.kind) \in {"add", "update"} /\ (Replaced(e.kind) = "add" => store[n] = None)
      BY <1>0 DEF Replaced
    <3>2. /\ Does(n, TRUE, new, Entry(Replaced(e.kind), new))
          /\ MockDoes(n, TRUE, new, Entry(Replaced(e.kind), new), new)
      BY <1>0, <1>8, <2>4 DEF AddOrUpdateState, MockAddOrUpdateState
    <3> QED
      BY <1>n, <3>1, <3>2
  <2> QED
    BY <2>1, <2>2, <2>3, <2>4
<1> QED
  BY <1>1, <1>2, <1>3, <1>4, <1>5, <1>6, <1>7, <1>8

\* save_state begins: the mock is where the real manager will be.
LEMMA BothSave ==
  ASSUME MockMatches, ~Saving, SaveBegins, MockSaveState
  PROVE  MockInv'
<1> USE DEF SaveBegins, MockSaveState
<1>1. \A n \in Names :
        LET e == tracker[n] IN
        /\ mock_tracker[n] = e /\ e \in Entries /\ e.kind \in Kinds /\ e.val \in Values \cup {None}
        /\ store[n] \in Values \cup {None}
        /\ e.kind = "untracked" => e = Untracked /\ mock_state[n] = store[n]
        /\ e.kind = "remove" => mock_state[n] = None
  BY BothHold DEF Tracked
<1>2. \A n \in Names : sent'[n] \in Entries /\ tracker'[n] \in Entries
  BY <1>1, EntryIs DEF Kinds, Untracked
<1>3. sent' \in [Names -> Entries] /\ tracker' \in [Names -> Entries]
  BY <1>2
<1>4. ASSUME NEW n \in Names
      PROVE  /\ mock_tracker'[n] = Popped'[n]
             /\ Popped'[n].kind = "untracked" => mock_state'[n] = Applied(n)'
             /\ tracker'[n].kind \in {"none", "untracked"}
             /\ tracker'[n].kind = "untracked" => tracker'[n] = Untracked
  <2> DEFINE e == tracker[n]
  <2>0. mock_state' = mock_state /\ store' = store
    BY DEF SaveBegins
  <2>1. CASE e.kind = "remove"
    <3>1. sent'[n] = e /\ tracker'[n] = Entry("none", e.val) /\ mock_tracker'[n] = Untracked
      BY <1>1, <2>1 DEF Changed, MockMarked
    <3> QED
      BY <1>1, <2>0, <2>1, <3>1, EntryIs DEF Popped, Applied, Untracked, Kinds
  <2>2. CASE e.kind \in {"add", "update"}
    <3>1. sent'[n] = e /\ tracker'[n] = Entry("none", e.val) /\ mock_tracker'[n] = Entry("none", e.val)
      BY <1>1, <2>2 DEF Changed, MockMarked, MockTracked
    <3> QED
      BY <1>1, <2>0, <2>2, <3>1, EntryIs DEF Popped, Applied, Kinds
  <2>3. CASE e.kind = "none"
    <3>1. sent'[n] = Untracked /\ tracker'[n] = e /\ mock_tracker'[n] = Entry("none", e.val)
      BY <1>1, <2>3 DEF Changed, MockMarked, MockTracked
    <3>2. e = Entry("none", e.val)
      BY <1>1, <2>3 DEF Entries, Entry
    <3> QED
      BY <1>1, <2>0, <2>3, <3>1, <3>2, EntryIs DEF Popped, Applied, Untracked, Kinds
  <2>4. CASE e.kind = "untracked"
    <3>1. sent'[n] = Untracked /\ tracker'[n] = e /\ mock_tracker'[n] = Untracked
      BY <1>1, <2>4 DEF Changed, MockMarked, MockTracked
    <3> QED
      BY <1>1, <2>0, <2>4, <3>1, EntryIs DEF Popped, Applied, Untracked, Kinds
  <2> QED
    BY <1>1, <2>1, <2>2, <2>3, <2>4 DEF Kinds
<1> QED
  BY <1>3, <1>4 DEF MockInv, MockMatches, Popped

\* A save of the real manager ends; that of the mock was over at once.
LEMMA RealSaves ==
  ASSUME MockMatches, SaveEnds, Saving, UNCHANGED mockVars
  PROVE  MockInv'
<1> USE DEF SaveEnds, mockVars
<1>1. \A n \in Names : /\ tracker[n] \in Entries /\ sent[n] \in Entries
                       /\ tracker[n].kind \in {"none", "untracked"}
                       /\ tracker[n].kind = "untracked" => tracker[n] = Untracked
  BY DEF MockMatches
<1>2. \A n \in Names : /\ Applied(n) \in Values \cup {None} /\ Popped[n] \in Entries
                       /\ Popped[n].kind \in {"none", "untracked"}
                       /\ Popped[n].kind = "untracked" => Popped[n] = Untracked
  <2> SUFFICES ASSUME NEW n \in Names
               PROVE  /\ Applied(n) \in Values \cup {None} /\ Popped[n] \in Entries
                      /\ Popped[n].kind \in {"none", "untracked"}
                      /\ Popped[n].kind = "untracked" => Popped[n] = Untracked
    OBVIOUS
  <2>1. store[n] \in Values \cup {None} /\ sent[n].val \in Values \cup {None}
    BY <1>1 DEF MockMatches, Entries
  <2>2. Untracked \in Entries /\ Untracked.kind = "untracked"
    BY EntryIs DEF Untracked, Kinds
  <2> QED
    BY <1>1, <2>1, <2>2 DEF Applied, Popped
<1>3. /\ store' \in [Names -> Values \cup {None}] /\ tracker' \in [Names -> Entries]
      /\ sent' \in [Names -> Entries] /\ tracker' = Popped
  <2>1. Untracked \in Entries
    BY EntryIs DEF Untracked, Kinds
  <2> QED
    BY <1>2, <2>1 DEF Nothing, Popped
<1>4. \A n \in Names : Applied(n)' = Applied(n) /\ sent'[n].kind = "untracked"
  BY DEF Applied, Nothing, Untracked, Entry
<1>5. Popped' = Popped
  BY <1>3, <1>4 DEF Popped
<1>6. ~Saving'
  BY DEF Saving, Nothing, Untracked, Entry
<1>7. /\ mock_state' = mock_state /\ mock_tracker' = mock_tracker /\ mock_answer' = mock_answer
      /\ answer' = answer
  OBVIOUS
<1> QED
  BY <1>2, <1>3, <1>4, <1>5, <1>6, <1>7 DEF MockInv, MockMatches

\* Every operation of the mock answers like that of the real manager, in any
\* order of operations and saves, until the cache is cleared
\* (mock_state_manager.py): for every set of state names and values, although
\* one writes at once and the other at the end.
THEOREM MockAnswersAlike == MockSpec => []Alike
<1> DEFINE Start == /\ store \in [Names -> Values \cup {None}]
                    /\ tracker = Nothing /\ sent = Nothing /\ answer = Answer(FALSE, None)
                    /\ MockInit
<1>1. Start => MockInv
  <2> SUFFICES ASSUME Start PROVE MockMatches
    BY DEF MockInv
  <2>1. Untracked \in Entries /\ Untracked.kind = "untracked"
    BY EntryIs DEF Untracked, Kinds
  <2>2. \A n \in Names : Nothing[n] = Untracked
    BY DEF Nothing
  <2>3. Popped = Nothing /\ \A n \in Names : Applied(n) = store[n]
    BY <2>1, <2>2 DEF Popped, Applied, Nothing
  <2>4. Nothing \in [Names -> Entries]
    BY <2>1 DEF Nothing
  <2> QED
    BY <2>1, <2>2, <2>3, <2>4 DEF MockInit, MockMatches, Saving
<1>2. MockInv /\ [MockNext]_<<stateVars, mockVars>> => MockInv'
  <2> SUFFICES ASSUME MockInv, [MockNext]_<<stateVars, mockVars>>, ~cleared PROVE MockInv'
    <3>1. ASSUME cleared, [MockNext]_<<stateVars, mockVars>> PROVE cleared'
      <4>1. CASE MockNext
        BY <3>1, <4>1 DEF MockNext, OperateBoth, MockTryGetState, MockContainsState, MockTryRemoveState,
             MockTryAddState, MockSetState, MockGetOrAddState, MockAddOrUpdateState, MockTells, MockDoes,
             MockSaveState, MockClearCache, mockVars
      <4>2. CASE UNCHANGED <<stateVars, mockVars>>
        BY <3>1, <4>2 DEF mockVars
      <4> QED
        BY <3>1, <4>1, <4>2
    <3> QED
      BY <3>1 DEF MockInv
  <2>0. MockMatches
    BY DEF MockInv
  <2>1. CASE ~Saving /\ OperateBoth
    BY <2>0, <2>1, BothOperate
  <2>2. CASE ~Saving /\ SaveBegins /\ MockSaveState
    BY <2>0, <2>2, BothSave
  <2>3. CASE Saving /\ SaveEnds /\ UNCHANGED mockVars
    BY <2>0, <2>3, RealSaves
  <2>4. CASE ~Saving /\ ClearCache /\ MockClearCache
    BY <2>4 DEF MockClearCache, MockInv
  <2>5. CASE UNCHANGED <<stateVars, mockVars>>
    BY <2>0, <2>5 DEF MockInv, MockMatches, stateVars, mockVars, Popped, Applied, Saving
  <2> QED
    BY <2>1, <2>2, <2>3, <2>4, <2>5 DEF MockNext
<1>3. MockInv => Alike
  BY DEF MockInv, MockMatches, Alike
<1>4. MockSpec => Start /\ [][MockNext]_<<stateVars, mockVars>>
  BY DEF MockSpec
<1> QED
  BY <1>1, <1>2, <1>3, <1>4, PTL
=============================================================================
