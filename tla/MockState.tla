----------------------------- MODULE MockState -----------------------------
(***************************************************************************)
(* MockStateManager, on which the tests of an application run its actors:  *)
(* a change tracker like that of ActorStateManager, but every change is    *)
(* written to a dictionary at once, and a save only forgets the kinds.  It *)
(* is stepped here side by side with the real one.                         *)
(***************************************************************************)
EXTENDS ActorState

VARIABLES
  mock_state,    \* _mock_state
  mock_tracker,  \* _default_state_change_tracker
  mock_answer,   \* what the last operation returned
  cleared        \* clear_cache was called

mockVars == <<mock_state, mock_tracker, mock_answer, cleared>>

MockTracked(n) == mock_tracker[n].kind # "untracked"
MockMarked(n) == mock_tracker[n].kind = "remove"
MockStored(n) == mock_state[n] # None
MockFresh(n) == ~MockTracked(n) /\ ~MockStored(n)

MockDoes(n, found, val, entry, value) ==
  /\ mock_answer' = Answer(found, val)
  /\ mock_tracker' = [mock_tracker EXCEPT ![n] = entry]
  /\ mock_state' = [mock_state EXCEPT ![n] = value]
  /\ UNCHANGED cleared

\* An operation that answers and leaves the state alone.
MockTells(n, found, val) == MockDoes(n, found, val, mock_tracker[n], mock_state[n])

\* What an operation finds, loaded from the dictionary.
MockLoaded(n) == IF MockTracked(n) THEN mock_tracker[n] ELSE Entry("none", mock_state[n])

----------------------------------------------------------------------------
MockTryGetState(n) ==
  IF MockMarked(n) \/ MockFresh(n) THEN MockTells(n, FALSE, None)
  ELSE MockDoes(n, TRUE, MockLoaded(n).val, MockLoaded(n), mock_state[n])

MockContainsState(n) == MockTells(n, ~(MockMarked(n) \/ MockFresh(n)), None)

\* A state that was removed is not put back into the dictionary.
MockTryAddState(n, v) ==
  IF MockMarked(n) THEN MockDoes(n, TRUE, None, Entry("update", v), mock_state[n])
  ELSE IF MockFresh(n) THEN MockDoes(n, TRUE, None, Entry("add", v), v)
  ELSE MockTells(n, FALSE, None)

MockSetState(n, v) ==
  MockDoes(n, TRUE, None,
           Entry(IF MockFresh(n) THEN "add" ELSE Replaced(MockLoaded(n).kind), v), v)

\* A slip: an added state is forgotten by the tracker only.
MockPoppedHalf(n) == IF mock_tracker[n].kind = "add" THEN mock_state[n] ELSE None
MockPopped(n) == None

MockTryRemoveState(n) ==
  IF MockMarked(n) \/ MockFresh(n) THEN MockTells(n, FALSE, None)
  ELSE IF ~MockTracked(n) THEN MockDoes(n, TRUE, None, Entry("remove", None), MockPopped(n))
  ELSE MockDoes(n, TRUE, None, Removed(mock_tracker[n]), MockPopped(n))

MockGetOrAddState(n, v) ==
  IF MockMarked(n) \/ MockFresh(n)
  THEN MockDoes(n, TRUE, v, Entry(IF MockMarked(n) THEN "update" ELSE "add", v), v)
  ELSE MockDoes(n, TRUE, MockLoaded(n).val, MockLoaded(n), mock_state[n])

MockAddOrUpdateState(n, v, new) ==
  IF MockMarked(n) \/ MockFresh(n)
  THEN MockDoes(n, TRUE, v, Entry(IF MockMarked(n) THEN "update" ELSE "add", v), v)
  ELSE MockDoes(n, TRUE, new, Entry(Replaced(MockLoaded(n).kind), new), new)

MockSaveState ==
  /\ mock_tracker' = [n \in Names |->
       IF MockMarked(n) THEN Untracked
       ELSE IF MockTracked(n) THEN Entry("none", mock_tracker[n].val) ELSE Untracked]
  /\ UNCHANGED <<mock_state, mock_answer, cleared>>

\* What was changed since the last save is kept, and the real one drops it.
MockClearCache ==
  mock_tracker' = Nothing /\ cleared' = TRUE /\ UNCHANGED <<mock_state, mock_answer>>

----------------------------------------------------------------------------
(* A test and production: the same calls.                                  *)

MockInit ==
  /\ mock_state = store /\ mock_tracker = Nothing
  /\ mock_answer = Answer(FALSE, None) /\ cleared = FALSE

OperateBoth ==
  \E n \in Names :
    \/ TryGetState(n) /\ MockTryGetState(n)
    \/ ContainsState(n) /\ MockContainsState(n)
    \/ TryRemoveState(n) /\ MockTryRemoveState(n)
    \/ \E v \in Values :
         \/ TryAddState(n, v) /\ MockTryAddState(n, v)
         \/ SetState(n, v) /\ MockSetState(n, v)
         \/ GetOrAddState(n, v) /\ MockGetOrAddState(n, v)
    \/ \E v, new \in Values : AddOrUpdateState(n, v, new) /\ MockAddOrUpdateState(n, v, new)

MockNext ==
  \/ ~Saving /\ OperateBoth
  \/ ~Saving /\ SaveBegins /\ MockSaveState
  \/ Saving /\ SaveEnds /\ UNCHANGED mockVars
  \/ ~Saving /\ ClearCache /\ MockClearCache

MockSpec ==
  /\ store \in [Names -> Values \cup {None}]
  /\ tracker = Nothing /\ sent = Nothing /\ answer = Answer(FALSE, None)
  /\ MockInit
  /\ [][MockNext]_<<stateVars, mockVars>>

\* As long as the cache is not cleared, a test on the mock sees what the
\* actor sees in production: every operation answers the same, in any order
\* of operations and saves, though the two write at different times
\* (mock_state_manager.py, MockStateManager).
Alike == ~cleared => mock_answer = answer
=============================================================================
