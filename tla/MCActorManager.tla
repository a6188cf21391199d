--------------------------- MODULE MCActorManager ---------------------------
(* For TLC: ActorManager, and the state manager of an actor side by side   *)
(* with the mock of it.  A behaviour is of one.                            *)
EXTENDS ActorManager, MockState
CONSTANTS n1, n2, v1, v2
VARIABLE part

MCNames == {n1, n2}
MCValues == {v1, v2}
Raised == {"internal", "other"}
OrCaught == Raised \cup {"caught"}

mcVars == <<vars, mockVars, part>>

\* The mock of an actor in its host is not used.
MCInit ==
  /\ part \in {"actor", "mock"}
  /\ Init
  /\ IF part = "mock" THEN MockInit
     ELSE mock_state = store /\ mock_tracker = Nothing /\ mock_answer = answer /\ cleared = TRUE

\* The code under test runs from the start, without its host.
MCNext ==
  \/ part = "actor" /\ Next /\ UNCHANGED <<mockVars, part>>
  \/ part = "mock" /\ MockNext /\ phase' = "running" /\ UNCHANGED <<final, strayed, part>>

MCSpec == MCInit /\ [][MCNext]_mcVars
=============================================================================
