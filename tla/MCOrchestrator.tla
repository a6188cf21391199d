--------------------------- MODULE MCOrchestrator ---------------------------
(* The workflow functions of the runs.                                     *)
EXTENDS Orchestrator

\* Retried activity and a plain one, awaited together; a failure is handled.
FanOut == <<Activity("a", 2), Activity("b", 0), All(<<1, 2>>), Yield(3, 6), Return,
            Activity("c", 0), Yield(4, 0), Return>>

\* An event raced with a limit, work, then one more event of that name.
Approval == <<WaitFor("x", "limit"), Yield(1, 3), Activity("a", 0), Yield(2, 5),
              WaitFor("x", "limit"), Yield(3, 7), Return>>

\* when_any over an event and a retried child; the loser stays pending.
Race == <<Child("k", 2), WaitFor("x", "none"), Any(<<1, 2>>), Yield(3, 0),
          Activity("b", 0), Yield(4, 7), Return>>

\* The zero timeout takes what is buffered or gives up at once; the rest of
\* the time the program works while events arrive.
Poll == <<WaitFor("x", "zero"), Yield(1, 3), Activity("a", 0), Yield(2, 9),
          WaitFor("x", "zero"), Yield(3, 7), Timer, Yield(4, 0), Return>>

\* Tasks awaited twice, and a composite over tasks that are complete.
Regroup == <<Activity("a", 0), Activity("b", 2), Any(<<1, 2>>), Yield(3, 0),
             All(<<1, 2, 3>>), Yield(4, 7), Return>>

\* Continue as new after every event, keeping the ones not consumed yet.
Eternal == <<WaitFor("x", "limit"), Yield(1, 3), Activity("a", 0), Yield(2, 5),
             ContinueAsNew(TRUE), Return>>

\* An event, then work; suspension may fall anywhere.
Pausable == <<WaitFor("x", "none"), Yield(1, 0), Activity("a", 0), Yield(2, 0), Return>>

\* Indefinite waits, which reserve an id since the upgrade, before, between
\* and after calls that the history numbered without them.
Legacy == <<Activity("a", 2), WaitFor("x", "none"), Yield(2, 0), Activity("b", 0),
            All(<<1, 3>>), Yield(4, 7), WaitFor("x", "none"), Timer, Yield(6, 0), Return>>

\* New code behind a patch, asked for twice.
Patched == <<Activity("a", 0), Yield(1, 0), IfPatched("p", 7), Activity("n", 0),
             Yield(2, 0), Return, Activity("z", 0), Yield(2, 0), IfPatched("p", 12),
             Activity("m", 0), Yield(3, 0), Return>>

\* Two indefinite waits in a row.
LegacyPair == <<WaitFor("x", "none"), WaitFor("x", "none"), Any(<<1, 2>>), Yield(3, 0),
                Activity("a", 0), Yield(4, 0), Return>>

\* A program to which nothing happens but its own work.
Calm(p) ==
  [prog |-> p, raises |-> 0, failures |-> 0, duplicates |-> 0, losses |-> 0,
   suspends |-> 0, terminates |-> 0, generations |-> 0, history |-> 60,
   careful |-> TRUE, upgrade |-> FALSE, falsy |-> {}]

\* Attempts fail, a completion comes twice, a response is lost, the worker
\* is upgraded under a workflow that runs.
TurnScenes ==
  {[Calm(p) EXCEPT !.failures = 2, !.duplicates = 1, !.losses = 1] : p \in {FanOut, Regroup}}
  \cup {[Calm(p) EXCEPT !.failures = 1, !.raises = 1] : p \in {Approval, Poll}}
  \cup {[Calm(Legacy) EXCEPT !.raises = 2, !.upgrade = TRUE],
        [Calm(Patched) EXCEPT !.failures = 1, !.upgrade = TRUE]}

\* Events race with limits and with work, and arrive around a suspension or
\* a new generation.
EventScenes ==
  {[Calm(p) EXCEPT !.raises = 2, !.failures = 1, !.duplicates = 1] : p \in {Approval, Poll, Race}}
  \cup {[Calm(Approval) EXCEPT !.raises = 2, !.losses = 1],
        [Calm(Eternal) EXCEPT !.raises = 3, !.generations = 2, !.losses = 1, !.terminates = 1],
        [Calm(Pausable) EXCEPT !.raises = 2, !.suspends = 2, !.history = 18]}

\* One scene for each disagreement with what the code says of itself.
SuspendTwice == {[Calm(Pausable) EXCEPT !.raises = 1, !.suspends = 2, !.careful = FALSE]}
RetryAfterReturn == {[Calm(Race) EXCEPT !.raises = 1, !.failures = 1]}
FalsyPayload == {[Calm(Eternal) EXCEPT !.raises = 2, !.generations = 1, !.falsy = {2}]}
TwoIndefiniteWaits == {[Calm(LegacyPair) EXCEPT !.raises = 1, !.upgrade = TRUE]}
SuspendOnce == {[Calm(Pausable) EXCEPT !.raises = 1, !.suspends = 1]}
=============================================================================
