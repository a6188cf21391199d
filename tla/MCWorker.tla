------------------------------ MODULE MCWorker ------------------------------
(* Worker for TLC.                                                         *)
EXTENDS Worker, TLC

CONSTANTS a, b

TwoItems == {a, b}
OneEach == [sem \in Semaphores |-> 1]

Calm == [kind |-> (a :> "workflow" @@ b :> "workflow"), faults |-> 0, fatal |-> FALSE, starts |-> 1,
         stops |-> FALSE, joinExpires |-> FALSE]

Pair == {a :> "workflow" @@ b :> "workflow", a :> "activity" @@ b :> "async"}
Single == {a :> k @@ b :> "absent" : k \in {"workflow", "async"}}

\* Two faults, or one with two items; a stop at any time, with a fault or
\* with a join that gives up.
Sound ==
  {[Calm EXCEPT !.kind = k, !.faults = 2] : k \in Single} \cup
  {[Calm EXCEPT !.kind = k, !.faults = 1, !.fatal = TRUE] : k \in Pair} \cup
  {[Calm EXCEPT !.kind = k, !.faults = 1, !.stops = TRUE] : k \in Pair} \cup
  {[Calm EXCEPT !.kind = k, !.stops = TRUE, !.joinExpires = x] :
     k \in Pair, x \in BOOLEAN}

\* Started, stopped and started again.
Restart == {[Calm EXCEPT !.starts = 2, !.stops = TRUE]}
=============================================================================
