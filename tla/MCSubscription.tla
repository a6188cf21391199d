--------------------------- MODULE MCSubscription ---------------------------
(* Subscription for TLC.                                                   *)
EXTENDS Subscription

CONSTANTS a, b

TwoMessages == {a, b}

\* One message, two failures and a close() at any time, or two messages and
\* one failure.
Sound ==
  {[kind |-> k, topic |-> {a}, faults |-> 2, closes |-> TRUE] :
     k \in {"sync", "aio"}} \cup
  {[kind |-> "sync", topic |-> {a, b}, faults |-> 1, closes |-> FALSE]}
=============================================================================
