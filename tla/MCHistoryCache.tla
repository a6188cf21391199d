--------------------------- MODULE MCHistoryCache ---------------------------
(* HistoryCache for TLC.                                                   *)
EXTENDS HistoryCache

CONSTANTS i1, i2

Two == {i1, i2}

\* A roomy cache on one stream.
Roomy == [maxInstances |-> 2, maxBytes |-> 0, generations |-> 0,
          reconnects |-> 0, failures |-> 0]

\* Instances continue as new, in a cache too small for them; a stream is
\* replaced, or a fetch fails, and a byte budget evicts.
Sound ==
  {[Roomy EXCEPT !.maxInstances = 1, !.generations = 1],
   [Roomy EXCEPT !.maxBytes = 1, !.reconnects = 1],
   [Roomy EXCEPT !.maxInstances = 1, !.failures = 1]}

\* An instance continues as new, and a stream is replaced.
LatePut == {[Roomy EXCEPT !.generations = 1, !.reconnects = 1]}
=============================================================================
