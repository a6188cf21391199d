---------------------------- MODULE MCActorHost ----------------------------
(* ActorHost for TLC.                                                      *)
EXTENDS ActorHost, TLC

CONSTANTS r1, r2, r3, alice, bob

Three == {r1, r2, r3}
Two == {alice, bob}
Kinds(k1, k2, k3) == r1 :> k1 @@ r2 :> k2 @@ r3 :> k3

Calm == [actor |-> (r1 :> alice @@ r2 :> alice @@ r3 :> bob),
         kind |-> Kinds("invoke", "invoke", "absent"),
         breaks |-> 0, ends |-> {}, starts |-> 1, stops |-> 0, hangs |-> FALSE]

\* Two streams lost; a deactivation between calls and a call for a type that
\* is not hosted, with a lost stream; a stop at any time, with a lost stream
\* and actor code that may hang, or with a stream that fails for good, and a
\* restart.
Sound ==
  {[Calm EXCEPT !.breaks = 2],
   [Calm EXCEPT !.kind = Kinds("invoke", "deactivate", "reminder"), !.actor[r3] = Unhosted,
                !.breaks = 1],
   [Calm EXCEPT !.kind = Kinds("timer", "absent", "absent"), !.starts = 2, !.stops = 1,
                !.breaks = 1, !.hangs = TRUE],
   [Calm EXCEPT !.kind = Kinds("invoke", "absent", "absent"), !.starts = 2, !.stops = 1,
                !.breaks = 1, !.ends = {"fatal"}]}

\* A stream may end with status CANCELLED.
Cancelled == {[Calm EXCEPT !.ends = {"cancelled"}]}
=============================================================================
