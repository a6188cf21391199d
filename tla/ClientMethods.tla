--------------------------- MODULE ClientMethods ---------------------------
(***************************************************************************)
(* What a method of a client is to Calls: a record that tells how it       *)
(* treats a request, and the parts such a record is made of.               *)
(***************************************************************************)

Engines == {"single", "rpc", "http", "wait"}
Effects == {"read", "put", "once", "append"}

(* A method has                                                            *)
(*   engine   who makes the attempts                                       *)
(*   effect   what the sidecar does: "put" may be repeated, "once" is      *)
(*            refused when it was done before, "append" is done every time *)
(*   checks   whether the arguments are checked                            *)
(*   alpha    whether there is an alpha API to fall back to                *)
(*   raises   the exception for a failed call                              *)
(*   softly   refusals that are returned and not raised                    *)
Methods ==
  [engine: Engines, effect: Effects, checks: BOOLEAN, alpha: BOOLEAN,
   raises: {"RpcError", "DaprGrpcError", "DaprInternalError", "DaprHttpError"},
   softly: BOOLEAN]

Call(engine, effect) ==
  [engine |-> engine, effect |-> effect, checks |-> FALSE, alpha |-> FALSE,
   raises |-> IF engine = "http" THEN "DaprHttpError" ELSE "RpcError", softly |-> FALSE]

Retried(effect) == Call("rpc", effect)
Single(effect) == Call("single", effect)
Checked(m) == [m EXCEPT !.checks = TRUE]
Raising(m, exception) == [m EXCEPT !.raises = exception]
Wrapped(m) == Raising(m, "DaprGrpcError")
OrAlpha(m) == [m EXCEPT !.alpha = TRUE]
Answering(m) == [m EXCEPT !.softly = TRUE]
=============================================================================
