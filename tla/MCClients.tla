----------------------------- MODULE MCClients ------------------------------
(* For TLC: what the clients leave behind at a sidecar that fails, loses   *)
(* and delays.  The calls of every client, the documents that are kept     *)
(* with several of them, the connections to MCP servers and the watchers   *)
(* of configurations share no state, and a behaviour is of one.            *)
EXTENDS Calls, Configuration, Documents, Mcp, TLC

VARIABLE part

vars == <<part, callsVars, docVars, mcpVars, configVars>>

----------------------------------------------------------------------------
(* Calls                                                                   *)

Grpc == INSTANCE GrpcClient
Aio == INSTANCE AioGrpcClient
Actors == INSTANCE ActorClients
Workflow == INSTANCE WorkflowClients
AioWorkflow == INSTANCE AioWorkflowClients

EveryMethod ==
  Grpc!Api \cup Aio!Api \cup Actors!Api \cup Workflow!Api \cup AioWorkflow!Api
Waits == {m \in EveryMethod : m.engine = "wait"}

Quiet == [method |-> <<>>, good |-> TRUE, attempts |-> 0, timeout |-> 0, limit |-> 0,
          faults |-> 0, bare |-> FALSE, closes |-> FALSE]

\* Each method under each policy, with good and bad arguments and a sidecar
\* without the stable APIs; waits with and without a timeout or a limit of the
\* interceptor; two callers that compete or are closed.
EveryCall ==
  {[Quiet EXCEPT !.method = "a" :> m, !.attempts = n, !.faults = 3, !.good = g, !.bare = x] :
     m \in EveryMethod \ Waits, n \in {-1, 0, 1, 2}, g \in BOOLEAN, x \in BOOLEAN}
  \cup {[Quiet EXCEPT !.method = "a" :> m, !.timeout = t, !.faults = 4] : m \in Waits, t \in {0, 1, 4, 7}}
  \cup {[Quiet EXCEPT !.method = "a" :> m, !.timeout = t, !.limit = 3, !.faults = 4] : m \in Waits, t \in {0, 4}}
  \cup {[Quiet EXCEPT !.method = "a" :> m @@ "b" :> Grpc!TryLock, !.attempts = 2, !.faults = 2] :
          m \in {Grpc!TryLock, Aio!TryLock}}
  \cup {[Quiet EXCEPT !.method = "a" :> m @@ "b" :> Grpc!ScheduleJob(FALSE), !.attempts = 2, !.faults = 2,
                     !.bare = TRUE, !.closes = TRUE] :
          m \in {Aio!SaveState(TRUE), Actors!HttpInvokeMethod} \cup Waits}

\* Two transient errors, any time apart.
Transients == {[Quiet EXCEPT !.method = "a" :> m, !.faults = 2] : m \in Waits}

\* A wait without a timeout under a limit for every call.
Limited == {[Quiet EXCEPT !.method = "a" :> m, !.limit = 3] : m \in Waits}

----------------------------------------------------------------------------
(* Documents                                                               *)

\* Calls of the documents.
S(method) == [method |-> method]
A(method, g) == [method |-> method, agent |-> g]
M(method, g, x) == [method |-> method, agent |-> g, message |-> x]
PutCall(config, ts, id) == [method |-> "put", config |-> config, ts |-> ts, id |-> id]
WritesCall(config) == [method |-> "put_writes", config |-> config, writes |-> 2]

SessionCalls ==
  {S("create_session"), S("delete_session"), A("create_agent", "a"),
   A("create_agent", "b"), A("update_agent", "a"), M("create_message", "a", "m"),
   M("create_message", "a", "n"), M("update_message", "a", "m"),
   A("list_messages", "a")}

Script(ps, qs, k) ==
  [calls |-> ("p" :> ps @@ "q" :> qs), faults |-> k]

\* One user and every order of four calls.
Alone ==
  {Script(calls, <<>>, 2) :
     calls \in {s \in [1 .. 4 -> SessionCalls] : InOrder(s)}}

\* Two users with an agent each.
Apart ==
  {Script(<<S("create_session"), A("create_agent", "a"), M("create_message", "a", "m"), x>>,
         <<S("create_session"), A("create_agent", "b"), M("create_message", "b", "m"), y>>, 1) :
     x \in {M("create_message", "a", "n"), M("update_message", "a", "m")},
     y \in {M("create_message", "b", "n"), A("update_agent", "b")}}

\* Two users that run the same thread.
Thread ==
  {Script(<<PutCall(NoId, NoId, "c1"), WritesCall("c1"), PutCall("c1", NoId, "c2"), S("get_tuple")>>,
         <<S("get_tuple"), PutCall("c2", NoId, "c1"), x, S("delete_thread")>>, 2) :
     x \in {S("list"), WritesCall("c2"), PutCall(NoId, "c2", "c1")}}

EveryScript == Alone \cup Apart \cup Thread

\* Two agents created at the same time.
Race == {Script(<<A("create_agent", "a")>>, <<A("create_agent", "b")>>, 0)}

----------------------------------------------------------------------------
(* Crypto streams of up to three chunks, in order or with a gap.           *)

Crypto == INSTANCE CryptoStream

Streams ==
  UNION {{[i \in 1 .. k |-> [seq |-> IF i = gap THEN i ELSE i - 1,
                             data |-> [j \in 1 .. size[i] |-> <<i, j>>]]] :
            size \in [1 .. k -> 0 .. 2], gap \in 1 .. k + 1} : k \in 0 .. 3}

\* Sized reads give the stream from the front.
ASSUME CryptoReadsLikeAFile ==
  \A stream \in Streams, a \in 0 .. 5, b \in 0 .. 5 :
    /\ Crypto!ReadsLikeAFile(Crypto!read, stream, a, b)
    /\ Crypto!ReadsLikeAFile(Crypto!aread, stream, a, b)

----------------------------------------------------------------------------

\* The parts that do not move are in one state.
Init ==
  /\ part \in {"calls", "documents", "mcp", "configuration"}
  /\ scene \in IF part = "calls" THEN Scenes ELSE {CHOOSE s \in Scenes : TRUE}
  /\ script \in IF part = "documents" THEN Scripts ELSE {CHOOSE s \in Scripts : TRUE}
  /\ CallsInit /\ DocInit /\ McpInit /\ ConfigInit

Next ==
  \/ part = "calls" /\ CallsNext /\ UNCHANGED <<part, docVars, mcpVars, configVars>>
  \/ part = "documents" /\ DocNext /\ UNCHANGED <<part, callsVars, mcpVars, configVars>>
  \/ part = "mcp" /\ McpNext /\ UNCHANGED <<part, callsVars, docVars, configVars>>
  \/ part = "configuration" /\ ConfigNext /\ UNCHANGED <<part, callsVars, docVars, mcpVars>>

Spec == Init /\ [][Next]_vars
=============================================================================
