----------------------------- MODULE MCDispatch -----------------------------
(* For TLC: the parts of the SDK that decide what a name, an event or a    *)
(* call of a tool runs.  They share no state, and a behaviour is of one.   *)
EXTENDS Registry, AppCallbacks, Tools

History == INSTANCE Propagation

VARIABLE part

vars == <<part, regVars, appVars, toolVars>>

----------------------------------------------------------------------------
(* Registry and AppCallbacks                                               *)

TwoNames == ("f1" :> "f") @@ ("f2" :> "f") @@ ("f3" :> "g")

\* Three registrations, or two before and two after a deployment.
Deployments == {<<3>>, <<2, 2>>}

OnePath == ("h1" :> "f") @@ ("h2" :> "f")

----------------------------------------------------------------------------
(* Tools: functions of one parameter of every type, and of several.        *)

StrType == <<"str">>
IntType == <<"int">>
NoneType == <<"none">>
Optional(t) == <<"union", <<t, NoneType>>>>
Colour == <<"enum", [RED |-> <<"str", "text">>, BLUE |-> <<"int", "5">>]>>
One == <<"literal", {<<"int", "5">>, <<"str", "text">>}>>
Point ==
  <<"class", [x |-> [type |-> IntType, optional |-> FALSE], y |-> [type |-> Optional(StrType), optional |-> TRUE]],
    [x |-> IntType, z |-> Optional(IntType)]>>
Data == <<"dataclass", [x |-> [type |-> IntType, optional |-> FALSE]]>>

Simple == {StrType, IntType, <<"float">>, <<"bool">>, <<"bytes">>, NoneType, Colour, One, Point, Data, <<"any">>}
Compound ==
  {<<"union", <<s, t>>>> : s, t \in {StrType, IntType, <<"bool">>, Colour, Point, NoneType}}
    \cup {<<"list", <<t>>>> : t \in Simple \cup {Optional(IntType)}}
    \cup {<<"dict", <<k, t>>>> : k \in {StrType, IntType}, t \in Simple}
    \cup {<<"list", <<>>>>, <<"dict", <<>>>>}
    \cup {<<"bar", <<IntType, NoneType>>>>, <<"list", <<<<"bar", <<IntType, NoneType>>>>>>>>}

NoneValue == <<"none", "">>
Five == <<"int", "5">>
Parameter(n, t, k, d) == [name |-> n, type |-> t, kind |-> k, default |-> d]

EveryFunction ==
  {[params |-> <<Parameter("a", t, "any", <<>>)>>, async |-> FALSE] : t \in Simple \cup Compound \cup {<<>>}}
    \cup {[params |-> <<Parameter("a", IntType, k, <<>>), Parameter("b", t, "keyword", d),
                        Parameter("c", <<>>, "var", <<<<"dict", <<>>>>>>)>>, async |-> w] :
            k \in {"any", "positional"}, t \in {StrType, IntType, Optional(IntType)},
            d \in {<<>>, <<Five>>, <<NoneValue>>}, w \in BOOLEAN}

Scalars ==
  {<<"str", s>> : s \in {"text", "0", "5", "true"}} \cup {<<"int", i>> : i \in {"0", "5"}}
    \cup {<<"float", f>> : f \in {"5", "fraction"}} \cup {<<"bool", "true">>, NoneValue}
Dicts ==
  {<<"dict", <<>>>>} \cup {<<"dict", m>> : m \in
     UNION {{"x" :> v, "5" :> v, "x" :> Five @@ "y" :> v, "x" :> Five @@ "z" :> v} : v \in Scalars}}
Values == Scalars \cup Dicts \cup {<<"list", <<>>>>} \cup {<<"list", <<v>>>> : v \in Scalars \cup Dicts}

EveryArgument ==
  {<<>>, "a" :> Five @@ "e" :> NoneValue}
    \cup {"a" :> v : v \in Values} \cup {"a" :> Five @@ "b" :> v : v \in Scalars}

----------------------------------------------------------------------------
(* Propagation: a grandparent, a parent and a workflow that is there again *)
(* with the same name, all with the same event ids.                        *)

Event(k, id, n) == [kind |-> k, id |-> id, name |-> n, value |-> "v"]
Starts == {Event(k, id, n) : k \in {"taskScheduled", "childCreated"}, id \in {1, 2}, n \in {"a", "b"}}
Ends == {Event(k, id, "") : k \in {"taskCompleted", "taskFailed", "childCompleted", "childFailed"}, id \in {1, 2}}
Raws ==
  {<<>>, <<History!Malformed>>} \cup {<<s>> : s \in Starts} \cup {<<s, e>> : s \in Starts, e \in Ends}
    \cup {<<s, Event(s.kind, 2, s.name), e>> : s \in {x \in Starts : x.id = 1}, e \in Ends}

Chunk(a, i, w, raw) == [app |-> a, instance |-> i, workflow |-> w, raw |-> raw]

\* Every history of up to three chunks reads back as its chunks.
ASSUME HistoryReadsOwnChunk ==
  /\ History!ReadsOwnChunk(<<>>, {"a"})
  /\ \A first \in Raws, second \in Raws :
       /\ \A a \in {"p", History!EmptyId} :
            History!ReadsOwnChunk(<<Chunk(a, "i", "w", first), Chunk("q", "j", "w", second)>>, {"a", "b"})
       /\ second # <<>> /\ Len(first) <= 1 =>
            History!ReadsOwnChunk(<<Chunk("p", "i", "w", first), Chunk("q", "j", "v", second),
                                    Chunk("p", "i", "w", first)>>, {"a", "b"})

----------------------------------------------------------------------------

\* The parts that do not move are in one state.
Init ==
  /\ part \in {"registry", "app", "tools"}
  /\ budget \in IF part = "registry" THEN Budgets ELSE {CHOOSE x \in Budgets : TRUE}
  /\ server \in IF part = "app" THEN {"grpc", "flask", "fastapi"} ELSE {"grpc"}
  /\ RegInit /\ AppInit /\ ToolInit

Next ==
  \/ part = "registry" /\ RegNext /\ UNCHANGED <<part, appVars, toolVars>>
  \/ part = "app" /\ AppNext /\ UNCHANGED <<part, regVars, toolVars>>
  \/ part = "tools" /\ ToolNext /\ UNCHANGED <<part, regVars, appVars>>

Spec == Init /\ [][Next]_vars
=============================================================================
