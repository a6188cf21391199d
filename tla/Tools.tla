------------------------------- MODULE Tools --------------------------------
(***************************************************************************)
(* Tools of a conversation: the JSON schema that a function advertises to  *)
(* the model, the registry of tools, and the call of a tool with the       *)
(* arguments that the model sends back, which are bound to the parameters  *)
(* and coerced to their annotations.                                       *)
(*                                                                         *)
(* A value is a pair of its kind and its content.  Strings are known by    *)
(* the number they spell, floats by the integer they are equal to;         *)
(* descriptions, docstrings, *args, __slots__ and enums with more members  *)
(* than a schema lists are left out.                                       *)
(***************************************************************************)
EXTENDS Naturals, Sequences, FiniteSets, TLC

CONSTANTS
  Functions,    \* functions: a sequence of parameters, and whether async
  Arguments     \* the JSON objects that the model may send

VARIABLES
  tools,        \* _TOOL_REGISTRY: name to function
  calls         \* the last call of a tool and how it ended

toolVars == <<tools, calls>>

(* Types: <<"str">>, <<"int">>, <<"float">>, <<"bool">>, <<"bytes">>,      *)
(* <<"none">>, <<"any">>, <<"union", types>> for typing.Union and          *)
(* Optional, <<"bar", types>> for X | Y, <<"list", types>>,                *)
(* <<"dict", types>>, <<"literal", values>>, <<"enum", members>>,          *)
(* <<"dataclass", parameters>> and <<"class", parameters, annotations>>.   *)
(* The types of a list or a dict are empty where it has none.              *)

RECURSIVE Schema(_), Supported(_), Mentions(_, _), Conforms(_, _), Coerce(_, _), HasType(_, _), Plain(_)

Error == <<"error">>

----------------------------------------------------------------------------
(* _python_type_to_json_schema                                             *)

\* The types of the alternatives, with None left out if one other is there.
UnionSchema(types) ==
  LET some == SelectSeq(types, LAMBDA t : t # <<"none">>) IN
  IF Len(some) = 1 /\ Len(types) = 2 THEN Schema(some[1])
  ELSE <<"anyOf", [i \in DOMAIN types |-> Schema(types[i])]>>

\* Parameters of a constructor, and every annotation of the class, which is
\* required even where the constructor has a default.
ClassSchema(params, annotations) ==
  <<"object",
    [n \in DOMAIN params \cup DOMAIN annotations |->
       Schema(IF n \in DOMAIN annotations THEN annotations[n] ELSE params[n].type)],
    {n \in DOMAIN params : ~params[n].optional}
      \cup {n \in DOMAIN annotations :
              ~(annotations[n][1] = "union" /\ \E i \in DOMAIN annotations[n][2] :
                  annotations[n][2][i] = <<"none">>)}>>

Schema(type) ==
  CASE type[1] = "union" -> UnionSchema(type[2])
    [] type[1] = "list" -> <<"array", [i \in DOMAIN type[2] |-> Schema(type[2][i])]>>
    [] type[1] = "dict" /\ type[2] # <<>> /\ type[2][1] = <<"str">> ->
         <<"map", Schema(type[2][2])>>
    [] type[1] = "dict" /\ (type[2] = <<>> \/ type[2][1] # <<"str">>) -> <<"map", <<"open">>>>
    [] type[1] = "literal" -> <<"enum", type[2]>>
    [] type[1] = "enum" ->
         \* declared to be strings, whatever the members are
         <<"enum", {v \in {type[2][n] : n \in DOMAIN type[2]} : v[1] = "str"}>>
    [] type[1] = "dataclass" -> ClassSchema(type[2], <<>>)
    [] type[1] = "class" -> ClassSchema(type[2], type[3])
    [] OTHER -> <<"type", type[1]>>

\* Any and X | Y have no schema (X | Y has one from Python 3.14 on, where it
\* is a typing.Union), nor has a type whose schema is made of theirs.
Supported(type) ==
  CASE type[1] \in {"any", "bar"} -> FALSE
    [] type[1] \in {"union", "list"} -> \A i \in DOMAIN type[2] : Supported(type[2][i])
    [] type[1] = "dict" -> type[2] # <<>> /\ type[2][1] = <<"str">> => Supported(type[2][2])
    [] type[1] = "dataclass" -> \A n \in DOMAIN type[2] : Supported(type[2][n].type)
    [] type[1] = "class" ->
         /\ \A n \in DOMAIN type[2] : Supported(type[2][n].type)
         /\ \A n \in DOMAIN type[3] : Supported(type[3][n])
    [] OTHER -> TRUE

\* Whether a type is, or has a part that is, of a kind.
Mentions(type, kind) ==
  \/ type[1] = kind
  \/ type[1] \in {"union", "list", "dict"} /\ \E i \in DOMAIN type[2] : Mentions(type[2][i], kind)
  \/ type[1] \in {"dataclass", "class"} /\ \E n \in DOMAIN type[2] : Mentions(type[2][n].type, kind)

\* function_to_json_schema: **kwargs ("var") is left out, an annotation that
\* is missing is str.
TypeOf(p) == IF p.type = <<>> THEN <<"str">> ELSE p.type
Advertised(params) == {i \in DOMAIN params : params[i].kind # "var"}
ParameterSchema(params) ==
  [n \in {params[i].name : i \in Advertised(params)} |->
     Schema(TypeOf(params[CHOOSE i \in Advertised(params) : params[i].name = n]))]
Required(params) == {params[i].name : i \in {j \in Advertised(params) : params[j].default = <<>>}}

----------------------------------------------------------------------------
(* JSON Schema, external: the values that a schema describes.              *)

Scalar(v, type) ==
  CASE type = "int" -> v[1] = "int" \/ (v[1] = "float" /\ v[2] # "fraction")
    [] type = "float" -> v[1] \in {"int", "float"}
    [] type = "bytes" -> v[1] = "str"
    [] OTHER -> v[1] = type

Conforms(v, schema) ==
  CASE schema[1] = "open" -> TRUE
    [] schema[1] = "type" -> Scalar(v, schema[2])
    [] schema[1] = "anyOf" -> \E i \in DOMAIN schema[2] : Conforms(v, schema[2][i])
    [] schema[1] = "enum" -> v \in schema[2]
    [] schema[1] = "array" ->
         v[1] = "list" /\ (schema[2] # <<>> =>
           \A i \in DOMAIN v[2] : Conforms(v[2][i], schema[2][1]))
    [] schema[1] = "map" -> v[1] = "dict" /\ \A n \in DOMAIN v[2] : Conforms(v[2][n], schema[2])
    [] schema[1] = "object" ->
         v[1] = "dict" /\ schema[3] \subseteq DOMAIN v[2]
           /\ \A n \in DOMAIN v[2] \cap DOMAIN schema[2] : Conforms(v[2][n], schema[2][n])
    [] OTHER -> FALSE

----------------------------------------------------------------------------
(* _coerce_and_validate                                                    *)

Numbers == {"0", "5"}

\* A dict is taken for the arguments of the constructor.  Of the built-in
\* classes only float has a signature (up to Python 3.12), with an optional x
\* that has no annotation, and makes 0.0 of a dict without it.
DictForScalar(v, type) ==
  IF type = "float" /\ "x" \notin DOMAIN v[2] THEN <<"float", "0">> ELSE Error

\* bool first, as in the code: a bool is an int, too.
CoercePrimitive(v, type) ==
  CASE type = "str" -> IF v[1] = "str" THEN v ELSE <<"str", "text">>
    [] type = "int" ->
         CASE v[1] \in {"bool", "int"} -> v
           [] v[1] = "float" /\ v[2] # "fraction" -> <<"int", v[2]>>
           [] v[1] = "str" /\ v[2] \in Numbers -> <<"int", v[2]>>
           [] OTHER -> Error
    [] type = "float" ->
         CASE v[1] = "float" -> v
           [] v[1] = "int" \/ (v[1] = "str" /\ v[2] \in Numbers) -> <<"float", v[2]>>
           [] v[1] = "bool" -> <<"float", "0">>
           [] OTHER -> Error
    [] type = "bool" ->
         CASE v[1] = "bool" -> v
           [] v[1] = "int" -> <<"bool", IF v[2] = "0" THEN "false" ELSE "true">>
           [] v = <<"str", "true">> -> <<"bool", "true">>
           [] v[1] = "str" /\ v[2] \in {"false", "0"} -> <<"bool", "false">>
           [] OTHER -> Error
    [] type = "none" -> v
    [] OTHER -> v   \* bytes: a string stays a string

CoerceScalar(v, type) ==
  IF v[1] = "dict" THEN DictForScalar(v, type) ELSE CoercePrimitive(v, type)

\* by value, by name, and by name without case
CoerceEnum(v, members) ==
  CASE \E n \in DOMAIN members : members[n] = v ->
         <<"member", CHOOSE n \in DOMAIN members : members[n] = v>>
    [] (\A n \in DOMAIN members : members[n] # v) /\ v[1] = "str" /\ v[2] \in DOMAIN members ->
         <<"member", v[2]>>
    [] OTHER -> Error

\* An exact literal, or a string that spells an int literal.
CoerceLiteral(v, values) ==
  CASE v \in values -> v
    [] v \notin values /\ v[1] = "str" /\ <<"int", v[2]>> \in values -> <<"int", v[2]>>
    [] OTHER -> Error


\* The first alternative that takes the value; None only takes None.
CoerceUnion(v, types) ==
  LET takes(i) == IF types[i] = <<"none">> THEN v = <<"none", "">> ELSE Coerce(v, types[i]) # Error
      able == {i \in DOMAIN types : takes(i)}
  IN IF able = {} THEN Error
     ELSE LET i == CHOOSE x \in able : \A y \in able : x <= y IN
          IF types[i] = <<"none">> THEN v ELSE Coerce(v, types[i])

CoerceClass(v, params) ==
  LET got == DOMAIN v[2] \cap DOMAIN params
      args == [n \in got |-> Coerce(v[2][n], params[n].type)]
  IN IF v[1] # "dict" THEN Error
     ELSE IF \E n \in DOMAIN params \ got : ~params[n].optional THEN Error
     ELSE IF \E n \in got : args[n] = Error THEN Error
     ELSE <<"object", args>>

CoerceItems(v, kind, type) ==
  IF v[1] # kind THEN Error
  ELSE LET items == [i \in DOMAIN v[2] |-> Coerce(v[2][i], type)] IN
       IF \E i \in DOMAIN items : items[i] = Error THEN Error ELSE <<kind, items>>

\* Keys are strings in JSON; without types, keys and values are Any.
CoerceDict(v, types) ==
  LET keyType == IF types = <<>> THEN <<"any">> ELSE types[1]
      keyFails == \E n \in DOMAIN v[2] : Coerce(<<"str", n>>, keyType) = Error
  IN CASE v[1] # "dict" -> Error
       [] v[1] = "dict" /\ v[2] = <<>> -> v
       [] v[1] = "dict" /\ v[2] # <<>> /\ keyFails -> Error
       [] OTHER -> CoerceItems(v, "dict", types[2])

Coerce(v, type) ==
  CASE type[1] = "any" -> Error
    [] type[1] \in {"union", "bar"} -> CoerceUnion(v, type[2])
    [] type[1] = "literal" -> CoerceLiteral(v, type[2])
    [] type[1] = "list" -> CoerceItems(v, "list", IF type[2] = <<>> THEN <<"any">> ELSE type[2][1])
    [] type[1] = "dict" -> CoerceDict(v, type[2])
    [] type[1] = "enum" -> CoerceEnum(v, type[2])
    [] type[1] = "dataclass" -> IF v = <<"none", "">> THEN v ELSE Error  \* an instance only
    [] type[1] = "class" -> CoerceClass(v, type[2])
    [] OTHER -> CoerceScalar(v, type[1])

----------------------------------------------------------------------------
(* bind_params_to_func: a mapping from the model, never a sequence.        *)

Accepting(params) == {i \in DOMAIN params : params[i].kind \in {"any", "keyword"}}
NamesIn(params, S) == {params[i].name : i \in S}
HasVar(params) == \E i \in DOMAIN params : params[i].kind = "var"

Bound(params, args, i) ==
  LET p == params[i] IN IF p.name \in DOMAIN args THEN args[p.name] ELSE p.default[1]

\* An argument and a default are coerced if there is an annotation.
bind_params_to_func(params, args) ==
  LET named == {i \in DOMAIN params : params[i].kind # "var"}
      missing == {i \in named : params[i].default = <<>> /\ params[i].name \notin DOMAIN args}
      values == [i \in named |->
                   IF params[i].type = <<>> THEN Bound(params, args, i)
                   ELSE Coerce(Bound(params, args, i), params[i].type)]
  IN CASE ~(DOMAIN args \subseteq NamesIn(params, Accepting(params))) /\ ~HasVar(params) ->
            <<"TypeError">>
       [] missing # {} -> <<"ToolArgumentError">>
       [] OTHER -> IF \E i \in named : values[i] = Error THEN <<"ToolArgumentError">>
                   ELSE <<"bound", values>>

----------------------------------------------------------------------------
(* The registry and the calls.                                             *)

\* from_function and the tool decorator; a function of an unsupported type
\* has no schema and no tool.
HasSchema(f) ==
  \A i \in Advertised(f.params) : Supported(TypeOf(f.params[i]))

register_tool(name, f) ==
  /\ name \notin DOMAIN tools /\ HasSchema(f)
  /\ tools' = (name :> f) @@ tools
  /\ UNCHANGED calls

unregister_tool(name) ==
  /\ tools' = [n \in DOMAIN tools \ {name} |-> tools[n]]
  /\ UNCHANGED calls

\* execute_registered_tool and execute_registered_tool_async
Outcome(name, args, awaited, raises) ==
  IF name \notin DOMAIN tools THEN <<"ToolNotFoundError">>
  ELSE LET f == tools[name]
           bound == bind_params_to_func(f.params, args)
       IN CASE bound[1] # "bound" -> bound
            [] bound[1] = "bound" /\ ((f.async /\ ~awaited) \/ raises) -> <<"ToolExecutionError">>
            [] OTHER -> <<"ran", bound[2]>>

execute_registered_tool(name, args, awaited, raises) ==
  /\ calls' = [function |-> IF name \in DOMAIN tools THEN <<tools[name]>> ELSE <<>>,
               args |-> args, awaited |-> awaited, raises |-> raises,
               outcome |-> Outcome(name, args, awaited, raises)]
  /\ UNCHANGED tools

Idle == [function |-> <<>>, args |-> <<>>, awaited |-> FALSE, raises |-> FALSE, outcome |-> <<"none">>]

ToolInit == tools = <<>> /\ calls = Idle

\* One tool at a time; the behaviours end with a call, which is of that tool
\* or of one that is not registered.
Callees == IF tools = <<>> THEN {CHOOSE f \in Functions : TRUE} ELSE DOMAIN tools

ToolNext ==
  /\ calls = Idle
  /\ \/ \E f \in Functions : tools = <<>> /\ register_tool(f, f)
     \/ \E f \in DOMAIN tools : unregister_tool(f)
     \/ \E f \in Callees, a \in Arguments, w, r \in BOOLEAN : execute_registered_tool(f, a, w, r)

----------------------------------------------------------------------------
(* The values of a type.                                                   *)

HasType(v, type) ==
  CASE type[1] = "union" -> \E i \in DOMAIN type[2] : HasType(v, type[2][i])
    [] type[1] = "list" -> v[1] = "list" /\ \A i \in DOMAIN v[2] : HasType(v[2][i], type[2][1])
    [] type[1] = "dict" -> v[1] = "dict" /\ \A n \in DOMAIN v[2] : HasType(v[2][n], type[2][2])
    [] type[1] = "literal" -> v \in type[2]
    [] type[1] = "enum" -> v[1] = "member" /\ v[2] \in DOMAIN type[2]
    [] type[1] = "class" -> v[1] = "object" /\ \A n \in DOMAIN v[2] : HasType(v[2][n], type[2][n].type)
    [] type[1] = "int" -> v[1] \in {"int", "bool"}
    [] OTHER -> v[1] = type[1]

\* The types whose values JSON has, and whose arguments are coerced: no
\* bytes, dataclass, list or dict of anything, or keys that are no strings.
Plain(type) ==
  /\ \A kind \in {"bytes", "dataclass", "any"} : ~Mentions(type, kind)
  /\ type[1] \in {"list", "dict"} => type[2] # <<>>
  /\ type[1] = "dict" => type[2][1] = <<"str">>
  /\ type[1] \in {"union", "list", "dict"} => \A i \in DOMAIN type[2] : Plain(type[2][i])
  /\ type[1] = "class" => \A n \in DOMAIN type[2] : Plain(type[2][n].type)

\* A parameter that can be named and whose default is a value of its type.
Callable(p) ==
  /\ p.kind \in {"any", "keyword", "var"} /\ Plain(TypeOf(p))
  /\ p.default # <<>> => HasType(p.default[1], TypeOf(p))

Follows(params, args) ==
  /\ Required(params) \subseteq DOMAIN args
  /\ DOMAIN args \subseteq DOMAIN ParameterSchema(params)
  /\ \A n \in DOMAIN args : Conforms(args[n], ParameterSchema(params)[n])

=============================================================================
