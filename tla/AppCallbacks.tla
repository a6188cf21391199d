---------------------------- MODULE AppCallbacks ----------------------------
(***************************************************************************)
(* The server of an application, over gRPC (App, _CallbackServicer) or     *)
(* over HTTP with Flask or FastAPI (DaprApp, DaprActor): what the          *)
(* decorators register, the subscriptions that the sidecar lists once the  *)
(* server runs, and the handler that an event, a method, a binding, a job  *)
(* or a call of an actor then reaches.                                     *)
(*                                                                         *)
(* Which rule an event matches is decided by the sidecar, from the list.   *)
(* The contents of events and requests are left out, except the status     *)
(* that a handler answers.                                                 *)
(***************************************************************************)
EXTENDS Integers, Sequences, FiniteSets, FiniteSetsExt

CONSTANTS
  Handlers,     \* functions of the application
  PathOf,       \* __name__ of each
  Nothing,      \* None: no handler, no rule.  What a decorator returns, too
  Topics,
  Wildcards,    \* the topics that stand for other topics
  Concrete,     \* another topic, which a wildcard matches
  Kinds,        \* of events
  Matches,      \* the kinds that some rule matches
  Priorities,   \* of rules
  AppSteps      \* bound: registrations

NoPath == ""

\* No name of a function, topic or rule is empty.
ASSUME AppAssumption ==
  /\ PathOf \in [Handlers -> STRING \ {NoPath}] /\ Topics \subseteq STRING \ {NoPath}
  /\ Kinds \subseteq STRING \ {NoPath} /\ Matches \subseteq Kinds /\ Priorities \subseteq Int
  /\ Wildcards \subseteq Topics /\ Concrete \notin Topics /\ Nothing \notin Handlers

VARIABLES
  server,       \* "grpc", "flask" or "fastapi"
  topic_map,    \* _topic_map: <<topic, path>> to a handler
  route_map,    \* _route_map: path to a handler
  unvalidated,  \* _validation_disabled_pubsubs
  topics,       \* _registered_topics
  named,        \* _invoke_method_map, _binding_map, _job_event_map, _actor_managers
  routes,       \* HTTP: the routes of the web framework, in order
  subscriptions,\* HTTP: _subscriptions
  taken,        \* registrations that returned, in order
  listed,       \* the subscriptions as the sidecar has them
  answered      \* what the last call of the sidecar was answered

grpcVars == <<topic_map, route_map, unvalidated, topics, taken, listed>>
httpVars == <<routes, subscriptions>>
appVars == <<server, named, answered, grpcVars, httpVars>>

----------------------------------------------------------------------------
(* Registration.  One pubsub: its name is a part of every key.             *)

More == Len(taken) + Cardinality(DOMAIN named) + Len(subscriptions) < AppSteps

Rules == [match: Matches, priority: Priorities]

\* getattr(cb, '__name__', rule.match)
RulePath(cb, rule) == IF cb = Nothing THEN rule.match ELSE PathOf[cb]
PathFor(cb, rule) == IF rule = Nothing THEN NoPath ELSE RulePath(cb, rule)

\* A slip: the rules in the order of their registration.
InsertUnsorted(rules, r) == Append(rules, r)

\* append and a stable sort by priority, of rules that are sorted
Insert(rules, r) ==
  LET k == CHOOSE k \in 0 .. Len(rules) :
             /\ \A i \in 1 .. k : rules[i].priority <= r.priority
             /\ \A i \in k + 1 .. Len(rules) : rules[i].priority > r.priority
  IN SubSeq(rules, 1, k) \o <<r>> \o SubSeq(rules, k + 1, Len(rules))

\* The default route is fixed by the first registration of a topic.
NewSubscription(topic, rule, unchecked) ==
  [topic |-> topic, rules |-> <<>>,
   default |-> IF unchecked /\ rule = Nothing THEN topic ELSE NoPath]

WithTopic(topic, rule, unchecked) ==
  IF \E i \in DOMAIN topics : topics[i].topic = topic THEN topics
  ELSE Append(topics, NewSubscription(topic, rule, unchecked))

NewRule(cb, rule) ==
  [match |-> rule.match, priority |-> rule.priority, path |-> RulePath(cb, rule)]

WithRule(subs, topic, cb, rule) ==
  [i \in DOMAIN subs |->
     IF subs[i].topic = topic /\ rule # Nothing
     THEN [subs[i] EXCEPT !.rules = Insert(@, NewRule(cb, rule))] ELSE subs[i]]

\* An entry of a dictionary is added or replaced.
Entered(table, key, value) ==
  [k \in DOMAIN table \cup {key} |-> IF k = key THEN value ELSE table[k]]

register_topic(topic, cb, rule, unchecked) ==
  LET path == PathFor(cb, rule) IN
  /\ server = "grpc" /\ More
  /\ <<topic, path>> \notin DOMAIN topic_map
  /\ topic_map' = Entered(topic_map, <<topic, path>>, cb)
  /\ route_map' = Entered(route_map, IF rule = Nothing THEN topic ELSE path, cb)
  /\ unvalidated' = IF unchecked THEN Append(unvalidated, cb) ELSE unvalidated
  /\ topics' = WithRule(WithTopic(topic, rule, unchecked), topic, cb, rule)
  /\ taken' = Append(taken, [topic |-> topic, cb |-> cb, rule |-> rule, unchecked |-> unchecked])
  /\ UNCHANGED <<server, named, listed, answered, httpVars>>

\* register_method, register_binding and register_job_event
register(kind, name, cb) ==
  /\ server = "grpc" /\ More
  /\ <<kind, name>> \notin DOMAIN named
  /\ named' = Entered(named, <<kind, name>>, cb)
  /\ UNCHANGED <<server, answered, grpcVars, httpVars>>

\* The manager of an actor type, with its objects, is replaced silently.
register_actor(type, manager) ==
  /\ server # "grpc" /\ More
  /\ named' = Entered(named, <<"actor", type>>, manager)
  /\ UNCHANGED <<server, answered, grpcVars, httpVars>>

\* DaprApp.subscribe.  Flask refuses a second function for a route, before
\* the subscription is added; FastAPI takes it.
subscribe(topic, route, cb) ==
  /\ server # "grpc" /\ More
  /\ server = "flask" => \A i \in DOMAIN routes : routes[i].route = route => routes[i].cb = cb
  /\ routes' = Append(routes, [route |-> route, cb |-> cb])
  /\ subscriptions' = Append(subscriptions, [topic |-> topic, route |-> route, cb |-> cb])
  /\ UNCHANGED <<server, named, answered, grpcVars>>

----------------------------------------------------------------------------
(* Lookup.                                                                 *)

_get_topic_callback(topic, path) ==
  IF <<topic, path>> \in DOMAIN topic_map THEN topic_map[<<topic, path>>]
  ELSE IF path \in DOMAIN route_map THEN route_map[path]
  ELSE IF path = NoPath /\ topic \in DOMAIN route_map THEN route_map[topic]
  ELSE IF path = NoPath /\ Len(unvalidated) = 1 THEN unvalidated[1]
  ELSE Nothing

\* The first route that matches.
RouteHandler(route) == routes[Min({i \in DOMAIN routes : routes[i].route = route})].cb

----------------------------------------------------------------------------
(* The sidecar, external: it lists the subscriptions when the application  *)
(* is up, and sends an event with the path of the first rule that matches, *)
(* or with the default route.                                              *)

EventTopic(topic) == IF topic \in Wildcards THEN Concrete ELSE topic

RouteOf(sub, kind) ==
  LET matching == {i \in DOMAIN sub.rules : sub.rules[i].match = kind} IN
  IF matching = {} THEN sub.default ELSE sub.rules[Min(matching)].path

List ==
  /\ listed.subs = <<>> /\ topics # <<>>
  /\ listed' = [subs |-> topics, taken |-> taken]
  /\ UNCHANGED <<server, topic_map, route_map, unvalidated, topics, named, taken, answered, httpVars>>

----------------------------------------------------------------------------
(* Calls of the sidecar.  A handler answers with a status, with nothing,   *)
(* or raises.                                                              *)

Replies == {"status", "nothing", "raise"}

\* OnTopicEvent: a handler that raises fails the call.
TopicStatus(cb, reply) ==
  CASE cb = Nothing -> "unimplemented"
    [] cb # Nothing /\ reply = "raise" -> "error"
    [] cb # Nothing /\ reply = "status" -> "status"
    [] OTHER -> "success"

\* _handle_bulk_topic_event: every entry has its own status.
BulkStatus(reply) ==
  CASE reply = "raise" -> "retry" [] reply = "status" -> "status" [] OTHER -> "success"

\* OnInvoke: bytes, a message, a response, nothing or anything else
Returned == {"nothing", "data", "response", "other"}
InvokeStatus(value) == IF value = "other" THEN "out of range" ELSE "ok"

\* The behaviours end with a call: it changes nothing that a later one reads.
Answer(a) ==
  /\ answered' = a
  /\ UNCHANGED <<server, named, grpcVars, httpVars>>

OnTopicEvent(sub, kind, reply) ==
  LET cb == _get_topic_callback(EventTopic(sub.topic), RouteOf(sub, kind)) IN
  Answer([cb |-> cb, statuses |-> <<TopicStatus(cb, reply)>>])

OnBulkTopicEvent(sub, kind, replies) ==
  LET cb == _get_topic_callback(EventTopic(sub.topic), RouteOf(sub, kind)) IN
  Answer([cb |-> cb, statuses |-> IF cb = Nothing THEN <<"unimplemented">>
                                  ELSE [i \in DOMAIN replies |-> BulkStatus(replies[i])]])

\* OnInvoke, OnBindingEvent and OnJobEvent
OnNamed(kind, name, value) ==
  LET cb == IF <<kind, name>> \in DOMAIN named THEN named[<<kind, name>>] ELSE Nothing IN
  server = "grpc" /\ Answer([cb |-> cb, statuses |-> <<IF cb = Nothing THEN "unimplemented"
                                    ELSE IF kind = "method" THEN InvokeStatus(value)
                                    ELSE "ok">>])

get_actor_manager(type) ==
  IF <<"actor", type>> \in DOMAIN named THEN named[<<"actor", type>>] ELSE Nothing

\* deactivate, dispatch, fire_reminder and fire_timer of ActorRuntime: without
\* a manager they raise, and every error is a 500 to the sidecar.
ActorStatus(type, reply) ==
  IF get_actor_manager(type) = Nothing \/ reply = "raise" THEN "500" ELSE "200"

\* The handlers of Flask, each with an event loop of its own.
FlaskActor(type, reply) ==
  /\ server = "flask"
  /\ Answer([cb |-> get_actor_manager(type), statuses |-> <<ActorStatus(type, reply)>>])

\* The routes of FastAPI.
FastApiActor(type, reply) ==
  /\ server = "fastapi"
  /\ Answer([cb |-> get_actor_manager(type), statuses |-> <<ActorStatus(type, reply)>>])

OnHttpEvent(sub) ==
  Answer([cb |-> RouteHandler(sub.route), statuses |-> <<"posted">>])

AppInit ==
  /\ server \in {"grpc", "flask", "fastapi"}
  /\ routes = <<>> /\ subscriptions = <<>>
  /\ topic_map = <<>> /\ route_map = <<>> /\ unvalidated = <<>> /\ topics = <<>>
  /\ named = <<>> /\ taken = <<>>
  /\ listed = [subs |-> <<>>, taken |-> <<>>]
  /\ answered = [cb |-> Nothing, statuses |-> <<>>]

AppNext ==
  /\ answered.statuses = <<>>
  /\ \/ \E t \in Topics, cb \in Handlers \cup {Nothing}, r \in Rules \cup {Nothing}, u \in BOOLEAN :
          register_topic(t, cb, r, u)
     \/ \E k \in {"method", "binding", "job"}, cb \in Handlers : register(k, "x", cb)
     \/ List
     \/ \E i \in DOMAIN listed.subs, k \in Kinds, r \in Replies :
          OnTopicEvent(listed.subs[i], k, r)
     \/ \E i \in DOMAIN listed.subs, k \in Kinds, r \in Replies :
          OnBulkTopicEvent(listed.subs[i], k, <<r, "nothing">>)
     \/ \E k \in {"method", "binding", "job"}, v \in Returned : OnNamed(k, "x", v)
     \/ \E cb \in Handlers : register_actor("x", cb)
     \/ \E t \in Topics, r \in Topics, cb \in Handlers : subscribe(t, r, cb)
     \/ \E r \in Replies : FlaskActor("x", r)
     \/ \E r \in Replies : FastApiActor("x", r)
     \/ \E i \in DOMAIN subscriptions : OnHttpEvent(subscriptions[i])

AppSpec == AppInit /\ [][AppNext]_appVars

----------------------------------------------------------------------------
(* The handler that the registrations ask for.                             *)

\* The registrations for an event: those with a rule that matches, and those
\* without a rule.
Matching(topic, kind) ==
  {i \in DOMAIN listed.taken : /\ listed.taken[i].topic = topic
                               /\ listed.taken[i].rule # Nothing
                               /\ listed.taken[i].rule.match = kind}
WithoutRule(topic) ==
  {i \in DOMAIN listed.taken : listed.taken[i].topic = topic /\ listed.taken[i].rule = Nothing}

\* Those with the lowest priority number, of which the first one is wanted.
Best(topic, kind) ==
  {i \in Matching(topic, kind) : \A j \in Matching(topic, kind) :
     listed.taken[i].rule.priority <= listed.taken[j].rule.priority}

Wanted(topic, kind) ==
  listed.taken[Min(IF Matching(topic, kind) # {} THEN Best(topic, kind) ELSE WithoutRule(topic))].cb

\* The route of a registration; a topic and a handler may share one.
Route(x) == IF x.rule = Nothing THEN x.topic ELSE RulePath(x.cb, x.rule)

\* Events of a wildcard topic, and of a topic with a default route, are
\* looked up by their route alone.
RoutesClash(sub) ==
  /\ sub.topic \in Wildcards \/ sub.default # NoPath
  /\ \E i, j \in DOMAIN taken :
       taken[i].topic = sub.topic /\ Route(taken[i]) = Route(taken[j]) /\ taken[i].cb # taken[j].cb

\* A wildcard topic whose plain handler was not its first registration, or
\* is not exempt from validation, has no default route.
NoDefault(topic) ==
  topic \in Wildcards /\ \E i \in DOMAIN listed.subs :
    listed.subs[i].topic = topic /\ listed.subs[i].default = NoPath

EventFindsHandler ==
  \A i \in DOMAIN listed.subs, kind \in Kinds :
    LET sub == listed.subs[i]
    IN /\ Matching(sub.topic, kind) \cup WithoutRule(sub.topic) # {}
       /\ ~RoutesClash(sub) /\ ~NoDefault(sub.topic)
       => _get_topic_callback(EventTopic(sub.topic), RouteOf(sub, kind))
            = Wanted(sub.topic, kind)

\* FastAPI posts the events of a route to the first function it was given.
PostFindsHandler ==
  \A i \in DOMAIN subscriptions :
    LET sub == subscriptions[i] IN
    (server = "fastapi" => \A r \in DOMAIN routes : routes[r].route = sub.route => routes[r].cb = sub.cb)
      => RouteHandler(sub.route) = sub.cb

\* An event reaches the handler that was registered for it with the best
\* priority, whatever else has been registered before or after the sidecar
\* asked for the subscriptions (_servicer.py, register_topic,
\* _get_topic_callback; flask/app.py and fastapi/app.py, subscribe), unless
\* the application gave the route of the handler to another one, too.
OwnHandler == EventFindsHandler /\ PostFindsHandler
=============================================================================
