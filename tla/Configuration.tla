--------------------------- MODULE Configuration ---------------------------
(***************************************************************************)
(* subscribe_configuration: a ConfigurationWatcher starts a thread that    *)
(* reads a stream of responses, waits for the first one to learn the id of *)
(* the subscription, and leaves the thread to call the handler.  Nothing   *)
(* opens the stream again.  The sidecar and the clock are external.        *)
(***************************************************************************)
EXTENDS Naturals, Sequences

CONSTANTS
  Watchers,
  Patience,    \* how long the caller waits for the id
  MaxChanges   \* bound: responses of a stream

ASSUME ConfigurationAssumption == Patience \in Nat \ {0} /\ MaxChanges \in Nat

VARIABLES
  watch,    \* each watcher, with its caller and its thread
  answers,  \* sidecar: what each stream has sent, as whether it has items
  ended     \* sidecar: the streams that are over

configVars == <<watch, answers, ended>>

\* id and event tell whether the attributes are set, and taken is how many
\* responses the thread has read.
NewWatcher ==
  [caller |-> "idle", aio |-> FALSE, thread |-> "off", id |-> FALSE, event |-> FALSE,
   waited |-> 0, taken |-> 0, step |-> 0, handled |-> <<>>]

Update(w, new) == watch' = [watch EXCEPT ![w] = new] /\ UNCHANGED <<answers, ended>>

----------------------------------------------------------------------------
(* The caller.                                                             *)

\* watch_configuration starts the thread; a blank store name is refused.
Subscribe(w) ==
  /\ watch[w].caller = "idle"
  /\ \/ Update(w, [watch[w] EXCEPT !.caller = "refused"])
     \/ Update(w, [watch[w] EXCEPT !.caller = "waiting", !.thread = "reading"])

\* The asynchronous client uses the same watcher, with a stub of grpc.aio.
AioSubscribe(w) ==
  /\ watch[w].caller = "idle"
  /\ \/ Update(w, [watch[w] EXCEPT !.caller = "refused"])
     \/ Update(w, [watch[w] EXCEPT !.caller = "waiting", !.thread = "reading", !.aio = TRUE])

SubscribeReturns(w) ==
  /\ watch[w].caller = "waiting" /\ watch[w].event
  /\ Update(w, [watch[w] EXCEPT !.caller = IF watch[w].id THEN "id" ELSE "blank"])

\* The thread is left alone, though nobody will know the id.
SubscribeTimesOut(w) ==
  /\ watch[w].caller = "waiting" /\ ~watch[w].event /\ watch[w].waited = Patience
  /\ Update(w, [watch[w] EXCEPT !.caller = "none"])

Unsubscribe(w) ==
  /\ watch[w].caller = "id" /\ w \notin ended
  /\ ended' = ended \cup {w}
  /\ UNCHANGED <<watch, answers>>

----------------------------------------------------------------------------
(* The thread: _read_subscribe_config.                                     *)

\* What is done with the first response, in this order, before it is handled.
\* A slip: the caller is woken first.
FirstStepsEventFirst == <<"event", "id">>
FirstSteps == <<"id", "event">>

ReadResponse(w) ==
  /\ watch[w].thread = "reading" /\ ~watch[w].aio /\ watch[w].taken < Len(answers[w])
  /\ Update(w, [watch[w] EXCEPT !.taken = @ + 1,
                                !.thread = IF watch[w].taken = 0 THEN "first" ELSE "handling"])

AssignFirst(w) ==
  LET r == watch[w]  k == r.step + 1 IN
  /\ r.thread = "first"
  /\ Update(w, [r EXCEPT ![FirstSteps[k]] = TRUE, !.step = k,
                         !.thread = IF k = Len(FirstSteps) THEN "handling" ELSE "first"])

\* A response without items is not for the handler; an exception of the
\* handler ends the thread.
Handle(w) ==
  LET r == watch[w] IN
  /\ r.thread = "handling"
  /\ \/ Update(w, [r EXCEPT !.thread = "reading",
                            !.handled = IF answers[w][r.taken] THEN Append(@, r.taken) ELSE @])
     \/ answers[w][r.taken] /\ Update(w, [r EXCEPT !.thread = "stopped", !.handled = Append(@, r.taken)])

\* The end of the stream, or its error, which may come before what was sent;
\* or the TypeError of a loop over a call of grpc.aio, which is no iterator.
ThreadStops(w) ==
  /\ watch[w].thread = "reading" /\ (w \in ended \/ watch[w].aio)
  /\ Update(w, [watch[w] EXCEPT !.thread = "stopped"])

----------------------------------------------------------------------------
(* The sidecar and the clock.                                              *)

Respond(w) ==
  /\ watch[w].thread # "off" /\ w \notin ended /\ Len(answers[w]) < MaxChanges
  /\ \E items \in BOOLEAN : answers' = [answers EXCEPT ![w] = Append(@, items)]
  /\ UNCHANGED <<watch, ended>>

StreamBreaks(w) ==
  /\ watch[w].thread # "off" /\ w \notin ended
  /\ ended' = ended \cup {w}
  /\ UNCHANGED <<watch, answers>>

TimePasses(w) ==
  /\ watch[w].caller = "waiting" /\ watch[w].waited < Patience
  /\ Update(w, [watch[w] EXCEPT !.waited = @ + 1])

ConfigInit ==
  /\ watch = [w \in Watchers |-> NewWatcher]
  /\ answers = [w \in Watchers |-> <<>>] /\ ended = {}

ConfigNext ==
  \E w \in Watchers :
    \/ Subscribe(w) \/ AioSubscribe(w) \/ SubscribeReturns(w) \/ SubscribeTimesOut(w)
    \/ Unsubscribe(w)
    \/ ReadResponse(w) \/ AssignFirst(w) \/ Handle(w) \/ ThreadStops(w)
    \/ Respond(w) \/ StreamBreaks(w) \/ TimePasses(w)

ConfigSpec == ConfigInit /\ [][ConfigNext]_configVars

----------------------------------------------------------------------------
(* Properties.                                                             *)

\* The caller that is woken finds the id, so that it can unsubscribe; and
\* the handler has had every change the thread has read, once and in order,
\* the ones in the first response too, whether or not the caller waited.
WatcherHonest ==
  \A w \in Watchers :
    LET r == watch[w]
        done == IF r.thread \in {"first", "handling"} THEN r.taken - 1 ELSE r.taken
    IN /\ r.caller # "blank"
       /\ {r.handled[i] : i \in DOMAIN r.handled} = {i \in 1 .. done : answers[w][i]}
       /\ \A i, j \in DOMAIN r.handled : i < j => r.handled[i] < r.handled[j]
=============================================================================
