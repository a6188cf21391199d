---------------------------- MODULE HistoryCache ----------------------------
(***************************************************************************)
(* Delta work items: the worker keeps the committed history of each        *)
(* instance it ran (_WorkflowHistoryCache) so that the sidecar sends only  *)
(* what is new.  Turns run in worker threads; a turn of a stream that has  *)
(* been superseded runs on, and still touches the cache.                   *)
(* A response lost on a stream that stays open is not modelled: what the   *)
(* sidecar does then does not show in this code.                           *)
(*                                                                         *)
(* A history is a sequence of events, and an event is named by the         *)
(* execution that wrote it: histories of two executions of one instance    *)
(* differ at every position.  The sidecar is external.                     *)
(***************************************************************************)
EXTENDS Naturals, Sequences, FiniteSets, SequencesExt

CONSTANTS
  Instances,  \* workflow instance ids
  MaxLen,     \* bound: turns of an execution
  Scenes      \* how the worker is configured, and what happens to it

(* A scene has the worker's configuration,                                 *)
(*   maxInstances  _max_instances                                          *)
(*   maxBytes      _max_bytes, 0 for no budget; an event has size 1        *)
(* and bounds                                                              *)
(*   generations   executions of an instance after the first               *)
(*   reconnects    streams after the first                                 *)
(*   failures      failing GetInstanceHistory calls                        *)
ASSUME HistoryCacheAssumption ==
  /\ IsFiniteSet(Instances) /\ MaxLen \in Nat
  /\ Scenes \subseteq [maxInstances: Nat \ {0}, maxBytes: Nat, generations: Nat,
                       reconnects: Nat, failures: Nat]

VARIABLES
  scene,      \* the scene of this worker, fixed
  entries,    \* _entries in the order of last_access, oldest first
  totalBytes, \* _total_bytes
  turns,      \* the work items in the hands of the worker, of any stream
  stream,     \* number of the current stream
  failures,   \* GetInstanceHistory calls that have failed
  committed, gen, ended,  \* sidecar: history, execution, instances that ended,
  warm, pending           \* the prefix it takes the worker to have, and the
                          \* instances it waits for on the current stream

sidecarVars == <<committed, gen, ended, warm, pending>>
vars == <<scene, entries, totalBytes, turns, stream, failures, sidecarVars>>

Full == MaxLen + 1          \* eventCount of a work item without cachedHistory
Entry(i, h) == [inst |-> i, events |-> h]
Keys(s) == {s[j].inst : j \in DOMAIN s}

----------------------------------------------------------------------------
(* _WorkflowHistoryCache.  Each method holds the lock: one step.           *)

Size(s) ==
  LET sum[j \in 0 .. Len(s)] == IF j = 0 THEN 0 ELSE sum[j - 1] + Len(s[j].events)
  IN sum[Len(s)]

\* Where the entry of an instance is: the entries are a dict.
Position(s, i) == CHOOSE j \in DOMAIN s : s[j].inst = i

Without(s, i) == IF i \in Keys(s) THEN RemoveAt(s, Position(s, i)) ELSE s

Cached(i) == IF i \in Keys(entries) THEN {entries[Position(entries, i)]} ELSE {}

\* get: the entry becomes the one accessed last
Touched(i) ==
  IF i \in Keys(entries) THEN Append(Without(entries, i), entries[Position(entries, i)])
  ELSE entries

\* num_bytes of the entry of an instance
NumBytes(i) ==
  IF i \in Keys(entries) THEN Len(entries[Position(entries, i)].events) ELSE 0

InBounds(count, bytes) ==
  count <= scene.maxInstances /\ (scene.maxBytes > 0 => bytes <= scene.maxBytes)

\* _evict_to_fit after a put: how many of the oldest entries go until the
\* rest is in bounds; the entry just put, which is the last, always stays.
Evicted(s, total) ==
  LET fine(k) == \/ k = Len(s) - 1
                 \/ InBounds(Len(s) - k, total - Size(SubSeq(s, 1, k)))
  IN CHOOSE k \in 0 .. Len(s) - 1 : fine(k) /\ \A m \in 0 .. k - 1 : ~fine(m)

\* The entry replaced by a put leaves the total, or by a slip does not.
ReplacedSizeIgnored(i) == 0
ReplacedSize(i) == NumBytes(i)

Put(i, h) ==
  LET s == Append(Without(entries, i), Entry(i, h))
      total == totalBytes - ReplacedSize(i) + Len(h)
      k == Evicted(s, total)
  IN /\ entries' = SubSeq(s, k + 1, Len(s))
     /\ totalBytes' = total - Size(SubSeq(s, 1, k))

Delete(i) ==
  /\ entries' = Without(entries, i)
  /\ totalBytes' = totalBytes - NumBytes(i)

Reset == entries' = <<>> /\ totalBytes' = 0

\* sweep_expired: entries not accessed for the TTL are the oldest ones
SweepExpired ==
  /\ \E k \in 1 .. Len(entries) :
       /\ entries' = SubSeq(entries, k + 1, Len(entries))
       /\ totalBytes' = totalBytes - Size(SubSeq(entries, 1, k))
  /\ UNCHANGED <<turns, stream, failures, sidecarVars>>

----------------------------------------------------------------------------
(* _execute_orchestrator, in a worker thread.                              *)

Turn(i, count, past) ==
  [stream |-> stream, inst |-> i, count |-> count, past |-> past,
   stage |-> "received", history |-> <<>>, ends |-> FALSE]

Advanced(t, u) == turns' = (turns \ {t}) \cup {u}

ResolveFull ==
  /\ \E t \in turns :
       /\ t.stage = "received" /\ t.count = Full
       /\ Advanced(t, [t EXCEPT !.stage = "resolved", !.history = t.past])
  /\ UNCHANGED <<entries, totalBytes, stream, failures, sidecarVars>>

\* A slip: the length of the cached prefix is not compared.
PrefixAny(i, count) == Cached(i)

\* The cached prefix of the length the sidecar names, if there is one.
Prefix(i, count) == {e \in Cached(i) : Len(e.events) = count}

\* _resolve_history for a delta: the cached prefix, or a fetch on a miss
ResolveDelta ==
  /\ \E t \in turns :
       /\ t.stage = "received" /\ t.count # Full
       /\ entries' = Touched(t.inst)
       /\ IF Prefix(t.inst, t.count) = {}
          THEN Advanced(t, [t EXCEPT !.stage = "missed"])
          ELSE \E e \in Prefix(t.inst, t.count) :
                 Advanced(t, [t EXCEPT !.stage = "resolved",
                                       !.history = e.events \o t.past])
  /\ UNCHANGED <<totalBytes, stream, failures, sidecarVars>>

\* GetInstanceHistory: what is committed now
Fetch ==
  /\ \E t \in turns :
       /\ t.stage = "missed"
       /\ Advanced(t, [t EXCEPT !.stage = "resolved", !.history = committed[t.inst]])
  /\ UNCHANGED <<entries, totalBytes, stream, failures, sidecarVars>>

\* execute and _update_history_cache: delete when the turn ends the execution
Execute ==
  /\ \E t \in turns, ends \in BOOLEAN :
       /\ t.stage = "resolved"
       /\ Len(t.history) = MaxLen => ends
       /\ IF ends THEN Delete(t.inst) ELSE Put(t.inst, t.history)
       /\ Advanced(t, [t EXCEPT !.stage = "executed", !.ends = ends])
  /\ UNCHANGED <<stream, failures, sidecarVars>>

Live(t) == t.stream = stream

\* CompleteOrchestratorTask of a turn the sidecar waits for.  The sidecar
\* commits the new events; an execution that ended is over or starts anew.
\* A response too large to deliver is replaced by a failure of the instance,
\* whose history stays in the cache.
Respond ==
  /\ \E t \in turns :
       /\ t.stage = "executed" /\ Live(t)
       /\ turns' = turns \ {t} /\ pending' = pending \ {t.inst}
       /\ \/ /\ ~t.ends
             /\ committed' = [committed EXCEPT ![t.inst] = Append(@, gen[t.inst])]
             /\ warm' = [warm EXCEPT ![t.inst] = Len(committed[t.inst])]
             /\ UNCHANGED <<gen, ended>>
          \/ /\ ended' = ended \cup {t.inst}
             /\ warm' = [warm EXCEPT ![t.inst] = Full]
             /\ UNCHANGED <<committed, gen>>
          \/ /\ t.ends /\ gen[t.inst] < scene.generations
             /\ gen' = [gen EXCEPT ![t.inst] = @ + 1]
             /\ committed' = [committed EXCEPT ![t.inst] = <<>>]
             /\ warm' = [warm EXCEPT ![t.inst] = Full]
             /\ UNCHANGED ended
  /\ UNCHANGED <<entries, totalBytes, stream, failures>>

\* The response of a superseded stream is refused.
RespondLate ==
  /\ \E t \in turns : t.stage = "executed" /\ ~Live(t) /\ turns' = turns \ {t}
  /\ UNCHANGED <<entries, totalBytes, stream, failures, sidecarVars>>

----------------------------------------------------------------------------
(* The stream.                                                             *)

\* Sent again after a reconnect, in full; a delta on a stream that is warm.
Dispatch ==
  /\ \E i \in Instances \ (ended \cup pending) :
       /\ pending' = pending \cup {i}
       /\ turns' = turns \cup
            {Turn(i, warm[i], IF warm[i] = Full THEN committed[i]
                              ELSE SubSeq(committed[i], warm[i] + 1, Len(committed[i])))}
  /\ UNCHANGED <<entries, totalBytes, stream, failures, committed, gen, ended, warm>>

\* invalidate_connection and a new stream: both sides start cold.
NewStream ==
  /\ stream' = stream + 1
  /\ Reset
  /\ warm' = [i \in Instances |-> Full] /\ pending' = {}
  /\ UNCHANGED <<committed, gen, ended>>

Reconnect ==
  /\ stream < scene.reconnects
  /\ NewStream
  /\ UNCHANGED <<turns, failures>>

\* A slip: the turn gives up and leaves the stream as it is.
FetchFailsQuietly ==
  /\ failures < scene.failures
  /\ failures' = failures + 1
  /\ \E t \in turns : t.stage = "missed" /\ turns' = turns \ {t}
  /\ UNCHANGED <<stream, entries, totalBytes, sidecarVars>>

\* _HistoryResolutionError: no response; the stream the item came on is
\* cancelled, which does nothing to its successor.
FetchFails ==
  /\ failures < scene.failures
  /\ failures' = failures + 1
  /\ \E t \in turns :
       /\ t.stage = "missed" /\ turns' = turns \ {t}
       /\ IF Live(t) THEN NewStream
          ELSE UNCHANGED <<stream, entries, totalBytes, sidecarVars>>

----------------------------------------------------------------------------
Init ==
  /\ scene \in Scenes
  /\ entries = <<>> /\ totalBytes = 0
  /\ turns = {} /\ stream = 0 /\ failures = 0
  /\ committed = [i \in Instances |-> <<>>] /\ gen = [i \in Instances |-> 0]
  /\ ended = {} /\ pending = {} /\ warm = [i \in Instances |-> Full]

Worker == ResolveFull \/ ResolveDelta \/ Fetch \/ Execute \/ Respond \/ RespondLate

Next ==
  /\ \/ ResolveFull \/ ResolveDelta \/ Fetch \/ Execute \/ Respond \/ RespondLate
     \/ Dispatch \/ SweepExpired \/ Reconnect \/ FetchFails
  /\ UNCHANGED scene

Spec == Init /\ [][Next]_vars

\* Threads run and the sidecar dispatches.  Nothing else is promised.
FairSpec ==
  Spec /\ WF_vars(Worker /\ UNCHANGED scene) /\ WF_vars(Dispatch /\ UNCHANGED scene)

----------------------------------------------------------------------------
(* Properties.                                                             *)

History == Seq(0 .. scene.generations)

\* The cache holds at most one history per instance, the turns are at a
\* stage of _execute_orchestrator and belong to a stream that was opened.
TypeOK ==
  /\ entries \in Seq([inst: Instances, events: History])
  /\ \A j, k \in DOMAIN entries : entries[j].inst = entries[k].inst => j = k
  /\ totalBytes \in Nat /\ stream \in Nat /\ failures \in Nat
  /\ turns \subseteq [stream: 0 .. stream, inst: Instances, count: 0 .. Full,
                      past: History, history: History, ends: BOOLEAN,
                      stage: {"received", "missed", "resolved", "executed"}]
  /\ committed \in [Instances -> History] /\ gen \in [Instances -> 0 .. scene.generations]
  /\ ended \subseteq Instances /\ pending \subseteq Instances /\ warm \in [Instances -> 0 .. Full]

\* A turn replays the committed history of its instance: what the worker
\* pieced together from its cache and the delta is what the sidecar would
\* have sent in full, whatever was evicted, swept, reset or put late.
ReplaysCommitted ==
  \A t \in turns :
    Live(t) /\ t.stage \in {"resolved", "executed"} => t.history = committed[t.inst]

\* The byte count the budget is compared with is the size of the entries.
BytesAccounted == totalBytes = Size(entries)

\* The cache exceeds its bounds by at most the entry put last.
WithinBounds == Len(entries) > 1 => InBounds(Len(entries), Size(entries))

\* Whatever is put, replaced, deleted, evicted and swept, in any order, the
\* cache knows its size and stays within the limits of its options
\* (worker.py, _evict_to_fit).
Inv == TypeOK /\ BytesAccounted /\ WithinBounds

\* Every instance ends: a work item whose history could not be recovered is
\* sent again and not forgotten.
AllEnd == <>(ended = Instances)
=============================================================================
