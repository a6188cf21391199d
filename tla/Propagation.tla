---------------------------- MODULE Propagation -----------------------------
(***************************************************************************)
(* PropagatedHistory: the histories of the workflows above an activity or  *)
(* a child workflow, one chunk for each, put together into one sequence    *)
(* of events, and what is read from it by workflow and by name.            *)
(*                                                                         *)
(* An event is [kind, id, name, value]: scheduled and created have an id   *)
(* and a name, the outcomes the id of what they belong to and a value.     *)
(* Event ids begin again in every workflow, so chunks share them.          *)
(***************************************************************************)
EXTENDS Naturals, Sequences, FiniteSets, SequencesExt

EmptyId == ""
Malformed == [kind |-> "malformed", id |-> 0, name |-> "", value |-> ""]
NotFound == [notFound |-> TRUE]  \* PropagationNotFoundError

----------------------------------------------------------------------------
(* from_proto: a chunk is [app, instance, workflow, raw].                  *)

Undecodable(chunks) ==
  \E i \in DOMAIN chunks : chunks[i].app = EmptyId \/ Malformed \in ToSet(chunks[i].raw)

Events(chunks) == FlattenSeq([i \in DOMAIN chunks |-> chunks[i].raw])

from_proto(chunks) ==
  IF Undecodable(chunks) THEN [error |-> TRUE]
  ELSE [events |-> Events(chunks),
        chunks |-> [i \in DOMAIN chunks |->
          [app |-> chunks[i].app, instance |-> chunks[i].instance, workflow |-> chunks[i].workflow,
           start |-> Len(Events(SubSeq(chunks, 1, i - 1))), count |-> Len(chunks[i].raw)]]]

----------------------------------------------------------------------------
(* Queries on a history h.                                                 *)

chunk_events(h, c) == SubSeq(h.events, c.start + 1, c.start + c.count)

get_app_ids(h) ==
  LET first(i) == \A j \in 1 .. i - 1 : h.chunks[j].app # h.chunks[i].app
      firsts == SelectSeq([i \in DOMAIN h.chunks |-> i], first)
  IN [i \in DOMAIN firsts |-> h.chunks[firsts[i]].app]

\* get_events_by_app_id, by_instance_id and by_workflow_name: field
\* is "app", "instance" or "workflow".
events_by(h, field, id) ==
  LET chosen == SelectSeq(h.chunks, LAMBDA c : c[field] = id) IN
  FlattenSeq([i \in DOMAIN chosen |-> chunk_events(h, chosen[i])])

make_workflow_result(h, c) ==
  [instance |-> c.instance, app |-> c.app, name |-> c.workflow, events |-> chunk_events(h, c)]

get_workflows(h) == [i \in DOMAIN h.chunks |-> make_workflow_result(h, h.chunks[i])]
get_workflows_by_name(h, name) == SelectSeq(get_workflows(h), LAMBDA w : w.name = name)

LastOrNotFound(results) == IF results = <<>> THEN NotFound ELSE Last(results)
get_last_workflow_by_name(h, name) == LastOrNotFound(get_workflows_by_name(h, name))

----------------------------------------------------------------------------
(* Queries on a workflow of it: activities, and child workflows.           *)

\* The last outcome of a kind that names the event.
ValueOf(events, kind, id) ==
  LET all == SelectSeq(events, LAMBDA e : e.kind = kind /\ e.id = id) IN
  IF all = <<>> THEN "" ELSE Last(all).value
Has(events, kind, id) == \E i \in DOMAIN events : events[i].kind = kind /\ events[i].id = id

resolve_activity(events, e) ==
  [name |-> e.name, input |-> e.value,
   completed |-> Has(events, "taskCompleted", e.id), failed |-> Has(events, "taskFailed", e.id),
   output |-> ValueOf(events, "taskCompleted", e.id), error |-> ValueOf(events, "taskFailed", e.id)]

resolve_child_workflow(events, id, name) ==
  [name |-> name,
   completed |-> Has(events, "childCompleted", id), failed |-> Has(events, "childFailed", id),
   output |-> ValueOf(events, "childCompleted", id), error |-> ValueOf(events, "childFailed", id)]

get_activities_by_name(w, name) ==
  LET asked == SelectSeq(w.events, LAMBDA e : e.kind = "taskScheduled" /\ e.name = name) IN
  [i \in DOMAIN asked |-> resolve_activity(w.events, asked[i])]

get_child_workflows_by_name(w, name) ==
  LET asked == SelectSeq(w.events, LAMBDA e : e.kind = "childCreated" /\ e.name = name) IN
  [i \in DOMAIN asked |-> resolve_child_workflow(w.events, asked[i].id, name)]

get_last_activity_by_name(w, name) == LastOrNotFound(get_activities_by_name(w, name))
get_last_child_workflow_by_name(w, name) == LastOrNotFound(get_child_workflows_by_name(w, name))

----------------------------------------------------------------------------
(* The reference: a workflow's own chunk tells what became of what it      *)
(* scheduled, whatever the chunks around it say of the same ids.           *)

OutcomeIn(raw, e, done, bad) ==
  CASE \E i \in DOMAIN raw : raw[i].kind = done /\ raw[i].id = e.id -> "completed"
    [] \E i \in DOMAIN raw : raw[i].kind = bad /\ raw[i].id = e.id -> "failed"
    [] OTHER -> "pending"

OutcomeOf(r) == IF r.completed THEN "completed" ELSE IF r.failed THEN "failed" ELSE "pending"

\* The last time that a workflow asked for a name, in its chunk.
LastAsked(raw, kind, name) ==
  LET asked == {i \in DOMAIN raw : raw[i].kind = kind /\ raw[i].name = name} IN
  IF asked = {} THEN <<>> ELSE <<raw[CHOOSE i \in asked : \A j \in asked : j <= i]>>

\* Every workflow of a history has its own events, and the last result of a
\* name is the outcome of its last schedule (propagation.py, from_proto,
\* _chunk_events, get_last_activity_by_name).
ReadsOwnChunk(chunks, names) ==
  LET h == from_proto(chunks)
      all == get_workflows(h)
      agrees(found, asked, raw, done, bad) ==
        IF asked = <<>> THEN found = NotFound
        ELSE found # NotFound /\ OutcomeOf(found) = OutcomeIn(raw, asked[1], done, bad)
  IN Undecodable(chunks) \/
     /\ Len(all) = Len(chunks)
     /\ \A i \in DOMAIN all :
          LET raw == chunks[i].raw IN
          /\ all[i].events = raw /\ all[i].name = chunks[i].workflow
          /\ \A n \in names :
               /\ agrees(get_last_activity_by_name(all[i], n), LastAsked(raw, "taskScheduled", n),
                         raw, "taskCompleted", "taskFailed")
               /\ agrees(get_last_child_workflow_by_name(all[i], n), LastAsked(raw, "childCreated", n),
                         raw, "childCompleted", "childFailed")
     /\ \A i \in DOMAIN chunks, field \in {"app", "instance", "workflow"} :
          events_by(h, field, chunks[i][field])
            = Events(SelectSeq(chunks, LAMBDA c : c[field] = chunks[i][field]))
     /\ ToSet(get_app_ids(h)) = {chunks[i].app : i \in DOMAIN chunks}
     /\ \A i, j \in DOMAIN get_app_ids(h) : get_app_ids(h)[i] = get_app_ids(h)[j] => i = j
     /\ \A w \in {chunks[i].workflow : i \in DOMAIN chunks} :
          get_last_workflow_by_name(h, w).name = w
=============================================================================
