----------------------------- MODULE Documents ------------------------------
(***************************************************************************)
(* Documents in a state store: DaprSessionManager keeps a Strands session, *)
(* its agents, their messages and a manifest of the agents;                *)
(* DaprCheckpointer keeps the checkpoints of a LangGraph thread and a      *)
(* pointer to the latest.  Every method is a sequence of get_state,        *)
(* save_state and delete_state calls without etags or transactions; other  *)
(* callers come in between, and any of the calls may fail, before or after *)
(* the store has applied it.                                               *)
(*                                                                         *)
(* A document is <<v>>, and <<>> where there is none.  One session and one *)
(* thread; the contents of agents, messages and checkpoints are left out.  *)
(***************************************************************************)
EXTENDS Naturals, Sequences, FiniteSets, SequencesExt

CONSTANTS
  Users, Agents, Messages, Checkpoints,
  NoId,         \* '', no checkpoint id
  Scripts        \* the calls each caller makes, in order, and the failures

Ids == Checkpoints \cup {NoId}

\* A call is a record of its method and arguments.
DocCalls ==
  [method: {"create_session", "delete_session", "get_tuple", "list", "delete_thread"}]
  \cup [method: {"create_agent", "update_agent", "list_messages"}, agent: Agents]
  \cup [method: {"create_message", "update_message"}, agent: Agents, message: Messages]
  \cup [method: {"put"}, config: Ids, ts: Ids, id: Ids]
  \cup [method: {"put_writes"}, config: Ids, writes: Nat]

ASSUME DocumentsAssumption ==
  /\ IsFiniteSet(Users) /\ NoId \notin Checkpoints
  /\ \A s \in Scripts : s \in [calls: [Users -> Seq(DocCalls)], faults: Nat]

VARIABLES
  script,
  store,        \* the state store
  done,         \* calls each caller has finished
  pc,           \* store calls made in the current call
  seen,         \* what the current call has read, in order
  outcome,      \* how the last call ended: "none", "ok", "raised", "failed"
  kept,         \* messages whose create_message returned, for each agent
  unlisted,     \* agents whose create_agent did not return
  lostCalls

docVars == <<script, store, done, pc, seen, outcome, kept, unlisted, lostCalls>>

----------------------------------------------------------------------------
(* Keys.                                                                   *)

SessionKey == <<"session">>
ManifestKey == <<"manifest">>
AgentKey(g) == <<"agents", g>>

MessagesKey(g) == <<"messages", g>>

CheckpointKey(k) == <<"checkpoint", k>>
LatestKey == <<"latest">>
\* put_writes makes a one-element tuple of the thread's id, and so another
\* key of it.
WritesLatestKey == <<"latest", "tuple">>
RegistryKey == <<"dapr_checkpoint_registry">>
ThreadKey == <<"key_prefix", "thread">>

Keys ==
  {SessionKey, ManifestKey, LatestKey, WritesLatestKey, RegistryKey, ThreadKey}
  \cup {AgentKey(g) : g \in Agents} \cup {MessagesKey(g) : g \in Agents}
  \cup {CheckpointKey(k) : k \in Ids}

----------------------------------------------------------------------------
(* Store calls, and what a call has read.                                  *)

Get(k) == [do |-> "get", key |-> k]
Save(k, v) == [do |-> "save", key |-> k, value |-> v]
Delete(k) == [do |-> "delete", key |-> k]
Raise == [do |-> "raise"]

Read(r, i) == IF i \in DOMAIN r THEN r[i] ELSE <<>>
HasRead(r, i) == Read(r, i) # <<>>
Items(r, i) == IF HasRead(r, i) THEN r[i][1] ELSE <<>>

----------------------------------------------------------------------------
(* The methods, each as its store calls; r is what they have read so far.  *)

CreateSession(r) ==
  <<Get(SessionKey), IF HasRead(r, 1) THEN Raise ELSE Save(SessionKey, "session")>>

\* The document and the messages of one agent after the other.
AgentDeletions(agents) ==
  [j \in 1 .. 2 * Len(agents) |->
     IF j % 2 = 1 THEN Delete(AgentKey(agents[(j + 1) \div 2]))
     ELSE Delete(MessagesKey(agents[j \div 2]))]

\* A slip: the manifest goes first.
DeleteSessionManifestFirst(r) ==
  <<Get(ManifestKey), Delete(ManifestKey)>> \o AgentDeletions(Items(r, 1)) \o <<Delete(SessionKey)>>

DeleteSession(r) ==
  <<Get(ManifestKey)>> \o AgentDeletions(Items(r, 1)) \o <<Delete(ManifestKey), Delete(SessionKey)>>

CreateAgent(g, r) ==
  <<Save(AgentKey(g), "agent"), Save(MessagesKey(g), <<>>), Get(ManifestKey),
    Save(ManifestKey, IF Contains(Items(r, 1), g) THEN Items(r, 1)
                      ELSE Append(Items(r, 1), g))>>

UpdateAgent(g, r) ==
  <<Get(AgentKey(g)),
    IF HasRead(r, 1) THEN Save(AgentKey(g), "agent") ELSE Raise>>

CreateMessage(g, m, r) ==
  <<Get(MessagesKey(g)), Save(MessagesKey(g), Append(Items(r, 1), m))>>

\* read_message, then the list is read again and written with the message
\* in its place.
UpdateMessage(g, m, r) ==
  IF ~Contains(Items(r, 1), m) THEN <<Get(MessagesKey(g)), Raise>>
  ELSE <<Get(MessagesKey(g)), Get(MessagesKey(g)),
         IF Contains(Items(r, 2), m) THEN Save(MessagesKey(g), Items(r, 2))
         ELSE Raise>>

ListMessages(g) == <<Get(MessagesKey(g))>>

\* Which id put() takes: the configuration's, else its thread_ts, else the
\* checkpoint's; the checkpoint's own if the configuration names a parent.
PutId(configId, ts, id) ==
  IF id # NoId /\ configId # NoId /\ id # configId THEN id
  ELSE IF configId # NoId THEN configId
  ELSE IF ts # NoId THEN ts
  ELSE id

\* A slip: the pointer is moved before the checkpoint is there.
PutPointerFirst(configId, ts, id) ==
  LET k == PutId(configId, ts, id) IN
  <<Save(LatestKey, k), Save(CheckpointKey(k), "checkpoint")>>

Put(configId, ts, id) ==
  LET k == PutId(configId, ts, id) IN
  <<Save(CheckpointKey(k), "checkpoint"), Save(LatestKey, k)>>

\* Every write is saved under the key of the checkpoint itself.
PutWrites(configId, n) ==
  [j \in 1 .. 2 * n |->
     IF j % 2 = 1 THEN Save(CheckpointKey(configId), "writes") ELSE Save(WritesLatestKey, configId)]

\* The document is unpacked as a checkpoint, which fails on a write.
GetTuple(r) ==
  IF ~HasRead(r, 1) THEN <<Get(LatestKey)>>
  ELSE IF Read(r, 2) = <<"writes">> THEN <<Get(LatestKey), Get(CheckpointKey(r[1][1])), Raise>>
  ELSE <<Get(LatestKey), Get(CheckpointKey(r[1][1]))>>

\* Nothing else writes the registry or the thread's key.
ListCheckpoints(r) ==
  <<Get(RegistryKey)>> \o [i \in DOMAIN Items(r, 1) |-> Get(Items(r, 1)[i])]

DeleteThread(r) ==
  IF ~Contains(Items(r, 1), ThreadKey) THEN <<Delete(ThreadKey), Get(RegistryKey)>>
  ELSE <<Delete(ThreadKey), Get(RegistryKey), Save(RegistryKey, Remove(Items(r, 1), ThreadKey))>>

Plan(c, r) ==
  CASE c.method = "create_session" -> CreateSession(r)
    [] c.method = "delete_session" -> DeleteSession(r)
    [] c.method = "create_agent" -> CreateAgent(c.agent, r)
    [] c.method = "update_agent" -> UpdateAgent(c.agent, r)
    [] c.method = "create_message" -> CreateMessage(c.agent, c.message, r)
    [] c.method = "update_message" -> UpdateMessage(c.agent, c.message, r)
    [] c.method = "list_messages" -> ListMessages(c.agent)
    [] c.method = "put" -> Put(c.config, c.ts, c.id)
    [] c.method = "put_writes" -> PutWrites(c.config, c.writes)
    [] c.method = "get_tuple" -> GetTuple(r)
    [] c.method = "list" -> ListCheckpoints(r)
    [] c.method = "delete_thread" -> DeleteThread(r)

----------------------------------------------------------------------------
(* A caller makes its calls one after the other.                           *)

Calling(p) == done[p] < Len(script.calls[p])
Current(p) == script.calls[p][done[p] + 1]
Steps(p) == Plan(Current(p), seen[p])
StoreStep(p) == Steps(p)[pc[p] + 1]
MidCall(p) == Calling(p) /\ pc[p] < Len(Steps(p))

\* What a store call leaves in the store.
Applied(s) ==
  CASE s.do = "save" -> [store EXCEPT ![s.key] = <<s.value>>]
    [] s.do = "delete" -> [store EXCEPT ![s.key] = <<>>]
    [] OTHER -> store

\* What is known of the agents' documents once a call has begun: a new or a
\* deleted agent has no messages to keep, and is not listed until the call
\* has returned.
Touched(c) ==
  CASE c.method = "create_agent" -> {c.agent}
    [] c.method = "delete_session" -> Agents
    [] OTHER -> {}

StoreCall(p) ==
  /\ MidCall(p) /\ StoreStep(p).do # "raise"
  /\ store' = Applied(StoreStep(p))
  /\ pc' = [pc EXCEPT ![p] = @ + 1]
  /\ seen' = IF StoreStep(p).do = "get"
             THEN [seen EXCEPT ![p] = Append(@, store[StoreStep(p).key])]
             ELSE seen
  /\ kept' = [g \in Agents |-> IF g \in Touched(Current(p)) THEN {} ELSE kept[g]]
  /\ unlisted' = IF Current(p).method = "create_agent"
                 THEN unlisted \cup {Current(p).agent} ELSE unlisted
  /\ UNCHANGED <<script, done, outcome, lostCalls>>

EndCall(p, how) ==
  /\ done' = [done EXCEPT ![p] = @ + 1]
  /\ pc' = [pc EXCEPT ![p] = 0]
  /\ seen' = [seen EXCEPT ![p] = <<>>]
  /\ outcome' = [outcome EXCEPT ![p] = how]

Return(p) ==
  /\ Calling(p) /\ pc[p] = Len(Steps(p))
  /\ EndCall(p, "ok")
  /\ LET c == Current(p) IN
     /\ kept' = IF c.method = "create_message"
                THEN [kept EXCEPT ![c.agent] = @ \cup {c.message}] ELSE kept
     /\ unlisted' = IF c.method = "create_agent" THEN unlisted \ {c.agent}
                    ELSE unlisted
  /\ UNCHANGED <<script, store, lostCalls>>

RaiseError(p) ==
  /\ MidCall(p) /\ StoreStep(p).do = "raise"
  /\ EndCall(p, "raised")
  /\ UNCHANGED <<script, store, kept, unlisted, lostCalls>>

\* The store call fails, or the caller crashes and starts again: the call
\* is over, whether or not the store has applied it.
StoreFails(p) ==
  /\ MidCall(p) /\ StoreStep(p).do # "raise"
  /\ lostCalls < script.faults /\ lostCalls' = lostCalls + 1
  /\ store' \in {store, Applied(StoreStep(p))}
  /\ kept' = [g \in Agents |-> IF g \in Touched(Current(p)) THEN {} ELSE kept[g]]
  /\ unlisted' = IF Current(p).method = "create_agent"
                 THEN unlisted \cup {Current(p).agent} ELSE unlisted
  /\ EndCall(p, "failed")
  /\ UNCHANGED script

DocInit ==
  /\ script \in Scripts
  /\ store = [k \in Keys |-> <<>>]
  /\ done = [p \in Users |-> 0]
  /\ pc = [p \in Users |-> 0]
  /\ seen = [p \in Users |-> <<>>]
  /\ outcome = [p \in Users |-> "none"]
  /\ kept = [g \in Agents |-> {}]
  /\ unlisted = {} /\ lostCalls = 0

DocNext ==
  \E p \in Users :
    StoreCall(p) \/ Return(p) \/ RaiseError(p) \/ StoreFails(p)

DocSpec == DocInit /\ [][DocNext]_docVars

----------------------------------------------------------------------------
(* Properties.                                                             *)

Stored(k) == store[k] # <<>>

\* As the Strands session manager calls them: an agent is created before it
\* is used, again after a delete_session.
InOrder(calls) ==
  \A i \in DOMAIN calls :
    calls[i].method \in {"update_agent", "create_message", "update_message", "list_messages"} =>
      \E j \in 1 .. i - 1 :
        /\ calls[j].method = "create_agent" /\ calls[j].agent = calls[i].agent
        /\ \A k \in j .. i : calls[k].method # "delete_session"

\* The users of the session.
SessionUsers ==
  {p \in Users : \E i \in DOMAIN script.calls[p] :
                     script.calls[p][i].method \in
                       {"create_agent", "delete_session", "create_session"}}

\* delete_session finds all the data it has to delete: an agent that has a
\* document or messages is in the manifest, unless its create_agent has not
\* returned.
AllListed ==
  \A g \in Agents :
    Stored(AgentKey(g)) \/ Stored(MessagesKey(g)) =>
      \/ g \in unlisted
      \/ Stored(ManifestKey) /\ Contains(store[ManifestKey][1], g)

\* With one caller at a time that is so whichever store call of whichever
\* method has failed.
Reclaimable == Cardinality(SessionUsers) <= 1 => AllListed

\* Users that write the messages of an agent.
Writers(g) ==
  {p \in Users : \E i \in DOMAIN script.calls[p] :
     LET c == script.calls[p][i] IN
     \/ c.method \in {"create_agent", "create_message", "update_message"} /\ c.agent = g
     \/ c.method = "delete_session"}

\* A message whose create_message returned stays in the list of its agent,
\* whatever the callers of other agents do and whichever of the agent's own
\* later calls fail, until the agent is created again or deleted.
MessagesKept ==
  \A g \in Agents :
    Cardinality(Writers(g)) <= 1 =>
      \A m \in kept[g] :
        Stored(MessagesKey(g)) /\ Contains(store[MessagesKey(g)][1], m)

\* Both, of a Strands session: it can be deleted as a whole and loses nothing
\* before (dapr_session_manager.py, create_agent, create_message).
SessionKept == Reclaimable /\ MessagesKept

\* The latest pointer of a thread names a checkpoint document that is in the
\* store, whichever store call failed and whoever else saves checkpoints.
PointerNamesSaved ==
  Stored(LatestKey) => Stored(CheckpointKey(store[LatestKey][1]))

\* A thread that has a latest checkpoint can be resumed from it: get_tuple
\* returns it or nothing, and does not raise.
ResumeWorks ==
  \A p \in Users :
    (outcome[p] = "raised") => script.calls[p][done[p]].method # "get_tuple"
=============================================================================
