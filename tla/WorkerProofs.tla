---------------------------- MODULE WorkerProofs ----------------------------
(***************************************************************************)
(* Proofs about Worker, for every set of work items, number of             *)
(* connections, semaphore size and pool size: the semaphores and the pool  *)
(* keep their limits over all streams, and stop() leaves nothing behind.   *)
(* And about the Registry of the worker: a name keeps running what was     *)
(* registered for it, and an instance the version it began with.           *)
(***************************************************************************)
EXTENDS Worker, Registry, FiniteSetTheorems, SequenceTheorems, TLAPS

Stages == {"none", "sent", "read", "queued", "pool", "running", "result",
           "sending", "gone"}

TypeOK ==
  /\ scene \in Scenes
  /\ shutdown \in BOOLEAN /\ streamReady \in BOOLEAN /\ isRunning \in BOOLEAN
  /\ hasLoop \in BOOLEAN /\ poolShut \in BOOLEAN /\ gaveUp \in BOOLEAN
  /\ starter \in {"idle", "waiting"}
  /\ stopper \in {"idle", "closing", "joining", "draining", "stopped"}
  /\ loop \in {"none", "top", "connect", "hello", "backoff", "open", "listen", "ending", "ended"}
  /\ starts \in Nat /\ faults \in Nat /\ opened \in 0 .. MaxLinks
  /\ conn \in 0 .. MaxLinks /\ channel \in 0 .. MaxLinks /\ retired \subseteq Links
  /\ link \in [Links -> {"none", "channel", "streaming", "ended", "closed"}]
  /\ reader \in [Links -> {"none", "reading", "finished", "raised", "fatal"}]
  /\ job \in [Items -> [Links -> Stages]]
  /\ pend \in [Items -> 0 .. Done]

\* What the event loop had to do with a job that is over when the loop is.
OffLoop(i, n) ==
  /\ job[i][n] \notin {"queued", "pool", "result"}
  /\ job[i][n] = "running" => ~OnLoop(i)

\* The run loop has a connection while it uses one, and gives up none that
\* streams without the promise to close it; when it ends it takes its work
\* along.
LoopInv ==
  /\ loop \in {"hello", "open", "listen"} => conn # 0
  /\ loop \in {"none", "top", "connect", "backoff", "ended"} => conn = 0
  /\ \A n \in Links : link[n] = "streaming" => n = conn \/ n \in retired
  /\ loop = "ended" => \A i \in Items, n \in Links : OffLoop(i, n)

\* What stop() has reached when it waits for the pool, and when it is over.
StopInv ==
  /\ stopper \in {"draining", "stopped"} =>
       poolShut /\ (~gaveUp => loop = "ended" /\ retired = {})
  /\ stopper = "stopped" => \A j \in Jobs : ~InPool(j)

\* A holder of a semaphore keeps it from the submission to the pool until its
\* result has been sent.
SlotInv ==
  /\ \A sem \in Semaphores : Cardinality(Holders(sem)) <= Limit[sem]
  /\ Cardinality(Busy) <= PoolSize

IInv == TypeOK /\ LoopInv /\ StopInv /\ SlotInv

----------------------------------------------------------------------------
(* The type invariant.                                                     *)

\* A move changes the stage of one job, and keeps the type.
LEMMA MoveType ==
  ASSUME TypeOK, NEW i \in Items, NEW n \in Links, NEW from, NEW to \in Stages,
         Move(i, n, from, to)
  PROVE  job' \in [Items -> [Links -> Stages]]
BY DEF TypeOK, Move

\* What the sidecar takes back it may send again.
LEMMA TakenBackType ==
  ASSUME TypeOK, NEW n
  PROVE  TakenBack(n) \in [Items -> 0 .. Done]
BY WorkerAssumption DEF TypeOK, TakenBack, Done

\* The channel that is given up is one of the links.
LEMMA InvalidateType ==
  ASSUME TypeOK, Invalidate
  PROVE  conn' \in 0 .. MaxLinks /\ channel' \in 0 .. MaxLinks /\ retired' \subseteq Links
BY WorkerAssumption DEF TypeOK, Invalidate, Retire, Links

\* The initial state has the type.
LEMMA InitType == Init => TypeOK
<1> SUFFICES ASSUME Init PROVE TypeOK
  OBVIOUS
<1> USE DEF Init
<1>1. pend \in [Items -> 0 .. Done]
  BY WorkerAssumption DEF Done
<1>2. job \in [Items -> [Links -> Stages]]
  BY DEF Stages
<1>3. 0 \in 0 .. MaxLinks
  BY WorkerAssumption
<1>4. /\ link \in [Links -> {"none", "channel", "streaming", "ended", "closed"}]
      /\ reader \in [Links -> {"none", "reading", "finished", "raised", "fatal"}]
  OBVIOUS
<1> QED
  BY <1>1, <1>2, <1>3, <1>4 DEF TypeOK

\* The steps of the run loop keep the type.
LEMMA LoopType ==
  ASSUME TypeOK, LoopInv, Loop \/ Acquire
  PROVE  TypeOK'
<1> USE WorkerAssumption
<1>1. CASE Connect
  <2>1. /\ opened' \in 0 .. MaxLinks /\ conn' \in 0 .. MaxLinks
        /\ channel' \in 0 .. MaxLinks
    BY <1>1 DEF Connect, TypeOK, Links
  <2>2. link' \in [Links -> {"none", "channel", "streaming", "ended", "closed"}]
    BY <1>1 DEF Connect, TypeOK
  <2> QED
    BY <1>1, <2>1, <2>2 DEF Connect, TypeOK, userVars
<1>2. CASE LoopTop \/ HelloReturns \/ Backoff
  BY <1>2 DEF LoopTop, HelloReturns, Backoff, TypeOK, userVars, linkVars
<1>3. CASE HelloFails
  BY <1>3 DEF HelloFails, Fails, TypeOK, userVars
<1>4. CASE OpenStream
  BY <1>4 DEF OpenStream, TypeOK, userVars
<1>5. CASE OpenFails
  BY <1>5, InvalidateType DEF OpenFails, TypeOK, userVars
<1>6. CASE Submit
  <2>1. PICK i \in Items : Move(i, conn, "read", "queued")
    BY <1>6 DEF Submit
  <2>2. conn \in Links
    BY <1>6 DEF Submit, LoopInv, TypeOK, Links
  <2>3. job' \in [Items -> [Links -> Stages]]
    BY <2>1, <2>2, MoveType DEF Stages
  <2> QED
    BY <1>6, <2>3 DEF Submit, TypeOK, userVars, linkVars
<1>7. CASE Leave
  BY <1>7, InvalidateType DEF Leave, TypeOK, userVars
<1>8. CASE ReaderRaised
  BY <1>8, InvalidateType DEF ReaderRaised, TypeOK, userVars
<1>9. CASE LoopEnds
  <2>1. job' \in [Items -> [Links -> Stages]]
    BY <1>9 DEF LoopEnds, TypeOK, Stages
  <2> QED
    BY <1>9, <2>1, InvalidateType DEF LoopEnds, TypeOK, userVars
<1>10. CASE Acquire
  <2>1. PICK i \in Items, n \in Links :
          Move(i, n, "queued", IF OnLoop(i) THEN "running"
                               ELSE IF poolShut THEN "gone" ELSE "pool")
    BY <1>10 DEF Acquire
  <2>2. job' \in [Items -> [Links -> Stages]]
    BY <2>1, MoveType DEF Stages
  <2> QED
    BY <1>10, <2>2 DEF Acquire, TypeOK, userVars, linkVars
<1> QED
  BY <1>1, <1>2, <1>3, <1>4, <1>5, <1>6, <1>7, <1>8, <1>9, <1>10 DEF Loop

\* The readers, the pool and the sidecar keep the type.
LEMMA PoolType ==
  ASSUME TypeOK, \/ PoolTakes \/ Executed \/ Send \/ TearDown \/ ReadItem \/ ReaderFinishes
                 \/ ReaderFails \/ DeferredClose \/ StreamEnds \/ Dispatch
  PROVE  TypeOK'
<1>1. CASE PoolTakes
  <2>1. PICK i \in Items, n \in Links : \/ Move(i, n, "pool", "running")
                                        \/ Move(i, n, "result", "sending")
    BY <1>1 DEF PoolTakes
  <2>2. job' \in [Items -> [Links -> Stages]]
    BY <2>1, MoveType DEF Stages
  <2> QED
    BY <1>1, <2>2 DEF PoolTakes, TypeOK, userVars, linkVars
<1>2. CASE Executed
  <2>1. PICK i \in Items, n \in Links :
          Move(i, n, "running", IF ~OnLoop(i) THEN "sending"
                                ELSE IF poolShut THEN "gone" ELSE "result")
    BY <1>2 DEF Executed
  <2>2. job' \in [Items -> [Links -> Stages]]
    BY <2>1, MoveType DEF Stages
  <2> QED
    BY <1>2, <2>2 DEF Executed, TypeOK, userVars, linkVars
<1>3. CASE Send
  <2>1. PICK i \in Items, n \in Links :
          /\ Move(i, n, "sending", "gone")
          /\ pend' = IF link[n] = "streaming" /\ pend[i] = n
                     THEN [pend EXCEPT ![i] = Done] ELSE pend
    BY <1>3 DEF Send
  <2>2. job' \in [Items -> [Links -> Stages]]
    BY <2>1, MoveType DEF Stages
  <2>3. pend' \in [Items -> 0 .. Done]
    BY <2>1, WorkerAssumption DEF TypeOK, Done
  <2> QED
    BY <1>3, <2>2, <2>3 DEF Send, TypeOK, userVars, linkVars
<1>4. CASE TearDown
  <2>1. PICK i \in Items, n \in Links : ResolutionFails(i, n)
    BY <1>4 DEF TearDown
  <2>2. job' \in [Items -> [Links -> Stages]]
    BY <2>1, MoveType DEF ResolutionFails, Stages
  <2>3. pend' \in [Items -> 0 .. Done]
    BY <2>1, TakenBackType DEF ResolutionFails, TypeOK
  <2>4. /\ faults' \in Nat
        /\ link' \in [Links -> {"none", "channel", "streaming", "ended", "closed"}]
    BY <2>1 DEF ResolutionFails, Fails, TypeOK
  <2> QED
    BY <1>4, <2>2, <2>3, <2>4 DEF TearDown, TypeOK, userVars
<1>5. CASE ReadItem
  <2>1. PICK i \in Items, n \in Links :
          IF shutdown
          THEN Move(i, n, "sent", "gone") /\ reader' = [reader EXCEPT ![n] = "finished"]
          ELSE Move(i, n, "sent", "read") /\ UNCHANGED reader
    BY <1>5 DEF ReadItem
  <2>2. job' \in [Items -> [Links -> Stages]]
    BY <2>1, MoveType DEF Stages
  <2>3. reader' \in [Links -> {"none", "reading", "finished", "raised", "fatal"}]
    BY <2>1 DEF TypeOK
  <2> QED
    BY <1>5, <2>2, <2>3 DEF ReadItem, TypeOK, userVars
<1>6. CASE ReaderFinishes
  BY <1>6 DEF ReaderFinishes, TypeOK, userVars
<1>7. CASE ReaderFails
  <2>1. reader' \in [Links -> {"none", "reading", "finished", "raised", "fatal"}]
    BY <1>7 DEF ReaderFails, TypeOK
  <2> QED
    BY <1>7, <2>1 DEF ReaderFails, Fails, TypeOK, userVars
<1>8. CASE DeferredClose
  BY <1>8, TakenBackType DEF DeferredClose, Closed, TypeOK, userVars
<1>9. CASE StreamEnds
  BY <1>9, TakenBackType DEF StreamEnds, TypeOK, userVars
<1>10. CASE Dispatch
  <2>1. PICK i \in Items, n \in Links :
          Move(i, n, "none", "sent") /\ pend' = [pend EXCEPT ![i] = n]
    BY <1>10 DEF Dispatch
  <2>2. job' \in [Items -> [Links -> Stages]]
    BY <2>1, MoveType DEF Stages
  <2>3. pend' \in [Items -> 0 .. Done]
    BY <2>1, WorkerAssumption DEF TypeOK, Done, Links
  <2> QED
    BY <1>10, <2>2, <2>3 DEF Dispatch, TypeOK, userVars, linkVars
<1> QED
  BY <1>1, <1>2, <1>3, <1>4, <1>5, <1>6, <1>7, <1>8, <1>9, <1>10

\* start() and stop() keep the type.
LEMMA UserType ==
  ASSUME TypeOK, User
  PROVE  TypeOK'
<1>1. CASE StopCloses
  <2>1. /\ pend' \in [Items -> 0 .. Done] /\ channel' \in 0 .. MaxLinks
        /\ link' \in [Links -> {"none", "channel", "streaming", "ended", "closed"}]
    BY <1>1, TakenBackType, WorkerAssumption DEF StopCloses, CloseCurrent, Closed, TypeOK
  <2> QED
    BY <1>1, <2>1 DEF StopCloses, TypeOK
<1>2. CASE Start
  BY <1>2 DEF Start, TypeOK, linkVars
<1>5. CASE StartReturns
  BY <1>5 DEF StartReturns, TypeOK, linkVars
<1>6. CASE StartRaises
  BY <1>6 DEF StartRaises, TypeOK, linkVars
<1>7. CASE Stop
  BY <1>7 DEF Stop, TypeOK, linkVars
<1>3. CASE StopJoins
  <2>1. gaveUp' \in BOOLEAN
    BY <1>3 DEF StopJoins, TypeOK
  <2> QED
    BY <1>3, <2>1 DEF StopJoins, TypeOK, linkVars
<1>4. CASE StopReturns
  BY <1>4 DEF StopReturns, TypeOK, linkVars
<1> QED
  BY <1>1, <1>2, <1>3, <1>4, <1>5, <1>6, <1>7 DEF User

----------------------------------------------------------------------------
(* The run loop.                                                           *)

\* The initial state satisfies the invariants of the run loop and of stop().
LEMMA InitLoop == Init => LoopInv /\ StopInv
BY DEF Init, LoopInv, StopInv

\* The stage of a job after a move, and of the others.
LEMMA Moved ==
  ASSUME TypeOK, NEW i \in Items, NEW n \in Links, NEW from, NEW to,
         Move(i, n, from, to), NEW k \in Items, NEW m \in Links
  PROVE  /\ job[i][n] = from
         /\ job'[k][m] = IF k = i /\ m = n THEN to ELSE job[k][m]
BY DEF TypeOK, Move

\* An invalidated connection that streams waits for its deferred close.
LEMMA InvalidateKeeps ==
  ASSUME TypeOK, LoopInv, Invalidate, link' = link, NEW n \in Links,
         link'[n] = "streaming"
  PROVE  n \in retired'
BY WorkerAssumption DEF LoopInv, Invalidate, Retire, Links

\* The steps of the run loop preserve its invariant.
LEMMA LoopLoop ==
  ASSUME TypeOK, LoopInv, Loop
  PROVE  LoopInv'
<1> USE DEF LoopInv
<1>1. CASE Connect
  <2>1. ASSUME NEW n \in Links, link'[n] = "streaming" PROVE n \in retired'
    BY <1>1, <2>1, WorkerAssumption DEF Connect, TypeOK, Links
  <2> QED
    BY <1>1, <2>1 DEF Connect, TypeOK, Links
<1>2. CASE LoopTop \/ HelloReturns \/ Backoff
  BY <1>2 DEF LoopTop, HelloReturns, Backoff, linkVars
<1>3. CASE HelloFails
  BY <1>3 DEF HelloFails
<1>4. CASE OpenStream
  BY <1>4 DEF OpenStream, TypeOK
<1>5. CASE OpenFails \/ Leave \/ ReaderRaised
  BY <1>5, InvalidateKeeps DEF OpenFails, Leave, ReaderRaised, Invalidate
<1>6. CASE Submit
  BY <1>6 DEF Submit, linkVars
<1>7. CASE LoopEnds
  <2>1. \A i \in Items, n \in Links : OffLoop(i, n)'
    BY <1>7 DEF LoopEnds, OffLoop, Cancelled, OnLoop, Kind
  <2> QED
    BY <1>7, <2>1, InvalidateKeeps DEF LoopEnds, Invalidate
<1> QED
  BY <1>1, <1>2, <1>3, <1>4, <1>5, <1>6, <1>7 DEF Loop

\* A move that no event loop makes keeps a job off the loop that is over.
LEMMA MoveOffLoop ==
  ASSUME TypeOK, LoopInv, loop = "ended", UNCHANGED scene,
         NEW i \in Items, NEW n \in Links, NEW from, NEW to, Move(i, n, from, to),
         to \notin {"queued", "pool", "result", "running"}
  PROVE  \A k \in Items, m \in Links : OffLoop(k, m)'
BY Moved DEF LoopInv, OffLoop, OnLoop, Kind

\* So do the others.
LEMMA OthersLoop ==
  ASSUME TypeOK, LoopInv,
         Acquire \/ Pool \/ TearDown \/ User \/ ReadItem \/ ReaderFinishes
         \/ ReaderFails \/ DeferredClose \/ StreamEnds \/ Dispatch
  PROVE  LoopInv'
<1>1. CASE Acquire
  BY <1>1 DEF Acquire, LoopInv, linkVars
<1>2. CASE Pool
  <2>1. UNCHANGED <<scene, loop, conn, link, retired>>
    BY <1>2 DEF Pool, PoolTakes, Executed, Send, linkVars
  <2>2. ASSUME loop = "ended" PROVE \A k \in Items, m \in Links : OffLoop(k, m)'
    <3>1. CASE PoolTakes
      BY <3>1, <2>2, Moved DEF PoolTakes, LoopInv, OffLoop
    <3>2. CASE Executed
      <4>1. PICK i \in Items, n \in Links :
              /\ ~OnLoop(i)
              /\ Move(i, n, "running", IF ~OnLoop(i) THEN "sending"
                                       ELSE IF poolShut THEN "gone" ELSE "result")
        BY <3>2, <2>2 DEF Executed
      <4> QED
        BY <4>1, <2>1, <2>2, MoveOffLoop
    <3>3. CASE Send
      BY <3>3, <2>1, <2>2, MoveOffLoop DEF Send
    <3> QED
      BY <1>2, <3>1, <3>2, <3>3 DEF Pool
  <2> QED
    BY <2>1, <2>2 DEF LoopInv
<1>3. CASE TearDown
  <2>1. PICK i \in Items, n \in Links : ResolutionFails(i, n)
    BY <1>3 DEF TearDown
  <2>2. \A m \in Links : link'[m] = "streaming" => link[m] = "streaming"
    BY <2>1 DEF ResolutionFails, TypeOK
  <2>3. loop = "ended" => \A k \in Items, m \in Links : OffLoop(k, m)'
    BY <1>3, <2>1, MoveOffLoop DEF ResolutionFails, TearDown
  <2> QED
    BY <1>3, <2>2, <2>3 DEF TearDown, LoopInv
<1>4. CASE User
  <2>1. CASE StopCloses
    <3>1. \A m \in Links : link'[m] = "streaming" => link[m] = "streaming"
      BY <2>1 DEF StopCloses, CloseCurrent, Closed, TypeOK
    <3> QED
      BY <2>1, <3>1 DEF StopCloses, LoopInv, OffLoop, OnLoop, Kind
  <2>2. CASE Start
    BY <2>2 DEF Start, LoopInv, linkVars
  <2>3. CASE StartReturns \/ StartRaises \/ Stop \/ StopJoins \/ StopReturns
    BY <2>3 DEF StartReturns, StartRaises, Stop, StopJoins, StopReturns, LoopInv,
                linkVars, OffLoop, OnLoop, Kind
  <2> QED
    BY <1>4, <2>1, <2>2, <2>3 DEF User
<1>5. CASE ReadItem
  <2>1. loop = "ended" => \A k \in Items, m \in Links : OffLoop(k, m)'
    BY <1>5, MoveOffLoop DEF ReadItem
  <2> QED
    BY <1>5, <2>1 DEF ReadItem, LoopInv
<1>6. CASE ReaderFinishes \/ ReaderFails
  BY <1>6 DEF ReaderFinishes, ReaderFails, LoopInv, OffLoop, OnLoop, Kind
<1>7. CASE DeferredClose
  BY <1>7 DEF DeferredClose, Closed, TypeOK, LoopInv, OffLoop, OnLoop, Kind
<1>8. CASE StreamEnds
  BY <1>8 DEF StreamEnds, TypeOK, LoopInv, OffLoop, OnLoop, Kind
<1>9. CASE Dispatch
  <2>1. loop = "ended" => \A k \in Items, m \in Links : OffLoop(k, m)'
    BY <1>9, MoveOffLoop DEF Dispatch
  <2> QED
    BY <1>9, <2>1 DEF Dispatch, LoopInv, linkVars
<1> QED
  BY <1>1, <1>2, <1>3, <1>4, <1>5, <1>6, <1>7, <1>8, <1>9

----------------------------------------------------------------------------
(* The semaphores and the pool.                                            *)

\* The sets that are counted are finite.
LEMMA FiniteJobs ==
  /\ IsFiniteSet(Jobs) /\ IsFiniteSet(Busy)
  /\ \A sem \in Semaphores : IsFiniteSet(Holders(sem))
<1>1. IsFiniteSet(Links)
  BY FS_Interval, WorkerAssumption DEF Links
<1>2. IsFiniteSet(Jobs)
  BY <1>1, FS_Product, WorkerAssumption DEF Jobs
<1>3. Busy \subseteq Jobs /\ \A sem \in Semaphores : Holders(sem) \subseteq Jobs
  BY DEF Busy, Holders
<1>4. IsFiniteSet(Busy)
  BY <1>2, <1>3, FS_Subset
<1>5. ASSUME NEW sem \in Semaphores PROVE IsFiniteSet(Holders(sem))
  BY <1>2, <1>3, FS_Subset
<1> QED
  BY <1>2, <1>4, <1>5

\* A set with at most one element more than a finite one.
LEMMA OneMore ==
  ASSUME NEW S, NEW T, NEW x, IsFiniteSet(S), T \subseteq S \cup {x}, NEW k \in Nat,
         Cardinality(S) < k
  PROVE  Cardinality(T) <= k
<1>1. IsFiniteSet(S \cup {x}) /\ Cardinality(S \cup {x}) <= k
  <2>1. Cardinality(S) \in Nat
    BY FS_CardinalityType
  <2>2. /\ IsFiniteSet(S \cup {x})
        /\ Cardinality(S \cup {x}) \in {Cardinality(S), Cardinality(S) + 1}
    BY FS_AddElement
  <2> QED
    BY <2>1, <2>2
<1>2. Cardinality(T) <= Cardinality(S \cup {x}) /\ IsFiniteSet(T)
  BY <1>1, FS_Subset
<1> QED
  BY <1>1, <1>2, FS_CardinalityType

\* A smaller set keeps a limit.
LEMMA NotMore ==
  ASSUME NEW S, NEW T, IsFiniteSet(S), T \subseteq S, NEW k \in Nat, Cardinality(S) <= k
  PROVE  Cardinality(T) <= k
BY FS_Subset, FS_CardinalityType

\* A step after which nothing more is held keeps the limits.
LEMMA SlotKept ==
  ASSUME SlotInv, \A sem \in Semaphores : Holders(sem)' \subseteq Holders(sem), Busy' \subseteq Busy
  PROVE  SlotInv'
<1>1. ASSUME NEW sem \in Semaphores PROVE Cardinality(Holders(sem)') <= Limit[sem]
  <2>1. Limit[sem] \in Nat
    BY WorkerAssumption
  <2> QED
    BY <2>1, NotMore, FiniteJobs DEF SlotInv
<1>2. Cardinality(Busy') <= PoolSize
  BY NotMore, FiniteJobs, WorkerAssumption DEF SlotInv
<1> QED
  BY <1>1, <1>2 DEF SlotInv

\* So does one in which jobs stay where they are, or where they hold nothing.
LEMMA SlotFree ==
  ASSUME SlotInv, UNCHANGED scene,
         \A i \in Items, n \in Links :
           job'[i][n] \in {job[i][n], "none", "sent", "read", "queued", "gone"}
  PROVE  SlotInv'
<1>1. \A sem \in Semaphores : Holders(sem)' \subseteq Holders(sem)
  BY DEF Holders, SemaphoreOf, Kind, Stage, Jobs
<1>2. Busy' \subseteq Busy
  BY DEF Busy, OnLoop, Kind, Stage, Jobs
<1> QED
  BY <1>1, <1>2, SlotKept

\* A move to a stage that holds nothing.
LEMMA SlotMove ==
  ASSUME TypeOK, SlotInv, UNCHANGED scene, NEW i \in Items, NEW n \in Links, NEW from, NEW to,
         Move(i, n, from, to), to \in {"none", "sent", "read", "queued", "gone"}
  PROVE  SlotInv'
<1>1. \A k \in Items, m \in Links : job'[k][m] \in {job[k][m], to}
  BY Moved
<1> QED
  BY <1>1, SlotFree

\* Every step keeps the limits.
LEMMA NextSlot ==
  ASSUME TypeOK, LoopInv, SlotInv, Next
  PROVE  SlotInv'
<1>1. CASE Acquire
  <2>1. PICK i \in Items, n \in Links :
          /\ HasSlot(SemaphoreOf(i))
          /\ Move(i, n, "queued", IF OnLoop(i) THEN "running"
                                  ELSE IF poolShut THEN "gone" ELSE "pool")
    BY <1>1 DEF Acquire
  <2>2. scene' = scene
    BY <1>1 DEF Acquire
  <2> DEFINE to == IF OnLoop(i) THEN "running" ELSE IF poolShut THEN "gone" ELSE "pool"
  <2>3. \A k \in Items, m \in Links :
          job'[k][m] = IF k = i /\ m = n THEN to ELSE job[k][m]
    BY <2>1, Moved
  <2>4. Busy' \subseteq Busy
    BY <2>2, <2>3 DEF Busy, OnLoop, Kind, Stage, Jobs
  <2>5. \A sem \in Semaphores : sem # SemaphoreOf(i) => Holders(sem)' \subseteq Holders(sem)
    BY <2>2, <2>3 DEF Holders, SemaphoreOf, Kind, Stage, Jobs
  <2>6. Holders(SemaphoreOf(i))' \subseteq Holders(SemaphoreOf(i)) \cup {<<i, n>>}
    BY <2>2, <2>3 DEF Holders, SemaphoreOf, Kind, Stage, Jobs
  <2>7. SemaphoreOf(i)' = SemaphoreOf(i) /\ SemaphoreOf(i) \in Semaphores
    BY <2>2 DEF SemaphoreOf, Kind, Semaphores
  <2>8. ASSUME NEW sem \in Semaphores PROVE Cardinality(Holders(sem)') <= Limit[sem]
    <3>1. Limit[sem] \in Nat
      BY WorkerAssumption
    <3>2. CASE sem = SemaphoreOf(i)
      <4>1. Holders(sem)' \subseteq Holders(sem) \cup {<<i, n>>}
        BY <3>2, <2>6, <2>7
      <4>2. Cardinality(Holders(sem)) < Limit[sem]
        BY <3>2, <2>1 DEF HasSlot
      <4> QED
        BY <3>1, <4>1, <4>2, OneMore, FiniteJobs
    <3>3. CASE sem # SemaphoreOf(i)
      BY <3>1, <3>3, <2>5, NotMore, FiniteJobs DEF SlotInv
    <3> QED
      BY <3>2, <3>3
  <2>9. Cardinality(Busy') <= PoolSize
    BY <2>4, NotMore, FiniteJobs, WorkerAssumption DEF SlotInv
  <2> QED
    BY <2>8, <2>9 DEF SlotInv
<1>2. CASE PoolTakes
  <2>1. PICK i \in Items, n \in Links :
          Move(i, n, "pool", "running") \/ Move(i, n, "result", "sending")
    BY <1>2 DEF PoolTakes
  <2>2. scene' = scene
    BY <1>2 DEF PoolTakes
  <2>3. PICK to \in {"running", "sending"} :
          /\ job[i][n] \in {"pool", "result"}
          /\ \A k \in Items, m \in Links :
               job'[k][m] = IF k = i /\ m = n THEN to ELSE job[k][m]
    BY <2>1, Moved
  <2>4. \A sem \in Semaphores : Holders(sem)' \subseteq Holders(sem)
    BY <2>2, <2>3 DEF Holders, SemaphoreOf, Kind, Stage, Jobs
  <2>5. Busy' \subseteq Busy \cup {<<i, n>>}
    BY <2>2, <2>3 DEF Busy, OnLoop, Kind, Stage, Jobs
  <2>6. Cardinality(Busy') <= PoolSize
    BY <1>2, <2>5, OneMore, FiniteJobs, WorkerAssumption DEF PoolTakes
  <2>7. ASSUME NEW sem \in Semaphores PROVE Cardinality(Holders(sem)') <= Limit[sem]
    <3>1. Limit[sem] \in Nat
      BY WorkerAssumption
    <3> QED
      BY <3>1, <2>4, NotMore, FiniteJobs DEF SlotInv
  <2> QED
    BY <2>6, <2>7 DEF SlotInv
<1>3. CASE Executed
  <2>1. PICK i \in Items, n \in Links :
          Move(i, n, "running", IF ~OnLoop(i) THEN "sending"
                                ELSE IF poolShut THEN "gone" ELSE "result")
    BY <1>3 DEF Executed
  <2>2. scene' = scene
    BY <1>3 DEF Executed
  <2>3. /\ job[i][n] = "running"
        /\ \A k \in Items, m \in Links :
             job'[k][m] = IF k = i /\ m = n
                          THEN IF ~OnLoop(i) THEN "sending"
                               ELSE IF poolShut THEN "gone" ELSE "result"
                          ELSE job[k][m]
    BY <2>1, Moved
  <2>4. \A sem \in Semaphores : Holders(sem)' \subseteq Holders(sem)
    BY <2>2, <2>3 DEF Holders, SemaphoreOf, Kind, Stage, Jobs
  <2>5. Busy' \subseteq Busy
    BY <2>2, <2>3 DEF Busy, OnLoop, Kind, Stage, Jobs
  <2> QED
    BY <2>4, <2>5, SlotKept
<1>4. CASE Send \/ Dispatch \/ ReadItem
  BY <1>4, SlotMove DEF Send, Dispatch, ReadItem
<1>5. CASE TearDown
  BY <1>5, SlotMove DEF TearDown, ResolutionFails
<1>6. CASE Submit
  <2>1. conn \in Links
    BY <1>6 DEF Submit, LoopInv, TypeOK, Links
  <2> QED
    BY <1>6, <2>1, SlotMove DEF Submit
<1>7. CASE LoopEnds
  <2>1. \A i \in Items, n \in Links : job'[i][n] \in {job[i][n], "gone"}
    BY <1>7 DEF LoopEnds
  <2> QED
    BY <1>7, <2>1, SlotFree DEF LoopEnds
<1>8. CASE UNCHANGED <<scene, job>>
  BY <1>8, SlotFree
<1>9. CASE User
  BY <1>9, <1>8 DEF User, Start, StartReturns, StartRaises, Stop, StopCloses, StopJoins,
                    StopReturns
<1>10. CASE LoopTop \/ Connect \/ HelloReturns \/ HelloFails \/ Backoff \/ OpenStream \/ OpenFails
            \/ Leave \/ ReaderRaised
  BY <1>10, <1>8 DEF LoopTop, Connect, HelloReturns, HelloFails, Backoff, OpenStream, OpenFails,
                     Leave, ReaderRaised
<1>11. CASE ReaderFinishes \/ ReaderFails \/ DeferredClose \/ StreamEnds
  BY <1>11, <1>8 DEF ReaderFinishes, ReaderFails, DeferredClose, StreamEnds
<1> QED
  BY <1>1, <1>2, <1>3, <1>4, <1>5, <1>6, <1>7, <1>9, <1>10, <1>11 DEF Next, Loop, Pool

----------------------------------------------------------------------------
(* stop()                                                                  *)

\* Nothing comes into a pool that is shut down and drained.
LEMMA NextDrained ==
  ASSUME TypeOK, LoopInv, Next, poolShut, \A j \in Jobs : ~InPool(j)
  PROVE  \A j \in Jobs : ~InPool(j)'
<1> DEFINE Outside(i, stage) ==
      stage \notin {"sending", "pool", "result"} /\ (stage = "running" => OnLoop(i))
<1>1. ASSUME NEW i \in Items, NEW n \in Links PROVE Outside(i, job[i][n])
  <2>1. <<i, n>> \in Jobs /\ ~InPool(<<i, n>>)
    BY DEF Jobs
  <2> QED
    BY <2>1 DEF InPool, Busy, Stage
<1>2. scene' = scene
  BY DEF Next, Loop, Pool, User, LoopTop, Connect, HelloReturns, HelloFails, Backoff, OpenStream,
         OpenFails, Submit, Leave, ReaderRaised, LoopEnds, Acquire, PoolTakes, Executed,
         Send, TearDown, Start, StartReturns, StartRaises, Stop, StopCloses, StopJoins,
         StopReturns, ReadItem, ReaderFinishes, ReaderFails, DeferredClose, StreamEnds,
         Dispatch
<1>3. SUFFICES \A i \in Items, n \in Links : Outside(i, job'[i][n])
  BY <1>2 DEF InPool, Busy, Stage, Jobs, OnLoop, Kind
<1>4. ASSUME NEW i \in Items, NEW n \in Links, NEW from, NEW to, Move(i, n, from, to),
             Outside(i, to)
      PROVE  \A k \in Items, m \in Links : Outside(k, job'[k][m])
  BY <1>1, <1>4, Moved
<1>5. CASE Acquire
  BY <1>5, <1>4 DEF Acquire
<1>6. CASE PoolTakes
  BY <1>6, <1>1 DEF PoolTakes, Move
<1>7. CASE Executed
  <2>1. PICK i \in Items, n \in Links :
          Move(i, n, "running", IF ~OnLoop(i) THEN "sending"
                                ELSE IF poolShut THEN "gone" ELSE "result")
    BY <1>7 DEF Executed
  <2>2. OnLoop(i)
    BY <2>1, <1>1 DEF Move
  <2> QED
    BY <2>1, <2>2, <1>4
<1>8. CASE Send \/ Dispatch \/ ReadItem
  BY <1>8, <1>4 DEF Send, Dispatch, ReadItem
<1>9. CASE TearDown
  BY <1>9, <1>4 DEF TearDown, ResolutionFails
<1>10. CASE Submit
  BY <1>10 DEF Submit
<1>11. CASE LoopEnds
  BY <1>11, <1>1 DEF LoopEnds
<1>12. CASE UNCHANGED job
  BY <1>12, <1>1
<1>13. CASE User
  BY <1>13, <1>12 DEF User, Start, StartReturns, StartRaises, Stop, StopCloses, StopJoins,
                      StopReturns
<1>14. CASE LoopTop \/ Connect \/ HelloReturns \/ HelloFails \/ Backoff \/ OpenStream \/ OpenFails
            \/ Leave \/ ReaderRaised
  BY <1>14, <1>12 DEF LoopTop, Connect, HelloReturns, HelloFails, Backoff, OpenStream, OpenFails,
                     Leave, ReaderRaised
<1>15. CASE ReaderFinishes \/ ReaderFails \/ DeferredClose \/ StreamEnds
  BY <1>15, <1>12 DEF ReaderFinishes, ReaderFails, DeferredClose, StreamEnds
<1> QED
  BY <1>5, <1>6, <1>7, <1>8, <1>9, <1>10, <1>11, <1>13, <1>14, <1>15 DEF Next, Loop, Pool

\* The steps of the threads other than stop() leave alone what it has reached.
LEMMA NextReached ==
  ASSUME TypeOK, LoopInv, StopInv, Next
  PROVE  stopper' \in {"draining", "stopped"} =>
           poolShut' /\ (~gaveUp' => loop' = "ended" /\ retired' = {})
<1> USE DEF StopInv
<1>1. CASE Loop
  BY <1>1 DEF Loop, LoopTop, Connect, HelloReturns, HelloFails, Backoff, OpenStream, OpenFails,
              Submit, Leave, ReaderRaised, LoopEnds, userVars, linkVars
<1>2. CASE Acquire \/ Pool \/ TearDown
  BY <1>2 DEF Acquire, Pool, PoolTakes, Executed, Send, TearDown, userVars, linkVars
<1>3. CASE ReadItem \/ ReaderFinishes \/ ReaderFails \/ StreamEnds \/ Dispatch
  BY <1>3 DEF ReadItem, ReaderFinishes, ReaderFails, StreamEnds, Dispatch, userVars, linkVars
<1>4. CASE DeferredClose
  BY <1>4 DEF DeferredClose, userVars
<1>5. CASE Start \/ StartReturns \/ StartRaises \/ Stop \/ StopCloses \/ StopReturns
  BY <1>5 DEF Start, StartReturns, StartRaises, Stop, StopCloses, StopReturns, linkVars
<1>6. CASE StopJoins
  BY <1>6 DEF StopJoins, linkVars
<1> QED
  BY <1>1, <1>2, <1>3, <1>4, <1>5, <1>6 DEF Next, User

\* Every step preserves the invariant of stop().
LEMMA NextStop ==
  ASSUME TypeOK, LoopInv, StopInv, Next
  PROVE  StopInv'
<1>1. ASSUME stopper' = "stopped" PROVE \A j \in Jobs : ~InPool(j)'
  <2>1. CASE stopper = "stopped"
    BY <2>1, NextDrained DEF StopInv
  <2>2. CASE stopper # "stopped"
    <3>1. StopReturns
      BY <1>1, <2>2
      DEF Next, Loop, Pool, User, LoopTop, Connect, HelloReturns, HelloFails, Backoff, OpenStream,
          OpenFails, Submit, Leave, ReaderRaised, LoopEnds, Acquire, PoolTakes, Executed,
          Send, TearDown, Start, StartReturns, StartRaises, Stop, StopCloses, StopJoins,
          ReadItem, ReaderFinishes, ReaderFails, DeferredClose, StreamEnds, Dispatch, userVars
    <3>2. poolShut /\ \A j \in Jobs : ~InPool(j)
      BY <3>1 DEF StopReturns, PoolDrained, StopInv
    <3> QED
      BY <3>2, NextDrained
  <2> QED
    BY <2>1, <2>2
<1>2. Jobs' = Jobs
  BY DEF Jobs, Links
<1> QED
  BY <1>1, <1>2, NextReached DEF StopInv

----------------------------------------------------------------------------
(* The theorems.                                                           *)

\* A step that changes nothing preserves the invariant.
LEMMA StutterInv == IInv /\ UNCHANGED vars => IInv'
<1> SUFFICES ASSUME IInv, UNCHANGED vars PROVE IInv'
  OBVIOUS
<1> USE DEF IInv, vars, userVars, linkVars
<1>1. TypeOK'
  BY DEF TypeOK
<1>2. LoopInv'
  BY DEF LoopInv, OffLoop, OnLoop, Kind
<1>3. StopInv'
  BY DEF StopInv, InPool, Busy, Stage, OnLoop, Kind, Jobs
<1>4. SlotInv'
  BY SlotFree
<1> QED
  BY <1>1, <1>2, <1>3, <1>4

\* The initial state keeps the limits: nothing is held.
LEMMA InitSlot == Init => SlotInv
<1> SUFFICES ASSUME Init PROVE SlotInv
  OBVIOUS
<1>1. Busy = {} /\ \A sem : Holders(sem) = {}
  BY DEF Init, Busy, Holders, Stage, Jobs
<1>2. PoolSize \in Nat /\ \A sem \in Semaphores : Limit[sem] \in Nat
  BY WorkerAssumption
<1> QED
  BY <1>1, <1>2, FS_EmptySet DEF SlotInv

\* The worker's variables always have their types, and the run loop, stop(),
\* the semaphores and the pool keep their invariants, whatever fails and
\* whenever start() and stop() are called.
THEOREM Invariance == Spec => []IInv
<1>1. Init => IInv
  BY InitType, InitLoop, InitSlot DEF IInv
<1>2. IInv /\ [Next]_vars => IInv'
  <2> SUFFICES ASSUME IInv, [Next]_vars PROVE IInv'
    OBVIOUS
  <2>1. CASE Next
    <3>1. TypeOK'
      BY <2>1, LoopType, PoolType, UserType DEF Next, Pool, IInv
    <3>2. LoopInv'
      BY <2>1, LoopLoop, OthersLoop DEF Next, IInv
    <3>3. StopInv' /\ SlotInv'
      BY <2>1, NextStop, NextSlot DEF IInv
    <3> QED
      BY <3>1, <3>2, <3>3 DEF IInv
  <2>2. CASE UNCHANGED vars
    BY <2>2, StutterInv
  <2> QED
    BY <2>1, <2>2
<1> QED
  BY <1>1, <1>2, PTL DEF Spec

\* The semaphores of _AsyncWorkerManager and its thread pool bound what is
\* executed at a time, whatever the number of items and of streams that broke
\* while items of theirs were executed.
THEOREM LimitsKept == Spec => []WithinLimits
<1>1. IInv => WithinLimits
  <2> SUFFICES ASSUME IInv PROVE WithinLimits
    OBVIOUS
  <2>1. ASSUME NEW sem \in Semaphores
        PROVE  Cardinality({j \in Jobs : SemaphoreOf(j[1]) = sem /\ Stage(j) = "running"})
                 <= Limit[sem]
    <3> DEFINE S == {j \in Jobs : SemaphoreOf(j[1]) = sem /\ Stage(j) = "running"}
    <3>1. S \subseteq Holders(sem) /\ Limit[sem] \in Nat
      BY WorkerAssumption DEF Holders
    <3> HIDE DEF S
    <3> QED
      BY <3>1, NotMore, FiniteJobs DEF IInv, SlotInv, S
  <2> QED
    BY <2>1 DEF WithinLimits, IInv, SlotInv
<1> QED
  BY <1>1, Invariance, PTL

\* When stop() has returned, no thread executes or answers a work item and
\* none is to come; and unless join() gave up on the run loop, no coroutine
\* runs and no stream is open.
THEOREM StopIsQuiet == Spec => []QuietAfterStop
<1>1. IInv => QuietAfterStop
  <2> SUFFICES ASSUME IInv, stopper = "stopped"
               PROVE  /\ \A j \in Jobs : ~InPool(j)
                      /\ ~gaveUp => /\ \A j \in Jobs : Stage(j) # "running"
                                    /\ \A n \in Links : link[n] # "streaming"
    BY DEF QuietAfterStop
  <2>1. \A j \in Jobs : ~InPool(j)
    BY DEF IInv, StopInv
  <2>2. ASSUME ~gaveUp
        PROVE  /\ \A j \in Jobs : Stage(j) # "running"
               /\ \A n \in Links : link[n] # "streaming"
    <3>1. loop = "ended" /\ retired = {} /\ conn = 0
      BY <2>2 DEF IInv, StopInv, LoopInv
    <3>2. \A n \in Links : link[n] # "streaming"
      BY <3>1, WorkerAssumption DEF IInv, LoopInv, Links
    <3>3. \A j \in Jobs : Stage(j) = "running" => ~OnLoop(j[1])
      BY <3>1 DEF IInv, LoopInv, OffLoop, Stage, Jobs
    <3>4. \A j \in Jobs : Stage(j) # "running"
      BY <2>1, <3>3 DEF InPool, Busy
    <3> QED
      BY <3>2, <3>4
  <2> QED
    BY <2>1, <2>2
<1> QED
  BY <1>1, Invariance, PTL

----------------------------------------------------------------------------
(* _Registry: invariants.                                                  *)

\* The tables are dicts from names, or names and versions, to functions.
TablesOK ==
  /\ \A x \in DOMAIN versioned : DOMAIN versioned[x] \subseteq Versions
  /\ \A x \in DOMAIN latest : latest[x] \in Versions
  /\ DOMAIN orchestrators \subseteq mixed.plain /\ mixed.plain \subseteq Names
  /\ DOMAIN versioned \subseteq mixed.versioned /\ mixed.versioned \subseteq Names
  /\ mixed = [plain |-> mixed.plain, versioned |-> mixed.versioned]
  /\ alternate \in [Fns -> Names \cup {None}]

\* What was registered is in its table, under the name its function carries.
AcceptedOK ==
  \A r \in accepted :
    /\ r.fn \in Fns /\ r.name \in Names /\ alternate[r.fn] = r.name
    /\ r.kind = "activity" => r.name \in DOMAIN activities /\ activities[r.name] = r.fn
    /\ r.kind = "workflow" /\ r.version = None =>
         r.name \in DOMAIN orchestrators /\ orchestrators[r.name] = r.fn
    /\ r.kind = "workflow" /\ r.version # None =>
         /\ r.name \in DOMAIN versioned /\ r.version \in DOMAIN versioned[r.name]
         /\ versioned[r.name][r.version] = r.fn

\* A turn ran without a version under a name that was registered without one,
\* or with the version that the history has.
RanOK(i) ==
  LET h == instance[i] IN
  \A t \in 1 .. Len(h.ran) :
    \/ h.ran[t].version = None /\ h.name \in mixed.plain
    \/ h.ran[t].version # None /\ h.ran[t].version = h.version /\ h.name \in mixed.versioned

InstanceRecords ==
  [name: Names \cup {None}, version: Versions \cup {None}, status: {"running", "failed"},
   ran: Seq([fn: Fns, version: Versions \cup {None}]), stalled: BOOLEAN]

RegInv ==
  /\ TablesOK /\ AcceptedOK
  /\ instance \in [Instances -> InstanceRecords]
  /\ \A i \in Instances : RanOK(i)
  /\ \A x \in DOMAIN orchestrators : orchestrators[x] \in Fns
  /\ \A x \in DOMAIN versioned : \A v \in DOMAIN versioned[x] : versioned[x][v] \in Fns

\* The invariant gives the property: a name that was registered in one way
\* only resolves to the function it was registered for.
LEMMA RegInvImplies == RegInv => RunsItsOwn
<1> SUFFICES ASSUME RegInv PROVE RunsItsOwn
  OBVIOUS
<1>1. Reachable
  <2> SUFFICES ASSUME NEW r \in accepted
               PROVE  /\ alternate[r.fn] = r.name
                      /\ r.kind = "activity" => activities[r.name] = r.fn
                      /\ r.kind = "workflow" /\ ~Mixed(r.name) =>
                           get_orchestrator(r.name, r.version) = [fn |-> r.fn, version |-> r.version]
    BY DEF Reachable
  <2>1. /\ alternate[r.fn] = r.name
        /\ r.kind = "activity" => activities[r.name] = r.fn
    BY DEF RegInv, AcceptedOK
  <2>2. ASSUME r.kind = "workflow", ~Mixed(r.name)
        PROVE  get_orchestrator(r.name, r.version) = [fn |-> r.fn, version |-> r.version]
    <3>1. CASE r.version = None
      <4>1. r.name \in DOMAIN orchestrators /\ orchestrators[r.name] = r.fn
        BY <2>2, <3>1 DEF RegInv, AcceptedOK
      <4> QED
        BY <3>1, <4>1 DEF get_orchestrator
    <3>2. CASE r.version # None
      <4>1. /\ r.name \in DOMAIN versioned /\ r.version \in DOMAIN versioned[r.name]
            /\ versioned[r.name][r.version] = r.fn
        BY <2>2, <3>2 DEF RegInv, AcceptedOK
      <4>2. r.name \notin DOMAIN orchestrators
        BY <2>2, <4>1 DEF RegInv, TablesOK, Mixed
      <4>3. VersionToUse(r.name, r.version) = r.version /\ VersionsOf(r.name) = versioned[r.name]
        BY <3>2, <4>1 DEF VersionToUse, VersionsOf
      <4> QED
        BY <3>2, <4>1, <4>2, <4>3 DEF get_orchestrator
    <3> QED
      BY <3>1, <3>2
  <2> QED
    BY <2>1, <2>2
<1>2. SameVersion
  <2> SUFFICES ASSUME NEW i \in Instances, ~Mixed(instance[i].name),
                      NEW t \in 1 .. Len(instance[i].ran)
               PROVE  instance[i].ran[t].version = instance[i].ran[1].version
    BY DEF SameVersion
  <2>1. instance[i].ran \in Seq([fn: Fns, version: Versions \cup {None}])
    BY DEF RegInv, InstanceRecords
  <2>2. 1 \in 1 .. Len(instance[i].ran)
    BY <2>1, LenProperties
  <2>3. RanOK(i)
    BY DEF RegInv
  <2> QED
    BY <2>2, <2>3 DEF RanOK, Mixed
<1> QED
  BY <1>1, <1>2 DEF RunsItsOwn

\* Nothing is registered at first.
LEMMA RegInitInv == RegInit => RegInv
<1> SUFFICES ASSUME RegInit PROVE RegInv
  OBVIOUS
<1>1. TablesOK /\ AcceptedOK
  BY DEF RegInit, TablesOK, AcceptedOK, Empty
<1>2. instance \in [Instances -> InstanceRecords] /\ \A i \in Instances : Len(instance[i].ran) = 0
  BY EmptySeq DEF RegInit, InstanceRecords
<1>3. \A i \in Instances : RanOK(i)
  BY <1>2 DEF RanOK
<1> QED
  BY <1>1, <1>2, <1>3 DEF RegInv, RegInit, Empty

\* The turns that ran are right whatever is registered: mixed only grows.
LEMMA RanKept ==
  ASSUME \A i \in Instances : RanOK(i), UNCHANGED instance,
         mixed.plain \subseteq mixed'.plain, mixed.versioned \subseteq mixed'.versioned
  PROVE  \A i \in Instances : RanOK(i)'
BY DEF RanOK

\* A function gets a name: that of a registered function does not change.
LEMMA NameGiven ==
  ASSUME RegInv, NEW fn \in Fns, NEW name \in Names, alternate[fn] \in {None, name},
         alternate' = [alternate EXCEPT ![fn] = name]
  PROVE  /\ alternate' \in [Fns -> Names \cup {None}] /\ alternate'[fn] = name
         /\ \A r \in accepted : alternate'[r.fn] = r.name
<1>1. alternate \in [Fns -> Names \cup {None}]
  BY DEF RegInv, TablesOK
<1>2. ASSUME NEW r \in accepted PROVE alternate'[r.fn] = r.name
  <2>1. r.fn \in Fns /\ r.name \in Names /\ alternate[r.fn] = r.name /\ None \notin Names
    BY RegistryAssumption DEF RegInv, AcceptedOK
  <2> QED
    BY <1>1, <2>1
<1> QED
  BY <1>1, <1>2

\* A registration that is refused leaves a name and nothing else.
LEMMA RefuseInv ==
  ASSUME RegInv, NEW fn \in Fns, NEW name \in Names, alternate[fn] \in {None, name},
         Refuse(fn, name), UNCHANGED instance
  PROVE  RegInv'
<1> USE DEF Refuse
<1>1. /\ alternate' \in [Fns -> Names \cup {None}]
      /\ \A r \in accepted : alternate'[r.fn] = r.name
  BY NameGiven
<1>2. TablesOK'
  BY <1>1 DEF RegInv, TablesOK
<1>3. AcceptedOK'
  BY <1>1 DEF RegInv, AcceptedOK
<1>4. \A i \in Instances : RanOK(i)'
  BY RanKept DEF RegInv
<1> QED
  BY <1>2, <1>3, <1>4 DEF RegInv

\* The name that a registration uses.
LEMMA AltIs ==
  ASSUME RegInv, NEW fn \in Fns, NEW name \in Names \cup {None}
  PROVE  LET alt == Given(alternate[fn], Given(name, NameOf[fn])) IN
         alt \in Names /\ alternate[fn] \in {None, alt}
BY RegistryAssumption DEF RegInv, TablesOK, Given

\* register_workflow keeps the invariant.
LEMMA WorkflowInv ==
  ASSUME RegInv, NEW fn \in Fns, NEW name \in Names \cup {None}, register_workflow(fn, name)
  PROVE  RegInv'
<1> DEFINE alt == Given(alternate[fn], Given(name, NameOf[fn]))
<1>1. alt \in Names /\ alternate[fn] \in {None, alt} /\ UNCHANGED instance
  BY AltIs DEF register_workflow
<1> HIDE DEF alt
<1>2. CASE Refuse(fn, alt)
  BY <1>1, <1>2, RefuseInv
<1>3. CASE /\ alt \notin DOMAIN orchestrators
           /\ alternate' = [alternate EXCEPT ![fn] = alt]
           /\ orchestrators' = Add(orchestrators, alt, fn)
           /\ Accept("workflow", alt, None, fn)
           /\ mixed' = [mixed EXCEPT !.plain = @ \cup {alt}]
           /\ UNCHANGED <<versioned, latest, activities>>
  <2>1. /\ alternate' \in [Fns -> Names \cup {None}] /\ alternate'[fn] = alt
        /\ \A r \in accepted : alternate'[r.fn] = r.name
    BY <1>1, <1>3, NameGiven
  <2>2. /\ DOMAIN orchestrators' = DOMAIN orchestrators \cup {alt} /\ orchestrators'[alt] = fn
        /\ \A z \in DOMAIN orchestrators : orchestrators'[z] = orchestrators[z]
    BY <1>3 DEF Add
  <2>3. mixed'.plain = mixed.plain \cup {alt} /\ mixed'.versioned = mixed.versioned
        /\ mixed' = [plain |-> mixed'.plain, versioned |-> mixed'.versioned]
    BY <1>3 DEF RegInv, TablesOK
  <2>4. TablesOK'
    BY <1>1, <1>3, <2>1, <2>2, <2>3 DEF RegInv, TablesOK
  <2>5. accepted' = accepted \cup {[kind |-> "workflow", name |-> alt, version |-> None, fn |-> fn]}
    BY <1>3 DEF Accept
  <2>6. AcceptedOK'
    <3> SUFFICES ASSUME NEW r \in accepted'
                 PROVE  /\ r.fn \in Fns /\ r.name \in Names /\ alternate'[r.fn] = r.name
                        /\ r.kind = "activity" => r.name \in DOMAIN activities' /\ activities'[r.name] = r.fn
                        /\ r.kind = "workflow" /\ r.version = None =>
                             r.name \in DOMAIN orchestrators' /\ orchestrators'[r.name] = r.fn
                        /\ r.kind = "workflow" /\ r.version # None =>
                             /\ r.name \in DOMAIN versioned' /\ r.version \in DOMAIN versioned'[r.name]
                             /\ versioned'[r.name][r.version] = r.fn
      BY DEF AcceptedOK
    <3>1. CASE r \in accepted
      BY <1>3, <2>1, <2>2, <3>1 DEF RegInv, AcceptedOK
    <3>2. CASE r = [kind |-> "workflow", name |-> alt, version |-> None, fn |-> fn]
      BY <1>1, <2>1, <2>2, <3>2
    <3> QED
      BY <2>5, <3>1, <3>2
  <2>7. \A i \in Instances : RanOK(i)'
    BY <1>1, <2>3, RanKept DEF RegInv
  <2>8. /\ \A x \in DOMAIN orchestrators' : orchestrators'[x] \in Fns
        /\ \A x \in DOMAIN versioned' : \A v \in DOMAIN versioned'[x] : versioned'[x][v] \in Fns
    BY <1>3, <2>2 DEF RegInv
  <2> QED
    BY <1>1, <2>4, <2>6, <2>7, <2>8 DEF RegInv
<1> QED
  BY <1>2, <1>3 DEF register_workflow, alt

\* register_activity keeps the invariant.
LEMMA ActivityInv ==
  ASSUME RegInv, NEW fn \in Fns, NEW name \in Names \cup {None}, register_activity(fn, name)
  PROVE  RegInv'
<1> DEFINE alt == Given(alternate[fn], Given(name, NameOf[fn]))
<1>1. alt \in Names /\ alternate[fn] \in {None, alt} /\ UNCHANGED instance
  BY AltIs DEF register_activity
<1> HIDE DEF alt
<1>2. CASE Refuse(fn, alt)
  BY <1>1, <1>2, RefuseInv
<1>3. CASE /\ alt \notin DOMAIN activities
           /\ alternate' = [alternate EXCEPT ![fn] = alt]
           /\ activities' = Add(activities, alt, fn)
           /\ Accept("activity", alt, None, fn)
           /\ UNCHANGED <<orchestrators, versioned, latest, mixed>>
  <2>1. /\ alternate' \in [Fns -> Names \cup {None}] /\ alternate'[fn] = alt
        /\ \A r \in accepted : alternate'[r.fn] = r.name
    BY <1>1, <1>3, NameGiven
  <2>2. /\ DOMAIN activities' = DOMAIN activities \cup {alt} /\ activities'[alt] = fn
        /\ \A z \in DOMAIN activities : activities'[z] = activities[z]
    BY <1>3 DEF Add
  <2>4. TablesOK'
    BY <1>1, <1>3, <2>1 DEF RegInv, TablesOK
  <2>5. accepted' = accepted \cup {[kind |-> "activity", name |-> alt, version |-> None, fn |-> fn]}
    BY <1>3 DEF Accept
  <2>6. AcceptedOK'
    <3> SUFFICES ASSUME NEW r \in accepted'
                 PROVE  /\ r.fn \in Fns /\ r.name \in Names /\ alternate'[r.fn] = r.name
                        /\ r.kind = "activity" => r.name \in DOMAIN activities' /\ activities'[r.name] = r.fn
                        /\ r.kind = "workflow" /\ r.version = None =>
                             r.name \in DOMAIN orchestrators' /\ orchestrators'[r.name] = r.fn
                        /\ r.kind = "workflow" /\ r.version # None =>
                             /\ r.name \in DOMAIN versioned' /\ r.version \in DOMAIN versioned'[r.name]
                             /\ versioned'[r.name][r.version] = r.fn
      BY DEF AcceptedOK
    <3>1. CASE r \in accepted
      BY <1>3, <2>1, <2>2, <3>1 DEF RegInv, AcceptedOK
    <3>2. CASE r = [kind |-> "activity", name |-> alt, version |-> None, fn |-> fn]
      BY <1>1, <2>1, <2>2, <3>2
    <3> QED
      BY <2>5, <3>1, <3>2
  <2>7. \A i \in Instances : RanOK(i)'
    BY <1>1, <1>3, RanKept DEF RegInv
  <2> QED
    BY <1>1, <1>3, <2>4, <2>6, <2>7 DEF RegInv
<1> QED
  BY <1>2, <1>3 DEF register_activity, alt

\* register_versioned_workflow keeps the invariant, the versions of the same
\* name that were there included.
LEMMA VersionedInv ==
  ASSUME RegInv, NEW fn \in Fns, NEW name \in Names, NEW version \in Versions \cup {None},
         NEW is_latest \in BOOLEAN, register_versioned_workflow(fn, name, version, is_latest)
  PROVE  RegInv'
<1> DEFINE v == Given(version, NameOf[fn])
<1>1. /\ v \in Versions /\ v # None /\ name # None /\ alternate[fn] \in {None, name} /\ UNCHANGED instance
  BY RegistryAssumption DEF register_versioned_workflow, NameTaken, Given
<1> HIDE DEF v
<1>2. CASE Refuse(fn, name)
  BY <1>1, <1>2, RefuseInv
<1>3. CASE /\ v \notin DOMAIN VersionsOf(name)
           /\ alternate' = [alternate EXCEPT ![fn] = name]
           /\ versioned' = Add(versioned, name, Add(VersionsOf(name), v, fn))
           /\ latest' = IF is_latest THEN Add(latest, name, v) ELSE latest
           /\ Accept("workflow", name, v, fn)
           /\ mixed' = [mixed EXCEPT !.versioned = @ \cup {name}]
           /\ UNCHANGED <<orchestrators, activities>>
  <2>1. /\ alternate' \in [Fns -> Names \cup {None}] /\ alternate'[fn] = name
        /\ \A r \in accepted : alternate'[r.fn] = r.name
    BY <1>1, <1>3, NameGiven
  <2> DEFINE old == VersionsOf(name)
             now == Add(old, v, fn)
  <2>o. /\ DOMAIN old \subseteq Versions /\ \A w \in DOMAIN old : old[w] \in Fns
        /\ name \in DOMAIN versioned => old = versioned[name]
    BY DEF VersionsOf, RegInv, TablesOK, Empty
  <2>n. /\ DOMAIN now = DOMAIN old \cup {v} /\ now[v] = fn
        /\ \A w \in DOMAIN old : now[w] = old[w]
    BY <1>3 DEF Add
  <2>2. /\ DOMAIN versioned' = DOMAIN versioned \cup {name} /\ versioned'[name] = now
        /\ \A z \in DOMAIN versioned : z # name => versioned'[z] = versioned[z]
    BY <1>3 DEF Add
  <2>l. \A x \in DOMAIN latest' : latest'[x] \in Versions
    <3>1. CASE is_latest
      <4>1. /\ DOMAIN latest' = DOMAIN latest \cup {name} /\ latest'[name] = v
            /\ \A z \in DOMAIN latest : z # name => latest'[z] = latest[z]
        BY <1>3, <3>1 DEF Add
      <4> QED
        BY <1>1, <4>1 DEF RegInv, TablesOK
    <3>2. CASE ~is_latest
      BY <1>3, <3>2 DEF RegInv, TablesOK
    <3> QED
      BY <3>1, <3>2
  <2>3. mixed'.plain = mixed.plain /\ mixed'.versioned = mixed.versioned \cup {name}
        /\ mixed' = [plain |-> mixed'.plain, versioned |-> mixed'.versioned]
    BY <1>3 DEF RegInv, TablesOK
  <2> HIDE DEF old, now
  <2>4. TablesOK'
    <3>1. \A x \in DOMAIN versioned' : DOMAIN versioned'[x] \subseteq Versions
      BY <1>1, <2>2, <2>o, <2>n DEF RegInv, TablesOK
    <3> QED
      BY <1>1, <1>3, <2>1, <2>2, <2>3, <2>l, <3>1 DEF RegInv, TablesOK
  <2>5. accepted' = accepted \cup {[kind |-> "workflow", name |-> name, version |-> v, fn |-> fn]}
    BY <1>3 DEF Accept
  <2>6. AcceptedOK'
    <3> SUFFICES ASSUME NEW r \in accepted'
                 PROVE  /\ r.fn \in Fns /\ r.name \in Names /\ alternate'[r.fn] = r.name
                        /\ r.kind = "activity" => r.name \in DOMAIN activities' /\ activities'[r.name] = r.fn
                        /\ r.kind = "workflow" /\ r.version = None =>
                             r.name \in DOMAIN orchestrators' /\ orchestrators'[r.name] = r.fn
                        /\ r.kind = "workflow" /\ r.version # None =>
                             /\ r.name \in DOMAIN versioned' /\ r.version \in DOMAIN versioned'[r.name]
                             /\ versioned'[r.name][r.version] = r.fn
      BY DEF AcceptedOK
    <3>1. CASE r \in accepted
      <4>1. CASE r.kind = "workflow" /\ r.version # None
        <5>1. /\ r.name \in DOMAIN versioned /\ r.version \in DOMAIN versioned[r.name]
              /\ versioned[r.name][r.version] = r.fn /\ r.fn \in Fns /\ r.name \in Names
          BY <3>1, <4>1 DEF RegInv, AcceptedOK
        <5>2. CASE r.name = name
          BY <2>1, <2>2, <2>o, <2>n, <3>1, <4>1, <5>1, <5>2
        <5>3. CASE r.name # name
          BY <2>1, <2>2, <3>1, <4>1, <5>1, <5>3
        <5> QED
          BY <5>2, <5>3
      <4>2. CASE ~(r.kind = "workflow" /\ r.version # None)
        BY <1>3, <2>1, <3>1, <4>2 DEF RegInv, AcceptedOK
      <4> QED
        BY <4>1, <4>2
    <3>2. CASE r = [kind |-> "workflow", name |-> name, version |-> v, fn |-> fn]
      BY <1>1, <2>1, <2>2, <2>n, <3>2
    <3> QED
      BY <2>5, <3>1, <3>2
  <2>7. \A i \in Instances : RanOK(i)'
    BY <1>1, <2>3, RanKept DEF RegInv
  <2>8. /\ \A x \in DOMAIN orchestrators' : orchestrators'[x] \in Fns
        /\ \A x \in DOMAIN versioned' : \A w \in DOMAIN versioned'[x] : versioned'[x][w] \in Fns
    BY <1>3, <2>2, <2>o, <2>n DEF RegInv
  <2> QED
    BY <1>1, <2>4, <2>6, <2>7, <2>8 DEF RegInv
<1> QED
  BY <1>2, <1>3 DEF register_versioned_workflow, v

\* What a turn finds under the name and version of its instance.
LEMMA FoundIs ==
  ASSUME RegInv, NEW name \in Names, NEW version \in Versions \cup {None},
         get_orchestrator(name, version).fn # None
  PROVE  LET r == get_orchestrator(name, version) IN
         /\ r.fn \in Fns /\ r.version \in Versions \cup {None}
         /\ \/ r.version = None /\ name \in mixed.plain
            \/ r.version # None /\ name \in mixed.versioned /\ (version # None => r.version = version)
<1> DEFINE v == VersionToUse(name, version)
           r == get_orchestrator(name, version)
<1>1. v \in Versions \cup {None} /\ (version # None => v = version)
  BY DEF VersionToUse, RegInv, TablesOK
<1> HIDE DEF v
<1>2. CASE name \in DOMAIN orchestrators
  <2>1. r = [fn |-> orchestrators[name], version |-> None]
    BY <1>2 DEF get_orchestrator
  <2> HIDE DEF r
  <2>2. orchestrators[name] \in Fns /\ name \in mixed.plain
    BY <1>2 DEF RegInv, TablesOK
  <2>3. r.fn = orchestrators[name] /\ r.version = None
    BY <2>1
  <2> QED
    BY <2>2, <2>3 DEF r
<1>3. CASE name \notin DOMAIN orchestrators /\ v # None /\ v \in DOMAIN VersionsOf(name)
  <2>1. r = [fn |-> VersionsOf(name)[v], version |-> v]
    BY <1>3 DEF get_orchestrator, v
  <2> HIDE DEF r
  <2>2. VersionsOf(name)[v] \in Fns /\ name \in mixed.versioned
    <3>1. name \in DOMAIN versioned
      BY <1>3 DEF VersionsOf, Empty
    <3> QED
      BY <1>3, <3>1 DEF VersionsOf, RegInv, TablesOK
  <2>3. r.fn = VersionsOf(name)[v] /\ r.version = v
    BY <2>1
  <2> QED
    BY <1>1, <1>3, <2>2, <2>3 DEF r
<1>4. CASE name \notin DOMAIN orchestrators /\ ~(v # None /\ v \in DOMAIN VersionsOf(name))
  <2>1. r.fn = None
    BY <1>4 DEF get_orchestrator, v
  <2> QED
    BY <2>1
<1> QED
  BY <1>2, <1>3, <1>4

\* A turn keeps the invariant: it runs the version of the history, or is the
\* first to use one.
LEMMA TurnInv ==
  ASSUME RegInv, NEW i \in Instances, NEW payload, Turn(i, payload)
  PROVE  RegInv'
<1> DEFINE h == instance[i]
           r == get_orchestrator(instance[i].name, instance[i].version)
<1>0. /\ UNCHANGED <<orchestrators, versioned, latest, activities, alternate, accepted, mixed>>
      /\ instance[i].name # None
  BY DEF Turn
<1>1. TablesOK' /\ AcceptedOK'
  BY <1>0 DEF RegInv, TablesOK, AcceptedOK
<1>2. /\ instance \in [Instances -> InstanceRecords] /\ h \in InstanceRecords
      /\ h.name \in Names /\ h.version \in Versions \cup {None}
      /\ h.ran \in Seq([fn: Fns, version: Versions \cup {None}]) /\ RanOK(i)
  BY <1>0 DEF RegInv, InstanceRecords
<1>3. ASSUME NEW g \in InstanceRecords, instance' = [instance EXCEPT ![i] = g],
             g.name = h.name,
             \A t \in 1 .. Len(g.ran) :
               \/ g.ran[t].version = None /\ g.name \in mixed.plain
               \/ g.ran[t].version # None /\ g.ran[t].version = g.version /\ g.name \in mixed.versioned
      PROVE  RegInv'
  <2>1. instance' \in [Instances -> InstanceRecords] /\ instance'[i] = g
    BY <1>2, <1>3
  <2>2. ASSUME NEW j \in Instances PROVE RanOK(j)'
    <3>1. CASE j = i
      BY <1>0, <1>3, <2>1, <3>1 DEF RanOK
    <3>2. CASE j # i
      BY <1>0, <1>2, <1>3, <3>2 DEF RegInv, RanOK
    <3> QED
      BY <3>1, <3>2
  <2> QED
    BY <1>0, <1>1, <2>1, <2>2 DEF RegInv
<1>4. CASE instance' = [instance EXCEPT ![i].stalled = TRUE]
  <2> DEFINE g == [h EXCEPT !.stalled = TRUE]
  <2>1. /\ g \in InstanceRecords /\ g.name = h.name /\ g.ran = h.ran /\ g.version = h.version
        /\ instance' = [instance EXCEPT ![i] = g]
    BY <1>2, <1>4 DEF InstanceRecords
  <2> HIDE DEF g
  <2> QED
    BY <1>2, <1>3, <2>1 DEF RanOK
<1>5. CASE instance' = [instance EXCEPT ![i].status = "failed"]
  <2> DEFINE g == [h EXCEPT !.status = "failed"]
  <2>1. /\ g \in InstanceRecords /\ g.name = h.name /\ g.ran = h.ran /\ g.version = h.version
        /\ instance' = [instance EXCEPT ![i] = g]
    BY <1>2, <1>5 DEF InstanceRecords
  <2> HIDE DEF g
  <2> QED
    BY <1>2, <1>3, <2>1 DEF RanOK
<1>6. CASE /\ r.fn # None
           /\ instance' = [instance EXCEPT
                ![i].version = Given(r.version, @),
                ![i].ran = Append(@, [fn |-> r.fn, version |-> r.version]),
                ![i].stalled = FALSE]
  <2>1. /\ r.fn \in Fns /\ r.version \in Versions \cup {None}
        /\ \/ r.version = None /\ h.name \in mixed.plain
           \/ r.version # None /\ h.name \in mixed.versioned /\ (h.version # None => r.version = h.version)
    BY <1>2, <1>6, FoundIs
  <2> DEFINE f == r.fn
             v == r.version
             w == Given(v, h.version)
             x == [fn |-> f, version |-> v]
             ran == Append(h.ran, x)
             g == [h EXCEPT !.version = w, !.ran = ran, !.stalled = FALSE]
  <2>2. instance' = [instance EXCEPT ![i] = g]
    BY <1>2, <1>6 DEF InstanceRecords
  <2> HIDE DEF r, h
  <2>3. /\ f \in Fns /\ v \in Versions \cup {None}
        /\ \/ v = None /\ h.name \in mixed.plain
           \/ v # None /\ h.name \in mixed.versioned /\ (h.version # None => v = h.version)
    BY <2>1
  <2> HIDE DEF f, v
  <2>4. w \in Versions \cup {None} /\ x \in [fn: Fns, version: Versions \cup {None}]
        /\ x.version = v /\ (v # None => w = v) /\ (v = None => w = h.version)
    BY <1>2, <2>3 DEF Given
  <2> HIDE DEF x, w
  <2>5. /\ ran \in Seq([fn: Fns, version: Versions \cup {None}]) /\ Len(ran) = Len(h.ran) + 1
        /\ Len(h.ran) \in Nat /\ ran[Len(h.ran) + 1] = x
        /\ \A t \in 1 .. Len(h.ran) : ran[t] = h.ran[t]
    BY <1>2, <2>4, AppendProperties, LenProperties
  <2> HIDE DEF ran
  <2>6. g \in InstanceRecords /\ g.name = h.name /\ g.ran = ran /\ g.version = w
    BY <1>2, <2>4, <2>5 DEF InstanceRecords
  <2> HIDE DEF g
  <2>7. ASSUME NEW t \in 1 .. Len(ran)
        PROVE  \/ ran[t].version = None /\ h.name \in mixed.plain
               \/ ran[t].version # None /\ ran[t].version = w /\ h.name \in mixed.versioned
    <3>1. CASE t = Len(h.ran) + 1
      BY <2>3, <2>4, <2>5, <3>1
    <3>2. CASE t # Len(h.ran) + 1
      <4>1. t \in 1 .. Len(h.ran)
        BY <2>5, <3>2
      <4>2. \/ h.ran[t].version = None /\ h.name \in mixed.plain
            \/ h.ran[t].version # None /\ h.ran[t].version = h.version /\ h.name \in mixed.versioned
        BY <1>2, <4>1 DEF RanOK, h
      <4>3. ran[t] = h.ran[t]
        BY <2>5, <4>1
      <4> QED
        BY <2>3, <2>4, <4>2, <4>3
    <3> QED
      BY <3>1, <3>2
  <2> QED
    BY <1>3, <2>2, <2>6, <2>7
<1> QED
  BY <1>4, <1>5, <1>6 DEF Turn

\* An instance that is scheduled has not run.
LEMMA ScheduleInv ==
  ASSUME RegInv, NEW i \in Instances, NEW fn \in Fns, Schedule(i, fn)
  PROVE  RegInv'
<1> DEFINE n == ScheduledName(fn)
           g == [instance[i] EXCEPT !.name = n]
<1>0. UNCHANGED <<orchestrators, versioned, latest, activities, alternate, accepted, mixed>>
      /\ instance[i].name = None /\ instance' = [instance EXCEPT ![i].name = n]
  BY DEF Schedule
<1>1. TablesOK' /\ AcceptedOK'
  BY <1>0 DEF RegInv, TablesOK, AcceptedOK
<1>2. n \in Names
  BY RegistryAssumption DEF ScheduledName, Given, RegInv, TablesOK
<1> HIDE DEF n
<1>3. instance \in [Instances -> InstanceRecords] /\ instance[i] \in InstanceRecords
      /\ instance[i].ran \in Seq([fn: Fns, version: Versions \cup {None}])
  BY DEF RegInv, InstanceRecords
<1>4. \A t \in 1 .. Len(instance[i].ran) : FALSE
  <2>1. RanOK(i) /\ None \notin Names /\ mixed.plain \subseteq Names /\ mixed.versioned \subseteq Names
    BY RegistryAssumption DEF RegInv, TablesOK
  <2> QED
    BY <1>0, <2>1 DEF RanOK
<1>5. g \in InstanceRecords /\ g.ran = instance[i].ran /\ instance' = [instance EXCEPT ![i] = g]
  BY <1>0, <1>2, <1>3 DEF InstanceRecords
<1> HIDE DEF g
<1>6. instance' \in [Instances -> InstanceRecords]
  BY <1>3, <1>5
<1>7. ASSUME NEW j \in Instances PROVE RanOK(j)'
  <2>1. CASE j = i
    <3>1. instance'[j].ran = instance[i].ran
      BY <1>3, <1>5, <2>1
    <3> QED
      BY <1>4, <3>1 DEF RanOK
  <2>2. CASE j # i
    BY <1>0, <1>3, <1>5, <2>2 DEF RegInv, RanOK
  <2> QED
    BY <2>1, <2>2
<1> QED
  BY <1>0, <1>1, <1>6, <1>7 DEF RegInv

\* A new deployment keeps what instances have run.
LEMMA RedeployInv == RegInv /\ Redeploy => RegInv'
<1> SUFFICES ASSUME RegInv, Redeploy PROVE RegInv'
  OBVIOUS
<1>1. TablesOK' /\ AcceptedOK'
  BY DEF RegInv, Redeploy, TablesOK, AcceptedOK, Empty
<1>2. \A i \in Instances : RanOK(i)'
  BY RanKept DEF RegInv, Redeploy
<1> QED
  BY <1>1, <1>2 DEF RegInv, Redeploy, Empty

\* What a step leaves alone.
LEMMA RegRests ==
  ASSUME RegInv, UNCHANGED <<orchestrators, versioned, latest, activities, alternate, accepted, mixed, instance>>
  PROVE  RegInv'
<1>1. TablesOK' /\ AcceptedOK'
  BY DEF RegInv, TablesOK, AcceptedOK
<1>2. \A i \in Instances : RanOK(i)'
  BY RanKept DEF RegInv
<1> QED
  BY <1>1, <1>2 DEF RegInv

\* alternate_name keeps the invariant: it does to the tables what a refused
\* registration does.
LEMMA AlternateInv ==
  ASSUME RegInv, NEW fn \in Fns, NEW name \in Names \cup {None}, alternate_name(fn, name)
  PROVE  RegInv'
<1> DEFINE n == Given(name, NameOf[fn])
<1>1. n \in Names /\ alternate[fn] \in {None, n} /\ Refuse(fn, n) /\ UNCHANGED instance
  BY RegistryAssumption DEF alternate_name, Given, Refuse
<1> HIDE DEF n
<1> QED
  BY <1>1, RefuseInv

\* No registration, accepted or refused, takes a registered function away, and
\* every turn of an instance runs the version of its first (worker.py,
\* get_orchestrator; workflow_runtime.py, register_versioned_workflow), as long
\* as its name is not used with and without versions: for any functions, names,
\* versions and number of registrations and deployments.
THEOREM NamesRunTheirOwn == RegSpec => []RunsItsOwn
<1>1. RegInv /\ [RegNext]_regVars => RegInv'
  <2> SUFFICES ASSUME RegInv, [RegNext]_regVars PROVE RegInv'
    OBVIOUS
  <2>1. ASSUME NEW fn \in Fns, NEW name \in Names \cup {None},
               alternate_name(fn, name) \/ workflow(fn, name) \/ activity(fn, name)
        PROVE  RegInv'
    BY <2>1, AlternateInv, WorkflowInv, ActivityInv DEF workflow, activity
  <2>2. ASSUME NEW fn \in Fns, NEW name \in Names, NEW v \in Versions \cup {None}, NEW b \in BOOLEAN,
               versioned_workflow(fn, name, v, b)
        PROVE  RegInv'
    BY <2>2, VersionedInv DEF versioned_workflow
  <2>3. ASSUME NEW i \in Instances, NEW fn \in Fns, Schedule(i, fn) PROVE RegInv'
    BY <2>3, ScheduleInv
  <2>4. ASSUME NEW i \in Instances, NEW p \in Payloads, Turn(i, p) PROVE RegInv'
    BY <2>4, TurnInv
  <2>5. ASSUME NEW fn \in Fns, NEW p \in Payloads, Perform(ScheduledName(fn), p) PROVE RegInv'
    BY <2>5, RegRests DEF Perform
  <2>6. CASE Redeploy
    BY <2>6, RedeployInv
  <2>7. CASE UNCHANGED regVars
    BY <2>7, RegRests DEF regVars
  <2> QED
    BY <2>1, <2>2, <2>3, <2>4, <2>5, <2>6, <2>7 DEF RegNext
<1> QED
  BY <1>1, RegInitInv, RegInvImplies, PTL DEF RegSpec
=============================================================================
