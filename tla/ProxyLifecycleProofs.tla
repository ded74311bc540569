------------------------ MODULE ProxyLifecycleProofs ------------------------
(***************************************************************************)
(* For any number of workers, connections and places in the queue: the     *)
(* proxy uses its queue as BoundedFifo asks, and not after teardown; an    *)
(* accepted connection has exactly one owner, also through teardown;       *)
(* teardown posts one pill for each worker it has to stop; and connections *)
(* are served first come, first served (ConnectionService).                *)
(*                                                                         *)
(* QueueUsedAsPromised is not inductive: that the queue is still there for *)
(* a worker depends on how far the boss has come with its joins.  Phases   *)
(* says what each label of proxy.c implies about the workers.              *)
(***************************************************************************)
EXTENDS ProxyLifecycle, TLAPS, SequenceTheorems, FiniteSetTheorems

\* The queue's share of TypeOK.
QueueType ==
  /\ open \in BOOLEAN
  /\ queue \in Seq(Conns \cup {Pill})
  /\ pending \subseteq Threads
  /\ value \in [Threads -> Conns \cup {Pill, NoItem}]

\* The rest of TypeOK.
ControlType ==
  /\ boss \in {"socket", "queue", "create", "run", "accept", "put", "pills",
              "pill", "join", "returned", "crashed"}
  /\ i \in 0 .. NumWorkers
  /\ p_workers \in {0, NumWorkers}
  /\ listening \in {"no", "open", "shut"}
  /\ TERMINATE \in BOOLEAN
  /\ handler \in Threads \cup {NoThread}
  /\ worker \in [Workers -> {"absent", "loop", "get", "got", "processing",
                            "close", "exited"}]
  /\ conn \in [Conns -> {"new", "backlog", "accepted", "closed", "reset"}]

Gone(w) == worker[w] \in {"absent", "exited"}

\* The workers exist from "create" on, and those the boss has joined are gone.
Phases ==
  /\ boss \in {"socket", "queue"} => p_workers = 0 /\ i = 0
  /\ boss \in {"create", "run", "accept", "put"} => p_workers = NumWorkers
  /\ boss = "create" => i < p_workers
  /\ boss = "pill" => i < p_workers
  /\ boss \in {"pills", "join"} => i <= p_workers
  /\ p_workers = 0 => \A w \in Workers : worker[w] = "absent"
  /\ boss = "create" => \A w \in Workers : w >= i => worker[w] = "absent"
  /\ boss = "join" => \A w \in Workers : w < i => Gone(w)
  /\ boss = "returned" => \A w \in Workers : Gone(w)

\* What the boss passes to ml_safeq_put.
BossCarries == boss \in {"put", "pill"} => value[Boss] \in Conns \cup {Pill}

\* The queue exists between initialize and the end of teardown.
QueueStands == p_workers # 0 /\ boss # "returned" => open

Inv == QueueType /\ ControlType /\ Phases /\ BossCarries /\ QueueStands

-----------------------------------------------------------------------------
(* Types.                                                                  *)

\* Whatever is done with the queue, it holds connections and pills.
LEMMA QueueTypes ==
  ASSUME QueueType, LifecycleAssumption,
         \/ UNCHANGED queueVars
         \/ Q!Open
         \/ Q!Close
         \/ \E s \in Conns \cup {Pill} : Q!CallPut(Boss, s)
         \/ Q!Put(Boss) /\ value[Boss] \in Conns \cup {Pill}
         \/ \E w \in Workers : Q!CallGet(w) \/ Q!Get(w)
  PROVE  QueueType'
<1> USE DEF QueueType
<1>1. CASE UNCHANGED queueVars
  BY <1>1 DEF queueVars
<1>2. CASE Q!Open
  BY <1>2 DEF Q!Open
<1>3. CASE Q!Close
  <2>1. open' = FALSE /\ queue' = <<>> /\ UNCHANGED <<pending, value>>
    BY <1>3 DEF Q!Close
  <2>2. open' \in BOOLEAN
    BY <2>1
  <2> QED
    BY <2>1, <2>2
<1>4. ASSUME NEW s \in Conns \cup {Pill}, Q!CallPut(Boss, s)
      PROVE  QueueType'
  BY <1>4 DEF Q!CallPut, Threads
<1>5. CASE Q!Put(Boss) /\ value[Boss] \in Conns \cup {Pill}
  BY <1>5, AppendProperties DEF Q!Put, Threads
<1>6. ASSUME NEW w \in Workers, Q!CallGet(w)
      PROVE  QueueType'
  BY <1>6 DEF Q!CallGet, Threads
<1>7. ASSUME NEW w \in Workers, Q!Get(w)
      PROVE  QueueType'
  BY <1>7, HeadTailProperties DEF Q!Get, Threads
<1> QED
  BY <1>1, <1>2, <1>3, <1>4, <1>5, <1>6, <1>7

-----------------------------------------------------------------------------
(* The invariant.                                                          *)

LEMMA InitInv == Init => Inv
<1> SUFFICES ASSUME Init PROVE Inv
  OBVIOUS
<1> USE LifecycleAssumption DEF Init
<1>1. QueueType
  <2>1. open \in BOOLEAN
    BY DEF Q!Init
  <2> QED
    BY <2>1, EmptySeq DEF Q!Init, QueueType, Q!Threads, Threads
<1>2. ControlType
  <2>1. TERMINATE \in BOOLEAN
    OBVIOUS
  <2> QED
    BY <2>1 DEF ControlType
<1>3. Phases /\ BossCarries /\ QueueStands
  BY DEF Phases, BossCarries, QueueStands, Workers
<1> QED
  BY <1>1, <1>2, <1>3 DEF Inv

\* initialize().
LEMMA InitializeInv == Inv /\ BossInitializes => Inv'
<1> SUFFICES ASSUME Inv, BossInitializes PROVE Inv'
  OBVIOUS
<1> USE LifecycleAssumption DEF Inv, At, Goto, BeginTeardown, Workers
<1>1. QueueType'
  BY QueueTypes DEF BossInitializes, SetUpSocket, SetUpQueue, CreateWorker, CreateFails
<1>2. ASSUME NEW succeeds \in BOOLEAN, SetUpSocket(succeeds)
      PROVE  (ControlType /\ Phases /\ BossCarries /\ QueueStands)'
  BY <1>2 DEF SetUpSocket, ControlType, Phases, BossCarries, QueueStands, queueVars
<1>3. ASSUME NEW succeeds \in BOOLEAN, SetUpQueue(succeeds)
      PROVE  (ControlType /\ Phases /\ BossCarries /\ QueueStands)'
  <2>1. CASE succeeds
    <3> USE <1>3, <2>1 DEF SetUpQueue, signalVars
    <3>1. boss' = "create" /\ i' = i /\ p_workers' = NumWorkers /\ open' = TRUE
      BY DEF Q!Open
    <3>2. UNCHANGED <<signalVars, worker, conn>>
      OBVIOUS
    <3>3. boss = "queue"
      OBVIOUS
    <3>4. i = 0 /\ \A w \in Workers : worker[w] = "absent"
      BY <3>3 DEF Phases
    <3>5. ControlType'
      BY <3>1, <3>2 DEF ControlType
    <3>6. (Phases /\ BossCarries /\ QueueStands)'
      BY <3>1, <3>2, <3>4 DEF Phases, BossCarries, QueueStands
    <3> QED
      BY <3>5, <3>6
  <2>2. CASE ~succeeds
    BY <1>3, <2>2 DEF SetUpQueue, ControlType, Phases, BossCarries, QueueStands,
                      queueVars, signalVars
  <2> QED
    BY <2>1, <2>2
<1>4. CASE CreateWorker
  BY <1>1, <1>4 DEF CreateWorker, ControlType, Phases, BossCarries, QueueStands,
                    queueVars, signalVars
<1>5. CASE CreateFails
  BY <1>1, <1>5 DEF CreateFails, ControlType, Phases, BossCarries, QueueStands,
                    queueVars, signalVars
<1> QED
  BY <1>1, <1>2, <1>3, <1>4, <1>5 DEF BossInitializes

\* run().
LEMMA RunInv == Inv /\ (BossRuns \/ AcceptFails) => Inv'
<1> SUFFICES ASSUME Inv, BossRuns \/ AcceptFails PROVE Inv'
  OBVIOUS
<1> USE LifecycleAssumption
    DEF Inv, At, Goto, BeginTeardown, Workers, ControlType, Phases, BossCarries,
        QueueStands, queueVars, signalVars
<1>1. QueueType'
  BY QueueTypes
  DEF BossRuns, TestTerminate, Accept, AcceptOnShutSocket, AcceptFails, PutReturns
<1>2. CASE TestTerminate
  BY <1>1, <1>2 DEF TestTerminate
<1>3. ASSUME NEW c \in Conns, Accept(c) PROVE Inv'
  BY <1>1, <1>3 DEF Accept, Q!CallPut, QueueType, Threads
<1>4. CASE AcceptOnShutSocket
  BY <1>1, <1>4 DEF AcceptOnShutSocket
<1>5. CASE AcceptFails
  BY <1>1, <1>5 DEF AcceptFails
<1>6. CASE PutReturns
  BY <1>1, <1>6 DEF PutReturns, Q!Put
<1> QED
  BY <1>2, <1>3, <1>4, <1>5, <1>6 DEF BossRuns

\* teardown().  Join goes on only when the worker is gone, so that all are when
\* the last one has been joined.
LEMMA TeardownInv == Inv /\ BossTearsDown => Inv'
<1> SUFFICES ASSUME Inv, BossTearsDown PROVE Inv'
  OBVIOUS
<1> USE LifecycleAssumption
    DEF Inv, At, Goto, Workers, ControlType, Phases, BossCarries, QueueStands,
        queueVars, signalVars, PillsToPost
<1>1. QueueType'
  BY QueueTypes
  DEF BossTearsDown, PostPill, PillPosted, BeginJoin, Join, JoinUnsetHandle, HandleUnset, Return
<1>2. CASE PostPill
  BY <1>1, <1>2 DEF PostPill, Q!CallPut, QueueType, Threads
<1>3. CASE PillPosted
  BY <1>1, <1>3 DEF PillPosted, Q!Put
<1>4. CASE BeginJoin
  BY <1>1, <1>4 DEF BeginJoin
<1>5. CASE Join
  BY <1>1, <1>5 DEF Join, Joinable, Gone
<1>6. CASE JoinUnsetHandle
  BY <1>1, <1>6 DEF JoinUnsetHandle, HandleUnset, Gone
<1>7. CASE Return
  BY <1>1, <1>7 DEF Return, Gone
<1> QED
  BY <1>2, <1>3, <1>4, <1>5, <1>6, <1>7 DEF BossTearsDown

\* ml_worker().
LEMMA WorkerInv ==
  ASSUME Inv, NEW w \in Workers, WorkerStep(w) \/ GetReturns(w)
  PROVE  Inv'
<1> USE LifecycleAssumption
    DEF Inv, AtWorker, WorkerGoto, Exited, ControlType, Phases, BossCarries,
        QueueStands, queueVars, bossVars, signalVars, Gone
<1>1. QueueType'
  BY QueueTypes
  DEF WorkerStep, WorkerCallsGet, GetReturns, WorkerTakesPill, BeginConnection,
      EndConnection, SkipConnection, CloseConnection
<1>2. CASE WorkerCallsGet(w)
  BY <1>1, <1>2 DEF WorkerCallsGet, Q!CallGet, QueueType, Threads
<1>3. CASE GetReturns(w)
  BY <1>1, <1>3 DEF GetReturns, Q!Get, QueueType, Threads
<1>4. CASE WorkerTakesPill(w)
  BY <1>1, <1>4 DEF WorkerTakesPill
<1>5. CASE BeginConnection(w)
  BY <1>1, <1>5 DEF BeginConnection
<1>6. CASE EndConnection(w)
  BY <1>1, <1>6 DEF EndConnection
<1>7. CASE SkipConnection(w)
  BY <1>1, <1>7 DEF SkipConnection
<1>8. CASE CloseConnection(w)
  BY <1>1, <1>8 DEF CloseConnection
<1> QED
  BY <1>2, <1>3, <1>4, <1>5, <1>6, <1>7, <1>8 DEF WorkerStep

\* SIGINT and clients.
LEMMA OutsideInv ==
  ASSUME Inv,
         \/ \E t \in Threads : Interrupt(t)
         \/ HandlerReturns
         \/ \E c \in Conns : Connect(c)
         \/ UNCHANGED vars
  PROVE  Inv'
<1> USE LifecycleAssumption
    DEF Inv, ControlType, Phases, BossCarries, QueueStands, queueVars, bossVars,
        signalVars, Gone
<1>1. QueueType'
  BY QueueTypes DEF Interrupt, HandlerReturns, Connect, vars
<1>2. ASSUME NEW t \in Threads, Interrupt(t) PROVE Inv'
  BY <1>1, <1>2 DEF Interrupt, ShutListener
<1>3. CASE HandlerReturns
  BY <1>1, <1>3 DEF HandlerReturns
<1>4. ASSUME NEW c \in Conns, Connect(c) PROVE Inv'
  BY <1>1, <1>4 DEF Connect
<1>5. CASE UNCHANGED vars
  BY <1>1, <1>5 DEF vars
<1> QED
  BY <1>2, <1>3, <1>4, <1>5

LEMMA InvHolds == Spec => []Inv
<1>1. Inv /\ [Next]_vars => Inv'
  BY InitializeInv, RunInv, TeardownInv, WorkerInv, OutsideInv
  DEF Next, BossStep, Stopped
<1> QED
  BY InitInv, <1>1, PTL DEF Spec

-----------------------------------------------------------------------------
(* The theorems.                                                           *)

\* Types; the boss's loops in proxy.c never pass the number of workers.
THEOREM TypeCorrect == Spec => []TypeOK
<1>1. Inv => TypeOK
  BY DEF Inv, QueueType, ControlType, TypeOK
<1> QED
  BY <1>1, InvHolds, PTL

-----------------------------------------------------------------------------
(***************************************************************************)
(* Shutdown.  OneOwner and PillPerWorker need each other.  That            *)
(* ml_safeq_teardown drops no connection is so because the workers have    *)
(* then emptied the queue: each has returned, so as many pills have been   *)
(* taken as were posted, and no connection was put behind a pill.  Or      *)
(* initialize has failed before all workers were there, and no connection  *)
(* was ever accepted.  Tidy says so.                                       *)
(***************************************************************************)
Has(t, c) == InHand(t) /\ value[t] = c
Queued(c) == \E k \in 1 .. Len(queue) : queue[k] = c

Owned ==
  /\ \A c \in Conns : \A t, u \in Threads : Has(t, c) /\ Has(u, c) => t = u
  /\ \A c \in Conns : \A j, k \in 1 .. Len(queue) : queue[j] = c /\ queue[k] = c => j = k
  /\ \A c \in Conns : \A t \in Threads : Has(t, c) => ~Queued(c)
  /\ \A c \in Conns : conn[c] = "accepted" <=> Queued(c) \/ \E t \in Threads : Has(t, c)

Teardown == {"pills", "pill", "join"}
Ended == {"returned", "crashed"}

\* Pills are posted by teardown only, behind all connections.
Tidy ==
  /\ boss \notin Teardown \cup Ended =>
       /\ ~Queued(Pill)
       /\ \A w \in Workers : worker[w] # "exited" /\ ~Has(w, Pill)
  /\ boss = "pill" => value[Boss] = Pill
  /\ boss = "put" => value[Boss] \in Conns
  /\ \A w \in Workers : worker[w] \in {"processing", "close"} => value[w] # Pill
  /\ \A j, k \in 1 .. Len(queue) : j < k /\ queue[j] = Pill => queue[k] = Pill
  /\ p_workers = 0 => queue = <<>>
  /\ boss = "join" \/ (boss \in Teardown /\ i > 0) =>
       queue = <<>> \/ queue[Len(queue)] = Pill
  /\ boss = "create" => \A w \in Workers : w < i => worker[w] # "absent"
  /\ boss \in {"run", "accept", "put"} => \A w \in Workers : worker[w] # "absent"
  /\ (\E w \in Workers : worker[w] = "absent") => \A c \in Conns : conn[c] # "accepted"

Shutdown == Owned /\ Tidy /\ PillPerWorker

-----------------------------------------------------------------------------
(* Counting pills.                                                         *)

QueuedPills == {k \in DOMAIN queue : queue[k] = Pill}
TakenPills == {w \in Workers : InHand(w) /\ value[w] = Pill}

LEMMA AllFinite ==
  ASSUME QueueType
  PROVE  /\ IsFiniteSet(QueuedPills) /\ Cardinality(QueuedPills) \in Nat
         /\ IsFiniteSet(TakenPills) /\ Cardinality(TakenPills) \in Nat
         /\ IsFiniteSet(WorkersToStop) /\ Cardinality(WorkersToStop) \in Nat
<1>1. IsFiniteSet(Workers)
  BY LifecycleAssumption, FS_Interval DEF Workers
<1>2. IsFiniteSet(1 .. Len(queue)) /\ DOMAIN queue = 1 .. Len(queue)
  BY FS_Interval DEF QueueType
<1>3. QueuedPills \subseteq 1 .. Len(queue)
  BY <1>2 DEF QueuedPills
<1>4. TakenPills \subseteq Workers /\ WorkersToStop \subseteq Workers
  BY DEF TakenPills, WorkersToStop
<1>5. IsFiniteSet(QueuedPills) /\ IsFiniteSet(TakenPills) /\ IsFiniteSet(WorkersToStop)
  BY <1>1, <1>2, <1>3, <1>4, FS_Subset
<1> QED
  BY <1>5, FS_CardinalityType

\* A pill that is put is one more.
LEMMA PutPill ==
  ASSUME QueueType, queue' = Append(queue, Pill)
  PROVE  Cardinality(QueuedPills') = Cardinality(QueuedPills) + 1
<1>1. /\ Len(queue) \in Nat /\ DOMAIN queue = 1 .. Len(queue)
      /\ DOMAIN queue' = 1 .. Len(queue) + 1 /\ queue'[Len(queue) + 1] = Pill
      /\ \A k \in 1 .. Len(queue) : queue'[k] = queue[k]
  BY DEF QueueType
<1>2. QueuedPills' = QueuedPills \cup {Len(queue) + 1}
  BY <1>1 DEF QueuedPills
<1>3. Len(queue) + 1 \notin QueuedPills
  BY <1>1 DEF QueuedPills
<1> QED
  BY <1>2, <1>3, AllFinite, FS_AddElement

\* The head of the queue, when it is taken, is one less if it is a pill.
LEMMA GetPill ==
  ASSUME QueueType, queue # <<>>, queue' = Tail(queue)
  PROVE  Cardinality(QueuedPills') =
           IF Head(queue) = Pill THEN Cardinality(QueuedPills) - 1 ELSE Cardinality(QueuedPills)
<1> DEFINE rest == QueuedPills \ {1}
           f == [k \in rest |-> k - 1]
<1>1. /\ Len(queue) \in Nat \ {0} /\ DOMAIN queue = 1 .. Len(queue)
      /\ DOMAIN queue' = 1 .. Len(queue) - 1
      /\ \A k \in 1 .. Len(queue) - 1 : queue'[k] = queue[k + 1]
      /\ Head(queue) = queue[1]
  BY DEF QueueType
<1>2. /\ IsFiniteSet(rest)
      /\ Cardinality(rest) =
           IF 1 \in QueuedPills THEN Cardinality(QueuedPills) - 1 ELSE Cardinality(QueuedPills)
  BY AllFinite, FS_RemoveElement
<1>3. 1 \in QueuedPills <=> Head(queue) = Pill
  BY <1>1 DEF QueuedPills
<1>4. \A k \in rest : k \in Int /\ k - 1 \in QueuedPills'
  BY <1>1 DEF QueuedPills
<1>5. \A k \in QueuedPills' : k \in Int /\ k + 1 \in rest
  BY <1>1 DEF QueuedPills
<1> HIDE DEF rest
<1>6. f \in Bijection(rest, QueuedPills')
  <2>1. f \in [rest -> QueuedPills']
    BY <1>4
  <2>2. \A j, k \in rest : f[j] = f[k] => j = k
    BY <1>4
  <2>3. \A k \in QueuedPills' : \E j \in rest : f[j] = k
    <3>1. ASSUME NEW k \in QueuedPills' PROVE f[k + 1] = k
      BY <1>5
    <3> QED
      BY <1>5, <3>1
  <2> QED
    BY <2>1, <2>2, <2>3 DEF Bijection, Injection, Surjection, IsInjective
<1>7. Cardinality(QueuedPills') = Cardinality(rest)
  BY <1>2, <1>6, FS_Bijection DEF ExistsBijection
<1> QED
  BY <1>2, <1>3, <1>7

\* Where no pill moves and no worker stops.
LEMMA PillsKept ==
  ASSUME PillPerWorker, boss' \in Teardown => boss \in Teardown,
         PillsLeftToPost' = PillsLeftToPost,
         Cardinality(QueuedPills') = Cardinality(QueuedPills),
         TakenPills' = TakenPills,
         WorkersToStop' = WorkersToStop
  PROVE  PillPerWorker'
BY DEF PillPerWorker, PillsUnderway, QueuedPills, TakenPills, Teardown

-----------------------------------------------------------------------------
(* The owners.                                                             *)

\* Where nothing moves, and nothing is accepted or closed.
LEMMA OwnersKept ==
  ASSUME Owned,
         queue' = queue,
         \A c \in Conns : \A t \in Threads : Has(t, c)' <=> Has(t, c),
         \A c \in Conns : conn'[c] = "accepted" <=> conn[c] = "accepted"
  PROVE  Owned'
BY DEF Owned, Queued

\* accept: the connection had no owner, and now is the boss's.
LEMMA AcceptOwned == ASSUME Inv, Owned, NEW c \in Conns, Accept(c) PROVE Owned'
<1>1. /\ conn[c] = "backlog" /\ conn' = [conn EXCEPT ![c] = "accepted"]
      /\ value' = [value EXCEPT ![Boss] = c]
      /\ boss = "accept" /\ boss' = "put"
      /\ UNCHANGED <<queue, worker>>
  BY DEF Accept, At, Goto, Q!CallPut
<1>2. /\ value \in [Threads -> Conns \cup {Pill, NoItem}] /\ Boss \in Threads
      /\ conn \in [Conns -> {"new", "backlog", "accepted", "closed", "reset"}]
  BY DEF Inv, QueueType, ControlType, Threads
<1>3. \A t \in Threads, d \in Conns : Has(t, d)' <=> IF t = Boss THEN d = c ELSE Has(t, d)
  BY <1>1, <1>2 DEF Has, InHand
<1>4. /\ ~Queued(c) /\ \A t \in Threads : ~Has(t, c)
      /\ \A d \in Conns : ~Has(Boss, d)
  BY <1>1 DEF Owned, Has, InHand
<1>5. \A d \in Conns : conn'[d] = "accepted" <=> d = c \/ conn[d] = "accepted"
  BY <1>1, <1>2
<1>6. queue' = queue /\ \A d : Queued(d)' <=> Queued(d)
  BY <1>1 DEF Queued
<1> HIDE DEF Queued, Has
<1> QED
  BY <1>2, <1>3, <1>4, <1>5, <1>6 DEF Owned

\* ml_safeq_put: out of the boss's hands, to the end of the queue.  A pill
\* changes nothing for the connections.
LEMMA PutOwned ==
  ASSUME Inv, Owned, Tidy, PutReturns \/ PillPosted
  PROVE  Owned'
<1>1. /\ \/ boss = "put" /\ boss' = "run" /\ value[Boss] \in Conns
         \/ boss = "pill" /\ boss' = "pills" /\ value[Boss] = Pill
      /\ queue' = Append(queue, value[Boss])
      /\ value' = [value EXCEPT ![Boss] = NoItem]
      /\ UNCHANGED <<worker, conn>>
  BY DEF PutReturns, PillPosted, At, Goto, Q!Put, Tidy
<1>2. /\ value \in [Threads -> Conns \cup {Pill, NoItem}] /\ Boss \in Threads
      /\ queue \in Seq(Conns \cup {Pill}) /\ value[Boss] \in Conns \cup {Pill}
  BY <1>1 DEF Inv, QueueType, Threads
<1>3. /\ Len(queue') = Len(queue) + 1 /\ Len(queue) \in Nat
      /\ \A k \in 1 .. Len(queue) : queue'[k] = queue[k]
      /\ queue'[Len(queue) + 1] = value[Boss]
  BY <1>1, <1>2
<1>4. \A t \in Threads, d \in Conns : Has(t, d)' <=> t # Boss /\ Has(t, d)
  BY <1>1, <1>2, LifecycleAssumption DEF Has, InHand
<1>5. \A d \in Conns : Has(Boss, d) <=> value[Boss] = d
  BY <1>1, LifecycleAssumption DEF Has, InHand
<1>6. \A d \in Conns : Queued(d)' <=> Queued(d) \/ Has(Boss, d)
  BY <1>3, <1>5 DEF Queued
<1>7. ASSUME NEW d \in Conns, NEW j \in 1 .. Len(queue'), NEW k \in 1 .. Len(queue'),
             queue'[j] = d, queue'[k] = d
      PROVE  j = k
  <2>1. CASE value[Boss] = d
    <3>1. ~Queued(d)
      BY <1>2, <1>5, <2>1 DEF Owned
    <3> QED
      BY <1>3, <1>7, <3>1 DEF Queued
  <2>2. CASE value[Boss] # d
    <3>1. j \in 1 .. Len(queue) /\ k \in 1 .. Len(queue) /\ queue[j] = d /\ queue[k] = d
      BY <1>3, <1>7, <2>2
    <3> QED
      BY <3>1 DEF Owned
  <2> QED
    BY <2>1, <2>2
<1>8. /\ \A c \in Conns : \A t, u \in Threads : Has(t, c)' /\ Has(u, c)' => t = u
      /\ \A c \in Conns : \A t \in Threads : Has(t, c)' => ~Queued(c)'
  BY <1>2, <1>4, <1>6 DEF Owned
<1>9. \A c \in Conns : conn'[c] = "accepted" <=> Queued(c)' \/ \E t \in Threads : Has(t, c)'
  BY <1>1, <1>2, <1>4, <1>6 DEF Owned
<1> QED
  BY <1>7, <1>8, <1>9 DEF Owned

\* ml_safeq_get: from the head of the queue into the worker's hands.
LEMMA GetOwned == ASSUME Inv, Owned, NEW w \in Workers, GetReturns(w) PROVE Owned'
<1>1. /\ worker[w] = "get" /\ worker' = [worker EXCEPT ![w] = "got"]
      /\ queue # <<>> /\ queue' = Tail(queue)
      /\ value' = [value EXCEPT ![w] = Head(queue)]
      /\ UNCHANGED <<boss, conn>>
  BY DEF GetReturns, AtWorker, WorkerGoto, bossVars, Q!Get
<1>2. /\ value \in [Threads -> Conns \cup {Pill, NoItem}]
      /\ worker \in [Workers -> {"absent", "loop", "get", "got", "processing", "close", "exited"}]
      /\ queue \in Seq(Conns \cup {Pill}) /\ w \in Threads /\ w # Boss
  BY LifecycleAssumption DEF Inv, QueueType, ControlType, Threads
<1>3. /\ Len(queue) \in Nat \ {0} /\ Len(queue') = Len(queue) - 1
      /\ \A k \in 1 .. Len(queue) - 1 : queue'[k] = queue[k + 1]
      /\ Head(queue) = queue[1]
  BY <1>1, <1>2
<1>4. \A t \in Threads, d \in Conns : Has(t, d)' <=> IF t = w THEN d = queue[1] ELSE Has(t, d)
  BY <1>1, <1>2, <1>3 DEF Has, InHand, Threads
<1>5. \A d \in Conns : ~Has(w, d)
  BY <1>1, <1>2 DEF Has, InHand
<1>6. ASSUME NEW d \in Conns PROVE Queued(d)' <=> Queued(d) /\ d # queue[1]
  <2>1. ASSUME NEW k \in 1 .. Len(queue'), queue'[k] = d PROVE Queued(d) /\ d # queue[1]
    <3>1. k + 1 \in 1 .. Len(queue) /\ queue[k + 1] = d /\ k + 1 # 1
      BY <1>3, <2>1
    <3> QED
      BY <1>3, <3>1 DEF Owned, Queued
  <2>2. ASSUME NEW k \in 1 .. Len(queue), queue[k] = d, d # queue[1] PROVE Queued(d)'
    <3>1. k - 1 \in 1 .. Len(queue') /\ queue'[k - 1] = d
      BY <1>3, <2>2
    <3> QED
      BY <3>1 DEF Queued
  <2> QED
    BY <2>1, <2>2 DEF Queued
<1>7. \A d \in Conns : d = queue[1] => Queued(d)
  BY <1>3 DEF Queued
<1>8. ASSUME NEW d \in Conns, NEW j \in 1 .. Len(queue'), NEW k \in 1 .. Len(queue'),
             queue'[j] = d, queue'[k] = d
      PROVE  j = k
  <2>1. /\ j + 1 \in 1 .. Len(queue) /\ queue[j + 1] = d
        /\ k + 1 \in 1 .. Len(queue) /\ queue[k + 1] = d
    BY <1>3, <1>8
  <2>2. j + 1 = k + 1
    BY <2>1 DEF Owned
  <2> QED
    BY <2>2
<1>9. /\ \A c \in Conns : \A t, u \in Threads : Has(t, c)' /\ Has(u, c)' => t = u
      /\ \A c \in Conns : \A t \in Threads : Has(t, c)' => ~Queued(c)'
  BY <1>4, <1>6, <1>7 DEF Owned
<1>10. \A c \in Conns : conn'[c] = "accepted" <=> Queued(c)' \/ \E t \in Threads : Has(t, c)'
  BY <1>1, <1>2, <1>4, <1>5, <1>6, <1>7 DEF Owned
<1> QED
  BY <1>8, <1>9, <1>10 DEF Owned

\* close: the last owner gives the connection up.
LEMMA CloseOwned == ASSUME Inv, Owned, NEW w \in Workers, CloseConnection(w) PROVE Owned'
<1>1. /\ worker[w] = "close" /\ worker' = [worker EXCEPT ![w] = "loop"]
      /\ conn' = [conn EXCEPT ![value[w]] = "closed"]
      /\ UNCHANGED <<queue, value, boss>>
  BY DEF CloseConnection, AtWorker, WorkerGoto, queueVars, bossVars
<1>2. /\ worker \in [Workers -> {"absent", "loop", "get", "got", "processing", "close", "exited"}]
      /\ conn \in [Conns -> {"new", "backlog", "accepted", "closed", "reset"}]
      /\ w \in Threads /\ w # Boss
  BY LifecycleAssumption DEF Inv, ControlType, Threads
<1>3. \A t \in Threads, d \in Conns : Has(t, d)' <=> t # w /\ Has(t, d)
  BY <1>1, <1>2 DEF Has, InHand, Threads
<1>4. \A d \in Conns : Has(w, d) <=> value[w] = d
  BY <1>1, <1>2 DEF Has, InHand
<1>5. queue' = queue /\ \A d : Queued(d)' <=> Queued(d)
  BY <1>1 DEF Queued
<1>6. \A d \in Conns : conn'[d] = "accepted" <=> conn[d] = "accepted" /\ value[w] # d
  BY <1>1, <1>2
<1> HIDE DEF Queued, Has
<1> QED
  BY <1>2, <1>3, <1>4, <1>5, <1>6 DEF Owned

\* The end of teardown: there is no pill left to take, and nothing is queued
\* behind the last one, so ml_safeq_teardown drops no connection.
LEMMA ReturnOwned == ASSUME Inv, Shutdown, Return PROVE Owned'
<1>1. /\ boss = "join" /\ i = p_workers /\ boss' = "returned" /\ queue' = <<>>
      /\ conn' = [c \in Conns |-> IF conn[c] = "backlog" THEN "reset" ELSE conn[c]]
      /\ UNCHANGED <<value, worker>>
  BY DEF Return, At, Goto, Q!Close
<1>2. /\ QueueType /\ \A w \in Workers : Gone(w)
      /\ p_workers \in {0, NumWorkers} /\ NumWorkers \in Nat \ {0}
  <2>1. CASE p_workers = 0
    BY <2>1, LifecycleAssumption DEF Inv, Phases, Gone
  <2>2. CASE p_workers = NumWorkers
    BY <1>1, <2>2, LifecycleAssumption DEF Inv, Phases, ControlType, Workers
  <2> QED
    BY <2>1, <2>2, LifecycleAssumption DEF Inv, ControlType
<1>3. \A t \in Threads : ~InHand(t) /\ ~InHand(t)'
  BY <1>1, <1>2 DEF InHand, Threads, Gone
<1>4. \A c \in Conns : ~Queued(c)
  <2>1. CASE \E w \in Workers : worker[w] = "absent"
    BY <2>1 DEF Shutdown, Tidy, Owned
  <2>2. CASE \A w \in Workers : worker[w] = "exited"
    <3>1. Cardinality(WorkersToStop) = 0
      <4>1. WorkersToStop = {}
        BY <2>2 DEF WorkersToStop
      <4> QED
        BY <4>1, FS_EmptySet
    <3>2. PillsLeftToPost = 0 /\ PillPerWorker
      BY <1>1 DEF PillsLeftToPost, Shutdown
    <3>3. PillsUnderway = 0
      BY <1>1, <1>2, <3>1, <3>2, AllFinite
      DEF PillPerWorker, PillsUnderway, QueuedPills, TakenPills
    <3>4. QueuedPills = {}
      BY <1>2, <3>3, AllFinite, FS_EmptySet DEF PillsUnderway, QueuedPills, TakenPills
    <3>5. queue = <<>>
      <4>1. queue = <<>> \/ queue[Len(queue)] = Pill
        BY <1>1 DEF Shutdown, Tidy
      <4>2. queue # <<>> => Len(queue) \in DOMAIN queue
        BY <1>2 DEF QueueType
      <4> QED
        BY <3>4, <4>1, <4>2 DEF QueuedPills
    <3> QED
      BY <3>5 DEF Queued
  <2> QED
    BY <1>2, <2>1, <2>2 DEF Gone
<1>5. \A c \in Conns : conn[c] # "accepted" /\ conn'[c] # "accepted"
  BY <1>1, <1>3, <1>4 DEF Shutdown, Owned, Has
<1>6. \A c : ~Queued(c)'
  BY <1>1 DEF Queued
<1> QED
  BY <1>1, <1>3, <1>5, <1>6 DEF Owned, Has

\* The steps in which no connection changes hands.
LEMMA OtherOwned ==
  ASSUME Inv, Owned, Tidy,
         \/ BossInitializes
         \/ TestTerminate \/ AcceptOnShutSocket \/ AcceptFails
         \/ PostPill \/ BeginJoin \/ Join \/ JoinUnsetHandle
         \/ \E t \in Threads : Interrupt(t)
         \/ HandlerReturns
         \/ \E c \in Conns : Connect(c)
         \/ UNCHANGED vars
  PROVE  Owned'
<1> USE LifecycleAssumption DEF At, Goto, BeginTeardown, queueVars, bossVars, signalVars
<1>1. /\ value \in [Threads -> Conns \cup {Pill, NoItem}] /\ Boss \in Threads
      /\ worker \in [Workers -> {"absent", "loop", "get", "got", "processing", "close", "exited"}]
      /\ conn \in [Conns -> {"new", "backlog", "accepted", "closed", "reset"}]
      /\ \A w \in Workers : w \in Threads /\ w # Boss
  BY DEF Inv, QueueType, ControlType, Threads
<1>2. CASE /\ UNCHANGED <<queue, value, worker>>
           /\ (boss # "put" /\ boss' # "put") \/ boss' = boss
           /\ \A c \in Conns : conn'[c] = "accepted" <=> conn[c] = "accepted"
  <2>1. \A c \in Conns : \A t \in Threads : Has(t, c)' <=> Has(t, c)
    BY <1>2 DEF Has, InHand
  <2> QED
    BY <1>2, <2>1, OwnersKept
<1>3. ASSUME NEW succeeds \in BOOLEAN, SetUpSocket(succeeds) PROVE Owned'
  BY <1>2, <1>3 DEF SetUpSocket
<1>4. ASSUME NEW succeeds \in BOOLEAN, SetUpQueue(succeeds) PROVE Owned'
  <2>1. boss = "queue" /\ boss' # "put" /\ UNCHANGED <<value, worker, conn>>
    BY <1>4 DEF SetUpQueue, Q!Open
  <2>2. queue' = queue
    <3>1. queue = <<>>
      BY <2>1 DEF Inv, Phases, Tidy
    <3> QED
      BY <1>4, <3>1 DEF SetUpQueue, Q!Open
  <2> QED
    BY <1>2, <2>1, <2>2
<1>5. CASE CreateWorker
  <2>1. /\ boss = "create" /\ boss' # "put" /\ worker[i] = "absent" /\ i \in Workers
        /\ worker' = [worker EXCEPT ![i] = "loop"]
        /\ UNCHANGED <<queue, value, conn>>
    BY <1>5 DEF CreateWorker, Inv, ControlType, Phases, Workers
  <2>2. \A c \in Conns : \A t \in Threads : Has(t, c)' <=> Has(t, c)
    BY <1>1, <2>1 DEF Has, InHand, Threads
  <2> QED
    BY <2>1, <2>2, OwnersKept
<1>6. CASE CreateFails \/ TestTerminate \/ AcceptOnShutSocket \/ AcceptFails \/ BeginJoin \/ Join
           \/ JoinUnsetHandle
  BY <1>2, <1>6
  DEF CreateFails, TestTerminate, AcceptOnShutSocket, AcceptFails, BeginJoin, Join, JoinUnsetHandle,
    HandleUnset
<1>7. CASE PostPill
  <2>1. /\ boss = "pills" /\ boss' = "pill" /\ value' = [value EXCEPT ![Boss] = Pill]
        /\ UNCHANGED <<queue, worker, conn>>
    BY <1>7 DEF PostPill, Q!CallPut
  <2>2. \A c \in Conns : \A t \in Threads : Has(t, c)' <=> Has(t, c)
    BY <1>1, <2>1 DEF Has, InHand
  <2> QED
    BY <2>1, <2>2, OwnersKept
<1>8. ASSUME NEW t \in Threads, Interrupt(t) PROVE Owned'
  <2>1. \A c \in Conns : conn'[c] = "accepted" <=> conn[c] = "accepted"
    BY <1>8 DEF Interrupt, ShutListener
  <2> QED
    BY <1>2, <1>8, <2>1 DEF Interrupt
<1>9. ASSUME NEW c \in Conns, Connect(c) PROVE Owned'
  <2>1. \A d \in Conns : conn'[d] = "accepted" <=> conn[d] = "accepted"
    BY <1>1, <1>9 DEF Connect
  <2> QED
    BY <1>2, <1>9, <2>1 DEF Connect
<1>10. CASE HandlerReturns \/ UNCHANGED vars
  BY <1>2, <1>10 DEF HandlerReturns, vars
<1> QED
  BY <1>3, <1>4, <1>5, <1>6, <1>7, <1>8, <1>9, <1>10 DEF BossInitializes

LEMMA WorkerOwned ==
  ASSUME Inv, Owned, NEW w \in Workers, WorkerStep(w) \/ GetReturns(w)
  PROVE  Owned'
<1> USE LifecycleAssumption DEF AtWorker, WorkerGoto, queueVars, bossVars, signalVars
<1>1. /\ value \in [Threads -> Conns \cup {Pill, NoItem}] /\ Pill \notin Conns
      /\ worker \in [Workers -> {"absent", "loop", "get", "got", "processing", "close", "exited"}]
      /\ \A v \in Workers : v \in Threads /\ v # Boss
  BY DEF Inv, QueueType, ControlType, Threads
<1>2. CASE WorkerCallsGet(w)
  <2>1. /\ worker[w] = "loop" /\ worker' = [worker EXCEPT ![w] = "get"]
        /\ value' = [value EXCEPT ![w] = NoItem]
        /\ UNCHANGED <<boss, queue, conn>>
    BY <1>2 DEF WorkerCallsGet, Q!CallGet
  <2>2. \A c \in Conns : \A t \in Threads : Has(t, c)' <=> Has(t, c)
    BY <1>1, <2>1 DEF Has, InHand, Threads
  <2> QED
    BY <2>1, <2>2, OwnersKept
<1>3. CASE WorkerTakesPill(w)
  <2>1. /\ worker[w] = "got" /\ value[w] = Pill /\ worker' = [worker EXCEPT ![w] = "exited"]
        /\ UNCHANGED <<boss, queue, value, conn>>
    BY <1>3 DEF WorkerTakesPill
  <2>2. \A c \in Conns : \A t \in Threads : Has(t, c)' <=> Has(t, c)
    BY <1>1, <2>1 DEF Has, InHand, Threads
  <2> QED
    BY <2>1, <2>2, OwnersKept
<1>4. CASE BeginConnection(w) \/ EndConnection(w) \/ SkipConnection(w)
  <2>1. /\ worker[w] \in {"got", "processing"}
        /\ \E to \in {"processing", "close"} : worker' = [worker EXCEPT ![w] = to]
        /\ UNCHANGED <<boss, queue, value, conn>>
    BY <1>4 DEF BeginConnection, EndConnection, SkipConnection
  <2>2. \A c \in Conns : \A t \in Threads : Has(t, c)' <=> Has(t, c)
    BY <1>1, <2>1 DEF Has, InHand, Threads
  <2> QED
    BY <2>1, <2>2, OwnersKept
<1> QED
  BY <1>2, <1>3, <1>4, GetOwned, CloseOwned DEF WorkerStep

LEMMA OwnedStep == ASSUME Inv, Shutdown, [Next]_vars PROVE Owned'
BY OtherOwned, WorkerOwned, AcceptOwned, PutOwned, ReturnOwned
DEF Shutdown, Next, BossStep, BossRuns, BossTearsDown, Stopped

-----------------------------------------------------------------------------
(* The pills.                                                              *)

\* What a step of a worker that takes nothing leaves.
LEMMA QuietTidy ==
  ASSUME Inv, Tidy, UNCHANGED <<boss, i, p_workers, queue>>, value'[Boss] = value[Boss],
         NEW w \in Workers, \A v \in Workers \ {w} : worker'[v] = worker[v] /\ value'[v] = value[v],
         worker[w] \notin {"absent", "exited"}, worker'[w] # "absent",
         worker'[w] \in {"processing", "close"} => value'[w] # Pill,
         boss \notin Teardown \cup Ended => worker'[w] # "exited" /\ ~Has(w, Pill)',
         \A c \in Conns : conn'[c] = "accepted" => conn[c] = "accepted"
  PROVE  Tidy'
<1>1. \A v \in Workers : v # Boss
  BY LifecycleAssumption
<1>2. boss \notin Teardown \cup Ended => \A v \in Workers : worker'[v] # "exited" /\ ~Has(v, Pill)'
  BY <1>1 DEF Tidy, Has, InHand
<1>3. Queued(Pill)' <=> Queued(Pill)
  BY DEF Queued
<1> QED
  BY <1>1, <1>2, <1>3 DEF Tidy

\* initialize() and run(): no pill yet, and no client before all workers are there.
LEMMA StartTidy ==
  ASSUME Inv, Tidy, Inv', BossInitializes \/ BossRuns \/ AcceptFails
  PROVE  Tidy'
<1> USE LifecycleAssumption DEF At, Goto, BeginTeardown, queueVars, bossVars, signalVars
<1>1. /\ value \in [Threads -> Conns \cup {Pill, NoItem}] /\ queue \in Seq(Conns \cup {Pill})
      /\ worker \in [Workers -> {"absent", "loop", "get", "got", "processing", "close", "exited"}]
      /\ conn \in [Conns -> {"new", "backlog", "accepted", "closed", "reset"}]
      /\ Boss \in Threads /\ Pill \notin Conns /\ \A w \in Workers : w \in Threads /\ w # Boss
      /\ i \in 0 .. NumWorkers /\ p_workers \in {0, NumWorkers}
  BY DEF Inv, QueueType, ControlType, Threads
<1>2. /\ boss \notin Teardown \cup Ended
      /\ ~Queued(Pill) /\ \A w \in Workers : worker[w] # "exited" /\ ~Has(w, Pill)
  BY DEF Tidy, Teardown, Ended, BossInitializes, BossRuns, SetUpSocket, SetUpQueue, CreateWorker,
         CreateFails, TestTerminate, Accept, AcceptOnShutSocket, AcceptFails, PutReturns
<1>3. CASE /\ UNCHANGED <<queue, value, worker, conn, p_workers>>
           /\ boss' = boss \/ boss' \in {"accept", "queue", "run"} \/ (boss' = "pills" /\ i' = 0)
           /\ boss' \in {"run", "accept"} => boss \in {"run", "accept", "put"}
           /\ boss' = boss => i' = i
  <2>1. Queued(Pill)' <=> Queued(Pill)
    BY <1>3 DEF Queued
  <2>2. \A w \in Workers : Has(w, Pill)' <=> Has(w, Pill)
    BY <1>1, <1>3 DEF Has, InHand
  <2>3. boss' # "join" /\ (boss' \in Teardown => i' = 0)
    BY <1>2, <1>3 DEF Teardown
  <2>4. boss' \notin {"pill", "put", "create"} \/ boss' = boss
    BY <1>3
  <2> QED
    BY <1>2, <1>3, <2>1, <2>2, <2>3, <2>4 DEF Tidy
<1>4. ASSUME NEW succeeds \in BOOLEAN, SetUpSocket(succeeds) PROVE Tidy'
  BY <1>3, <1>4 DEF SetUpSocket
<1>5. ASSUME NEW succeeds \in BOOLEAN, SetUpQueue(succeeds) PROVE Tidy'
  <2>1. CASE ~succeeds
    BY <1>3, <1>5, <2>1 DEF SetUpQueue
  <2>2. CASE succeeds
    <3>1. /\ boss' = "create" /\ queue' = <<>> /\ p_workers' = NumWorkers /\ i' = i /\ i = 0
          /\ UNCHANGED <<value, worker, conn>>
      BY <1>5, <2>2 DEF SetUpQueue, Q!Open, Inv, Phases
    <3>2. ~Queued(Pill)' /\ \A w \in Workers : Has(w, Pill)' <=> Has(w, Pill)
      BY <1>1, <3>1 DEF Queued, Has, InHand
    <3>3. \A w \in Workers : ~(w < 0)
      BY DEF Workers
    <3>4. Len(queue') = 0
      BY <3>1
    <3> QED
      BY <1>2, <3>1, <3>2, <3>3, <3>4 DEF Tidy, Teardown
  <2> QED
    BY <2>1, <2>2
<1>6. CASE CreateWorker
  <2>1. /\ boss = "create" /\ i \in Workers /\ i' = i + 1 /\ worker[i] = "absent"
        /\ worker' = [worker EXCEPT ![i] = "loop"]
        /\ boss' = IF i + 1 = p_workers THEN "run" ELSE "create"
        /\ p_workers = NumWorkers
        /\ UNCHANGED <<queue, value, conn, p_workers>>
    BY <1>6 DEF CreateWorker, Inv, Phases, ControlType, Workers
  <2>2. /\ Queued(Pill)' <=> Queued(Pill)
        /\ \A w \in Workers : Has(w, Pill)' <=> Has(w, Pill)
    BY <1>1, <2>1 DEF Queued, Has, InHand
  <2>3. ASSUME NEW w \in Workers
        PROVE  /\ worker'[w] # "exited"
               /\ worker'[w] \in {"processing", "close"} => worker[w] = worker'[w]
               /\ w < i + 1 => worker'[w] # "absent"
               /\ worker'[w] = "absent" => worker[w] = "absent"
    <3>1. w < i + 1 => w = i \/ w < i
      BY <2>1 DEF Workers
    <3> QED
      BY <1>1, <1>2, <2>1, <3>1 DEF Tidy
  <2>4. i + 1 = NumWorkers => \A w \in Workers : w < i + 1
    BY <2>1 DEF Workers
  <2>5. boss' \notin Teardown \cup {"put"}
    BY <2>1 DEF Teardown
  <2>6. (\E w \in Workers : worker'[w] = "absent") => \A c \in Conns : conn'[c] # "accepted"
    BY <2>1, <2>3 DEF Tidy
  <2>7. /\ \A j, k \in 1 .. Len(queue') : j < k /\ queue'[j] = Pill => queue'[k] = Pill
        /\ \A w \in Workers : worker'[w] \in {"processing", "close"} => value'[w] # Pill
        /\ p_workers' = 0 => queue' = <<>>
    BY <2>1, <2>3 DEF Tidy
  <2>8. boss' \in {"run", "accept", "put"} => \A w \in Workers : worker'[w] # "absent"
    BY <2>1, <2>3, <2>4
  <2>9. boss' = "create" => \A w \in Workers : w < i' => worker'[w] # "absent"
    BY <2>1, <2>3
  <2> QED
    BY <1>2, <2>2, <2>3, <2>5, <2>6, <2>7, <2>8, <2>9 DEF Tidy, Teardown
<1>7. CASE CreateFails \/ TestTerminate \/ AcceptOnShutSocket \/ AcceptFails
  BY <1>3, <1>7 DEF CreateFails, TestTerminate, AcceptOnShutSocket, AcceptFails
<1>8. ASSUME NEW c \in Conns, Accept(c) PROVE Tidy'
  <2>1. /\ boss = "accept" /\ boss' = "put" /\ value' = [value EXCEPT ![Boss] = c]
        /\ UNCHANGED <<i, p_workers, worker, queue>>
    BY <1>8 DEF Accept, Q!CallPut
  <2>2. /\ Queued(Pill)' <=> Queued(Pill)
        /\ \A w \in Workers : value'[w] = value[w] /\ (Has(w, Pill)' <=> Has(w, Pill))
    BY <1>1, <2>1 DEF Queued, Has, InHand
  <2>3. value'[Boss] \in Conns
    BY <1>1, <2>1
  <2> QED
    BY <1>2, <2>1, <2>2, <2>3 DEF Tidy, Teardown
<1>9. CASE PutReturns
  <2>1. /\ boss = "put" /\ boss' = "run" /\ value[Boss] \in Conns
        /\ queue' = Append(queue, value[Boss]) /\ value' = [value EXCEPT ![Boss] = NoItem]
        /\ UNCHANGED <<i, p_workers, worker, conn>>
    BY <1>9 DEF PutReturns, Q!Put, Tidy
  <2>2. /\ Len(queue) \in Nat /\ Len(queue') = Len(queue) + 1
        /\ \A k \in 1 .. Len(queue) : queue'[k] = queue[k]
        /\ queue'[Len(queue) + 1] # Pill
    BY <1>1, <2>1
  <2>3. \A k \in 1 .. Len(queue') : queue'[k] # Pill
    BY <1>2, <2>2 DEF Queued
  <2>4. \A w \in Workers : value'[w] = value[w] /\ (Has(w, Pill)' <=> Has(w, Pill))
    BY <1>1, <2>1 DEF Has, InHand
  <2>5. p_workers # 0
    BY <2>1 DEF Inv, Phases
  <2> QED
    BY <1>2, <2>1, <2>3, <2>4, <2>5 DEF Tidy, Teardown, Queued
<1> QED
  BY <1>4, <1>5, <1>6, <1>7, <1>8, <1>9 DEF BossInitializes, BossRuns

\* teardown(): pills go behind what is queued.
LEMMA TeardownTidy == ASSUME Inv, Tidy, BossTearsDown PROVE Tidy'
<1> USE LifecycleAssumption DEF At, Goto, queueVars, bossVars, signalVars
<1>1. /\ value \in [Threads -> Conns \cup {Pill, NoItem}] /\ queue \in Seq(Conns \cup {Pill})
      /\ Boss \in Threads /\ \A w \in Workers : w \in Threads /\ w # Boss
      /\ i \in 0 .. NumWorkers /\ p_workers \in {0, NumWorkers}
  BY DEF Inv, QueueType, ControlType, Threads
<1>2. boss' \in Teardown \cup Ended
  BY DEF BossTearsDown, PostPill, PillPosted, BeginJoin, Join, JoinUnsetHandle, HandleUnset, Return, Teardown,
    Ended
<1>3. CASE PostPill
  <2>1. /\ boss = "pills" /\ boss' = "pill" /\ value' = [value EXCEPT ![Boss] = Pill]
        /\ UNCHANGED <<i, p_workers, worker, queue, conn>>
    BY <1>3 DEF PostPill, Q!CallPut
  <2>2. value'[Boss] = Pill /\ \A w \in Workers : value'[w] = value[w]
    BY <1>1, <2>1
  <2> QED
    BY <1>2, <2>1, <2>2 DEF Tidy, Teardown, Ended
<1>4. CASE PillPosted
  <2>1. /\ boss = "pill" /\ boss' = "pills" /\ value[Boss] = Pill /\ i' = i + 1
        /\ queue' = Append(queue, Pill) /\ value' = [value EXCEPT ![Boss] = NoItem]
        /\ UNCHANGED <<p_workers, worker, conn>>
    BY <1>4 DEF PillPosted, Q!Put, Tidy
  <2>2. /\ Len(queue) \in Nat /\ Len(queue') = Len(queue) + 1
        /\ \A k \in 1 .. Len(queue) : queue'[k] = queue[k]
        /\ queue'[Len(queue')] = Pill
    BY <1>1, <2>1
  <2>3. ASSUME NEW j \in 1 .. Len(queue'), NEW k \in 1 .. Len(queue'), j < k, queue'[j] = Pill
        PROVE  queue'[k] = Pill
    <3>1. CASE k = Len(queue')
      BY <2>2, <3>1
    <3>2. CASE k # Len(queue')
      <4>1. k \in 1 .. Len(queue) /\ j \in 1 .. Len(queue)
        BY <2>2, <2>3, <3>2
      <4> QED
        BY <2>2, <2>3, <4>1 DEF Tidy
    <3> QED
      BY <3>1, <3>2
  <2>4. \A w \in Workers : value'[w] = value[w]
    BY <1>1, <2>1
  <2>5. p_workers # 0
    BY <1>1, <2>1 DEF Inv, Phases
  <2> QED
    BY <1>2, <2>1, <2>2, <2>3, <2>4, <2>5 DEF Tidy, Teardown, Ended
<1>5. CASE BeginJoin
  <2>1. /\ boss = "pills" /\ boss' = "join" /\ i = p_workers
        /\ UNCHANGED <<p_workers, worker, queue, value, conn>>
    BY <1>5 DEF BeginJoin, PillsToPost
  <2>2. queue = <<>> \/ queue[Len(queue)] = Pill
    BY <1>1, <2>1 DEF Tidy, Teardown
  <2> QED
    BY <1>2, <2>1, <2>2 DEF Tidy
<1>6. CASE Join \/ JoinUnsetHandle
  <2>1. /\ boss = "join" /\ boss' \in {"join", "crashed"}
        /\ UNCHANGED <<p_workers, worker, queue, value, conn>>
    BY <1>6 DEF Join, JoinUnsetHandle,
    HandleUnset
  <2> QED
    BY <1>2, <2>1 DEF Tidy
<1>7. CASE Return
  <2>1. /\ boss' = "returned" /\ queue' = <<>> /\ Len(queue') = 0
        /\ UNCHANGED <<p_workers, worker, value>>
        /\ \A c \in Conns : conn'[c] = "accepted" => conn[c] = "accepted"
    BY <1>7 DEF Return, Q!Close
  <2> QED
    BY <1>2, <2>1 DEF Tidy, Teardown
<1> QED
  BY <1>3, <1>4, <1>5, <1>6, <1>7 DEF BossTearsDown

LEMMA WorkerTidy ==
  ASSUME Inv, Tidy, NEW w \in Workers, WorkerStep(w) \/ GetReturns(w)
  PROVE  Tidy'
<1> USE LifecycleAssumption DEF AtWorker, WorkerGoto, Exited, queueVars, bossVars, signalVars
<1>1. /\ value \in [Threads -> Conns \cup {Pill, NoItem}] /\ queue \in Seq(Conns \cup {Pill})
      /\ worker \in [Workers -> {"absent", "loop", "get", "got", "processing", "close", "exited"}]
      /\ conn \in [Conns -> {"new", "backlog", "accepted", "closed", "reset"}]
      /\ w \in Threads /\ w # Boss /\ Boss \in Threads
      /\ \A v \in Workers : v \in Threads /\ v # Boss
  BY DEF Inv, QueueType, ControlType, Threads
<1>2. CASE WorkerCallsGet(w)
  <2>1. /\ worker[w] = "loop" /\ worker' = [worker EXCEPT ![w] = "get"]
        /\ value' = [value EXCEPT ![w] = NoItem]
        /\ UNCHANGED <<boss, i, p_workers, queue, conn>>
    BY <1>2 DEF WorkerCallsGet, Q!CallGet
  <2>2. /\ value'[Boss] = value[Boss] /\ worker'[w] = "get" /\ ~Has(w, Pill)'
        /\ \A v \in Workers \ {w} : worker'[v] = worker[v] /\ value'[v] = value[v]
    BY <1>1, <2>1 DEF Has, InHand
  <2> QED
    BY <2>1, <2>2, QuietTidy
<1>3. CASE WorkerTakesPill(w)
  <2>1. /\ worker[w] = "got" /\ value[w] = Pill /\ worker' = [worker EXCEPT ![w] = "exited"]
        /\ UNCHANGED <<boss, i, p_workers, queue, value, conn>>
    BY <1>3 DEF WorkerTakesPill
  <2>2. worker'[w] = "exited" /\ \A v \in Workers \ {w} : worker'[v] = worker[v]
    BY <1>1, <2>1
  <2>3. boss \in Teardown \cup Ended
    BY <1>1, <2>1 DEF Tidy, Has, InHand
  <2> QED
    BY <2>1, <2>2, <2>3, QuietTidy
<1>4. CASE BeginConnection(w) \/ EndConnection(w) \/ SkipConnection(w)
  <2>1. /\ (worker[w] = "got" /\ value[w] # Pill) \/ worker[w] = "processing"
        /\ \E to \in {"processing", "close"} : worker' = [worker EXCEPT ![w] = to]
        /\ UNCHANGED <<boss, i, p_workers, queue, value, conn>>
    BY <1>4 DEF BeginConnection, EndConnection, SkipConnection
  <2>2. value[w] # Pill
    BY <2>1 DEF Tidy
  <2>3. /\ worker'[w] \in {"processing", "close"} /\ ~Has(w, Pill)'
        /\ \A v \in Workers \ {w} : worker'[v] = worker[v]
    BY <1>1, <2>1, <2>2 DEF Has, InHand
  <2> QED
    BY <2>1, <2>2, <2>3, QuietTidy
<1>5. CASE CloseConnection(w)
  <2>1. /\ worker[w] = "close" /\ worker' = [worker EXCEPT ![w] = "loop"]
        /\ conn' = [conn EXCEPT ![value[w]] = "closed"]
        /\ UNCHANGED <<boss, i, p_workers, queue, value>>
    BY <1>5 DEF CloseConnection
  <2>2. /\ worker'[w] = "loop" /\ ~Has(w, Pill)'
        /\ \A v \in Workers \ {w} : worker'[v] = worker[v]
        /\ \A c \in Conns : conn'[c] = "accepted" => conn[c] = "accepted"
    BY <1>1, <2>1 DEF Has, InHand
  <2> QED
    BY <2>1, <2>2, QuietTidy
<1>6. CASE GetReturns(w)
  <2>1. /\ worker[w] = "get" /\ worker' = [worker EXCEPT ![w] = "got"]
        /\ queue # <<>> /\ queue' = Tail(queue) /\ value' = [value EXCEPT ![w] = Head(queue)]
        /\ UNCHANGED <<boss, i, p_workers, conn>>
    BY <1>6 DEF GetReturns, Q!Get
  <2>2. /\ Len(queue) \in Nat \ {0} /\ Len(queue') = Len(queue) - 1
        /\ \A k \in 1 .. Len(queue) - 1 : queue'[k] = queue[k + 1]
        /\ Head(queue) = queue[1]
    BY <1>1, <2>1
  <2>3. /\ value'[Boss] = value[Boss] /\ worker'[w] = "got"
        /\ \A v \in Workers \ {w} : worker'[v] = worker[v] /\ value'[v] = value[v]
    BY <1>1, <2>1
  <2>4. ASSUME ~Queued(Pill) PROVE ~Queued(Pill)' /\ ~Has(w, Pill)'
    <3>1. \A k \in 1 .. Len(queue) : queue[k] # Pill
      BY <2>4 DEF Queued
    <3>2. \A k \in 1 .. Len(queue') : queue'[k] # Pill
      BY <2>2, <3>1
    <3>3. value'[w] # Pill
      BY <1>1, <2>1, <2>2, <3>1
    <3> QED
      BY <3>2, <3>3 DEF Queued, Has
  <2>5. boss \notin Teardown \cup Ended =>
          ~Queued(Pill)' /\ \A v \in Workers : worker'[v] # "exited" /\ ~Has(v, Pill)'
    BY <1>1, <2>3, <2>4 DEF Tidy, Has, InHand
  <2>6. ASSUME NEW j \in 1 .. Len(queue'), NEW k \in 1 .. Len(queue'), j < k, queue'[j] = Pill
        PROVE  queue'[k] = Pill
    <3>1. /\ j + 1 \in 1 .. Len(queue) /\ k + 1 \in 1 .. Len(queue) /\ j + 1 < k + 1
          /\ queue[j + 1] = Pill /\ queue'[k] = queue[k + 1]
      BY <2>2, <2>6
    <3> QED
      BY <3>1 DEF Tidy
  <2>7. queue' = <<>> \/ queue'[Len(queue')] = queue[Len(queue)]
    <3>1. CASE Len(queue') = 0
      BY <1>1, <2>1, <3>1, EmptySeq
    <3>2. CASE Len(queue') # 0
      BY <2>2, <3>2
    <3> QED
      BY <3>1, <3>2
  <2>8. p_workers' # 0
    BY <2>1 DEF Tidy
  <2> QED
    BY <2>1, <2>3, <2>5, <2>6, <2>7, <2>8 DEF Tidy
<1> QED
  BY <1>2, <1>3, <1>4, <1>5, <1>6 DEF WorkerStep

LEMMA OutsideTidy ==
  ASSUME Inv, Tidy,
         \/ \E t \in Threads : Interrupt(t)
         \/ HandlerReturns
         \/ \E c \in Conns : Connect(c)
         \/ UNCHANGED vars
  PROVE  Tidy'
<1>1. UNCHANGED <<boss, i, p_workers, queue, value, worker>>
  BY DEF Interrupt, HandlerReturns, Connect, vars, queueVars, bossVars
<1>2. ASSUME NEW c \in Conns, conn'[c] = "accepted" PROVE conn[c] = "accepted"
  BY <1>2 DEF Interrupt, ShutListener, HandlerReturns, Connect, vars, Inv, ControlType
<1>3. Queued(Pill)' <=> Queued(Pill)
  BY <1>1 DEF Queued
<1>4. \A w \in Workers : Has(w, Pill)' <=> Has(w, Pill)
  BY <1>1 DEF Has, InHand
<1> QED
  BY <1>1, <1>2, <1>3, <1>4 DEF Tidy

LEMMA TidyStep == ASSUME Inv, Tidy, Inv', [Next]_vars PROVE Tidy'
BY StartTidy, TeardownTidy, WorkerTidy, OutsideTidy DEF Next, BossStep, Stopped

-----------------------------------------------------------------------------
(* One pill for each worker to stop.                                       *)

LEMMA PillsStep == ASSUME Inv, Shutdown, Inv', [Next]_vars PROVE PillPerWorker'
<1> USE LifecycleAssumption
    DEF At, Goto, BeginTeardown, AtWorker, WorkerGoto, Exited, queueVars, bossVars, signalVars
<1>0. /\ PillPerWorker <=>
           (boss \in Teardown =>
              PillsLeftToPost + (Cardinality(QueuedPills) + Cardinality(TakenPills))
                = Cardinality(WorkersToStop))
      /\ PillPerWorker' <=>
           (boss' \in Teardown =>
              PillsLeftToPost' + (Cardinality(QueuedPills') + Cardinality(TakenPills'))
                = Cardinality(WorkersToStop'))
  BY DEF PillPerWorker, PillsUnderway, QueuedPills, TakenPills, Teardown
<1>1. /\ value \in [Threads -> Conns \cup {Pill, NoItem}] /\ queue \in Seq(Conns \cup {Pill})
      /\ worker \in [Workers -> {"absent", "loop", "get", "got", "processing", "close", "exited"}]
      /\ Boss \in Threads /\ \A w \in Workers : w \in Threads /\ w # Boss
      /\ i \in 0 .. NumWorkers /\ p_workers \in {0, NumWorkers} /\ NumWorkers \in Nat
      /\ QueueType /\ Tidy /\ PillPerWorker /\ NoItem # Pill
  BY DEF Inv, QueueType, ControlType, Threads, Shutdown
<1>2. CASE boss' \notin Teardown
  BY <1>2 DEF PillPerWorker, Teardown
<1>3. CASE /\ boss' \in Teardown => boss \in Teardown
           /\ UNCHANGED <<queue, worker, p_workers>>
           /\ \A w \in Workers : value'[w] = value[w]
           /\ PillsLeftToPost' = PillsLeftToPost
  <2>1. QueuedPills' = QueuedPills /\ TakenPills' = TakenPills /\ WorkersToStop' = WorkersToStop
    BY <1>1, <1>3 DEF QueuedPills, TakenPills, WorkersToStop, InHand
  <2> QED
    BY <1>1, <1>3, <2>1, PillsKept
\* The step that begins teardown.
<1>4. CASE /\ boss \notin Teardown \cup Ended /\ boss' = "pills" /\ i' = 0
           /\ UNCHANGED <<queue, worker, value, p_workers>>
  <2>1. QueuedPills' = {} /\ TakenPills' = {}
    BY <1>1, <1>4 DEF Tidy, Queued, Has, QueuedPills, TakenPills, InHand
  <2>2. WorkersToStop' = 0 .. p_workers - 1
    BY <1>1, <1>4 DEF Tidy, WorkersToStop, Workers
  <2>3. Cardinality(WorkersToStop') = p_workers
    <3>1. 0 \in Int /\ p_workers - 1 \in Int
      BY <1>1
    <3>2. Cardinality(0 .. p_workers - 1) = IF 0 > p_workers - 1 THEN 0 ELSE p_workers - 1 - 0 + 1
      BY <3>1, FS_Interval
    <3> QED
      BY <1>1, <2>2, <3>2
  <2>4. Cardinality(QueuedPills') = 0 /\ Cardinality(TakenPills') = 0
    BY <2>1, FS_EmptySet
  <2>5. PillsLeftToPost' = p_workers
    BY <1>1, <1>4 DEF PillsLeftToPost
  <2> QED
    BY <1>0, <1>1, <2>3, <2>4, <2>5
<1>5. CASE BossInitializes \/ BossRuns \/ AcceptFails
  <2>1. CASE \/ TestTerminate \/ CreateFails
             \/ \E succeeds \in BOOLEAN : SetUpSocket(succeeds) \/ SetUpQueue(succeeds)
    BY <1>2, <1>4, <2>1
    DEF TestTerminate, CreateFails, SetUpSocket, SetUpQueue, Teardown, Ended
  <2>2. CASE \/ CreateWorker \/ AcceptOnShutSocket \/ AcceptFails \/ PutReturns
             \/ \E c \in Conns : Accept(c)
    BY <1>2, <2>2 DEF CreateWorker, AcceptOnShutSocket, AcceptFails, PutReturns, Accept, Teardown
  <2> QED
    BY <1>5, <2>1, <2>2 DEF BossInitializes, BossRuns
<1>6. CASE BossTearsDown
  <2>1. CASE PostPill
    BY <1>1, <1>3, <2>1 DEF PostPill, Q!CallPut, PillsLeftToPost, Teardown
  <2>2. CASE PillPosted
    <3>1. /\ boss = "pill" /\ boss' = "pills" /\ i' = i + 1 /\ queue' = Append(queue, Pill)
          /\ \A w \in Workers : value'[w] = value[w]
          /\ UNCHANGED <<worker, p_workers>>
      BY <1>1, <2>2 DEF PillPosted, Q!Put, Tidy
    <3>2. Cardinality(QueuedPills') = Cardinality(QueuedPills) + 1
      BY <1>1, <3>1, PutPill
    <3>3. TakenPills' = TakenPills /\ WorkersToStop' = WorkersToStop
      BY <1>1, <3>1 DEF TakenPills, WorkersToStop, InHand
    <3>4. PillsLeftToPost' = PillsLeftToPost - 1 /\ PillsLeftToPost \in Int
      BY <1>1, <3>1 DEF PillsLeftToPost
    <3> QED
      <4>1. PillsLeftToPost + (Cardinality(QueuedPills) + Cardinality(TakenPills))
              = Cardinality(WorkersToStop)
        BY <1>0, <1>1, <3>1 DEF Teardown
      <4>2. PillsLeftToPost' + (Cardinality(QueuedPills') + Cardinality(TakenPills'))
              = Cardinality(WorkersToStop')
        BY <1>1, <3>2, <3>3, <3>4, <4>1, AllFinite
      <4> QED
        BY <1>0, <4>2
  <2>3. CASE BeginJoin
    BY <1>1, <1>3, <2>3 DEF BeginJoin, PillsToPost, PillsLeftToPost, Teardown
  <2>4. CASE Join \/ JoinUnsetHandle
    BY <1>1, <1>2, <1>3, <2>4 DEF Join, JoinUnsetHandle, HandleUnset, PillsLeftToPost, Teardown
  <2>5. CASE Return
    BY <1>2, <2>5 DEF Return, Teardown
  <2> QED
    BY <1>6, <2>1, <2>2, <2>3, <2>4, <2>5 DEF BossTearsDown
<1>7. ASSUME NEW w \in Workers, WorkerStep(w) \/ GetReturns(w) PROVE PillPerWorker'
  <2>1. PillsLeftToPost' = PillsLeftToPost /\ boss' = boss
    BY <1>7 DEF WorkerStep, WorkerCallsGet, GetReturns, WorkerTakesPill, BeginConnection,
                EndConnection, SkipConnection, CloseConnection, PillsLeftToPost
  <2>2. CASE /\ queue' = queue /\ p_workers' = p_workers
             /\ \A v \in Workers \ {w} : worker'[v] = worker[v] /\ value'[v] = value[v]
             /\ worker[w] # "exited" /\ worker'[w] # "exited"
             /\ ~Has(w, Pill) /\ ~Has(w, Pill)'
    <3>1. QueuedPills' = QueuedPills
      BY <2>2 DEF QueuedPills
    <3>2. TakenPills' = TakenPills
      BY <1>1, <2>2 DEF TakenPills, InHand, Has
    <3>3. WorkersToStop' = WorkersToStop
      BY <2>2 DEF WorkersToStop
    <3> QED
      BY <1>1, <2>1, <3>1, <3>2, <3>3, PillsKept
  <2>3. CASE WorkerCallsGet(w)
    BY <1>1, <2>2, <2>3 DEF WorkerCallsGet, Q!CallGet, Has, InHand
  <2>4. CASE BeginConnection(w) \/ EndConnection(w) \/ SkipConnection(w) \/ CloseConnection(w)
    <3>1. /\ (worker[w] = "got" /\ value[w] # Pill) \/ worker[w] \in {"processing", "close"}
          /\ \E to \in {"processing", "close", "loop"} : worker' = [worker EXCEPT ![w] = to]
          /\ UNCHANGED <<queue, value, p_workers>>
      BY <2>4 DEF BeginConnection, EndConnection, SkipConnection, CloseConnection
    <3>2. value[w] # Pill
      BY <1>1, <3>1 DEF Tidy
    <3> QED
      BY <1>1, <2>2, <3>1, <3>2 DEF Has
  <2>5. CASE WorkerTakesPill(w)
    <3>1. /\ worker[w] = "got" /\ value[w] = Pill /\ worker' = [worker EXCEPT ![w] = "exited"]
          /\ UNCHANGED <<queue, value, p_workers>>
      BY <2>5 DEF WorkerTakesPill
    <3>2. p_workers = NumWorkers
      BY <1>1, <3>1 DEF Inv, Phases
    <3>3. w \in TakenPills /\ TakenPills' = TakenPills \ {w}
      BY <1>1, <3>1 DEF TakenPills, InHand
    <3>4. w \in WorkersToStop /\ WorkersToStop' = WorkersToStop \ {w}
      BY <1>1, <3>1, <3>2 DEF WorkersToStop, Workers
    <3>5. QueuedPills' = QueuedPills
      BY <3>1 DEF QueuedPills
    <3>6. /\ Cardinality(TakenPills') = Cardinality(TakenPills) - 1
          /\ Cardinality(WorkersToStop') = Cardinality(WorkersToStop) - 1
      BY <1>1, <3>3, <3>4, AllFinite, FS_RemoveElement
    <3>7. boss \in Teardown => PillsLeftToPost \in Int
      BY <1>1 DEF PillsLeftToPost
    <3> QED
      BY <1>0, <1>1, <2>1, <3>5, <3>6, <3>7, AllFinite
  <2>6. CASE GetReturns(w)
    <3>1. /\ worker[w] = "get" /\ worker' = [worker EXCEPT ![w] = "got"]
          /\ queue # <<>> /\ queue' = Tail(queue) /\ value' = [value EXCEPT ![w] = Head(queue)]
          /\ p_workers' = p_workers
      BY <2>6 DEF GetReturns, Q!Get
    <3>2. Cardinality(QueuedPills') =
            IF Head(queue) = Pill THEN Cardinality(QueuedPills) - 1 ELSE Cardinality(QueuedPills)
      BY <1>1, <3>1, GetPill
    <3>3. w \notin TakenPills /\ TakenPills' = IF Head(queue) = Pill THEN TakenPills \cup {w} ELSE TakenPills
      BY <1>1, <3>1 DEF TakenPills, InHand
    <3>4. Cardinality(TakenPills') =
            IF Head(queue) = Pill THEN Cardinality(TakenPills) + 1 ELSE Cardinality(TakenPills)
      BY <1>1, <3>3, AllFinite, FS_AddElement
    <3>5. WorkersToStop' = WorkersToStop
      BY <1>1, <3>1 DEF WorkersToStop
    <3>6. boss \in Teardown => PillsLeftToPost \in Int
      BY <1>1 DEF PillsLeftToPost
    <3> QED
      BY <1>0, <1>1, <2>1, <3>2, <3>4, <3>5, <3>6, AllFinite
  <2> QED
    BY <1>7, <2>3, <2>4, <2>5, <2>6 DEF WorkerStep
<1>8. CASE \/ \E t \in Threads : Interrupt(t)
           \/ HandlerReturns
           \/ \E c \in Conns : Connect(c)
           \/ UNCHANGED vars
  BY <1>3, <1>8 DEF Interrupt, HandlerReturns, Connect, vars, PillsLeftToPost
<1> QED
  BY <1>5, <1>6, <1>7, <1>8 DEF Next, BossStep, Stopped

LEMMA InitShutdown == Init => Shutdown
<1> SUFFICES ASSUME Init PROVE Shutdown
  OBVIOUS
<1>1. /\ boss = "socket" /\ queue = <<>> /\ Len(queue) = 0
      /\ \A w \in Workers : worker[w] = "absent"
      /\ \A c \in Conns : conn[c] = "new"
  BY DEF Init, Q!Init
<1>2. \A t \in Threads : ~InHand(t)
  BY <1>1 DEF InHand, Threads
<1>3. Owned
  BY <1>1, <1>2 DEF Owned, Has, Queued
<1>4. Tidy
  BY <1>1 DEF Tidy, Has, Queued, Teardown, InHand
<1>5. PillPerWorker
  BY <1>1 DEF PillPerWorker
<1> QED
  BY <1>3, <1>4, <1>5 DEF Shutdown

LEMMA ShutdownHolds == Spec => []Shutdown
<1>1. ASSUME Inv, Shutdown, Inv', [Next]_vars PROVE Shutdown'
  BY <1>1, OwnedStep, TidyStep, PillsStep DEF Shutdown
<1> QED
  BY InitShutdown, <1>1, InvHolds, PTL DEF Spec

-----------------------------------------------------------------------------
(* The theorems.                                                           *)

(***************************************************************************)
(* proxy.c, teardown: however far initialize came and whenever SIGINT is   *)
(* delivered, the pills that are posted, queued or taken are one for each  *)
(* worker that has not returned, so none waits for ever and none is left.  *)
(***************************************************************************)
THEOREM OnePillPerWorker == Spec => []PillPerWorker
<1>1. Shutdown => PillPerWorker
  BY DEF Shutdown
<1> QED
  BY <1>1, ShutdownHolds, PTL

(***************************************************************************)
(* Between accept and close a connection of the proxy is in one place, and *)
(* ml_safeq_teardown drops none.                                           *)
(***************************************************************************)
THEOREM ConnectionHasOneOwner == Spec => []OneOwner
<1>1. ASSUME Inv, Owned, NEW c \in Conns
      PROVE  Owners(c) = IF conn[c] = "accepted" THEN 1 ELSE 0
  <2> DEFINE hands == {t \in Threads : InHand(t) /\ value[t] = c}
             places == {k \in DOMAIN queue : queue[k] = c}
  <2>1. \A t : t \in hands <=> t \in Threads /\ Has(t, c)
    BY DEF Has
  <2>2. \A k : k \in places <=> k \in 1 .. Len(queue) /\ queue[k] = c
    BY <1>1 DEF Inv, QueueType
  <2>3. Cardinality({}) = 0 /\ \A x : Cardinality({x}) = 1
    BY FS_EmptySet, FS_Singleton
  <2>4. Owners(c) = Cardinality(hands) + Cardinality(places)
    BY DEF Owners
  <2> HIDE DEF hands, places
  <2>5. CASE conn[c] # "accepted"
    <3>1. hands = {} /\ places = {}
      BY <1>1, <2>1, <2>2, <2>5 DEF Owned, Queued
    <3> QED
      BY <2>3, <2>4, <2>5, <3>1
  <2>6. CASE conn[c] = "accepted" /\ Queued(c)
    <3>1. PICK k \in 1 .. Len(queue) : queue[k] = c
      BY <2>6 DEF Queued
    <3>2. hands = {} /\ places = {k}
      BY <1>1, <2>1, <2>2, <2>6, <3>1 DEF Owned
    <3>3. Cardinality(hands) = 0 /\ Cardinality(places) = 1
      BY <2>3, <3>2
    <3> QED
      BY <2>4, <2>6, <3>3
  <2>7. CASE conn[c] = "accepted" /\ ~Queued(c)
    <3>1. PICK t \in Threads : Has(t, c)
      BY <1>1, <2>7 DEF Owned
    <3>2. hands = {t} /\ places = {}
      BY <1>1, <2>1, <2>2, <2>7, <3>1 DEF Owned, Queued
    <3>3. Cardinality(hands) = 1 /\ Cardinality(places) = 0
      BY <2>3, <3>2
    <3> QED
      BY <2>4, <2>7, <3>3
  <2> QED
    BY <2>5, <2>6, <2>7
<1>2. Inv /\ Shutdown => OneOwner
  BY <1>1 DEF OneOwner, Shutdown
<1> QED
  BY <1>2, InvHolds, ShutdownHolds, PTL

-----------------------------------------------------------------------------
(***************************************************************************)
(* The queue is used as BoundedFifo asks, so that no guard of BoundedFifo  *)
(* keeps the proxy from a call its code makes.  Calls says who is inside   *)
(* ml_safeq_put or ml_safeq_get, and when the array is there.              *)
(***************************************************************************)
Calls ==
  /\ \A t \in Threads :
       t \in pending <=> IF t = Boss THEN boss \in {"put", "pill"} ELSE worker[t] = "get"
  /\ open = (p_workers # 0 /\ boss # "returned")

\* Nobody calls before the queue exists.
LEMMA InitCalls == Init => Calls
BY LifecycleAssumption DEF Init, Q!Init, Calls, Threads

\* Steps that leave the queue alone, at labels where no call is in progress.
LEMMA NoCall ==
  ASSUME Inv, Calls, UNCHANGED queueVars,
         \/ UNCHANGED bossVars
         \/ /\ boss \notin {"put", "pill"} /\ boss' \notin {"put", "pill"}
            /\ p_workers' = p_workers /\ boss # "returned" /\ boss' # "returned",
         \A w \in Workers : worker'[w] = "get" <=> worker[w] = "get"
  PROVE  Calls'
<1>1. \A t \in Threads : t = Boss \/ t \in Workers
  BY DEF Threads
<1> QED
  BY <1>1 DEF Calls, queueVars, bossVars

\* proxy.c.
LEMMA BossCalls == ASSUME Inv, Calls, BossStep \/ AcceptFails PROVE Calls'
<1> USE LifecycleAssumption DEF At, Goto, BeginTeardown, queueVars, bossVars, signalVars
<1>1. /\ worker \in [Workers -> {"absent", "loop", "get", "got", "processing", "close", "exited"}]
      /\ Boss \in Threads /\ Boss \notin Workers
      /\ \A t \in Threads : t = Boss \/ t \in Workers
      /\ boss \in {"socket", "queue"} => p_workers = 0
      /\ NumWorkers # 0
  BY DEF Inv, ControlType, Threads, Phases
<1>2. CASE \/ \E succeeds \in BOOLEAN : SetUpSocket(succeeds)
           \/ CreateFails \/ TestTerminate \/ AcceptOnShutSocket \/ AcceptFails
           \/ BeginJoin \/ Join \/ JoinUnsetHandle
  BY <1>2, NoCall
  DEF SetUpSocket, CreateFails, TestTerminate, AcceptOnShutSocket, AcceptFails, BeginJoin, Join,
      JoinUnsetHandle,
    HandleUnset
<1>3. CASE CreateWorker
  <2>1. i \in Workers /\ worker' = [worker EXCEPT ![i] = "loop"] /\ worker[i] = "absent"
    BY <1>3 DEF CreateWorker, Inv, ControlType, Phases, Workers
  <2>2. \A w \in Workers : worker'[w] = "get" <=> worker[w] = "get"
    BY <1>1, <2>1
  <2> QED
    BY <1>3, <2>2, NoCall DEF CreateWorker
<1>4. ASSUME NEW succeeds \in BOOLEAN, SetUpQueue(succeeds) PROVE Calls'
  <2>1. CASE succeeds
    <3>1. /\ open' = TRUE /\ pending' = pending /\ p_workers' = NumWorkers /\ worker' = worker
          /\ boss = "queue" /\ boss' = "create"
      BY <1>4, <2>1 DEF SetUpQueue, Q!Open
    <3> QED
      BY <1>1, <3>1 DEF Calls
  <2>2. CASE ~succeeds
    BY <1>4, <2>2, NoCall DEF SetUpQueue
  <2> QED
    BY <2>1, <2>2
<1>5. CASE PostPill \/ \E c \in Conns : Accept(c)
  <2>1. /\ pending' = pending \cup {Boss} /\ boss' \in {"put", "pill"}
        /\ boss # "returned" /\ UNCHANGED <<open, p_workers, worker>>
    BY <1>5 DEF PostPill, Accept, Q!CallPut
  <2> QED
    BY <1>1, <2>1 DEF Calls
<1>6. CASE PutReturns \/ PillPosted
  <2>1. /\ pending' = pending \ {Boss} /\ boss' \in {"run", "pills"}
        /\ boss # "returned" /\ UNCHANGED <<open, p_workers, worker>>
    BY <1>6 DEF PutReturns, PillPosted, Q!Put
  <2> QED
    BY <1>1, <2>1 DEF Calls
<1>7. CASE Return
  <2>1. /\ pending' = pending /\ open' = FALSE /\ boss = "join" /\ boss' = "returned"
        /\ worker' = worker
    BY <1>7 DEF Return, Q!Close
  <2> QED
    BY <1>1, <2>1 DEF Calls
<1> QED
  BY <1>2, <1>3, <1>4, <1>5, <1>6, <1>7 DEF BossStep, BossInitializes, BossRuns, BossTearsDown

\* ml_worker().
LEMMA WorkerCalls ==
  ASSUME Inv, Calls, NEW w \in Workers, WorkerStep(w) \/ GetReturns(w)
  PROVE  Calls'
<1> USE LifecycleAssumption DEF AtWorker, WorkerGoto, queueVars, bossVars
<1>1. /\ worker \in [Workers -> {"absent", "loop", "get", "got", "processing", "close", "exited"}]
      /\ w \in Threads /\ w # Boss
      /\ \A t \in Threads : t = Boss \/ t \in Workers
  BY DEF Inv, ControlType, Threads
<1>2. CASE \/ WorkerTakesPill(w) \/ BeginConnection(w) \/ EndConnection(w) \/ SkipConnection(w)
           \/ CloseConnection(w)
  <2>1. /\ worker[w] # "get" /\ UNCHANGED <<queueVars, bossVars>>
        /\ \E to \in {"loop", "processing", "close", "exited"} : worker' = [worker EXCEPT ![w] = to]
    BY <1>2 DEF WorkerTakesPill, BeginConnection, EndConnection, SkipConnection, CloseConnection
  <2>2. \A v \in Workers : worker'[v] = "get" <=> worker[v] = "get"
    BY <1>1, <2>1
  <2> QED
    BY <2>1, <2>2, NoCall
<1>3. CASE WorkerCallsGet(w)
  <2>1. /\ pending' = pending \cup {w} /\ worker' = [worker EXCEPT ![w] = "get"]
        /\ UNCHANGED <<open, boss, p_workers>>
    BY <1>3 DEF WorkerCallsGet, Q!CallGet
  <2> QED
    BY <1>1, <2>1 DEF Calls
<1>4. CASE GetReturns(w)
  <2>1. /\ pending' = pending \ {w} /\ worker' = [worker EXCEPT ![w] = "got"]
        /\ UNCHANGED <<open, boss, p_workers>>
    BY <1>4 DEF GetReturns, Q!Get
  <2> QED
    BY <1>1, <2>1 DEF Calls
<1> QED
  BY <1>2, <1>3, <1>4 DEF WorkerStep

\* Every step.
LEMMA CallsStep == ASSUME Inv, Calls, [Next]_vars PROVE Calls'
<1>1. CASE \/ \E t \in Threads : Interrupt(t)
           \/ HandlerReturns
           \/ \E c \in Conns : Connect(c)
           \/ UNCHANGED vars
  BY <1>1, NoCall DEF Interrupt, HandlerReturns, Connect, vars
<1> QED
  BY <1>1, BossCalls, WorkerCalls DEF Next, Stopped

\* proxy.c: whenever SIGINT comes and whatever initialize failed at, the queue is
\* set up before it is used and torn down after, with no call in progress, and
\* assert(sockets.array) holds in safeq.c.
THEOREM QueueIsUsedAsPromised == Spec => []QueueUsedAsPromised
<1>1. Inv /\ Calls => QueueUsedAsPromised
  <2> SUFFICES ASSUME Inv, Calls PROVE QueueUsedAsPromised
    OBVIOUS
  <2>1. /\ Boss \in Threads /\ \A w \in Workers : w \in Threads /\ w # Boss
        /\ NumWorkers \in Nat \ {0} /\ Workers = 0 .. NumWorkers - 1
    BY LifecycleAssumption DEF Threads, Workers
  <2>2. \A w \in Workers : worker[w] \notin {"absent", "exited"} => open
    BY <2>1 DEF Inv, Phases, QueueStands, ControlType, Gone
  <2>3. pending \subseteq Threads
    BY DEF Inv, QueueType
  <2>4. boss = "queue" => ~open /\ pending = {}
    BY <2>1, <2>3 DEF Calls, Inv, Phases, Threads
  <2>5. boss = "join" /\ i = p_workers => pending = {}
    <3> SUFFICES ASSUME boss = "join", i = p_workers, NEW t \in pending PROVE FALSE
      OBVIOUS
    <3>1. t \in Workers /\ worker[t] = "get"
      BY <2>3 DEF Calls, Threads
    <3>2. t < i
      BY <2>1, <3>1 DEF Inv, Phases, ControlType
    <3> QED
      BY <3>1, <3>2 DEF Inv, Phases, Gone
  <2>6. boss \in {"accept", "put", "pill"} \/ (boss = "pills" /\ i < p_workers) => p_workers # 0
    BY <2>1 DEF Inv, Phases, ControlType
  <2> QED
    BY <2>1, <2>2, <2>4, <2>5, <2>6 DEF Calls, QueueUsedAsPromised
<1> QED
  BY <1>1, InitCalls, CallsStep, InvHolds, PTL DEF Spec

\* Whatever the proxy does with its queue, BoundedFifo allows: what SafeQueue
\* was shown to implement is what the proxy was shown to use.
THEOREM ProxyUsesAFifo == Spec => Q!Spec
<1>1. Init => Q!Init
  BY DEF Init
<1>2. ASSUME [Next]_vars PROVE [Q!Next]_(Q!fifoVars)
  <2>1. CASE BossStep \/ AcceptFails
    BY <2>1
    DEF BossStep, BossInitializes, BossRuns, BossTearsDown, SetUpSocket, SetUpQueue, CreateWorker,
        CreateFails, TestTerminate, Accept, AcceptOnShutSocket, AcceptFails, PutReturns, PostPill,
        PillPosted, BeginJoin, Join, JoinUnsetHandle, HandleUnset, Return, Q!Next,
        queueVars, Q!fifoVars
  <2>2. ASSUME NEW w \in Workers, WorkerStep(w) \/ GetReturns(w) PROVE [Q!Next]_(Q!fifoVars)
    BY <2>2
    DEF WorkerStep, WorkerCallsGet, GetReturns, WorkerTakesPill, BeginConnection, EndConnection,
        SkipConnection, CloseConnection, Q!Next, queueVars, Q!fifoVars
  <2>3. CASE \/ \E t \in Threads : Interrupt(t)
             \/ HandlerReturns
             \/ \E c \in Conns : Connect(c)
             \/ UNCHANGED vars
    BY <2>3 DEF Interrupt, HandlerReturns, Connect, vars, queueVars, Q!fifoVars
  <2> QED
    BY <1>2, <2>1, <2>2, <2>3 DEF Next, Stopped
<1> QED
  BY <1>1, <1>2, PTL DEF Spec, Q!Spec

-----------------------------------------------------------------------------
(***************************************************************************)
(* The promise to clients.  ServiceView says what waiting, ahead and       *)
(* serving of ConnectionService are in terms of the places of Owned; each  *)
(* step of the proxy is then one of the service or none.                   *)
(***************************************************************************)
\* What is waiting, and in which order, in terms of the places.
InFront(b, c) ==
  \E k \in 1 .. Len(queue) :
    queue[k] = b /\ (Has(Boss, c) \/ \E l \in 1 .. Len(queue) : k < l /\ queue[l] = c)

\* ConnectionService's variables, place by place.
ServiceView ==
  /\ \A c \in Conns : c \in Waiting <=> Has(Boss, c) \/ Queued(c)
  /\ Waiting \subseteq Conns
  /\ \A b, c \in Conns : <<b, c>> \in Ahead <=> InFront(b, c)
  /\ Ahead \subseteq Conns \X Conns
  /\ \A w \in Workers, c \in Conns : Serving[w] = c <=> Has(w, c)
  /\ Serving \in [Workers -> Conns \cup {NoItem}]

\* ... which is what they are.
LEMMA ServiceState == QueueType => ServiceView
<1> SUFFICES ASSUME QueueType PROVE ServiceView
  OBVIOUS
<1>1. DOMAIN queue = 1 .. Len(queue)
  BY DEF QueueType
<1>2. Boss \notin Workers /\ NoItem \notin Conns
  BY LifecycleAssumption
<1>3. \A c \in Conns : Has(Boss, c) <=> boss = "put" /\ value[Boss] = c
  BY DEF Has, InHand
<1>4. \A c \in Conns : c \in Waiting <=> Has(Boss, c) \/ Queued(c)
  BY <1>1, <1>3 DEF Waiting, Queued
<1>5. \A b, c \in Conns : <<b, c>> \in Ahead <=> InFront(b, c)
  BY <1>1, <1>3 DEF Ahead, InFront
<1>6. \A w \in Workers, c \in Conns : Serving[w] = c <=> Has(w, c)
  BY <1>2 DEF Serving, Has
<1>7. Serving \in [Workers -> Conns \cup {NoItem}]
  BY DEF Serving
<1> QED
  BY <1>4, <1>5, <1>6, <1>7 DEF Waiting, Ahead, ServiceView

\* Equal places, equal state of the service.
LEMMA SameService ==
  ASSUME ServiceView, ServiceView',
         \A c \in Conns : (Has(Boss, c) \/ Queued(c))' <=> Has(Boss, c) \/ Queued(c),
         \A b, c \in Conns : InFront(b, c)' <=> InFront(b, c)
  PROVE  Waiting' = Waiting /\ Ahead' = Ahead
<1>1. Waiting' = Waiting
  BY DEF ServiceView
<1>2. \A p \in Conns \X Conns : p \in Ahead' <=> p \in Ahead
  BY DEF ServiceView
<1> QED
  BY <1>1, <1>2 DEF ServiceView

\* Equal hands, equal service.
LEMMA SameServing ==
  ASSUME ServiceView, ServiceView',
         \A w \in Workers, c \in Conns : Has(w, c)' <=> Has(w, c)
  PROVE  Serving' = Serving
<1>1. \A w \in Workers : Serving'[w] = Serving[w]
  BY DEF ServiceView
<1> QED
  BY <1>1 DEF ServiceView

\* Steps that move no connection.
LEMMA QuietService ==
  ASSUME ServiceView, ServiceView',
         queue' = queue,
         \A t \in Threads, c \in Conns : Has(t, c)' <=> Has(t, c),
         \A c \in Conns : conn'[c] = "closed" <=> conn[c] = "closed"
  PROVE  UNCHANGED Service!serviceVars
<1>1. Boss \in Threads /\ \A w \in Workers : w \in Threads
  BY DEF Threads
<1>2. Waiting' = Waiting /\ Ahead' = Ahead
  BY <1>1, SameService DEF InFront, Queued
<1>3. Serving' = Serving
  BY <1>1, SameServing
<1>4. Closed' = Closed
  BY DEF Closed
<1> QED
  BY <1>2, <1>3, <1>4 DEF Service!serviceVars

\* accept: behind everything that waits.
LEMMA AcceptServes ==
  ASSUME Inv, Owned, ServiceView, ServiceView', NEW c \in Conns, Accept(c)
  PROVE  Service!Accept(c)
<1>1. /\ boss = "accept" /\ boss' = "put" /\ conn[c] = "backlog"
      /\ conn' = [conn EXCEPT ![c] = "accepted"] /\ value' = [value EXCEPT ![Boss] = c]
      /\ UNCHANGED <<queue, worker>>
  BY DEF Accept, At, Goto, Q!CallPut
<1>2. /\ value \in [Threads -> Conns \cup {Pill, NoItem}] /\ Boss \in Threads
      /\ conn \in [Conns -> {"new", "backlog", "accepted", "closed", "reset"}]
      /\ \A w \in Workers : w \in Threads /\ w # Boss
  BY LifecycleAssumption DEF Inv, QueueType, ControlType, Threads
<1>3. \A d \in Conns : ~Has(Boss, d) /\ (Has(Boss, d)' <=> d = c)
  BY <1>1, <1>2 DEF Has, InHand
<1>4. \A w \in Workers, d \in Conns : Has(w, d)' <=> Has(w, d)
  BY <1>1, <1>2 DEF Has, InHand
<1>5. ~Queued(c) /\ \A t \in Threads : ~Has(t, c)
  BY <1>1 DEF Owned
<1>6. \A d \in Conns : Queued(d)' <=> Queued(d)
  BY <1>1 DEF Queued
<1>7. Waiting' = Waiting \cup {c}
  BY <1>3, <1>6 DEF ServiceView
<1>8. \A b, d \in Conns : InFront(b, d)' <=> InFront(b, d) \/ (b \in Waiting /\ d = c)
  BY <1>1, <1>3 DEF InFront, Queued, ServiceView
<1>9. Ahead' = Ahead \cup (Waiting \X {c})
  <2>1. \A p \in Conns \X Conns : p \in Ahead' <=> p \in Ahead \/ p \in Waiting \X {c}
    BY <1>8 DEF ServiceView
  <2> QED
    BY <2>1 DEF ServiceView
<1>10. Serving' = Serving /\ Closed' = Closed
  BY <1>1, <1>2, <1>4, SameServing DEF Closed
<1>11. c \notin Waiting \cup Closed /\ \A w \in Workers : Serving[w] # c
  BY <1>1, <1>2, <1>5 DEF ServiceView, Closed
<1> QED
  BY <1>7, <1>9, <1>10, <1>11 DEF Service!Accept

\* ml_safeq_put: from the boss's hands to the end of the queue is no step for
\* the client, and a pill is nobody.
LEMMA PutServes ==
  ASSUME Inv, Tidy, ServiceView, ServiceView', PutReturns \/ PillPosted
  PROVE  UNCHANGED Service!serviceVars
<1>1. /\ boss \in {"put", "pill"} /\ boss' # "put"
      /\ queue' = Append(queue, value[Boss]) /\ value' = [value EXCEPT ![Boss] = NoItem]
      /\ UNCHANGED <<worker, conn>>
  BY DEF PutReturns, PillPosted, At, Goto, Q!Put
<1>2. /\ value \in [Threads -> Conns \cup {Pill, NoItem}] /\ Boss \in Threads
      /\ queue \in Seq(Conns \cup {Pill})
      /\ \A w \in Workers : w \in Threads /\ w # Boss
  BY LifecycleAssumption DEF Inv, QueueType, Threads
<1>3. value[Boss] \in Conns \cup {Pill}
  BY <1>1 DEF Inv, BossCarries
<1>4. /\ Len(queue') = Len(queue) + 1 /\ Len(queue) \in Nat
      /\ \A k \in 1 .. Len(queue) : queue'[k] = queue[k]
      /\ queue'[Len(queue) + 1] = value[Boss]
  BY <1>1, <1>2, <1>3
<1>5. \A d \in Conns : (Has(Boss, d) <=> value[Boss] = d) /\ ~Has(Boss, d)'
  BY <1>1, LifecycleAssumption DEF Has, InHand, Tidy
<1>6. \A w \in Workers, d \in Conns : Has(w, d)' <=> Has(w, d)
  BY <1>1, <1>2 DEF Has, InHand
<1>7. \A d \in Conns : (Has(Boss, d) \/ Queued(d))' <=> Has(Boss, d) \/ Queued(d)
  BY <1>4, <1>5 DEF Queued
<1>8. ASSUME NEW b \in Conns, NEW d \in Conns
      PROVE  InFront(b, d)' <=> InFront(b, d)
  <2>1. ASSUME NEW k \in 1 .. Len(queue'), NEW l \in 1 .. Len(queue'),
               k < l, queue'[k] = b, queue'[l] = d
        PROVE  InFront(b, d)
    BY <1>4, <1>5, <2>1 DEF InFront
  <2>2. ASSUME NEW k \in 1 .. Len(queue), queue[k] = b,
               Has(Boss, d) \/ \E l \in 1 .. Len(queue) : k < l /\ queue[l] = d
        PROVE  InFront(b, d)'
    BY <1>4, <1>5, <2>2 DEF InFront
  <2> QED
    BY <1>5, <2>1, <2>2 DEF InFront
<1> QED
  BY <1>1, <1>6, <1>7, <1>8, SameService, SameServing DEF Service!serviceVars, Closed

\* ml_safeq_get: the worker takes the one that has waited longest, or a pill.
LEMMA GetServes ==
  ASSUME Inv, Owned, ServiceView, ServiceView', NEW w \in Workers, GetReturns(w)
  PROVE  \/ \E c \in Conns : Service!Take(w, c)
         \/ UNCHANGED Service!serviceVars
<1>1. /\ worker[w] = "get" /\ worker' = [worker EXCEPT ![w] = "got"]
      /\ queue # <<>> /\ queue' = Tail(queue)
      /\ value' = [value EXCEPT ![w] = Head(queue)]
      /\ UNCHANGED <<boss, conn>>
  BY DEF GetReturns, AtWorker, WorkerGoto, bossVars, Q!Get
<1>2. /\ value \in [Threads -> Conns \cup {Pill, NoItem}]
      /\ worker \in [Workers -> {"absent", "loop", "get", "got", "processing", "close", "exited"}]
      /\ queue \in Seq(Conns \cup {Pill}) /\ w \in Threads /\ w # Boss /\ Boss \in Threads
      /\ \A v \in Workers : v \in Threads /\ v # Boss
      /\ Pill \notin Conns
  BY LifecycleAssumption DEF Inv, QueueType, ControlType, Threads
<1>3. /\ Len(queue) \in Nat \ {0} /\ Len(queue') = Len(queue) - 1
      /\ \A k \in 1 .. Len(queue) - 1 : queue'[k] = queue[k + 1]
      /\ Head(queue) = queue[1] /\ queue[1] \in Conns \cup {Pill}
  BY <1>1, <1>2
<1> DEFINE h == queue[1]
<1>4. /\ \A d \in Conns : Has(Boss, d)' <=> Has(Boss, d)
      /\ \A v \in Workers, d \in Conns : Has(v, d)' <=> IF v = w THEN d = h ELSE Has(v, d)
      /\ \A d \in Conns : ~Has(w, d)
  BY <1>1, <1>2, <1>3 DEF Has, InHand
<1>5. \A d \in Conns : Queued(d) <=> Queued(d)' \/ d = h
  <2>1. ASSUME NEW d \in Conns, Queued(d), d # h PROVE Queued(d)'
    <3>1. PICK k \in 1 .. Len(queue) : queue[k] = d
      BY <2>1 DEF Queued
    <3>2. k - 1 \in 1 .. Len(queue') /\ queue'[k - 1] = d
      BY <1>3, <2>1, <3>1
    <3> QED
      BY <3>2 DEF Queued
  <2>2. ASSUME NEW d \in Conns, Queued(d)' PROVE Queued(d)
    <3>1. PICK k \in 1 .. Len(queue') : queue'[k] = d
      BY <2>2 DEF Queued
    <3>2. k + 1 \in 1 .. Len(queue) /\ queue[k + 1] = d
      BY <1>3, <3>1
    <3> QED
      BY <3>2 DEF Queued
  <2>3. Queued(h)
    BY <1>3 DEF Queued
  <2> QED
    BY <2>1, <2>2, <2>3
<1>6. \A k \in 2 .. Len(queue) : queue[k] = h => h \notin Conns
  BY <1>3 DEF Owned
<1>7. \A d \in Conns : d = h => ~Queued(d)' /\ ~Has(Boss, d)
  <2>1. ASSUME NEW k \in 1 .. Len(queue'), queue'[k] = h PROVE h \notin Conns
    <3>1. k + 1 \in 2 .. Len(queue) /\ queue[k + 1] = h
      BY <1>3, <2>1
    <3> QED
      BY <1>6, <3>1
  <2>2. Queued(h)
    BY <1>3 DEF Queued
  <2> QED
    BY <1>2, <2>1, <2>2 DEF Owned, Queued
<1>8. ASSUME NEW b \in Conns, NEW d \in Conns
      PROVE  InFront(b, d)' <=> InFront(b, d) /\ b # h
  <2>1. ASSUME InFront(b, d)' PROVE InFront(b, d) /\ b # h
    <3>1. PICK k \in 1 .. Len(queue') :
            /\ queue'[k] = b
            /\ Has(Boss, d)' \/ \E l \in 1 .. Len(queue') : k < l /\ queue'[l] = d
      BY <2>1 DEF InFront
    <3>2. k + 1 \in 1 .. Len(queue) /\ queue[k + 1] = b /\ b # h
      BY <1>3, <1>6, <3>1
    <3>3. ASSUME NEW l \in 1 .. Len(queue'), k < l, queue'[l] = d PROVE InFront(b, d)
      <4>1. l + 1 \in 1 .. Len(queue) /\ queue[l + 1] = d /\ k + 1 < l + 1
        BY <1>3, <3>3
      <4> QED
        BY <3>2, <4>1 DEF InFront
    <3>4. Has(Boss, d) => InFront(b, d)
      BY <3>2 DEF InFront
    <3> QED
      BY <1>4, <3>1, <3>2, <3>3, <3>4
  <2>2. ASSUME InFront(b, d), b # h PROVE InFront(b, d)'
    <3>1. PICK k \in 1 .. Len(queue) :
            /\ queue[k] = b
            /\ Has(Boss, d) \/ \E l \in 1 .. Len(queue) : k < l /\ queue[l] = d
      BY <2>2 DEF InFront
    <3>2. k - 1 \in 1 .. Len(queue') /\ queue'[k - 1] = b
      BY <1>3, <2>2, <3>1
    <3>3. ASSUME NEW l \in 1 .. Len(queue), k < l, queue[l] = d PROVE InFront(b, d)'
      <4>1. l - 1 \in 1 .. Len(queue') /\ queue'[l - 1] = d /\ k - 1 < l - 1
        BY <1>3, <3>2, <3>3
      <4> QED
        BY <3>2, <4>1 DEF InFront
    <3>4. Has(Boss, d) => InFront(b, d)'
      BY <1>4, <3>2 DEF InFront
    <3> QED
      BY <3>1, <3>3, <3>4
  <2> QED
    BY <2>1, <2>2
<1>9. Closed' = Closed
  BY <1>1 DEF Closed
<1>10. CASE h \in Conns
  <2>1. Serving[w] = NoItem
    BY <1>4 DEF ServiceView
  <2>2. h \in Waiting
    BY <1>5, <1>10 DEF ServiceView
  <2>3. \A b \in Conns : ~InFront(b, h)
    <3>1. ASSUME NEW k \in 1 .. Len(queue), NEW l \in 1 .. Len(queue), k < l PROVE queue[l] # h
      BY <1>3, <1>6, <1>10, <3>1
    <3> QED
      BY <1>7, <1>10, <3>1 DEF InFront
  <2>4. \A b \in Waiting : <<b, h>> \notin Ahead
    BY <1>10, <2>3 DEF ServiceView
  <2>5. Waiting' = Waiting \ {h}
    BY <1>4, <1>5, <1>7 DEF ServiceView
  <2>6. Ahead' = Ahead \ ({h} \X Waiting)
    <3>1. \A b, d \in Conns : InFront(b, d) => Has(Boss, d) \/ Queued(d)
      BY DEF InFront, Queued
    <3>2. \A b, d \in Conns : InFront(b, d) => d \in Waiting
      BY <3>1 DEF ServiceView
    <3>3. \A b, d \in Conns :
            <<b, d>> \in Ahead' <=> <<b, d>> \in Ahead /\ ~(b = h /\ d \in Waiting)
      BY <1>8, <3>2 DEF ServiceView
    <3>4. \A p \in Conns \X Conns : p \in Ahead' <=> p \in Ahead /\ p \notin {h} \X Waiting
      BY <3>3
    <3> QED
      BY <3>4 DEF ServiceView
  <2>7. Serving' = [Serving EXCEPT ![w] = h]
    <3>1. \A v \in Workers : Serving'[v] = IF v = w THEN h ELSE Serving[v]
      BY <1>4, <1>10 DEF ServiceView
    <3> QED
      BY <3>1 DEF ServiceView
  <2>8. Service!Take(w, h)
    BY <1>9, <2>1, <2>2, <2>4, <2>5, <2>6, <2>7 DEF Service!Take
  <2> QED
    BY <1>10, <2>8
<1>11. CASE h \notin Conns
  <2>1. Waiting' = Waiting /\ Ahead' = Ahead
    BY <1>4, <1>5, <1>8, <1>11, SameService
  <2>2. Serving' = Serving
    BY <1>4, <1>11, SameServing
  <2> QED
    BY <1>9, <2>1, <2>2 DEF Service!serviceVars
<1> QED
  BY <1>10, <1>11

\* close: the worker is done with its connection.
LEMMA CloseServes ==
  ASSUME Inv, Owned, Tidy, ServiceView, ServiceView', NEW w \in Workers, CloseConnection(w)
  PROVE  Service!Close(w) \/ UNCHANGED Service!serviceVars
<1>1. /\ worker[w] = "close" /\ worker' = [worker EXCEPT ![w] = "loop"]
      /\ conn' = [conn EXCEPT ![value[w]] = "closed"]
      /\ UNCHANGED <<queue, value, boss>>
  BY DEF CloseConnection, AtWorker, WorkerGoto, queueVars, bossVars
<1>2. /\ worker \in [Workers -> {"absent", "loop", "get", "got", "processing", "close", "exited"}]
      /\ conn \in [Conns -> {"new", "backlog", "accepted", "closed", "reset"}]
      /\ \A v \in Workers : v \in Threads /\ v # Boss
      /\ NoItem \notin Conns
  BY LifecycleAssumption DEF Inv, ControlType, Threads
<1>3. /\ \A d \in Conns : Has(Boss, d)' <=> Has(Boss, d)
      /\ \A v \in Workers, d \in Conns : Has(v, d)' <=> v # w /\ Has(v, d)
      /\ \A d \in Conns : Has(w, d) <=> value[w] = d
  BY <1>1, <1>2 DEF Has, InHand
<1>4. Waiting' = Waiting /\ Ahead' = Ahead
  BY <1>1, <1>3, SameService DEF Queued, InFront
<1>5. Closed' = IF value[w] \in Conns THEN Closed \cup {value[w]} ELSE Closed
  BY <1>1, <1>2 DEF Closed
<1>6. CASE value[w] \in Conns
  <2>1. Serving[w] = value[w]
    BY <1>3, <1>6 DEF ServiceView
  <2>2. \A v \in Workers : Serving'[v] = IF v = w THEN NoItem ELSE Serving[v]
    BY <1>3 DEF ServiceView
  <2>3. Serving' = [Serving EXCEPT ![w] = NoItem]
    BY <2>2 DEF ServiceView
  <2> QED
    BY <1>2, <1>4, <1>5, <1>6, <2>1, <2>3 DEF Service!Close
<1>7. CASE value[w] \notin Conns
  BY <1>3, <1>4, <1>5, <1>7, SameServing DEF Service!serviceVars
<1> QED
  BY <1>6, <1>7

\* proxy.c: only accept is a step of the service.  What teardown drops, with the
\* queue, is nobody's.
LEMMA BossServes ==
  ASSUME Inv, Shutdown, Inv', Shutdown', ServiceView, ServiceView', BossStep \/ AcceptFails
  PROVE  [Service!Next]_(Service!serviceVars)
<1> USE DEF At, Goto, BeginTeardown, queueVars, bossVars, signalVars
<1>1. /\ \A w \in Workers : w \in Threads /\ w # Boss
      /\ \A t \in Threads : t = Boss \/ t \in Workers
      /\ Boss \in Threads /\ Pill \notin Conns
      /\ value \in [Threads -> Conns \cup {Pill, NoItem}]
      /\ worker \in [Workers -> {"absent", "loop", "get", "got", "processing", "close", "exited"}]
  BY LifecycleAssumption DEF Threads, Inv, ControlType, QueueType
<1>2. CASE /\ UNCHANGED <<queue, value, worker, conn>>
           /\ boss # "put" /\ boss' # "put"
  BY <1>1, <1>2, QuietService DEF Has, InHand
<1>3. CASE \/ \E succeeds \in BOOLEAN : SetUpSocket(succeeds) \/ SetUpQueue(succeeds)
           \/ CreateFails \/ TestTerminate \/ AcceptOnShutSocket \/ AcceptFails
           \/ BeginJoin \/ Join \/ JoinUnsetHandle
  <2>1. boss = "queue" => queue = <<>>
    BY DEF Inv, Phases, Shutdown, Tidy
  <2> QED
    BY <1>2, <1>3, <2>1
    DEF SetUpSocket, SetUpQueue, CreateFails, TestTerminate, AcceptOnShutSocket, AcceptFails,
        BeginJoin, Join, JoinUnsetHandle, HandleUnset, Q!Open
<1>4. CASE CreateWorker
  <2>1. /\ boss = "create" /\ boss' # "put" /\ UNCHANGED <<queue, value, conn>>
        /\ worker' = [worker EXCEPT ![i] = "loop"]
    BY <1>4 DEF CreateWorker
  <2>2. \A w \in Workers : w = i => worker[w] = "absent"
    BY <2>1 DEF Inv, Phases, ControlType, Workers
  <2>3. \A t \in Threads, c \in Conns : Has(t, c)' <=> Has(t, c)
    BY <1>1, <2>1, <2>2 DEF Has, InHand
  <2> QED
    BY <2>1, <2>3, QuietService
<1>5. ASSUME NEW c \in Conns, Accept(c) PROVE [Service!Next]_(Service!serviceVars)
  BY <1>5, AcceptServes DEF Service!Next, Shutdown
<1>6. CASE PutReturns \/ PillPosted
  BY <1>6, PutServes DEF Shutdown
<1>7. CASE PostPill
  <2>1. /\ boss = "pills" /\ boss' = "pill" /\ UNCHANGED <<queue, worker, conn>>
        /\ value' = [value EXCEPT ![Boss] = Pill]
    BY <1>7 DEF PostPill, Q!CallPut
  <2>2. \A t \in Threads, c \in Conns : Has(t, c)' <=> Has(t, c)
    BY <1>1, <2>1 DEF Has, InHand
  <2> QED
    BY <2>1, <2>2, QuietService
<1>8. CASE Return
  <2>1. /\ boss = "join" /\ boss' = "returned" /\ queue' = <<>> /\ UNCHANGED <<value, worker>>
        /\ conn' = [c \in Conns |-> IF conn[c] = "backlog" THEN "reset" ELSE conn[c]]
    BY <1>8 DEF Return, Q!Close
  <2>2. \A t \in Threads, c \in Conns : Has(t, c)' <=> Has(t, c)
    BY <1>1, <2>1 DEF Has, InHand
  <2>3. \A c \in Conns : ~Queued(c)'
    BY <2>1 DEF Queued
  <2>4. \A c \in Conns : ~Queued(c)
    <3>1. \A c \in Conns : conn'[c] = "accepted" <=> conn[c] = "accepted"
      BY <2>1
    <3>2. \A c \in Conns : Queued(c) => conn[c] = "accepted" /\ \A t \in Threads : ~Has(t, c)
      BY DEF Shutdown, Owned
    <3>3. \A c \in Conns : conn'[c] = "accepted" => \E t \in Threads : Has(t, c)'
      BY <2>3 DEF Shutdown, Owned
    <3> QED
      BY <2>2, <3>1, <3>2, <3>3
  <2>5. \A b, c \in Conns : ~InFront(b, c) /\ ~InFront(b, c)'
    BY <2>3, <2>4 DEF InFront, Queued
  <2>6. Waiting' = Waiting /\ Ahead' = Ahead
    BY <1>1, <2>2, <2>3, <2>4, <2>5, SameService
  <2>7. Serving' = Serving /\ Closed' = Closed
    BY <1>1, <2>1, <2>2, SameServing DEF Closed
  <2> QED
    BY <2>6, <2>7 DEF Service!serviceVars
<1> QED
  BY <1>3, <1>4, <1>5, <1>6, <1>7, <1>8 DEF BossStep, BossInitializes, BossRuns, BossTearsDown

\* ml_worker(): a get and a close are steps of the service.
LEMMA WorkerServes ==
  ASSUME Inv, Shutdown, ServiceView, ServiceView', NEW w \in Workers, WorkerStep(w) \/ GetReturns(w)
  PROVE  [Service!Next]_(Service!serviceVars)
<1> USE DEF AtWorker, WorkerGoto, queueVars, bossVars, signalVars
<1>1. /\ \A v \in Workers : v \in Threads /\ v # Boss
      /\ \A t \in Threads : t = Boss \/ t \in Workers
      /\ Pill \notin Conns
      /\ value \in [Threads -> Conns \cup {Pill, NoItem}]
      /\ worker \in [Workers -> {"absent", "loop", "get", "got", "processing", "close", "exited"}]
  BY LifecycleAssumption DEF Threads, Inv, ControlType, QueueType
<1>2. CASE WorkerCallsGet(w)
  <2>1. /\ worker[w] = "loop" /\ worker' = [worker EXCEPT ![w] = "get"]
        /\ value' = [value EXCEPT ![w] = NoItem] /\ UNCHANGED <<queue, boss, conn>>
    BY <1>2 DEF WorkerCallsGet, Q!CallGet
  <2>2. \A t \in Threads, c \in Conns : Has(t, c)' <=> Has(t, c)
    BY <1>1, <2>1 DEF Has, InHand
  <2> QED
    BY <2>1, <2>2, QuietService
<1>3. CASE GetReturns(w)
  BY <1>3, GetServes DEF Service!Next, Shutdown
<1>4. CASE WorkerTakesPill(w)
  <2>1. /\ worker[w] = "got" /\ value[w] = Pill /\ worker' = [worker EXCEPT ![w] = "exited"]
        /\ UNCHANGED <<queue, value, boss, conn>>
    BY <1>4 DEF WorkerTakesPill
  <2>2. \A t \in Threads, c \in Conns : Has(t, c)' <=> Has(t, c)
    BY <1>1, <2>1 DEF Has, InHand
  <2> QED
    BY <2>1, <2>2, QuietService
<1>5. CASE BeginConnection(w) \/ EndConnection(w) \/ SkipConnection(w)
  <2>1. /\ worker[w] \in {"got", "processing"} /\ UNCHANGED <<queue, value, boss, conn>>
        /\ \E to \in {"processing", "close"} : worker' = [worker EXCEPT ![w] = to]
    BY <1>5 DEF BeginConnection, EndConnection, SkipConnection
  <2>2. \A t \in Threads, c \in Conns : Has(t, c)' <=> Has(t, c)
    BY <1>1, <2>1 DEF Has, InHand
  <2> QED
    BY <2>1, <2>2, QuietService
<1>6. CASE CloseConnection(w)
  BY <1>6, CloseServes DEF Service!Next, Shutdown
<1> QED
  BY <1>2, <1>3, <1>4, <1>5, <1>6 DEF WorkerStep

\* SIGINT and clients: no step of the service.
LEMMA OutsideServes ==
  ASSUME ServiceView, ServiceView', Inv,
         \/ \E t \in Threads : Interrupt(t)
         \/ HandlerReturns
         \/ \E c \in Conns : Connect(c)
         \/ UNCHANGED vars
  PROVE  UNCHANGED Service!serviceVars
<1>1. UNCHANGED <<queue, value, boss, worker>>
  BY DEF Interrupt, HandlerReturns, Connect, vars, queueVars, bossVars
<1>2. \A c \in Conns : conn'[c] = "closed" <=> conn[c] = "closed"
  BY DEF Interrupt, ShutListener, HandlerReturns, Connect, vars, Inv, ControlType
<1> QED
  BY <1>1, <1>2, QuietService DEF Has, InHand

(***************************************************************************)
(* The proxy implements ConnectionService: its connections are served      *)
(* first come, first served, each once and by one worker, whatever the     *)
(* threads' interleaving, whatever initialize failed at and whenever       *)
(* SIGINT comes.                                                           *)
(***************************************************************************)
THEOREM FirstComeFirstServed == Spec => ServedInOrder
<1>1. Init => Service!Init
  <2> SUFFICES ASSUME Init PROVE Service!Init
    OBVIOUS
  <2>1. /\ boss = "socket" /\ queue = <<>> /\ DOMAIN queue = {}
        /\ worker = [w \in Workers |-> "absent"] /\ conn = [c \in Conns |-> "new"]
    BY DEF Init, Q!Init
  <2>2. \A w \in Workers : ~InHand(w)
    BY <2>1, LifecycleAssumption DEF InHand
  <2>3. Serving = [w \in Workers |-> NoItem]
    BY <2>2 DEF Serving
  <2> QED
    BY <2>1, <2>3 DEF Service!Init, Waiting, Ahead, Closed
<1>2. ASSUME Inv, Shutdown, Inv', Shutdown', ServiceView, ServiceView', [Next]_vars
      PROVE  [Service!Next]_(Service!serviceVars)
  BY <1>2, BossServes, WorkerServes, OutsideServes DEF Next, Stopped
<1>3. Inv => ServiceView
  BY ServiceState DEF Inv
<1> QED
  BY <1>1, <1>2, <1>3, InvHolds, ShutdownHolds, PTL DEF Spec, ServedInOrder, Service!Spec

=============================================================================
