---------------------------- MODULE ServerProofs ----------------------------
(***************************************************************************)
(* The server, for any number of workers and connections, any capacity of  *)
(* the queue and any lines of the clients: an accepted connection has      *)
(* exactly one owner, the queue is used as BoundedFifo asks, connections   *)
(* are served first come, first served (ServerLifecycle), and the worker   *)
(* that serves one answers it for its own lines, whatever the buffer still *)
(* holds (ServerConnection).  The url of a request, of any length, is      *)
(* resolved in the memory allocated for it (ServerUrl).                    *)
(***************************************************************************)
EXTENDS ServerLifecycle, ServerConnection, ServerUrl, TLAPS, FiniteSetTheorems, SequenceTheorems,
        WellFoundedInduction

(***************************************************************************)
(* The life of a connection.  OneOwner counts.  The invariant behind it,   *)
(* Owned, does not: it says that no two places of a connection differ, and *)
(* that it has a place just when it is accepted.  The proof follows the    *)
(* connection from accept into the boss's hands, through the queue (where  *)
(* -1 may stand between), and into a worker's hands, to close.             *)
(***************************************************************************)

\* The queue's share of TypeOK.
QueueType ==
  /\ open \in BOOLEAN
  /\ queue \in Seq(Conns \cup {BadSocket}) /\ Len(queue) <= Capacity
  /\ pending \subseteq Threads
  /\ value \in [Threads -> Conns \cup {BadSocket, NoItem}]

\* The rest of TypeOK.
ControlType ==
  /\ boss \in {"socket", "queue", "create", "run", "accept", "put", "exited"}
  /\ i \in 0 .. NumWorkers
  /\ listening \in {"no", "open", "shut"}
  /\ terminate \in BOOLEAN
  /\ handler \in Threads \cup {NoThread}
  /\ worker \in [Workers -> {"absent", "loop", "get", "got", "processing", "close"}]
  /\ conn \in [Conns -> {"new", "backlog", "accepted", "closed", "reset"}]
  /\ spoken \subseteq Conns

Has(t, c) == InHand(t) /\ value[t] = c
Queued(c) == \E k \in 1 .. Len(queue) : queue[k] = c

Owned ==
  /\ \A c \in Conns : \A t, u \in Threads : Has(t, c) /\ Has(u, c) => t = u
  /\ \A c \in Conns : \A j, k \in 1 .. Len(queue) : queue[j] = c /\ queue[k] = c => j = k
  /\ \A c \in Conns : \A t \in Threads : Has(t, c) => ~Queued(c)
  /\ \A c \in Conns : conn[c] = "accepted" <=> Queued(c) \/ \E t \in Threads : Has(t, c)

\* What the labels of server.c imply.
Program ==
  /\ boss \in {"socket", "queue"} => i = 0 /\ queue = <<>>
  /\ boss = "create" => i < NumWorkers
  /\ boss \in {"socket", "queue", "create"} =>
       \A w \in Workers : w >= i => worker[w] = "absent"
  /\ boss = "put" => value[Boss] \in Conns \cup {BadSocket}

Inv == QueueType /\ ControlType /\ Program /\ Owned

-----------------------------------------------------------------------------

\* The initial state.
LEMMA InitInv == Init => Inv
<1> SUFFICES ASSUME Init PROVE Inv
  OBVIOUS
<1> USE ServerAssumption DEF Init, Q!Init
<1>1. QueueType
  <2>1. open \in BOOLEAN
    BY Zenon
  <2> QED
    BY <2>1 DEF QueueType, Q!Threads, Threads
<1>4. ControlType
  <2>1. terminate \in BOOLEAN
    BY Zenon
  <2> QED
    BY <2>1 DEF ControlType
<1>2. Program
  BY DEF Program
<1>3. Owned
  <2>1. \A t \in Threads : ~InHand(t)
    BY DEF InHand, Threads
  <2> QED
    BY <2>1 DEF Owned, Has, Queued
<1> QED
  BY <1>1, <1>2, <1>3, <1>4 DEF Inv

\* The queue holds what was put into it, and never more than its capacity.
LEMMA QueueTypes ==
  ASSUME Inv,
         \/ UNCHANGED queueVars
         \/ Q!Open
         \/ \E s \in Conns \cup {BadSocket} : Q!CallPut(Boss, s)
         \/ boss = "put" /\ Q!Put(Boss)
         \/ \E w \in Workers : Q!CallGet(w) \/ Q!Get(w)
  PROVE  QueueType'
<1>1. open' \in BOOLEAN
  <2>1. open \in BOOLEAN
    BY DEF Inv, QueueType
  <2> QED
    BY <2>1, Zenon DEF queueVars, Q!Open, Q!CallPut, Q!Put, Q!CallGet, Q!Get
<1>2. /\ queue \in Seq(Conns \cup {BadSocket}) /\ Len(queue) <= Capacity
      /\ pending \subseteq Threads
      /\ value \in [Threads -> Conns \cup {BadSocket, NoItem}]
      /\ Capacity \in Nat \ {0}
  BY ServerAssumption DEF Inv, QueueType
<1>3. CASE UNCHANGED queueVars
  BY <1>1, <1>2, <1>3 DEF queueVars, QueueType
<1>4. CASE Q!Open
  BY <1>1, <1>2, <1>4 DEF Q!Open, QueueType
<1>5. ASSUME NEW s \in Conns \cup {BadSocket}, Q!CallPut(Boss, s) PROVE QueueType'
  BY <1>1, <1>2, <1>5 DEF Q!CallPut, Threads, QueueType
<1>6. CASE boss = "put" /\ Q!Put(Boss)
  <2>1. value[Boss] \in Conns \cup {BadSocket} /\ queue' = Append(queue, value[Boss])
    BY <1>6 DEF Inv, Program, Q!Put
  <2>2. queue' \in Seq(Conns \cup {BadSocket}) /\ Len(queue') = Len(queue) + 1
    BY <1>1, <1>2, <2>1, AppendProperties
  <2> QED
    BY <1>1, <1>2, <1>6, <2>2 DEF Q!Put, Threads, QueueType
<1>7. ASSUME NEW w \in Workers, Q!CallGet(w) PROVE QueueType'
  BY <1>1, <1>2, <1>7 DEF Q!CallGet, Threads, QueueType
<1>8. ASSUME NEW w \in Workers, Q!Get(w) PROVE QueueType'
  <2>1. /\ Head(queue) \in Conns \cup {BadSocket} /\ queue' = Tail(queue)
        /\ queue' \in Seq(Conns \cup {BadSocket}) /\ Len(queue') = Len(queue) - 1
    BY <1>1, <1>2, <1>8, HeadTailProperties DEF Q!Get
  <2> QED
    BY <1>1, <1>2, <1>8, <2>1 DEF Q!Get, Threads, QueueType
<1> QED
  BY <1>1, <1>3, <1>4, <1>5, <1>6, <1>7, <1>8

\* initialize() and run().
LEMMA BossTypes == Inv /\ (BossStep \/ AcceptFails) => (QueueType /\ ControlType /\ Program)'
<1> SUFFICES ASSUME Inv, BossStep \/ AcceptFails
             PROVE  (QueueType /\ ControlType /\ Program)'
  OBVIOUS
<1> USE ServerAssumption
    DEF At, Goto, Workers, Inv, ControlType, Program, queueVars, bossVars, signalVars, connVars
<1>1. QueueType'
  BY QueueTypes
  DEF BossStep, SetUpSocket, SetUpQueue, CreateWorker, CreateFails, TestTerminate, Accept,
      AcceptOnShutSocket, AcceptFails, QueueBadSocket, PutReturns
<1>2. ASSUME NEW succeeds \in BOOLEAN, SetUpSocket(succeeds)
      PROVE  (ControlType /\ Program)'
  BY <1>2 DEF SetUpSocket
<1>3. CASE SetUpQueue
  <2>1. /\ boss = "queue" /\ boss' \in {"create", "exited"} /\ i' = i
        /\ UNCHANGED <<listening, terminate, handler, worker, conn, spoken>>
    BY <1>3 DEF SetUpQueue
  <2>2. terminate' \in BOOLEAN
    BY <2>1, Zenon
  <2>3. ControlType'
    BY <2>1, <2>2
  <2>4. Program'
    BY <2>1
  <2> QED
    BY <1>1, <2>3, <2>4
<1>4. CASE CreateWorker
  <2>1. i \in Workers /\ i' = i + 1 /\ i' \in 0 .. NumWorkers
    BY <1>4 DEF CreateWorker
  <2>2. worker' \in [Workers -> {"absent", "loop", "get", "got", "processing", "close"}]
    BY <1>4, <2>1 DEF CreateWorker
  <2>3. (boss' = "create" /\ i' < NumWorkers) \/ boss' = "run"
    BY <1>4, <2>1 DEF CreateWorker
  <2> QED
    <3>1. UNCHANGED <<listening, terminate, handler, conn, spoken, queue, value>>
      BY <1>4 DEF CreateWorker
    <3>2. terminate' \in BOOLEAN
      BY <3>1, Zenon
    <3>3. ControlType'
      BY <2>1, <2>2, <2>3, <3>1, <3>2
    <3>4. \A w \in Workers : w >= i + 1 => worker'[w] = "absent"
      BY <1>4, <2>1 DEF CreateWorker
    <3>5. Program'
      BY <2>1, <2>3, <3>1, <3>4
    <3> QED
      BY <1>1, <3>3, <3>5
<1>5. CASE CreateFails \/ TestTerminate
  BY <1>1, <1>5 DEF CreateFails, TestTerminate
<1>6. ASSUME NEW c \in Conns, Accept(c) PROVE (ControlType /\ Program)'
  BY <1>6 DEF Accept, Q!CallPut, QueueType, Threads
<1>7. CASE AcceptOnShutSocket \/ AcceptFails
  BY <1>1, <1>7 DEF AcceptOnShutSocket, AcceptFails, QueueBadSocket, Q!CallPut, QueueType, Threads
<1>8. CASE PutReturns
  <2>1. boss' = "run" /\ UNCHANGED <<i, listening, terminate, handler, worker, conn, spoken>>
    BY <1>8 DEF PutReturns
  <2>2. terminate' \in BOOLEAN
    BY <2>1, Zenon
  <2> QED
    BY <1>1, <2>1, <2>2
<1> QED
  BY <1>1, <1>2, <1>3, <1>4, <1>5, <1>6, <1>7, <1>8 DEF BossStep

\* Everybody else.
LEMMA OtherTypes ==
  ASSUME Inv,
         \/ \E w \in Workers : WorkerStep(w) \/ GetReturns(w)
         \/ \E t \in Threads : Interrupt(t)
         \/ HandlerReturns
         \/ \E c \in Conns : Connect(c) \/ ClientSpeaks(c)
         \/ UNCHANGED vars
  PROVE  (QueueType /\ ControlType /\ Program)'
<1> USE ServerAssumption
    DEF AtWorker, WorkerGoto, Exited, Inv, ControlType, Program, queueVars, bossVars,
        signalVars, connVars
<1>1. QueueType'
  BY QueueTypes
  DEF WorkerStep, WorkerCallsGet, GetReturns, DropBadSocket, BeginConnection, EndConnection,
      CloseConnection, Interrupt, HandlerReturns, Connect, ClientSpeaks, vars
<1>2. ASSUME NEW w \in Workers, WorkerCallsGet(w) \/ GetReturns(w)
      PROVE  (ControlType /\ Program)'
  BY <1>2 DEF WorkerCallsGet, GetReturns, Q!CallGet, Q!Get, QueueType, Threads
<1>3. ASSUME NEW w \in Workers, DropBadSocket(w) \/ BeginConnection(w) \/ EndConnection(w)
      PROVE  (ControlType /\ Program)'
  BY <1>3 DEF DropBadSocket, BeginConnection, EndConnection
<1>4. ASSUME NEW w \in Workers, CloseConnection(w) PROVE (ControlType /\ Program)'
  BY <1>4 DEF CloseConnection
<1>5. ASSUME NEW t \in Threads, Interrupt(t) PROVE (ControlType /\ Program)'
  BY <1>5 DEF Interrupt
<1>6. CASE HandlerReturns
  <2>1. terminate' \in BOOLEAN
    BY <1>6, Zenon DEF HandlerReturns
  <2> QED
    <3>1. /\ handler' = NoThread
          /\ UNCHANGED <<boss, i, listening, worker, conn, spoken, queue, value>>
      BY <1>6 DEF HandlerReturns
    <3>2. ControlType'
      BY <2>1, <3>1
    <3>3. Program'
      BY <3>1
    <3> QED
      BY <1>1, <3>2, <3>3
<1>7. ASSUME NEW c \in Conns, Connect(c) \/ ClientSpeaks(c) PROVE (ControlType /\ Program)'
  BY <1>7 DEF Connect, ClientSpeaks
<1>8. CASE UNCHANGED vars
  <2>1. terminate' \in BOOLEAN
    BY <1>8, Zenon DEF vars
  <2> QED
    <3>1. UNCHANGED <<boss, i, listening, handler, worker, conn, spoken, queue, value>>
      BY <1>8 DEF vars
    <3>2. ControlType'
      BY <2>1, <3>1
    <3>3. Program'
      BY <3>1
    <3> QED
      BY <1>1, <3>2, <3>3
<1> QED
  BY <1>1, <1>2, <1>3, <1>4, <1>5, <1>6, <1>7, <1>8 DEF WorkerStep

-----------------------------------------------------------------------------
(* The owners.                                                             *)

\* Where nothing moves, and nothing is accepted or closed.
LEMMA OwnersKept ==
  ASSUME Inv,
         queue' = queue,
         \A c \in Conns : \A t \in Threads : Has(t, c)' <=> Has(t, c),
         \A c \in Conns : conn'[c] = "accepted" <=> conn[c] = "accepted"
  PROVE  Owned'
BY DEF Inv, Owned, Queued

\* accept: the connection had no owner, and now is the boss's.
LEMMA AcceptOwned == ASSUME Inv, NEW c \in Conns, Accept(c) PROVE Owned'
<1>1. /\ conn[c] = "backlog" /\ conn' = [conn EXCEPT ![c] = "accepted"]
      /\ value' = [value EXCEPT ![Boss] = c]
      /\ boss = "accept" /\ boss' = "put"
      /\ UNCHANGED <<queue, worker>>
  BY DEF Accept, At, Goto, Q!CallPut
<1>2. /\ value \in [Threads -> Conns \cup {BadSocket, NoItem}] /\ Boss \in Threads
      /\ conn \in [Conns -> {"new", "backlog", "accepted", "closed", "reset"}]
  BY DEF Inv, QueueType, ControlType, Threads
<1>3. \A t \in Threads, d \in Conns :
        Has(t, d)' <=> IF t = Boss THEN d = c ELSE Has(t, d)
  BY <1>1, <1>2 DEF Has, InHand
<1>4. /\ ~Queued(c) /\ \A t \in Threads : ~Has(t, c)
      /\ \A d \in Conns : ~Has(Boss, d)
  BY <1>1 DEF Inv, Owned, Has, InHand
<1>5. \A d \in Conns : conn'[d] = "accepted" <=> d = c \/ conn[d] = "accepted"
  BY <1>1, <1>2
<1>6. \A d \in Conns : Queued(d)' <=> Queued(d)
  BY <1>1 DEF Queued
<1> HIDE DEF Queued, Has
<1> QED
  BY <1>1, <1>2, <1>3, <1>4, <1>5, <1>6 DEF Inv, Owned

\* ml_safeq_put: out of the boss's hands, to the end of the queue.
LEMMA PutOwned == Inv /\ PutReturns => Owned'
<1> SUFFICES ASSUME Inv, PutReturns PROVE Owned'
  OBVIOUS
<1>1. /\ boss = "put" /\ boss' = "run"
      /\ queue' = Append(queue, value[Boss])
      /\ value' = [value EXCEPT ![Boss] = NoItem]
      /\ UNCHANGED <<worker, conn>>
  BY DEF PutReturns, At, Goto, signalVars, connVars, Q!Put
<1>2. /\ value \in [Threads -> Conns \cup {BadSocket, NoItem}] /\ Boss \in Threads
      /\ queue \in Seq(Conns \cup {BadSocket}) /\ value[Boss] \in Conns \cup {BadSocket}
  BY <1>1 DEF Inv, QueueType, Program, Threads
<1>3. /\ Len(queue') = Len(queue) + 1 /\ Len(queue) \in Nat
      /\ \A k \in 1 .. Len(queue) : queue'[k] = queue[k]
      /\ queue'[Len(queue) + 1] = value[Boss]
  BY <1>1, <1>2
<1>4. \A t \in Threads, d \in Conns : Has(t, d)' <=> t # Boss /\ Has(t, d)
  BY <1>1, <1>2, ServerAssumption DEF Has, InHand
<1>5. \A d \in Conns : Has(Boss, d) <=> value[Boss] = d
  BY <1>1 DEF Has, InHand
<1>6. \A d \in Conns : Queued(d)' <=> Queued(d) \/ Has(Boss, d)
  BY <1>3, <1>5 DEF Queued
<1>7. ASSUME NEW d \in Conns, NEW j \in 1 .. Len(queue'), NEW k \in 1 .. Len(queue'),
             queue'[j] = d, queue'[k] = d
      PROVE  j = k
  <2>1. CASE value[Boss] = d
    <3>1. ~Queued(d)
      BY <1>2, <1>5, <2>1 DEF Inv, Owned
    <3> QED
      BY <1>3, <1>7, <3>1 DEF Queued
  <2>2. CASE value[Boss] # d
    <3>1. j \in 1 .. Len(queue) /\ k \in 1 .. Len(queue) /\ queue[j] = d /\ queue[k] = d
      BY <1>3, <1>7, <2>2
    <3> QED
      BY <3>1 DEF Inv, Owned
  <2> QED
    BY <2>1, <2>2
<1>8. /\ \A c \in Conns : \A t, u \in Threads : Has(t, c)' /\ Has(u, c)' => t = u
      /\ \A c \in Conns : \A t \in Threads : Has(t, c)' => ~Queued(c)'
  BY <1>2, <1>4, <1>6 DEF Inv, Owned
<1>9. \A c \in Conns : conn'[c] = "accepted" <=> Queued(c)' \/ \E t \in Threads : Has(t, c)'
  BY <1>1, <1>2, <1>4, <1>6 DEF Inv, Owned
<1> QED
  BY <1>7, <1>8, <1>9 DEF Owned

\* ml_safeq_get: from the head of the queue into the worker's hands.
LEMMA GetOwned == ASSUME Inv, NEW w \in Workers, GetReturns(w) PROVE Owned'
<1>1. /\ worker[w] = "get" /\ worker' = [worker EXCEPT ![w] = "got"]
      /\ queue # <<>> /\ queue' = Tail(queue)
      /\ value' = [value EXCEPT ![w] = Head(queue)]
      /\ UNCHANGED <<boss, conn>>
  BY DEF GetReturns, AtWorker, WorkerGoto, bossVars, connVars, Q!Get
<1>2. /\ value \in [Threads -> Conns \cup {BadSocket, NoItem}]
      /\ worker \in [Workers -> {"absent", "loop", "get", "got", "processing", "close"}]
      /\ queue \in Seq(Conns \cup {BadSocket}) /\ w \in Threads /\ w # Boss
  BY ServerAssumption DEF Inv, QueueType, ControlType, Threads
<1>3. /\ Len(queue) \in Nat \ {0} /\ Len(queue') = Len(queue) - 1
      /\ \A k \in 1 .. Len(queue) - 1 : queue'[k] = queue[k + 1]
      /\ Head(queue) = queue[1]
  BY <1>1, <1>2
<1>4. \A t \in Threads, d \in Conns :
        Has(t, d)' <=> IF t = w THEN d = queue[1] ELSE Has(t, d)
  BY <1>1, <1>2, <1>3 DEF Has, InHand, Threads
<1>5. \A d \in Conns : ~Has(w, d)
  BY <1>1, <1>2 DEF Has, InHand
<1>6. ASSUME NEW d \in Conns
      PROVE  Queued(d)' <=> Queued(d) /\ d # queue[1]
  <2>1. ASSUME NEW k \in 1 .. Len(queue'), queue'[k] = d PROVE Queued(d) /\ d # queue[1]
    <3>1. k + 1 \in 1 .. Len(queue) /\ queue[k + 1] = d /\ k + 1 # 1
      BY <1>3, <2>1
    <3> QED
      BY <1>3, <3>1 DEF Inv, Owned, Queued
  <2>2. ASSUME NEW k \in 1 .. Len(queue), queue[k] = d, d # queue[1] PROVE Queued(d)'
    <3>1. k - 1 \in 1 .. Len(queue') /\ queue'[k - 1] = d
      BY <1>3, <2>2
    <3> QED
      BY <3>1 DEF Queued
  <2> QED
    BY <2>1, <2>2 DEF Queued
<1>7. \A d \in Conns : d = queue[1] => Queued(d)
  BY <1>3 DEF Queued
<1>8. ASSUME NEW d \in Conns, NEW j \in 1 .. Len(queue'), NEW k \in 1 .. Len(queue'),
             queue'[j] = d, queue'[k] = d
      PROVE  j = k
  <2>1. /\ j + 1 \in 1 .. Len(queue) /\ queue[j + 1] = d
        /\ k + 1 \in 1 .. Len(queue) /\ queue[k + 1] = d
    BY <1>3, <1>8
  <2>2. j + 1 = k + 1
    BY <2>1 DEF Inv, Owned
  <2> QED
    BY <2>2
<1>9. /\ \A c \in Conns : \A t, u \in Threads : Has(t, c)' /\ Has(u, c)' => t = u
      /\ \A c \in Conns : \A t \in Threads : Has(t, c)' => ~Queued(c)'
  BY <1>4, <1>6, <1>7 DEF Inv, Owned
<1>10. \A c \in Conns : conn'[c] = "accepted" <=> Queued(c)' \/ \E t \in Threads : Has(t, c)'
  BY <1>1, <1>2, <1>4, <1>5, <1>6, <1>7 DEF Inv, Owned
<1> QED
  BY <1>8, <1>9, <1>10 DEF Owned

\* close: the last owner gives the connection up.
LEMMA CloseOwned == ASSUME Inv, NEW w \in Workers, CloseConnection(w) PROVE Owned'
<1>1. /\ worker[w] = "close" /\ worker' = [worker EXCEPT ![w] = "loop"]
      /\ conn' = [conn EXCEPT ![value[w]] = "closed"]
      /\ UNCHANGED <<queue, value, boss>>
  BY DEF CloseConnection, AtWorker, WorkerGoto, queueVars, bossVars
<1>2. /\ worker \in [Workers -> {"absent", "loop", "get", "got", "processing", "close"}]
      /\ conn \in [Conns -> {"new", "backlog", "accepted", "closed", "reset"}]
      /\ w \in Threads /\ w # Boss
  BY ServerAssumption DEF Inv, ControlType, Threads
<1>3. \A t \in Threads, d \in Conns : Has(t, d)' <=> t # w /\ Has(t, d)
  BY <1>1, <1>2 DEF Has, InHand, Threads
<1>4. \A d \in Conns : Has(w, d) <=> value[w] = d
  BY <1>1, <1>2 DEF Has, InHand
<1>5. \A d \in Conns : Queued(d)' <=> Queued(d)
  BY <1>1 DEF Queued
<1>6. \A d \in Conns : conn'[d] = "accepted" <=> conn[d] = "accepted" /\ value[w] # d
  BY <1>1, <1>2
<1> HIDE DEF Queued, Has
<1> QED
  BY <1>1, <1>2, <1>3, <1>4, <1>5, <1>6 DEF Inv, Owned

\* Every step either is one of these or moves no connection.
LEMMA OwnedStep == Inv /\ [Next]_vars => Owned'
<1> SUFFICES ASSUME Inv, [Next]_vars PROVE Owned'
  OBVIOUS
<1> USE ServerAssumption
    DEF At, Goto, AtWorker, WorkerGoto, queueVars, bossVars, signalVars, connVars
<1>1. /\ value \in [Threads -> Conns \cup {BadSocket, NoItem}] /\ Boss \in Threads
      /\ worker \in [Workers -> {"absent", "loop", "get", "got", "processing", "close"}]
      /\ conn \in [Conns -> {"new", "backlog", "accepted", "closed", "reset"}]
      /\ \A w \in Workers : w \in Threads /\ w # Boss
  BY DEF Inv, QueueType, ControlType, Threads
<1>2. CASE /\ UNCHANGED <<queue, value, worker>>
           /\ boss' = "put" <=> boss = "put"
           /\ \A c \in Conns : conn'[c] = "accepted" <=> conn[c] = "accepted"
  <2>1. \A c \in Conns : \A t \in Threads : Has(t, c)' <=> Has(t, c)
    BY <1>2 DEF Has, InHand
  <2> QED
    BY <1>2, <2>1, OwnersKept
<1>3. CASE BossStep \/ AcceptFails
  <2>1. ASSUME NEW succeeds \in BOOLEAN, SetUpSocket(succeeds) PROVE Owned'
    BY <1>2, <2>1 DEF SetUpSocket
  <2>2. CASE SetUpQueue
    <3>1. queue' = queue /\ value' = value
      BY <2>2 DEF SetUpQueue, Q!Open, Inv, Program
    <3> QED
      BY <1>2, <2>2, <3>1 DEF SetUpQueue
  <2>3. CASE CreateWorker
    <3>1. i \in Workers /\ boss = "create" /\ boss' # "put"
      BY <2>3 DEF CreateWorker, Inv, ControlType, Program, Workers
    <3>2. /\ worker' = [worker EXCEPT ![i] = "loop"]
          /\ UNCHANGED <<queue, value, conn>>
      BY <2>3 DEF CreateWorker
    <3>3. ~InHand(i)
      <4>1. worker[i] = "absent"
        BY <3>1 DEF Inv, ControlType, Program
      <4> QED
        BY <1>1, <3>1, <4>1 DEF InHand
    <3>4. \A c \in Conns : \A t \in Threads : Has(t, c)' <=> Has(t, c)
      BY <1>1, <3>1, <3>2, <3>3 DEF Has, InHand, Threads
    <3> QED
      BY <3>2, <3>4, OwnersKept
  <2>4. CASE CreateFails \/ TestTerminate
    BY <1>2, <2>4 DEF CreateFails, TestTerminate
  <2>5. CASE AcceptOnShutSocket \/ AcceptFails
    <3>1. /\ boss = "accept" /\ boss' = "put"
          /\ value' = [value EXCEPT ![Boss] = BadSocket]
          /\ UNCHANGED <<queue, worker, conn>>
      BY <2>5 DEF AcceptOnShutSocket, AcceptFails, QueueBadSocket, Q!CallPut
    <3>2. \A c \in Conns : \A t \in Threads : Has(t, c)' <=> Has(t, c)
      BY <1>1, <3>1 DEF Has, InHand
    <3> QED
      BY <3>1, <3>2, OwnersKept
  <2> QED
    BY <1>3, <2>1, <2>2, <2>3, <2>4, <2>5, AcceptOwned, PutOwned DEF BossStep
<1>4. ASSUME NEW w \in Workers, WorkerStep(w) \/ GetReturns(w) PROVE Owned'
  <2>1. CASE WorkerCallsGet(w)
    <3>1. /\ worker[w] = "loop" /\ worker' = [worker EXCEPT ![w] = "get"]
          /\ value' = [value EXCEPT ![w] = NoItem]
          /\ UNCHANGED <<boss, queue, conn>>
      BY <2>1 DEF WorkerCallsGet, Q!CallGet
    <3>2. \A c \in Conns : \A t \in Threads : Has(t, c)' <=> Has(t, c)
      BY <1>1, <3>1 DEF Has, InHand, Threads
    <3> QED
      BY <3>1, <3>2, OwnersKept
  <2>2. CASE DropBadSocket(w)
    <3>1. /\ value[w] = BadSocket /\ worker' = [worker EXCEPT ![w] = "loop"]
          /\ UNCHANGED <<boss, queue, value, conn>>
      BY <2>2 DEF DropBadSocket
    <3>2. \A c \in Conns : \A t \in Threads : Has(t, c)' <=> Has(t, c)
      BY <1>1, <3>1 DEF Has, InHand, Threads
    <3> QED
      BY <3>1, <3>2, OwnersKept
  <2>3. CASE BeginConnection(w) \/ EndConnection(w)
    <3>1. /\ worker[w] \in {"got", "processing"}
          /\ \E to \in {"processing", "close"} : worker' = [worker EXCEPT ![w] = to]
          /\ UNCHANGED <<boss, queue, value, conn>>
      BY <2>3 DEF BeginConnection, EndConnection
    <3>2. \A c \in Conns : \A t \in Threads : Has(t, c)' <=> Has(t, c)
      BY <1>1, <3>1 DEF Has, InHand, Threads
    <3> QED
      BY <3>1, <3>2, OwnersKept
  <2> QED
    BY <1>4, <2>1, <2>2, <2>3, GetOwned, CloseOwned DEF WorkerStep
<1>5. ASSUME NEW t \in Threads, Interrupt(t) PROVE Owned'
  <2>1. \A c \in Conns : conn'[c] = "accepted" <=> conn[c] = "accepted"
    BY <1>5 DEF Interrupt
  <2> QED
    BY <1>2, <1>5, <2>1 DEF Interrupt
<1>6. ASSUME NEW c \in Conns, Connect(c) \/ ClientSpeaks(c) PROVE Owned'
  <2>1. \A d \in Conns : conn'[d] = "accepted" <=> conn[d] = "accepted"
    BY <1>1, <1>6 DEF Connect, ClientSpeaks
  <2> QED
    BY <1>2, <1>6, <2>1 DEF Connect, ClientSpeaks
<1>7. CASE HandlerReturns \/ UNCHANGED vars
  BY <1>2, <1>7 DEF HandlerReturns, vars
<1> QED
  BY <1>3, <1>4, <1>5, <1>6, <1>7 DEF Next, Stopped

\* All parts together.
LEMMA InvHolds == Spec => []Inv
<1>1. Inv /\ [Next]_vars => Inv'
  BY BossTypes, OtherTypes, OwnedStep DEF Inv, Next, Stopped
<1> QED
  BY InitInv, <1>1, PTL DEF Spec

-----------------------------------------------------------------------------

\* The types of all variables; the queue never holds more than its capacity.
THEOREM ServerTypes == Spec => []TypeOK
<1>1. Inv => TypeOK
  BY DEF Inv, QueueType, ControlType, TypeOK
<1> QED
  BY <1>1, InvHolds, PTL

(***************************************************************************)
(* Between accept and close a connection is in one place: no worker serves *)
(* what another one serves, closes it twice or loses it.                   *)
(***************************************************************************)
THEOREM ConnectionHasOneOwner == Spec => []OneOwner
<1>1. ASSUME Inv, NEW c \in Conns
      PROVE  Owners(c) = IF conn[c] = "accepted" THEN 1 ELSE 0
  <2> DEFINE hands == {t \in Threads : InHand(t) /\ value[t] = c}
             places == {k \in DOMAIN queue : queue[k] = c}
  <2>1. \A t : t \in hands <=> t \in Threads /\ Has(t, c)
    BY DEF Has
  <2>2. \A k : k \in places <=> k \in 1 .. Len(queue) /\ queue[k] = c
    BY <1>1 DEF Inv, QueueType
  <2>3. /\ Cardinality({}) = 0
        /\ \A x : Cardinality({x}) = 1
    BY FS_EmptySet, FS_Singleton
  <2>7. Owners(c) = Cardinality(hands) + Cardinality(places)
    BY DEF Owners
  <2> HIDE DEF hands, places
  <2>4. CASE conn[c] # "accepted"
    <3>1. hands = {} /\ places = {}
      BY <1>1, <2>1, <2>2, <2>4 DEF Inv, Owned, Queued
    <3> QED
      BY <2>3, <2>4, <2>7, <3>1
  <2>5. CASE conn[c] = "accepted" /\ Queued(c)
    <3>1. PICK k \in 1 .. Len(queue) : queue[k] = c
      BY <2>5 DEF Queued
    <3>2. hands = {} /\ places = {k}
      BY <1>1, <2>1, <2>2, <2>5, <3>1 DEF Inv, Owned
    <3>3. Cardinality(hands) = 0 /\ Cardinality(places) = 1
      BY <2>3, <3>2
    <3> QED
      BY <2>5, <2>7, <3>3
  <2>6. CASE conn[c] = "accepted" /\ ~Queued(c)
    <3>1. PICK t \in Threads : Has(t, c)
      BY <1>1, <2>6 DEF Inv, Owned
    <3>2. hands = {t} /\ places = {}
      BY <1>1, <2>1, <2>2, <2>6, <3>1 DEF Inv, Owned, Queued
    <3> QED
      BY <2>3, <2>6, <2>7, <3>2
  <2> QED
    BY <2>4, <2>5, <2>6
<1>2. Inv => OneOwner
  BY <1>1 DEF OneOwner
<1> QED
  BY <1>2, InvHolds, PTL

-----------------------------------------------------------------------------
(***************************************************************************)
(* The queue is used as BoundedFifo asks.  Calls says who is inside        *)
(* ml_safeq_put or ml_safeq_get, and when the array is there.              *)
(***************************************************************************)
Calls ==
  /\ \A t \in Threads :
       t \in pending <=> IF t = Boss THEN boss = "put" ELSE worker[t] = "get"
  /\ boss \in {"socket", "queue"} => ~open
  /\ boss \in {"create", "run", "accept", "put"} => open
  /\ \A w \in Workers : worker[w] # "absent" => open

\* Nobody calls before the queue exists.
LEMMA InitCalls == Init => Calls
BY ServerAssumption DEF Init, Q!Init, Calls, Threads

\* server.c.
LEMMA BossCalls == ASSUME Inv, Calls, BossStep \/ AcceptFails PROVE Calls'
<1> USE ServerAssumption DEF At, Goto, queueVars, bossVars, signalVars, connVars
<1>1. /\ worker \in [Workers -> {"absent", "loop", "get", "got", "processing", "close"}]
      /\ Boss \in Threads /\ Boss \notin Workers
      /\ \A t \in Threads : t = Boss \/ t \in Workers
      /\ \A w \in Workers : w \in Threads
  BY DEF Inv, ControlType, Threads
<1>2. CASE \/ \E succeeds \in BOOLEAN : SetUpSocket(succeeds)
           \/ CreateFails \/ TestTerminate
  <2>1. /\ UNCHANGED <<open, pending, worker>> /\ boss # "put" /\ boss' # "put"
        /\ boss' \in {"socket", "queue"} => boss \in {"socket", "queue"}
        /\ boss' \in {"create", "run", "accept", "put"} =>
             boss \in {"create", "run", "accept", "put"}
    BY <1>2 DEF SetUpSocket, CreateFails, TestTerminate
  <2> QED
    BY <1>1, <2>1 DEF Calls
<1>3. CASE CreateWorker
  <2>1. i \in Workers /\ worker' = [worker EXCEPT ![i] = "loop"] /\ worker[i] = "absent"
    BY <1>3 DEF CreateWorker, Inv, ControlType, Program, Workers
  <2>2. \A w \in Workers : worker'[w] = "get" <=> worker[w] = "get"
    BY <1>1, <2>1
  <2>3. boss = "create" /\ boss' \in {"create", "run"} /\ UNCHANGED <<open, pending>>
    BY <1>3 DEF CreateWorker
  <2> QED
    BY <1>1, <2>2, <2>3 DEF Calls
<1>4. CASE SetUpQueue
  <2>1. \A w \in Workers : worker[w] = "absent"
    BY <1>4 DEF SetUpQueue, Inv, Program, Workers
  <2>2. /\ boss = "queue" /\ UNCHANGED <<pending, worker>>
        /\ \/ boss' = "create" /\ open' = TRUE
           \/ boss' = "exited" /\ open' = open
    BY <1>4 DEF SetUpQueue, Q!Open
  <2> QED
    BY <1>1, <2>1, <2>2 DEF Calls
<1>5. CASE AcceptFails \/ AcceptOnShutSocket \/ \E c \in Conns : Accept(c)
  <2>1. /\ pending' = pending \cup {Boss} /\ boss = "accept" /\ boss' = "put"
        /\ UNCHANGED <<open, worker>>
    BY <1>5 DEF AcceptFails, AcceptOnShutSocket, QueueBadSocket, Accept, Q!CallPut
  <2> QED
    BY <1>1, <2>1 DEF Calls
<1>6. CASE PutReturns
  <2>1. /\ pending' = pending \ {Boss} /\ boss = "put" /\ boss' = "run"
        /\ UNCHANGED <<open, worker>>
    BY <1>6 DEF PutReturns, Q!Put
  <2> QED
    BY <1>1, <2>1 DEF Calls
<1> QED
  BY <1>2, <1>3, <1>4, <1>5, <1>6 DEF BossStep

\* ml_worker().
LEMMA WorkerCalls ==
  ASSUME Inv, Calls, NEW w \in Workers, WorkerStep(w) \/ GetReturns(w)
  PROVE  Calls'
<1> USE ServerAssumption DEF AtWorker, WorkerGoto, queueVars, bossVars
<1>1. /\ worker \in [Workers -> {"absent", "loop", "get", "got", "processing", "close"}]
      /\ w \in Threads /\ w # Boss
      /\ \A t \in Threads : t = Boss \/ t \in Workers
  BY DEF Inv, ControlType, Threads
<1>2. CASE DropBadSocket(w) \/ BeginConnection(w) \/ EndConnection(w) \/ CloseConnection(w)
  <2>1. /\ worker[w] \notin {"absent", "get"} /\ UNCHANGED <<open, pending, boss>>
        /\ \E to \in {"loop", "processing", "close"} : worker' = [worker EXCEPT ![w] = to]
    BY <1>2 DEF DropBadSocket, BeginConnection, EndConnection, CloseConnection
  <2>2. \A v \in Workers :
          /\ worker'[v] = "get" <=> worker[v] = "get"
          /\ worker'[v] # "absent" <=> worker[v] # "absent"
    BY <1>1, <2>1
  <2> QED
    BY <1>1, <2>1, <2>2 DEF Calls
<1>3. CASE WorkerCallsGet(w)
  <2>1. /\ pending' = pending \cup {w} /\ worker[w] = "loop"
        /\ worker' = [worker EXCEPT ![w] = "get"] /\ UNCHANGED <<open, boss>>
    BY <1>3 DEF WorkerCallsGet, Q!CallGet
  <2> QED
    BY <1>1, <2>1 DEF Calls
<1>4. CASE GetReturns(w)
  <2>1. /\ pending' = pending \ {w} /\ worker[w] = "get"
        /\ worker' = [worker EXCEPT ![w] = "got"] /\ UNCHANGED <<open, boss>>
    BY <1>4 DEF GetReturns, Q!Get
  <2> QED
    BY <1>1, <2>1 DEF Calls
<1> QED
  BY <1>2, <1>3, <1>4 DEF WorkerStep

\* Every step.
LEMMA CallsStep == ASSUME Inv, Calls, [Next]_vars PROVE Calls'
<1>1. CASE \/ \E t \in Threads : Interrupt(t)
           \/ HandlerReturns
           \/ \E c \in Conns : Connect(c) \/ ClientSpeaks(c)
           \/ UNCHANGED vars
  <2>1. UNCHANGED <<open, pending, boss, worker>>
    BY <1>1 DEF Interrupt, HandlerReturns, Connect, ClientSpeaks, vars, queueVars, bossVars
  <2> QED
    BY <2>1 DEF Calls
<1> QED
  BY <1>1, BossCalls, WorkerCalls DEF Next, Stopped

\* server.c: whenever SIGINT comes and whatever initialize failed at, the queue is
\* set up before it is used, and no thread begins a call inside a call.
THEOREM QueueIsUsedAsPromised == Spec => []QueueUsedAsPromised
<1>1. Inv /\ Calls => QueueUsedAsPromised
  <2> SUFFICES ASSUME Inv, Calls PROVE QueueUsedAsPromised
    OBVIOUS
  <2>1. Boss \in Threads /\ \A w \in Workers : w \in Threads /\ w # Boss
    BY ServerAssumption DEF Threads
  <2>2. boss = "queue" => pending = {}
    BY DEF Calls, Inv, Program, QueueType, Threads, Workers
  <2> QED
    BY <2>1, <2>2 DEF Calls, QueueUsedAsPromised
<1> QED
  BY <1>1, InitCalls, CallsStep, InvHolds, PTL DEF Spec

\* Whatever the server does with its queue, BoundedFifo allows: what SafeQueue
\* was shown to implement is what the server was shown to use.
THEOREM ServerUsesAFifo == Spec => Q!Spec
<1>1. Init => Q!Init
  BY DEF Init
<1>2. ASSUME [Next]_vars PROVE [Q!Next]_(Q!fifoVars)
  <2>1. CASE BossStep \/ AcceptFails
    BY <2>1
    DEF BossStep, SetUpSocket, SetUpQueue, CreateWorker, CreateFails, TestTerminate, Accept,
        AcceptOnShutSocket, AcceptFails, QueueBadSocket, PutReturns, Q!Next, queueVars, Q!fifoVars
  <2>2. ASSUME NEW w \in Workers, WorkerStep(w) \/ GetReturns(w) PROVE [Q!Next]_(Q!fifoVars)
    BY <2>2
    DEF WorkerStep, WorkerCallsGet, GetReturns, DropBadSocket, BeginConnection, EndConnection,
        CloseConnection, Q!Next, queueVars, Q!fifoVars
  <2>3. CASE \/ \E t \in Threads : Interrupt(t)
             \/ HandlerReturns
             \/ \E c \in Conns : Connect(c) \/ ClientSpeaks(c)
             \/ UNCHANGED vars
    BY <2>3 DEF Interrupt, HandlerReturns, Connect, ClientSpeaks, vars, queueVars, Q!fifoVars
  <2> QED
    BY <1>2, <2>1, <2>2, <2>3 DEF Next, Stopped
<1> QED
  BY <1>1, <1>2, PTL DEF Spec, Q!Spec

-----------------------------------------------------------------------------
(***************************************************************************)
(* The promise to clients.  ServiceView says what waiting, ahead and       *)
(* serving of ConnectionService are in terms of the places of Owned; each  *)
(* step of the server is then one of the service or none.                  *)
(***************************************************************************)
\* What is waiting, and in which order, in terms of the places.
InFront(b, c) ==
  \E k \in 1 .. Len(queue) :
    queue[k] = b /\ (Has(Boss, c) \/ \E l \in 1 .. Len(queue) : k < l /\ queue[l] = c)

\* ConnectionService's variables, place by place.
ServiceView ==
  /\ \A c \in Conns : c \in Waiting <=> Has(Boss, c) \/ Queued(c)
  /\ Waiting \subseteq Conns
  /\ \A b, c \in Conns : <<b, c>> \in Ahead <=> InFront(b, c)
  /\ Ahead \subseteq Conns \X Conns
  /\ \A w \in Workers, c \in Conns : Serving[w] = c <=> Has(w, c)
  /\ Serving \in [Workers -> Conns \cup {NoItem}]

\* ... which is what they are.
LEMMA ServiceState == QueueType => ServiceView
<1> SUFFICES ASSUME QueueType PROVE ServiceView
  OBVIOUS
<1>1. DOMAIN queue = 1 .. Len(queue)
  BY DEF QueueType
<1>2. Boss \notin Workers /\ NoItem \notin Conns
  BY ServerAssumption
<1>3. \A c \in Conns : Has(Boss, c) <=> boss = "put" /\ value[Boss] = c
  BY DEF Has, InHand
<1>4. \A c \in Conns : c \in Waiting <=> Has(Boss, c) \/ Queued(c)
  BY <1>1, <1>3 DEF Waiting, Queued
<1>5. \A b, c \in Conns : <<b, c>> \in Ahead <=> InFront(b, c)
  BY <1>1, <1>3 DEF Ahead, InFront
<1>6. \A w \in Workers, c \in Conns : Serving[w] = c <=> Has(w, c)
  BY <1>2 DEF Serving, Has
<1>7. Serving \in [Workers -> Conns \cup {NoItem}]
  BY DEF Serving
<1> QED
  BY <1>4, <1>5, <1>6, <1>7 DEF Waiting, Ahead, ServiceView

\* Equal places, equal state of the service.
LEMMA SameService ==
  ASSUME ServiceView, ServiceView',
         \A c \in Conns : (Has(Boss, c) \/ Queued(c))' <=> Has(Boss, c) \/ Queued(c),
         \A b, c \in Conns : InFront(b, c)' <=> InFront(b, c)
  PROVE  Waiting' = Waiting /\ Ahead' = Ahead
<1>1. Waiting' = Waiting
  BY DEF ServiceView
<1>2. \A p \in Conns \X Conns : p \in Ahead' <=> p \in Ahead
  BY DEF ServiceView
<1> QED
  BY <1>1, <1>2 DEF ServiceView

\* Equal hands, equal service.
LEMMA SameServing ==
  ASSUME ServiceView, ServiceView',
         \A w \in Workers, c \in Conns : Has(w, c)' <=> Has(w, c)
  PROVE  Serving' = Serving
<1>1. \A w \in Workers : Serving'[w] = Serving[w]
  BY DEF ServiceView
<1> QED
  BY <1>1 DEF ServiceView

\* Steps that move no connection.
LEMMA QuietService ==
  ASSUME ServiceView, ServiceView',
         queue' = queue,
         \A t \in Threads, c \in Conns : Has(t, c)' <=> Has(t, c),
         \A c \in Conns : conn'[c] = "closed" <=> conn[c] = "closed"
  PROVE  UNCHANGED Service!serviceVars
<1>1. Boss \in Threads /\ \A w \in Workers : w \in Threads
  BY DEF Threads
<1>2. Waiting' = Waiting /\ Ahead' = Ahead
  BY <1>1, SameService DEF InFront, Queued
<1>3. Serving' = Serving
  BY <1>1, SameServing
<1>4. Closed' = Closed
  BY DEF Closed
<1> QED
  BY <1>2, <1>3, <1>4 DEF Service!serviceVars

\* accept: behind everything that waits.
LEMMA AcceptServes ==
  ASSUME Inv, ServiceView, ServiceView', NEW c \in Conns, Accept(c)
  PROVE  Service!Accept(c)
<1>1. /\ boss = "accept" /\ boss' = "put" /\ conn[c] = "backlog"
      /\ conn' = [conn EXCEPT ![c] = "accepted"] /\ value' = [value EXCEPT ![Boss] = c]
      /\ UNCHANGED <<queue, worker>>
  BY DEF Accept, At, Goto, Q!CallPut
<1>2. /\ value \in [Threads -> Conns \cup {BadSocket, NoItem}] /\ Boss \in Threads
      /\ conn \in [Conns -> {"new", "backlog", "accepted", "closed", "reset"}]
      /\ \A w \in Workers : w \in Threads /\ w # Boss
  BY ServerAssumption DEF Inv, QueueType, ControlType, Threads
<1>3. \A d \in Conns : ~Has(Boss, d) /\ (Has(Boss, d)' <=> d = c)
  BY <1>1, <1>2 DEF Has, InHand
<1>4. \A w \in Workers, d \in Conns : Has(w, d)' <=> Has(w, d)
  BY <1>1, <1>2 DEF Has, InHand
<1>5. ~Queued(c) /\ \A t \in Threads : ~Has(t, c)
  BY <1>1 DEF Inv, Owned
<1>6. \A d \in Conns : Queued(d)' <=> Queued(d)
  BY <1>1 DEF Queued
<1>7. Waiting' = Waiting \cup {c}
  BY <1>3, <1>6 DEF ServiceView
<1>8. \A b, d \in Conns : InFront(b, d)' <=> InFront(b, d) \/ (b \in Waiting /\ d = c)
  BY <1>1, <1>3 DEF InFront, Queued, ServiceView
<1>9. Ahead' = Ahead \cup (Waiting \X {c})
  <2>1. \A p \in Conns \X Conns : p \in Ahead' <=> p \in Ahead \/ p \in Waiting \X {c}
    BY <1>8 DEF ServiceView
  <2> QED
    BY <2>1 DEF ServiceView
<1>10. Serving' = Serving /\ Closed' = Closed
  BY <1>1, <1>2, <1>4, SameServing DEF Closed
<1>11. c \notin Waiting \cup Closed /\ \A w \in Workers : Serving[w] # c
  BY <1>1, <1>2, <1>5 DEF ServiceView, Closed
<1> QED
  BY <1>7, <1>9, <1>10, <1>11 DEF Service!Accept

\* ml_safeq_put: from the boss's hands to the end of the queue is no step for
\* the client, and -1 is nobody.
LEMMA PutServes ==
  ASSUME Inv, ServiceView, ServiceView', PutReturns
  PROVE  UNCHANGED Service!serviceVars
<1>1. /\ boss = "put" /\ boss' # "put"
      /\ queue' = Append(queue, value[Boss]) /\ value' = [value EXCEPT ![Boss] = NoItem]
      /\ UNCHANGED <<worker, conn>>
  BY DEF PutReturns, At, Goto, Q!Put, connVars
<1>2. /\ value \in [Threads -> Conns \cup {BadSocket, NoItem}] /\ Boss \in Threads
      /\ queue \in Seq(Conns \cup {BadSocket})
      /\ \A w \in Workers : w \in Threads /\ w # Boss
  BY ServerAssumption DEF Inv, QueueType, Threads
<1>3. value[Boss] \in Conns \cup {BadSocket}
  BY <1>1 DEF Inv, Program
<1>4. /\ Len(queue') = Len(queue) + 1 /\ Len(queue) \in Nat
      /\ \A k \in 1 .. Len(queue) : queue'[k] = queue[k]
      /\ queue'[Len(queue) + 1] = value[Boss]
  BY <1>1, <1>2, <1>3
<1>5. \A d \in Conns : (Has(Boss, d) <=> value[Boss] = d) /\ ~Has(Boss, d)'
  BY <1>1, <1>3, ServerAssumption DEF Has, InHand
<1>6. \A w \in Workers, d \in Conns : Has(w, d)' <=> Has(w, d)
  BY <1>1, <1>2 DEF Has, InHand
<1>7. \A d \in Conns : (Has(Boss, d) \/ Queued(d))' <=> Has(Boss, d) \/ Queued(d)
  BY <1>4, <1>5 DEF Queued
<1>8. ASSUME NEW b \in Conns, NEW d \in Conns
      PROVE  InFront(b, d)' <=> InFront(b, d)
  <2>1. ASSUME NEW k \in 1 .. Len(queue'), NEW l \in 1 .. Len(queue'),
               k < l, queue'[k] = b, queue'[l] = d
        PROVE  InFront(b, d)
    BY <1>4, <1>5, <2>1 DEF InFront
  <2>2. ASSUME NEW k \in 1 .. Len(queue), queue[k] = b,
               Has(Boss, d) \/ \E l \in 1 .. Len(queue) : k < l /\ queue[l] = d
        PROVE  InFront(b, d)'
    BY <1>4, <1>5, <2>2 DEF InFront
  <2> QED
    BY <1>5, <2>1, <2>2 DEF InFront
<1> QED
  BY <1>1, <1>6, <1>7, <1>8, SameService, SameServing DEF Service!serviceVars, Closed

\* ml_safeq_get: the worker takes the one that has waited longest, or a -1.
LEMMA GetServes ==
  ASSUME Inv, ServiceView, ServiceView', NEW w \in Workers, GetReturns(w)
  PROVE  \/ \E c \in Conns : Service!Take(w, c)
         \/ UNCHANGED Service!serviceVars
<1>1. /\ worker[w] = "get" /\ worker' = [worker EXCEPT ![w] = "got"]
      /\ queue # <<>> /\ queue' = Tail(queue)
      /\ value' = [value EXCEPT ![w] = Head(queue)]
      /\ UNCHANGED <<boss, conn>>
  BY DEF GetReturns, AtWorker, WorkerGoto, bossVars, connVars, Q!Get
<1>2. /\ value \in [Threads -> Conns \cup {BadSocket, NoItem}]
      /\ worker \in [Workers -> {"absent", "loop", "get", "got", "processing", "close"}]
      /\ queue \in Seq(Conns \cup {BadSocket}) /\ w \in Threads /\ w # Boss /\ Boss \in Threads
      /\ \A v \in Workers : v \in Threads /\ v # Boss
      /\ BadSocket \notin Conns
  BY ServerAssumption DEF Inv, QueueType, ControlType, Threads
<1>3. /\ Len(queue) \in Nat \ {0} /\ Len(queue') = Len(queue) - 1
      /\ \A k \in 1 .. Len(queue) - 1 : queue'[k] = queue[k + 1]
      /\ Head(queue) = queue[1] /\ queue[1] \in Conns \cup {BadSocket}
  BY <1>1, <1>2
<1> DEFINE h == queue[1]
<1>4. /\ \A d \in Conns : Has(Boss, d)' <=> Has(Boss, d)
      /\ \A v \in Workers, d \in Conns : Has(v, d)' <=> IF v = w THEN d = h ELSE Has(v, d)
      /\ \A d \in Conns : ~Has(w, d)
  BY <1>1, <1>2, <1>3 DEF Has, InHand
<1>5. \A d \in Conns : Queued(d) <=> Queued(d)' \/ d = h
  <2>1. ASSUME NEW d \in Conns, Queued(d), d # h PROVE Queued(d)'
    <3>1. PICK k \in 1 .. Len(queue) : queue[k] = d
      BY <2>1 DEF Queued
    <3>2. k - 1 \in 1 .. Len(queue') /\ queue'[k - 1] = d
      BY <1>3, <2>1, <3>1
    <3> QED
      BY <3>2 DEF Queued
  <2>2. ASSUME NEW d \in Conns, Queued(d)' PROVE Queued(d)
    <3>1. PICK k \in 1 .. Len(queue') : queue'[k] = d
      BY <2>2 DEF Queued
    <3>2. k + 1 \in 1 .. Len(queue) /\ queue[k + 1] = d
      BY <1>3, <3>1
    <3> QED
      BY <3>2 DEF Queued
  <2>3. Queued(h)
    BY <1>3 DEF Queued
  <2> QED
    BY <2>1, <2>2, <2>3
<1>6. \A k \in 2 .. Len(queue) : queue[k] = h => h \notin Conns
  BY <1>3 DEF Inv, Owned
<1>7. \A d \in Conns : d = h => ~Queued(d)' /\ ~Has(Boss, d)
  <2>1. ASSUME NEW k \in 1 .. Len(queue'), queue'[k] = h PROVE h \notin Conns
    <3>1. k + 1 \in 2 .. Len(queue) /\ queue[k + 1] = h
      BY <1>3, <2>1
    <3> QED
      BY <1>6, <3>1
  <2>2. Queued(h)
    BY <1>3 DEF Queued
  <2> QED
    BY <1>2, <2>1, <2>2 DEF Inv, Owned, Queued
<1>8. ASSUME NEW b \in Conns, NEW d \in Conns
      PROVE  InFront(b, d)' <=> InFront(b, d) /\ b # h
  <2>1. ASSUME InFront(b, d)' PROVE InFront(b, d) /\ b # h
    <3>1. PICK k \in 1 .. Len(queue') :
            /\ queue'[k] = b
            /\ Has(Boss, d)' \/ \E l \in 1 .. Len(queue') : k < l /\ queue'[l] = d
      BY <2>1 DEF InFront
    <3>2. k + 1 \in 1 .. Len(queue) /\ queue[k + 1] = b /\ b # h
      BY <1>3, <1>6, <3>1
    <3>3. ASSUME NEW l \in 1 .. Len(queue'), k < l, queue'[l] = d PROVE InFront(b, d)
      <4>1. l + 1 \in 1 .. Len(queue) /\ queue[l + 1] = d /\ k + 1 < l + 1
        BY <1>3, <3>3
      <4> QED
        BY <3>2, <4>1 DEF InFront
    <3>4. Has(Boss, d) => InFront(b, d)
      BY <3>2 DEF InFront
    <3> QED
      BY <1>4, <3>1, <3>2, <3>3, <3>4
  <2>2. ASSUME InFront(b, d), b # h PROVE InFront(b, d)'
    <3>1. PICK k \in 1 .. Len(queue) :
            /\ queue[k] = b
            /\ Has(Boss, d) \/ \E l \in 1 .. Len(queue) : k < l /\ queue[l] = d
      BY <2>2 DEF InFront
    <3>2. k - 1 \in 1 .. Len(queue') /\ queue'[k - 1] = b
      BY <1>3, <2>2, <3>1
    <3>3. ASSUME NEW l \in 1 .. Len(queue), k < l, queue[l] = d PROVE InFront(b, d)'
      <4>1. l - 1 \in 1 .. Len(queue') /\ queue'[l - 1] = d /\ k - 1 < l - 1
        BY <1>3, <3>2, <3>3
      <4> QED
        BY <3>2, <4>1 DEF InFront
    <3>4. Has(Boss, d) => InFront(b, d)'
      BY <1>4, <3>2 DEF InFront
    <3> QED
      BY <3>1, <3>3, <3>4
  <2> QED
    BY <2>1, <2>2
<1>9. Closed' = Closed
  BY <1>1 DEF Closed
<1>10. CASE h \in Conns
  <2>1. Serving[w] = NoItem
    BY <1>4 DEF ServiceView
  <2>2. h \in Waiting
    BY <1>5, <1>10 DEF ServiceView
  <2>3. \A b \in Conns : ~InFront(b, h)
    <3>1. ASSUME NEW k \in 1 .. Len(queue), NEW l \in 1 .. Len(queue), k < l PROVE queue[l] # h
      BY <1>3, <1>6, <1>10, <3>1
    <3> QED
      BY <1>7, <1>10, <3>1 DEF InFront
  <2>4. \A b \in Waiting : <<b, h>> \notin Ahead
    BY <1>10, <2>3 DEF ServiceView
  <2>5. Waiting' = Waiting \ {h}
    BY <1>4, <1>5, <1>7 DEF ServiceView
  <2>6. Ahead' = Ahead \ ({h} \X Waiting)
    <3>1. \A b, d \in Conns : InFront(b, d) => Has(Boss, d) \/ Queued(d)
      BY DEF InFront, Queued
    <3>2. \A b, d \in Conns : InFront(b, d) => d \in Waiting
      BY <3>1 DEF ServiceView
    <3>3. \A b, d \in Conns :
            <<b, d>> \in Ahead' <=> <<b, d>> \in Ahead /\ ~(b = h /\ d \in Waiting)
      BY <1>8, <3>2 DEF ServiceView
    <3>4. \A p \in Conns \X Conns : p \in Ahead' <=> p \in Ahead /\ p \notin {h} \X Waiting
      BY <3>3
    <3> QED
      BY <3>4 DEF ServiceView
  <2>7. Serving' = [Serving EXCEPT ![w] = h]
    <3>1. \A v \in Workers : Serving'[v] = IF v = w THEN h ELSE Serving[v]
      BY <1>4, <1>10 DEF ServiceView
    <3> QED
      BY <3>1 DEF ServiceView
  <2>8. Service!Take(w, h)
    BY <1>9, <2>1, <2>2, <2>4, <2>5, <2>6, <2>7 DEF Service!Take
  <2> QED
    BY <1>10, <2>8
<1>11. CASE h \notin Conns
  <2>1. Waiting' = Waiting /\ Ahead' = Ahead
    BY <1>4, <1>5, <1>8, <1>11, SameService
  <2>2. Serving' = Serving
    BY <1>4, <1>11, SameServing
  <2> QED
    BY <1>9, <2>1, <2>2 DEF Service!serviceVars
<1> QED
  BY <1>10, <1>11

\* close: the worker is done with its connection.
LEMMA CloseServes ==
  ASSUME Inv, ServiceView, ServiceView', NEW w \in Workers, CloseConnection(w)
  PROVE  Service!Close(w) \/ UNCHANGED Service!serviceVars
<1>1. /\ worker[w] = "close" /\ worker' = [worker EXCEPT ![w] = "loop"]
      /\ conn' = [conn EXCEPT ![value[w]] = "closed"]
      /\ UNCHANGED <<queue, value, boss>>
  BY DEF CloseConnection, AtWorker, WorkerGoto, queueVars, bossVars
<1>2. /\ worker \in [Workers -> {"absent", "loop", "get", "got", "processing", "close"}]
      /\ conn \in [Conns -> {"new", "backlog", "accepted", "closed", "reset"}]
      /\ \A v \in Workers : v \in Threads /\ v # Boss
      /\ NoItem \notin Conns
  BY ServerAssumption DEF Inv, ControlType, Threads
<1>3. /\ \A d \in Conns : Has(Boss, d)' <=> Has(Boss, d)
      /\ \A v \in Workers, d \in Conns : Has(v, d)' <=> v # w /\ Has(v, d)
      /\ \A d \in Conns : Has(w, d) <=> value[w] = d
  BY <1>1, <1>2 DEF Has, InHand
<1>4. Waiting' = Waiting /\ Ahead' = Ahead
  BY <1>1, <1>3, SameService DEF Queued, InFront
<1>5. Closed' = IF value[w] \in Conns THEN Closed \cup {value[w]} ELSE Closed
  BY <1>1, <1>2 DEF Closed
<1>6. CASE value[w] \in Conns
  <2>1. Serving[w] = value[w]
    BY <1>3, <1>6 DEF ServiceView
  <2>2. \A v \in Workers : Serving'[v] = IF v = w THEN NoItem ELSE Serving[v]
    BY <1>3 DEF ServiceView
  <2>3. Serving' = [Serving EXCEPT ![w] = NoItem]
    BY <2>2 DEF ServiceView
  <2> QED
    BY <1>2, <1>4, <1>5, <1>6, <2>1, <2>3 DEF Service!Close
<1>7. CASE value[w] \notin Conns
  BY <1>3, <1>4, <1>5, <1>7, SameServing DEF Service!serviceVars
<1> QED
  BY <1>6, <1>7

\* server.c: only accept is a step of the service, and only when it succeeds.
LEMMA BossServes ==
  ASSUME Inv, ServiceView, ServiceView', BossStep \/ AcceptFails
  PROVE  [Service!Next]_(Service!serviceVars)
<1> USE DEF At, Goto, queueVars, bossVars, signalVars, connVars
<1>1. /\ \A w \in Workers : w \in Threads /\ w # Boss
      /\ \A t \in Threads : t = Boss \/ t \in Workers
      /\ Boss \in Threads /\ BadSocket \notin Conns
      /\ value \in [Threads -> Conns \cup {BadSocket, NoItem}]
      /\ worker \in [Workers -> {"absent", "loop", "get", "got", "processing", "close"}]
  BY ServerAssumption DEF Threads, Inv, ControlType, QueueType
<1>2. CASE /\ UNCHANGED <<queue, value, worker, conn>>
           /\ boss # "put" /\ boss' # "put"
  BY <1>1, <1>2, QuietService DEF Has, InHand
<1>3. CASE \/ \E succeeds \in BOOLEAN : SetUpSocket(succeeds)
           \/ SetUpQueue \/ CreateFails \/ TestTerminate
  <2>1. boss = "queue" => queue = <<>>
    BY DEF Inv, Program
  <2> QED
    BY <1>2, <1>3, <2>1 DEF SetUpSocket, SetUpQueue, CreateFails, TestTerminate, Q!Open
<1>4. CASE CreateWorker
  <2>1. /\ boss = "create" /\ boss' # "put" /\ UNCHANGED <<queue, value, conn>>
        /\ worker' = [worker EXCEPT ![i] = "loop"]
    BY <1>4 DEF CreateWorker
  <2>2. \A w \in Workers : w = i => worker[w] = "absent"
    BY <2>1, ServerAssumption DEF Inv, Program, ControlType, Workers
  <2>3. \A t \in Threads, c \in Conns : Has(t, c)' <=> Has(t, c)
    BY <1>1, <2>1, <2>2 DEF Has, InHand
  <2> QED
    BY <2>1, <2>3, QuietService
<1>5. ASSUME NEW c \in Conns, Accept(c) PROVE [Service!Next]_(Service!serviceVars)
  BY <1>5, AcceptServes DEF Service!Next
<1>6. CASE PutReturns
  BY <1>6, PutServes
<1>7. CASE AcceptOnShutSocket \/ AcceptFails
  <2>1. /\ boss = "accept" /\ boss' = "put" /\ UNCHANGED <<queue, worker, conn>>
        /\ value' = [value EXCEPT ![Boss] = BadSocket]
    BY <1>7 DEF AcceptOnShutSocket, AcceptFails, QueueBadSocket, Q!CallPut
  <2>2. \A t \in Threads, c \in Conns : Has(t, c)' <=> Has(t, c)
    BY <1>1, <2>1 DEF Has, InHand
  <2> QED
    BY <2>1, <2>2, QuietService
<1> QED
  BY <1>3, <1>4, <1>5, <1>6, <1>7 DEF BossStep

\* ml_worker(): a get and a close are steps of the service.
LEMMA WorkerServes ==
  ASSUME Inv, ServiceView, ServiceView', NEW w \in Workers, WorkerStep(w) \/ GetReturns(w)
  PROVE  [Service!Next]_(Service!serviceVars)
<1> USE DEF AtWorker, WorkerGoto, queueVars, bossVars, signalVars, connVars
<1>1. /\ \A v \in Workers : v \in Threads /\ v # Boss
      /\ \A t \in Threads : t = Boss \/ t \in Workers
      /\ BadSocket \notin Conns
      /\ value \in [Threads -> Conns \cup {BadSocket, NoItem}]
      /\ worker \in [Workers -> {"absent", "loop", "get", "got", "processing", "close"}]
  BY ServerAssumption DEF Threads, Inv, ControlType, QueueType
<1>2. CASE WorkerCallsGet(w)
  <2>1. /\ worker[w] = "loop" /\ worker' = [worker EXCEPT ![w] = "get"]
        /\ value' = [value EXCEPT ![w] = NoItem] /\ UNCHANGED <<queue, boss, conn>>
    BY <1>2 DEF WorkerCallsGet, Q!CallGet
  <2>2. \A t \in Threads, c \in Conns : Has(t, c)' <=> Has(t, c)
    BY <1>1, <2>1 DEF Has, InHand
  <2> QED
    BY <2>1, <2>2, QuietService
<1>3. CASE GetReturns(w)
  BY <1>3, GetServes DEF Service!Next
<1>4. CASE DropBadSocket(w)
  <2>1. /\ worker[w] = "got" /\ value[w] = BadSocket /\ worker' = [worker EXCEPT ![w] = "loop"]
        /\ UNCHANGED <<queue, value, boss, conn>>
    BY <1>4 DEF DropBadSocket
  <2>2. \A t \in Threads, c \in Conns : Has(t, c)' <=> Has(t, c)
    BY <1>1, <2>1 DEF Has, InHand
  <2> QED
    BY <2>1, <2>2, QuietService
<1>5. CASE BeginConnection(w) \/ EndConnection(w)
  <2>1. /\ worker[w] \in {"got", "processing"} /\ UNCHANGED <<queue, value, boss, conn>>
        /\ \E to \in {"processing", "close"} : worker' = [worker EXCEPT ![w] = to]
    BY <1>5 DEF BeginConnection, EndConnection
  <2>2. \A t \in Threads, c \in Conns : Has(t, c)' <=> Has(t, c)
    BY <1>1, <2>1 DEF Has, InHand
  <2> QED
    BY <2>1, <2>2, QuietService
<1>6. CASE CloseConnection(w)
  BY <1>6, CloseServes DEF Service!Next
<1> QED
  BY <1>2, <1>3, <1>4, <1>5, <1>6 DEF WorkerStep

\* SIGINT and clients: no step of the service.
LEMMA OutsideServes ==
  ASSUME ServiceView, ServiceView', Inv,
         \/ \E t \in Threads : Interrupt(t)
         \/ HandlerReturns
         \/ \E c \in Conns : Connect(c) \/ ClientSpeaks(c)
         \/ UNCHANGED vars
  PROVE  UNCHANGED Service!serviceVars
<1>1. UNCHANGED <<queue, value, boss, worker>>
  BY DEF Interrupt, HandlerReturns, Connect, ClientSpeaks, vars, queueVars, bossVars
<1>2. \A c \in Conns : conn'[c] = "closed" <=> conn[c] = "closed"
  BY DEF Interrupt, HandlerReturns, Connect, ClientSpeaks, vars, connVars, Inv, ControlType
<1> QED
  BY <1>1, <1>2, QuietService DEF Has, InHand

(***************************************************************************)
(* The server implements ConnectionService: its connections are served     *)
(* first come, first served, each once and by one worker, however many     *)
(* failures of accept are queued between them.                             *)
(***************************************************************************)
THEOREM FirstComeFirstServed == Spec => ServedInOrder
<1>1. Init => Service!Init
  <2> SUFFICES ASSUME Init PROVE Service!Init
    OBVIOUS
  <2>1. /\ boss = "socket" /\ queue = <<>> /\ DOMAIN queue = {}
        /\ worker = [w \in Workers |-> "absent"] /\ conn = [c \in Conns |-> "new"]
    BY DEF Init, Q!Init
  <2>2. \A w \in Workers : ~InHand(w)
    BY <2>1, ServerAssumption DEF InHand
  <2>3. Serving = [w \in Workers |-> NoItem]
    BY <2>2 DEF Serving
  <2> QED
    BY <2>1, <2>3 DEF Service!Init, Waiting, Ahead, Closed
<1>2. ASSUME Inv, ServiceView, ServiceView', [Next]_vars
      PROVE  [Service!Next]_(Service!serviceVars)
  BY <1>2, BossServes, WorkerServes, OutsideServes DEF Next, Stopped
<1>3. Inv => ServiceView
  BY ServiceState DEF Inv
<1> QED
  BY <1>1, <1>2, <1>3, InvHolds, PTL DEF Spec, ServedInOrder, Service!Spec

-----------------------------------------------------------------------------
(***************************************************************************)
(* What is said on a connection.  AnsweredForOwnLines speaks of the end.   *)
(* Underway says at each point of processConnection what is already sent   *)
(* and what the buffer, if result vouches for it, lets the worker add:     *)
(* the greeting, and what is owed.  It also says that clients not yet      *)
(* served have been told nothing.                                          *)
(***************************************************************************)

Lists == script \in [ConnNumbers -> Seq(Lines)]

\* The line in the buffer is the next one of this client.
HoldsLine(lines) == lines # <<>> /\ inBuffer = Head(lines)

\* What the worker may add for the line in the buffer.
Added == IF inBuffer = "SHM" THEN {<<>>} ELSE {<<message>> : message \in Answers[inBuffer]}

\* A client that sent nothing was greeted for the handshake of another.
Misgreeted == script[current] = <<>> /\ sent[current] = <<"NAZALI">>

\* The client has been greeted, or needs not be; one of these is owed to it.
Owes(answers) ==
  /\ sent[current] = Greeting(script[current])
  /\ Owed(Asked(script[current])) = answers

Refusal == {<<"failed to interpret">>}

Underway ==
  /\ pc = "read" => input = script[current]
  /\ pc \in {"read", "handshake"} => sent[current] = <<>>
  /\ pc = "handshake" =>
       IF result THEN HoldsLine(script[current]) /\ input = Tail(script[current])
       ELSE script[current] = <<>> /\ input = <<>>
  /\ pc = "result" =>
       IF result THEN inBuffer \in Lines /\ Owes(Added)
       ELSE Owes(Refusal) \/ Misgreeted
  /\ pc \in {"dispatch", "http"} => inBuffer \in Lines /\ Owes(Added)
  /\ pc \in {"read", "handshake", "result", "dispatch"} => ~shut
  /\ pc = "http" => (shut <=> inBuffer = "SHM")

Untold == \A c \in ConnNumbers : c > current => sent[c] = <<>>

DialogueInv == Lists /\ ConnectionTypeOK /\ Underway /\ Untold /\ AnsweredForOwnLines

-----------------------------------------------------------------------------
(* DialogueInv is inductive.                                               *)

\* The first client is not yet served.
LEMMA DialogueInit == ConnectionInit => DialogueInv
<1> SUFFICES ASSUME ConnectionInit PROVE DialogueInv
  OBVIOUS
<1> USE ConnectionAssumption DEF ConnectionInit
<1>1. Lists
  BY DEF Lists
<1>2. 1 \in ConnNumbers
  BY DEF ConnNumbers
<1>3. ConnectionTypeOK
  <2>1. inBuffer \in Lines \cup {Unset, Garbage} /\ result \in BOOLEAN /\ shut \in BOOLEAN
    OBVIOUS
  <2>2. sent \in [ConnNumbers -> Seq(Messages)]
    OBVIOUS
  <2>3. input \in Seq(Lines)
    BY <1>1, <1>2 DEF Lists
  <2> QED
    BY <1>2, <2>1, <2>2, <2>3 DEF ConnectionTypeOK
<1>4. Underway /\ Untold /\ AnsweredForOwnLines
  BY <1>2 DEF Underway, Untold, AnsweredForOwnLines
<1> QED
  BY <1>1, <1>3, <1>4 DEF DialogueInv

\* What is owed to a client, by its first line.
LEMMA OwedFor ==
  ASSUME NEW lines \in Seq(Lines)
  PROVE  /\ lines = <<>> => Greeting(lines) = <<>> /\ Owed(Asked(lines)) = Refusal
         /\ lines # <<>> /\ Head(lines) # "handshake" => Greeting(lines) = <<>> /\ Asked(lines) = lines
         /\ lines # <<>> /\ Head(lines) = "handshake" =>
              Greeting(lines) = <<"NAZALI">> /\ Asked(lines) = Tail(lines)
BY DEF Shakes, Greeting, Asked, Owed, Refusal

\* A list that is not empty has a first line.
LEMMA HeadOf ==
  ASSUME NEW lines \in Seq(Lines), lines # <<>>
  PROVE  Head(lines) \in Lines /\ Tail(lines) \in Seq(Lines)
OBVIOUS

\* The answers are messages.
LEMMA AnswersAre == \A line \in Lines : Answers[line] \subseteq Messages
BY DEF Answers, Lines, Messages

\* ml_http_readLine takes the next line, or says that there is none.
LEMMA ReadLineTakes ==
  ASSUME NEW lines \in Seq(Lines), input = lines, ReadLine,
         inBuffer \in Lines \cup {Unset, Garbage}
  PROVE  /\ input' \in Seq(Lines)
         /\ inBuffer' \in Lines \cup {Unset, Garbage}
         /\ result' \in BOOLEAN
         /\ IF result' THEN lines # <<>> /\ inBuffer' = Head(lines) /\ input' = Tail(lines)
                            /\ inBuffer' \in Lines
            ELSE lines = <<>> /\ input' = <<>>
<1>1. CASE input # <<>>
  BY <1>1, HeadOf DEF ReadLine
<1>2. CASE input = <<>>
  BY <1>2 DEF ReadLine, Overwritten
<1> QED
  BY <1>1, <1>2

\* Every step keeps the types.
LEMMA ConnectionTypeStep == DialogueInv /\ [ConnectionNext]_connectionVars => Lists' /\ ConnectionTypeOK'
<1> SUFFICES ASSUME DialogueInv, [ConnectionNext]_connectionVars PROVE Lists' /\ ConnectionTypeOK'
  OBVIOUS
<1>0. ConnectionTypeOK /\ Lists /\ script[current] \in Seq(Lines)
  BY DEF DialogueInv, ConnectionTypeOK, Lists
<1>1. Lists'
  BY <1>0 DEF Lists, ConnectionNext, connectionVars, ReadFirst, AnswerHandshake, NoHandshake, RefuseRequest,
    TakeRequest, Share, DoNotShare, RespondHTTP, NextConnection
<1> SUFFICES ConnectionTypeOK'
  BY <1>1
<1>2. ASSUME NEW m \in Messages, Reply(m) PROVE sent' \in [ConnNumbers -> Seq(Messages)]
  <2>1. Append(sent[current], m) \in Seq(Messages)
    BY <1>0 DEF ConnectionTypeOK
  <2> QED
    BY <1>0, <1>2, <2>1 DEF Reply, ConnectionTypeOK
<1>3. CASE ReadFirst
  BY <1>0, <1>3, ReadLineTakes DEF ReadFirst, ConnectionTypeOK
<1>4. CASE AnswerHandshake
  <2>1. sent' \in [ConnNumbers -> Seq(Messages)]
    BY <1>2, <1>4 DEF AnswerHandshake, Messages
  <2> QED
    BY <1>0, <1>4, <2>1, ReadLineTakes DEF AnswerHandshake, ConnectionTypeOK
<1>5. CASE RefuseRequest
  <2>1. sent' \in [ConnNumbers -> Seq(Messages)]
    BY <1>2, <1>5 DEF RefuseRequest, Messages
  <2> QED
    BY <1>0, <1>5, <2>1 DEF RefuseRequest, ConnectionTypeOK
<1>6. CASE RespondHTTP
  <2>1. PICK m \in Messages : Reply(m)
    BY <1>6, AnswersAre DEF RespondHTTP, Messages
  <2>2. sent' \in [ConnNumbers -> Seq(Messages)]
    BY <1>2, <2>1
  <2>3. shut' \in BOOLEAN
    BY <1>0, <1>6, Zenon DEF RespondHTTP, ConnectionTypeOK
  <2> QED
    BY <1>0, <1>6, <2>2, <2>3 DEF RespondHTTP, ConnectionTypeOK
<1>7. CASE NextConnection
  <2>1. current < NumConns => current + 1 \in ConnNumbers /\ script[current + 1] \in Seq(Lines)
    BY <1>0, ConnectionAssumption DEF ConnectionTypeOK, Lists, ConnNumbers
  <2> QED
    BY <1>0, <1>7, <2>1 DEF NextConnection, ConnectionTypeOK
<1>8. CASE NoHandshake \/ TakeRequest \/ Share \/ DoNotShare \/ UNCHANGED connectionVars
  BY <1>0, <1>8 DEF NoHandshake, TakeRequest, Share, DoNotShare, connectionVars, ConnectionTypeOK
<1> QED
  BY <1>1, <1>3, <1>4, <1>5, <1>6, <1>7, <1>8 DEF ConnectionNext

\* Only the client that is served is told anything.
LEMMA UntoldStep == DialogueInv /\ [ConnectionNext]_connectionVars => Untold'
<1> SUFFICES ASSUME DialogueInv, [ConnectionNext]_connectionVars PROVE Untold'
  OBVIOUS
<1>0. ConnectionTypeOK /\ Untold /\ current \in Nat /\ ConnNumbers \subseteq Nat
  BY ConnectionAssumption DEF DialogueInv, ConnectionTypeOK, ConnNumbers
<1>1. ASSUME NEW m, Reply(m), UNCHANGED current PROVE Untold'
  BY <1>0, <1>1 DEF Reply, Untold, ConnectionTypeOK
<1>2. CASE NextConnection
  BY <1>0, <1>2 DEF NextConnection, Untold
<1>3. CASE AnswerHandshake \/ RefuseRequest \/ RespondHTTP
  BY <1>1, <1>3 DEF AnswerHandshake, RefuseRequest, RespondHTTP
<1>4. CASE ReadFirst \/ NoHandshake \/ TakeRequest \/ Share \/ DoNotShare \/ UNCHANGED connectionVars
  BY <1>0, <1>4 DEF ReadFirst, NoHandshake, TakeRequest, Share, DoNotShare, connectionVars, Untold
<1> QED
  BY <1>2, <1>3, <1>4 DEF ConnectionNext

\* The worker adds to what is sent what it owes for the line in the buffer.
LEMMA UnderwayStep == DialogueInv /\ [ConnectionNext]_connectionVars => Underway' /\ AnsweredForOwnLines'
<1> SUFFICES ASSUME DialogueInv, [ConnectionNext]_connectionVars PROVE Underway' /\ AnsweredForOwnLines'
  OBVIOUS
<1> DEFINE lines == script[current]
<1>0. /\ ConnectionTypeOK /\ Underway /\ Untold /\ AnsweredForOwnLines
      /\ lines \in Seq(Lines)
      /\ sent[current] \in Seq(Messages)
  BY DEF DialogueInv, ConnectionTypeOK, Lists
<1> USE DEF Underway, AnsweredForOwnLines
<1>1. ASSUME NEW rest \in Seq(Lines), rest # <<>>, inBuffer' = Head(rest)
      PROVE  Owed(rest) = Added' /\ inBuffer' \in Lines
  BY <1>1, HeadOf DEF Owed, Added
<1>2. CASE ReadFirst
  BY <1>0, <1>2, ReadLineTakes DEF ReadFirst, ConnectionTypeOK, HoldsLine
<1>3. CASE AnswerHandshake
  <2>1. /\ pc = "handshake" /\ pc' = "result" /\ ~shut /\ shut' = shut
        /\ script' = script /\ current' = current
        /\ input \in Seq(Lines) /\ sent[current] = <<>>
    BY <1>0, <1>3 DEF AnswerHandshake, ConnectionTypeOK
  <2>2. sent'[current'] = <<"NAZALI">>
    BY <1>0, <1>3, <2>1 DEF AnswerHandshake, Reply, ConnectionTypeOK
  <2>3. IF result' THEN input # <<>> /\ inBuffer' = Head(input) ELSE input = <<>>
    BY <1>0, <1>3, <2>1, ReadLineTakes DEF AnswerHandshake, ConnectionTypeOK
  <2>4. CASE result
    <3>1. Greeting(lines) = <<"NAZALI">> /\ Asked(lines) = input
      <4>1. inBuffer \in Lines
        BY <1>0, <2>1, <2>4, HeadOf DEF HoldsLine
      <4>2. inBuffer = "handshake"
        BY <1>3, <4>1 DEF AnswerHandshake, MayMatch, Lines, Garbage
      <4> QED
        BY <1>0, <2>1, <2>4, <4>2, OwedFor DEF HoldsLine
    <3>2. CASE result'
      <4>1. Owed(input) = Added' /\ inBuffer' \in Lines
        BY <1>1, <2>1, <2>3, <3>2
      <4> QED
        BY <2>1, <2>2, <3>1, <3>2, <4>1 DEF Owes
    <3>3. CASE ~result'
      <4>1. Owed(input) = Refusal
        BY <2>3, <3>3 DEF Owed, Refusal
      <4> QED
        BY <2>1, <2>2, <3>1, <3>3, <4>1 DEF Owes, Refusal
    <3> QED
      BY <3>2, <3>3
  <2>5. CASE ~result
    BY <1>0, <2>1, <2>2, <2>3, <2>5 DEF Misgreeted
  <2> QED
    BY <2>4, <2>5
<1>4. CASE NoHandshake
  <2>1. /\ pc = "handshake" /\ pc' = "result" /\ ~shut /\ sent[current] = <<>>
        /\ UNCHANGED <<script, current, inBuffer, result, shut, sent>>
    BY <1>0, <1>4 DEF NoHandshake
  <2>2. Greeting(lines) = <<>> /\ Owed(Asked(lines)) = IF result THEN Added ELSE Refusal
    <3>1. CASE result
      <4>1. lines # <<>> /\ inBuffer = Head(lines) /\ inBuffer # "handshake"
        BY <1>0, <1>4, <2>1, <3>1 DEF NoHandshake, MayDiffer, HoldsLine
      <4>2. Greeting(lines) = <<>> /\ Asked(lines) = lines
        BY <1>0, <4>1, OwedFor
      <4>3. Owed(lines) = Added
        BY <4>1 DEF Owed, Added
      <4> QED
        BY <3>1, <4>2, <4>3
    <3>2. CASE ~result
      BY <1>0, <2>1, <3>2, OwedFor
    <3> QED
      BY <3>1, <3>2
  <2>3. result => inBuffer \in Lines
    BY <1>0, <2>1, HeadOf DEF HoldsLine
  <2>4. IF result THEN Owes(Added) ELSE Owes(Refusal)
    BY <2>1, <2>2 DEF Owes
  <2> QED
    BY <2>1, <2>3, <2>4 DEF Owes, Added, Refusal
<1>5. CASE RefuseRequest
  <2>1. /\ pc = "result" /\ ~result /\ pc' = "close" /\ ~shut
        /\ UNCHANGED <<script, current>>
    BY <1>0, <1>5 DEF RefuseRequest
  <2>2. sent'[current] = sent[current] \o <<"failed to interpret">>
    <3>1. sent'[current] = Append(sent[current], "failed to interpret")
      BY <1>0, <1>5, <2>1 DEF RefuseRequest, Reply, ConnectionTypeOK
    <3>2. "failed to interpret" \in Messages
      BY DEF Messages
    <3> QED
      BY <1>0, <2>1, <3>1, <3>2, AppendIsConcat
  <2>3. CASE Owes(Refusal)
    BY <2>1, <2>2, <2>3 DEF Owes, Refusal
  <2>4. CASE Misgreeted
    <3>1. script' = script /\ current' = current /\ lines = <<>>
          /\ sent'[current] = <<"NAZALI">> \o <<"failed to interpret">>
      BY <2>1, <2>2, <2>4 DEF Misgreeted
    <3> QED
      BY <2>1, <3>1
  <2> QED
    BY <1>0, <2>1, <2>3, <2>4
<1>6. CASE TakeRequest
  BY <1>0, <1>6 DEF TakeRequest, Owes, Added
<1>7. CASE Share \/ DoNotShare
  <2>1. /\ pc = "dispatch" /\ pc' = "http" /\ ~shut
        /\ inBuffer \in Lines /\ Owes(Added)
        /\ UNCHANGED <<script, current, inBuffer, sent>>
    BY <1>0, <1>7 DEF Share, DoNotShare
  <2>2. shut' <=> inBuffer = "SHM"
    BY <1>7, <2>1 DEF Share, DoNotShare
  <2> QED
    BY <2>1, <2>2 DEF Owes, Added
<1>8. CASE RespondHTTP
  <2>1. /\ pc = "http" /\ pc' = "close" /\ inBuffer \in Lines /\ Owes(Added)
        /\ shut <=> inBuffer = "SHM"
        /\ UNCHANGED <<script, current>>
    BY <1>0, <1>8 DEF RespondHTTP
  <2>2. \E answer \in Added : sent'[current] = sent[current] \o answer
    <3>1. PICK message \in Answers[inBuffer] : Reply(message)
      BY <1>8, <2>1 DEF RespondHTTP
    <3>2. CASE inBuffer = "SHM"
      <4>1. sent' = sent /\ Added = {<<>>}
        BY <2>1, <3>1, <3>2 DEF Reply, Added
      <4> QED
        BY <1>0, <2>1, <4>1, ConcatEmptySeq
    <3>3. CASE inBuffer # "SHM"
      <4>1. message \in Messages
        BY <2>1, <3>1, AnswersAre
      <4>2. <<message>> \in Added
        BY <3>3 DEF Added
      <4>3. sent'[current] = Append(sent[current], message)
        BY <1>0, <2>1, <3>1, <3>3 DEF Reply, ConnectionTypeOK
      <4> QED
        BY <1>0, <2>1, <4>1, <4>2, <4>3, AppendIsConcat
    <3> QED
      BY <3>2, <3>3
  <2> QED
    BY <2>1, <2>2 DEF Owes
<1>9. CASE NextConnection
  <2>1. CASE current < NumConns
    <3>1. /\ pc' = "read" /\ ~shut' /\ current' = current + 1
          /\ input' = script'[current'] /\ sent' = sent
      BY <1>9, <2>1 DEF NextConnection
    <3>2. sent[current + 1] = <<>>
      <4>1. current \in 1 .. NumConns
        BY <1>0 DEF ConnectionTypeOK, ConnNumbers
      <4>2. current + 1 \in 1 .. NumConns /\ current + 1 > current
        BY <2>1, <4>1, ConnectionAssumption
      <4> QED
        BY <1>0, <4>2 DEF Untold, ConnNumbers
    <3> QED
      BY <3>1, <3>2
  <2>2. CASE ~(current < NumConns)
    BY <1>9, <2>2 DEF NextConnection
  <2> QED
    BY <2>1, <2>2
<1>10. CASE UNCHANGED connectionVars
  BY <1>0, <1>10 DEF connectionVars, HoldsLine, Owes, Added, Misgreeted, Refusal
<1> QED
  BY <1>2, <1>3, <1>4, <1>5, <1>6, <1>7, <1>8, <1>9, <1>10 DEF ConnectionNext

-----------------------------------------------------------------------------
(* The theorems.                                                           *)

LEMMA DialogueInvHolds == ConnectionSpec => []DialogueInv
<1>1. DialogueInv /\ [ConnectionNext]_connectionVars => DialogueInv'
  BY ConnectionTypeStep, UntoldStep, UnderwayStep DEF DialogueInv
<1> QED
  BY DialogueInit, <1>1, PTL DEF ConnectionSpec

\* Types: in particular the buffer of worker.c holds a whole line, or nothing
\* the code looks for, or what a line cut short has left of an earlier one.
THEOREM ConnectionTypes == ConnectionSpec => []ConnectionTypeOK
BY DialogueInvHolds, PTL DEF DialogueInv

\* However many clients a worker has served before and whatever they sent,
\* processConnection answers each once and for its own lines, though
\* ml_http_readLine does not clear the buffer and the handshake is tested before
\* result.  What old memory can change is the answer to a line without a method
\* or a url, and only within what Answers allows for such a line.
THEOREM AnswersOwnLines == ConnectionSpec => []AnsweredForOwnLines
BY DialogueInvHolds, PTL DEF DialogueInv

-----------------------------------------------------------------------------
(* The resolution of a url.                                                *)

\* Induction, on a set of numbers.
LEMMA SetInduction ==
  ASSUME NEW S, 0 \in S, \A n \in Nat : n \in S => n + 1 \in S
  PROVE  \A n \in Nat : n \in S
<1> DEFINE Outside == {n \in Nat : n \notin S}
           Less == OpToRel(<, Nat)
<1>1. \A m, n \in Nat : m < n => <<m, n>> \in Less
  BY DEF OpToRel
<1>2. IsWellFoundedOn(Less, Nat)
  BY NatLessThanWellFounded
<1> SUFFICES ASSUME Outside # {} PROVE FALSE
  OBVIOUS
<1> HIDE DEF Less
<1>3. PICK n \in Outside : \A m \in Outside : <<m, n>> \notin Less
  <2>1. Outside \subseteq Nat
    OBVIOUS
  <2> HIDE DEF Outside
  <2> QED
    BY <1>2, <2>1, WFMin
<1>4. n \in Nat /\ n # 0 /\ n - 1 \in Nat /\ n - 1 < n /\ n = (n - 1) + 1
  OBVIOUS
<1>5. n - 1 \in S
  BY <1>1, <1>3, <1>4
<1> QED
  BY <1>4, <1>5

\* Of the numbers up to some bound, one is the greatest.
LEMMA GreatestUpTo ==
  ASSUME NEW n \in Nat, NEW S \in SUBSET (0 .. n), S # {}
  PROVE  Max(S) \in S
<1> DEFINE Bounded == {k \in Nat : \A T \in SUBSET (0 .. k) : T # {} => \E m \in T : \A x \in T : m >= x}
<1>1. 0 \in Bounded
  <2> SUFFICES ASSUME NEW T \in SUBSET (0 .. 0), T # {} PROVE \E m \in T : \A x \in T : m >= x
    OBVIOUS
  <2>1. 0 .. 0 = {0}
    OBVIOUS
  <2>2. \A x \in T : x = 0
    BY <2>1
  <2>3. 0 >= 0
    OBVIOUS
  <2> QED
    BY <2>2, <2>3
<1>2. ASSUME NEW k \in Nat, k \in Bounded PROVE k + 1 \in Bounded
  <2> SUFFICES ASSUME NEW T \in SUBSET (0 .. k + 1), T # {} PROVE \E m \in T : \A x \in T : m >= x
    OBVIOUS
  <2>1. CASE k + 1 \in T
    <3>1. \A x \in T : k + 1 >= x
      OBVIOUS
    <3> QED
      BY <2>1, <3>1
  <2>2. CASE k + 1 \notin T
    <3>1. T \in SUBSET (0 .. k)
      BY <2>2
    <3> QED
      BY <1>2, <3>1
  <2> QED
    BY <2>1, <2>2
<1>3. n \in Bounded
  <2> HIDE DEF Bounded
  <2> QED
    BY <1>1, <1>2, SetInduction
<1>4. \E m \in S : \A x \in S : m >= x
  BY <1>3
<1> QED
  BY <1>4 DEF Max

\* The loop has got to a place in the url, and has written no more characters.
Within(root, url, s) ==
  /\ s.from \in 0 .. Len(url)
  /\ s.to \in 0 .. Len(root) + s.from
  /\ DOMAIN s.resolved = 1 .. Len(root) + Len(url) + 10
  /\ s = [from |-> s.from, to |-> s.to, resolved |-> s.resolved]

\* A text that the url goes on with is in the url.
LEMMA PrefixIsThere ==
  ASSUME NEW Bytes, NEW url \in Seq(Bytes), NEW p \in 0 .. Len(url), NEW text, NEW n \in Nat, Len(text) = n,
         StartsWith(url, p, text)
  PROVE  p + n <= Len(url)
<1> DEFINE rest == SubSeq(url, p + 1, Len(url))
<1>1. Len(rest) = Len(url) - p
  OBVIOUS
<1>2. Len(text) <= Len(rest)
  BY DEF StartsWith, IsPrefix
<1> QED
  BY <1>1, <1>2

\* A round keeps it so, and gets on.
LEMMA RoundWithin ==
  ASSUME NEW Bytes, NEW root \in Seq(Bytes), NEW url \in Seq(Bytes), NEW s, Within(root, url, s)
  PROVE  /\ Within(root, url, Round(url, s))
         /\ s.from < Len(url) => s.from < Round(url, s).from
         /\ s.from = Len(url) => Round(url, s).from = Len(url)
<1> DEFINE back == BackToSlash(s.resolved, s.to)
           here == <<"/", ".", "/">>
           up == <<"/", ".", ".", "/">>
           blank == " "
           last == Len(url)
           size == Len(root) + Len(url) + 10
           After == IF s.from >= last THEN s
                    ELSE IF StartsWith(url, s.from, here)
                    THEN [from |-> s.from + 2, to |-> s.to, resolved |-> s.resolved]
                    ELSE IF StartsWith(url, s.from, up)
                    THEN [from |-> s.from + 3, to |-> back, resolved |-> [s.resolved EXCEPT ![back + 1] = blank]]
                    ELSE [from |-> s.from + 1, to |-> s.to + 1,
                          resolved |-> [s.resolved EXCEPT ![s.to + 1] = url[s.from + 1]]]
<1>1. /\ s.from \in 0 .. last /\ s.to \in 0 .. Len(root) + s.from
      /\ DOMAIN s.resolved = 1 .. size
      /\ Len(root) \in Nat /\ last \in Nat
      /\ s = [from |-> s.from, to |-> s.to, resolved |-> s.resolved]
  BY DEF Within
<1>2. back \in 0 .. s.to
  <2> DEFINE S == {p \in 0 .. s.to : p = 0 \/ s.resolved[p + 1] = "/"}
  <2>1. S \in SUBSET (0 .. s.to) /\ 0 \in S /\ s.to \in Nat
    BY <1>1
  <2>2. Max(S) \in S
    <3>1. S # {}
      BY <2>1
    <3> HIDE DEF S
    <3> QED
      BY <2>1, <3>1, GreatestUpTo
  <2> QED
    BY <2>2 DEF BackToSlash
<1>3. Len(here) = 3 /\ Len(up) = 4
  OBVIOUS
<1>4. [s EXCEPT !.from = s.from + 2] = [from |-> s.from + 2, to |-> s.to, resolved |-> s.resolved]
  BY <1>1
<1>5. Round(url, s) = After
  BY <1>4, Zenon DEF Round
<1> HIDE DEF back, here, up, blank
<1>6. CASE s.from >= last
  <2>1. After = s /\ s.from = last
    BY <1>1, <1>6
  <2> HIDE DEF After
  <2> QED
    BY <1>1, <1>5, <2>1
<1> DEFINE Gets(t) == /\ t.from \in s.from + 1 .. last
                      /\ t.to \in 0 .. Len(root) + t.from
                      /\ DOMAIN t.resolved = 1 .. size
                      /\ t = [from |-> t.from, to |-> t.to, resolved |-> t.resolved]
<1>7. ASSUME s.from < last PROVE Gets(After)
  <2>1. CASE StartsWith(url, s.from, here)
    <3>1. s.from + 3 <= last
      BY <1>1, <1>3, <2>1, PrefixIsThere
    <3>2. s.from + 2 \in s.from + 1 .. last /\ s.to \in 0 .. Len(root) + (s.from + 2)
      BY <1>1, <3>1
    <3>3. After = [from |-> s.from + 2, to |-> s.to, resolved |-> s.resolved]
      BY <1>1, <1>7, <2>1
    <3> HIDE DEF After
    <3> QED
      BY <1>1, <3>2, <3>3
  <2>2. CASE ~StartsWith(url, s.from, here) /\ StartsWith(url, s.from, up)
    <3>1. s.from + 4 <= last
      BY <1>1, <1>3, <2>2, PrefixIsThere
    <3>2. s.from + 3 \in s.from + 1 .. last /\ back \in 0 .. Len(root) + (s.from + 3)
      BY <1>1, <1>2, <3>1
    <3>3. After = [from |-> s.from + 3, to |-> back, resolved |-> [s.resolved EXCEPT ![back + 1] = blank]]
      BY <1>1, <1>7, <2>2
    <3> HIDE DEF After
    <3> QED
      BY <1>1, <3>2, <3>3
  <2>3. CASE ~StartsWith(url, s.from, here) /\ ~StartsWith(url, s.from, up)
    <3>2. s.from + 1 \in s.from + 1 .. last /\ s.to + 1 \in 0 .. Len(root) + (s.from + 1)
      BY <1>1, <1>7
    <3>3. After = [from |-> s.from + 1, to |-> s.to + 1,
                   resolved |-> [s.resolved EXCEPT ![s.to + 1] = url[s.from + 1]]]
      BY <1>1, <1>7, <2>3
    <3> HIDE DEF After
    <3> QED
      BY <1>1, <3>2, <3>3
  <2> QED
    BY <2>1, <2>2, <2>3
<1>8. CASE s.from < last
  <2> HIDE DEF After
  <2>1. Gets(After)
    BY <1>7, <1>8
  <2>2. After.from \in 0 .. last /\ s.from < After.from /\ s.from # last
    BY <1>1, <1>8, <2>1
  <2> QED
    BY <1>5, <2>1, <2>2 DEF Within
<1>9. s.from >= last \/ s.from < last
  BY <1>1
<1> QED
  BY <1>6, <1>8, <1>9

\* http.c: resolveURL builds its result in the memory that is allocated for it,
\* for urls of any length and however their directory changes follow each
\* other; and it gets to the end of the url, in no more rounds than the url has
\* characters.  So the '\0' behind the result has its place, too.
THEOREM ResolvedInItsMemory ==
  ASSUME NEW Bytes, NEW root \in Seq(Bytes), NEW url \in Seq(Bytes), NEW stale
  PROVE  /\ \A n \in 0 .. Len(url) :
              LET s == Rounds(root, url, stale)[n]
              IN /\ s.to \in 0 .. Len(root) + s.from
                 /\ s.from \in n .. Len(url)
                 /\ s.to + 1 \in DOMAIN s.resolved
         /\ Rounds(root, url, stale)[Len(url)].from = Len(url)
         /\ Len(resolveURL(root, url, stale)) <= Len(root) + Len(url)
<1> DEFINE last == Len(url)
           start == StartOfLoop(root, url, stale)
           Row(f, k) == f = [n \in 0 .. k |-> IF n = 0 THEN start ELSE Round(url, f[n - 1])]
           Defined == {k \in Nat : \E f : Row(f, k)}
<1>1. last \in Nat /\ Len(root) \in Nat
  OBVIOUS
<1>2. Within(root, url, start)
  BY DEF Within, StartOfLoop
<1> HIDE DEF start, last
<1>3. \A k \in Nat : k \in Defined
  <2>1. 0 \in Defined
    <3>1. Row([n \in 0 .. 0 |-> start], 0)
      OBVIOUS
    <3> QED
      BY <3>1
  <2>2. ASSUME NEW k \in Nat, k \in Defined PROVE k + 1 \in Defined
    <3>1. PICK f : Row(f, k)
      BY <2>2
    <3> DEFINE g == [n \in 0 .. k + 1 |-> IF n = k + 1 THEN Round(url, f[k]) ELSE f[n]]
    <3>2. ASSUME NEW n \in 0 .. k + 1 PROVE g[n] = IF n = 0 THEN start ELSE Round(url, g[n - 1])
      <4>1. CASE n = k + 1
        <5>1. k \in 0 .. k + 1 /\ k # k + 1 /\ n - 1 = k /\ n # 0
          BY <4>1
        <5>2. g[k] = f[k] /\ g[n] = Round(url, f[k])
          BY <4>1, <5>1
        <5> HIDE DEF g
        <5> QED
          BY <5>1, <5>2
      <4>2. CASE n # k + 1
        <5>1. n \in 0 .. k
          BY <4>2
        <5>2. f[n] = IF n = 0 THEN start ELSE Round(url, f[n - 1])
          BY <3>1, <5>1
        <5>3. g[n] = f[n]
          BY <4>2
        <5>4. CASE n = 0
          BY <5>2, <5>3, <5>4
        <5>5. CASE n # 0
          <6>1. n - 1 \in 0 .. k + 1 /\ n - 1 # k + 1
            BY <5>1, <5>5
          <6>2. g[n - 1] = f[n - 1]
            BY <6>1
          <6> QED
            BY <5>2, <5>3, <5>5, <6>2
        <5> QED
          BY <5>4, <5>5
      <4> QED
        BY <4>1, <4>2
    <3>3. Row(g, k + 1)
      <4> DEFINE h == [n \in 0 .. k + 1 |-> IF n = 0 THEN start ELSE Round(url, g[n - 1])]
      <4>1. \A n \in 0 .. k + 1 : g[n] = h[n]
        BY <3>2
      <4>2. g = h
        BY <4>1
      <4> QED
        BY <4>2
    <3> HIDE DEF g
    <3> QED
      BY <3>3
  <2> HIDE DEF Defined
  <2> QED
    BY <2>1, <2>2, SetInduction
<1> DEFINE after == CHOOSE f : Row(f, last)
<1>4. Rounds(root, url, stale) = after
  BY DEF Rounds, last, start
<1>5. Row(after, last)
  BY <1>1, <1>3
<1>6. \A n \in 0 .. last : after[n] = IF n = 0 THEN start ELSE Round(url, after[n - 1])
  BY <1>5
<1> HIDE DEF after, Defined
<1> DEFINE Reached == {n \in Nat : n <= last => Within(root, url, after[n]) /\ n <= after[n].from}
<1>7. 0 \in Reached
  <2>1. 0 \in 0 .. last /\ after[0] = start
    BY <1>1, <1>6
  <2> QED
    BY <1>2, <2>1 DEF Within
<1>8. ASSUME NEW n \in Nat, n \in Reached PROVE n + 1 \in Reached
  <2> SUFFICES ASSUME n + 1 <= last PROVE Within(root, url, after[n + 1]) /\ n + 1 <= after[n + 1].from
    OBVIOUS
  <2>1. n + 1 \in 0 .. last /\ n + 1 # 0 /\ (n + 1) - 1 = n /\ n <= last
    BY <1>1
  <2>2. after[n + 1] = Round(url, after[n])
    BY <1>6, <2>1
  <2>3. Within(root, url, after[n]) /\ n <= after[n].from
    BY <1>8, <2>1
  <2> DEFINE s == after[n]
             t == after[n + 1]
  <2>4. /\ Within(root, url, t)
        /\ s.from < last => s.from < t.from
        /\ s.from = last => t.from = last
    BY <2>2, <2>3, RoundWithin DEF last
  <2> HIDE DEF s, t
  <2>5. s.from \in 0 .. last /\ t.from \in 0 .. last
    BY <2>3, <2>4 DEF Within, last, s
  <2>6. n <= s.from
    BY <2>3 DEF s
  <2>7. n + 1 <= t.from
    BY <1>1, <2>1, <2>4, <2>5, <2>6
  <2> QED
    BY <2>4, <2>7 DEF t
<1>9. \A n \in Nat : n \in Reached
  <2> HIDE DEF Reached
  <2> QED
    BY <1>7, <1>8, SetInduction
<1>10. \A n \in 0 .. last : Within(root, url, after[n]) /\ n <= after[n].from
  BY <1>1, <1>9
<1>11. ASSUME NEW n \in 0 .. last
       PROVE  /\ after[n].to \in 0 .. Len(root) + after[n].from
              /\ after[n].from \in n .. last
              /\ after[n].to + 1 \in DOMAIN after[n].resolved
  <2> DEFINE s == after[n]
  <2>1. Within(root, url, s) /\ n <= s.from
    BY <1>10
  <2> HIDE DEF s
  <2>2. /\ s.from \in 0 .. last /\ s.to \in 0 .. Len(root) + s.from
        /\ DOMAIN s.resolved = 1 .. Len(root) + last + 10
    BY <2>1 DEF Within, last
  <2>3. s.from \in n .. last /\ s.to + 1 \in 1 .. Len(root) + last + 10
    BY <1>1, <2>1, <2>2
  <2> QED
    BY <2>2, <2>3 DEF s
<1>12. last \in 0 .. last
  BY <1>1
<1>13. after[last].from = last /\ after[last].to \in 0 .. Len(root) + last
  BY <1>1, <1>11, <1>12
<1>14. Len(resolveURL(root, url, stale)) <= Len(root) + last
  <2> DEFINE end == after[last]
  <2>1. resolveURL(root, url, stale) = SubSeq(end.resolved, 1, end.to)
    BY <1>4 DEF resolveURL, last
  <2>2. end.to \in Nat /\ end.to <= Len(root) + last
    BY <1>1, <1>13
  <2> HIDE DEF end
  <2>3. Len(SubSeq(end.resolved, 1, end.to)) = end.to
    BY <2>2
  <2> QED
    BY <2>1, <2>2, <2>3
<1> QED
  BY <1>4, <1>11, <1>13, <1>14 DEF last

=============================================================================
