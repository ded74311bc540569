--------------------------- MODULE ProxyLifecycle ---------------------------
(***************************************************************************)
(* The proxy process from ml_proxy() to its return: the boss thread (main, *)
(* proxy.c), the worker threads (worker.c) and the SIGINT handler, which   *)
(* communicate through the socket queue, the flag TERMINATE and the state  *)
(* of the listening socket.                                                *)
(*                                                                         *)
(* The queue is BoundedFifo, which SafeQueue implements.  What a worker    *)
(* does with a connection (processConnection) is one step that begins and  *)
(* one that ends it.  A descriptor number is identified with the           *)
(* connection it was accepted for; 0 is the pill that tells a worker to    *)
(* return.                                                                 *)
(***************************************************************************)
EXTENDS Naturals, Sequences, FiniteSets

CONSTANTS Boss,         \* the thread that runs main
          NumWorkers,   \* the -w option, or its default
          Conns,        \* the connections clients may open
          Pill,         \* the 0 that teardown puts into the queue
          Capacity,     \* of the queue: INITIAL_CAPACITY
          NoItem,       \* the content of a variable nothing was assigned to
          NoThread      \* no thread runs the handler

Workers == 0 .. NumWorkers - 1
Threads == {Boss} \cup Workers

\* At most MAX_WORKERS = 50 workers, and 1024 places in the queue.
ASSUME LifecycleAssumption ==
  /\ NumWorkers \in Nat \ {0}
  /\ Capacity \in Nat
  /\ NumWorkers <= Capacity
  /\ Boss \notin Workers
  /\ NoThread \notin Threads
  /\ Pill \notin Conns
  /\ NoItem \notin Conns \cup {Pill}

VARIABLES open, queue, pending, value,  \* the queue (BoundedFifo)
          boss,       \* where the boss is in proxy.c
          i,          \* the loop variable of initialize and teardown
          p_workers,  \* 0 until initialize has come to the workers
          listening,  \* p_socket: "no", "open", then "shut" by shutdown()
          TERMINATE,
          handler,    \* the thread that is inside h_interrupt
          worker,     \* where each worker is in ml_worker
          conn        \* what has become of each connection

queueVars == <<open, queue, pending, value>>
bossVars == <<boss, i, p_workers>>
signalVars == <<listening, TERMINATE, handler>>
vars == <<queueVars, bossVars, signalVars, worker, conn>>

Q == INSTANCE BoundedFifo
       WITH Producers <- {Boss}, Consumers <- Workers,
            Items <- Conns \cup {Pill}, Bound <- Capacity

Init ==
  /\ Q!Init
  /\ boss = "socket"
  /\ i = 0
  /\ p_workers = 0
  /\ listening = "no"
  /\ TERMINATE = FALSE
  /\ handler = NoThread
  /\ worker = [w \in Workers |-> "absent"]
  /\ conn = [c \in Conns |-> "new"]

\* A thread does nothing else while the handler runs on its stack.
Runs(t) == handler # t

Exited == boss \in {"returned", "crashed"}

-----------------------------------------------------------------------------
(* initialize(): each failure goes to the label cleanup of ml_proxy.       *)

At(label) == boss = label /\ Runs(Boss)

Goto(label) == boss' = label /\ UNCHANGED <<i, p_workers>>

BeginTeardown == boss' = "pills" /\ i' = 0 /\ UNCHANGED p_workers

SetUpSocket(succeeds) ==
  /\ At("socket")
  /\ IF succeeds
     THEN listening' = "open" /\ Goto("queue")
     ELSE UNCHANGED listening /\ BeginTeardown
  /\ UNCHANGED <<queueVars, TERMINATE, handler, worker, conn>>

SetUpQueue(succeeds) ==
  /\ At("queue")
  /\ IF succeeds
     THEN /\ Q!Open
          /\ boss' = "create"
          /\ p_workers' = NumWorkers
          /\ UNCHANGED i
     ELSE BeginTeardown /\ UNCHANGED queueVars
  /\ UNCHANGED <<signalVars, worker, conn>>

CreateWorker ==
  /\ At("create")
  /\ worker' = [worker EXCEPT ![i] = "loop"]
  /\ i' = i + 1
  /\ boss' = IF i + 1 = p_workers THEN "run" ELSE "create"
  /\ UNCHANGED <<queueVars, p_workers, signalVars, conn>>

CreateFails ==
  /\ At("create")
  /\ BeginTeardown
  /\ UNCHANGED <<queueVars, signalVars, worker, conn>>

-----------------------------------------------------------------------------
(* run(): while (!TERMINATE) { accept; put }.                              *)

TestTerminate ==
  /\ At("run")
  /\ IF TERMINATE THEN BeginTeardown ELSE Goto("accept")
  /\ UNCHANGED <<queueVars, signalVars, worker, conn>>

Accept(c) ==
  /\ At("accept")
  /\ listening = "open"
  /\ conn[c] = "backlog"
  /\ conn' = [conn EXCEPT ![c] = "accepted"]
  /\ Q!CallPut(Boss, c)
  /\ Goto("put")
  /\ UNCHANGED <<signalVars, worker>>

\* A socket that was shut down no longer blocks accept, now or later.
AcceptOnShutSocket ==
  /\ At("accept")
  /\ listening = "shut"
  /\ Goto("run")
  /\ UNCHANGED <<queueVars, signalVars, worker, conn>>

\* Out of descriptors, say, which accept notices before it waits.
AcceptFails ==
  /\ At("accept")
  /\ listening = "open"
  /\ Goto("run")
  /\ UNCHANGED <<queueVars, signalVars, worker, conn>>

PutReturns ==
  /\ At("put")
  /\ Q!Put(Boss)
  /\ Goto("run")
  /\ UNCHANGED <<signalVars, worker, conn>>

-----------------------------------------------------------------------------
(* teardown(): a pill for each worker, then wait for each worker.          *)

\* (OnePillShort is what the loop's bound could wrongly be.)
OnePillShort == IF p_workers = 0 THEN 0 ELSE p_workers - 1
PillsToPost == p_workers

PostPill ==
  /\ At("pills")
  /\ i < PillsToPost
  /\ Q!CallPut(Boss, Pill)
  /\ Goto("pill")
  /\ UNCHANGED <<signalVars, worker, conn>>

PillPosted ==
  /\ At("pill")
  /\ Q!Put(Boss)
  /\ boss' = "pills"
  /\ i' = i + 1
  /\ UNCHANGED <<p_workers, signalVars, worker, conn>>

BeginJoin ==
  /\ At("pills")
  /\ i = PillsToPost
  /\ boss' = "join"
  /\ i' = 0
  /\ UNCHANGED <<queueVars, p_workers, signalVars, worker, conn>>

\* pthread_join waits for the thread; JoinableAtOnce is a detached thread.
JoinableAtOnce(w) == worker[w] # "absent"
Joinable(w) == worker[w] = "exited"

Join ==
  /\ At("join")
  /\ i < p_workers
  /\ Joinable(i)
  /\ i' = i + 1
  /\ UNCHANGED <<queueVars, boss, p_workers, signalVars, worker, conn>>

(***************************************************************************)
(* After CreateFails, teardown also joins the workers that do not exist:   *)
(* their handles are whatever malloc returned for p_workerPool.            *)
(* pthread_join may crash on such a handle, or return, at once because it  *)
(* refuses it or later because it is another thread's; or it may block for *)
(* ever, which is never to take this step.                                 *)
(***************************************************************************)
HandleUnset == boss = "join" /\ i < p_workers /\ worker[i] = "absent"

JoinUnsetHandle ==
  /\ Runs(Boss)
  /\ HandleUnset
  /\ \/ boss' = "crashed" /\ UNCHANGED i
     \/ boss' = "join" /\ i' = i + 1
  /\ UNCHANGED <<queueVars, p_workers, signalVars, worker, conn>>

\* ml_safeq_teardown, the frees and close(p_socket), and ml_proxy returns.
Return ==
  /\ At("join")
  /\ i = p_workers
  /\ Q!Close
  /\ listening' = "no"
  /\ conn' = [c \in Conns |-> IF conn[c] = "backlog" THEN "reset" ELSE conn[c]]
  /\ Goto("returned")
  /\ UNCHANGED <<TERMINATE, handler, worker>>

-----------------------------------------------------------------------------
(* ml_worker(): hClient is value[w].                                       *)

AtWorker(w, label) == worker[w] = label /\ Runs(w) /\ ~Exited

WorkerGoto(w, label) == worker' = [worker EXCEPT ![w] = label]

WorkerCallsGet(w) ==
  /\ AtWorker(w, "loop")
  /\ Q!CallGet(w)
  /\ WorkerGoto(w, "get")
  /\ UNCHANGED <<bossVars, signalVars, conn>>

GetReturns(w) ==
  /\ AtWorker(w, "get")
  /\ Q!Get(w)
  /\ WorkerGoto(w, "got")
  /\ UNCHANGED <<bossVars, signalVars, conn>>

WorkerTakesPill(w) ==
  /\ AtWorker(w, "got")
  /\ value[w] = Pill
  /\ WorkerGoto(w, "exited")
  /\ UNCHANGED <<queueVars, bossVars, signalVars, conn>>

BeginConnection(w) ==
  /\ AtWorker(w, "got")
  /\ value[w] # Pill
  /\ ~TERMINATE
  /\ WorkerGoto(w, "processing")
  /\ UNCHANGED <<queueVars, bossVars, signalVars, conn>>

EndConnection(w) ==
  /\ AtWorker(w, "processing")
  /\ WorkerGoto(w, "close")
  /\ UNCHANGED <<queueVars, bossVars, signalVars, conn>>

\* Two ways to write the shutdown wrongly: `continue`, or `return`, when the
\* flag is set.
SkipWithoutClose(w) ==
  /\ AtWorker(w, "got")
  /\ value[w] # Pill
  /\ TERMINATE
  /\ WorkerGoto(w, "loop")
  /\ UNCHANGED <<queueVars, bossVars, signalVars, conn>>

ExitOnTerminate(w) ==
  /\ AtWorker(w, "got")
  /\ value[w] # Pill
  /\ TERMINATE
  /\ conn' = [conn EXCEPT ![value[w]] = "closed"]
  /\ WorkerGoto(w, "exited")
  /\ UNCHANGED <<queueVars, bossVars, signalVars>>

SkipConnection(w) ==
  /\ AtWorker(w, "got")
  /\ value[w] # Pill
  /\ TERMINATE
  /\ WorkerGoto(w, "close")
  /\ UNCHANGED <<queueVars, bossVars, signalVars, conn>>

CloseConnection(w) ==
  /\ AtWorker(w, "close")
  /\ conn' = [conn EXCEPT ![value[w]] = "closed"]
  /\ WorkerGoto(w, "loop")
  /\ UNCHANGED <<queueVars, bossVars, signalVars>>

-----------------------------------------------------------------------------
(***************************************************************************)
(* SIGINT.  The kernel runs the handler on any live thread.  It first      *)
(* shuts p_socket down (which has no effect on one that does not listen    *)
(* yet, and makes the kernel reset the connections in its backlog), then   *)
(* sets the flag.  Other threads run between the two.                      *)
(***************************************************************************)
LiveThreads == {Boss} \cup {w \in Workers : worker[w] \notin {"absent", "exited"}}

LeaveListener == UNCHANGED <<listening, conn>>
ShutListener ==
  IF listening = "open"
  THEN /\ listening' = "shut"
       /\ conn' = [c \in Conns |->
                     IF conn[c] = "backlog" THEN "reset" ELSE conn[c]]
  ELSE UNCHANGED <<listening, conn>>

Interrupt(t) ==
  /\ ~Exited
  /\ handler = NoThread
  /\ t \in LiveThreads
  /\ handler' = t
  /\ ShutListener
  /\ UNCHANGED <<queueVars, bossVars, TERMINATE, worker>>

HandlerReturns ==
  /\ ~Exited
  /\ handler # NoThread
  /\ TERMINATE' = TRUE
  /\ handler' = NoThread
  /\ UNCHANGED <<queueVars, bossVars, listening, worker, conn>>

\* A client connects; the kernel completes the handshake without the proxy.
Connect(c) ==
  /\ listening = "open"
  /\ conn[c] = "new"
  /\ conn' = [conn EXCEPT ![c] = "backlog"]
  /\ UNCHANGED <<queueVars, bossVars, signalVars, worker>>

Stopped == Exited /\ UNCHANGED vars

-----------------------------------------------------------------------------

BossInitializes ==
  \/ \E succeeds \in BOOLEAN : SetUpSocket(succeeds) \/ SetUpQueue(succeeds)
  \/ CreateWorker
  \/ CreateFails

BossRuns ==
  \/ TestTerminate
  \/ \E c \in Conns : Accept(c)
  \/ AcceptOnShutSocket
  \/ PutReturns

BossTearsDown ==
  \/ PostPill
  \/ PillPosted
  \/ BeginJoin
  \/ Join
  \/ JoinUnsetHandle
  \/ Return

BossStep == BossInitializes \/ BossRuns \/ BossTearsDown

WorkerStep(w) ==
  \/ WorkerCallsGet(w)
  \/ WorkerTakesPill(w)
  \/ BeginConnection(w)
  \/ EndConnection(w)
  \/ SkipConnection(w)
  \/ CloseConnection(w)

Next ==
  \/ BossStep
  \/ AcceptFails
  \/ \E w \in Workers : WorkerStep(w) \/ GetReturns(w)
  \/ \E t \in Threads : Interrupt(t)
  \/ HandlerReturns
  \/ \E c \in Conns : Connect(c)
  \/ Stopped

Spec == Init /\ [][Next]_vars

(***************************************************************************)
(* Every thread keeps running and the handler returns.  Nothing makes an   *)
(* accept on an open socket return before a client comes: AcceptFails is   *)
(* not part of BossStep.  Nor need pthread_join return for a handle that   *)
(* was never set.  The queue gives what BoundedFifo!Fairness               *)
(* promises: some waiting worker gets an item.                             *)
(* EndConnection is fair: that processConnection returns is assumed here   *)
(* (its reads time out after TIMEOUT_SEC, its writes do not).  Clients owe *)
(* nothing; SIGINT need not come, but does not come forever.               *)
(***************************************************************************)
Fairness ==
  /\ WF_vars(BossStep /\ ~HandleUnset)
  /\ \A w \in Workers : WF_vars(WorkerStep(w))
  /\ WF_vars(\E w \in Workers : GetReturns(w))
  /\ WF_vars(HandlerReturns)
  /\ <>[][\A t \in Threads : ~Interrupt(t)]_vars

FairSpec == Spec /\ Fairness

-----------------------------------------------------------------------------
(* Properties.                                                             *)

\* Types.  The boss's counter never passes the number of workers.
TypeOK ==
  /\ open \in BOOLEAN
  /\ queue \in Seq(Conns \cup {Pill})
  /\ pending \subseteq Threads
  /\ value \in [Threads -> Conns \cup {Pill, NoItem}]
  /\ boss \in {"socket", "queue", "create", "run", "accept", "put", "pills",
              "pill", "join", "returned", "crashed"}
  /\ i \in 0 .. NumWorkers
  /\ p_workers \in {0, NumWorkers}
  /\ listening \in {"no", "open", "shut"}
  /\ TERMINATE \in BOOLEAN
  /\ handler \in Threads \cup {NoThread}
  /\ worker \in [Workers -> {"absent", "loop", "get", "got", "processing",
                            "close", "exited"}]
  /\ conn \in [Conns -> {"new", "backlog", "accepted", "closed", "reset"}]

InHand(t) ==
  IF t = Boss THEN boss = "put"
              ELSE worker[t] \in {"got", "processing", "close"}

Owners(c) ==
  Cardinality({t \in Threads : InHand(t) /\ value[t] = c}) +
  Cardinality({k \in DOMAIN queue : queue[k] = c})

(***************************************************************************)
(* A connection that was accepted and is not closed yet is in exactly one  *)
(* place: the boss's hands, the queue, or one worker's.  None is leaked,   *)
(* closed twice or served by two workers, also during and after shutdown:  *)
(* when teardown drops the queue (ml_safeq_teardown) none is left in it.   *)
(***************************************************************************)
OneOwner ==
  \A c \in Conns : Owners(c) = IF conn[c] = "accepted" THEN 1 ELSE 0

(***************************************************************************)
(* teardown posts as many pills as there are workers to stop: at each of   *)
(* its steps, the pills still to post, queued, or taken and not yet looked *)
(* at are one for each worker that has not returned (counting the ones     *)
(* that initialize failed to create).                                      *)
(***************************************************************************)
PillsLeftToPost == IF boss = "join" THEN 0 ELSE p_workers - i

PillsUnderway ==
  Cardinality({k \in DOMAIN queue : queue[k] = Pill}) +
  Cardinality({w \in Workers : InHand(w) /\ value[w] = Pill})

WorkersToStop == {w \in Workers : w < p_workers /\ worker[w] # "exited"}

PillPerWorker ==
  boss \in {"pills", "pill", "join"} =>
    PillsLeftToPost + PillsUnderway = Cardinality(WorkersToStop)

(***************************************************************************)
(* The queue is used as BoundedFifo asks.  It exists as long as somebody   *)
(* may use it: assert(sockets.array) in ml_safeq_put and ml_safeq_get      *)
(* never fails, whether initialize, run or SIGINT led to teardown.  It is  *)
(* set up once, torn down when no call is in progress, and a thread makes  *)
(* one call at a time.                                                     *)
(***************************************************************************)
QueueUsedAsPromised ==
  /\ boss = "queue" => ~open /\ pending = {}
  /\ boss = "accept" \/ (boss = "pills" /\ i < p_workers) => open /\ Boss \notin pending
  /\ boss \in {"put", "pill"} => open /\ Boss \in pending
  /\ boss = "join" /\ i = p_workers => pending = {}
  /\ \A w \in Workers :
       /\ worker[w] \notin {"absent", "exited"} => open
       /\ worker[w] = "loop" => w \notin pending
       /\ worker[w] = "get" => w \in pending

-----------------------------------------------------------------------------
(***************************************************************************)
(* The promise to clients.  A connection waits in the boss's hands or in   *)
(* the queue; pills are nobody's.                             *)
(***************************************************************************)
Waiting ==
  {c \in Conns : (boss = "put" /\ value[Boss] = c) \/ \E k \in DOMAIN queue : queue[k] = c}

Ahead ==
  {p \in Conns \X Conns :
     \E k \in DOMAIN queue :
       /\ queue[k] = p[1]
       /\ \/ boss = "put" /\ value[Boss] = p[2]
          \/ \E l \in DOMAIN queue : k < l /\ queue[l] = p[2]}

Serving ==
  [w \in Workers |-> IF InHand(w) /\ value[w] \in Conns THEN value[w] ELSE NoItem]

Closed == {c \in Conns : conn[c] = "closed"}

Service == INSTANCE ConnectionService
             WITH NoConn <- NoItem, waiting <- Waiting, ahead <- Ahead,
                  serving <- Serving, closed <- Closed

\* Connections are served first come, first served, each once and by one
\* worker, whatever the interleaving and also while the proxy shuts down.
ServedInOrder == Service!Spec

\* SIGINT ends the process, wherever the boss was: blocked in accept, waiting
\* for a place in a full queue, or still in initialize; unless initialize has
\* failed to create a worker, and teardown waits for one that does not exist.
ShutdownCompletes == TERMINATE ~> (Exited \/ HandleUnset)

\* A connection that was accepted is closed, whenever SIGINT comes.
AcceptedIsClosed == \A c \in Conns : conn[c] = "accepted" ~> conn[c] = "closed"

\* A failure of initialize is reported and ml_proxy returns it (proxy.c and
\* main.c print a message for it): teardown never crashes.
InitFailureIsReported == boss # "crashed"

=============================================================================
