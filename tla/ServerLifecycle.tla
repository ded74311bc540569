-------------------------- MODULE ServerLifecycle --------------------------
(***************************************************************************)
(* The server process from ml_server() to the end of main: the boss thread *)
(* (main, server.c), the worker threads (worker.c) and the SIGINT handler. *)
(*                                                                         *)
(* It differs from the proxy where it matters here.  The boss does not     *)
(* look at accept's result, so a failure puts the socket -1 into the       *)
(* queue; nobody tells the workers to return or waits for them, as the     *)
(* process ends when main returns; and a worker reads from its client      *)
(* without a timeout, so it serves a connection for as long as the client  *)
(* keeps it waiting.                                                       *)
(***************************************************************************)
EXTENDS Naturals, Sequences, FiniteSets

CONSTANTS Boss,         \* the thread that runs main
          NumWorkers,   \* the -w option, or its default
          Conns,        \* the connections clients may open
          BadSocket,    \* -1, what accept returns when it fails
          Capacity,     \* of the queue: INITIAL_CAPACITY
          NoItem,       \* the content of a variable nothing was assigned to
          NoThread      \* no thread runs the handler

Workers == 0 .. NumWorkers - 1
Threads == {Boss} \cup Workers

ASSUME ServerAssumption ==
  /\ NumWorkers \in Nat \ {0}
  /\ Capacity \in Nat \ {0}
  /\ Boss \notin Workers
  /\ NoThread \notin Threads
  /\ BadSocket \notin Conns
  /\ NoItem \notin Conns \cup {BadSocket}

VARIABLES open, queue, pending, value,  \* the queue (BoundedFifo)
          boss,       \* where the boss is in server.c
          i,          \* the loop variable of initialize
          listening,  \* hServerSocket: "no", "open", then "shut" by shutdown()
          terminate,
          handler,    \* the thread that is inside signal_callback_handler
          worker,     \* where each worker is in ml_worker
          conn,       \* what has become of each connection
          spoken      \* the clients that have sent their request, or hung up

queueVars == <<open, queue, pending, value>>
bossVars == <<boss, i>>
signalVars == <<listening, terminate, handler>>
connVars == <<conn, spoken>>
vars == <<queueVars, bossVars, signalVars, worker, connVars>>

Q == INSTANCE BoundedFifo
       WITH Producers <- {Boss}, Consumers <- Workers,
            Items <- Conns \cup {BadSocket}, Bound <- Capacity

Init ==
  /\ Q!Init
  /\ boss = "socket"
  /\ i = 0
  /\ listening = "no"
  /\ terminate = FALSE
  /\ handler = NoThread
  /\ worker = [w \in Workers |-> "absent"]
  /\ conn = [c \in Conns |-> "new"]
  /\ spoken = {}

\* main has returned, which ends every thread.
Exited == boss = "exited"

-----------------------------------------------------------------------------
(* initialize(): each failure makes ml_server and main return.             *)

At(label) == boss = label /\ handler # Boss

Goto(label) == boss' = label /\ UNCHANGED i

SetUpSocket(succeeds) ==
  /\ At("socket")
  /\ listening' = IF succeeds THEN "open" ELSE "no"
  /\ Goto(IF succeeds THEN "queue" ELSE "exited")
  /\ UNCHANGED <<queueVars, terminate, handler, worker, connVars>>

SetUpQueue ==
  /\ At("queue")
  /\ \/ Q!Open /\ Goto("create")
     \/ UNCHANGED queueVars /\ Goto("exited")
  /\ UNCHANGED <<signalVars, worker, connVars>>

CreateWorker ==
  /\ At("create")
  /\ worker' = [worker EXCEPT ![i] = "loop"]
  /\ i' = i + 1
  /\ boss' = IF i + 1 = NumWorkers THEN "run" ELSE "create"
  /\ UNCHANGED <<queueVars, signalVars, connVars>>

CreateFails ==
  /\ At("create")
  /\ Goto("exited")
  /\ UNCHANGED <<queueVars, signalVars, worker, connVars>>

-----------------------------------------------------------------------------
(* run(): while (!terminate) { accept; put }.                              *)

TestTerminate ==
  /\ At("run")
  /\ Goto(IF terminate THEN "exited" ELSE "accept")
  /\ UNCHANGED <<queueVars, signalVars, worker, connVars>>

Accept(c) ==
  /\ At("accept")
  /\ listening = "open"
  /\ conn[c] = "backlog"
  /\ conn' = [conn EXCEPT ![c] = "accepted"]
  /\ Q!CallPut(Boss, c)
  /\ Goto("put")
  /\ UNCHANGED <<signalVars, worker, spoken>>

\* accept returns -1, and the boss puts it into the queue.
QueueBadSocket ==
  /\ At("accept")
  /\ Q!CallPut(Boss, BadSocket)
  /\ Goto("put")
  /\ UNCHANGED <<signalVars, worker, connVars>>

\* Now and then on an open socket, at once and always on one that was shut down.
AcceptFails == listening = "open" /\ QueueBadSocket
AcceptOnShutSocket == listening = "shut" /\ QueueBadSocket

PutReturns ==
  /\ At("put")
  /\ Q!Put(Boss)
  /\ Goto("run")
  /\ UNCHANGED <<signalVars, worker, connVars>>

-----------------------------------------------------------------------------
(* ml_worker(): hSocket is value[w].                                       *)

AtWorker(w, label) == worker[w] = label /\ handler # w /\ ~Exited

WorkerGoto(w, label) == worker' = [worker EXCEPT ![w] = label]

WorkerCallsGet(w) ==
  /\ AtWorker(w, "loop")
  /\ Q!CallGet(w)
  /\ WorkerGoto(w, "get")
  /\ UNCHANGED <<bossVars, signalVars, connVars>>

GetReturns(w) ==
  /\ AtWorker(w, "get")
  /\ Q!Get(w)
  /\ WorkerGoto(w, "got")
  /\ UNCHANGED <<bossVars, signalVars, connVars>>

\* processConnection returns at once and close(-1) fails.  A worker that left
\* its loop instead would be ReturnOnBadSocket.
ReturnOnBadSocket(w) ==
  /\ AtWorker(w, "got")
  /\ value[w] = BadSocket
  /\ WorkerGoto(w, "returned")
  /\ UNCHANGED <<queueVars, bossVars, signalVars, connVars>>

DropBadSocket(w) ==
  /\ AtWorker(w, "got")
  /\ value[w] = BadSocket
  /\ WorkerGoto(w, "loop")
  /\ UNCHANGED <<queueVars, bossVars, signalVars, connVars>>

BeginConnection(w) ==
  /\ AtWorker(w, "got")
  /\ value[w] # BadSocket
  /\ WorkerGoto(w, "processing")
  /\ UNCHANGED <<queueVars, bossVars, signalVars, connVars>>

\* processConnection waits for its client without a timeout.
EndConnection(w) ==
  /\ AtWorker(w, "processing")
  /\ value[w] \in spoken
  /\ WorkerGoto(w, "close")
  /\ UNCHANGED <<queueVars, bossVars, signalVars, connVars>>

\* KeepConnection is the loop without its close.
KeepConnection(w) ==
  /\ AtWorker(w, "close")
  /\ WorkerGoto(w, "loop")
  /\ UNCHANGED <<queueVars, bossVars, signalVars, connVars>>

CloseConnection(w) ==
  /\ AtWorker(w, "close")
  /\ conn' = [conn EXCEPT ![value[w]] = "closed"]
  /\ WorkerGoto(w, "loop")
  /\ UNCHANGED <<queueVars, bossVars, signalVars, spoken>>

-----------------------------------------------------------------------------
(***************************************************************************)
(* SIGINT, on any thread: shut the listening socket down, which resets the *)
(* connections in its backlog, then set the flag.                          *)
(***************************************************************************)
LiveThreads == {Boss} \cup {w \in Workers : worker[w] # "absent"}

Interrupt(t) ==
  /\ ~Exited
  /\ handler = NoThread
  /\ t \in LiveThreads
  /\ handler' = t
  /\ IF listening = "open"
     THEN /\ listening' = "shut"
          /\ conn' = [c \in Conns |->
                        IF conn[c] = "backlog" THEN "reset" ELSE conn[c]]
     ELSE UNCHANGED <<listening, conn>>
  /\ UNCHANGED <<queueVars, bossVars, terminate, worker, spoken>>

HandlerReturns ==
  /\ ~Exited
  /\ handler # NoThread
  /\ terminate' = TRUE
  /\ handler' = NoThread
  /\ UNCHANGED <<queueVars, bossVars, listening, worker, connVars>>

-----------------------------------------------------------------------------
(* Clients.  A connection is completed by the kernel, into the backlog.    *)

Connect(c) ==
  /\ ~Exited
  /\ listening = "open"
  /\ conn[c] = "new"
  /\ conn' = [conn EXCEPT ![c] = "backlog"]
  /\ UNCHANGED <<queueVars, bossVars, signalVars, worker, spoken>>

ClientSpeaks(c) ==
  /\ ~Exited
  /\ conn[c] \in {"backlog", "accepted"}
  /\ c \notin spoken
  /\ spoken' = spoken \cup {c}
  /\ UNCHANGED <<queueVars, bossVars, signalVars, worker, conn>>

Stopped == Exited /\ UNCHANGED vars

-----------------------------------------------------------------------------

BossStep ==
  \/ \E succeeds \in BOOLEAN : SetUpSocket(succeeds)
  \/ SetUpQueue
  \/ CreateWorker
  \/ CreateFails
  \/ TestTerminate
  \/ \E c \in Conns : Accept(c)
  \/ AcceptOnShutSocket
  \/ PutReturns

WorkerStep(w) ==
  \/ WorkerCallsGet(w)
  \/ DropBadSocket(w)
  \/ BeginConnection(w)
  \/ EndConnection(w)
  \/ CloseConnection(w)

Next ==
  \/ BossStep
  \/ AcceptFails
  \/ \E w \in Workers : WorkerStep(w) \/ GetReturns(w)
  \/ \E t \in Threads : Interrupt(t)
  \/ HandlerReturns
  \/ \E c \in Conns : Connect(c) \/ ClientSpeaks(c)
  \/ Stopped

Spec == Init /\ [][Next]_vars

(***************************************************************************)
(* Every thread keeps running and the handler returns; some waiting worker *)
(* gets an item (BoundedFifo!Fairness); SIGINT does not come forever.      *)
(* Nothing makes an accept on an open socket return before a client comes: *)
(* AcceptFails is not part of BossStep.                                    *)
(* FairSpec asks nothing of clients.  SpeakingSpec asks that each finally  *)
(* sends its request or hangs up.                                          *)
(***************************************************************************)
Fairness ==
  /\ WF_vars(BossStep)
  /\ \A w \in Workers : WF_vars(WorkerStep(w))
  /\ WF_vars(\E w \in Workers : GetReturns(w))
  /\ WF_vars(HandlerReturns)
  /\ <>[][\A t \in Threads : ~Interrupt(t)]_vars

FairSpec == Spec /\ Fairness

SpeakingSpec == FairSpec /\ \A c \in Conns : WF_vars(ClientSpeaks(c))

-----------------------------------------------------------------------------
(* Properties.                                                             *)

\* Types.  No worker ever leaves its loop.
TypeOK ==
  /\ open \in BOOLEAN
  /\ queue \in Seq(Conns \cup {BadSocket}) /\ Len(queue) <= Capacity
  /\ pending \subseteq Threads
  /\ value \in [Threads -> Conns \cup {BadSocket, NoItem}]
  /\ boss \in {"socket", "queue", "create", "run", "accept", "put", "exited"}
  /\ i \in 0 .. NumWorkers
  /\ listening \in {"no", "open", "shut"}
  /\ terminate \in BOOLEAN
  /\ handler \in Threads \cup {NoThread}
  /\ worker \in [Workers -> {"absent", "loop", "get", "got", "processing", "close"}]
  /\ conn \in [Conns -> {"new", "backlog", "accepted", "closed", "reset"}]
  /\ spoken \subseteq Conns

InHand(t) ==
  IF t = Boss THEN boss = "put"
              ELSE worker[t] \in {"got", "processing", "close"}

Owners(c) ==
  Cardinality({t \in Threads : InHand(t) /\ value[t] = c}) +
  Cardinality({k \in DOMAIN queue : queue[k] = c})

\* An accepted connection is in exactly one place until a worker closes it,
\* whatever failures of accept are queued between the connections.
OneOwner ==
  \A c \in Conns : Owners(c) = IF conn[c] = "accepted" THEN 1 ELSE 0

(***************************************************************************)
(* The queue is used as BoundedFifo asks, by whichever threads initialize  *)
(* could create: it is set up before the first call, and a thread makes    *)
(* one call at a time.                                                     *)
(***************************************************************************)
QueueUsedAsPromised ==
  /\ boss = "queue" => ~open /\ pending = {}
  /\ boss = "accept" => open /\ Boss \notin pending
  /\ boss = "put" => open /\ Boss \in pending
  /\ \A w \in Workers :
       /\ worker[w] # "absent" => open
       /\ worker[w] = "loop" => w \notin pending
       /\ worker[w] = "get" => w \in pending

-----------------------------------------------------------------------------
(***************************************************************************)
(* The promise to clients.  A connection waits in the boss's hands or in   *)
(* the queue; a -1 there is nobody's.                         *)
(***************************************************************************)
Waiting ==
  {c \in Conns : (boss = "put" /\ value[Boss] = c) \/ \E k \in DOMAIN queue : queue[k] = c}

Ahead ==
  {p \in Conns \X Conns :
     \E k \in DOMAIN queue :
       /\ queue[k] = p[1]
       /\ \/ boss = "put" /\ value[Boss] = p[2]
          \/ \E l \in DOMAIN queue : k < l /\ queue[l] = p[2]}

Serving ==
  [w \in Workers |-> IF InHand(w) /\ value[w] \in Conns THEN value[w] ELSE NoItem]

Closed == {c \in Conns : conn[c] = "closed"}

Service == INSTANCE ConnectionService
             WITH NoConn <- NoItem, waiting <- Waiting, ahead <- Ahead,
                  serving <- Serving, closed <- Closed

\* Connections are served first come, first served, each once and by one
\* worker, with failures of accept queued between them.
ServedInOrder == Service!Spec

\* A failure of accept costs nothing: a connection accepted before or after it
\* is served, unless the process ends first.
AcceptedIsServed ==
  \A c \in Conns : conn[c] = "accepted" ~> (conn[c] = "closed" \/ Exited)

\* SIGINT ends the server (server.h: signal the server to shutdown).
ShutDownCompletes == terminate ~> Exited

=============================================================================
