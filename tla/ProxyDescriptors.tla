-------------------------- MODULE ProxyDescriptors --------------------------
(***************************************************************************)
(* What the proxy's threads do with the process's descriptor table: the    *)
(* boss accepts client sockets into it, and each worker serves the one it  *)
(* got (worker.c: processConnection, processProxyRequest, proxySocket and  *)
(* processJPG), opening a socket to the remote server or to the RPC        *)
(* service and closing what it opened.                                     *)
(*                                                                         *)
(* Threads know a socket only by its number.  A number that is closed is   *)
(* given out again, the lowest first, so a thread that closes a number     *)
(* once too often closes somebody else's socket.  That is what             *)
(* processProxyRequest risks when getaddrinfo fails: it jumps to cleanup,  *)
(* where hServer and result have never been assigned.                      *)
(*                                                                         *)
(* The page of a connection is named by the connection.  The queue is the  *)
(* sequence of numbers between boss and workers; its bound, and shutdown,  *)
(* are ProxyLifecycle's.                                                   *)
(***************************************************************************)
EXTENDS Integers, Sequences, FiniteSets

CONSTANTS Workers,
          Conns,   \* the connections clients make
          MaxFd    \* the descriptors the process may have, 1 .. MaxFd

NoConn == "none"

ASSUME DescriptorsAssumption == MaxFd \in Nat \ {0} /\ NoConn \notin Conns

Fds == 1 .. MaxFd

\* What a number stands for: nothing, a client's connection, a socket on which
\* the request of a connection is sent on, or one to the RPC service.
Free == [end |-> "free"]
Socket(end, c) == [end |-> end, conn |-> c]

Unset == 0     \* an automatic variable that was not assigned to
Failed == -1   \* what socket() returns when it fails

VARIABLES fd,        \* the descriptor table
          waiting,   \* the connections that were not accepted yet
          queue,     \* the numbers in the socket queue
          pc,        \* where each worker is in worker.c
          hClient, hServer, \* each worker's variables; hServer also for hRpc
          request,   \* the connection whose request is in the worker's buffer
          buffer,    \* what the worker has read from the server
          received,  \* what each client has been sent
          crashed,
          strayClose \* history: an unset hServer named an open descriptor

handles == <<hClient, hServer>>
workerVars == <<pc, hClient, hServer, request, buffer>>
vars == <<fd, waiting, queue, workerVars, received, crashed, strayClose>>

Pages == Conns

Init ==
  /\ fd = [n \in Fds |-> Free]
  /\ waiting = Conns
  /\ queue = <<>>
  /\ pc = [w \in Workers |-> "get"]
  /\ hClient = [w \in Workers |-> Unset]
  /\ hServer = [w \in Workers |-> Unset]
  /\ request = [w \in Workers |-> NoConn]
  /\ buffer = [w \in Workers |-> {}]
  /\ received = [c \in Conns |-> {}]
  /\ crashed = FALSE
  /\ strayClose = FALSE

-----------------------------------------------------------------------------
(* The kernel.                                                             *)

FreeFds == {n \in Fds : fd[n] = Free}

Lowest(S) == CHOOSE n \in S : \A m \in S : n <= m

IsOpen(n) == n \in Fds /\ fd[n] # Free

\* close(n); EBADF when n is not open.
Close(n) == fd' = IF IsOpen(n) THEN [fd EXCEPT ![n] = Free] ELSE fd

\* Bytes written to n reach whoever is at the other end of it now.
Send(n, messages) ==
  received' = IF IsOpen(n) /\ fd[n].end = "client"
              THEN [received EXCEPT ![fd[n].conn] = @ \cup messages]
              ELSE received

-----------------------------------------------------------------------------
(* The boss.                                                               *)

Accept(c) ==
  /\ ~crashed
  /\ c \in waiting
  /\ FreeFds # {}
  /\ waiting' = waiting \ {c}
  /\ fd' = [fd EXCEPT ![Lowest(FreeFds)] = Socket("client", c)]
  /\ queue' = Append(queue, Lowest(FreeFds))
  /\ UNCHANGED <<workerVars, received, crashed, strayClose>>

-----------------------------------------------------------------------------
(* ml_worker() and processConnection().                                    *)

At(w, label) == pc[w] = label /\ ~crashed

Goto(w, label) == pc' = [pc EXCEPT ![w] = label]

Get(w) ==
  /\ At(w, "get")
  /\ queue # <<>>
  /\ queue' = Tail(queue)
  /\ hClient' = [hClient EXCEPT ![w] = Head(queue)]
  /\ hServer' = [hServer EXCEPT ![w] = Unset]
  /\ Goto(w, "read")
  /\ UNCHANGED <<fd, waiting, request, buffer, received, crashed, strayClose>>

\* One read from the client.  Its outcome decides which request is made.
ReadRequest(w) ==
  /\ At(w, "read")
  /\ IF IsOpen(hClient[w]) /\ fd[hClient[w]].end = "client"
     THEN /\ request' = [request EXCEPT ![w] = fd[hClient[w]].conn]
          /\ \E label \in {"resolve", "rpc", "reject"} : Goto(w, label)
     ELSE Goto(w, "reject") /\ UNCHANGED request
  /\ UNCHANGED <<fd, waiting, queue, handles, buffer, received, crashed, strayClose>>

\* No data in time, or not a request the proxy takes: sendProxyError.
Reject(w) ==
  /\ At(w, "reject")
  /\ Send(hClient[w], {"error"})
  /\ Goto(w, "close")
  /\ UNCHANGED <<fd, waiting, queue, handles, request, buffer, crashed, strayClose>>

CloseClient(w) ==
  /\ At(w, "close")
  /\ Close(hClient[w])
  /\ Goto(w, "get")
  /\ request' = [request EXCEPT ![w] = NoConn]
  /\ UNCHANGED <<waiting, queue, handles, buffer, received, crashed, strayClose>>

-----------------------------------------------------------------------------
(* processProxyRequest().                                                  *)

ResolveFails(w) ==
  /\ At(w, "resolve")
  /\ Send(hClient[w], {"error"})
  /\ Goto(w, "unset cleanup")
  /\ UNCHANGED <<fd, waiting, queue, handles, request, buffer, crashed, strayClose>>

Resolve(w) ==
  /\ At(w, "resolve")
  /\ Goto(w, "socket")
  /\ UNCHANGED <<fd, waiting, queue, handles, request, buffer, received, crashed, strayClose>>

OpenServer(w) ==
  /\ At(w, "socket")
  /\ FreeFds # {}
  /\ fd' = [fd EXCEPT ![Lowest(FreeFds)] = Socket("server", request[w])]
  /\ hServer' = [hServer EXCEPT ![w] = Lowest(FreeFds)]
  /\ Goto(w, "connect")
  /\ UNCHANGED <<waiting, queue, hClient, request, buffer, received, crashed, strayClose>>

\* socket also fails with descriptors left, for want of memory.
OpenServerFails(w) ==
  /\ At(w, "socket")
  /\ hServer' = [hServer EXCEPT ![w] = Failed]
  /\ Send(hClient[w], {"error"})
  /\ Goto(w, "cleanup")
  /\ UNCHANGED <<fd, waiting, queue, hClient, request, buffer, crashed, strayClose>>

\* The number must still be the socket that was just opened.  ConnectFailsEarly
\* returns without going through cleanup.
Connect(w) ==
  /\ At(w, "connect")
  /\ fd[hServer[w]] = Socket("server", request[w])
  /\ Goto(w, "send")
  /\ UNCHANGED <<fd, waiting, queue, handles, request, buffer, received, crashed, strayClose>>

ConnectFailsEarly(w) ==
  /\ At(w, "connect")
  /\ Send(hClient[w], {"error"})
  /\ Goto(w, "close")
  /\ UNCHANGED <<fd, waiting, queue, handles, request, buffer, crashed, strayClose>>

ConnectFails(w) ==
  /\ At(w, "connect")
  /\ Send(hClient[w], {"error"})
  /\ Goto(w, "cleanup")
  /\ UNCHANGED <<fd, waiting, queue, handles, request, buffer, crashed, strayClose>>

\* proxySocket finds the request too long for its buffer and says nothing.
RequestTooLong(w) ==
  /\ At(w, "send")
  /\ Goto(w, "cleanup")
  /\ UNCHANGED <<fd, waiting, queue, handles, request, buffer, received, crashed, strayClose>>

SendFails(w) ==
  /\ At(w, "send")
  /\ Send(hClient[w], {"error"})
  /\ Goto(w, "cleanup")
  /\ UNCHANGED <<fd, waiting, queue, handles, request, buffer, crashed, strayClose>>

SendRequest(w) ==
  /\ At(w, "send")
  /\ IsOpen(hServer[w])
  /\ Send(hServer[w], {"request"})
  /\ Goto(w, "shuttle")
  /\ UNCHANGED <<fd, waiting, queue, handles, request, buffer, crashed, strayClose>>

\* Read a part of the answer from whatever hServer is now.
ReadServer(w) ==
  /\ At(w, "shuttle")
  /\ IsOpen(hServer[w])
  /\ buffer' = [buffer EXCEPT ![w] =
                  IF fd[hServer[w]].end = "server" THEN {fd[hServer[w]].conn} ELSE {}]
  /\ Goto(w, "write")
  /\ UNCHANGED <<fd, waiting, queue, handles, request, received, crashed, strayClose>>

WriteClient(w) ==
  /\ At(w, "write")
  /\ Send(hClient[w], buffer[w])
  /\ buffer' = [buffer EXCEPT ![w] = {}]
  /\ Goto(w, "shuttle")
  /\ UNCHANGED <<fd, waiting, queue, handles, request, crashed, strayClose>>

\* The end of the answer, a timeout or an error: the client is told the end, by
\* shutdown.  EndOfAnswerCloses closes hClient instead; ml_worker does so again.
EndOfAnswerCloses(w) ==
  /\ At(w, "shuttle")
  /\ Close(hClient[w])
  /\ Goto(w, "cleanup")
  /\ UNCHANGED <<waiting, queue, handles, request, buffer, received, crashed, strayClose>>

EndOfAnswer(w) ==
  /\ At(w, "shuttle")
  /\ Goto(w, "cleanup")
  /\ UNCHANGED <<fd, waiting, queue, handles, request, buffer, received, crashed, strayClose>>

Cleanup(w) ==
  /\ At(w, "cleanup")
  /\ Close(hServer[w])
  /\ Goto(w, "close")
  /\ UNCHANGED <<waiting, queue, handles, request, buffer, received, crashed, strayClose>>

(***************************************************************************)
(* cleanup after getaddrinfo failed: freeaddrinfo of whatever result holds *)
(* may crash, and close of whatever hServer holds may be anything.         *)
(***************************************************************************)
UnsetCleanup(w) ==
  /\ At(w, "unset cleanup")
  /\ \E n \in Fds \cup {Failed} :
       /\ Close(n)
       /\ strayClose' = (strayClose \/ IsOpen(n))
  /\ Goto(w, "close")
  /\ UNCHANGED <<waiting, queue, handles, request, buffer, received, crashed>>

UnsetCleanupCrashes(w) ==
  /\ At(w, "unset cleanup")
  /\ crashed' = TRUE
  /\ UNCHANGED <<fd, waiting, queue, workerVars, received, strayClose>>

-----------------------------------------------------------------------------
(* processJPG(): clnt_create, img_proc_2, the answer, clnt_destroy.        *)

CreateRpcClient(w) ==
  /\ At(w, "rpc")
  /\ FreeFds # {}
  /\ fd' = [fd EXCEPT ![Lowest(FreeFds)] = Socket("rpc", request[w])]
  /\ hServer' = [hServer EXCEPT ![w] = Lowest(FreeFds)]
  /\ Goto(w, "call")
  /\ UNCHANGED <<waiting, queue, hClient, request, buffer, received, crashed, strayClose>>

\* hRpc is NULL: the client gets an empty answer.
CreateRpcClientFails(w) ==
  /\ At(w, "rpc")
  /\ Goto(w, "close")
  /\ UNCHANGED <<fd, waiting, queue, handles, request, buffer, received, crashed, strayClose>>

\* The shrunken page, or nothing when the call fails.
CallRpc(w) ==
  /\ At(w, "call")
  /\ \/ /\ fd[hServer[w]] = Socket("rpc", request[w])
        /\ Send(hClient[w], {request[w]})
     \/ UNCHANGED received
  /\ Goto(w, "cleanup")
  /\ UNCHANGED <<fd, waiting, queue, handles, request, buffer, crashed, strayClose>>

-----------------------------------------------------------------------------

ServeDirectly(w) ==
  \/ ResolveFails(w)
  \/ Resolve(w)
  \/ OpenServer(w)
  \/ OpenServerFails(w)
  \/ Connect(w)
  \/ ConnectFails(w)
  \/ RequestTooLong(w)
  \/ SendFails(w)
  \/ SendRequest(w)
  \/ ReadServer(w)
  \/ WriteClient(w)
  \/ EndOfAnswer(w)
  \/ Cleanup(w)
  \/ UnsetCleanup(w)
  \/ UnsetCleanupCrashes(w)

ServeByRpc(w) ==
  \/ CreateRpcClient(w)
  \/ CreateRpcClientFails(w)
  \/ CallRpc(w)

WorkerStep(w) ==
  \/ Get(w)
  \/ ReadRequest(w)
  \/ Reject(w)
  \/ ServeDirectly(w)
  \/ ServeByRpc(w)
  \/ CloseClient(w)

\* Nothing more to do, or the process is gone.
Stopped ==
  /\ crashed \/ (queue = <<>> /\ waiting = {} /\ \A w \in Workers : pc[w] = "get")
  /\ UNCHANGED vars

Next ==
  \/ \E c \in Conns : Accept(c)
  \/ \E w \in Workers : WorkerStep(w)
  \/ Stopped

Spec == Init /\ [][Next]_vars

-----------------------------------------------------------------------------
(* Properties.                                                             *)

UsesServer(w) == pc[w] \in {"connect", "send", "shuttle", "write", "call", "cleanup"}

Holders(n) ==
  Cardinality({k \in DOMAIN queue : queue[k] = n}) +
  Cardinality({w \in Workers : pc[w] # "get" /\ hClient[w] = n}) +
  Cardinality({w \in Workers : UsesServer(w) /\ hServer[w] = n})

(***************************************************************************)
(* Every open descriptor is held by exactly one thread, for one purpose,   *)
(* or is in the queue, and no thread holds a number that is closed: the    *)
(* paths through worker.c, the failing ones included, neither leak a       *)
(* descriptor nor close one twice, until an unset hServer is closed.       *)
(***************************************************************************)
DescriptorsHeld ==
  ~strayClose => \A n \in Fds : Holders(n) = IF IsOpen(n) THEN 1 ELSE 0

\* A client is sent its own page, or an error, and nothing of another client's.
OwnPage == \A c \in Conns : received[c] \subseteq {"error", c}

\* ... however the numbers are given out again, until an unset hServer is closed.
OwnPageUnlessStray == ~strayClose => OwnPage

-----------------------------------------------------------------------------
(***************************************************************************)
(* The promise to clients: threads that know numbers only serve            *)
(* connections as ConnectionService says.                                  *)
(***************************************************************************)
Client(n) == IF n \in Fds /\ fd[n].end = "client" THEN fd[n].conn ELSE NoConn

InQueue == {c \in Conns : \E k \in DOMAIN queue : Client(queue[k]) = c}

Ahead ==
  {p \in Conns \X Conns :
     \E k, l \in DOMAIN queue : k < l /\ Client(queue[k]) = p[1] /\ Client(queue[l]) = p[2]}

ServedBy == [w \in Workers |-> IF pc[w] = "get" THEN NoConn ELSE Client(hClient[w])]

Closed == {c \in Conns \ waiting : \A n \in Fds : Client(n) # c}

Service == INSTANCE ConnectionService
             WITH waiting <- InQueue, ahead <- Ahead, serving <- ServedBy, closed <- Closed

\* A connection is taken in its turn, by one worker, and closed once, by that
\* worker, until an unset hServer is closed.
ServedUnlessStray ==
  Service!Init /\ [][~strayClose' => [Service!Next]_(Service!serviceVars)]_vars

=============================================================================
