---------------------- MODULE ProxyDescriptorsProofs ----------------------
(***************************************************************************)
(* For any number of workers, connections and descriptors: as long as no   *)
(* unset hServer has named an open descriptor, the proxy neither leaks a   *)
(* descriptor nor closes one twice, and tells no client what is another's. *)
(*                                                                         *)
(* DescriptorsHeld counts.  The invariant behind it does not: Held says    *)
(* that no two places of a number differ (a place is a position in the     *)
(* queue, or a worker's hClient or hServer while it is in use), and that   *)
(* it has one just when it is open.  Meaning says what the number in each  *)
(* place stands for; it is kept because a number that is opened or closed  *)
(* has, by Held, no other place.  Both end with the first stray close.     *)
(*                                                                         *)
(* ServedInTurn is the refinement of ConnectionService: Accepted says that *)
(* a connection has one number and Held that a number has one place, so a  *)
(* position in the queue stands for one connection that waits, and a       *)
(* worker's hClient for the one it serves.                                 *)
(*                                                                         *)
(* The worker's buffer outlives its requests; AnsweredFromOwnBytes says    *)
(* what the bytes of an earlier one can change in ProxyHttp.               *)
(***************************************************************************)
EXTENDS ProxyDescriptors, ProxyHttp, TLAPS, FiniteSetTheorems, SequenceTheorems, WellFoundedInduction

Labels ==
  {"get", "read", "resolve", "rpc", "reject", "close", "unset cleanup", "socket", "connect",
   "send", "shuttle", "write", "cleanup", "call"}

Messages == Conns \cup {"error", "request"}

\* While these labels last, the worker's buffer holds a client's request.
Serving ==
  {"resolve", "rpc", "unset cleanup", "socket", "connect", "send", "shuttle", "write", "call"}

Types ==
  /\ fd \in [Fds -> {Free} \cup [end : {"client", "server", "rpc"}, conn : Conns]]
  /\ queue \in Seq(Fds)
  /\ pc \in [Workers -> Labels]
  /\ hClient \in [Workers -> Fds \cup {Unset}]
  /\ hServer \in [Workers -> Fds \cup {Unset, Failed}]
  /\ request \in [Workers -> Conns \cup {NoConn}]
  /\ buffer \in [Workers -> SUBSET Conns]
  /\ received \in [Conns -> SUBSET Messages]

\* What the labels of worker.c imply about the worker's variables.
Program ==
  \A w \in Workers :
    /\ pc[w] # "get" => hClient[w] \in Fds
    /\ pc[w] \in Serving => request[w] \in Conns
    /\ pc[w] \in {"connect", "send", "shuttle", "write", "call"} => hServer[w] \in Fds

HasClient(w, n) == pc[w] # "get" /\ hClient[w] = n
HasServer(w, n) == UsesServer(w) /\ hServer[w] = n
Queued(n) == \E k \in 1 .. Len(queue) : queue[k] = n

Held ==
  /\ \A n \in Fds : \A v, w \in Workers : HasClient(v, n) /\ HasClient(w, n) => v = w
  /\ \A n \in Fds : \A v, w \in Workers : HasServer(v, n) /\ HasServer(w, n) => v = w
  /\ \A n \in Fds : \A v, w \in Workers : ~(HasClient(v, n) /\ HasServer(w, n))
  /\ \A j, k \in 1 .. Len(queue) : queue[j] = queue[k] => j = k
  /\ \A n \in Fds : Queued(n) => \A w \in Workers : ~HasClient(w, n) /\ ~HasServer(w, n)
  /\ \A n \in Fds : fd[n] # Free <=> \/ Queued(n)
                                     \/ \E w \in Workers : HasClient(w, n) \/ HasServer(w, n)

Meaning ==
  /\ \A n \in Fds : Queued(n) => fd[n].end = "client"
  /\ \A w \in Workers :
       /\ pc[w] # "get" => fd[hClient[w]].end = "client"
       /\ pc[w] \notin {"get", "read"} => fd[hClient[w]] = Socket("client", request[w])
       /\ pc[w] \in {"connect", "send", "shuttle", "write"} =>
            fd[hServer[w]] = Socket("server", request[w])
       /\ pc[w] = "call" => fd[hServer[w]] = Socket("rpc", request[w])
       /\ pc[w] = "write" => buffer[w] \subseteq {request[w]}

Inv == Types /\ Program /\ (~strayClose => Held /\ Meaning /\ OwnPage)

-----------------------------------------------------------------------------
(* The kernel gives out a number that is free.                             *)

LEMMA LowestIsFree == FreeFds # {} => Lowest(FreeFds) \in Fds /\ fd[Lowest(FreeFds)] = Free
<1> SUFFICES ASSUME FreeFds # {} PROVE Lowest(FreeFds) \in FreeFds
  BY DEF FreeFds
<1>1. FreeFds \subseteq Nat
  BY DescriptorsAssumption DEF FreeFds, Fds
<1> DEFINE Less == OpToRel(<, Nat)
<1>2. IsWellFoundedOn(Less, Nat)
  BY NatLessThanWellFounded
<1>3. \A m, n \in Nat : m < n => <<m, n>> \in Less
  BY DEF OpToRel
<1> HIDE DEF Less
<1>4. PICK n \in FreeFds : \A m \in FreeFds : <<m, n>> \notin Less
  BY <1>1, <1>2, WFMin
<1>5. ASSUME NEW m \in FreeFds PROVE n <= m
  <2>1. m \in Nat /\ n \in Nat
    BY <1>1
  <2>2. ~(m < n)
    BY <1>3, <1>4, <2>1
  <2> QED
    BY <2>1, <2>2
<1> QED
  BY <1>5 DEF Lowest

-----------------------------------------------------------------------------
(* Types.                                                                  *)

LEMMA InitInv == Init => Inv
<1> SUFFICES ASSUME Init PROVE Inv
  OBVIOUS
<1> USE DEF Init
<1>1. Types
  BY DEF Types, Labels, Messages
<1>2. Program
  BY DEF Program, Serving
<1>3. Held
  BY DEF Held, HasClient, HasServer, Queued, UsesServer
<1>4. Meaning
  BY DEF Meaning, Queued
<1>5. OwnPage
  BY DEF OwnPage
<1> QED
  BY <1>1, <1>2, <1>3, <1>4, <1>5 DEF Inv

\* Closing a number, whatever it is, leaves a descriptor table.
LEMMA CloseTypes ==
  ASSUME Types, NEW n, Close(n)
  PROVE  fd' \in [Fds -> {Free} \cup [end : {"client", "server", "rpc"}, conn : Conns]]
BY DEF Types, Close, IsOpen

\* So does opening one, for a connection.
LEMMA OpenTypes ==
  ASSUME Types, NEW end \in {"client", "server", "rpc"}, NEW c \in Conns, FreeFds # {},
         fd' = [fd EXCEPT ![Lowest(FreeFds)] = Socket(end, c)]
  PROVE  fd' \in [Fds -> {Free} \cup [end : {"client", "server", "rpc"}, conn : Conns]]
<1>1. Socket(end, c) \in [end : {"client", "server", "rpc"}, conn : Conns]
  BY DEF Socket
<1> QED
  BY <1>1, LowestIsFree DEF Types

\* What is sent is a page, an error or a request.
LEMMA SendTypes ==
  ASSUME Types, NEW n, NEW messages \in SUBSET Messages, Send(n, messages)
  PROVE  received' \in [Conns -> SUBSET Messages]
<1>1. CASE IsOpen(n) /\ fd[n].end = "client"
  <2>1. fd[n].conn \in Conns
    BY <1>1 DEF IsOpen, Types
  <2> QED
    BY <1>1, <2>1 DEF Types, Send
<1>2. CASE ~(IsOpen(n) /\ fd[n].end = "client")
  BY <1>2 DEF Types, Send
<1> QED
  BY <1>1, <1>2

LEMMA TypesStep == Types /\ Program /\ [Next]_vars => (Types /\ Program)'
<1> SUFFICES ASSUME Types, Program, [Next]_vars PROVE (Types /\ Program)'
  OBVIOUS
<1> USE DEF At, Goto, workerVars, handles
<1>1. \A m \in SUBSET Messages : {"error"} \subseteq Messages /\ {"request"} \subseteq Messages
  BY DEF Messages
<1>2. ASSUME NEW c \in Conns, Accept(c) PROVE (Types /\ Program)'
  <2>1. fd' \in [Fds -> {Free} \cup [end : {"client", "server", "rpc"}, conn : Conns]]
    BY <1>2, OpenTypes DEF Accept
  <2>2. queue' \in Seq(Fds)
    BY <1>2, LowestIsFree, AppendProperties DEF Accept, Types
  <2> QED
    BY <1>2, <2>1, <2>2 DEF Accept, Types, Program
<1>3. ASSUME NEW w \in Workers, Get(w) PROVE (Types /\ Program)'
  <2>1. Head(queue) \in Fds /\ queue' \in Seq(Fds)
    BY <1>3, HeadTailProperties DEF Get, Types
  <2>2. pc' = [pc EXCEPT ![w] = "read"] /\ hClient' = [hClient EXCEPT ![w] = Head(queue)]
    BY <1>3 DEF Get
  <2> QED
    BY <1>3, <2>1, <2>2 DEF Get, Types, Program, Labels, Serving
<1>4. ASSUME NEW w \in Workers, ReadRequest(w) PROVE (Types /\ Program)'
  <2>1. hClient[w] \in Fds
    BY <1>4 DEF ReadRequest, Program
  <2>2. CASE IsOpen(hClient[w]) /\ fd[hClient[w]].end = "client"
    <3>1. fd[hClient[w]].conn \in Conns
      BY <2>1, <2>2 DEF IsOpen, Types
    <3>2. PICK label \in {"resolve", "rpc", "reject"} : pc' = [pc EXCEPT ![w] = label]
      BY <1>4, <2>2 DEF ReadRequest
    <3>3. request' = [request EXCEPT ![w] = fd[hClient[w]].conn]
      BY <1>4, <2>2 DEF ReadRequest
    <3> QED
      BY <1>4, <2>1, <3>1, <3>2, <3>3 DEF ReadRequest, Types, Program, Labels, Serving
  <2>3. CASE ~(IsOpen(hClient[w]) /\ fd[hClient[w]].end = "client")
    BY <1>4, <2>1, <2>3 DEF ReadRequest, Types, Program, Labels, Serving
  <2> QED
    BY <2>2, <2>3
<1>5. ASSUME NEW w \in Workers,
             Reject(w) \/ ResolveFails(w) \/ ConnectFails(w) \/ SendFails(w)
      PROVE  (Types /\ Program)'
  <2>1. received' \in [Conns -> SUBSET Messages]
    BY <1>1, <1>5, SendTypes DEF Reject, ResolveFails, ConnectFails, SendFails, Messages
  <2>2. /\ \/ pc[w] = "reject" /\ pc' = [pc EXCEPT ![w] = "close"]
           \/ pc[w] = "resolve" /\ pc' = [pc EXCEPT ![w] = "unset cleanup"]
           \/ pc[w] \in {"connect", "send"} /\ pc' = [pc EXCEPT ![w] = "cleanup"]
        /\ UNCHANGED <<fd, queue, hClient, hServer, request, buffer>>
    BY <1>5 DEF Reject, ResolveFails, ConnectFails, SendFails
  <2> QED
    BY <2>1, <2>2 DEF Types, Program, Labels, Serving
<1>6. ASSUME NEW w \in Workers, CloseClient(w) \/ Cleanup(w) PROVE (Types /\ Program)'
  <2>1. fd' \in [Fds -> {Free} \cup [end : {"client", "server", "rpc"}, conn : Conns]]
    BY <1>6, CloseTypes DEF CloseClient, Cleanup
  <2> QED
    BY <1>6, <2>1 DEF CloseClient, Cleanup, Types, Program, Labels, Serving
<1>7. ASSUME NEW w \in Workers,
             Resolve(w) \/ Connect(w) \/ RequestTooLong(w) \/ EndOfAnswer(w)
             \/ CreateRpcClientFails(w)
      PROVE  (Types /\ Program)'
  BY <1>7 DEF Resolve, Connect, RequestTooLong, EndOfAnswer, CreateRpcClientFails, Types, Program,
              Labels, Serving
<1>8. ASSUME NEW w \in Workers, OpenServer(w) \/ CreateRpcClient(w) PROVE (Types /\ Program)'
  <2>1. request[w] \in Conns /\ Lowest(FreeFds) \in Fds
    BY <1>8, LowestIsFree DEF OpenServer, CreateRpcClient, Program, Serving
  <2>2. fd' \in [Fds -> {Free} \cup [end : {"client", "server", "rpc"}, conn : Conns]]
    BY <1>8, <2>1, OpenTypes DEF OpenServer, CreateRpcClient
  <2>3. /\ \/ pc[w] = "socket" /\ pc' = [pc EXCEPT ![w] = "connect"]
           \/ pc[w] = "rpc" /\ pc' = [pc EXCEPT ![w] = "call"]
        /\ hServer' = [hServer EXCEPT ![w] = Lowest(FreeFds)]
        /\ UNCHANGED <<queue, hClient, request, buffer, received>>
    BY <1>8 DEF OpenServer, CreateRpcClient
  <2> HIDE DEF Lowest, FreeFds
  <2> QED
    BY <2>1, <2>2, <2>3 DEF Types, Program, Labels, Serving
<1>9. ASSUME NEW w \in Workers, OpenServerFails(w) PROVE (Types /\ Program)'
  <2>1. received' \in [Conns -> SUBSET Messages]
    BY <1>1, <1>9, SendTypes DEF OpenServerFails, Messages
  <2> QED
    BY <1>9, <2>1 DEF OpenServerFails, Types, Program, Labels, Serving
<1>10. ASSUME NEW w \in Workers, SendRequest(w) PROVE (Types /\ Program)'
  <2>1. received' \in [Conns -> SUBSET Messages]
    BY <1>1, <1>10, SendTypes DEF SendRequest, Messages
  <2> QED
    BY <1>10, <2>1 DEF SendRequest, Types, Program, Labels, Serving
<1>11. ASSUME NEW w \in Workers, ReadServer(w) PROVE (Types /\ Program)'
  <2>1. fd[hServer[w]].end = "server" => fd[hServer[w]].conn \in Conns
    BY <1>11 DEF ReadServer, IsOpen, Types
  <2>2. buffer' \in [Workers -> SUBSET Conns]
    BY <1>11, <2>1 DEF ReadServer, Types
  <2> QED
    BY <1>11, <2>2 DEF ReadServer, Types, Program, Labels, Serving
<1>12. ASSUME NEW w \in Workers, WriteClient(w) PROVE (Types /\ Program)'
  <2>1. buffer[w] \in SUBSET Messages
    BY DEF Types, Messages
  <2>2. received' \in [Conns -> SUBSET Messages]
    BY <1>12, <2>1, SendTypes DEF WriteClient
  <2> QED
    BY <1>12, <2>2 DEF WriteClient, Types, Program, Labels, Serving
<1>13. ASSUME NEW w \in Workers, UnsetCleanup(w) PROVE (Types /\ Program)'
  <2>1. fd' \in [Fds -> {Free} \cup [end : {"client", "server", "rpc"}, conn : Conns]]
    BY <1>13, CloseTypes DEF UnsetCleanup
  <2> QED
    BY <1>13, <2>1 DEF UnsetCleanup, Types, Program, Labels, Serving
<1>14. ASSUME NEW w \in Workers, CallRpc(w) PROVE (Types /\ Program)'
  <2>1. {request[w]} \in SUBSET Messages
    BY <1>14 DEF CallRpc, Program, Serving, Messages
  <2>2. received' \in [Conns -> SUBSET Messages]
    <3>1. CASE UNCHANGED received
      BY <3>1 DEF Types
    <3> QED
      BY <1>14, <2>1, <3>1, SendTypes DEF CallRpc
  <2> QED
    BY <1>14, <2>2 DEF CallRpc, Types, Program, Labels, Serving
<1>15. CASE UNCHANGED vars \/ \E w \in Workers : UnsetCleanupCrashes(w)
  BY <1>15 DEF vars, UnsetCleanupCrashes, Types, Program
<1> QED
  BY <1>2, <1>3, <1>4, <1>5, <1>6, <1>7, <1>8, <1>9, <1>10, <1>11, <1>12, <1>13, <1>14, <1>15
  DEF Next, WorkerStep, ServeDirectly, ServeByRpc, Stopped

-----------------------------------------------------------------------------
(* The places.  Each lemma is about a step after which no stray close has  *)
(* happened, so none had before it.                                        *)

\* What every step but Accept, Get, opening and closing does.
Stays(w) ==
  /\ UNCHANGED <<fd, queue, hClient>>
  /\ \A v \in Workers \ {w} : pc'[v] = pc[v] /\ hServer'[v] = hServer[v]
  /\ pc[w] # "get" /\ pc'[w] # "get"
  /\ \A n \in Fds : HasServer(w, n)' <=> HasServer(w, n)

LEMMA HeldKept == ASSUME Held, NEW w \in Workers, Stays(w) PROVE Held'
<1>1. \A v \in Workers, n \in Fds : HasClient(v, n)' <=> HasClient(v, n)
  BY DEF Stays, HasClient
<1>2. \A v \in Workers, n \in Fds : HasServer(v, n)' <=> HasServer(v, n)
  BY DEF Stays, HasServer, UsesServer
<1>3. \A n : Queued(n)' <=> Queued(n)
  BY DEF Stays, Queued
<1>4. queue' = queue /\ fd' = fd
  BY DEF Stays
<1> QED
  BY <1>1, <1>2, <1>3, <1>4 DEF Held

\* Accept puts the number at the end of the queue.
LEMMA AcceptKept ==
  ASSUME Types, Held, Meaning, NEW c \in Conns, Accept(c)
  PROVE  (Held /\ Meaning)'
<1> DEFINE n == Lowest(FreeFds)
<1>1. n \in Fds /\ fd[n] = Free
  BY LowestIsFree DEF Accept
<1>2. /\ fd' = [fd EXCEPT ![n] = Socket("client", c)] /\ queue' = Append(queue, n)
      /\ UNCHANGED <<pc, hClient, hServer, request, buffer>>
  BY DEF Accept, workerVars, handles
<1> HIDE DEF n
<1>3. fd'[n] = Socket("client", c) /\ fd'[n] # Free /\ fd'[n].end = "client"
  BY <1>1, <1>2 DEF Types, Socket, Free
<1>4. \A m \in Fds : m # n => fd'[m] = fd[m]
  BY <1>1, <1>2 DEF Types
<1>5. ~Queued(n) /\ \A w \in Workers : ~HasClient(w, n) /\ ~HasServer(w, n)
  BY <1>1 DEF Held
<1>6. /\ Len(queue) \in Nat /\ Len(queue') = Len(queue) + 1 /\ queue'[Len(queue) + 1] = n
      /\ \A k \in 1 .. Len(queue) : queue'[k] = queue[k]
  BY <1>1, <1>2 DEF Types
<1>7. \A m : Queued(m)' <=> Queued(m) \/ m = n
  BY <1>6 DEF Queued
<1>8. /\ \A w \in Workers : \A m : HasClient(w, m)' <=> HasClient(w, m)
      /\ \A w \in Workers : \A m : HasServer(w, m)' <=> HasServer(w, m)
  BY <1>2 DEF HasClient, HasServer, UsesServer
<1>9. ASSUME NEW j \in 1 .. Len(queue'), NEW k \in 1 .. Len(queue'), queue'[j] = queue'[k]
      PROVE  j = k
  <2>1. \A i \in 1 .. Len(queue) : queue[i] # n
    BY <1>5 DEF Queued
  <2> QED
    BY <1>6, <1>9, <2>1 DEF Held
<1>10. Held'
  <2>1. \A m \in Fds : fd'[m] # Free <=> m = n \/ fd[m] # Free
    BY <1>3, <1>4
  <2> HIDE DEF Queued, HasClient, HasServer
  <2>2. /\ \A m \in Fds : \A v, w \in Workers : HasClient(v, m)' /\ HasClient(w, m)' => v = w
        /\ \A m \in Fds : \A v, w \in Workers : HasServer(v, m)' /\ HasServer(w, m)' => v = w
        /\ \A m \in Fds : \A v, w \in Workers : ~(HasClient(v, m)' /\ HasServer(w, m)')
    BY <1>8 DEF Held
  <2>3. \A m \in Fds : Queued(m)' => \A w \in Workers : ~HasClient(w, m)' /\ ~HasServer(w, m)'
    BY <1>5, <1>7, <1>8 DEF Held
  <2>4. ASSUME NEW m \in Fds
        PROVE  fd'[m] # Free <=> \/ Queued(m)'
                                 \/ \E w \in Workers : HasClient(w, m)' \/ HasServer(w, m)'
    <3>1. CASE m = n
      BY <1>7, <2>1, <3>1
    <3>2. CASE m # n
      BY <1>7, <1>8, <2>1, <3>2 DEF Held
    <3> QED
      BY <3>1, <3>2
  <2> QED
    BY <1>9, <2>2, <2>3, <2>4 DEF Held
<1>11. Meaning'
  <2>1. \A m \in Fds : Queued(m)' => fd'[m].end = "client"
    BY <1>3, <1>4, <1>7 DEF Meaning
  <2>2. ASSUME NEW w \in Workers
        PROVE  /\ pc[w] # "get" => hClient[w] # n
               /\ UsesServer(w) => hServer[w] # n
    BY <1>5 DEF HasClient, HasServer
  <2> QED
    BY <1>2, <1>4, <2>1, <2>2 DEF Meaning, UsesServer
<1> QED
  BY <1>10, <1>11

\* Get takes the number at the head, which becomes the worker's hClient.
LEMMA GetKept ==
  ASSUME Types, Held, Meaning, NEW w \in Workers, Get(w)
  PROVE  (Held /\ Meaning)'
<1> DEFINE n == Head(queue)
<1>1. /\ pc[w] = "get" /\ pc' = [pc EXCEPT ![w] = "read"] /\ queue' = Tail(queue)
      /\ hClient' = [hClient EXCEPT ![w] = n]
      /\ hServer' = [hServer EXCEPT ![w] = Unset]
      /\ UNCHANGED <<fd, request, buffer>>
  BY DEF Get, At, Goto
<1>2. /\ Len(queue) \in Nat \ {0} /\ Len(queue') = Len(queue) - 1
      /\ \A k \in 1 .. Len(queue) - 1 : queue'[k] = queue[k + 1]
      /\ n = queue[1] /\ n \in Fds
  BY <1>1 DEF Get, Types
<1> HIDE DEF n
<1>3. \A v \in Workers : \A m : HasClient(v, m)' <=> IF v = w THEN m = n ELSE HasClient(v, m)
  BY <1>1 DEF HasClient, Types
<1>4. \A m : ~HasClient(w, m) /\ ~HasServer(w, m)
  BY <1>1 DEF HasClient, HasServer, UsesServer
<1>5. \A v \in Workers : \A m : HasServer(v, m)' <=> HasServer(v, m)
  BY <1>1 DEF HasServer, UsesServer, Types
<1>6. ASSUME NEW m PROVE Queued(m)' <=> Queued(m) /\ m # n
  <2>1. ASSUME NEW k \in 1 .. Len(queue'), queue'[k] = m PROVE Queued(m) /\ m # n
    <3>1. k + 1 \in 1 .. Len(queue) /\ queue[k + 1] = m /\ k + 1 # 1
      BY <1>2, <2>1
    <3> QED
      BY <1>2, <3>1 DEF Held, Queued
  <2>2. ASSUME NEW k \in 1 .. Len(queue), queue[k] = m, m # n PROVE Queued(m)'
    <3>1. k - 1 \in 1 .. Len(queue') /\ queue'[k - 1] = m
      BY <1>2, <2>2
    <3> QED
      BY <3>1 DEF Queued
  <2> QED
    BY <2>1, <2>2 DEF Queued
<1>7. Queued(n) /\ \A v \in Workers : ~HasClient(v, n) /\ ~HasServer(v, n)
  <2>1. Queued(n)
    BY <1>2 DEF Queued
  <2> QED
    BY <1>2, <2>1 DEF Held
<1>8. ASSUME NEW j \in 1 .. Len(queue'), NEW k \in 1 .. Len(queue'), queue'[j] = queue'[k]
      PROVE  j = k
  <2>1. /\ j + 1 \in 1 .. Len(queue) /\ k + 1 \in 1 .. Len(queue)
        /\ queue[j + 1] = queue[k + 1]
    BY <1>2, <1>8
  <2>2. j + 1 = k + 1
    BY <2>1 DEF Held
  <2> QED
    BY <2>2
<1>9. Held'
  <2> HIDE DEF Queued, HasClient, HasServer
  <2>1. /\ \A m \in Fds : \A u, v \in Workers : HasClient(u, m)' /\ HasClient(v, m)' => u = v
        /\ \A m \in Fds : \A u, v \in Workers : HasServer(u, m)' /\ HasServer(v, m)' => u = v
        /\ \A m \in Fds : \A u, v \in Workers : ~(HasClient(u, m)' /\ HasServer(v, m)')
    BY <1>3, <1>5, <1>7 DEF Held
  <2>2. \A m \in Fds : Queued(m)' => \A v \in Workers : ~HasClient(v, m)' /\ ~HasServer(v, m)'
    BY <1>3, <1>5, <1>6 DEF Held
  <2>3. ASSUME NEW m \in Fds
        PROVE  fd'[m] # Free <=> \/ Queued(m)'
                                 \/ \E v \in Workers : HasClient(v, m)' \/ HasServer(v, m)'
    <3>1. CASE m = n
      BY <1>1, <1>2, <1>3, <1>7, <3>1 DEF Held
    <3>2. CASE m # n
      BY <1>1, <1>3, <1>4, <1>5, <1>6, <3>2 DEF Held
    <3> QED
      BY <3>1, <3>2
  <2> QED
    BY <1>8, <2>1, <2>2, <2>3 DEF Held
<1>10. Meaning'
  <2>1. \A m \in Fds : Queued(m)' => fd'[m].end = "client"
    BY <1>1, <1>6 DEF Meaning
  <2>2. fd'[n].end = "client"
    BY <1>1, <1>2, <1>7 DEF Meaning
  <2>3. \A v \in Workers : v # w => /\ pc'[v] = pc[v] /\ hClient'[v] = hClient[v]
                                   /\ hServer'[v] = hServer[v]
    BY <1>1 DEF Types
  <2>4. pc'[w] = "read" /\ hClient'[w] = n
    BY <1>1 DEF Types
  <2> QED
    BY <1>1, <2>1, <2>2, <2>3, <2>4 DEF Meaning
<1> QED
  BY <1>9, <1>10

\* A socket that is opened becomes the worker's hServer.
LEMMA OpenKept ==
  ASSUME Types, Program, Held, Meaning, NEW w \in Workers, OpenServer(w) \/ CreateRpcClient(w)
  PROVE  (Held /\ Meaning)'
<1> DEFINE n == Lowest(FreeFds)
           socket == Socket(IF pc[w] = "socket" THEN "server" ELSE "rpc", request[w])
<1>1. n \in Fds /\ fd[n] = Free
  BY LowestIsFree DEF OpenServer, CreateRpcClient
<1>2. /\ \/ pc[w] = "socket" /\ pc' = [pc EXCEPT ![w] = "connect"]
         \/ pc[w] = "rpc" /\ pc' = [pc EXCEPT ![w] = "call"]
      /\ fd' = [fd EXCEPT ![n] = socket]
      /\ hServer' = [hServer EXCEPT ![w] = n]
      /\ UNCHANGED <<queue, hClient, request, buffer>>
  BY DEF OpenServer, CreateRpcClient, At, Goto
<1>3. fd'[n] = socket /\ fd'[n] # Free
  BY <1>1, <1>2 DEF Types, Socket, Free
<1> HIDE DEF n
<1>4. \A m \in Fds : m # n => fd'[m] = fd[m]
  BY <1>1, <1>2 DEF Types
<1>5. ~Queued(n) /\ \A v \in Workers : ~HasClient(v, n) /\ ~HasServer(v, n)
  BY <1>1 DEF Held
<1>6. \A v \in Workers : \A m : HasClient(v, m)' <=> HasClient(v, m)
  BY <1>2 DEF HasClient, Types
<1>7. \A v \in Workers : \A m : HasServer(v, m)' <=> IF v = w THEN m = n ELSE HasServer(v, m)
  BY <1>2 DEF HasServer, UsesServer, Types
<1>8. \A m : ~HasServer(w, m)
  BY <1>2 DEF HasServer, UsesServer
<1>9. queue' = queue /\ \A m : Queued(m)' <=> Queued(m)
  BY <1>2 DEF Queued
<1>10. Held'
  <2>1. \A m \in Fds : fd'[m] # Free <=> m = n \/ fd[m] # Free
    BY <1>3, <1>4
  <2> HIDE DEF Queued, HasClient, HasServer
  <2>2. /\ \A m \in Fds : \A u, v \in Workers : HasClient(u, m)' /\ HasClient(v, m)' => u = v
        /\ \A m \in Fds : \A u, v \in Workers : HasServer(u, m)' /\ HasServer(v, m)' => u = v
        /\ \A m \in Fds : \A u, v \in Workers : ~(HasClient(u, m)' /\ HasServer(v, m)')
    BY <1>5, <1>6, <1>7 DEF Held
  <2>3. \A m \in Fds : Queued(m)' => \A v \in Workers : ~HasClient(v, m)' /\ ~HasServer(v, m)'
    BY <1>5, <1>6, <1>7, <1>9 DEF Held
  <2>4. ASSUME NEW m \in Fds
        PROVE  fd'[m] # Free <=> \/ Queued(m)'
                                 \/ \E v \in Workers : HasClient(v, m)' \/ HasServer(v, m)'
    <3>1. CASE m = n
      BY <1>7, <2>1, <3>1
    <3>2. CASE m # n
      BY <1>6, <1>7, <1>8, <1>9, <2>1, <3>2 DEF Held
    <3> QED
      BY <3>1, <3>2
  <2>5. \A j, k \in 1 .. Len(queue') : queue'[j] = queue'[k] => j = k
    BY <1>9 DEF Held
  <2> QED
    BY <2>2, <2>3, <2>4, <2>5 DEF Held
<1>11. Meaning'
  <2>1. \A m \in Fds : Queued(m)' => fd'[m].end = "client"
    BY <1>4, <1>5, <1>9 DEF Meaning
  <2>2. \A v \in Workers : pc[v] # "get" => fd'[hClient[v]] = fd[hClient[v]]
    BY <1>4, <1>5 DEF HasClient, Program
  <2>3. \A v \in Workers : pc[v] \in {"connect", "send", "shuttle", "write", "call"} =>
                            fd'[hServer[v]] = fd[hServer[v]]
    BY <1>4, <1>5 DEF HasServer, UsesServer, Program
  <2>4. ASSUME NEW v \in Workers, v # w
        PROVE  /\ pc'[v] # "get" => fd'[hClient'[v]].end = "client"
               /\ pc'[v] \notin {"get", "read"} => fd'[hClient'[v]] = Socket("client", request'[v])
               /\ pc'[v] \in {"connect", "send", "shuttle", "write"} =>
                    fd'[hServer'[v]] = Socket("server", request'[v])
               /\ pc'[v] = "call" => fd'[hServer'[v]] = Socket("rpc", request'[v])
               /\ pc'[v] = "write" => buffer'[v] \subseteq {request'[v]}
    <3>1. /\ pc'[v] = pc[v] /\ hServer'[v] = hServer[v] /\ hClient'[v] = hClient[v]
          /\ request'[v] = request[v] /\ buffer'[v] = buffer[v]
      BY <1>2, <2>4 DEF Types
    <3> QED
      BY <2>2, <2>3, <2>4, <3>1 DEF Meaning
  <2>5. /\ pc'[w] # "get" => fd'[hClient'[w]].end = "client"
        /\ pc'[w] \notin {"get", "read"} => fd'[hClient'[w]] = Socket("client", request'[w])
        /\ pc'[w] \in {"connect", "send", "shuttle", "write"} =>
             fd'[hServer'[w]] = Socket("server", request'[w])
        /\ pc'[w] = "call" => fd'[hServer'[w]] = Socket("rpc", request'[w])
        /\ pc'[w] = "write" => buffer'[w] \subseteq {request'[w]}
    <3>1. hServer'[w] = n /\ pc'[w] \in {"connect", "call"} /\ pc[w] # "get"
      BY <1>2 DEF Types
    <3>2. \/ pc'[w] = "connect" /\ fd'[n] = Socket("server", request[w])
          \/ pc'[w] = "call" /\ fd'[n] = Socket("rpc", request[w])
      BY <1>2, <1>3 DEF Types
    <3>3. fd[hClient[w]].end = "client" /\ fd[hClient[w]] = Socket("client", request[w])
      BY <1>2 DEF Meaning
    <3> QED
      BY <1>2, <2>2, <3>1, <3>2, <3>3
  <2> QED
    BY <2>1, <2>4, <2>5 DEF Meaning
<1> QED
  BY <1>10, <1>11

\* A number that is closed goes out of its only place, a worker's hServer ...
LEMMA CleanupKept ==
  ASSUME Types, Program, Held, Meaning, NEW w \in Workers, Cleanup(w)
  PROVE  (Held /\ Meaning)'
<1> DEFINE n == hServer[w]
<1>1. /\ pc[w] = "cleanup" /\ pc' = [pc EXCEPT ![w] = "close"] /\ Close(n)
      /\ UNCHANGED <<queue, hClient, hServer, request, buffer>>
  BY DEF Cleanup, At, Goto, handles
<1>2. \A m : HasServer(w, m) <=> m = n
  BY <1>1 DEF HasServer, UsesServer
<1> HIDE DEF n
<1>3. /\ \A m \in Fds : m # n => fd'[m] = fd[m]
      /\ \A m \in Fds : m = n => fd'[m] = Free
  BY <1>1 DEF Types, Close, IsOpen
<1>4. n \in Fds => ~Queued(n) /\ \A v \in Workers : ~HasClient(v, n)
  BY <1>2 DEF Held
<1>5. \A v \in Workers : v # w => ~HasServer(v, n) \/ n \notin Fds
  BY <1>2 DEF Held
<1>6. \A v \in Workers : \A m : HasClient(v, m)' <=> HasClient(v, m)
  BY <1>1 DEF HasClient, Types
<1>7. \A v \in Workers : \A m : HasServer(v, m)' <=> v # w /\ HasServer(v, m)
  BY <1>1 DEF HasServer, UsesServer, Types
<1>8. queue' = queue /\ \A m : Queued(m)' <=> Queued(m)
  BY <1>1 DEF Queued
<1>9. Held'
  <2> HIDE DEF Queued, HasClient, HasServer
  <2>1. /\ \A m \in Fds : \A u, v \in Workers : HasClient(u, m)' /\ HasClient(v, m)' => u = v
        /\ \A m \in Fds : \A u, v \in Workers : HasServer(u, m)' /\ HasServer(v, m)' => u = v
        /\ \A m \in Fds : \A u, v \in Workers : ~(HasClient(u, m)' /\ HasServer(v, m)')
    BY <1>6, <1>7 DEF Held
  <2>2. \A m \in Fds : Queued(m)' => \A v \in Workers : ~HasClient(v, m)' /\ ~HasServer(v, m)'
    BY <1>6, <1>7, <1>8 DEF Held
  <2>3. ASSUME NEW m \in Fds
        PROVE  fd'[m] # Free <=> \/ Queued(m)'
                                 \/ \E v \in Workers : HasClient(v, m)' \/ HasServer(v, m)'
    <3>1. CASE m = n
      BY <1>3, <1>4, <1>5, <1>6, <1>7, <1>8, <3>1
    <3>2. CASE m # n
      BY <1>2, <1>3, <1>6, <1>7, <1>8, <3>2 DEF Held
    <3> QED
      BY <3>1, <3>2
  <2>4. \A j, k \in 1 .. Len(queue') : queue'[j] = queue'[k] => j = k
    BY <1>8 DEF Held
  <2> QED
    BY <2>1, <2>2, <2>3, <2>4 DEF Held
<1>10. Meaning'
  <2>1. \A m \in Fds : Queued(m)' => fd'[m].end = "client"
    BY <1>3, <1>4, <1>8 DEF Meaning
  <2>2. \A v \in Workers : pc[v] # "get" => fd'[hClient[v]] = fd[hClient[v]]
    BY <1>3, <1>4 DEF HasClient, Program
  <2>3. \A v \in Workers : v # w /\ pc[v] \in {"connect", "send", "shuttle", "write", "call"} =>
                            fd'[hServer[v]] = fd[hServer[v]]
    BY <1>3, <1>5 DEF HasServer, UsesServer, Program
  <2>4. ASSUME NEW v \in Workers
        PROVE  /\ v # w => pc'[v] = pc[v]
               /\ v = w => pc[v] = "cleanup" /\ pc'[v] = "close"
    BY <1>1 DEF Types
  <2> QED
    BY <1>1, <2>1, <2>2, <2>3, <2>4 DEF Meaning
<1> QED
  BY <1>9, <1>10

\* ... or its hClient.
LEMMA CloseKept ==
  ASSUME Types, Program, Held, Meaning, NEW w \in Workers, CloseClient(w)
  PROVE  (Held /\ Meaning)'
<1> DEFINE n == hClient[w]
<1>1. /\ pc[w] = "close" /\ pc' = [pc EXCEPT ![w] = "get"] /\ Close(n)
      /\ request' = [request EXCEPT ![w] = NoConn]
      /\ UNCHANGED <<queue, hClient, hServer, buffer>>
  BY DEF CloseClient, At, Goto, handles
<1>2. n \in Fds /\ \A m : HasClient(w, m) <=> m = n
  BY <1>1 DEF HasClient, Program
<1> HIDE DEF n
<1>3. /\ \A m \in Fds : m # n => fd'[m] = fd[m]
      /\ fd'[n] = Free
  BY <1>1, <1>2 DEF Types, Close, IsOpen
<1>4. ~Queued(n) /\ \A v \in Workers : ~HasServer(v, n)
  BY <1>2 DEF Held
<1>5. \A v \in Workers : v # w => ~HasClient(v, n)
  BY <1>2 DEF Held
<1>6. \A v \in Workers : \A m : HasClient(v, m)' <=> v # w /\ HasClient(v, m)
  BY <1>1 DEF HasClient, Types
<1>7. \A v \in Workers : \A m : HasServer(v, m)' <=> HasServer(v, m)
  BY <1>1 DEF HasServer, UsesServer, Types
<1>8. queue' = queue /\ \A m : Queued(m)' <=> Queued(m)
  BY <1>1 DEF Queued
<1>9. Held'
  <2> HIDE DEF Queued, HasClient, HasServer
  <2>1. /\ \A m \in Fds : \A u, v \in Workers : HasClient(u, m)' /\ HasClient(v, m)' => u = v
        /\ \A m \in Fds : \A u, v \in Workers : HasServer(u, m)' /\ HasServer(v, m)' => u = v
        /\ \A m \in Fds : \A u, v \in Workers : ~(HasClient(u, m)' /\ HasServer(v, m)')
    BY <1>6, <1>7 DEF Held
  <2>2. \A m \in Fds : Queued(m)' => \A v \in Workers : ~HasClient(v, m)' /\ ~HasServer(v, m)'
    BY <1>6, <1>7, <1>8 DEF Held
  <2>3. ASSUME NEW m \in Fds
        PROVE  fd'[m] # Free <=> \/ Queued(m)'
                                 \/ \E v \in Workers : HasClient(v, m)' \/ HasServer(v, m)'
    <3>1. CASE m = n
      BY <1>3, <1>4, <1>5, <1>6, <1>7, <1>8, <3>1
    <3>2. CASE m # n
      BY <1>2, <1>3, <1>6, <1>7, <1>8, <3>2 DEF Held
    <3> QED
      BY <3>1, <3>2
  <2>4. \A j, k \in 1 .. Len(queue') : queue'[j] = queue'[k] => j = k
    BY <1>8 DEF Held
  <2> QED
    BY <2>1, <2>2, <2>3, <2>4 DEF Held
<1>10. Meaning'
  <2>1. \A m \in Fds : Queued(m)' => fd'[m].end = "client"
    BY <1>3, <1>4, <1>8 DEF Meaning
  <2>2. \A v \in Workers : v # w /\ pc[v] # "get" => fd'[hClient[v]] = fd[hClient[v]]
    BY <1>3, <1>5 DEF HasClient, Program
  <2>3. \A v \in Workers : pc[v] \in {"connect", "send", "shuttle", "write", "call"} =>
                            fd'[hServer[v]] = fd[hServer[v]]
    BY <1>3, <1>4 DEF HasServer, UsesServer, Program
  <2>4. ASSUME NEW v \in Workers
        PROVE  /\ v # w => pc'[v] = pc[v] /\ request'[v] = request[v]
               /\ v = w => pc'[v] = "get"
    BY <1>1 DEF Types
  <2> QED
    BY <1>1, <2>1, <2>2, <2>3, <2>4 DEF Meaning
<1> QED
  BY <1>9, <1>10

-----------------------------------------------------------------------------
(* What clients are sent.                                                  *)

\* What is sent on a worker's hClient reaches the client whose request it has.
LEMMA SendKept ==
  ASSUME Types, Program, Meaning, OwnPage, NEW w \in Workers, NEW messages, pc[w] # "get",
         Send(hClient[w], messages),
         \/ messages = {"error"}
         \/ pc[w] # "read" /\ messages \subseteq {request[w]}
  PROVE  OwnPage'
<1>1. CASE IsOpen(hClient[w]) /\ fd[hClient[w]].end = "client"
  <2> DEFINE c == fd[hClient[w]].conn
  <2>1. c \in Conns
    BY <1>1 DEF IsOpen, Types
  <2>2. received' = [received EXCEPT ![c] = @ \cup messages]
    BY <1>1 DEF Send
  <2>3. ASSUME NEW x \in messages PROVE x = "error" \/ x = c
    <3>1. CASE messages = {"error"}
      BY <2>3, <3>1
    <3>2. CASE pc[w] # "read" /\ messages \subseteq {request[w]}
      <4>1. fd[hClient[w]] = Socket("client", request[w])
        BY <3>2 DEF Meaning
      <4>2. c = request[w]
        BY <4>1 DEF Socket
      <4> QED
        BY <2>3, <3>2, <4>2
    <3> QED
      BY <3>1, <3>2
  <2> HIDE DEF c
  <2> QED
    BY <2>1, <2>2, <2>3 DEF Types, OwnPage
<1>2. CASE ~(IsOpen(hClient[w]) /\ fd[hClient[w]].end = "client")
  BY <1>2 DEF Send, OwnPage
<1> QED
  BY <1>1, <1>2

-----------------------------------------------------------------------------
(* Every step.                                                             *)

\* A stray close stays in the history.
LEMMA StrayStays == [Next]_vars => (strayClose => strayClose')
BY Zenon
DEF Next, Accept, WorkerStep, ServeDirectly, ServeByRpc, Stopped, vars, workerVars, handles, Get,
    ReadRequest, Reject, CloseClient, ResolveFails, Resolve, OpenServer, OpenServerFails, Connect,
    ConnectFails, RequestTooLong, SendFails, SendRequest, ReadServer, WriteClient, EndOfAnswer,
    Cleanup, UnsetCleanup, UnsetCleanupCrashes, CreateRpcClient, CreateRpcClientFails, CallRpc

LEMMA PlacesStep ==
  ASSUME Types, Program, Held, Meaning, [Next]_vars, ~strayClose'
  PROVE  (Held /\ Meaning)'
<1> USE DEF At, Goto, workerVars, handles
<1>1. ASSUME NEW c \in Conns, Accept(c) PROVE (Held /\ Meaning)'
  BY <1>1, AcceptKept
<1>2. ASSUME NEW w \in Workers, Get(w) PROVE (Held /\ Meaning)'
  BY <1>2, GetKept
<1>3. ASSUME NEW w \in Workers, OpenServer(w) \/ CreateRpcClient(w) PROVE (Held /\ Meaning)'
  BY <1>3, OpenKept
<1>4. ASSUME NEW w \in Workers, Cleanup(w) PROVE (Held /\ Meaning)'
  BY <1>4, CleanupKept
<1>5. ASSUME NEW w \in Workers, CloseClient(w) PROVE (Held /\ Meaning)'
  BY <1>5, CloseKept
<1>6. ASSUME NEW w \in Workers, ReadRequest(w) PROVE (Held /\ Meaning)'
  <2>1. hClient[w] \in Fds /\ fd[hClient[w]] # Free
    BY <1>6 DEF ReadRequest, Program, Held, HasClient
  <2>2. fd[hClient[w]].end = "client" /\ IsOpen(hClient[w])
    BY <1>6, <2>1 DEF ReadRequest, Meaning, IsOpen
  <2>3. PICK label \in {"resolve", "rpc", "reject"} : pc' = [pc EXCEPT ![w] = label]
    BY <1>6, <2>2 DEF ReadRequest
  <2>4. /\ pc[w] = "read" /\ request' = [request EXCEPT ![w] = fd[hClient[w]].conn]
        /\ UNCHANGED <<fd, queue, hClient, hServer, buffer>>
    BY <1>6, <2>2 DEF ReadRequest
  <2>5. fd[hClient[w]] = Socket("client", fd[hClient[w]].conn)
    BY <2>1, <2>2 DEF Types, Socket, Free
  <2>6. Held'
    <3>1. Stays(w)
      BY <2>3, <2>4 DEF Stays, HasServer, UsesServer, Types
    <3> QED
      BY <3>1, HeldKept
  <2>7. Meaning'
    BY <2>2, <2>3, <2>4, <2>5 DEF Meaning, Queued, Types
  <2> QED
    BY <2>6, <2>7
<1>7. ASSUME NEW w \in Workers,
             /\ \/ Reject(w)
                \/ ResolveFails(w)
                \/ ConnectFails(w)
                \/ SendFails(w)
                \/ Resolve(w)
                \/ RequestTooLong(w)
                \/ EndOfAnswer(w)
                \/ CreateRpcClientFails(w)
                \/ Connect(w)
                \/ SendRequest(w)
                \/ CallRpc(w)
      PROVE  (Held /\ Meaning)'
  <2>1. /\ \/ pc[w] \in {"reject", "rpc"} /\ pc' = [pc EXCEPT ![w] = "close"]
           \/ pc[w] = "resolve" /\ pc' = [pc EXCEPT ![w] = "unset cleanup"]
           \/ pc[w] = "resolve" /\ pc' = [pc EXCEPT ![w] = "socket"]
           \/ pc[w] \in {"connect", "send", "shuttle", "call"} /\ pc' = [pc EXCEPT ![w] = "cleanup"]
           \/ pc[w] = "connect" /\ pc' = [pc EXCEPT ![w] = "send"]
           \/ pc[w] = "send" /\ pc' = [pc EXCEPT ![w] = "shuttle"]
        /\ UNCHANGED <<fd, queue, hClient, hServer, request, buffer>>
    BY <1>7 DEF Reject, ResolveFails, ConnectFails, SendFails, Resolve, RequestTooLong, EndOfAnswer,
                CreateRpcClientFails, Connect, SendRequest, CallRpc
  <2>2. Held'
    <3>1. Stays(w)
      BY <2>1 DEF Stays, HasServer, UsesServer, Types
    <3> QED
      BY <3>1, HeldKept
  <2>3. Meaning'
    BY <2>1 DEF Meaning, Queued, Types
  <2> QED
    BY <2>2, <2>3
<1>8. ASSUME NEW w \in Workers, OpenServerFails(w) PROVE (Held /\ Meaning)'
  <2>1. /\ pc[w] = "socket" /\ pc' = [pc EXCEPT ![w] = "cleanup"]
        /\ hServer' = [hServer EXCEPT ![w] = Failed]
        /\ UNCHANGED <<fd, queue, hClient, request, buffer>>
    BY <1>8 DEF OpenServerFails
  <2>2. Failed \notin Fds
    BY DescriptorsAssumption DEF Failed, Fds
  <2>3. Held'
    <3>1. Stays(w)
      BY <2>1, <2>2 DEF Stays, HasServer, UsesServer, Types
    <3> QED
      BY <3>1, HeldKept
  <2>4. Meaning'
    BY <2>1 DEF Meaning, Queued, Types
  <2> QED
    BY <2>3, <2>4
<1>9. ASSUME NEW w \in Workers, ReadServer(w) \/ WriteClient(w) PROVE (Held /\ Meaning)'
  <2>1. /\ \/ /\ pc[w] = "shuttle" /\ pc' = [pc EXCEPT ![w] = "write"]
              /\ buffer' = [buffer EXCEPT ![w] = IF fd[hServer[w]].end = "server"
                                                THEN {fd[hServer[w]].conn} ELSE {}]
           \/ /\ pc[w] = "write" /\ pc' = [pc EXCEPT ![w] = "shuttle"]
              /\ buffer' = [buffer EXCEPT ![w] = {}]
        /\ UNCHANGED <<fd, queue, hClient, hServer, request>>
    BY <1>9 DEF ReadServer, WriteClient
  <2>2. Held'
    <3>1. Stays(w)
      BY <2>1 DEF Stays, HasServer, UsesServer, Types
    <3> QED
      BY <3>1, HeldKept
  <2>3. fd[hServer[w]].conn = request[w]
    <3>1. fd[hServer[w]] = Socket("server", request[w])
      BY <2>1 DEF Meaning
    <3> QED
      BY <3>1 DEF Socket
  <2>4. \A v \in Workers : v # w => pc'[v] = pc[v] /\ buffer'[v] = buffer[v]
    BY <2>1 DEF Types
  <2>5. buffer'[w] \subseteq {request[w]}
    BY <2>1, <2>3 DEF Types
  <2>6. Meaning'
    BY <2>1, <2>4, <2>5 DEF Meaning, Queued, Types
  <2> QED
    BY <2>2, <2>6
<1>10. ASSUME NEW w \in Workers, UnsetCleanup(w) PROVE (Held /\ Meaning)'
  <2>1. /\ pc[w] = "unset cleanup" /\ pc' = [pc EXCEPT ![w] = "close"]
        /\ UNCHANGED <<queue, hClient, hServer, request, buffer>>
    BY <1>10 DEF UnsetCleanup
  <2>2. fd' = fd
    BY <1>10 DEF UnsetCleanup, Close
  <2>3. Held'
    <3>1. Stays(w)
      BY <2>1, <2>2 DEF Stays, HasServer, UsesServer, Types
    <3> QED
      BY <3>1, HeldKept
  <2>4. Meaning'
    BY <2>1, <2>2 DEF Meaning, Queued, Types
  <2> QED
    BY <2>3, <2>4
<1>11. CASE UNCHANGED vars \/ \E w \in Workers : UnsetCleanupCrashes(w)
  <2>1. UNCHANGED <<fd, queue, pc, hClient, hServer, request, buffer>>
    BY <1>11 DEF vars, UnsetCleanupCrashes
  <2> QED
    BY <2>1 DEF Held, Meaning, HasClient, HasServer, UsesServer, Queued
<1> QED
  BY <1>1, <1>2, <1>3, <1>4, <1>5, <1>6, <1>7, <1>8, <1>9, <1>10, <1>11
  DEF Next, WorkerStep, ServeDirectly, ServeByRpc, Stopped

LEMMA PageStep ==
  ASSUME Types, Program, Held, Meaning, OwnPage, [Next]_vars
  PROVE  OwnPage'
<1> USE DEF At
<1>1. ASSUME NEW w \in Workers,
             \/ Reject(w)
             \/ ResolveFails(w)
             \/ OpenServerFails(w)
             \/ ConnectFails(w)
             \/ SendFails(w)
      PROVE  OwnPage'
  <2>1. pc[w] # "get" /\ Send(hClient[w], {"error"})
    BY <1>1 DEF Reject, ResolveFails, OpenServerFails, ConnectFails, SendFails
  <2> QED
    BY <2>1, SendKept
<1>2. ASSUME NEW w \in Workers, WriteClient(w) PROVE OwnPage'
  <2>1. /\ pc[w] = "write" /\ Send(hClient[w], buffer[w]) /\ buffer[w] \subseteq {request[w]}
    BY <1>2 DEF WriteClient, Meaning
  <2> QED
    BY <2>1, SendKept
<1>3. ASSUME NEW w \in Workers, CallRpc(w) PROVE OwnPage'
  <2>1. CASE UNCHANGED received
    BY <2>1 DEF OwnPage
  <2>2. CASE Send(hClient[w], {request[w]})
    <3>1. pc[w] = "call"
      BY <1>3 DEF CallRpc
    <3> QED
      BY <2>2, <3>1, SendKept
  <2> QED
    BY <1>3, <2>1, <2>2 DEF CallRpc
<1>4. ASSUME NEW w \in Workers, SendRequest(w) PROVE OwnPage'
  <2>1. fd[hServer[w]] = Socket("server", request[w])
    BY <1>4 DEF SendRequest, Meaning
  <2>2. fd[hServer[w]].end # "client"
    BY <2>1 DEF Socket
  <2> QED
    BY <1>4, <2>2 DEF SendRequest, Send, OwnPage
<1>5. CASE UNCHANGED received
  BY <1>5 DEF OwnPage
<1> QED
  BY <1>1, <1>2, <1>3, <1>4, <1>5
  DEF Next, WorkerStep, ServeDirectly, ServeByRpc, Stopped, vars, workerVars, handles, Accept, Get,
      ReadRequest, CloseClient, Resolve, OpenServer, Connect, RequestTooLong, ReadServer,
      EndOfAnswer, Cleanup, UnsetCleanup, UnsetCleanupCrashes, CreateRpcClient, CreateRpcClientFails

LEMMA NextInv == Inv /\ [Next]_vars => Inv'
<1> SUFFICES ASSUME Inv, [Next]_vars PROVE Inv'
  OBVIOUS
<1>1. (Types /\ Program)'
  BY TypesStep DEF Inv
<1>2. ASSUME ~strayClose' PROVE (Held /\ Meaning /\ OwnPage)'
  <2>1. Held /\ Meaning /\ OwnPage
    BY <1>2, StrayStays DEF Inv
  <2> QED
    BY <1>2, <2>1, PlacesStep, PageStep DEF Inv
<1> QED
  BY <1>1, <1>2 DEF Inv

LEMMA InvHolds == Spec => []Inv
BY InitInv, NextInv, PTL DEF Spec

-----------------------------------------------------------------------------
(* From places to numbers of holders.                                      *)

LEMMA HeldCounts == ASSUME Types, Held, NEW n \in Fds PROVE Holders(n) = IF IsOpen(n) THEN 1 ELSE 0
<1> DEFINE K == {k \in DOMAIN queue : queue[k] = n}
           C == {w \in Workers : HasClient(w, n)}
           S == {w \in Workers : HasServer(w, n)}
<1>1. Holders(n) = Cardinality(K) + Cardinality(C) + Cardinality(S)
  BY DEF Holders, HasClient, HasServer
<1>2. DOMAIN queue = 1 .. Len(queue)
  BY DEF Types
<1>3. (K = {} <=> ~Queued(n)) /\ (Queued(n) => \E k : K = {k})
  <2>1. ASSUME NEW k \in K PROVE K = {k}
    BY <1>2, <2>1 DEF Held
  <2>2. Queued(n) <=> K # {}
    BY <1>2 DEF Queued
  <2> HIDE DEF K
  <2> QED
    BY <2>1, <2>2
<1>4. C = {} \/ \E w : C = {w}
  BY DEF Held
<1>5. S = {} \/ \E w : S = {w}
  BY DEF Held
<1>6. Cardinality({}) = 0 /\ \A x : Cardinality({x}) = 1
  BY FS_EmptySet, FS_Singleton
<1>7. IsOpen(n) <=> fd[n] # Free
  BY DEF IsOpen
<1> HIDE DEF K
<1>8. CASE ~IsOpen(n)
  <2>1. K = {} /\ C = {} /\ S = {}
    BY <1>3, <1>7, <1>8 DEF Held
  <2> QED
    BY <1>1, <1>6, <1>8, <2>1
<1>9. CASE IsOpen(n)
  <2>1. CASE Queued(n)
    <3>1. C = {} /\ S = {}
      BY <2>1 DEF Held
    <3> QED
      <4>1. Cardinality(K) = 1 /\ Cardinality(C) = 0 /\ Cardinality(S) = 0
        BY <1>3, <1>6, <2>1, <3>1
      <4> QED
        BY <1>1, <1>9, <4>1
  <2>2. CASE ~Queued(n) /\ C # {}
    <3>1. K = {} /\ S = {}
      BY <1>3, <2>2 DEF Held
    <3> QED
      <4>1. Cardinality(K) = 0 /\ Cardinality(C) = 1 /\ Cardinality(S) = 0
        BY <1>4, <1>6, <2>2, <3>1
      <4> QED
        BY <1>1, <1>9, <4>1
  <2>3. CASE ~Queued(n) /\ C = {}
    <3>1. K = {} /\ S # {}
      BY <1>3, <1>7, <1>9, <2>3 DEF Held
    <3> QED
      <4>1. Cardinality(K) = 0 /\ Cardinality(C) = 0 /\ Cardinality(S) = 1
        BY <1>5, <1>6, <2>3, <3>1
      <4> QED
        BY <1>1, <1>9, <4>1
  <2> QED
    BY <2>1, <2>2, <2>3
<1> QED
  BY <1>8, <1>9

(***************************************************************************)
(* The variables of worker.c have the values their types and labels allow, *)
(* stray close or not.                                                     *)
(***************************************************************************)
THEOREM DescriptorTypes == Spec => [](Types /\ Program)
<1>1. Inv => Types /\ Program
  BY DEF Inv
<1> QED
  BY <1>1, InvHolds, PTL

(***************************************************************************)
(* worker.c: on every path, the failing ones included, what is opened is   *)
(* closed exactly once, by the thread that holds it.                       *)
(***************************************************************************)
THEOREM NothingLeaksOrIsClosedTwice == Spec => []DescriptorsHeld
<1>1. Inv => DescriptorsHeld
  BY HeldCounts DEF Inv, DescriptorsHeld
<1> QED
  BY <1>1, InvHolds, PTL

(***************************************************************************)
(* worker.c: no client reads another client's page, whatever numbers are   *)
(* given out again while it is served.                                     *)
(***************************************************************************)
THEOREM ClientsReadTheirOwnPages == Spec => []OwnPageUnlessStray
<1>1. Inv => OwnPageUnlessStray
  BY DEF Inv, OwnPageUnlessStray
<1> QED
  BY <1>1, InvHolds, PTL

-----------------------------------------------------------------------------
(* The promise to clients.  A connection that was accepted has one number, *)
(* which no worker takes for its server.                                   *)

Accepted ==
  /\ \A n \in Fds : Client(n) \notin waiting
  /\ \A m, n \in Fds : Client(m) = Client(n) /\ Client(m) \in Conns => m = n
  /\ \A w \in Workers, n \in Fds : HasServer(w, n) => Client(n) = NoConn

Promised == waiting \in SUBSET Conns /\ (~strayClose => Accepted)

InFront(b, c) ==
  \E k, l \in 1 .. Len(queue) : k < l /\ Client(queue[k]) = b /\ Client(queue[l]) = c

ServiceView ==
  /\ \A c : c \in InQueue <=> c \in Conns /\ \E k \in 1 .. Len(queue) : Client(queue[k]) = c
  /\ Ahead \subseteq Conns \X Conns
  /\ \A b, c \in Conns : <<b, c>> \in Ahead <=> InFront(b, c)
  /\ ServedBy \in [Workers -> Conns \cup {NoConn}]

LEMMA ClientType == ASSUME Types, NEW n PROVE Client(n) \in Conns \cup {NoConn}
BY DEF Client, Types, Free

LEMMA ServiceState == Types => ServiceView
<1> SUFFICES ASSUME Types PROVE ServiceView
  OBVIOUS
<1>1. DOMAIN queue = 1 .. Len(queue)
  BY DEF Types
<1>2. \A c : c \in InQueue <=> c \in Conns /\ \E k \in 1 .. Len(queue) : Client(queue[k]) = c
  BY <1>1 DEF InQueue
<1>3. Ahead \subseteq Conns \X Conns /\ \A b, c \in Conns : <<b, c>> \in Ahead <=> InFront(b, c)
  BY <1>1 DEF Ahead, InFront
<1>4. ServedBy \in [Workers -> Conns \cup {NoConn}]
  BY ClientType DEF ServedBy
<1> QED
  BY <1>2, <1>3, <1>4 DEF ServiceView

\* What every step does but those that accept, take and close a connection.
Unseen(w) ==
  /\ UNCHANGED <<queue, waiting, hClient>>
  /\ \A n : Client(n)' = Client(n)
  /\ \A v \in Workers \ {w} : pc'[v] = pc[v] /\ hServer'[v] = hServer[v]
  /\ pc[w] # "get" /\ pc'[w] # "get"
  /\ \A n \in Fds : HasServer(w, n)' => HasServer(w, n) \/ Client(n) = NoConn

LEMMA UnseenKept ==
  ASSUME ServiceView, ServiceView', Accepted, NEW w \in Workers, Unseen(w)
  PROVE  Accepted' /\ UNCHANGED (Service!serviceVars)
<1>1. Accepted'
  <2>1. \A v \in Workers, n \in Fds : HasServer(v, n)' => HasServer(v, n) \/ Client(n) = NoConn
    BY DEF Unseen, HasServer, UsesServer
  <2> QED
    BY <2>1 DEF Accepted, Unseen
<1>2. \A b, c \in Conns : InFront(b, c)' <=> InFront(b, c)
  BY DEF InFront, Unseen
<1>3. InQueue' = InQueue
  BY DEF ServiceView, Unseen
<1>4. Ahead' = Ahead
  <2>1. \A b, c \in Conns : <<b, c>> \in Ahead' <=> <<b, c>> \in Ahead
    BY <1>2 DEF ServiceView
  <2>2. Ahead' \subseteq Conns \X Conns /\ Ahead \subseteq Conns \X Conns
    BY DEF ServiceView
  <2> QED
    BY <2>1, <2>2
<1>5. ServedBy' = ServedBy
  <2>1. \A v \in Workers : (pc'[v] = "get" <=> pc[v] = "get") /\ hClient'[v] = hClient[v]
    BY DEF Unseen
  <2>2. \A v \in Workers : Client(hClient[v])' = Client(hClient[v])
    BY DEF Unseen, Client
  <2> QED
    BY <2>1, <2>2 DEF ServedBy, Unseen
<1>6. Closed' = Closed
  BY DEF Closed, Unseen
<1> QED
  BY <1>1, <1>3, <1>4, <1>5, <1>6 DEF Service!serviceVars

\* Accept gives the connection a number that none had.
LEMMA AcceptPromised ==
  ASSUME Types, Held, Meaning, Promised, Accepted, ServiceView, ServiceView', NEW c \in Conns, Accept(c)
  PROVE  Accepted' /\ Service!Accept(c)
<1>1. PICK n \in Fds : n = Lowest(FreeFds) /\ fd[n] = Free
  BY LowestIsFree DEF Accept
<1>2. /\ fd' = [fd EXCEPT ![n] = Socket("client", c)] /\ queue' = Append(queue, n)
      /\ c \in waiting /\ waiting' = waiting \ {c}
      /\ UNCHANGED <<pc, hClient, hServer>>
  BY <1>1 DEF Accept, workerVars, handles
<1>3. Client(n) = NoConn /\ Client(n)' = c
  BY <1>1, <1>2 DEF Types, Client, Socket, Free
<1>4. \A m : m # n => Client(m)' = Client(m)
  BY <1>1, <1>2 DEF Types, Client
<1>5. ~Queued(n) /\ \A w \in Workers : ~HasClient(w, n) /\ ~HasServer(w, n)
  BY <1>1 DEF Held
<1>6. PICK last \in Nat \ {0} :
        /\ last = Len(queue) + 1 /\ last = Len(queue') /\ queue'[last] = n /\ Len(queue) \in Nat
        /\ \A k \in 1 .. Len(queue) : queue'[k] = queue[k] /\ queue[k] # n /\ queue[k] \in Fds
  BY <1>1, <1>2, <1>5 DEF Types, Queued
<1>7. NoConn \notin Conns /\ \A m \in Fds : Client(m) # c
  BY <1>2, DescriptorsAssumption DEF Accepted
<1>8. \A m : Client(m) # c
  BY <1>7 DEF Client
<1>9. Accepted'
  <2>1. \A m \in Fds : Client(m)' \notin waiting'
    BY <1>2, <1>3, <1>4 DEF Accepted
  <2>2. \A l, m \in Fds : Client(l)' = Client(m)' /\ Client(l)' \in Conns => l = m
    BY <1>3, <1>4, <1>7 DEF Accepted
  <2>3. \A w \in Workers, m \in Fds : HasServer(w, m)' => Client(m)' = NoConn
    BY <1>2, <1>4, <1>5 DEF Accepted, HasServer, UsesServer
  <2> QED
    BY <2>1, <2>2, <2>3 DEF Accepted
<1>10. \A k \in 1 .. Len(queue) : Client(queue[k])' = Client(queue[k])
  BY <1>4, <1>6 DEF Client
<1>11. Client(queue[last])' = c
  BY <1>3, <1>6 DEF Client
<1>12. InQueue' = InQueue \cup {c} /\ c \notin InQueue
  <2>1. \A d \in Conns : (\E k \in 1 .. Len(queue') : Client(queue[k])' = d)
                           <=> d = c \/ \E k \in 1 .. Len(queue) : Client(queue[k]) = d
    BY <1>6, <1>10, <1>11
  <2>2. \A d : d \in InQueue' <=> d \in Conns /\ \E k \in 1 .. Len(queue') : Client(queue[k])' = d
    BY DEF ServiceView
  <2> QED
    BY <1>8, <2>1, <2>2 DEF ServiceView
<1>13. Ahead' = Ahead \cup (InQueue \X {c})
  <2>1. \A b, d \in Conns : InFront(b, d)' <=> InFront(b, d) \/ (b \in InQueue /\ d = c)
    <3>1. ASSUME NEW b \in Conns, NEW d \in Conns, InFront(b, d)'
          PROVE  InFront(b, d) \/ (b \in InQueue /\ d = c)
      <4>1. PICK k \in 1 .. Len(queue'), l \in 1 .. Len(queue') :
              k < l /\ Client(queue[k])' = b /\ Client(queue[l])' = d
        BY <3>1 DEF InFront
      <4>2. k \in 1 .. Len(queue) /\ Client(queue[k]) = b
        BY <1>6, <1>10, <4>1
      <4>3. CASE l = last
        BY <1>11, <4>1, <4>2, <4>3 DEF ServiceView
      <4>4. CASE l # last
        BY <1>6, <1>10, <4>1, <4>2, <4>4 DEF InFront
      <4> QED
        BY <4>3, <4>4
    <3>2. ASSUME NEW b \in Conns, NEW d \in Conns, InFront(b, d) PROVE InFront(b, d)'
      <4>1. PICK k \in 1 .. Len(queue), l \in 1 .. Len(queue) :
              k < l /\ Client(queue[k]) = b /\ Client(queue[l]) = d
        BY <3>2 DEF InFront
      <4>2. k \in 1 .. Len(queue') /\ l \in 1 .. Len(queue')
        BY <1>6
      <4> QED
        BY <1>10, <4>1, <4>2 DEF InFront
    <3>3. ASSUME NEW b \in Conns, b \in InQueue PROVE InFront(b, c)'
      <4>1. PICK k \in 1 .. Len(queue) : Client(queue[k]) = b
        BY <3>3 DEF ServiceView
      <4>2. k \in 1 .. Len(queue') /\ last \in 1 .. Len(queue') /\ k < last
        BY <1>6
      <4> QED
        BY <1>10, <1>11, <4>1, <4>2 DEF InFront
    <3> QED
      BY <3>1, <3>2, <3>3
  <2>2. \A b, d \in Conns : <<b, d>> \in Ahead' <=> <<b, d>> \in Ahead \cup (InQueue \X {c})
    BY <2>1 DEF ServiceView
  <2>3. Ahead' \subseteq Conns \X Conns /\ Ahead \cup (InQueue \X {c}) \subseteq Conns \X Conns
    BY DEF ServiceView
  <2> QED
    BY <2>2, <2>3
<1>14. ServedBy' = ServedBy /\ \A w \in Workers : ServedBy[w] # c
  <2>1. \A w \in Workers : pc[w] # "get" => Client(hClient[w])' = Client(hClient[w])
    BY <1>2, <1>4, <1>5 DEF HasClient, Client
  <2> QED
    BY <1>2, <1>7, <1>8, <2>1 DEF ServedBy
<1>15. Closed' = Closed /\ c \notin Closed
  <2>1. c \notin Closed' /\ c \notin Closed
    BY <1>1, <1>2, <1>3 DEF Closed
  <2>2. ASSUME NEW d \in Conns, d # c PROVE d \in Closed' <=> d \in Closed
    BY <1>2, <1>3, <1>4, <1>7, <2>2 DEF Closed
  <2>3. Closed' \subseteq Conns /\ Closed \subseteq Conns
    BY DEF Closed
  <2> QED
    BY <2>1, <2>2, <2>3
<1> QED
  BY <1>9, <1>12, <1>13, <1>14, <1>15 DEF Service!Accept

\* Get takes the connection of the number at the head, which has no other.
LEMMA GetPromised ==
  ASSUME Types, Held, Meaning, Accepted, ServiceView, ServiceView', NEW w \in Workers, Get(w)
  PROVE  Accepted' /\ \E c \in Conns : Service!Take(w, c)
<1>1. /\ pc[w] = "get" /\ pc' = [pc EXCEPT ![w] = "read"] /\ queue' = Tail(queue)
      /\ hClient' = [hClient EXCEPT ![w] = Head(queue)]
      /\ hServer' = [hServer EXCEPT ![w] = Unset]
      /\ UNCHANGED <<fd, waiting>>
  BY DEF Get, At, Goto
<1>2. PICK n \in Fds :
        /\ n = Head(queue) /\ n = queue[1] /\ \A k \in 1 .. Len(queue) : queue[k] \in Fds
        /\ Len(queue) \in Nat \ {0} /\ Len(queue') = Len(queue) - 1
        /\ \A k \in 1 .. Len(queue) - 1 : queue'[k] = queue[k + 1]
  BY <1>1 DEF Get, Types
<1>3. \A m : Client(m)' = Client(m)
  BY <1>1 DEF Client
<1>4. 1 \in 1 .. Len(queue) /\ Queued(n)
  BY <1>2 DEF Queued
<1>5. PICK c \in Conns : c = Client(n)
  BY <1>4 DEF Meaning, Client, Types, Free
<1>6. \A k \in 1 .. Len(queue) : Client(queue[k]) = c => k = 1
  BY <1>2, <1>4, <1>5 DEF Accepted, Held
<1>7. Client(queue[1]) = c
  BY <1>2, <1>5
<1>8. Accepted'
  <2>1. \A v \in Workers, m \in Fds : HasServer(v, m)' => HasServer(v, m)
    BY <1>1 DEF HasServer, UsesServer, Types
  <2> QED
    BY <1>1, <1>3, <2>1 DEF Accepted
<1>9. \A k \in 1 .. Len(queue') : k + 1 \in 1 .. Len(queue) /\ Client(queue[k])' = Client(queue[k + 1])
  BY <1>2, <1>3 DEF Client
<1>10. \A k \in 1 .. Len(queue) : k # 1 => k - 1 \in 1 .. Len(queue') /\ Client(queue[k - 1])' = Client(queue[k])
  <2> TAKE k \in 1 .. Len(queue)
  <2>1. k # 1 => k - 1 \in 1 .. Len(queue') /\ (k - 1) + 1 = k
    BY <1>2
  <2> QED
    BY <1>9, <2>1
<1>11. InQueue' = InQueue \ {c} /\ c \in InQueue
  <2>1. \A d \in Conns : (\E k \in 1 .. Len(queue') : Client(queue[k])' = d)
                           <=> d # c /\ \E k \in 1 .. Len(queue) : Client(queue[k]) = d
    <3>1. \A k \in 1 .. Len(queue') : Client(queue[k])' # c
      <4> TAKE k \in 1 .. Len(queue')
      <4>1. k + 1 # 1
        BY <1>2
      <4> QED
        BY <1>6, <1>9, <4>1
    <3> QED
      BY <1>7, <1>9, <1>10, <3>1
  <2>2. \A d : d \in InQueue' <=> d \in Conns /\ \E k \in 1 .. Len(queue') : Client(queue[k])' = d
    BY DEF ServiceView
  <2> QED
    BY <1>4, <1>5, <1>7, <2>1, <2>2 DEF ServiceView
<1>12. \A b \in Conns : ~InFront(b, c)
  BY <1>2, <1>6 DEF InFront
<1>13. Ahead' = Ahead \ ({c} \X InQueue)
  <2>1. \A b, d \in Conns : InFront(b, d)' <=> InFront(b, d) /\ b # c
    <3>1. ASSUME NEW b \in Conns, NEW d \in Conns, InFront(b, d)' PROVE InFront(b, d) /\ b # c
      <4>1. PICK k \in 1 .. Len(queue'), l \in 1 .. Len(queue') :
              k < l /\ Client(queue[k])' = b /\ Client(queue[l])' = d
        BY <3>1 DEF InFront
      <4>2. /\ k + 1 \in 1 .. Len(queue) /\ l + 1 \in 1 .. Len(queue) /\ k + 1 < l + 1 /\ k + 1 # 1
            /\ Client(queue[k + 1]) = b /\ Client(queue[l + 1]) = d
        BY <1>9, <4>1
      <4> QED
        BY <1>6, <4>2 DEF InFront
    <3>2. ASSUME NEW b \in Conns, NEW d \in Conns, InFront(b, d), b # c PROVE InFront(b, d)'
      <4>1. PICK k \in 1 .. Len(queue), l \in 1 .. Len(queue) :
              k < l /\ Client(queue[k]) = b /\ Client(queue[l]) = d
        BY <3>2 DEF InFront
      <4>2. k # 1 /\ l # 1 /\ k - 1 < l - 1
        BY <1>7, <3>2, <4>1
      <4> QED
        BY <1>10, <4>1, <4>2 DEF InFront
    <3> QED
      BY <3>1, <3>2
  <2>2. \A b, d \in Conns : InFront(b, d) => d \in InQueue
    BY DEF InFront, ServiceView
  <2>3. \A b, d \in Conns : <<b, d>> \in Ahead' <=> <<b, d>> \in Ahead \ ({c} \X InQueue)
    BY <2>1, <2>2 DEF ServiceView
  <2>4. Ahead' \subseteq Conns \X Conns /\ Ahead \subseteq Conns \X Conns
    BY DEF ServiceView
  <2> QED
    BY <2>3, <2>4
<1>14. ServedBy[w] = NoConn /\ ServedBy' = [ServedBy EXCEPT ![w] = c]
  <2>1. ServedBy[w] = NoConn
    BY <1>1 DEF ServedBy
  <2>2. \A v \in Workers : v # w => pc'[v] = pc[v] /\ hClient'[v] = hClient[v]
    BY <1>1 DEF Types
  <2>3. pc'[w] = "read" /\ hClient'[w] = n
    BY <1>1, <1>2 DEF Types
  <2>4. \A v \in Workers : Client(hClient[v])' = Client(hClient'[v])
    BY <1>1 DEF Client
  <2>5. ServedBy' = [v \in Workers |-> IF pc'[v] = "get" THEN NoConn ELSE Client(hClient'[v])]
    BY <2>4 DEF ServedBy
  <2>6. ServedBy' = [v \in Workers |-> IF v = w THEN c ELSE ServedBy[v]]
    BY <1>5, <2>2, <2>3, <2>5 DEF ServedBy
  <2> QED
    BY <2>1, <2>6 DEF ServiceView
<1>15. Closed' = Closed
  BY <1>1, <1>3 DEF Closed
<1>16. Service!Take(w, c)
  BY <1>5, <1>11, <1>12, <1>13, <1>14, <1>15 DEF Service!Take, ServiceView
<1> QED
  BY <1>5, <1>8, <1>16

\* CloseClient closes the only number of the connection the worker serves.
LEMMA ClosePromised ==
  ASSUME Types, Program, Held, Meaning, Promised, Accepted, ServiceView, ServiceView',
         NEW w \in Workers, CloseClient(w)
  PROVE  Accepted' /\ Service!Close(w)
<1>1. /\ pc[w] = "close" /\ pc' = [pc EXCEPT ![w] = "get"] /\ Close(hClient[w])
      /\ UNCHANGED <<waiting, queue, hClient, hServer>>
  BY DEF CloseClient, At, Goto, handles
<1>2. PICK n \in Fds : n = hClient[w] /\ HasClient(w, n) /\ fd[n].end = "client"
  BY <1>1 DEF HasClient, Program, Meaning
<1>3. PICK c \in Conns : c = Client(n)
  <2>1. Client(n) \in Conns
    BY <1>2 DEF Client, Types, Free
  <2> QED
    BY <2>1
<1>4. /\ \A m : m # n => Client(m)' = Client(m)
      /\ Client(n)' = NoConn
  <2>1. /\ \A m \in Fds : m # n => fd'[m] = fd[m]
        /\ fd'[n] = Free
    BY <1>1, <1>2 DEF Types, Close, IsOpen
  <2> QED
    BY <1>2, <2>1 DEF Client, Free
<1>5. /\ \A k \in 1 .. Len(queue) : queue[k] # n
      /\ \A v \in Workers : v # w => ~HasClient(v, n)
  BY <1>2 DEF Held, Queued
<1>6. NoConn \notin Conns
  BY DescriptorsAssumption
<1>7. \A m \in Fds : Client(m) = c => m = n
  BY <1>2, <1>3 DEF Accepted
<1>8. Accepted'
  <2>1. \A m \in Fds : Client(m)' = Client(m) \/ Client(m)' = NoConn
    BY <1>4
  <2>2. \A v \in Workers, m \in Fds : HasServer(v, m)' => HasServer(v, m)
    BY <1>1 DEF HasServer, UsesServer, Types
  <2>3. \A m \in Fds : Client(m)' \notin waiting'
    BY <1>1, <1>6, <2>1 DEF Accepted, Promised
  <2> QED
    BY <1>4, <1>6, <2>1, <2>2, <2>3 DEF Accepted
<1>9. \A k \in 1 .. Len(queue) : Client(queue[k])' = Client(queue[k])
  BY <1>1, <1>4, <1>5 DEF Client
<1>10. InQueue' = InQueue
  <2>1. \A d : d \in InQueue' <=> d \in Conns /\ \E k \in 1 .. Len(queue') : Client(queue[k])' = d
    BY DEF ServiceView
  <2>2. \A d : d \in InQueue' <=> d \in Conns /\ \E k \in 1 .. Len(queue) : Client(queue[k]) = d
    BY <1>1, <1>9, <2>1
  <2> HIDE DEF InQueue, Client
  <2>3. \A d : d \in InQueue' <=> d \in InQueue
    BY <2>2 DEF ServiceView
  <2> QED
    BY <2>3
<1>11. Ahead' = Ahead
  <2>1. \A b, d \in Conns : InFront(b, d)' <=> InFront(b, d)
    BY <1>1, <1>9 DEF InFront
  <2>2. \A b, d \in Conns : <<b, d>> \in Ahead' <=> <<b, d>> \in Ahead
    BY <2>1 DEF ServiceView
  <2>3. Ahead' \subseteq Conns \X Conns /\ Ahead \subseteq Conns \X Conns
    BY DEF ServiceView
  <2> QED
    BY <2>2, <2>3
<1>12. ServedBy[w] = c /\ ServedBy' = [ServedBy EXCEPT ![w] = NoConn]
  <2>1. ServedBy[w] = c
    BY <1>1, <1>2, <1>3 DEF ServedBy
  <2>2. \A v \in Workers : v # w => pc'[v] = pc[v]
    BY <1>1 DEF Types
  <2>3. pc'[w] = "get"
    BY <1>1 DEF Types
  <2>4. \A v \in Workers : v # w /\ pc[v] # "get" => Client(hClient[v])' = Client(hClient[v])
    BY <1>1, <1>2, <1>4, <1>5 DEF HasClient, Client
  <2>5. ServedBy' = [v \in Workers |-> IF v = w THEN NoConn ELSE ServedBy[v]]
    BY <2>2, <2>3, <2>4 DEF ServedBy
  <2> QED
    BY <2>1, <2>5 DEF ServiceView
<1>13. Closed' = Closed \cup {c}
  <2>1. c \in Closed'
    BY <1>1, <1>2, <1>3, <1>4, <1>6, <1>7 DEF Closed, Accepted
  <2>2. \A d \in Conns : d # c => (d \in Closed' <=> d \in Closed)
    BY <1>1, <1>2, <1>3, <1>4, <1>6 DEF Closed
  <2>3. Closed' \subseteq Conns /\ Closed \subseteq Conns
    BY DEF Closed
  <2> QED
    BY <1>3, <2>1, <2>2, <2>3
<1> QED
  BY <1>3, <1>6, <1>8, <1>10, <1>11, <1>12, <1>13 DEF Service!Close

\* A socket that a worker opens or cleans up is no client's.
LEMMA OpenUnseen ==
  ASSUME Types, NEW w \in Workers, OpenServer(w) \/ CreateRpcClient(w)
  PROVE  Unseen(w)
<1> DEFINE socket == Socket(IF pc[w] = "socket" THEN "server" ELSE "rpc", request[w])
<1>1. PICK n \in Fds : n = Lowest(FreeFds) /\ fd[n] = Free
  BY LowestIsFree DEF OpenServer, CreateRpcClient
<1>2. /\ \/ pc[w] = "socket" /\ pc' = [pc EXCEPT ![w] = "connect"]
         \/ pc[w] = "rpc" /\ pc' = [pc EXCEPT ![w] = "call"]
      /\ fd' = [fd EXCEPT ![n] = socket]
      /\ hServer' = [hServer EXCEPT ![w] = n]
      /\ UNCHANGED <<queue, waiting, hClient>>
  BY <1>1 DEF OpenServer, CreateRpcClient, At, Goto
<1>3. fd'[n].end # "client"
  BY <1>1, <1>2 DEF Types, Socket
<1>4. Client(n) = NoConn /\ Client(n)' = NoConn
  BY <1>1, <1>3 DEF Client, Free
<1>5. \A m : Client(m)' = Client(m)
  BY <1>1, <1>2, <1>4 DEF Types, Client
<1>6. \A m \in Fds : HasServer(w, m)' => m = n
  BY <1>2 DEF HasServer, Types
<1>7. \A v \in Workers \ {w} : pc'[v] = pc[v] /\ hServer'[v] = hServer[v]
  BY <1>2 DEF Types
<1>8. pc[w] # "get" /\ pc'[w] # "get"
  BY <1>2 DEF Types
<1> QED
  BY <1>2, <1>4, <1>5, <1>6, <1>7, <1>8 DEF Unseen

LEMMA CleanupUnseen ==
  ASSUME Types, Accepted, NEW w \in Workers, Cleanup(w)
  PROVE  Unseen(w)
<1>1. PICK n :
        /\ pc[w] = "cleanup" /\ pc' = [pc EXCEPT ![w] = "close"] /\ n = hServer[w] /\ Close(n)
        /\ UNCHANGED <<queue, waiting, hClient, hServer>>
  BY DEF Cleanup, At, Goto, handles
<1>2. n \in Fds => Client(n) = NoConn
  BY <1>1 DEF Accepted, HasServer, UsesServer
<1>3. \A m : Client(m)' = Client(m)
  <2>1. /\ \A m \in Fds : m # n => fd'[m] = fd[m]
        /\ n \in Fds => fd'[n] = Free
    BY <1>1 DEF Types, Close, IsOpen
  <2> QED
    BY <1>2, <2>1 DEF Client, Free
<1>4. \A m \in Fds : HasServer(w, m)' => HasServer(w, m)
  BY <1>1 DEF HasServer, UsesServer, Types
<1>5. \A v \in Workers \ {w} : pc'[v] = pc[v] /\ hServer'[v] = hServer[v]
  BY <1>1 DEF Types
<1> QED
  BY <1>1, <1>3, <1>4, <1>5 DEF Unseen, Types

\* Nor is any socket closed by an unset hServer, until it is a stray close.
LEMMA WorkerUnseen ==
  ASSUME Types, NEW w \in Workers, WorkerStep(w), ~strayClose',
         ~Get(w), ~OpenServer(w), ~CreateRpcClient(w), ~Cleanup(w), ~CloseClient(w)
  PROVE  Unseen(w)
<1>1. UNCHANGED <<fd, queue, waiting, hClient>>
  <2>1. CASE UnsetCleanup(w)
    BY <2>1 DEF UnsetCleanup, Close, handles
  <2> QED
    BY <2>1 DEF WorkerStep, ServeDirectly, ServeByRpc, handles, workerVars, ReadRequest, Reject, ResolveFails,
        Resolve, OpenServerFails, Connect, ConnectFails, RequestTooLong, SendFails, SendRequest, ReadServer,
        WriteClient, EndOfAnswer, UnsetCleanupCrashes, CreateRpcClientFails, CallRpc
<1>2. \A n : Client(n)' = Client(n)
  BY <1>1 DEF Client
<1>3. /\ \A v \in Workers \ {w} : pc'[v] = pc[v] /\ hServer'[v] = hServer[v]
      /\ pc[w] # "get" /\ pc'[w] # "get"
  BY DEF Types, At, Goto, WorkerStep, ServeDirectly, ServeByRpc, handles, workerVars, ReadRequest, Reject,
      ResolveFails, Resolve, OpenServerFails, Connect, ConnectFails, RequestTooLong, SendFails, SendRequest,
      ReadServer, WriteClient, EndOfAnswer, UnsetCleanup, UnsetCleanupCrashes, CreateRpcClientFails, CallRpc
<1>4. \A n \in Fds : HasServer(w, n)' => HasServer(w, n)
  <2>1. CASE OpenServerFails(w)
    BY <2>1 DEF OpenServerFails, At, Goto, HasServer, UsesServer, Types, Failed, Fds
  <2> QED
    BY <2>1 DEF Types, At, Goto, HasServer, UsesServer, WorkerStep, ServeDirectly, ServeByRpc, handles,
        workerVars, ReadRequest, Reject, ResolveFails, Resolve, Connect, ConnectFails, RequestTooLong,
        SendFails, SendRequest, ReadServer, WriteClient, EndOfAnswer, UnsetCleanup, UnsetCleanupCrashes,
        CreateRpcClientFails, CallRpc
<1> QED
  BY <1>1, <1>2, <1>3, <1>4 DEF Unseen

LEMMA InvTypes == Inv => Types
BY DEF Inv

LEMMA PromisedStep ==
  ASSUME Inv, Inv', ServiceView, ServiceView', Promised, [Next]_vars
  PROVE  Promised' /\ (~strayClose' => [Service!Next]_(Service!serviceVars))
<1>1. waiting' \in SUBSET Conns
  <2>1. waiting' \subseteq waiting
    BY [Next]_vars DEF Next, Stopped, vars, Accept, WorkerStep, ServeDirectly, ServeByRpc, handles, workerVars, Get,
        ReadRequest, Reject, CloseClient, ResolveFails, Resolve, OpenServer, OpenServerFails, Connect,
        ConnectFails, RequestTooLong, SendFails, SendRequest, ReadServer, WriteClient, EndOfAnswer, Cleanup,
        UnsetCleanup, UnsetCleanupCrashes, CreateRpcClient, CreateRpcClientFails, CallRpc
  <2> QED
    BY <2>1 DEF Promised
<1>2. ASSUME ~strayClose' PROVE Accepted' /\ [Service!Next]_(Service!serviceVars)
  <2>1. Types /\ Program /\ Held /\ Meaning /\ Accepted
    BY <1>2, StrayStays DEF Inv, Promised
  <2>2. ASSUME NEW c \in Conns, Accept(c) PROVE Accepted' /\ [Service!Next]_(Service!serviceVars)
    BY <2>1, <2>2, AcceptPromised DEF Service!Next
  <2>3. ASSUME NEW w \in Workers, WorkerStep(w) PROVE Accepted' /\ [Service!Next]_(Service!serviceVars)
    <3>1. CASE Get(w)
      BY <2>1, <3>1, GetPromised DEF Service!Next
    <3>2. CASE CloseClient(w)
      BY <2>1, <3>2, ClosePromised DEF Service!Next
    <3>3. CASE ~Get(w) /\ ~CloseClient(w)
      <4>1. Unseen(w)
        BY <1>2, <2>1, <2>3, <3>3, OpenUnseen, CleanupUnseen, WorkerUnseen
      <4> QED
        BY <2>1, <4>1, UnseenKept
    <3> QED
      BY <3>1, <3>2, <3>3
  <2>4. CASE UNCHANGED vars
    <3>1. Accepted' /\ UNCHANGED <<fd, waiting, queue, pc, hClient>>
      BY <2>1, <2>4 DEF Accepted, Client, HasServer, UsesServer, vars, workerVars, handles
    <3>2. UNCHANGED <<InQueue, Ahead, ServedBy, Closed>>
      BY <3>1 DEF InQueue, Ahead, ServedBy, Closed, Client
    <3> QED
      BY <3>1, <3>2 DEF Service!serviceVars
  <2> QED
    BY <2>2, <2>3, <2>4, [Next]_vars DEF Next, Stopped
<1> QED
  BY <1>1, <1>2 DEF Promised

LEMMA InitPromised == Init => Promised /\ Service!Init
<1> SUFFICES ASSUME Init PROVE Promised /\ Service!Init
  OBVIOUS
<1>1. queue = <<>> /\ waiting = Conns /\ \A n : Client(n) = NoConn
  BY DEF Init, Client, Free
<1>2. Accepted
  BY <1>1, DescriptorsAssumption DEF Accepted, HasServer, UsesServer, Init
<1>3. InQueue = {} /\ Ahead = {} /\ Closed = {}
  BY <1>1 DEF InQueue, Ahead, Closed
<1>4. ServedBy = [w \in Workers |-> NoConn]
  BY DEF ServedBy, Init
<1> QED
  BY <1>1, <1>2, <1>3, <1>4 DEF Promised, Service!Init

\* worker.c: though threads know sockets only by numbers that are given out again,
\* and some paths fail, each connection is taken in its turn, by one worker, and
\* closed once, by that worker, until an unset hServer is closed.
THEOREM ServedInTurn == Spec => ServedUnlessStray
<1>1. Inv /\ Inv' /\ ServiceView /\ ServiceView' /\ Promised /\ [Next]_vars
        => Promised' /\ [~strayClose' => [Service!Next]_(Service!serviceVars)]_vars
  BY PromisedStep
<1> QED
  BY <1>1, InitPromised, InvHolds, InvTypes, ServiceState, PTL DEF Spec, ServedUnlessStray

-----------------------------------------------------------------------------
(* The text of a request.                                                  *)

\* A set of natural numbers has a least one.
LEMMA LeastOf ==
  ASSUME NEW S \in SUBSET Nat, S # {}
  PROVE  Min(S) \in S /\ \A n \in S : Min(S) <= n
<1> DEFINE Less == OpToRel(<, Nat)
<1>1. \A m, n \in Nat : m < n => <<m, n>> \in Less
  BY DEF OpToRel
<1>2. IsWellFoundedOn(Less, Nat)
  BY NatLessThanWellFounded
<1> HIDE DEF Less
<1>3. PICK least \in S : \A n \in S : <<n, least>> \notin Less
  BY <1>2, WFMin
<1>4. \A n \in S : least <= n
  <2> TAKE n \in S
  <2>1. least \in Nat /\ n \in Nat
    OBVIOUS
  <2>2. ~(n < least)
    BY <1>1, <1>3, <2>1
  <2> QED
    BY <2>1, <2>2
<1> QED
  BY <1>3, <1>4 DEF Min

\* Two buffers with the same bytes in the first places.
Agree(a, b, count) ==
  /\ \A p \in 0 .. count - 1 : Char(a, p) = Char(b, p)
  /\ count <= Len(a) /\ count <= Len(b)

\* A search ends within the request, and where it ends is up to the request.
LEMMA UntilWithin ==
  ASSUME NEW Bytes, NEW a \in Seq(Bytes), NEW b \in Seq(Bytes), NEW count \in Nat, Agree(a, b, count),
         NEW from \in Nat, NEW stop
  PROVE  /\ Until(a, from, count, stop) = Until(b, from, count, stop)
         /\ Until(a, from, count, stop) \in Nat
         /\ from <= Until(a, from, count, stop)
         /\ from <= count => Until(a, from, count, stop) <= count
<1> DEFINE last == IF count > from THEN count ELSE from
           Ends(text) == {p \in from .. last : p >= count \/ Char(text, p) \in stop}
<1>1. last \in Nat /\ last \in from .. last /\ last >= count /\ (from <= count => last = count)
  OBVIOUS
<1> HIDE DEF last
<1>2. Ends(a) = Ends(b)
  BY <1>1 DEF Agree
<1>3. Ends(a) \in SUBSET Nat /\ Ends(a) # {}
  <2>1. last \in Ends(a)
    BY <1>1
  <2>2. Ends(a) \subseteq from .. last /\ from .. last \subseteq Nat
    BY <1>1
  <2> QED
    BY <2>1, <2>2
<1>4. Min(Ends(a)) \in Ends(a)
  <2> HIDE DEF Ends
  <2> QED
    BY <1>3, LeastOf
<1>5. Until(a, from, count, stop) = Min(Ends(a)) /\ Until(b, from, count, stop) = Min(Ends(b))
  BY DEF Until, last
<1>6. Min(Ends(a)) \in from .. last
  BY <1>4
<1> HIDE DEF Ends
<1> QED
  BY <1>1, <1>2, <1>5, <1>6

\* So is what is cut out of the request.
LEMMA SliceWithin ==
  ASSUME NEW Bytes, NEW a \in Seq(Bytes), NEW b \in Seq(Bytes), NEW count \in Nat, Agree(a, b, count),
         NEW from \in Nat, NEW to \in Nat, to <= count
  PROVE  Slice(a, from, to) = Slice(b, from, to)
<1>1. \A i \in from + 1 .. to : a[i] = b[i]
  <2> TAKE i \in from + 1 .. to
  <2>1. i - 1 \in 0 .. count - 1 /\ (i - 1) + 1 = i
    OBVIOUS
  <2> QED
    BY <2>1 DEF Agree, Char
<1>2. to <= Len(a) /\ to <= Len(b)
  BY DEF Agree
<1> QED
  BY <1>1, <1>2 DEF Slice

\* The uri of a request.
LEMMA UriWithin ==
  ASSUME NEW Bytes, NEW a \in Seq(Bytes), NEW b \in Seq(Bytes), NEW count \in Nat, Agree(a, b, count),
         NEW method, NEW schema, NEW host, NEW port, NEW p \in Nat, p <= count
  PROVE  ParseUri(a, count, method, schema, host, port, p) = ParseUri(b, count, method, schema, host, port, p)
<1> DEFINE end == Until(a, p, count, Space)
<1>1. end = Until(b, p, count, Space) /\ end \in Nat /\ end <= count
  BY UntilWithin
<1> HIDE DEF end
<1>2. Slice(a, p, end) = Slice(b, p, end)
  BY <1>1, SliceWithin
<1> QED
  BY <1>1, <1>2 DEF ParseUri, end

\* A request with a schema and a host.
LEMMA AbsoluteWithin ==
  ASSUME NEW Bytes, NEW a \in Seq(Bytes), NEW b \in Seq(Bytes), NEW count \in Nat, Agree(a, b, count),
         NEW method, NEW p \in Nat, p < count
  PROVE  ParseAbsolute(a, count, method, p) = ParseAbsolute(b, count, method, p)
<1> DEFINE Schema(text, colon) == [k \in 1 .. colon - p |-> Lower(Char(text, p + k - 1))]
           Named(text, colon) == IF Matches(Schema(text, colon), <<"h", "t", "t", "p">>) THEN "HTTP" ELSE "UNKNOWN"
           colon == Until(a, p, count, {":"})
           host == colon + 3
           hostEnd == Until(a, host, count, HostEnd)
           portEnd == Until(a, hostEnd + 1, count, {"/"})
           HasPort(text) == Char(text, hostEnd) = ":"
           Ascii(text) == IF HasPort(text) THEN Slice(text, hostEnd + 1, portEnd) ELSE <<>>
           Port(text) == IF HasPort(text) THEN Atoi(Ascii(text)) ELSE 0
           Uri(text) == IF HasPort(text) THEN portEnd ELSE hostEnd
           Parsed(text) ==
             IF host >= count \/ (HasPort(text) /\ hostEnd + 1 >= count) THEN Rejected
             ELSE IF HasPort(text) /\ Overruns(Ascii(text)) THEN Undefined
             ELSE IF (HasPort(text) /\ Port(text) \notin 1 .. MAX_PORT)
                       \/ ~UriStartsAt(text, Uri(text), count)
             THEN Rejected
             ELSE ParseUri(text, count, method, Named(text, colon), Slice(text, host, hostEnd),
                           Port(text), Uri(text))
<1>1. colon = Until(b, p, count, {":"}) /\ colon \in Nat /\ colon <= count
  BY UntilWithin
<1> HIDE DEF colon
<1>2. hostEnd = Until(b, host, count, HostEnd) /\ hostEnd \in Nat /\ host \in Nat /\ host <= hostEnd
      /\ (host <= count => hostEnd <= count)
  BY <1>1, UntilWithin
<1> HIDE DEF hostEnd
<1>3. portEnd = Until(b, hostEnd + 1, count, {"/"}) /\ portEnd \in Nat
      /\ (hostEnd + 1 <= count => portEnd <= count)
  BY <1>2, UntilWithin
<1> HIDE DEF portEnd
<1>4. ParseAbsolute(a, count, method, p) = Parsed(a) /\ ParseAbsolute(b, count, method, p) = Parsed(b)
  BY <1>1, <1>2, <1>3 DEF ParseAbsolute, colon, hostEnd, portEnd
<1> SUFFICES Parsed(a) = Parsed(b)
  BY <1>4
<1>5. CASE host >= count
  BY <1>5
<1>6. CASE ~(host >= count) /\ ~(hostEnd < count)
  <2>1. hostEnd = count /\ hostEnd + 1 >= count
    BY <1>1, <1>2, <1>6
  <2>2. ~UriStartsAt(a, hostEnd, count) /\ ~UriStartsAt(b, hostEnd, count)
    BY <2>1 DEF UriStartsAt
  <2>3. Parsed(a) = Rejected /\ Parsed(b) = Rejected
    BY <2>1, <2>2
  <2> QED
    BY <2>3
<1>7. CASE ~(host >= count) /\ hostEnd < count
  <2>1. host <= count /\ hostEnd <= count /\ hostEnd + 1 <= count /\ hostEnd + 1 \in Nat /\ portEnd <= count
    BY <1>1, <1>2, <1>3, <1>7
  <2>2. Schema(a, colon) = Schema(b, colon)
    <3>1. \A k \in 1 .. colon - p : Char(a, p + k - 1) = Char(b, p + k - 1)
      <4> TAKE k \in 1 .. colon - p
      <4>1. p + k - 1 \in 0 .. count - 1
        BY <1>1
      <4> QED
        BY <4>1 DEF Agree
    <3> QED
      BY <3>1
  <2>3. Char(a, hostEnd) = Char(b, hostEnd)
    BY <1>2, <1>7 DEF Agree
  <2>4. Ascii(a) = Ascii(b)
    <3>1. Slice(a, hostEnd + 1, portEnd) = Slice(b, hostEnd + 1, portEnd)
      BY <1>3, <2>1, SliceWithin
    <3> QED
      BY <2>3, <3>1
  <2>5. Slice(a, host, hostEnd) = Slice(b, host, hostEnd)
    BY <1>2, <2>1, SliceWithin
  <2> HIDE DEF Ascii
  <2>6. Port(a) = Port(b) /\ Uri(a) = Uri(b) /\ Uri(a) \in Nat /\ Uri(a) <= count
    BY <1>2, <1>3, <2>1, <2>3, <2>4
  <2>7. UriStartsAt(a, Uri(a), count) = UriStartsAt(b, Uri(b), count)
    BY <2>6 DEF UriStartsAt, Agree
  <2> HIDE DEF Schema, Port, Uri
  <2>8. Named(a, colon) = Named(b, colon)
    BY <2>2
  <2> HIDE DEF Named
  <2>9. ParseUri(a, count, method, Named(a, colon), Slice(a, host, hostEnd), Port(a), Uri(a))
          = ParseUri(b, count, method, Named(b, colon), Slice(b, host, hostEnd), Port(b), Uri(b))
    BY <2>5, <2>6, <2>8, UriWithin
  <2> QED
    BY <2>3, <2>4, <2>6, <2>7, <2>9
<1> QED
  BY <1>5, <1>6, <1>7

\* What ml_http_parseStatus makes of a request is up to the bytes of this request.
LEMMA ParsedWithin ==
  ASSUME NEW Bytes, NEW a \in Seq(Bytes), NEW b \in Seq(Bytes), NEW count \in Nat, Agree(a, b, count)
  PROVE  ml_http_parseStatus(a, count) = ml_http_parseStatus(b, count)
<1> DEFINE blank == {" "}
           methodEnd == Until(a, 0, count, blank)
           p == methodEnd + 1
<1>1. Until(a, 0, count, {" "}) = methodEnd /\ Until(b, 0, count, {" "}) = Until(b, 0, count, blank)
  OBVIOUS
<1> HIDE DEF blank
<1>2. methodEnd = Until(b, 0, count, blank) /\ methodEnd \in Nat /\ methodEnd <= count
  BY UntilWithin
<1> HIDE DEF methodEnd
<1>3. Slice(a, 0, methodEnd) = Slice(b, 0, methodEnd)
  BY <1>2, SliceWithin
<1> DEFINE method == IF Matches(Slice(a, 0, methodEnd), <<"G", "E", "T">>) THEN "GET" ELSE "UNKNOWN"
           Parsed(text) == IF p >= count THEN Rejected
                             ELSE IF Char(text, p) = "/" THEN ParseUri(text, count, method, "UNKNOWN", <<>>, 0, p)
                             ELSE ParseAbsolute(text, count, method, p)
<1>4. ml_http_parseStatus(a, count) = Parsed(a) /\ ml_http_parseStatus(b, count) = Parsed(b)
  BY Zenon, <1>1, <1>2, <1>3 DEF ml_http_parseStatus
<1> HIDE DEF method
<1> SUFFICES Parsed(a) = Parsed(b)
  BY <1>4
<1>5. CASE p >= count
  BY <1>5
<1>6. CASE ~(p >= count)
  <2>1. p \in Nat /\ p < count /\ p <= count
    BY <1>2, <1>6
  <2>2. Char(a, p) = Char(b, p)
    BY <2>1 DEF Agree
  <2>3. ParseUri(a, count, method, "UNKNOWN", <<>>, 0, p) = ParseUri(b, count, method, "UNKNOWN", <<>>, 0, p)
    BY <2>1, UriWithin
  <2>4. ParseAbsolute(a, count, method, p) = ParseAbsolute(b, count, method, p)
    BY <2>1, AbsoluteWithin
  <2> QED
    BY <2>2, <2>3, <2>4
<1> QED
  BY <1>5, <1>6

\* A uri begins with '/' and is a part of the request.
UriInside(r, a, count) ==
  r.status = "SUCCESS" =>
    /\ r.at \in Nat
    /\ Len(r.uri) \in Nat \ {0}
    /\ r.at + Len(r.uri) <= count
    /\ Char(a, r.at) = "/"
    /\ r.uri = Slice(a, r.at, r.at + Len(r.uri))

LEMMA UriOf ==
  ASSUME NEW Bytes, NEW a \in Seq(Bytes), NEW count \in Nat, count <= Len(a),
         NEW method, NEW schema, NEW host, NEW port, NEW p \in Nat, p < count, Char(a, p) = "/"
  PROVE  UriInside(ParseUri(a, count, method, schema, host, port, p), a, count)
<1> DEFINE end == Until(a, p, count, Space)
           r == ParseUri(a, count, method, schema, host, port, p)
<1>1. end \in Nat /\ p <= end /\ end <= count
  BY UntilWithin DEF Agree
<1>2. end # p
  <2>1. end \in {q \in p .. count : q >= count \/ Char(a, q) \in Space}
    <3> DEFINE S == {q \in p .. count : q >= count \/ Char(a, q) \in Space}
    <3>1. S \in SUBSET Nat /\ count \in S
      OBVIOUS
    <3> HIDE DEF S
    <3>2. Min(S) \in S
      BY <3>1, LeastOf
    <3>3. (IF count > p THEN count ELSE p) = count
      OBVIOUS
    <3>4. end = Min(S)
      BY <3>3 DEF Until, S
    <3> QED
      BY <3>2, <3>4 DEF S
  <2>2. "/" \notin Space
    BY DEF Space
  <2> QED
    BY <2>1, <2>2
<1> HIDE DEF end
<1>3. r.at = p /\ r.uri = Slice(a, p, end)
  BY DEF ParseUri, end
<1>4. Len(Slice(a, p, end)) = end - p
  BY <1>1 DEF Slice
<1> HIDE DEF r
<1> QED
  BY <1>1, <1>2, <1>3, <1>4 DEF UriInside, r

LEMMA ParsedUri ==
  ASSUME NEW Bytes, NEW a \in Seq(Bytes), NEW count \in Nat, count <= Len(a)
  PROVE  UriInside(ml_http_parseStatus(a, count), a, count)
<1> DEFINE methodEnd == Until(a, 0, count, {" "})
           p == methodEnd + 1
           method == IF Matches(Slice(a, 0, methodEnd), <<"G", "E", "T">>) THEN "GET" ELSE "UNKNOWN"
<1>1. methodEnd \in Nat
  BY UntilWithin DEF Agree
<1>2. ml_http_parseStatus(a, count) =
        IF p >= count THEN Rejected
        ELSE IF Char(a, p) = "/" THEN ParseUri(a, count, method, "UNKNOWN", <<>>, 0, p)
        ELSE ParseAbsolute(a, count, method, p)
  BY Zenon DEF ml_http_parseStatus
<1> HIDE DEF methodEnd, method
<1>3. UriInside(Rejected, a, count) /\ UriInside(Undefined, a, count)
  BY DEF UriInside, Rejected, Undefined
<1>4. UriInside(ParseAbsolute(a, count, method, p), a, count)
  <2>1. ASSUME NEW schema, NEW host, NEW port, NEW q \in Nat, UriStartsAt(a, q, count)
        PROVE  UriInside(ParseUri(a, count, method, schema, host, port, q), a, count)
    BY <2>1, UriOf DEF UriStartsAt
  <2> DEFINE colon == Until(a, p, count, {":"})
             host == colon + 3
             hostEnd == Until(a, host, count, HostEnd)
             hasPort == Char(a, hostEnd) = ":"
             portEnd == Until(a, hostEnd + 1, count, {"/"})
             ascii == IF hasPort THEN Slice(a, hostEnd + 1, portEnd) ELSE <<>>
             port == IF hasPort THEN Atoi(ascii) ELSE 0
             uri == IF hasPort THEN portEnd ELSE hostEnd
             schema == [k \in 1 .. colon - p |-> Lower(Char(a, p + k - 1))]
             named == IF Matches(schema, <<"h", "t", "t", "p">>) THEN "HTTP" ELSE "UNKNOWN"
             parsed == ParseUri(a, count, method, named, Slice(a, host, hostEnd), port, uri)
             early == host >= count \/ (hasPort /\ hostEnd + 1 >= count)
             over == hasPort /\ Overruns(ascii)
             late == (hasPort /\ port \notin 1 .. MAX_PORT) \/ ~UriStartsAt(a, uri, count)
  <2>2. ParseAbsolute(a, count, method, p) =
          IF early THEN Rejected ELSE IF over THEN Undefined ELSE IF late THEN Rejected ELSE parsed
    BY Zenon DEF ParseAbsolute
  <2>3. Agree(a, a, count) /\ p \in Nat
    BY <1>1 DEF Agree
  <2>4. colon \in Nat
    BY <2>3, UntilWithin
  <2> HIDE DEF colon
  <2>5. hostEnd \in Nat
    BY <2>3, <2>4, UntilWithin
  <2> HIDE DEF hostEnd
  <2>6. portEnd \in Nat
    BY <2>3, <2>5, UntilWithin
  <2> HIDE DEF portEnd
  <2>7. uri \in Nat
    BY <2>5, <2>6
  <2>8. late \/ UriInside(parsed, a, count)
    <3>1. ~late => UriStartsAt(a, uri, count)
      OBVIOUS
    <3> HIDE DEF late, uri, port, named
    <3> QED
      BY <2>1, <2>7, <3>1
  <2> HIDE DEF early, over, late, parsed
  <2> QED
    BY <1>3, <2>2, <2>8
<1>5. p < count /\ Char(a, p) = "/" =>
        UriInside(ParseUri(a, count, method, "UNKNOWN", <<>>, 0, p), a, count)
  BY <1>1, UriOf
<1> QED
  BY <1>1, <1>2, <1>3, <1>4, <1>5

\* A set of places below some place has a last one.
LEMMA LastOf ==
  ASSUME NEW length \in Nat, NEW S \in SUBSET (0 .. length - 1), S # {}
  PROVE  Max(S) \in S
<1> DEFINE Back == {n \in Nat : length - 1 - n \in S}
<1>1. Back \in SUBSET Nat /\ Back # {}
  <2>1. PICK p \in S : TRUE
    OBVIOUS
  <2>2. length - 1 - p \in Nat /\ length - 1 - (length - 1 - p) = p
    BY <2>1
  <2> QED
    BY <2>1, <2>2
<1>2. Min(Back) \in Back /\ \A n \in Back : Min(Back) <= n
  <2> HIDE DEF Back
  <2> QED
    BY <1>1, LeastOf
<1> DEFINE last == length - 1 - Min(Back)
<1>3. last \in S
  BY <1>2
<1>4. \A p \in S : last >= p
  <2> TAKE p \in S
  <2>1. length - 1 - p \in Back
    OBVIOUS
  <2>2. Min(Back) <= length - 1 - p /\ Min(Back) \in Nat
    BY <1>2, <2>1
  <2> HIDE DEF Back
  <2> QED
    BY <2>2
<1> HIDE DEF last
<1> QED
  BY <1>3, <1>4 DEF Max

\* Three characters that follow each other.
LEMMA ThreeOf ==
  ASSUME NEW Bytes, NEW a \in Seq(Bytes), NEW from \in Nat, from + 3 <= Len(a)
  PROVE  Slice(a, from, from + 3) = <<Char(a, from), Char(a, from + 1), Char(a, from + 2)>>
<1> DEFINE s == SubSeq(a, from + 1, from + 3)
<1>1. s = [i \in 1 .. 3 |-> a[from + i]]
  <2>1. s = [i \in 1 .. (from + 3) - (from + 1) + 1 |-> a[from + 1 + i - 1]]
    OBVIOUS
  <2>2. (from + 3) - (from + 1) + 1 = 3 /\ \A i \in 1 .. 3 : from + 1 + i - 1 = from + i
    OBVIOUS
  <2> QED
    BY <2>1, <2>2
<1> HIDE DEF s
<1>2. from + 1 + 1 = from + 2 /\ from + 2 + 1 = from + 3
  OBVIOUS
<1>3. s = <<a[from + 1], a[from + 2], a[from + 3]>>
  BY <1>1
<1> QED
  BY <1>2, <1>3 DEF Slice, Char, s

\* ml_http_isJpeg looks behind a resource that begins with '/' only if it ends in .jp.
LEMMA JpegWithin ==
  ASSUME NEW Bytes, NEW a \in Seq(Bytes), NEW b \in Seq(Bytes), NEW count \in Nat, Agree(a, b, count),
         NEW start \in Nat, NEW length \in Nat \ {0}, start + length <= count,
         Char(a, start) = "/",
         \/ start + length < count
         \/ Slice(a, start + length - 3, start + length) # <<".", "j", "p">>
  PROVE  ml_http_isJpeg(a, start, length) = ml_http_isJpeg(b, start, length)
<1> DEFINE Slashes(text) == {p \in 0 .. length - 1 : p = 0 \/ Char(text, start + p) = "/"}
           slash == Max(Slashes(a))
           last == start + length - 3
           Dot(text) == Until(text, start + slash, last, {"."})
           Says(text) == /\ Char(text, Dot(text)) = "."
                         /\ Char(text, Dot(text) + 1) = "j"
                         /\ Char(text, Dot(text) + 2) = "p"
                         /\ Char(text, Dot(text) + 3) = "g"
<1>1. \A p \in 0 .. count - 1 : Char(a, p) = Char(b, p)
  BY DEF Agree
<1>2. Slashes(a) = Slashes(b)
  BY <1>1
<1>3. slash \in 0 .. length - 1 /\ Char(a, start + slash) = "/" /\ Char(b, start + slash) = "/"
  <2>1. Slashes(a) \in SUBSET (0 .. length - 1) /\ 0 \in Slashes(a)
    OBVIOUS
  <2>2. slash \in Slashes(a)
    <3> HIDE DEF Slashes
    <3> QED
      BY <2>1, LastOf
  <2>3. slash \in 0 .. length - 1 /\ Char(a, start + slash) = "/"
    BY <2>2
  <2> HIDE DEF slash
  <2> QED
    BY <1>1, <2>3
<1>4. ml_http_isJpeg(a, start, length) = Says(a) /\ ml_http_isJpeg(b, start, length) = Says(b)
  BY <1>2 DEF ml_http_isJpeg
<1> HIDE DEF slash, Slashes
<1> SUFFICES Says(a) = Says(b)
  BY <1>4
<1>5. CASE ~(slash < length - 3)
  <2>1. ~(last > start + slash)
    BY <1>3, <1>5
  <2>2. \A n \in Nat : Min(n .. n) = n
    BY DEF Min
  <2>3. ASSUME NEW text PROVE Dot(text) = start + slash
    <3>1. {p \in start + slash .. start + slash : p >= last \/ Char(text, p) \in {"."}} = start + slash .. start + slash
      BY <1>3, <2>1
    <3> QED
      BY <1>3, <2>1, <2>2, <3>1 DEF Until
  <2> HIDE DEF Dot
  <2> QED
    BY <1>3, <2>3
<1>6. CASE slash < length - 3
  <2>1. last \in Nat /\ start + slash \in Nat /\ start + slash <= last /\ last + 3 = start + length
    BY <1>3, <1>6
  <2> HIDE DEF last
  <2>2. Agree(a, b, last)
    BY <2>1 DEF Agree
  <2>3. Dot(a) = Dot(b) /\ Dot(a) \in Nat /\ Dot(a) <= last
    BY <2>1, <2>2, UntilWithin
  <2> DEFINE dot == Dot(a)
  <2> HIDE DEF Dot
  <2>4. /\ Char(a, dot) = Char(b, dot)
        /\ Char(a, dot + 1) = Char(b, dot + 1)
        /\ Char(a, dot + 2) = Char(b, dot + 2)
    BY <1>1, <2>1, <2>3
  <2>5. CASE dot + 3 < count
    <3>1. Char(a, dot + 3) = Char(b, dot + 3)
      BY <1>1, <2>3, <2>5
    <3> QED
      BY <2>3, <2>4, <3>1
  <2>6. CASE ~(dot + 3 < count)
    <3>1. dot = last /\ last + 3 = count /\ Slice(a, last, last + 3) # <<".", "j", "p">>
      BY <2>1, <2>3, <2>6 DEF last
    <3>2. last + 3 <= Len(a)
      BY <3>1 DEF Agree
    <3>3. Slice(a, last, last + 3) = <<Char(a, last), Char(a, last + 1), Char(a, last + 2)>>
      BY <2>1, <3>2, ThreeOf
    <3>4. ~(Char(a, dot) = "." /\ Char(a, dot + 1) = "j" /\ Char(a, dot + 2) = "p")
      BY <3>1, <3>3
    <3> QED
      BY <2>3, <2>4, <3>4
  <2> QED
    BY <2>5, <2>6
<1> QED
  BY <1>5, <1>6

\* http.c and worker.c: whatever an earlier request has left in the buffer behind
\* the bytes of this one, of any length, it is parsed to the same end; and worker.c
\* answers it in the same way, unless the request ends with its uri and the uri
\* with .jp.  There the byte behind it decides whether it is an image's name.
THEOREM AnsweredFromOwnBytes ==
  ASSUME NEW Bytes, NEW a \in Seq(Bytes), NEW b \in Seq(Bytes), NEW count \in Nat, Agree(a, b, count)
  PROVE  /\ ml_http_parseStatus(a, count) = ml_http_parseStatus(b, count)
         /\ ~UriEndsRequest(a, count) \/ Slice(a, count - 3, count) # <<".", "j", "p">>
            => processConnection(a, count) = processConnection(b, count)
<1> DEFINE r == ml_http_parseStatus(a, count)
<1>1. r = ml_http_parseStatus(b, count)
  BY ParsedWithin
<1>2. UriInside(r, a, count)
  BY ParsedUri DEF Agree
<1>3. ASSUME ~UriEndsRequest(a, count) \/ Slice(a, count - 3, count) # <<".", "j", "p">>,
             r.status = "SUCCESS"
      PROVE  ml_http_isJpeg(a, r.at, Len(r.uri)) = ml_http_isJpeg(b, r.at, Len(r.uri))
  <2>1. UriEndsRequest(a, count) <=> r.at + Len(r.uri) = count
    BY <1>3 DEF UriEndsRequest
  <2> HIDE DEF r
  <2> DEFINE start == r.at
             length == Len(r.uri)
  <2>2. start \in Nat /\ length \in Nat \ {0} /\ start + length <= count /\ Char(a, start) = "/"
    BY <1>2, <1>3 DEF UriInside
  <2>3. start + length < count \/ Slice(a, start + length - 3, start + length) # <<".", "j", "p">>
    <3>1. CASE start + length < count
      BY <3>1
    <3>2. CASE ~(start + length < count)
      <4>1. start + length = count
        BY <2>2, <3>2
      <4>2. Slice(a, count - 3, count) # <<".", "j", "p">>
        BY <1>3, <2>1, <4>1
      <4>3. start + length - 3 = count - 3
        BY <2>2, <4>1
      <4> HIDE DEF start, length
      <4>4. Slice(a, start + length - 3, start + length) # <<".", "j", "p">>
        BY <4>1, <4>2, <4>3, Zenon
      <4> QED
        BY <4>4
    <3> QED
      BY <3>1, <3>2
  <2> HIDE DEF start, length
  <2>4. ml_http_isJpeg(a, start, length) = ml_http_isJpeg(b, start, length)
    BY <2>2, <2>3, JpegWithin
  <2> QED
    BY <2>4 DEF start, length
<1>4. r.status \in {"ERROR", "UNDEFINED", "SUCCESS"}
  BY DEF ml_http_parseStatus, ParseAbsolute, ParseUri, Rejected, Undefined
<1> QED
  BY <1>1, <1>3, <1>4 DEF processConnection

=============================================================================
