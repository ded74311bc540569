------------------------ MODULE ClientWorkersProofs ------------------------
(***************************************************************************)
(* For any number of workers, requests and descriptors: the workers of the *)
(* test client start together, a request is skipped only after failures of *)
(* connect, and the report counts everything that was read.                *)
(*                                                                         *)
(* StartTogether needs to know which workers the main thread has created   *)
(* when it sets ready; SkippedOnlyAfterFailures an account of who holds a  *)
(* descriptor; ReportIsComplete that the workers joined so far have exited *)
(* and that an exited worker takes no step.                                *)
(*                                                                         *)
(* FileIsInRange is about the number of the file that a worker asks for.   *)
(***************************************************************************)
EXTENDS ClientWorkers, ClientRequest, TLAPS, FiniteSetTheorems

Past(w) == worker[w] \in {"loop", "connect", "read", "exited"}

\* The main thread's program, and what it has done so far.
Started ==
  /\ main = "create" => i < workerPoolSize
  /\ main \in {"create", "failed"} => \A w \in Workers : worker[w] # "none" <=> w <= i
  /\ main \notin {"create", "failed"} => \A w \in Workers : worker[w] # "none"
  /\ ready => main \in {"broadcast", "join", "exited"}
  /\ \A w \in Workers : Past(w) => ready

\* Who has a socket open.
Open == {w \in Workers : worker[w] \in {"connect", "read"}}

\* A descriptor is in use by a worker or was lost in ConnectFails.
Account == fds = failed + Cardinality(Open)

\* Every request that was taken is still being served, or has succeeded or failed.
Served ==
  \A w \in Workers :
    /\ successes[w] + numberRequests[w] <= Requests
    /\ w \in Open => successes[w] + numberRequests[w] < Requests

\* The threads that the main thread has waited for.
Joined ==
  /\ main = "join" => \A w \in Workers : w < i => worker[w] = "exited"
  /\ main = "exited" => \A w \in Workers : worker[w] = "exited"
  /\ total # -1 => main = "exited"

Inv ==
  /\ TypeOK
  /\ Started
  /\ Account
  /\ Served
  /\ SkippedOnlyAfterFailures
  /\ Joined
  /\ ReportIsComplete

-----------------------------------------------------------------------------

\* The initial state.
LEMMA InitInv == Init => Inv
<1> SUFFICES ASSUME Init PROVE Inv
  OBVIOUS
<1> USE ClientAssumption DEF Init
<1>1. TypeOK
  <2>1. ready \in BOOLEAN
    BY Zenon
  <2> QED
    BY <2>1 DEF TypeOK, Workers
<1>2. Started /\ Joined
  BY DEF Started, Past, Joined, Workers
<1>3. Account
  <2>1. Open = {}
    BY DEF Open
  <2> QED
    BY <2>1, FS_EmptySet DEF Account
<1>4. SkippedOnlyAfterFailures /\ ReportIsComplete /\ Served
  BY DEF SkippedOnlyAfterFailures, ReportIsComplete, Served, Open
<1> QED
  BY <1>1, <1>2, <1>3, <1>4 DEF Inv

\* The workers are finitely many, and so are those with a socket.
LEMMA OpenIsFinite ==
  /\ IsFiniteSet(Workers) /\ Cardinality(Workers) = workerPoolSize
  /\ IsFiniteSet(Open) /\ Cardinality(Open) \in Nat /\ Cardinality(Open) <= workerPoolSize
<1>1. IsFiniteSet(Workers) /\ Cardinality(Workers) = workerPoolSize
  BY ClientAssumption, FS_Interval DEF Workers
<1>2. Open \in SUBSET Workers
  BY DEF Open
<1>3. IsFiniteSet(Open) /\ Cardinality(Open) <= Cardinality(Workers)
  BY <1>1, <1>2, FS_Subset
<1> QED
  BY <1>1, <1>3, FS_CardinalityType

\* The steps of a worker that touch no descriptor and no counter.
AtBarrier(w) == WorkerLocks(w) \/ WaitAtBarrier(w) \/ WorkerWakes(w) \/ SpuriousWakeup(w)

\* Types.
LEMMA TypeStep == Inv /\ [Next]_vars => TypeOK'
<1> SUFFICES ASSUME Inv, [Next]_vars PROVE TypeOK'
  OBVIOUS
<1> USE ClientAssumption DEF barrier, counters, sockets
<1>1. ready' \in BOOLEAN
  <2>1. ready \in BOOLEAN
    BY DEF Inv, TypeOK
  <2>2. ready' = ready \/ ready' = TRUE
    BY Zenon DEF Next, MainThread, CreateWorker, SetReady, Broadcast, Join, Report,
       CreateFails, WorkerLocks, WaitAtBarrier, WorkerSleeps, PassBarrier, WorkerWakes,
       SpuriousWakeup, MakeRequests, TakeRequest, OpenSocket, NoSocket, ConnectFails,
       SendRequest, ReadPiece, EndOfPage, WorkerExits, Stopped, vars
  <2> QED
    BY <2>1, <2>2, Zenon
<1>2. Workers = 1 .. workerPoolSize /\ TypeOK
  BY DEF Workers, Inv
<1>15. /\ fds \in 0 .. MaxFds /\ skipped \in Nat /\ failed \in Nat
       /\ MaxFds \in Nat /\ Requests \in Nat
  BY DEF TypeOK, Inv
<1>16. /\ numberRequests \in [Workers -> 0 .. Requests]
       /\ successes \in [Workers -> 0 .. Requests]
       /\ pieces \in [Workers -> 0 .. MaxPieces]
       /\ bytesRead \in [Workers -> Nat]
  BY DEF TypeOK, Inv
<1> USE <1>1, <1>2 DEF At, WorkerGoto
<1>3. CASE CreateWorker
  <2>1. i' \in 0 .. workerPoolSize + 1 /\ i + 1 \in Workers
    BY <1>3 DEF CreateWorker, Started, TypeOK, Inv
  <2>2. worker' \in [Workers -> {"none", "lock", "test", "wait", "loop", "connect",
                                 "read", "exited"}]
    BY <1>3, <2>1 DEF CreateWorker, TypeOK
  <2> QED
    BY <1>3, <2>1, <2>2 DEF CreateWorker, TypeOK
<1>4. CASE CreateFails \/ SetReady
  BY <1>4 DEF CreateFails, SetReady, TypeOK
<1>5. CASE Broadcast
  <2>1. i' \in 0 .. workerPoolSize + 1 /\ c_start' = {}
    BY <1>5 DEF Broadcast, BroadcastStart
  <2> QED
    BY <1>5, <2>1 DEF Broadcast, TypeOK
<1>6. CASE Join
  <2>1. i' \in 0 .. workerPoolSize + 1
    BY <1>6 DEF Join, TypeOK
  <2> QED
    BY <1>6, <2>1 DEF Join, TypeOK
<1>7. CASE Report
  BY <1>7 DEF Report, TypeOK
<1>8. ASSUME NEW w \in Workers, AtBarrier(w) PROVE TypeOK'
  BY <1>8 DEF AtBarrier, WorkerLocks, WaitAtBarrier, WorkerSleeps, PassBarrier,
              WorkerWakes, SpuriousWakeup, TypeOK
<1>9. ASSUME NEW w \in Workers, OpenSocket(w) \/ NoSocket(w) PROVE TypeOK'
  <2>1. numberRequests' \in [Workers -> 0 .. Requests]
    <3>1. numberRequests[w] \in 1 .. Requests
      BY <1>9, <1>16 DEF OpenSocket, NoSocket, TakeRequest, MoreRequests
    <3>2. numberRequests' = [numberRequests EXCEPT ![w] = @ - 1]
      BY <1>9 DEF OpenSocket, NoSocket, TakeRequest
    <3>3. numberRequests[w] - 1 \in 0 .. Requests
      BY <1>15, <3>1
    <3> QED
      BY <1>16, <3>2, <3>3
  <2>2. fds' \in 0 .. MaxFds /\ skipped' \in Nat
    <3>1. \/ fds < MaxFds /\ fds' = fds + 1 /\ skipped' = skipped
          \/ fds' = fds /\ skipped' = skipped + 1
      BY <1>9 DEF OpenSocket, NoSocket
    <3> QED
      BY <1>15, <3>1
  <2> QED
    BY <1>9, <2>1, <2>2 DEF OpenSocket, NoSocket, TakeRequest, TypeOK
<1>10. ASSUME NEW w \in Workers, ConnectFails(w) PROVE TypeOK'
  <2>1. failed' \in Nat
    BY <1>10, <1>15 DEF ConnectFails
  <2> QED
    BY <1>10, <2>1 DEF ConnectFails, TypeOK
<1>11. ASSUME NEW w \in Workers, SendRequest(w) \/ WorkerExits(w) PROVE TypeOK'
  <2>1. pieces' \in [Workers -> 0 .. MaxPieces]
    <3>1. 0 \in 0 .. MaxPieces
      BY ClientAssumption
    <3>2. pieces' = [pieces EXCEPT ![w] = 0] \/ pieces' = pieces
      BY <1>11 DEF SendRequest, WorkerExits
    <3> QED
      BY <1>16, <3>1, <3>2
  <2> QED
    BY <1>11, <2>1 DEF SendRequest, WorkerExits, TypeOK
<1>12. ASSUME NEW w \in Workers, ReadPiece(w) PROVE TypeOK'
  <2>1. pieces' \in [Workers -> 0 .. MaxPieces] /\ bytesRead' \in [Workers -> Nat]
    <3>1. pieces[w] + 1 \in 0 .. MaxPieces /\ bytesRead[w] + 1 \in Nat
      <4>1. pieces[w] < MaxPieces
        BY <1>12 DEF ReadPiece
      <4>2. MaxPieces \in Nat /\ pieces[w] \in 0 .. MaxPieces /\ bytesRead[w] \in Nat
        BY <1>16, ClientAssumption
      <4> QED
        BY <4>1, <4>2
    <3>2. /\ pieces' = [pieces EXCEPT ![w] = @ + 1]
          /\ bytesRead' = [bytesRead EXCEPT ![w] = @ + 1]
      BY <1>12 DEF ReadPiece
    <3> QED
      BY <1>16, <3>1, <3>2
  <2> QED
    BY <1>12, <2>1 DEF ReadPiece, TypeOK
<1>13. ASSUME NEW w \in Workers, NEW success \in 0 .. 1, EndOfPage(w, success)
       PROVE  TypeOK'
  <2>1. successes' \in [Workers -> 0 .. Requests]
    <3>1. successes[w] + numberRequests[w] < Requests
      BY <1>13 DEF EndOfPage, Inv, Served, Open
    <3>2. successes[w] + success \in 0 .. Requests
      <4>1. successes[w] \in Nat /\ numberRequests[w] \in Nat /\ Requests \in Nat
        BY <1>15, <1>16
      <4> QED
        BY <3>1, <4>1
    <3>3. successes' = [successes EXCEPT ![w] = @ + success]
      BY <1>13 DEF EndOfPage
    <3> QED
      BY <1>16, <3>2, <3>3
  <2>2. fds' \in 0 .. MaxFds
    <3>1. w \in Open
      BY <1>13 DEF EndOfPage, Open
    <3>2. Cardinality(Open) # 0
      BY <3>1, OpenIsFinite, FS_EmptySet
    <3>3. fds' = fds - 1 /\ fds = failed + Cardinality(Open)
      BY <1>13 DEF EndOfPage, CloseSocket, Inv, Account
    <3>4. Cardinality(Open) \in Nat
      BY OpenIsFinite
    <3> QED
      BY <1>15, <3>2, <3>3, <3>4
  <2> QED
    BY <1>13, <2>1, <2>2 DEF EndOfPage, TypeOK
<1>14. CASE UNCHANGED vars
  BY <1>14 DEF vars, TypeOK
<1> QED
  BY <1>3, <1>4, <1>5, <1>6, <1>7, <1>8, <1>9, <1>10, <1>11, <1>12, <1>13, <1>14
  DEF Next, MainThread, AtBarrier, MakeRequests, Stopped

\* The main thread's program, and that no worker runs ahead of it.
LEMMA StartedStep == Inv /\ [Next]_vars => Started'
<1> SUFFICES ASSUME Inv, [Next]_vars PROVE Started'
  OBVIOUS
<1>1. /\ Started /\ i \in 0 .. workerPoolSize + 1 /\ Workers = 1 .. workerPoolSize
      /\ worker \in [Workers -> {"none", "lock", "test", "wait", "loop", "connect",
                                 "read", "exited"}]
  BY DEF Inv, TypeOK, Workers
<1> USE <1>1, ClientAssumption DEF Started, Past, At, WorkerGoto, barrier, counters, sockets
<1>2. CASE CreateWorker
  BY <1>2 DEF CreateWorker
<1>3. CASE CreateFails \/ SetReady \/ Broadcast \/ Join \/ Report
  <2>1. CASE CreateFails
    BY <2>1 DEF CreateFails
  <2>2. CASE SetReady
    BY <2>2 DEF SetReady
  <2>3. CASE Broadcast \/ Join
    BY <2>3 DEF Broadcast, Join
  <2>4. CASE Report
    BY <2>4 DEF Report
  <2> QED
    BY <1>3, <2>1, <2>2, <2>3, <2>4
<1>4. ASSUME NEW w \in Workers,
             WorkerLocks(w) \/ WorkerSleeps(w) \/ WorkerWakes(w) \/ SpuriousWakeup(w)
      PROVE  Started'
  BY <1>4 DEF WorkerLocks, WorkerSleeps, WorkerWakes, SpuriousWakeup
<1>5. ASSUME NEW w \in Workers, PassBarrier(w) PROVE Started'
  BY <1>5 DEF PassBarrier
<1>6. ASSUME NEW w \in Workers, MakeRequests(w) PROVE Started'
  <2>1. \E to \in {"loop", "connect", "read", "exited"} :
           worker' = [worker EXCEPT ![w] = to]
    BY <1>6, Zenon DEF MakeRequests, OpenSocket, NoSocket, TakeRequest, ConnectFails,
                SendRequest, ReadPiece, EndOfPage, WorkerExits
  <2>2. UNCHANGED <<main, i, ready>> /\ Past(w)
    BY <1>6 DEF MakeRequests, OpenSocket, NoSocket, TakeRequest, ConnectFails,
                SendRequest, ReadPiece, EndOfPage, WorkerExits
  <2> QED
    BY <2>1, <2>2
<1>7. CASE UNCHANGED vars
  BY <1>7 DEF vars
<1> QED
  BY <1>2, <1>3, <1>4, <1>5, <1>6, <1>7 DEF Next, MainThread, WaitAtBarrier, Stopped

\* A worker that leaves worker[w] as it was neither opens nor closes a socket.
LEMMA OpenUnchanged ==
  (\A w \in Workers : worker'[w] \in {"connect", "read"} <=> worker[w] \in {"connect", "read"})
    => Open' = Open
BY DEF Open

\* Who opens a socket is counted, who closes one or fails no longer is.
LEMMA AccountStep == Inv /\ [Next]_vars => Account' /\ SkippedOnlyAfterFailures'
<1> SUFFICES ASSUME Inv, [Next]_vars PROVE Account' /\ SkippedOnlyAfterFailures'
  OBVIOUS
<1>1. /\ worker \in [Workers -> {"none", "lock", "test", "wait", "loop", "connect",
                                 "read", "exited"}]
      /\ fds \in Nat /\ failed \in Nat /\ skipped \in Nat /\ MaxFds \in Nat
      /\ Workers = 1 .. workerPoolSize /\ workerPoolSize \in Nat
      /\ fds = failed + Cardinality(Open)
      /\ skipped > 0 => failed > MaxFds - workerPoolSize
  BY ClientAssumption
  DEF Inv, TypeOK, Workers, Account, SkippedOnlyAfterFailures
<1>2. /\ IsFiniteSet(Open) /\ Cardinality(Open) \in Nat
      /\ IsFiniteSet(Workers) /\ Cardinality(Workers) = workerPoolSize
  BY OpenIsFinite
<1> USE DEF At, WorkerGoto, barrier, counters, sockets
<1>3. CASE Open' = Open /\ UNCHANGED <<fds, failed, skipped>>
  BY <1>1, <1>3 DEF Account, SkippedOnlyAfterFailures
<1>4. CASE CreateWorker
  <2>1. worker[i + 1] = "none"
    BY <1>1, <1>4 DEF CreateWorker, Inv, Started, TypeOK
  <2>2. Open' = Open
    BY <1>1, <1>4, <2>1, OpenUnchanged DEF CreateWorker
  <2> QED
    BY <1>3, <1>4, <2>2 DEF CreateWorker
<1>5. CASE CreateFails \/ SetReady \/ Broadcast \/ Join \/ Report
  <2>1. UNCHANGED <<worker, fds, failed, skipped>>
    BY <1>5 DEF CreateFails, SetReady, Broadcast, Join, Report
  <2> QED
    BY <1>3, <2>1 DEF Open
<1>6. ASSUME NEW w \in Workers, AtBarrier(w)
      PROVE  Account' /\ SkippedOnlyAfterFailures'
  <2>1. UNCHANGED <<fds, failed, skipped>>
    BY <1>6 DEF AtBarrier, WorkerLocks, WaitAtBarrier, WorkerSleeps, PassBarrier,
                WorkerWakes, SpuriousWakeup
  <2>2. \/ worker' = worker
        \/ /\ worker[w] \notin {"connect", "read"}
           /\ \E to \in {"test", "wait", "loop"} : worker' = [worker EXCEPT ![w] = to]
    BY <1>6, Zenon DEF AtBarrier, WorkerLocks, WaitAtBarrier, WorkerSleeps, PassBarrier,
                WorkerWakes, SpuriousWakeup
  <2>3. Open' = Open
    BY <1>1, <2>2, OpenUnchanged
  <2> QED
    BY <1>3, <2>1, <2>3
<1>7. ASSUME NEW w \in Workers, OpenSocket(w)
      PROVE  Account' /\ SkippedOnlyAfterFailures'
  <2>1. w \notin Open /\ Open' = Open \cup {w}
    BY <1>1, <1>7 DEF OpenSocket, Open
  <2>2. Cardinality(Open') = Cardinality(Open) + 1
    BY <1>2, <2>1, FS_AddElement
  <2>3. fds' = fds + 1 /\ UNCHANGED <<failed, skipped>>
    BY <1>7 DEF OpenSocket, TakeRequest
  <2> QED
    BY <1>1, <1>2, <2>2, <2>3 DEF Account, SkippedOnlyAfterFailures
<1>8. ASSUME NEW w \in Workers, NoSocket(w)
      PROVE  Account' /\ SkippedOnlyAfterFailures'
  <2>1. w \notin Open /\ Open' = Open
    BY <1>1, <1>8 DEF NoSocket, Open
  <2>2. Open \subseteq Workers \ {w}
    BY <2>1 DEF Open
  <2>3. Cardinality(Workers \ {w}) = workerPoolSize - 1
    BY <1>2, FS_RemoveElement
  <2>4. Cardinality(Open) <= workerPoolSize - 1
    BY <1>2, <2>2, <2>3, FS_Subset, FS_RemoveElement
  <2>5. fds = MaxFds /\ UNCHANGED <<fds, failed>>
    BY <1>8 DEF NoSocket, TakeRequest
  <2> QED
    BY <1>1, <1>2, <2>1, <2>4, <2>5 DEF Account, SkippedOnlyAfterFailures
<1>9. ASSUME NEW w \in Workers, NEW success \in 0 .. 1,
             ConnectFails(w) \/ EndOfPage(w, success)
      PROVE  Account' /\ SkippedOnlyAfterFailures'
  <2>1. w \in Open /\ Open' = Open \ {w}
    BY <1>1, <1>9 DEF ConnectFails, EndOfPage, Open
  <2>2. Cardinality(Open') = Cardinality(Open) - 1
    BY <1>2, <2>1, FS_RemoveElement
  <2>3. /\ \/ fds' = fds /\ failed' = failed + 1
           \/ fds' = fds - 1 /\ failed' = failed
        /\ skipped' = skipped
    BY <1>9 DEF ConnectFails, EndOfPage, CloseSocket
  <2> QED
    BY <1>1, <1>2, <2>2, <2>3 DEF Account, SkippedOnlyAfterFailures
<1>10. ASSUME NEW w \in Workers, SendRequest(w) \/ ReadPiece(w) \/ WorkerExits(w)
       PROVE  Account' /\ SkippedOnlyAfterFailures'
  <2>1. Open' = Open
    BY <1>1, <1>10, OpenUnchanged DEF SendRequest, ReadPiece, WorkerExits
  <2>2. UNCHANGED <<fds, failed, skipped>>
    BY <1>10 DEF SendRequest, ReadPiece, WorkerExits
  <2> QED
    BY <1>3, <2>1, <2>2
<1>11. CASE UNCHANGED vars
  <2>1. UNCHANGED <<worker, fds, failed, skipped>>
    BY <1>11 DEF vars
  <2> QED
    BY <1>3, <2>1 DEF Open
<1>12. ASSUME NEW w \in Workers, MakeRequests(w)
       PROVE  Account' /\ SkippedOnlyAfterFailures'
  BY <1>7, <1>8, <1>9, <1>10, <1>12 DEF MakeRequests
<1> QED
  BY <1>4, <1>5, <1>6, <1>11, <1>12 DEF Next, MainThread, AtBarrier, Stopped

\* A request in progress is not yet among the successes.
LEMMA ServedStep == Inv /\ [Next]_vars => Served'
<1> SUFFICES ASSUME Inv, [Next]_vars PROVE Served'
  OBVIOUS
<1>1. /\ worker \in [Workers -> {"none", "lock", "test", "wait", "loop", "connect",
                                 "read", "exited"}]
      /\ numberRequests \in [Workers -> 0 .. Requests]
      /\ successes \in [Workers -> 0 .. Requests]
      /\ Requests \in Nat /\ Served
  BY ClientAssumption DEF Inv, TypeOK
<1> USE DEF At, WorkerGoto, barrier, counters, sockets
<1>2. CASE Open' \subseteq Open /\ UNCHANGED <<numberRequests, successes>>
  BY <1>1, <1>2 DEF Served
<1>3. CASE MainThread \/ CreateFails \/ UNCHANGED vars
  <2>1. UNCHANGED <<numberRequests, successes>>
    BY <1>3 DEF MainThread, CreateWorker, CreateFails, SetReady, Broadcast, Join, Report, vars
  <2>2. worker' = worker \/ worker' = [worker EXCEPT ![i + 1] = "lock"]
    BY <1>3 DEF MainThread, CreateWorker, CreateFails, SetReady, Broadcast, Join, Report, vars
  <2>3. Open' \subseteq Open
    BY <1>1, <2>2 DEF Open
  <2> QED
    BY <1>2, <2>1, <2>3
<1>4. ASSUME NEW w \in Workers,
             AtBarrier(w) \/ ConnectFails(w) \/ SendRequest(w) \/ ReadPiece(w) \/ WorkerExits(w)
      PROVE  Served'
  <2>1. UNCHANGED <<numberRequests, successes>>
    BY <1>4 DEF AtBarrier, WorkerLocks, WaitAtBarrier, WorkerSleeps, PassBarrier,
                WorkerWakes, SpuriousWakeup, ConnectFails, SendRequest, ReadPiece, WorkerExits
  <2>2. \/ worker' = worker
        \/ \E to \in {"test", "wait", "loop", "exited"} : worker' = [worker EXCEPT ![w] = to]
        \/ w \in Open /\ worker' = [worker EXCEPT ![w] = "read"]
    BY <1>4, Zenon
    DEF AtBarrier, WorkerLocks, WaitAtBarrier, WorkerSleeps, PassBarrier, WorkerWakes,
        SpuriousWakeup, ConnectFails, SendRequest, ReadPiece, WorkerExits, Open
  <2>3. Open' \subseteq Open
    BY <1>1, <2>2 DEF Open
  <2> QED
    BY <1>2, <2>1, <2>3
<1>5. ASSUME NEW w \in Workers, OpenSocket(w) \/ NoSocket(w) PROVE Served'
  <2>1. /\ numberRequests' = [numberRequests EXCEPT ![w] = @ - 1]
        /\ successes' = successes
    BY <1>5 DEF OpenSocket, NoSocket, TakeRequest
  <2>2. Open' \subseteq Open \cup {w}
    BY <1>1, <1>5 DEF OpenSocket, NoSocket, Open
  <2>3. successes[w] + numberRequests[w] - 1 < Requests
    BY <1>1 DEF Served
  <2> QED
    BY <1>1, <2>1, <2>2, <2>3 DEF Served
<1>6. ASSUME NEW w \in Workers, NEW success \in 0 .. 1, EndOfPage(w, success)
      PROVE  Served'
  <2>1. /\ successes' = [successes EXCEPT ![w] = @ + success]
        /\ numberRequests' = numberRequests
    BY <1>6 DEF EndOfPage
  <2>2. w \in Open /\ Open' = Open \ {w}
    BY <1>1, <1>6 DEF EndOfPage, Open
  <2> QED
    BY <1>1, <2>1, <2>2 DEF Served
<1> QED
  BY <1>3, <1>4, <1>5, <1>6 DEF Next, AtBarrier, MakeRequests, Stopped

\* Whoever was joined stays as it was, and nothing is read after the report.
LEMMA JoinedStep == Inv /\ [Next]_vars => Joined' /\ ReportIsComplete'
<1> SUFFICES ASSUME Inv, [Next]_vars PROVE Joined' /\ ReportIsComplete'
  OBVIOUS
<1>1. /\ worker \in [Workers -> {"none", "lock", "test", "wait", "loop", "connect",
                                 "read", "exited"}]
      /\ i \in 0 .. workerPoolSize + 1 /\ Workers = 1 .. workerPoolSize
      /\ Joined /\ ReportIsComplete
  BY DEF Inv, TypeOK, Workers
<1> USE <1>1, ClientAssumption DEF At, WorkerGoto, Joined, barrier, counters, sockets
<1>2. CASE MainThread \/ CreateFails
  <2>1. CASE CreateWorker \/ CreateFails \/ SetReady \/ Broadcast \/ Join
    <3>1. Joined'
      <4>1. CASE CreateWorker
        BY <4>1 DEF CreateWorker
      <4>2. CASE CreateFails \/ SetReady
        BY <4>2 DEF CreateFails, SetReady
      <4>3. CASE Broadcast
        BY <4>3 DEF Broadcast
      <4>4. CASE Join
        BY <4>4 DEF Join
      <4> QED
        BY <2>1, <4>1, <4>2, <4>3, <4>4
    <3>2. UNCHANGED <<total, bytesRead>>
      BY <2>1 DEF CreateWorker, CreateFails, SetReady, Broadcast, Join
    <3> QED
      BY <3>1, <3>2, Zenon DEF ReportIsComplete, BytesRead
  <2>2. CASE Report
    <3>1. Joined'
      BY <2>2 DEF Report, AllJoined
    <3>2. total' = BytesRead /\ bytesRead' = bytesRead
      BY <2>2 DEF Report
    <3> QED
      BY <3>1, <3>2, Zenon DEF ReportIsComplete, BytesRead
  <2> QED
    BY <1>2, <2>1, <2>2 DEF MainThread
<1>3. ASSUME NEW w \in Workers, AtBarrier(w) \/ MakeRequests(w)
      PROVE  Joined' /\ ReportIsComplete'
  <2>1. /\ UNCHANGED <<main, i, total>>
        /\ \/ worker' = worker
           \/ worker[w] # "exited" /\ \E to : worker' = [worker EXCEPT ![w] = to]
    BY <1>3, Zenon
    DEF AtBarrier, WorkerLocks, WaitAtBarrier, WorkerSleeps, PassBarrier, WorkerWakes,
        SpuriousWakeup, MakeRequests, TakeRequest, OpenSocket, NoSocket, ConnectFails,
        SendRequest, ReadPiece, EndOfPage, WorkerExits
  <2>2. Joined'
    BY <2>1
  <2>3. total = -1 \/ bytesRead' = bytesRead
    <3>1. ReadPiece(w) => worker[w] = "read"
      BY DEF ReadPiece
    <3>2. ReadPiece(w) \/ bytesRead' = bytesRead
      BY <1>3, Zenon
      DEF AtBarrier, WorkerLocks, WaitAtBarrier, WorkerSleeps, PassBarrier, WorkerWakes,
          SpuriousWakeup, MakeRequests, TakeRequest, OpenSocket, NoSocket, ConnectFails,
          SendRequest, EndOfPage, WorkerExits
    <3> QED
      BY <3>1, <3>2
  <2> QED
    BY <2>1, <2>2, <2>3, Zenon DEF ReportIsComplete, BytesRead
<1>4. CASE UNCHANGED vars
  <2>1. UNCHANGED <<main, i, worker, total, bytesRead>>
    BY <1>4 DEF vars
  <2>2. Joined'
    BY <2>1
  <2> QED
    BY <2>1, <2>2, Zenon DEF ReportIsComplete, BytesRead
<1> QED
  BY <1>2, <1>3, <1>4 DEF Next, AtBarrier, Stopped

\* All parts together.
LEMMA InvHolds == Spec => []Inv
<1>1. Inv /\ [Next]_vars => Inv'
  BY TypeStep, StartedStep, AccountStep, ServedStep, JoinedStep DEF Inv
<1> QED
  BY InitInv, <1>1, PTL DEF Spec

-----------------------------------------------------------------------------

\* The types of all variables.
THEOREM ClientTypes == Spec => []TypeOK
<1>1. Inv => TypeOK
  BY DEF Inv
<1> QED
  BY <1>1, InvHolds, PTL

\* No worker makes its first request before all exist and ready is set.
THEOREM WorkersStartTogether == Spec => []StartTogether
<1>1. Inv => StartTogether
  <2> SUFFICES ASSUME Inv, NEW w \in Workers, Past(w)
               PROVE  ready /\ \A other \in Workers : worker[other] # "none"
    BY DEF StartTogether, Past
  <2>1. ready
    BY DEF Inv, Started
  <2> QED
    BY <2>1 DEF Inv, Started
<1> QED
  BY <1>1, InvHolds, PTL

\* Descriptors are short only when failed connects have taken them.
THEOREM DescriptorsLostByFailures == Spec => []SkippedOnlyAfterFailures
<1>1. Inv => SkippedOnlyAfterFailures
  BY DEF Inv
<1> QED
  BY <1>1, InvHolds, PTL

\* The reported sum counts all that was ever read.
THEOREM ReportCountsAll == Spec => []ReportIsComplete
<1>1. Inv => ReportIsComplete
  BY DEF Inv
<1> QED
  BY <1>1, InvHolds, PTL

-----------------------------------------------------------------------------
(* The file to ask for.                                                    *)

\* Of a division: its quotient.
LEMMA Quotient ==
  ASSUME NEW x \in Nat, NEW d \in Nat, d > 0
  PROVE  /\ x \div d \in Nat
         /\ d * (x \div d) <= x
         /\ x < d * (x \div d) + d
BY SMT

\* A smaller factor makes a smaller product.
LEMMA SmallerFactor ==
  ASSUME NEW d \in Nat, NEW q \in Nat, NEW n \in Nat, d * q < d * n
  PROVE  q < n
<1> SUFFICES ASSUME q >= n PROVE FALSE
  OBVIOUS
<1>1. PICK e \in Nat : q = n + e
  <2>1. q - n \in Nat /\ q = n + (q - n)
    OBVIOUS
  <2> QED
    BY <2>1
<1>2. d * q = d * n + d * e
  BY SMT, <1>1
<1>3. d * e \in Nat /\ d * n \in Nat
  BY SMT
<1> QED
  BY SMT, <1>2, <1>3

\* client.c: whatever rand() returns, the file that is asked for is one of
\* numFiles, for any number of files; and every one of them can be, as long as
\* there are not too many for the generator.
THEOREM FileIsInRange ==
  ASSUME NEW max \in Nat, NEW numFiles \in Nat \ {0}
  PROVE  /\ \A r \in 0 .. max : FileIndex(r, max, numFiles) \in 0 .. numFiles - 1
         /\ numFiles - 1 <= max \div numFiles =>
              \A k \in 0 .. numFiles - 1 : \E r \in 0 .. max : FileIndex(r, max, numFiles) = k
<1> DEFINE part == max \div numFiles
           size == part + 1
<1>1. part \in Nat /\ numFiles * part <= max /\ max < numFiles * part + numFiles /\ numFiles \in Nat
  BY SMT, Quotient
<1>2. size \in Nat /\ size > 0 /\ size = part + 1
  BY <1>1
<1>3. \A r : FileIndex(r, max, numFiles) = r \div size
  BY DEF FileIndex
<1> HIDE DEF size
<1>4. size * numFiles = numFiles * part + numFiles
  BY SMT, <1>1, <1>2
<1>5. ASSUME NEW r \in 0 .. max PROVE FileIndex(r, max, numFiles) \in 0 .. numFiles - 1
  <2> DEFINE k == r \div size
  <2>1. k \in Nat /\ size * k <= r /\ r \in Nat /\ r <= max
    BY SMT, <1>2, Quotient
  <2> HIDE DEF k
  <2>2. size * k \in Nat /\ size * numFiles \in Nat
    BY SMT, <1>1, <1>2, <2>1
  <2>3. size * k < size * numFiles
    BY <1>1, <1>4, <2>1, <2>2
  <2>4. k < numFiles
    BY <1>1, <1>2, <2>1, <2>3, SmallerFactor
  <2> QED
    BY <1>1, <1>3, <2>1, <2>4 DEF k
<1>6. ASSUME numFiles - 1 <= part, NEW k \in 0 .. numFiles - 1
      PROVE  \E r \in 0 .. max : FileIndex(r, max, numFiles) = k
  <2> DEFINE r == size * k
  <2>1. k \in Nat /\ k <= part /\ k + 1 <= numFiles
    BY <1>1, <1>6
  <2>2. r \in Nat /\ r = part * k + k
    BY SMT, <1>1, <1>2, <2>1
  <2>3. part * k + part <= numFiles * part
    <3>1. PICK e \in Nat : numFiles = (k + 1) + e
      <4>1. numFiles - (k + 1) \in Nat /\ numFiles = (k + 1) + (numFiles - (k + 1))
        BY <1>1, <2>1
      <4> QED
        BY <4>1
    <3>2. numFiles * part = (part * k + part) + e * part /\ e * part \in Nat /\ part * k \in Nat
      BY SMT, <1>1, <2>1, <3>1
    <3> QED
      BY SMT, <1>1, <3>2
  <2>4. r <= max
    <3>1. part * k \in Nat /\ numFiles * part \in Nat
      BY SMT, <1>1, <2>1
    <3> QED
      BY SMT, <1>1, <2>1, <2>2, <2>3, <3>1
  <2>5. r \div size = k
    <3> DEFINE q == r \div size
    <3>1. q \in Nat /\ size * q <= r /\ r < size * q + size
      <4> HIDE DEF r
      <4> QED
        BY SMT, <1>2, <2>2, Quotient
    <3> HIDE DEF q
    <3>2. size * q <= size * k /\ size * k < size * (q + 1)
      BY SMT, <1>2, <2>1, <3>1
    <3>3. q < k + 1 /\ k < q + 1
      <4>1. size * q < size * (k + 1)
        <5>1. size * (k + 1) = size * k + size /\ size * k \in Nat /\ size * q \in Nat
          BY SMT, <1>2, <2>1, <3>1
        <5> QED
          BY SMT, <1>2, <3>2, <5>1
      <4>2. k + 1 \in Nat /\ q + 1 \in Nat
        BY <2>1, <3>1
      <4> QED
        BY <1>2, <2>1, <3>1, <3>2, <4>1, <4>2, SmallerFactor
    <3> QED
      BY <2>1, <3>1, <3>3 DEF q
  <2> HIDE DEF r
  <2> QED
    BY <1>3, <2>2, <2>4, <2>5
<1> QED
  BY <1>5, <1>6

=============================================================================
