--------------------------- MODULE ClientWorkers ---------------------------
(***************************************************************************)
(* The test client, client.c: the main thread creates workers, opens a     *)
(* start barrier (ready, m_ready, c_start) and joins them; each worker     *)
(* makes its requests one after another and counts the bytes it reads,     *)
(* which the main thread adds up.                                          *)
(*                                                                         *)
(* The server, or the proxy, is whatever connect and read find: connect    *)
(* fails or not, and a read brings a piece of a page, its end, or nothing  *)
(* for three seconds.  Sockets come out of the process's descriptors.      *)
(***************************************************************************)
EXTENDS Integers, FiniteSets, Functions

CONSTANTS workerPoolSize,  \* -w
          Requests,        \* -r, for each worker
          MaxFds,          \* descriptors the process has for sockets
          MaxPieces,       \* pieces of a page (a bound for TLC)
          NoThread         \* m_ready is not held

ASSUME ClientAssumption ==
  /\ workerPoolSize \in Nat \ {0}
  /\ Requests \in Nat \ {0}
  /\ MaxFds \in Nat
  /\ MaxPieces \in Nat
  /\ NoThread \notin Int

Workers == 1 .. workerPoolSize

VARIABLES main,      \* where the main thread is in client.c
          i,         \* the loop variable of initialize and run
          ready,
          m_ready,   \* the worker that holds the mutex
          c_start,   \* the workers asleep on the condition variable
          worker,    \* where each worker is in ml_client_work
          numberRequests, \* the fields of workerArgs
          successes,
          bytesRead,
          pieces,    \* read of the present page
          fds,       \* descriptors in use
          failed,    \* how often connect failed
          skipped,   \* requests for which socket failed
          total      \* the sum that is reported; -1 before

vars == <<main, i, ready, m_ready, c_start, worker, numberRequests, successes,
          bytesRead, pieces, fds, failed, skipped, total>>

barrier == <<ready, m_ready, c_start>>
counters == <<numberRequests, successes, bytesRead, pieces>>
sockets == <<fds, failed, skipped>>

Init ==
  /\ main = "create"
  /\ i = 0
  /\ ready = FALSE
  /\ m_ready = NoThread
  /\ c_start = {}
  /\ worker = [w \in Workers |-> "none"]
  /\ numberRequests = [w \in Workers |-> Requests]
  /\ successes = [w \in Workers |-> 0]
  /\ bytesRead = [w \in Workers |-> 0]
  /\ pieces = [w \in Workers |-> 0]
  /\ fds = 0
  /\ failed = 0
  /\ skipped = 0
  /\ total = -1

\* A failed initialize returns from main, which ends the process.
Exited == main = "failed"

-----------------------------------------------------------------------------
(* The main thread.                                                        *)

At(from, to) == main = from /\ main' = to

CreateWorker ==
  /\ main = "create"
  /\ i' = i + 1
  /\ worker' = [worker EXCEPT ![i + 1] = "lock"]
  /\ IF i + 1 = workerPoolSize THEN main' = "lock" ELSE main' = "create"
  /\ UNCHANGED <<barrier, counters, sockets, total>>

CreateFails ==
  /\ At("create", "failed")
  /\ UNCHANGED <<i, barrier, worker, counters, sockets, total>>

\* run: ready is set under the mutex, announced after it.
SetReady ==
  /\ At("lock", "broadcast")
  /\ m_ready = NoThread
  /\ ready' = TRUE
  /\ UNCHANGED <<i, m_ready, c_start, worker, counters, sockets, total>>

\* SignalStart wakes one worker only.
SignalStart == IF c_start = {} THEN c_start' = {}
               ELSE \E w \in c_start : c_start' = c_start \ {w}
BroadcastStart == c_start' = {}

Broadcast ==
  /\ At("broadcast", "join")
  /\ BroadcastStart
  /\ i' = 1
  /\ UNCHANGED <<ready, m_ready, worker, counters, sockets, total>>

Join ==
  /\ main = "join"
  /\ i <= workerPoolSize
  /\ worker[i] = "exited"
  /\ i' = i + 1
  /\ UNCHANGED <<main, barrier, worker, counters, sockets, total>>

\* The sum over workerArgs, when the loop of joins has ended.
BytesRead == SumFunction(bytesRead)

JoinedButLast == i = workerPoolSize
AllJoined == i = workerPoolSize + 1

Report ==
  /\ At("join", "exited")
  /\ AllJoined
  /\ total' = BytesRead
  /\ UNCHANGED <<i, barrier, worker, counters, sockets>>

-----------------------------------------------------------------------------
(* A worker at the barrier.                                                *)

WorkerGoto(w, from, to) ==
  /\ ~Exited
  /\ worker[w] = from
  /\ worker' = [worker EXCEPT ![w] = to]

WorkerLocks(w) ==
  /\ WorkerGoto(w, "lock", "test")
  /\ m_ready = NoThread
  /\ m_ready' = w
  /\ UNCHANGED <<main, i, ready, c_start, counters, sockets, total>>

WorkerSleeps(w) ==
  /\ WorkerGoto(w, "test", "wait")
  /\ ~ready
  /\ c_start' = c_start \cup {w}
  /\ m_ready' = NoThread
  /\ UNCHANGED <<main, i, ready, counters, sockets, total>>

\* WakesPast takes the end of pthread_cond_wait for the signal ("if" for "while").
WakesPast(w) ==
  /\ WorkerGoto(w, "wait", "loop")
  /\ w \notin c_start
  /\ m_ready = NoThread
  /\ UNCHANGED <<main, i, barrier, counters, sockets, total>>

\* pthread_cond_wait takes the mutex again.
WorkerWakes(w) ==
  /\ WorkerGoto(w, "wait", "test")
  /\ w \notin c_start
  /\ m_ready = NoThread
  /\ m_ready' = w
  /\ UNCHANGED <<main, i, ready, c_start, counters, sockets, total>>

SpuriousWakeup(w) ==
  /\ ~Exited
  /\ w \in c_start
  /\ c_start' = c_start \ {w}
  /\ UNCHANGED <<main, i, ready, m_ready, worker, counters, sockets, total>>

PassBarrier(w) ==
  /\ WorkerGoto(w, "test", "loop")
  /\ ready
  /\ m_ready' = NoThread
  /\ UNCHANGED <<main, i, ready, c_start, counters, sockets, total>>

-----------------------------------------------------------------------------
(* A worker's requests.                                                    *)

MoreRequests(w) == numberRequests[w] > 0

TakeRequest(w) ==
  /\ MoreRequests(w)
  /\ numberRequests' = [numberRequests EXCEPT ![w] = @ - 1]
  /\ UNCHANGED <<main, i, barrier, successes, bytesRead, pieces, failed, total>>

OpenSocket(w) ==
  /\ WorkerGoto(w, "loop", "connect")
  /\ TakeRequest(w)
  /\ fds < MaxFds
  /\ fds' = fds + 1
  /\ UNCHANGED skipped

\* continue: the request is not made.
NoSocket(w) ==
  /\ WorkerGoto(w, "loop", "loop")
  /\ TakeRequest(w)
  /\ fds = MaxFds
  /\ skipped' = skipped + 1
  /\ UNCHANGED fds

\* continue, which passes by close.
ConnectFails(w) ==
  /\ WorkerGoto(w, "connect", "loop")
  /\ failed' = failed + 1
  /\ UNCHANGED <<main, i, barrier, counters, fds, skipped, total>>

\* connect, write, shutdown.
SendRequest(w) ==
  /\ WorkerGoto(w, "connect", "read")
  /\ pieces' = [pieces EXCEPT ![w] = 0]
  /\ UNCHANGED <<main, i, barrier, numberRequests, successes, bytesRead, sockets, total>>

ReadPiece(w) ==
  /\ WorkerGoto(w, "read", "read")
  /\ pieces[w] < MaxPieces
  /\ pieces' = [pieces EXCEPT ![w] = @ + 1]
  /\ bytesRead' = [bytesRead EXCEPT ![w] = @ + 1]
  /\ UNCHANGED <<main, i, barrier, numberRequests, successes, sockets, total>>

\* close; CloseAfterSuccess leaves the socket of a failed read open, too.
CloseAfterSuccess(success) == fds' = fds - success
CloseSocket(success) == fds' = fds - 1

\* The end of the page (read returns 0), a success, or a timeout or error (-1).
EndOfPage(w, success) ==
  /\ WorkerGoto(w, "read", "loop")
  /\ successes' = [successes EXCEPT ![w] = @ + success]
  /\ CloseSocket(success)
  /\ UNCHANGED <<main, i, barrier, numberRequests, bytesRead, pieces, failed,
                 skipped, total>>

WorkerExits(w) ==
  /\ WorkerGoto(w, "loop", "exited")
  /\ numberRequests[w] = 0
  /\ UNCHANGED <<main, i, barrier, counters, sockets, total>>

-----------------------------------------------------------------------------

MainThread == CreateWorker \/ SetReady \/ Broadcast \/ Join \/ Report

WaitAtBarrier(w) == WorkerSleeps(w) \/ PassBarrier(w)

MakeRequests(w) ==
  \/ OpenSocket(w)
  \/ NoSocket(w)
  \/ ConnectFails(w)
  \/ SendRequest(w)
  \/ ReadPiece(w)
  \/ \E success \in 0 .. 1 : EndOfPage(w, success)
  \/ WorkerExits(w)

Stopped == main \in {"failed", "exited"} /\ UNCHANGED vars

Next ==
  \/ MainThread
  \/ CreateFails
  \/ \E w \in Workers :
       \/ WorkerLocks(w)
       \/ WaitAtBarrier(w)
       \/ WorkerWakes(w)
       \/ SpuriousWakeup(w)
       \/ MakeRequests(w)
  \/ Stopped

Spec == Init /\ [][Next]_vars

(***************************************************************************)
(* Every thread keeps running.  A worker leaves the mutex for good once it *)
(* has found ready set, so weak fairness is enough for it; before that,    *)
(* workers that wake without reason may come between, finitely often.  A   *)
(* read ends after three seconds at the latest, and pages are finite.      *)
(***************************************************************************)
Fairness ==
  /\ WF_vars(MainThread)
  /\ \A w \in Workers :
       /\ WF_vars(WorkerLocks(w) \/ WaitAtBarrier(w) \/ WorkerWakes(w))
       /\ WF_vars(MakeRequests(w))
  /\ <>[][\A w \in Workers : ~SpuriousWakeup(w)]_vars

FairSpec == Spec /\ Fairness

-----------------------------------------------------------------------------
(* Properties.                                                             *)

\* Types; total is the subject of ReportIsComplete.
TypeOK ==
  /\ main \in {"create", "lock", "broadcast", "join", "exited", "failed"}
  /\ i \in 0 .. workerPoolSize + 1
  /\ ready \in BOOLEAN
  /\ m_ready \in Workers \cup {NoThread}
  /\ c_start \subseteq Workers
  /\ worker \in [Workers -> {"none", "lock", "test", "wait", "loop", "connect",
                             "read", "exited"}]
  /\ numberRequests \in [Workers -> 0 .. Requests]
  /\ successes \in [Workers -> 0 .. Requests]
  /\ bytesRead \in [Workers -> Nat]
  /\ pieces \in [Workers -> 0 .. MaxPieces]
  /\ fds \in 0 .. MaxFds
  /\ failed \in Nat
  /\ skipped \in Nat

(***************************************************************************)
(* The workers start together: the first request is made when all of them  *)
(* exist and the clock of the measurement runs.                            *)
(***************************************************************************)
StartTogether ==
  \A w \in Workers : worker[w] \in {"loop", "connect", "read", "exited"} =>
    /\ ready
    /\ \A other \in Workers : worker[other] # "none"

(***************************************************************************)
(* A failed connect costs a descriptor for good, and nothing else does: a  *)
(* request is skipped for want of a descriptor only after so many failures *)
(* that fewer descriptors are left than there are workers.                 *)
(***************************************************************************)
SkippedOnlyAfterFailures == skipped > 0 => failed > MaxFds - workerPoolSize

\* What is reported is everything that was read: no worker is still counting.
ReportIsComplete == total # -1 => total = BytesRead

(***************************************************************************)
(* Once all workers are created the client comes to its end, whether they  *)
(* found ready set or slept through the moment it was set, and whatever    *)
(* becomes of their requests.                                              *)
(***************************************************************************)
ClientFinishes == main = "lock" ~> main = "exited"

=============================================================================
