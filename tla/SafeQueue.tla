----------------------------- MODULE SafeQueue -----------------------------
(***************************************************************************)
(* The queue through which the boss thread hands accepted sockets to the   *)
(* workers: safeq.c, the same file in ml_server/src and ml_proxy/src.      *)
(*                                                                         *)
(* A ring buffer protected by the mutex m_qaccess.  ml_safeq_put sleeps on *)
(* c_isSpace while the ring is full and broadcasts c_isItem; ml_safeq_get  *)
(* sleeps on c_isItem while it is empty and signals c_isSpace.             *)
(*                                                                         *)
(* One step is what a thread does between two points where another thread  *)
(* can run: obtaining the mutex, going to sleep in pthread_cond_wait       *)
(* (which releases it in the same step), or moving an item, notifying and  *)
(* unlocking.  The pointers front and back are offsets from array; a       *)
(* thread that sleeps is a member of its condition variable's set.         *)
(***************************************************************************)
EXTENDS Integers, Sequences, FiniteSets

CONSTANTS Producers,         \* threads that call ml_safeq_put
          Consumers,         \* threads that call ml_safeq_get
          Items,             \* the socket numbers that are passed
          INITIAL_CAPACITY,  \* 1024 in the code
          NoItem,            \* the content of memory nothing was stored in
          NoThread           \* m_qaccess is not held

ASSUME SafeQueueAssumption ==
  /\ Producers \cap Consumers = {}
  /\ IsFiniteSet(Producers)
  /\ INITIAL_CAPACITY \in Nat \ {0}
  /\ NoItem \notin Items
  /\ NoThread \notin Producers \cup Consumers

VARIABLES array,      \* the slots of sockets.array
          allocated,  \* sockets.array # NULL
          front,      \* sockets.front - sockets.array
          back,       \* sockets.back - sockets.array
          capacity,   \* sockets.capacity
          size,       \* sockets.size
          m_qaccess,  \* the thread that holds the mutex
          c_isItem,   \* the threads asleep on the condition variable
          c_isSpace,
          pc,         \* where each thread is in safeq.c
          socket      \* per thread: put's argument, get's local and result

ring == <<array, allocated, front, back, capacity, size>>
vars == <<array, allocated, front, back, capacity, size,
          m_qaccess, c_isItem, c_isSpace, pc, socket>>

Threads == Producers \cup Consumers
Slots == 0 .. INITIAL_CAPACITY - 1

Init ==
  /\ array = [k \in Slots |-> NoItem]
  /\ allocated = FALSE
  /\ front = 0
  /\ back = 0
  /\ capacity = 0
  /\ size = 0
  /\ m_qaccess = NoThread
  /\ c_isItem = {}
  /\ c_isSpace = {}
  /\ pc = [t \in Threads |-> "out"]
  /\ socket = [t \in Threads |-> NoItem]

(***************************************************************************)
(* safeq.h: initialize before any _get or _put, teardown when the queue is *)
(* done being used.  Neither takes the mutex.                              *)
(***************************************************************************)
NoCallInProgress == \A t \in Threads : pc[t] = "out"

\* The fields are set before malloc's result is looked at.
ml_safeq_initialize(mallocSucceeds) ==
  /\ ~allocated
  /\ NoCallInProgress
  /\ array' = [k \in Slots |-> NoItem]
  /\ allocated' = mallocSucceeds
  /\ front' = 0
  /\ back' = 0
  /\ capacity' = INITIAL_CAPACITY
  /\ size' = 0
  /\ UNCHANGED <<m_qaccess, c_isItem, c_isSpace, pc, socket>>

ml_safeq_teardown ==
  /\ NoCallInProgress
  /\ array' = [k \in Slots |-> NoItem]
  /\ allocated' = FALSE
  /\ front' = 0
  /\ back' = 0
  /\ capacity' = 0
  /\ size' = 0
  /\ UNCHANGED <<m_qaccess, c_isItem, c_isSpace, pc, socket>>

-----------------------------------------------------------------------------
(* Entering a call, the mutex, and the condition variables.                *)

CallPut(p, s) ==
  /\ allocated
  /\ pc[p] = "out"
  /\ pc' = [pc EXCEPT ![p] = "lock"]
  /\ socket' = [socket EXCEPT ![p] = s]
  /\ UNCHANGED <<ring, m_qaccess, c_isItem, c_isSpace>>

CallGet(c) ==
  /\ allocated
  /\ pc[c] = "out"
  /\ pc' = [pc EXCEPT ![c] = "lock"]
  /\ socket' = [socket EXCEPT ![c] = NoItem]
  /\ UNCHANGED <<ring, m_qaccess, c_isItem, c_isSpace>>

Asleep(t) == t \in c_isItem \cup c_isSpace

\* pthread_mutex_lock, or the end of a pthread_cond_wait that was woken.
Lock(t) ==
  /\ \/ pc[t] = "lock"
     \/ pc[t] = "wait" /\ ~Asleep(t)
  /\ m_qaccess = NoThread
  /\ m_qaccess' = t
  /\ pc' = [pc EXCEPT ![t] = "test"]
  /\ UNCHANGED <<ring, c_isItem, c_isSpace, socket>>

\* POSIX lets pthread_cond_wait return though nobody notified it.
SpuriousWakeup(t) ==
  /\ Asleep(t)
  /\ c_isItem' = c_isItem \ {t}
  /\ c_isSpace' = c_isSpace \ {t}
  /\ UNCHANGED <<ring, m_qaccess, pc, socket>>

Unlock(t) ==
  /\ m_qaccess' = NoThread
  /\ pc' = [pc EXCEPT ![t] = "out"]

Sleep(t) ==
  /\ m_qaccess' = NoThread
  /\ pc' = [pc EXCEPT ![t] = "wait"]
  /\ UNCHANGED <<ring, socket>>

(***************************************************************************)
(* What the bodies of the two functions are made of.  Each of the first    *)
(* five operators is preceded by a variant with a bug that the code could  *)
(* have; the README says which property each variant violates.             *)
(***************************************************************************)
FullTestedTooLate == size > capacity
Full == size = capacity

Empty == size = 0

\* ++pointer, back to the start of the array at its end.
AdvanceWrapsEarly(pointer) == IF pointer + 2 = capacity THEN 0 ELSE pointer + 1
Advance(pointer) == IF pointer + 1 = capacity THEN 0 ELSE pointer + 1

\* pthread_cond_broadcast(&c_isItem).
WakeOneWhenEmptied ==
  IF size = 0 /\ c_isItem # {}
  THEN \E t \in c_isItem : c_isItem' = c_isItem \ {t}
  ELSE UNCHANGED c_isItem
WakeNobody == UNCHANGED c_isItem
BroadcastIsItem == c_isItem' = {}

\* pthread_cond_signal(&c_isSpace): one sleeper wakes, if there is one.
SignalIsSpace ==
  IF c_isSpace = {}
  THEN UNCHANGED c_isSpace
  ELSE \E t \in c_isSpace : c_isSpace' = c_isSpace \ {t}

-----------------------------------------------------------------------------
(* The bodies of ml_safeq_put and ml_safeq_get, under the mutex.           *)

PutWaits(p) ==
  /\ pc[p] = "test"
  /\ Full
  /\ c_isSpace' = c_isSpace \cup {p}
  /\ Sleep(p)
  /\ UNCHANGED c_isItem

PutItem(p) ==
  /\ pc[p] = "test"
  /\ ~Full
  /\ array' = [array EXCEPT ![back] = socket[p]]
  /\ size' = size + 1
  /\ back' = Advance(back)
  /\ BroadcastIsItem
  /\ Unlock(p)
  /\ socket' = [socket EXCEPT ![p] = NoItem]
  /\ UNCHANGED <<allocated, front, capacity, c_isSpace>>

GetWaits(c) ==
  /\ pc[c] = "test"
  /\ Empty
  /\ c_isItem' = c_isItem \cup {c}
  /\ Sleep(c)
  /\ UNCHANGED c_isSpace

GetItem(c) ==
  /\ pc[c] = "test"
  /\ ~Empty
  /\ socket' = [socket EXCEPT ![c] = array[front]]
  /\ size' = size - 1
  /\ front' = Advance(front)
  /\ SignalIsSpace
  /\ Unlock(c)
  /\ UNCHANGED <<array, allocated, back, capacity, c_isItem>>

-----------------------------------------------------------------------------

PutStep(p) == PutWaits(p) \/ PutItem(p)
GetStep(c) == GetWaits(c) \/ GetItem(c)

Next ==
  \/ \E mallocSucceeds \in BOOLEAN : ml_safeq_initialize(mallocSucceeds)
  \/ ml_safeq_teardown
  \/ \E p \in Producers : PutStep(p) \/ \E s \in Items : CallPut(p, s)
  \/ \E c \in Consumers : GetStep(c) \/ CallGet(c)
  \/ \E t \in Threads : Lock(t) \/ SpuriousWakeup(t)

Spec == Init /\ [][Next]_vars

(***************************************************************************)
(* Scheduling: a thread that can always take its next step takes it.       *)
(* Nothing is assumed of who gets a contended mutex.  Consumers are the    *)
(* workers, whose loops always call ml_safeq_get again; a producer need    *)
(* never call.  Spurious wakeups may happen any finite number of times.    *)
(***************************************************************************)
Fairness ==
  /\ \A t \in Threads : WF_vars(Lock(t))
  /\ \A p \in Producers : WF_vars(PutStep(p))
  /\ \A c \in Consumers : WF_vars(GetStep(c)) /\ WF_vars(CallGet(c))
  /\ <>[][\A t \in Threads : ~SpuriousWakeup(t)]_vars

FairSpec == Spec /\ Fairness

-----------------------------------------------------------------------------
(* Properties.                                                             *)

\* The slot k places after front; the k-th oldest item is at Slot(k - 1).
Slot(k) == IF front + k < capacity THEN front + k ELSE front + k - capacity

Contents == [k \in 1 .. size |-> array[Slot(k - 1)]]

InCall == {t \in Threads : pc[t] # "out"}

\* Types, and the sleepers of each condition variable are in its function.
TypeOK ==
  /\ array \in [Slots -> Items \cup {NoItem}]
  /\ allocated \in BOOLEAN
  /\ front \in Slots
  /\ back \in Slots
  /\ capacity \in {0, INITIAL_CAPACITY}
  /\ size \in 0 .. INITIAL_CAPACITY
  /\ m_qaccess \in Threads \cup {NoThread}
  /\ c_isItem \subseteq Consumers
  /\ c_isSpace \subseteq Producers
  /\ pc \in [Threads -> {"out", "lock", "test", "wait"}]
  /\ socket \in [Threads -> Items \cup {NoItem}]

(***************************************************************************)
(* The three numbers that describe the ring agree after any sequence of    *)
(* puts, gets, teardowns and initializations, wherever the two pointers    *)
(* have wrapped: the next free slot is size places after front, no more    *)
(* items are counted than there are slots, and no slot in use holds        *)
(* uninitialized memory.                                                   *)
(***************************************************************************)
RingConsistent ==
  /\ allocated => capacity = INITIAL_CAPACITY
  /\ size <= capacity
  /\ capacity > 0 => back = Slot(size)
  /\ \A k \in 1 .. size : Contents[k] \in Items

(***************************************************************************)
(* Nobody sleeps through a chance to go on.  A get sleeps only while there *)
(* is nothing to get (every put wakes all of them).  While a put sleeps,   *)
(* there are no more free slots than there are puts already awake that can *)
(* take them (a get wakes one of them for the slot it frees).              *)
(***************************************************************************)
PutsAwake == {p \in Producers : pc[p] # "out" /\ p \notin c_isSpace}

NoLostWakeup ==
  /\ c_isItem # {} => size = 0
  /\ c_isSpace # {} => capacity - size <= Cardinality(PutsAwake)

(***************************************************************************)
(* The queue is first-in-first-out, loses and duplicates nothing and holds *)
(* at most INITIAL_CAPACITY sockets, in spite of threads racing for the    *)
(* mutex and of spurious wakeups: it implements BoundedFifo.               *)
(***************************************************************************)
Fifo == INSTANCE BoundedFifo
          WITH Bound <- INITIAL_CAPACITY, open <- allocated,
               queue <- Contents, pending <- InCall, value <- socket

ImplementsFifo == Fifo!Spec

\* A put that finds room returns, and a queue with both items and gets in
\* progress is eventually taken from: BoundedFifo's fairness.
ImplementsFairFifo == Fifo!FairSpec

=============================================================================
