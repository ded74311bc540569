--------------------------- MODULE SafeQueueProofs ---------------------------
(***************************************************************************)
(* For any number of threads and any capacity: the ring of safeq.c stays   *)
(* consistent, no wakeup is lost, and SafeQueue implements BoundedFifo.    *)
(*                                                                         *)
(* None of the properties is inductive by itself.  RingConsistent needs    *)
(* that a thread inside a call finds a ring of INITIAL_CAPACITY slots and  *)
(* that a put carries a socket; NoLostWakeup needs that a sleeper is in    *)
(* pthread_cond_wait, so that it is not also the thread that stores an     *)
(* item.  Inv is their conjunction with these facts.                       *)
(***************************************************************************)
EXTENDS SafeQueue, TLAPS, FiniteSetTheorems, SequenceTheorems

\* Only an initialized queue is used, and an absent array is an empty queue.
CallsFindQueue ==
  /\ \A t \in Threads : pc[t] # "out" => allocated
  /\ ~allocated => size = 0

\* Who sleeps is in pthread_cond_wait.
SleepersWait == \A t \in Threads : Asleep(t) => pc[t] = "wait"

PutsCarrySockets == \A p \in Producers : pc[p] # "out" => socket[p] \in Items

Inv ==
  /\ TypeOK
  /\ CallsFindQueue
  /\ SleepersWait
  /\ PutsCarrySockets
  /\ RingConsistent
  /\ NoLostWakeup

SetUpOrTearDown ==
  \/ \E mallocSucceeds \in BOOLEAN : ml_safeq_initialize(mallocSucceeds)
  \/ ml_safeq_teardown

-----------------------------------------------------------------------------
(* Each part of Inv is inductive, given the parts before it.               *)

\* The initial state.
LEMMA InitInv == Init => Inv
<1> SUFFICES ASSUME Init PROVE Inv
  OBVIOUS
<1> USE SafeQueueAssumption DEF Init
<1>1. TypeOK
  <2>1. allocated \in BOOLEAN
    OBVIOUS
  <2> QED
    BY <2>1 DEF TypeOK, Slots
<1>2. CallsFindQueue /\ SleepersWait /\ PutsCarrySockets
  BY DEF CallsFindQueue, SleepersWait, Asleep, PutsCarrySockets, Threads
<1>3. RingConsistent /\ NoLostWakeup
  BY DEF RingConsistent, NoLostWakeup
<1> QED
  BY <1>1, <1>2, <1>3 DEF Inv

\* Types, and what a thread inside a call can rely on.
LEMMA TypesAndCalls ==
  Inv /\ [Next]_vars =>
    TypeOK' /\ CallsFindQueue' /\ SleepersWait' /\ PutsCarrySockets'
<1> SUFFICES ASSUME Inv, [Next]_vars
             PROVE  TypeOK' /\ CallsFindQueue' /\ SleepersWait' /\ PutsCarrySockets'
  OBVIOUS
<1> USE SafeQueueAssumption
    DEF Inv, TypeOK, CallsFindQueue, SleepersWait, PutsCarrySockets, Asleep,
        Threads, Slots, ring
<1>1. ASSUME NEW mallocSucceeds \in BOOLEAN, ml_safeq_initialize(mallocSucceeds)
      PROVE  TypeOK' /\ CallsFindQueue' /\ SleepersWait' /\ PutsCarrySockets'
  <2>1. allocated' \in BOOLEAN
    BY <1>1 DEF ml_safeq_initialize
  <2>2. TypeOK'
    BY <1>1, <2>1 DEF ml_safeq_initialize
  <2>3. CallsFindQueue' /\ SleepersWait' /\ PutsCarrySockets'
    BY <1>1 DEF ml_safeq_initialize, NoCallInProgress
  <2> QED
    BY <2>2, <2>3
<1>2. CASE ml_safeq_teardown
  <2>1. allocated' \in BOOLEAN
    BY <1>2 DEF ml_safeq_teardown
  <2>2. TypeOK'
    BY <1>2, <2>1 DEF ml_safeq_teardown
  <2>3. CallsFindQueue' /\ SleepersWait' /\ PutsCarrySockets'
    BY <1>2 DEF ml_safeq_teardown, NoCallInProgress
  <2> QED
    BY <2>2, <2>3
<1>3. ASSUME NEW p \in Producers, NEW s \in Items, CallPut(p, s)
      PROVE  TypeOK' /\ CallsFindQueue' /\ SleepersWait' /\ PutsCarrySockets'
  BY <1>3 DEF CallPut
<1>4. ASSUME NEW c \in Consumers, CallGet(c)
      PROVE  TypeOK' /\ CallsFindQueue' /\ SleepersWait' /\ PutsCarrySockets'
  BY <1>4 DEF CallGet
<1>5. ASSUME NEW t \in Threads, Lock(t)
      PROVE  TypeOK' /\ CallsFindQueue' /\ SleepersWait' /\ PutsCarrySockets'
  BY <1>5 DEF Lock
<1>6. ASSUME NEW t \in Threads, SpuriousWakeup(t)
      PROVE  TypeOK' /\ CallsFindQueue' /\ SleepersWait' /\ PutsCarrySockets'
  BY <1>6 DEF SpuriousWakeup
<1>7. ASSUME NEW p \in Producers, PutWaits(p)
      PROVE  TypeOK' /\ CallsFindQueue' /\ SleepersWait' /\ PutsCarrySockets'
  BY <1>7 DEF PutWaits, Sleep
<1>8. ASSUME NEW p \in Producers, PutItem(p)
      PROVE  TypeOK' /\ CallsFindQueue' /\ SleepersWait' /\ PutsCarrySockets'
  BY <1>8 DEF PutItem, Unlock, Full, Advance, BroadcastIsItem, RingConsistent
<1>9. ASSUME NEW c \in Consumers, GetWaits(c)
      PROVE  TypeOK' /\ CallsFindQueue' /\ SleepersWait' /\ PutsCarrySockets'
  BY <1>9 DEF GetWaits, Sleep
<1>10. ASSUME NEW c \in Consumers, GetItem(c)
       PROVE  TypeOK' /\ CallsFindQueue' /\ SleepersWait' /\ PutsCarrySockets'
  BY <1>10 DEF GetItem, Unlock, Empty, Advance, SignalIsSpace, RingConsistent
<1>11. CASE UNCHANGED vars
  BY <1>11 DEF vars
<1> QED
  BY <1>1, <1>2, <1>3, <1>4, <1>5, <1>6, <1>7, <1>8, <1>9, <1>10, <1>11
  DEF Next, PutStep, GetStep

\* A step that changes neither the items nor the numbers keeps the ring.
LEMMA RingUntouched ==
  RingConsistent /\ UNCHANGED ring => RingConsistent'
BY DEF RingConsistent, Contents, Slot, ring

\* A put extends the used part of the ring by one slot, a get shortens it.
LEMMA RingStep == Inv /\ [Next]_vars => RingConsistent'
<1> SUFFICES ASSUME Inv, [Next]_vars PROVE RingConsistent'
  OBVIOUS
<1> USE SafeQueueAssumption DEF Inv
<1>1. CASE SetUpOrTearDown
  BY <1>1 DEF SetUpOrTearDown, ml_safeq_initialize, ml_safeq_teardown,
              RingConsistent, Slot, TypeOK
<1>2. ASSUME NEW p \in Producers, PutItem(p)
      PROVE  RingConsistent'
  <2> USE <1>2 DEF PutItem, Full, Advance, TypeOK, Slots
  <2>1. /\ allocated
        /\ capacity = INITIAL_CAPACITY
        /\ size < capacity
        /\ back = Slot(size)
        /\ socket[p] \in Items
    BY DEF CallsFindQueue, PutsCarrySockets, RingConsistent, Threads
  <2>2. \A k \in 0 .. size - 1 : Slot(k) # back
    BY <2>1 DEF Slot
  <2>3. back' = Slot(size + 1)
    BY <2>1 DEF Slot
  <2>4. ASSUME NEW k \in 1 .. size' PROVE Contents'[k] \in Items
    <3>1. Contents'[k] = array'[Slot(k - 1)]
      BY DEF Contents, Slot
    <3>2. CASE k = size + 1
      BY <2>1, <3>1, <3>2
    <3>3. CASE k \in 1 .. size
      <4>1. array'[Slot(k - 1)] = array[Slot(k - 1)]
        BY <2>1, <2>2, <3>3 DEF Slot
      <4> QED
        BY <3>1, <3>3, <4>1 DEF RingConsistent, Contents
    <3> QED
      BY <3>2, <3>3
  <2> QED
    BY <2>1, <2>3, <2>4 DEF RingConsistent, Slot
<1>3. ASSUME NEW c \in Consumers, GetItem(c)
      PROVE  RingConsistent'
  <2> USE <1>3 DEF GetItem, Empty, Advance, TypeOK, Slots
  <2>1. /\ allocated
        /\ capacity = INITIAL_CAPACITY
        /\ size \in 1 .. capacity
        /\ back = Slot(size)
    BY DEF CallsFindQueue, RingConsistent, Threads
  <2>2. \A k \in 0 .. size - 1 : Slot(k)' = Slot(k + 1)
    BY <2>1 DEF Slot
  <2>3. ASSUME NEW k \in 1 .. size' PROVE Contents'[k] \in Items
    <3>1. Contents'[k] = Contents[k + 1]
      BY <2>1, <2>2 DEF Contents
    <3> QED
      BY <2>1, <3>1 DEF RingConsistent
  <2>4. back' = Slot(size)'
    BY <2>1 DEF Slot
  <2> QED
    BY <2>1, <2>3, <2>4 DEF RingConsistent
<1>4. CASE UNCHANGED ring
  BY <1>4, RingUntouched
<1> QED
  BY <1>1, <1>2, <1>3, <1>4
  DEF Next, SetUpOrTearDown, PutStep, GetStep, PutWaits, GetWaits, Sleep, CallPut, CallGet,
      Lock, SpuriousWakeup, vars, ring

\* The puts that are awake can be counted, and more of them are a larger count.
LEMMA PutsAwakeCounted ==
  /\ IsFiniteSet(PutsAwake)
  /\ IsFiniteSet(PutsAwake')
  /\ Cardinality(PutsAwake) \in Nat
  /\ Cardinality(PutsAwake') \in Nat
  /\ PutsAwake \subseteq PutsAwake' => Cardinality(PutsAwake) <= Cardinality(PutsAwake')
BY SafeQueueAssumption, FS_Subset, FS_CardinalityType, Zenon DEF PutsAwake

\* No step loses a wakeup: one that frees a slot wakes a put for it, one that
\* fills a slot is made by a put that no longer needs one.
LEMMA WakeupStep == Inv /\ [Next]_vars => NoLostWakeup'
<1> SUFFICES ASSUME Inv, [Next]_vars PROVE NoLostWakeup'
  OBVIOUS
<1> USE SafeQueueAssumption DEF Inv
<1>1. CASE SetUpOrTearDown
  BY <1>1 DEF SetUpOrTearDown, ml_safeq_initialize, ml_safeq_teardown, NoCallInProgress,
              SleepersWait, Asleep, NoLostWakeup, TypeOK, Threads
<1>2. ASSUME UNCHANGED <<ring, c_isItem>>, c_isSpace' \subseteq c_isSpace,
             PutsAwake \subseteq PutsAwake'
      PROVE  NoLostWakeup'
  BY <1>2, PutsAwakeCounted DEF NoLostWakeup, TypeOK, RingConsistent, ring
<1>3. ASSUME NEW p \in Producers, NEW s \in Items, CallPut(p, s)
      PROVE  NoLostWakeup'
  BY <1>2, <1>3 DEF CallPut, PutsAwake, TypeOK, Threads, ring
<1>4. ASSUME NEW c \in Consumers, CallGet(c)
      PROVE  NoLostWakeup'
  BY <1>2, <1>4 DEF CallGet, PutsAwake, TypeOK, Threads, ring
<1>5. ASSUME NEW t \in Threads, Lock(t)
      PROVE  NoLostWakeup'
  BY <1>2, <1>5 DEF Lock, PutsAwake, TypeOK, Threads, ring
<1>6. ASSUME NEW t \in Threads, SpuriousWakeup(t)
      PROVE  NoLostWakeup'
  <2>1. PutsAwake \subseteq PutsAwake'
    BY <1>6 DEF SpuriousWakeup, PutsAwake
  <2> QED
    BY <1>6, <2>1, PutsAwakeCounted
    DEF SpuriousWakeup, NoLostWakeup, TypeOK, RingConsistent, ring
<1>7. ASSUME NEW p \in Producers, PutWaits(p)
      PROVE  NoLostWakeup'
  BY <1>7, PutsAwakeCounted DEF PutWaits, Sleep, Full, NoLostWakeup, TypeOK, ring
<1>8. ASSUME NEW p \in Producers, PutItem(p)
      PROVE  NoLostWakeup'
  <2> USE <1>8 DEF PutItem, BroadcastIsItem, Unlock
  <2>1. p \in PutsAwake
    BY DEF PutsAwake, SleepersWait, Asleep, Threads
  <2>2. PutsAwake' = PutsAwake \ {p}
    BY DEF PutsAwake, TypeOK, Threads
  <2>3. Cardinality(PutsAwake') = Cardinality(PutsAwake) - 1
    BY <2>1, <2>2, PutsAwakeCounted, FS_RemoveElement
  <2> QED
    BY <2>3, PutsAwakeCounted DEF NoLostWakeup, TypeOK, RingConsistent
<1>9. ASSUME NEW c \in Consumers, GetWaits(c)
      PROVE  NoLostWakeup'
  <2>1. PutsAwake \subseteq PutsAwake'
    BY <1>9 DEF GetWaits, Sleep, PutsAwake, TypeOK, Threads
  <2> QED
    BY <1>9, <2>1, PutsAwakeCounted
    DEF GetWaits, Sleep, Empty, NoLostWakeup, TypeOK, RingConsistent, ring
<1>10. ASSUME NEW c \in Consumers, GetItem(c)
       PROVE  NoLostWakeup'
  <2> USE <1>10 DEF GetItem, Empty, Unlock, SignalIsSpace
  <2>1. c_isItem' = {}
    BY DEF NoLostWakeup
  <2>2. CASE c_isSpace = {}
    BY <2>1, <2>2 DEF NoLostWakeup
  <2>3. CASE c_isSpace # {}
    <3>1. PICK t \in c_isSpace : c_isSpace' = c_isSpace \ {t}
      BY <2>3
    <3>2. t \notin PutsAwake
      BY DEF PutsAwake
    <3>3. PutsAwake' = PutsAwake \cup {t}
      BY <3>1 DEF PutsAwake, SleepersWait, Asleep, TypeOK, Threads
    <3>4. Cardinality(PutsAwake') = Cardinality(PutsAwake) + 1
      BY <3>2, <3>3, PutsAwakeCounted, FS_AddElement
    <3> QED
      BY <2>1, <2>3, <3>4, PutsAwakeCounted DEF NoLostWakeup, TypeOK, RingConsistent
  <2> QED
    BY <2>2, <2>3
<1>11. CASE UNCHANGED vars
  BY <1>2, <1>11 DEF vars, PutsAwake, ring
<1> QED
  BY <1>1, <1>3, <1>4, <1>5, <1>6, <1>7, <1>8, <1>9, <1>10, <1>11
  DEF Next, SetUpOrTearDown, PutStep, GetStep

-----------------------------------------------------------------------------
(* The theorems.                                                           *)

LEMMA InvHolds == Spec => []Inv
<1>1. Inv /\ [Next]_vars => Inv'
  BY TypesAndCalls, RingStep, WakeupStep DEF Inv
<1> QED
  BY InitInv, <1>1, PTL DEF Spec

\* Types, in every reachable state: in particular the pointers of safeq.c stay
\* inside sockets.array, and put and get sleep on their own condition variable.
THEOREM TypeCorrect == Spec => []TypeOK
BY InvHolds, PTL DEF Inv

\* front, back and size of safeq.c agree and every queued slot holds a socket.
THEOREM RingIsConsistent == Spec => []RingConsistent
BY InvHolds, PTL DEF Inv

\* Neither ml_safeq_put nor ml_safeq_get sleeps while it could go on, for any
\* number of callers, though c_isSpace is signalled to only one of them.
THEOREM NoWakeupIsLost == Spec => []NoLostWakeup
BY InvHolds, PTL DEF Inv

-----------------------------------------------------------------------------
(***************************************************************************)
(* SafeQueue implements BoundedFifo: what its callers may rely on, with    *)
(* the items between front and back as the queue.  The steps that matter   *)
(* are those that move an item.  With Inv, storing at back appends to      *)
(* Contents and advancing front takes its tail; sleeping, waking and       *)
(* taking the mutex leave what BoundedFifo sees unchanged.                 *)
(***************************************************************************)


\* What is between front and back is a sequence of sockets, before and after
\* a step.
LEMMA ContentsType ==
  /\ Inv  => Contents \in Seq(Items) /\ Len(Contents) = size
  /\ Inv' => Contents' \in Seq(Items) /\ Len(Contents') = size'
<1>1. ASSUME Inv PROVE Contents \in Seq(Items) /\ Len(Contents) = size
  <2>1. size \in Nat
    BY <1>1, SafeQueueAssumption DEF Inv, TypeOK
  <2>2. Contents \in [1 .. size -> Items]
    BY <1>1 DEF Inv, RingConsistent, Contents
  <2> QED
    BY <2>1, <2>2
<1>2. ASSUME Inv' PROVE Contents' \in Seq(Items) /\ Len(Contents') = size'
  <2>1. size' \in Nat
    BY <1>2, SafeQueueAssumption DEF Inv, TypeOK
  <2>2. Contents' \in [1 .. size' -> Items]
    BY <1>2 DEF Inv, RingConsistent, Contents
  <2> QED
    BY <2>1, <2>2
<1> QED
  BY <1>1, <1>2

\* A queue that nothing was put into, or that was torn down, is empty.
LEMMA EmptyContents ==
  /\ size = 0 => Contents = <<>>
  /\ size' = 0 => Contents' = <<>>
BY DEF Contents

\* ml_safeq_put appends.
LEMMA PutAppends ==
  ASSUME Inv, Inv', NEW p \in Producers, PutItem(p)
  PROVE  Contents' = Append(Contents, socket[p])
<1> USE SafeQueueAssumption DEF PutItem, Full, TypeOK, Slots
<1>1. /\ capacity = INITIAL_CAPACITY
      /\ size \in Nat
      /\ size < capacity
      /\ back = Slot(size)
      /\ socket[p] \in Items
  BY DEF Inv, CallsFindQueue, PutsCarrySockets, RingConsistent, Threads
<1>2. /\ Contents \in Seq(Items) /\ Len(Contents) = size
      /\ Contents' \in Seq(Items) /\ Len(Contents') = size + 1
  BY ContentsType
<1>3. \A k \in 1 .. size : Contents'[k] = Contents[k]
  BY <1>1 DEF Inv, Contents, Slot
<1>4. Contents'[size + 1] = socket[p]
  BY <1>1 DEF Inv, Contents, Slot
<1>5. /\ Append(Contents, socket[p]) \in Seq(Items)
      /\ Len(Append(Contents, socket[p])) = size + 1
      /\ \A k \in 1 .. size : Append(Contents, socket[p])[k] = Contents[k]
      /\ Append(Contents, socket[p])[size + 1] = socket[p]
  BY <1>1, <1>2, AppendProperties
<1>6. \A k \in 1 .. size + 1 : Contents'[k] = Append(Contents, socket[p])[k]
  BY <1>1, <1>3, <1>4, <1>5
<1> QED
  BY <1>2, <1>5, <1>6, SeqEqual

\* ml_safeq_get takes the oldest item.
LEMMA GetTakesHead ==
  ASSUME Inv, Inv', NEW c \in Consumers, GetItem(c)
  PROVE  /\ Contents # <<>>
         /\ Contents' = Tail(Contents)
         /\ array[front] = Head(Contents)
<1> USE SafeQueueAssumption DEF GetItem, Empty, Advance, TypeOK, Slots
<1>1. /\ capacity = INITIAL_CAPACITY
      /\ size \in 1 .. capacity
  BY DEF Inv, CallsFindQueue, RingConsistent, Threads
<1>2. /\ Contents \in Seq(Items) /\ Len(Contents) = size
      /\ Contents' \in Seq(Items) /\ Len(Contents') = size - 1
  BY ContentsType
<1>3. Contents # <<>>
  BY <1>1, <1>2
<1>4. array[front] = Head(Contents)
  BY <1>1, <1>2 DEF Inv, Contents, Slot
<1>5. \A k \in 1 .. size - 1 : Contents'[k] = Contents[k + 1]
  BY <1>1 DEF Inv, Contents, Slot
<1>6. /\ Tail(Contents) \in Seq(Items)
      /\ Len(Tail(Contents)) = size - 1
      /\ \A k \in 1 .. size - 1 : Tail(Contents)[k] = Contents[k + 1]
  BY <1>2, <1>3, HeadTailProperties
<1>7. Contents' = Tail(Contents)
  BY <1>2, <1>5, <1>6, SeqEqual
<1> QED
  BY <1>3, <1>4, <1>7

\* Steps that leave the ring alone leave its contents alone.
LEMMA SameContents == UNCHANGED ring => UNCHANGED <<allocated, Contents>>
BY DEF ring, Contents, Slot

-----------------------------------------------------------------------------

\* Each step of SafeQueue is a step of BoundedFifo or changes nothing it sees.
LEMMA StepRefines == Inv /\ Inv' /\ [Next]_vars => [Fifo!Next]_(Fifo!fifoVars)
<1> SUFFICES ASSUME Inv, Inv', [Next]_vars PROVE [Fifo!Next]_(Fifo!fifoVars)
  OBVIOUS
<1> USE DEF Fifo!fifoVars
<1>1. ASSUME NEW mallocSucceeds \in BOOLEAN, ml_safeq_initialize(mallocSucceeds)
      PROVE  [Fifo!Next]_(Fifo!fifoVars)
  <2>1. /\ ~allocated /\ UNCHANGED <<InCall, socket>>
        /\ InCall = {}
        /\ Contents = <<>> /\ Contents' = <<>>
    BY <1>1, EmptyContents
    DEF Inv, CallsFindQueue, ml_safeq_initialize, NoCallInProgress, InCall
  <2>2. CASE mallocSucceeds
    BY <1>1, <2>1, <2>2 DEF ml_safeq_initialize, Fifo!Next, Fifo!Open
  <2>3. CASE ~mallocSucceeds
    <3>1. allocated = FALSE /\ allocated' = FALSE
      BY <1>1, <2>3, Zenon DEF ml_safeq_initialize, Inv, TypeOK
    <3> QED
      BY <2>1, <3>1
  <2> QED
    BY <2>2, <2>3
<1>2. CASE ml_safeq_teardown
  <2>1. UNCHANGED <<InCall, socket>> /\ InCall = {} /\ Contents' = <<>>
    BY <1>2, EmptyContents DEF ml_safeq_teardown, NoCallInProgress, InCall
  <2> QED
    BY <1>2, <2>1 DEF ml_safeq_teardown, Fifo!Next, Fifo!Close
<1>3. ASSUME NEW p \in Producers, NEW s \in Items, CallPut(p, s)
      PROVE  [Fifo!Next]_(Fifo!fifoVars)
  <2>1. p \notin InCall /\ InCall' = InCall \cup {p}
    BY <1>3 DEF CallPut, InCall, Inv, TypeOK, Threads
  <2>2. Fifo!CallPut(p, s)
    BY <1>3, <2>1, SameContents DEF CallPut, Fifo!CallPut
  <2> QED
    BY <2>2 DEF Fifo!Next
<1>4. ASSUME NEW c \in Consumers, CallGet(c)
      PROVE  [Fifo!Next]_(Fifo!fifoVars)
  <2>1. c \notin InCall /\ InCall' = InCall \cup {c}
    BY <1>4 DEF CallGet, InCall, Inv, TypeOK, Threads
  <2>2. Fifo!CallGet(c)
    BY <1>4, <2>1, SameContents DEF CallGet, Fifo!CallGet
  <2> QED
    BY <2>2 DEF Fifo!Next
<1>5. ASSUME NEW p \in Producers, PutItem(p)
      PROVE  [Fifo!Next]_(Fifo!fifoVars)
  <2>1. p \in InCall /\ InCall' = InCall \ {p}
    BY <1>5 DEF PutItem, Unlock, InCall, Inv, TypeOK, Threads
  <2>2. Len(Contents) < INITIAL_CAPACITY
    BY <1>5, ContentsType, SafeQueueAssumption
    DEF PutItem, Full, Inv, TypeOK, RingConsistent, CallsFindQueue, Threads
  <2>3. Contents' = Append(Contents, socket[p])
    BY <1>5, PutAppends
  <2>4. Fifo!Put(p)
    BY <1>5, <2>1, <2>2, <2>3 DEF PutItem, Fifo!Put
  <2> QED
    BY <2>4 DEF Fifo!Next
<1>6. ASSUME NEW c \in Consumers, GetItem(c)
      PROVE  [Fifo!Next]_(Fifo!fifoVars)
  <2>1. c \in InCall /\ InCall' = InCall \ {c}
    BY <1>6 DEF GetItem, Unlock, InCall, Inv, TypeOK, Threads
  <2>2. Fifo!Get(c)
    BY <1>6, <2>1, GetTakesHead DEF GetItem, Fifo!Get
  <2> QED
    BY <2>2 DEF Fifo!Next
<1>7. CASE UNCHANGED <<ring, socket>> /\ \A t \in Threads : pc[t] # "out" <=> pc'[t] # "out"
  BY <1>7, SameContents DEF InCall
<1>8. ASSUME NEW t \in Threads, Lock(t) \/ SpuriousWakeup(t)
      PROVE  [Fifo!Next]_(Fifo!fifoVars)
  BY <1>7, <1>8 DEF Lock, SpuriousWakeup, Inv, TypeOK
<1>9. ASSUME NEW t \in Threads, PutWaits(t) \/ GetWaits(t)
      PROVE  [Fifo!Next]_(Fifo!fifoVars)
  BY <1>7, <1>9 DEF PutWaits, GetWaits, Sleep, Inv, TypeOK
<1>10. CASE UNCHANGED vars
  BY <1>7, <1>10 DEF vars, ring
<1> QED
  BY <1>1, <1>2, <1>3, <1>4, <1>5, <1>6, <1>8, <1>9, <1>10
  DEF Next, PutStep, GetStep, Threads

\* safeq.c is a first-in-first-out queue of at most INITIAL_CAPACITY sockets:
\* each ml_safeq_put and ml_safeq_get takes effect in one step between its
\* call and its return.
THEOREM SafeQueueIsFifo == Spec => ImplementsFifo
<1>1. Init => Fifo!Init
  BY EmptyContents DEF Init, Fifo!Init, InCall, Fifo!Threads, Threads
<1>2. Spec => []Inv
  BY InvHolds
<1> QED
  BY <1>1, <1>2, StepRefines, PTL DEF Spec, ImplementsFifo, Fifo!Spec

=============================================================================
