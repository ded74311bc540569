---------------------------- MODULE BoundedFifo ----------------------------
(***************************************************************************)
(* What ml_safeq_put and ml_safeq_get promise their callers, with no ring  *)
(* buffer, mutex or condition variable: a first-in-first-out queue of at   *)
(* most Bound items.  A call is in progress from the step that makes it    *)
(* until the single step in which it takes effect and returns; a put waits *)
(* for room and a get waits for an item.                                   *)
(*                                                                         *)
(* SafeQueue implements this module.  ProxyLifecycle and ServerLifecycle   *)
(* are composed from it.                                                   *)
(***************************************************************************)
EXTENDS Naturals, Sequences

CONSTANTS Producers,  \* threads that call ml_safeq_put
          Consumers,  \* threads that call ml_safeq_get
          Items,      \* the socket numbers a call can pass
          Bound,      \* the most items the queue holds
          NoItem      \* the content of a variable nothing was assigned to

VARIABLES open,       \* the queue has been set up and not torn down
          queue,      \* the items, oldest first
          pending,    \* the threads with a call in progress
          value       \* per thread: a put's argument, a get's result

fifoVars == <<open, queue, pending, value>>

Threads == Producers \cup Consumers

Init ==
  /\ open = FALSE
  /\ queue = <<>>
  /\ pending = {}
  /\ value = [t \in Threads |-> NoItem]

Open ==
  /\ ~open
  /\ pending = {}
  /\ open' = TRUE
  /\ queue' = <<>>
  /\ UNCHANGED <<pending, value>>

\* Whatever is still queued is dropped.
Close ==
  /\ pending = {}
  /\ open' = FALSE
  /\ queue' = <<>>
  /\ UNCHANGED <<pending, value>>

CallPut(p, s) ==
  /\ open
  /\ p \notin pending
  /\ pending' = pending \cup {p}
  /\ value' = [value EXCEPT ![p] = s]
  /\ UNCHANGED <<open, queue>>

CallGet(c) ==
  /\ open
  /\ c \notin pending
  /\ pending' = pending \cup {c}
  /\ value' = [value EXCEPT ![c] = NoItem]
  /\ UNCHANGED <<open, queue>>

Put(p) ==
  /\ p \in pending
  /\ Len(queue) < Bound
  /\ queue' = Append(queue, value[p])
  /\ pending' = pending \ {p}
  /\ value' = [value EXCEPT ![p] = NoItem]
  /\ UNCHANGED open

Get(c) ==
  /\ c \in pending
  /\ queue # <<>>
  /\ queue' = Tail(queue)
  /\ pending' = pending \ {c}
  /\ value' = [value EXCEPT ![c] = Head(queue)]
  /\ UNCHANGED open

Next ==
  \/ Open
  \/ Close
  \/ \E p \in Producers : Put(p) \/ \E s \in Items : CallPut(p, s)
  \/ \E c \in Consumers : Get(c) \/ CallGet(c)

Spec == Init /\ [][Next]_fifoVars

(***************************************************************************)
(* A put that finds room returns.  Which of several waiting gets receives  *)
(* an item is open: only some get is promised to.                          *)
(***************************************************************************)
Fairness ==
  /\ \A p \in Producers : WF_fifoVars(Put(p))
  /\ WF_fifoVars(\E c \in Consumers : Get(c))

FairSpec == Spec /\ Fairness

=============================================================================
