------------------------- MODULE ConnectionService -------------------------
(***************************************************************************)
(* What a program that accepts connections in one thread and serves them   *)
(* in several others promises its clients: a connection that was accepted  *)
(* waits until a worker takes it, no connection is taken while one that    *)
(* was accepted earlier still waits, the worker that took it serves it     *)
(* alone, and closes it once.                                              *)
(*                                                                         *)
(* ProxyLifecycle, ServerLifecycle and ProxyDescriptors implement this     *)
(* module.  There is no queue, no boss and no shutdown in it.              *)
(***************************************************************************)
CONSTANTS Conns,    \* the connections
          Workers,  \* the threads that serve them
          NoConn    \* a worker without a connection serves this

VARIABLES waiting,  \* the connections that were accepted and not taken yet
          ahead,    \* of those, the pairs <<b, c>>: b was accepted before c
          serving,  \* the connection of each worker
          closed    \* the connections that have been served

serviceVars == <<waiting, ahead, serving, closed>>

Init ==
  /\ waiting = {}
  /\ ahead = {}
  /\ serving = [w \in Workers |-> NoConn]
  /\ closed = {}

\* Each connection is accepted once, behind all that wait.
Accept(c) ==
  /\ c \notin waiting \cup closed
  /\ \A w \in Workers : serving[w] # c
  /\ waiting' = waiting \cup {c}
  /\ ahead' = ahead \cup (waiting \X {c})
  /\ UNCHANGED <<serving, closed>>

\* The one that has waited longest.
Take(w, c) ==
  /\ serving[w] = NoConn
  /\ c \in waiting
  /\ \A b \in waiting : <<b, c>> \notin ahead
  /\ waiting' = waiting \ {c}
  /\ ahead' = ahead \ ({c} \X waiting)
  /\ serving' = [serving EXCEPT ![w] = c]
  /\ UNCHANGED closed

Close(w) ==
  /\ serving[w] # NoConn
  /\ serving' = [serving EXCEPT ![w] = NoConn]
  /\ closed' = closed \cup {serving[w]}
  /\ UNCHANGED <<waiting, ahead>>

Next ==
  \/ \E c \in Conns : Accept(c)
  \/ \E w \in Workers : Close(w) \/ \E c \in Conns : Take(w, c)

Spec == Init /\ [][Next]_serviceVars

=============================================================================
