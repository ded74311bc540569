------------------------------ MODULE MCInput ------------------------------
(***************************************************************************)
(* Functions that are checked on chosen inputs: first the function is      *)
(* chosen, then its argument, and a function that works in several calls   *)
(* goes on with what it has.                                               *)
(***************************************************************************)
CONSTANT Chosen  \* the functions of a run

VARIABLES function, argument, given

InputInit == function = "none" /\ argument = <<>> /\ given = FALSE

Choose ==
  /\ function = "none"
  /\ function' \in Chosen
  /\ UNCHANGED <<argument, given>>

Give(f, arguments) ==
  /\ function = f /\ ~given
  /\ given' = TRUE
  /\ argument' \in arguments
  /\ UNCHANGED function

GoOnWith(f) == function = f /\ given /\ UNCHANGED <<function, given>>

Given(f) == function = f /\ given
=============================================================================
