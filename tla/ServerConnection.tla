-------------------------- MODULE ServerConnection --------------------------
(***************************************************************************)
(* What one worker of the server says to the clients whose connections it  *)
(* serves one after another: processConnection in worker.c with the        *)
(* functions of http.c it calls.                                           *)
(*                                                                         *)
(* The worker keeps one buffer for its whole life.  ml_http_readLine does  *)
(* not clear it: after a read that fails, it still holds, wholly or behind *)
(* the bytes that did arrive, the last line of an earlier connection.      *)
(*                                                                         *)
(* Lines are told apart by what the code tests: the handshake, a request   *)
(* through shared memory, a GET (for a file, for a directory, or for       *)
(* something that is refused, or with no url), a line without a word, and  *)
(* anything else.                                                          *)
(***************************************************************************)
EXTENDS Naturals, Sequences, FiniteSets

CONSTANTS NumConns,  \* the worker serves the connections 1, 2, ... in this order
          MaxLines   \* a client sends at most so many lines (a bound for TLC)

ASSUME ConnectionAssumption == NumConns \in Nat \ {0} /\ MaxLines \in Nat

ConnNumbers == 1 .. NumConns

Lines == {"handshake", "SHM", "GET file", "GET directory", "GET refused", "GET",
          "blank", "other"}

(***************************************************************************)
(* What may be answered to a line.  A file or directory exists, is in the  *)
(* root and can be read, or is refused.  The memory for method and url is  *)
(* not cleared, and nobody looks at how many words sscanf has found: for a *)
(* word that is not in the line the worker takes what the memory held,     *)
(* which may be a word of an earlier request.                              *)
(***************************************************************************)
Answers ==
  [line \in Lines |->
     CASE line = "GET file" -> {"page"}
       [] line = "GET directory" -> {"listing"}
       [] line = "GET refused" -> {"alert"}
       [] line = "GET" -> {"page", "listing", "alert"}
       [] line = "blank" -> {"page", "listing", "alert", "not implemented"}
       [] OTHER -> {"not implemented"}]

VARIABLES script,   \* what each client sends before it hangs up
          torn,     \* the clients that hang up in the middle of a line
          current,  \* the connection that is served
          pc,       \* where the worker is in processConnection
          inBuffer, \* the worker's buffer
          result,   \* of the last ml_http_readLine: it succeeded
          input,    \* what it has not read of the current connection
          shut,     \* the connection was shut down
          sent      \* what reached each client

connectionVars == <<script, torn, current, pc, inBuffer, result, input, shut, sent>>

Unset == "unset"      \* the fresh stack of a thread: no line the code looks for
Garbage == "garbage"  \* a line overwritten in part, maybe with what it was

ConnectionInit ==
  /\ script \in [ConnNumbers -> UNION {[1 .. n -> Lines] : n \in 0 .. MaxLines}]
  /\ torn \in SUBSET ConnNumbers
  /\ current = 1
  /\ pc = "read"
  /\ inBuffer = Unset
  /\ result = FALSE
  /\ input = script[1]
  /\ shut = FALSE
  /\ sent = [c \in ConnNumbers |-> <<>>]

-----------------------------------------------------------------------------

Reply(message) ==
  sent' = IF shut THEN sent ELSE [sent EXCEPT ![current] = Append(@, message)]

\* Part of a line, with what was in the buffer behind it, makes no line out of
\* a fresh buffer, and may or may not restore the line that was there.
Overwritten == IF inBuffer = Unset THEN Unset ELSE Garbage

\* ml_http_readLine: a line, or the end of what the client sends.
ReadLine ==
  IF input # <<>>
  THEN /\ inBuffer' = Head(input)
       /\ input' = Tail(input)
       /\ result' = TRUE
  ELSE /\ inBuffer' = IF current \in torn THEN Overwritten ELSE inBuffer
       /\ result' = FALSE
       /\ UNCHANGED input

ReadFirst ==
  /\ pc = "read"
  /\ ReadLine
  /\ pc' = "handshake"
  /\ UNCHANGED <<script, torn, current, shut, sent>>

\* strncmp of the buffer with the handshake, before result is looked at.
MayMatch == inBuffer \in {"handshake", Garbage}
MayDiffer == inBuffer # "handshake"

AnswerHandshake ==
  /\ pc = "handshake"
  /\ MayMatch
  /\ Reply("NAZALI")
  /\ ReadLine
  /\ pc' = "result"
  /\ UNCHANGED <<script, torn, current, shut>>

NoHandshake ==
  /\ pc = "handshake"
  /\ MayDiffer
  /\ pc' = "result"
  /\ UNCHANGED <<script, torn, current, inBuffer, result, input, shut, sent>>

\* IgnoreResult would go on with whatever the buffer holds.
IgnoreResult ==
  /\ pc = "result"
  /\ ~result
  /\ pc' = "dispatch"
  /\ UNCHANGED <<script, torn, current, inBuffer, result, input, shut, sent>>

RefuseRequest ==
  /\ pc = "result"
  /\ ~result
  /\ Reply("failed to interpret")
  /\ pc' = "close"
  /\ UNCHANGED <<script, torn, current, inBuffer, result, input, shut>>

TakeRequest ==
  /\ pc = "result"
  /\ result
  /\ pc' = "dispatch"
  /\ UNCHANGED <<script, torn, current, inBuffer, result, input, shut, sent>>

(***************************************************************************)
(* A request for shared memory is answered through the segment, and the    *)
(* socket shut down; the code then goes on and processes the same line as  *)
(* an HTTP request, whose refusal goes to the socket that was shut down.   *)
(***************************************************************************)
Share ==
  /\ pc = "dispatch"
  /\ inBuffer = "SHM"
  /\ shut' = TRUE
  /\ pc' = "http"
  /\ UNCHANGED <<script, torn, current, inBuffer, result, input, sent>>

DoNotShare ==
  /\ pc = "dispatch"
  /\ inBuffer # "SHM"
  /\ pc' = "http"
  /\ UNCHANGED <<script, torn, current, inBuffer, result, input, shut, sent>>

\* ml_http_processHTTPRequest: a page and a listing are followed by shutdown.
RespondHTTP ==
  /\ pc = "http"
  /\ \E message \in (IF inBuffer \in Lines THEN Answers[inBuffer] ELSE {"not implemented"}) :
       /\ Reply(message)
       /\ shut' = (shut \/ message \in {"page", "listing"})
  /\ pc' = "close"
  /\ UNCHANGED <<script, torn, current, inBuffer, result, input>>

\* ml_worker closes the socket and gets the next one; inBuffer stays.
NextConnection ==
  /\ pc = "close"
  /\ IF current < NumConns
     THEN /\ current' = current + 1
          /\ input' = script[current + 1]
          /\ pc' = "read"
     ELSE pc' = "done" /\ UNCHANGED <<current, input>>
  /\ shut' = FALSE
  /\ UNCHANGED <<script, torn, inBuffer, result, sent>>

ConnectionNext ==
  \/ ReadFirst
  \/ AnswerHandshake
  \/ NoHandshake
  \/ RefuseRequest
  \/ TakeRequest
  \/ Share
  \/ DoNotShare
  \/ RespondHTTP
  \/ NextConnection

ConnectionSpec == ConnectionInit /\ [][ConnectionNext]_connectionVars

-----------------------------------------------------------------------------
(* Properties.                                                             *)

Messages == {"NAZALI", "failed to interpret", "page", "listing", "alert",
             "not implemented"}

\* Types.
ConnectionTypeOK ==
  /\ current \in ConnNumbers
  /\ pc \in {"read", "handshake", "result", "dispatch", "http", "close", "done"}
  /\ inBuffer \in Lines \cup {Unset, Garbage}
  /\ result \in BOOLEAN
  /\ input \in Seq(Lines)
  /\ shut \in BOOLEAN
  /\ sent \in [ConnNumbers -> Seq(Messages)]

\* A client's lines without the handshake, which is greeted.
Shakes(lines) == lines # <<>> /\ Head(lines) = "handshake"
Asked(lines) == IF Shakes(lines) THEN Tail(lines) ELSE lines
Greeting(lines) == IF Shakes(lines) THEN <<"NAZALI">> ELSE <<>>

\* What is owed to a client for what it asks, on its socket.
Owed(lines) ==
  IF lines = <<>> THEN {<<"failed to interpret">>}
  ELSE IF Head(lines) = "SHM" THEN {<<>>}
  ELSE {<<message>> : message \in Answers[Head(lines)]}

(***************************************************************************)
(* Each connection is answered once, and for a line of its own: never for  *)
(* one that an earlier connection left in the buffer, though the buffer is *)
(* looked at before result is, and though a request for shared memory is   *)
(* processed a second time as HTTP.  Which answer that is, is settled by   *)
(* the line if it has the words the code looks for; to a line that lacks   *)
(* method or url (GET, blank) it may be the answer that an earlier request *)
(* of the process would have got.  A client that sent no whole line may    *)
(* find the greeting before its refusal.                                   *)
(***************************************************************************)
AnsweredForOwnLines ==
  pc = "close" =>
    LET lines == script[current] IN
    \/ \E answer \in Owed(Asked(lines)) : sent[current] = Greeting(lines) \o answer
    \/ lines = <<>> /\ sent[current] = <<"NAZALI">> \o <<"failed to interpret">>

=============================================================================
