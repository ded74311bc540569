----------------------------- MODULE ShmChannel -----------------------------
(***************************************************************************)
(* An answer through shared memory: ml_http_processSHMRequest, the beast   *)
(* functions and share in the server's http.c.                             *)
(*                                                                         *)
(* A client asks for a page and names a segment and a semaphore.  The      *)
(* worker passes header and content through the one block of the segment,  *)
(* piece after piece, each into a block that the reader has emptied        *)
(* (header.size = 0), under the semaphore; at the end it sets header.done, *)
(* without the semaphore.  The repository does not have the reader.  Here  *)
(* it does what the segment's two fields suggest: it takes the semaphore,  *)
(* empties a block that has data, and is finished when it finds no data    *)
(* and done set.  It may then ask again with the same segment.             *)
(*                                                                         *)
(* A byte is its position in the page: header 1 .. HeaderLength, then      *)
(* the content.                                                            *)
(***************************************************************************)
EXTENDS Integers, Sequences

CONSTANTS BlockSize,      \* sizeof(block->data)
          HeaderLength,   \* strlen(header)
          ContentLength,  \* the file's size, or the length of the listing
          MaxRequests     \* the reader asks so many times (a bound for TLC)

ASSUME ShmAssumption ==
  /\ BlockSize \in Nat \ {0}
  /\ HeaderLength \in Nat
  /\ ContentLength \in Nat
  /\ MaxRequests \in Nat

VARIABLES requests,  \* how often the reader has asked
          request,   \* what becomes of the present request
          pc,        \* where the worker is
          part,      \* the call of share: "header" or "content"
          count,     \* share's local variables
          bytes,
          done,      \* block->header.done
          size,      \* block->header.size
          data,      \* block->data
          semaphore, \* "free", "taken" or "removed"
          cut,       \* a semop has failed: share returned early
          reader,    \* where the reader is
          received   \* what it has copied out of the block

vars == <<requests, request, pc, part, count, bytes, done, size, data,
          semaphore, cut, reader, received>>

block == <<done, size, data>>
local == <<part, count, bytes>>

(***************************************************************************)
(* How a request can end: the segment cannot be opened or attached; it can *)
(* and the semaphore cannot (the request named none, or not the reader's); *)
(* the url is refused; the file exists and cannot be opened; or the page   *)
(* is sent.                                                                *)
(***************************************************************************)
Requests == {"no_segment", "no_semaphore", "refused", "unreadable", "page"}

Positions == 1 .. HeaderLength + ContentLength

Init ==
  /\ requests = 0
  /\ request = "page"
  /\ pc = "idle"
  /\ part = "header"
  /\ count = 0
  /\ bytes = 0
  /\ done = FALSE
  /\ size = 0
  /\ data = [k \in 1 .. BlockSize |-> 0]
  /\ semaphore = "free"
  /\ cut = FALSE
  /\ reader = "idle"
  /\ received = <<>>

-----------------------------------------------------------------------------
(* The worker.                                                             *)

Total == IF part = "header" THEN HeaderLength ELSE ContentLength
Base == IF part = "header" THEN 0 ELSE HeaderLength

\* ml_http_processSHMRequest up to the first call of share.  Without the
\* semaphore it detaches the segment and leaves done as it is.
ProcessSHMRequest ==
  /\ pc = "asked"
  /\ \/ request \in {"no_segment", "no_semaphore"} /\ pc' = "idle"
     \/ request = "refused" /\ pc' = "done"
     \/ request \in {"unreadable", "page"} /\ pc' = "share"
  /\ part' = "header"
  /\ count' = 0
  /\ UNCHANGED <<requests, request, bytes, block, semaphore, cut, reader, received>>

Acquire ==
  /\ pc = "share"
  /\ count < Total
  /\ semaphore = "free"
  /\ semaphore' = "taken"
  /\ pc' = "copy"
  /\ UNCHANGED <<requests, request, local, block, cut, reader, received>>

\* Back to beast: after the header the content, unless fopen fails.
ReturnFromShare ==
  /\ IF part = "header" /\ request # "unreadable"
     THEN part' = "content" /\ pc' = "share"
     ELSE pc' = "done" /\ UNCHANGED part
  /\ count' = 0
  /\ UNCHANGED bytes

Shared ==
  /\ pc = "share"
  /\ count = Total
  /\ ReturnFromShare
  /\ UNCHANGED <<requests, request, block, semaphore, cut, reader, received>>

\* semop fails: the semaphore was removed, or a signal interrupts its wait.
\* AcquireAgain would call it once more.
AcquireAgain ==
  /\ pc = "share"
  /\ count < Total
  /\ semaphore # "free"
  /\ UNCHANGED vars

AcquireFails ==
  /\ pc = "share"
  /\ count < Total
  /\ semaphore # "free"
  /\ cut' = TRUE
  /\ ReturnFromShare
  /\ UNCHANGED <<requests, request, block, semaphore, reader, received>>

(***************************************************************************)
(* memcpy and count += bytes, when the block is empty.  PieceAtStart       *)
(* forgets that the response has been sent up to count; OverwriteBlock     *)
(* does not look at size; FullBlock sends no shorter piece at the end.     *)
(***************************************************************************)
PieceAtStart(k) == Base + k
Piece(k) == Base + count + k

OverwriteBlock == TRUE
BlockIsEmpty == size = 0

LesserOf(a, b) == IF a < b THEN a ELSE b

CopyPiece ==
  /\ pc = "copy"
  /\ BlockIsEmpty
  /\ bytes' = LesserOf(BlockSize, Total - count)
  /\ data' = [k \in 1 .. BlockSize |-> IF k <= bytes' THEN Piece(k) ELSE data[k]]
  /\ count' = count + bytes'
  /\ pc' = "announce"
  /\ UNCHANGED <<requests, request, part, done, size, semaphore, cut, reader, received>>

\* The reader has not been here since the last piece.
LeaveBlock ==
  /\ pc = "copy"
  /\ ~BlockIsEmpty
  /\ pc' = "release"
  /\ UNCHANGED <<requests, request, local, block, semaphore, cut, reader, received>>

AnnouncePiece ==
  /\ pc = "announce"
  /\ size' = bytes
  /\ pc' = "release"
  /\ UNCHANGED <<requests, request, local, done, data, semaphore, cut, reader, received>>

Release ==
  /\ pc = "release"
  /\ semaphore = "taken"
  /\ semaphore' = "free"
  /\ pc' = "share"
  /\ UNCHANGED <<requests, request, local, block, cut, reader, received>>

\* The semaphore is gone.
ReleaseFails ==
  /\ pc = "release"
  /\ semaphore = "removed"
  /\ cut' = TRUE
  /\ ReturnFromShare
  /\ UNCHANGED <<requests, request, block, semaphore, reader, received>>

\* header.done, then the segment is detached.  DetachOnly would set it only
\* when something was shared.
DetachOnly ==
  /\ pc = "done"
  /\ done' = (request # "refused")
  /\ pc' = "idle"
  /\ UNCHANGED <<requests, request, local, size, data, semaphore, cut, reader, received>>

SetDone ==
  /\ pc = "done"
  /\ done' = TRUE
  /\ pc' = "idle"
  /\ UNCHANGED <<requests, request, local, size, data, semaphore, cut, reader, received>>

Worker ==
  \/ ProcessSHMRequest
  \/ Acquire
  \/ AcquireFails
  \/ CopyPiece
  \/ LeaveBlock
  \/ AnnouncePiece
  \/ Release
  \/ ReleaseFails
  \/ Shared
  \/ SetDone

-----------------------------------------------------------------------------
(* The reader.                                                             *)

\* It has prepared the segment: nothing in the block, done not set.
Ask(r) ==
  /\ reader = "idle"
  /\ requests < MaxRequests
  /\ requests' = requests + 1
  /\ request' = r
  /\ pc' = "asked"
  /\ done' = FALSE
  /\ cut' = FALSE
  /\ received' = <<>>
  /\ reader' = "reading"
  /\ UNCHANGED <<local, size, data, semaphore>>

ReaderAcquires ==
  /\ reader = "reading"
  /\ semaphore = "free"
  /\ semaphore' = "taken"
  /\ reader' = "looking"
  /\ UNCHANGED <<requests, request, pc, local, block, cut, received>>

ReaderCopies ==
  /\ reader = "looking"
  /\ size > 0
  /\ received' = received \o SubSeq(data, 1, size)
  /\ reader' = "copied"
  /\ UNCHANGED <<requests, request, pc, local, block, semaphore, cut>>

ReaderEmptiesBlock ==
  /\ reader = "copied"
  /\ size' = 0
  /\ reader' = "leaving"
  /\ UNCHANGED <<requests, request, pc, local, done, data, semaphore, cut, received>>

\* Without data, done says whether more will come.
ReaderTestsDone ==
  /\ reader = "looking"
  /\ size = 0
  /\ \/ done /\ reader' = "finished"
     \/ ~done /\ reader' = "leaving"
  /\ UNCHANGED <<requests, request, pc, local, block, semaphore, cut, received>>

ReaderReleases ==
  /\ semaphore' = "free"
  /\ \/ reader = "finished" /\ reader' = "idle"
     \/ reader = "leaving" /\ reader' = "reading"
  /\ UNCHANGED <<requests, request, pc, local, block, cut, received>>

\* It gives up and removes the semaphore.
ReaderRemoves ==
  /\ reader = "reading"
  /\ semaphore' = "removed"
  /\ reader' = "gone"
  /\ UNCHANGED <<requests, request, pc, local, block, cut, received>>

Reader ==
  \/ ReaderAcquires
  \/ ReaderCopies
  \/ ReaderEmptiesBlock
  \/ ReaderTestsDone
  \/ ReaderReleases

\* There is nothing left to do.
Quiet ==
  /\ pc = "idle"
  /\ \/ reader = "gone"
     \/ reader = "idle" /\ requests = MaxRequests
  /\ UNCHANGED vars

Next ==
  \/ Worker
  \/ Reader
  \/ \E r \in Requests : Ask(r)
  \/ ReaderRemoves
  \/ Quiet

Spec == Init /\ [][Next]_vars

(***************************************************************************)
(* The kernel serves those who sleep in semop in their order, so that each *)
(* obtains a semaphore that is released again and again.  The reader goes  *)
(* on reading, or gives up: it need not ask.  Nothing is owed to a signal  *)
(* or to ReaderRemoves.                                                    *)
(***************************************************************************)
Fairness ==
  /\ WF_vars(ProcessSHMRequest \/ CopyPiece \/ LeaveBlock \/ AnnouncePiece
               \/ Release \/ ReleaseFails \/ Shared \/ SetDone)
  /\ WF_vars(AcquireFails /\ semaphore = "removed")
  /\ SF_vars(Acquire)
  /\ SF_vars(ReaderAcquires)
  /\ WF_vars(ReaderCopies \/ ReaderEmptiesBlock \/ ReaderTestsDone \/ ReaderReleases)

FairSpec == Spec /\ Fairness

-----------------------------------------------------------------------------
(* Properties.                                                             *)

\* Types.
TypeOK ==
  /\ requests \in 0 .. MaxRequests
  /\ request \in Requests
  /\ pc \in {"idle", "asked", "share", "copy", "announce", "release", "done"}
  /\ part \in {"header", "content"}
  /\ count \in 0 .. Total
  /\ bytes \in 0 .. BlockSize
  /\ done \in BOOLEAN
  /\ size \in 0 .. BlockSize
  /\ data \in [1 .. BlockSize -> Positions \cup {0}]
  /\ semaphore \in {"free", "taken", "removed"}
  /\ cut \in BOOLEAN
  /\ reader \in {"idle", "reading", "looking", "copied", "leaving", "finished", "gone"}
  /\ received \in Seq(Positions)

\* What a request that runs to its end is to bring.
Expected ==
  CASE request = "page" -> HeaderLength + ContentLength
    [] request = "unreadable" -> HeaderLength
    [] OTHER -> 0

(***************************************************************************)
(* The bytes arrive in their order, none twice and none made up, whoever   *)
(* is faster; a semop that fails may leave bytes out, never repeat them.   *)
(***************************************************************************)
InOrder ==
  \A k \in 1 .. Len(received) - 1 : received[k] < received[k + 1]

(***************************************************************************)
(* done is set outside of the critical section, while the last piece may   *)
(* still be in the block; a reader that empties the block before it        *)
(* believes done has the whole answer all the same, unless a semop failed. *)
(***************************************************************************)
WholeWhenFinished ==
  reader = "finished" /\ ~cut => received = [k \in 1 .. Expected |-> k]

(***************************************************************************)
(* A request whose segment and semaphore the worker could open comes to    *)
(* its end at a reader that goes on reading: also one that is refused,     *)
(* which brings nothing but done.  Nothing is promised to the reader of a  *)
(* segment that was attached while the semaphore could not be opened: done *)
(* is not set, and it waits until it gives up by itself.                   *)
(***************************************************************************)
ReaderFinishes ==
  reader = "reading" /\ request \in {"refused", "unreadable", "page"}
    ~> reader \in {"finished", "gone"}

\* The worker comes back from share, which spins on the semaphore while the
\* block is full, if the reader reads on or removes the semaphore.
WorkerReturns == pc # "idle" ~> pc = "idle"

=============================================================================
