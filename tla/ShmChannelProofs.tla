-------------------------- MODULE ShmChannelProofs --------------------------
(***************************************************************************)
(* For any size of block, header and content and any number of requests:   *)
(* an answer through shared memory comes out in order, and whole unless a  *)
(* semop failed.                                                           *)
(*                                                                         *)
(* What the reader has copied says nothing of what is still to come, so    *)
(* the properties are not inductive.  The invariant follows a byte through *)
(* the block: it says what is pending there (Pending), how far share has   *)
(* come (Written), and that the semaphore keeps worker and reader apart.   *)
(* It comes in two halves, because a failed semop breaks the first and not *)
(* the second: NothingLost counts, Ascending only compares.                *)
(***************************************************************************)
EXTENDS ShmChannel, TLAPS, SequenceTheorems

Sharing == pc \in {"share", "copy", "announce", "release"}

WorkerInside == pc \in {"copy", "announce", "release"}
ReaderInside == reader \in {"looking", "copied", "leaving", "finished"}

\* The semaphore excludes; without it nobody enters any more.
Exclusion ==
  /\ semaphore = "free" => ~WorkerInside /\ ~ReaderInside
  /\ ReaderInside => semaphore = "taken" /\ ~WorkerInside
  /\ semaphore = "removed" <=> reader = "gone"

\* What the places of worker and reader say of the block and the request.
Control ==
  /\ done => pc = "idle"
  /\ reader \in {"idle", "finished"} => pc = "idle" /\ size = 0
  /\ pc \in {"asked", "announce"} => size = 0
  /\ pc \in {"asked"} => received = <<>>
  /\ Sharing => request \in {"unreadable", "page"}
  /\ Sharing /\ part = "content" => request = "page"
  /\ pc = "done" => request \notin {"no_segment", "no_semaphore"}
  /\ pc = "copy" => count < Total

\* The bytes of the block that the reader is still to copy.
Pending ==
  CASE pc = "announce" -> bytes
    [] pc # "announce" /\ reader = "copied" -> 0
    [] OTHER -> size

\* How many bytes of the page share has put into the block so far.
Written ==
  CASE pc = "asked" -> 0
    [] Sharing -> Base + count
    [] OTHER -> Expected

NothingLost ==
  ~cut /\ reader # "idle" =>
    /\ Len(received) + Pending = Written
    /\ \A k \in 1 .. Len(received) : received[k] = k
    /\ \A k \in 1 .. Pending : data[k] = Len(received) + k

\* No byte beyond this has been put into the block.
Upper == IF Sharing THEN Base + count ELSE HeaderLength + ContentLength

Ascending ==
  /\ \A k \in 1 .. Len(received) : received[k] <= Upper
  /\ \A k \in 1 .. Pending : data[k] \in 1 .. Upper
  /\ \A j \in 1 .. Len(received), k \in 1 .. Pending : received[j] < data[k]
  /\ \A j, k \in 1 .. Pending : j < k => data[j] < data[k]
  /\ \A j, k \in 1 .. Len(received) : j < k => received[j] < received[k]

Inv == TypeOK /\ Exclusion /\ Control /\ NothingLost /\ Ascending

-----------------------------------------------------------------------------
(* Each part of Inv is inductive, given the other parts before the step.   *)

\* The initial state.
LEMMA InitInv == Init => Inv
<1> SUFFICES ASSUME Init PROVE Inv
  OBVIOUS
<1> USE ShmAssumption DEF Init
<1>1. TypeOK
  <2>1. done \in BOOLEAN /\ cut \in BOOLEAN
    BY Zenon
  <2>2. data \in [1 .. BlockSize -> Positions \cup {0}]
    OBVIOUS
  <2>3. count \in 0 .. Total /\ bytes \in 0 .. BlockSize /\ size \in 0 .. BlockSize
    BY DEF Total
  <2> QED
    BY <2>1, <2>2, <2>3 DEF TypeOK, Requests
<1>2. Exclusion /\ Control /\ NothingLost
  BY DEF Exclusion, Control, NothingLost, WorkerInside, ReaderInside, Sharing
<1>3. Ascending
  BY DEF Ascending, Pending
<1> QED
  BY <1>1, <1>2, <1>3 DEF Inv

\* A piece is not empty, and fits into the block and into what is left.
LEMMA PieceFits ==
  Inv /\ CopyPiece =>
    /\ bytes' \in 1 .. BlockSize
    /\ count' = count + bytes'
    /\ count' \in 0 .. Total
<1> SUFFICES ASSUME Inv, CopyPiece
             PROVE  bytes' \in 1 .. BlockSize /\ count' = count + bytes' /\ count' \in 0 .. Total
  OBVIOUS
<1>1. Total \in Nat
  BY ShmAssumption DEF Total
<1>2. count \in 0 .. Total /\ count < Total
  BY DEF Inv, TypeOK, Control, CopyPiece
<1>3. /\ bytes' = IF BlockSize < Total - count THEN BlockSize ELSE Total - count
      /\ count' = count + bytes'
  BY DEF CopyPiece, LesserOf
<1> HIDE DEF Total
<1> QED
  BY <1>1, <1>2, <1>3, ShmAssumption

\* What the reader has after it has copied the block.
LEMMA CopiedBlock ==
  Inv /\ ReaderCopies =>
    /\ Pending = size
    /\ received' \in Seq(Positions)
    /\ Len(received') = Len(received) + size
    /\ \A k \in 1 .. Len(received) : received'[k] = received[k]
    /\ \A k \in 1 .. size : received'[Len(received) + k] = data[k]
<1> SUFFICES ASSUME Inv, ReaderCopies
             PROVE  /\ Pending = size
                    /\ received' \in Seq(Positions)
                    /\ Len(received') = Len(received) + size
                    /\ \A k \in 1 .. Len(received) : received'[k] = received[k]
                    /\ \A k \in 1 .. size : received'[Len(received) + k] = data[k]
  OBVIOUS
<1> DEFINE piece == SubSeq(data, 1, size)
<1>1. Pending = size
  BY DEF Inv, Exclusion, ReaderInside, WorkerInside, ReaderCopies, Pending
<1>2. \A k \in 1 .. size : data[k] \in Positions
  BY <1>1, ShmAssumption DEF Inv, Ascending, TypeOK, Upper, Sharing, Base, Positions, Total
<1>3. piece \in Seq(Positions) /\ Len(piece) = size /\ \A k \in 1 .. size : piece[k] = data[k]
  <2>1. data \in Seq(Positions \cup {0}) /\ Len(data) = BlockSize
    BY ShmAssumption DEF Inv, TypeOK
  <2>2. size \in 1 .. BlockSize
    BY DEF Inv, TypeOK, ReaderCopies
  <2>3. piece = [k \in 1 .. size |-> data[k]]
    BY <2>1, <2>2, ShmAssumption
  <2> HIDE DEF piece
  <2> QED
    BY <2>2, <2>3, <1>2, ShmAssumption
<1>4. received \in Seq(Positions) /\ received' = received \o piece
  BY DEF Inv, TypeOK, ReaderCopies
<1>5. size \in Nat /\ Len(received) \in Nat
  BY <1>4, ShmAssumption DEF Inv, TypeOK
<1> HIDE DEF piece
<1>6. /\ received' \in Seq(Positions)
      /\ Len(received') = Len(received) + Len(piece)
      /\ \A k \in 1 .. Len(received) + Len(piece) :
            received'[k] = IF k <= Len(received) THEN received[k]
                           ELSE piece[k - Len(received)]
  BY <1>3, <1>4, ConcatProperties, Zenon
<1>7. \A k \in 1 .. Len(received) : received'[k] = received[k]
  BY <1>3, <1>5, <1>6
<1>8. \A k \in 1 .. size : received'[Len(received) + k] = data[k]
  BY <1>3, <1>5, <1>6
<1> QED
  BY <1>1, <1>3, <1>6, <1>7, <1>8

\* Types.
LEMMA TypeStep == Inv /\ [Next]_vars => TypeOK'
<1> SUFFICES ASSUME Inv, [Next]_vars PROVE TypeOK'
  OBVIOUS
<1> USE ShmAssumption DEF local, block
<1>1. done' \in BOOLEAN /\ cut' \in BOOLEAN
  <2>1. done \in BOOLEAN /\ cut \in BOOLEAN
    BY DEF Inv, TypeOK
  <2>2. CASE Worker
    BY <2>1, <2>2, Zenon
    DEF Worker, ProcessSHMRequest, Acquire, AcquireFails, CopyPiece, LeaveBlock,
        AnnouncePiece, Release, ReleaseFails, Shared, SetDone
  <2>3. CASE Reader
    BY <2>1, <2>3, Zenon
    DEF Reader, ReaderAcquires, ReaderCopies, ReaderEmptiesBlock, ReaderTestsDone,
        ReaderReleases
  <2>4. ASSUME NEW r \in Requests, Ask(r) PROVE done' \in BOOLEAN /\ cut' \in BOOLEAN
    BY <2>4, Zenon DEF Ask
  <2>5. CASE ReaderRemoves \/ UNCHANGED vars
    BY <2>1, <2>5, Zenon DEF ReaderRemoves, vars
  <2> QED
    BY <2>2, <2>3, <2>4, <2>5 DEF Next, Quiet
<1> USE <1>1 DEF Inv, TypeOK, Total, Requests
<1>2. CASE ProcessSHMRequest
  BY <1>2 DEF ProcessSHMRequest
<1>3. CASE Acquire
  BY <1>3 DEF Acquire
<1>4. CASE CopyPiece
  <2>1. bytes' \in 0 .. BlockSize /\ bytes' <= Total - count
    BY <1>4, PieceFits
  <2>2. count' \in 0 .. Total
    BY <1>4, PieceFits
  <2>3. data' \in [1 .. BlockSize -> Positions \cup {0}]
    <3>1. \A k \in 1 .. bytes' : Piece(k) \in Positions
      BY <2>1 DEF Piece, Base, Positions
    <3> QED
      BY <1>4, <2>1, <3>1 DEF CopyPiece
  <2> QED
    BY <1>4, <2>1, <2>2, <2>3 DEF CopyPiece
<1>5. CASE LeaveBlock \/ AnnouncePiece \/ Release
  BY <1>5 DEF LeaveBlock, AnnouncePiece, Release
<1>6. CASE Shared \/ AcquireFails \/ ReleaseFails
  BY <1>6 DEF Shared, AcquireFails, ReleaseFails, ReturnFromShare
<1>7. CASE SetDone
  BY <1>7 DEF SetDone
<1>8. CASE ReaderCopies
  BY <1>8, CopiedBlock DEF ReaderCopies
<1>9. CASE ReaderAcquires \/ ReaderEmptiesBlock \/ ReaderTestsDone \/ ReaderReleases
  BY <1>9 DEF ReaderAcquires, ReaderEmptiesBlock, ReaderTestsDone, ReaderReleases
<1>10. ASSUME NEW r \in Requests, Ask(r) PROVE TypeOK'
  BY <1>10 DEF Ask
<1>11. CASE ReaderRemoves \/ UNCHANGED vars
  BY <1>11 DEF ReaderRemoves, vars
<1> QED
  BY <1>2, <1>3, <1>4, <1>5, <1>6, <1>7, <1>8, <1>9, <1>10, <1>11
  DEF Next, Worker, Reader, Quiet

\* Where worker and reader are.
LEMMA PlacesStep == Inv /\ [Next]_vars => Exclusion' /\ Control'
<1> SUFFICES ASSUME Inv, [Next]_vars PROVE Exclusion' /\ Control'
  OBVIOUS
<1> USE ShmAssumption
    DEF Inv, TypeOK, Exclusion, Control, WorkerInside, ReaderInside, Sharing,
        Total, local, block, Requests
<1>1. CASE ProcessSHMRequest
  BY <1>1 DEF ProcessSHMRequest
<1>2. CASE Acquire \/ AcquireFails
  BY <1>2 DEF Acquire, AcquireFails, ReturnFromShare
<1>3. CASE CopyPiece
  BY <1>3 DEF CopyPiece, BlockIsEmpty
<1>4. CASE LeaveBlock \/ AnnouncePiece \/ Release \/ ReleaseFails
  BY <1>4 DEF LeaveBlock, AnnouncePiece, Release, ReleaseFails, ReturnFromShare
<1>5. CASE Shared \/ SetDone
  BY <1>5 DEF Shared, SetDone, ReturnFromShare
<1>6. CASE ReaderCopies
  BY <1>6 DEF ReaderCopies
<1>7. CASE ReaderAcquires \/ ReaderEmptiesBlock \/ ReaderTestsDone \/ ReaderReleases
  BY <1>7 DEF ReaderAcquires, ReaderEmptiesBlock, ReaderTestsDone, ReaderReleases
<1>8. ASSUME NEW r \in Requests, Ask(r) PROVE Exclusion' /\ Control'
  BY <1>8 DEF Ask
<1>9. CASE ReaderRemoves \/ UNCHANGED vars
  BY <1>9 DEF ReaderRemoves, vars
<1> QED
  BY <1>1, <1>2, <1>3, <1>4, <1>5, <1>6, <1>7, <1>8, <1>9
  DEF Next, Worker, Reader, Quiet

\* Byte after byte goes through the block while no semop fails.
LEMMA NothingLostStep == Inv /\ [Next]_vars => NothingLost'
<1> SUFFICES ASSUME Inv, [Next]_vars, ~cut', reader' # "idle" PROVE NothingLost'
  BY DEF NothingLost
<1> USE ShmAssumption
    DEF Inv, TypeOK, Exclusion, Control, NothingLost, WorkerInside, ReaderInside,
        Sharing, Total, Base, Pending, Written, Expected, local, block, Requests
<1>1. CASE ProcessSHMRequest
  BY <1>1 DEF ProcessSHMRequest
<1>2. CASE Acquire
  BY <1>2 DEF Acquire
<1>3. CASE CopyPiece
  <2>1. /\ bytes' \in Nat /\ count' = count + bytes' /\ pc' = "announce"
        /\ UNCHANGED <<part, received, reader, cut, request>>
    <3>1. pc' = "announce" /\ UNCHANGED <<part, received, reader, cut, request>>
      BY <1>3 DEF CopyPiece
    <3> QED
      BY <1>3, <3>1, PieceFits
  <2>2. \A k \in 1 .. bytes' : data'[k] = Base + count + k
    <3>1. bytes' <= BlockSize
      BY <1>3, PieceFits
    <3> HIDE DEF Base
    <3> QED
      BY <1>3, <2>1, <3>1 DEF CopyPiece, Piece
  <2>3. pc = "copy" /\ Pending = 0 /\ Written = Base + count
    BY <1>3 DEF CopyPiece, BlockIsEmpty
  <2>4. /\ Len(received) = Base + count
        /\ \A k \in 1 .. Len(received) : received[k] = k
    <3> HIDE DEF Pending, Written
    <3> QED
      BY <2>1, <2>3
  <2>5. Pending' = bytes' /\ Written' = Base + count + bytes'
    BY <2>1
  <2> HIDE DEF Pending, Written, Base
  <2> QED
    BY <2>1, <2>2, <2>4, <2>5
<1>4. CASE LeaveBlock \/ AnnouncePiece \/ Release
  BY <1>4 DEF LeaveBlock, AnnouncePiece, Release
<1>5. CASE Shared
  BY <1>5 DEF Shared, ReturnFromShare
<1>6. CASE SetDone
  BY <1>6 DEF SetDone
<1>7. CASE ReaderCopies
  <2>1. /\ received \in Seq(Positions) /\ size \in Nat
        /\ Len(received') = Len(received) + size
        /\ \A k \in 1 .. Len(received) : received'[k] = received[k]
        /\ \A k \in 1 .. size : received'[Len(received) + k] = data[k]
    BY <1>7, CopiedBlock
  <2>2. Pending' = 0 /\ Written' = Written
    BY <1>7 DEF ReaderCopies
  <2>3. /\ Len(received) + size = Written
        /\ \A k \in 1 .. Len(received) : received[k] = k
        /\ \A k \in 1 .. size : data[k] = Len(received) + k
    BY <1>7, CopiedBlock DEF ReaderCopies
  <2>4. \A k \in 1 .. Len(received') :
           \/ k \in 1 .. Len(received)
           \/ k - Len(received) \in 1 .. size /\ k = Len(received) + (k - Len(received))
    <3> HIDE DEF Inv, TypeOK, NothingLost, Exclusion, Control, Written, Pending
    <3>1. Len(received) \in Nat
      BY <2>1
    <3> QED
      BY <2>1, <3>1
  <2>5. \A k \in 1 .. Len(received') : received'[k] = k
    BY <2>1, <2>3, <2>4
  <2> HIDE DEF Pending, Written
  <2> QED
    BY <2>1, <2>2, <2>3, <2>5
<1>8. CASE ReaderAcquires \/ ReaderEmptiesBlock \/ ReaderTestsDone \/ ReaderReleases
  BY <1>8 DEF ReaderAcquires, ReaderEmptiesBlock, ReaderTestsDone, ReaderReleases
<1>9. ASSUME NEW r \in Requests, Ask(r) PROVE NothingLost'
  BY <1>9 DEF Ask
<1>10. CASE ReaderRemoves \/ UNCHANGED vars
  BY <1>10 DEF ReaderRemoves, vars
<1>11. CASE AcquireFails \/ ReleaseFails
  BY <1>11 DEF AcquireFails, ReleaseFails
<1> QED
  BY <1>1, <1>2, <1>3, <1>4, <1>5, <1>6, <1>7, <1>8, <1>9, <1>10, <1>11
  DEF Next, Worker, Reader, Quiet

\* A step that leaves the bytes alone and takes no place back keeps their order.
LEMMA AscendingKept ==
  Inv /\ Upper' \in Int /\ Upper' >= Upper /\ Pending' = Pending
      /\ UNCHANGED <<received, data>> => Ascending'
<1> SUFFICES ASSUME Inv, Upper' \in Int, Upper' >= Upper, Pending' = Pending,
                    UNCHANGED <<received, data>>
             PROVE  Ascending'
  OBVIOUS
<1>1. Upper \in Int /\ received \in Seq(Int)
  BY ShmAssumption DEF Inv, TypeOK, Upper, Base, Total, Positions
<1> QED
  BY <1>1 DEF Inv, Ascending

\* Whatever fails, what share puts into the block next comes later in the page.
LEMMA AscendingStep == Inv /\ [Next]_vars => Ascending'
<1> SUFFICES ASSUME Inv, [Next]_vars PROVE Ascending'
  OBVIOUS
<1> USE ShmAssumption DEF Sharing, Total, Base, Pending, Upper, local, block
<1> DEFINE Keeps == /\ Upper' \in Int /\ Upper' >= Upper /\ Pending' = Pending
                    /\ UNCHANGED <<received, data>>
<1>1. /\ count \in 0 .. Total /\ part \in {"header", "content"}
      /\ bytes \in 0 .. BlockSize /\ size \in 0 .. BlockSize
      /\ received \in Seq(Positions)
  BY DEF Inv, TypeOK
<1>2. CASE ProcessSHMRequest
  <2>1. pc = "asked" /\ received = <<>> /\ size = 0
    BY <1>2 DEF ProcessSHMRequest, Inv, Control
  <2>2. received' = <<>> /\ Pending' = 0
    BY <1>2, <2>1 DEF ProcessSHMRequest
  <2> HIDE DEF Pending, Upper
  <2> QED
    BY <2>2 DEF Ascending
<1>3. CASE Acquire \/ AcquireFails
  <2>1. Keeps
    BY <1>1, <1>3 DEF Acquire, AcquireFails, ReturnFromShare
  <2> QED
    BY <2>1, AscendingKept
<1>4. CASE CopyPiece
  <2>1. /\ bytes' \in 1 .. BlockSize /\ Pending' = bytes' /\ Upper' = Upper + bytes'
        /\ Upper = Base + count /\ Upper \in Nat /\ received' = received
    BY <1>1, <1>4, PieceFits DEF CopyPiece
  <2>2. \A k \in 1 .. bytes' : data'[k] = Upper + k
    BY <1>4, <2>1 DEF CopyPiece, Piece
  <2>3. /\ \A k \in 1 .. Len(received) : received[k] <= Upper
        /\ \A j, k \in 1 .. Len(received) : j < k => received[j] < received[k]
        /\ received \in Seq(Int)
    BY <1>1 DEF Inv, Ascending, Positions
  <2> HIDE DEF Pending, Upper
  <2>4. /\ \A k \in 1 .. Len(received') : received'[k] <= Upper'
        /\ \A k \in 1 .. Pending' : data'[k] \in 1 .. Upper'
    <3>1. \A k \in 1 .. Len(received') : received'[k] <= Upper'
      BY <2>1, <2>3
    <3>2. \A k \in 1 .. Pending' : data'[k] \in 1 .. Upper'
      BY <2>1, <2>2
    <3> QED
      BY <3>1, <3>2
  <2>5. \A j \in 1 .. Len(received'), k \in 1 .. Pending' : received'[j] < data'[k]
    BY <2>1, <2>2, <2>3
  <2>6. /\ \A j, k \in 1 .. Pending' : j < k => data'[j] < data'[k]
        /\ \A j, k \in 1 .. Len(received') : j < k => received'[j] < received'[k]
    BY <2>1, <2>2, <2>3
  <2> QED
    BY <2>4, <2>5, <2>6 DEF Ascending
<1>5. CASE LeaveBlock \/ AnnouncePiece \/ Release \/ ReleaseFails
  <2>1. ~ReaderInside
    BY <1>5 DEF Inv, Exclusion, WorkerInside, LeaveBlock, AnnouncePiece, Release, ReleaseFails
  <2>2. Keeps
    BY <1>1, <1>5, <2>1
    DEF LeaveBlock, AnnouncePiece, Release, ReleaseFails, ReturnFromShare, ReaderInside
  <2> QED
    BY <2>2, AscendingKept
<1>6. CASE Shared \/ SetDone
  <2>1. Keeps
    BY <1>1, <1>6 DEF Shared, SetDone, ReturnFromShare
  <2> QED
    BY <2>1, AscendingKept
<1>7. CASE ReaderCopies
  <2>1. Pending' = 0 /\ Upper' = Upper /\ Upper \in Int /\ Pending = size
    <3>1. pc # "announce"
      BY <1>7 DEF Inv, Exclusion, ReaderInside, WorkerInside, ReaderCopies
    <3> QED
      BY <1>1, <1>7, <3>1 DEF ReaderCopies
  <2>2. /\ received \in Seq(Int) /\ size \in Nat
        /\ Len(received') = Len(received) + size
        /\ \A k \in 1 .. Len(received) : received'[k] = received[k]
        /\ \A k \in 1 .. size : received'[Len(received) + k] = data[k]
    BY <1>1, <1>7, CopiedBlock DEF Positions
  <2>3. /\ \A k \in 1 .. Len(received) : received[k] <= Upper
        /\ \A k \in 1 .. size : data[k] \in 1 .. Upper
        /\ \A j \in 1 .. Len(received), k \in 1 .. size : received[j] < data[k]
        /\ \A j, k \in 1 .. size : j < k => data[j] < data[k]
        /\ \A j, k \in 1 .. Len(received) : j < k => received[j] < received[k]
    BY <2>1, Zenon DEF Inv, Ascending
  <2> HIDE DEF Pending, Upper
  <2>4. \A k \in 1 .. Len(received') :
           \/ k \in 1 .. Len(received) /\ received'[k] = received[k]
           \/ k - Len(received) \in 1 .. size /\ received'[k] = data[k - Len(received)]
    BY <2>2
  <2>5. ASSUME NEW k \in 1 .. Len(received')
        PROVE  received'[k] <= Upper'
    <3>1. CASE k \in 1 .. Len(received) /\ received'[k] = received[k]
      BY <2>1, <2>3, <3>1
    <3>2. CASE k - Len(received) \in 1 .. size /\ received'[k] = data[k - Len(received)]
      BY <2>1, <2>3, <3>2
    <3> QED
      BY <2>4, <3>1, <3>2
  <2>6. ASSUME NEW j \in 1 .. Len(received'), NEW k \in 1 .. Len(received'), j < k
        PROVE  received'[j] < received'[k]
    <3>1. CASE k \in 1 .. Len(received)
      BY <2>2, <2>3, <2>6, <3>1
    <3>2. CASE k - Len(received) \in 1 .. size /\ received'[k] = data[k - Len(received)]
      <4>1. CASE j \in 1 .. Len(received)
        BY <2>2, <2>3, <2>6, <3>2, <4>1
      <4>2. CASE j - Len(received) \in 1 .. size /\ received'[j] = data[j - Len(received)]
        BY <2>2, <2>3, <2>6, <3>2, <4>2
      <4> QED
        BY <2>4, <4>1, <4>2
    <3> QED
      BY <2>4, <3>1, <3>2
  <2> QED
    BY <2>1, <2>5, <2>6 DEF Ascending
<1>8. CASE ReaderAcquires \/ ReaderEmptiesBlock \/ ReaderTestsDone \/ ReaderReleases
  <2>1. ReaderAcquires => ~WorkerInside
    BY DEF Inv, Exclusion, ReaderAcquires
  <2>2. pc # "announce"
    BY <1>8, <2>1 DEF Inv, Exclusion, WorkerInside, ReaderInside, ReaderEmptiesBlock,
                      ReaderTestsDone, ReaderReleases
  <2>3. Keeps
    BY <1>1, <1>8, <2>2
    DEF ReaderAcquires, ReaderEmptiesBlock, ReaderTestsDone, ReaderReleases
  <2> QED
    BY <2>3, AscendingKept
<1>9. ASSUME NEW r \in Requests, Ask(r) PROVE Ascending'
  <2>1. received' = <<>> /\ Pending' = 0
    BY <1>9 DEF Ask, Inv, Control
  <2> HIDE DEF Pending, Upper
  <2> QED
    BY <2>1 DEF Ascending
<1>10. CASE ReaderRemoves \/ UNCHANGED vars
  <2>1. Keeps
    BY <1>1, <1>10 DEF ReaderRemoves, vars
  <2> QED
    BY <2>1, AscendingKept
<1> QED
  BY <1>2, <1>3, <1>4, <1>5, <1>6, <1>7, <1>8, <1>9, <1>10
  DEF Next, Worker, Reader, Quiet

\* All parts together.
LEMMA InvHolds == Spec => []Inv
<1>1. Inv /\ [Next]_vars => Inv'
  BY TypeStep, PlacesStep, NothingLostStep, AscendingStep DEF Inv
<1> QED
  BY InitInv, <1>1, PTL DEF Spec

-----------------------------------------------------------------------------

\* The types of all variables.
THEOREM ShmTypes == Spec => []TypeOK
<1>1. Inv => TypeOK
  BY DEF Inv
<1> QED
  BY <1>1, InvHolds, PTL

(***************************************************************************)
(* The reader obtains the bytes in their order, none of them twice, even   *)
(* when a semop of share fails on the way.                                 *)
(***************************************************************************)
THEOREM BytesInOrder == Spec => []InOrder
<1>1. Inv => InOrder
  <2> SUFFICES ASSUME Inv, NEW k \in 1 .. Len(received) - 1
               PROVE  received[k] < received[k + 1]
    BY DEF InOrder
  <2>1. k \in 1 .. Len(received) /\ k + 1 \in 1 .. Len(received) /\ k < k + 1
    BY DEF Inv, TypeOK
  <2> QED
    BY <2>1 DEF Inv, Ascending
<1> QED
  BY <1>1, InvHolds, PTL

(***************************************************************************)
(* A reader that found the block empty and done set has the whole answer,  *)
(* although done is set without the semaphore.                             *)
(***************************************************************************)
THEOREM WholeAnswer == Spec => []WholeWhenFinished
<1>1. Inv => WholeWhenFinished
  <2> SUFFICES ASSUME Inv, reader = "finished", ~cut
               PROVE  received = [k \in 1 .. Expected |-> k]
    BY DEF WholeWhenFinished
  <2>1. pc = "idle" /\ Pending = 0
    BY DEF Inv, Control, Pending
  <2>2. Len(received) = Expected /\ \A k \in 1 .. Len(received) : received[k] = k
    BY <2>1 DEF Inv, TypeOK, NothingLost, Written, Sharing
  <2> QED
    BY <2>2 DEF Inv, TypeOK
<1> QED
  BY <1>1, InvHolds, PTL

=============================================================================
